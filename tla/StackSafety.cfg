\* Two workers and the printer: the partial result's stack.
CONSTANTS
    Pushers = {w1, w2}
    Reporters = {printer}
    FinalReporters = {}
    Limit = 2
    MaxPush = 2
    MaxSwaps = 1
    Zero = Zero
    Free = Free
SPECIFICATION FairSpec
INVARIANTS TypeOK RetiredBuffer Overshoot
PROPERTIES CallsReturn
