\* One worker beside the printer, and the flush at the end.
CONSTANTS
    Pushers = {w1}
    Reporters = {printer, main}
    FinalReporters = {main}
    Limit = 2
    MaxPush = 2
    MaxSwaps = 1
    Zero = Zero
    Free = Free
SPECIFICATION Spec
INVARIANTS NothingLost
