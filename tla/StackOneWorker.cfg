\* -concurrency 1: the total result's stack is flushed by the worker and at the end.
CONSTANTS
    Pushers = {w1}
    Reporters = {main}
    FinalReporters = {main}
    Limit = 2
    MaxPush = 6
    MaxSwaps = 1
    Zero = Zero
    Free = Free
SPECIFICATION FairSpec
INVARIANTS NoPanicWhenSafe Complete
PROPERTIES RecordsEverySample
