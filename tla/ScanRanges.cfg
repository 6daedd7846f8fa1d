CONSTANTS
    HalfTokens = 16
    ConcurrencyFlags = {1, 2, 3, 6}
    RangeCounts = {1, 2, 3, 4, 5, 6, 7, 15}
    IterationCounts = {1, 2}
SPECIFICATION Spec
INVARIANTS RangesForward GoroutinesDisjoint EveryTokenOncePerIteration
