CONSTANTS
    MaxConcurrency = 2
    MaxCounted = 1
    Counts = {1}
    RowSizes = {1}
    WordCount = 32
SPECIFICATION MainSpec
INVARIANTS RateLimitApplies
