CONSTANTS
    Workers = {w1}
    Modes = {"read"}
    RetryHandlers = {"sb"}
    RetryNumber = 2
    HalfMin = 1
    MaxInterval = 5
    RowsPerRequest = 2
    MeasureLatency = TRUE
    Durations = {1, 3}
    CutoffTime = 2
    MaxOps = 1
    MaxRows = 2
SPECIFICATION Spec
INVARIANTS FailuresAreSeen
