CONSTANTS
    Workers = {w1, w2}
    Modes = {"write", "batch", "counter_update", "read", "scan", "mixed"}
    RetryHandlers = {"sb", "gocql"}
    RetryNumber = 2
    HalfMin = 1
    MaxInterval = 3
    RowsPerRequest = 2
    MeasureLatency = TRUE
    Durations = {3}
    CutoffTime = 2
    MaxOps = 4
    MaxRows = 2
SPECIFICATION FairSpec
INVARIANTS ErrorsAreFinal CountedOnce SamplesPerOperation MixedHalves RowsWritten
PROPERTIES OperationsReturn
