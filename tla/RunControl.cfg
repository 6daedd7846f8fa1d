CONSTANTS
    Workers = {w1, w2}
    MaxErrors = 2
    MaxErrorsAtRow = 2
    Iterations = 3
    RowCount = 1
    Endless = FALSE
    Duration = TRUE
    MaxOps = 3
    MaxInterrupts = 2
SPECIFICATION FairSpec
INVARIANTS TypeOK TotalErrorsBound StatusReportsLimits OneLateOp SummaryShowsErrors
PROPERTIES RunAsPromised
