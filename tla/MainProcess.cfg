CONSTANTS
    MaxConcurrency = 2
    MaxCounted = 4
    Counts = {0, 1, 2}
    RowSizes = {0, 3}
    WordCount = 32
SPECIFICATION MainSpec
INVARIANTS SummaryComplete ShownOnce LinesComplete AcceptedRuns SizesEvenlyDrawn
