CONSTANTS
    Second = 12
    MaxRates = {6, 12}
    ConcurrencyFlags = {1, 2}
    MaxTime = 13
    StartDelay = 1
    PartitionCounts = {1, 2, 3}
    ClusteringRowCounts = {1, 2}
    ReaderConcurrencies = {1, 2}
SPECIFICATION Spec
INVARIANTS RateRespected WritersApart NewerRowsSmaller FullGenerations ReaderSafe OlderRowsWritten
