CONSTANTS
    CellBits = 4
    WordCells = 2
    ChecksumCells = 1
    MinSize = 9
    PkFactor = 45
    CkFactor = 179
    Shift1 = 7
    Shift2 = 5
    Shift3 = 3
    Sizes = {1, 2, 3, 5, 6, 7, 8, 9, 10, 11}
    PartitionKeys = {0, 1, 2, 19, 100}
    ClusteringKeys = {0, 1, 40}
    MaxUpdates = 4
    WordCount = 32
SPECIFICATION RowSpec
INVARIANTS Intact FaultsDetected RandomDataNonZero
CHECK_DEADLOCK FALSE
