CONSTANTS
    Concurrencies = {1, 2, 3, 4}
    PartitionCounts = {1, 2, 3}
    PartitionOffsets = {0, 2}
    ClusteringRowCounts = {1, 2, 3}
    Consumers = {"row", "batch", "in"}
    RequestSizes = {1, 2, 3}
    IterationCounts = {1, 2}
    MaxOps = 20
SPECIFICATION FairSpec
INVARIANTS OwnRows VisitsInOrder EachRowOncePerIteration
PROPERTIES VisitEnds
