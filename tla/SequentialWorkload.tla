-------------------------- MODULE SequentialWorkload --------------------------
(***************************************************************************)
(* The sequential workload: how GetWorkload (main.go) splits the population *)
(* of partitions and rows between the goroutines, SequentialVisitAll        *)
(* (pkg/workloads), which walks one part of it, the TestIterator that       *)
(* repeats the walk, and the calls that the modes (modes.go) make for one   *)
(* operation.  The goroutines share nothing but the flags.                  *)
(***************************************************************************)
EXTENDS Integers, Sequences, FiniteSets

CONSTANTS
    Concurrencies,       \* the values of -concurrency considered
    PartitionCounts,     \* of -partition-count
    PartitionOffsets,    \* of -partition-offset
    ClusteringRowCounts, \* of -clustering-row-count
    Consumers,           \* how the modes considered use the workload
    RequestSizes,        \* of -rows-per-request
    IterationCounts,     \* of -iterations, 0 for endless
    MaxOps               \* bound: operations of one goroutine

\* "row": writes, counter updates, mixed mode and reads from a lower bound take one
\* row; "batch": batched writes; "in": reads with -in-restriction; "partition":
\* reads with -no-lower-bound, which take a partition and no row.
AllConsumers == {"row", "batch", "in", "partition"}

ASSUME SequentialAssumption ==
    /\ Concurrencies \subseteq Nat \ {0}
    /\ PartitionCounts \subseteq Nat
    /\ PartitionOffsets \subseteq Nat
    /\ ClusteringRowCounts \subseteq Nat \ {0}
    /\ Consumers \subseteq AllConsumers
    /\ RequestSizes \subseteq Nat \ {0}
    /\ IterationCounts \subseteq Nat
    /\ MaxOps \in Nat

VARIABLES
    concurrency, partitionCount, partitionOffset, clusteringRowCount,
    consumer, rowsPerRequest, iterations,   \* the flags, chosen once
    nextPartition, nextClusteringRow,       \* the fields of SequentialVisitAll,
    processedRowCount,                      \*   by goroutine
    iteration,                              \* TestIterator.iteration
    done,                                   \* RunTest has returned
    visits                                  \* the rows taken, in order

flags == <<concurrency, partitionCount, partitionOffset, clusteringRowCount,
           consumer, rowsPerRequest, iterations>>
position == <<nextPartition, nextClusteringRow, processedRowCount>>
vars == <<flags, position, iteration, done, visits>>

Threads == 0 .. concurrency - 1

-----------------------------------------------------------------------------
(* GetWorkload *)

TotalRowCount(parts, size) == parts * size

\* rowCount + additionalRows: the first threads take a row of the remainder each.
RowCount(t, n, total) == total \div n + IF t < total % n THEN 1 ELSE 0

\* Mutant of RowOffset: the rows of the remainder do not shift the next threads.
RowOffsetUnshifted(t, n, total, first) == first + t * (total \div n)

\* rowOffset, of a population that begins at row number first.
RowOffset(t, n, total, first) ==
    first + t * (total \div n) + IF t < total % n THEN t ELSE total % n

Total == TotalRowCount(partitionCount, clusteringRowCount)
Count(t) == RowCount(t, concurrency, Total)
Offset(t) == RowOffset(t, concurrency, Total, partitionOffset * clusteringRowCount)

\* NewSequentialVisitAll
StartPartition(t) == Offset(t) \div clusteringRowCount
StartClusteringRow(t) == Offset(t) % clusteringRowCount

Init ==
    /\ concurrency \in Concurrencies
    /\ partitionCount \in PartitionCounts
    /\ partitionOffset \in PartitionOffsets
    /\ clusteringRowCount \in ClusteringRowCounts
    /\ consumer \in Consumers
    /\ rowsPerRequest \in RequestSizes
    /\ iterations \in IterationCounts
    /\ nextPartition = [t \in Threads |-> StartPartition(t)]
    /\ nextClusteringRow = [t \in Threads |-> StartClusteringRow(t)]
    /\ processedRowCount = [t \in Threads |-> 0]
    /\ iteration = [t \in Threads |-> 0]
    /\ done = [t \in Threads |-> FALSE]
    /\ visits = [t \in Threads |-> << >>]

-----------------------------------------------------------------------------
(* TestIterator.IsDone, and one operation *)

WorkloadDone(t) == processedRowCount[t] >= Count(t)

Finish(t) ==
    /\ ~done[t]
    /\ WorkloadDone(t) /\ iteration[t] + 1 = iterations
    /\ done' = [done EXCEPT ![t] = TRUE]
    /\ UNCHANGED <<flags, position, iteration, visits>>

\* Mutant of Here: Restart sets back the partition only.
HereInRow(t) ==
    IF WorkloadDone(t)
    THEN [part |-> StartPartition(t), row |-> nextClusteringRow[t], processed |-> 0]
    ELSE [part |-> nextPartition[t], row |-> nextClusteringRow[t],
          processed |-> processedRowCount[t]]

\* Where the goroutine is when its operation begins: after a Restart, or as it was.
Here(t) ==
    IF WorkloadDone(t)
    THEN [part |-> StartPartition(t), row |-> StartClusteringRow(t), processed |-> 0]
    ELSE [part |-> nextPartition[t], row |-> nextClusteringRow[t],
          processed |-> processedRowCount[t]]

\* The partition is left when the operation after its last row asks for one.
NextPartitionKey(at) ==
    IF at.row < clusteringRowCount THEN at
    ELSE [part |-> at.part + 1, row |-> 0, processed |-> at.processed]

\* Mutant of Taken: a batch that would not be full is not sent.
TakenFull(at) ==
    LET left == clusteringRowCount - at.row
    IN  CASE consumer = "row" -> 1
          [] consumer = "partition" -> 0
          [] consumer \in {"batch", "in"} ->
                IF left < rowsPerRequest THEN 0 ELSE rowsPerRequest

\* Mutant of Taken: the end of the partition is not looked at.
TakenAcross(at) ==
    CASE consumer = "row" -> 1
      [] consumer = "partition" -> 0
      [] consumer \in {"batch", "in"} -> rowsPerRequest

\* How many times the operation calls NextClusteringKey.  The batches and the lists
\* of -in-restriction end with the partition, wherever the thread's part ends.
Taken(at) ==
    LET left == clusteringRowCount - at.row
    IN  CASE consumer = "row" -> 1
          [] consumer = "partition" -> 0
          [] consumer \in {"batch", "in"} ->
                IF left < rowsPerRequest THEN left ELSE rowsPerRequest

RowsFrom(at, n) == [i \in 1 .. n |-> <<at.part, at.row + i - 1>>]

Operate(t) ==
    /\ ~done[t]
    /\ ~(WorkloadDone(t) /\ iteration[t] + 1 = iterations)
    /\ Len(visits[t]) < MaxOps
    /\ LET at == NextPartitionKey(Here(t))
           n == Taken(at)
       IN  /\ nextPartition' = [nextPartition EXCEPT ![t] = at.part]
           /\ nextClusteringRow' = [nextClusteringRow EXCEPT ![t] = at.row + n]
           /\ processedRowCount' = [processedRowCount EXCEPT ![t] = at.processed + n]
           /\ visits' = [visits EXCEPT ![t] = @ \o RowsFrom(at, n)]
    /\ iteration' = [iteration EXCEPT ![t] = IF WorkloadDone(t) THEN @ + 1 ELSE @]
    /\ UNCHANGED <<flags, done>>

AllDone == \A t \in Threads : done[t]

Next ==
    \/ \E t \in Threads : Finish(t) \/ Operate(t)
    \/ AllDone /\ UNCHANGED vars

Spec == Init /\ [][Next]_vars

\* Every goroutine runs until it is done.
FairSpec == Spec /\ WF_vars(Next)

-----------------------------------------------------------------------------
(* Properties *)

\* The type of every variable but the flags; a row to visit next is in a partition
\* or just behind it.
TypeOK ==
    /\ nextPartition \in [Threads -> Nat]
    /\ nextClusteringRow \in [Threads -> 0 .. clusteringRowCount]
    /\ processedRowCount \in [Threads -> Nat]
    /\ iteration \in [Threads -> Nat]
    /\ done \in [Threads -> BOOLEAN]
    /\ visits \in [Threads -> Seq(Nat \X (0 .. clusteringRowCount - 1))]

Index(row) == row[1] * clusteringRowCount + row[2]
InOwnPart(t, row) ==
    /\ Offset(t) <= Index(row)
    /\ Index(row) < Offset(t) + Count(t)

\* The parts end where partitions end, so a batch cannot reach beyond one.
Aligned == Total % concurrency = 0 /\ (Total \div concurrency) % clusteringRowCount = 0

\* A goroutine visits rows of its own part only, when it takes them one by one or
\* the parts are whole partitions; a part without rows is an exception once the
\* iterations are not one (main.go:186-200, modes.go:163-170).
OwnRows ==
    consumer = "row" \/ Aligned =>
        \A t \in Threads : Count(t) > 0 \/ iterations = 1 =>
            \A i \in 1 .. Len(visits[t]) : InOwnPart(t, visits[t][i])

\* Row after row, from the part's first, and from the first again in the next
\* iteration, when rows are taken one by one or, in portions of any size, when the
\* parts are whole partitions; the exceptions are those of OwnRows
\* (workloads.go:68-93).
VisitsInOrder ==
    consumer = "row" \/ Aligned =>
        \A t \in Threads : Count(t) > 0 \/ iterations = 1 =>
            \A i \in 1 .. Len(visits[t]) :
                Index(visits[t][i]) = Offset(t) + ((i - 1) % Count(t))

\* How often a row was visited, by whom ever.
TimesVisited(row) ==
    LET Visits(t) == {t} \X {i \in 1 .. Len(visits[t]) : visits[t][i] = row}
    IN  Cardinality(UNION {Visits(t) : t \in Threads})

Population ==
    {<<p, c>> : p \in partitionOffset .. partitionOffset + partitionCount - 1,
                c \in 0 .. clusteringRowCount - 1}

\* When all are done every row of the population has been visited once in each
\* iteration: the parts neither overlap nor leave a gap (README.md:251).
EachRowOncePerIteration ==
    AllDone /\ (consumer = "row" \/ Aligned)
            /\ (iterations = 1 \/ \A t \in Threads : Count(t) > 0)
        => \A row \in Population : TimesVisited(row) = iterations

\* With a number of iterations the goroutines come to an end by themselves, unless
\* the operations take no row (modes.go:158-173, 887-888).
VisitEnds == consumer # "partition" => <>AllDone
=============================================================================
