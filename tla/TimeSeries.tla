----------------------------- MODULE TimeSeries -----------------------------
(***************************************************************************)
(* The time series workload (pkg/workloads): writers that prepend rows to   *)
(* their partitions at the pace of the rate limiter, and a reader, another  *)
(* process, which derives from the clock, the start timestamp and the       *)
(* printed write rate what they must have written.                          *)
(*                                                                         *)
(* Timestamps count from the start timestamp, and partitions from            *)
(* -partition-offset.  A partition key is a position and a generation.      *)
(***************************************************************************)
EXTENDS RateLimit, Sequences, FiniteSets

CONSTANTS
    PartitionCounts,     \* values of -partition-count considered, the same for both
    ClusteringRowCounts, \* of -clustering-row-count, the same for both
    ReaderConcurrencies  \* of the reader's -concurrency

ASSUME SeriesAssumption ==
    /\ PartitionCounts \subseteq Nat \ {0}
    /\ ClusteringRowCounts \subseteq Nat \ {0}
    /\ ReaderConcurrencies \subseteq Nat \ {0}

VARIABLES
    partitionCount, clusteringRowCount, readers,  \* flags, chosen once
    threadID,                                 \* the reader goroutine followed
    pkPosition, pkGeneration, ckPosition,     \* of each TimeSeriesWrite
    rows,                                     \* the rows written by each, in order
    readPosition, readGeneration,             \* PkPosition, CurrentGeneration of
                                              \*   the TimeSeriesRead
    reading,                                  \* it has chosen its first partition
    panicked                                  \* Int63n was called with 0 or less

flags == <<maximumRate, concurrency, partitionCount, clusteringRowCount, readers,
           threadID>>
writer == <<pkPosition, pkGeneration, ckPosition, rows>>
reader == <<readPosition, readGeneration, reading, panicked>>
vars == <<flags, now, limiter, writer, reader>>

-----------------------------------------------------------------------------
(* TimeSeriesWrite *)

PartitionsPerThread == partitionCount \div concurrency

\* NewTimeSeriesWriter's period, the time from a row of a partition to the next.
Period == (Second * PartitionsPerThread) \div ThreadRate

WritersInit ==
    /\ partitionCount \in PartitionCounts /\ clusteringRowCount \in ClusteringRowCounts
    /\ concurrency <= partitionCount
    /\ pkPosition = [t \in Threads |-> t - concurrency]
    /\ pkGeneration = [t \in Threads |-> 0]
    /\ ckPosition = [t \in Threads |-> 0]
    /\ rows = [t \in Threads |-> << >>]

\* NextPartitionKey goes back to the first partition of the worker ...
Wraps(t) == pkPosition[t] + concurrency >= partitionCount + t

\* Mutant of NextPosition: the partitions are taken in a row, without the stride.
NextPositionInRow(t) == IF Wraps(t) THEN t ELSE pkPosition[t] + 1

NextPosition(t) == IF Wraps(t) THEN t ELSE pkPosition[t] + concurrency

\* Mutant of Fills: the comparison is strict.
FillsOneMore(t) == Wraps(t) /\ ckPosition[t] + 1 > clusteringRowCount

\* ... and, when they are full, to the next generation.
Fills(t) == Wraps(t) /\ ckPosition[t] + 1 >= clusteringRowCount

\* test(w) is called and takes its keys: NextPartitionKey, NextClusteringKey.  A batch
\* has one row, after which IsPartitionDone holds.
StartWrite(t) ==
    /\ Begin(t)
    /\ pkPosition' = [pkPosition EXCEPT ![t] = NextPosition(t)]
    /\ pkGeneration' = [pkGeneration EXCEPT ![t] = IF Fills(t) THEN @ + 1 ELSE @]
    /\ ckPosition' = [ckPosition EXCEPT ![t] =
                         IF ~Wraps(t) THEN @ ELSE IF Fills(t) THEN 0 ELSE @ + 1]
    /\ UNCHANGED <<flags, rows, reader>>

\* Mutant of ClusteringKey: the rows of earlier generations are not counted.
ClusteringKeyInGeneration(t) == -(Period * ckPosition[t])

ClusteringKey(t) == -(Period * (ckPosition[t] + pkGeneration[t] * clusteringRowCount))

\* The operation is over.  (One whose retries all failed would leave a gap.)
EndWrite(t) ==
    /\ End(t)
    /\ rows' = [rows EXCEPT ![t] = Append(@,
                   [pos |-> pkPosition[t], gen |-> pkGeneration[t],
                    ck |-> ClusteringKey(t)])]
    /\ UNCHANGED <<flags, pkPosition, pkGeneration, ckPosition, reader>>

-----------------------------------------------------------------------------
(* TimeSeriesRead *)

\* What the writer prints and the reader takes as -write-rate; main refuses 0.
WriteRate == maximumRate \div partitionCount
ReadPeriod == Second \div WriteRate
ReadOffset == threadID % partitionCount

ReaderInit ==
    /\ readers \in ReaderConcurrencies /\ threadID \in 0 .. readers - 1
    /\ readPosition = ReadOffset - readers
    /\ readGeneration = 0
    /\ reading = FALSE
    /\ panicked = FALSE

\* Mutant of MaxGeneration: a generation is taken to begin with its last row.
MaxGenerationRoundedUp == (now + ReadPeriod) \div (ReadPeriod * clusteringRowCount) + 1

MaxGeneration == now \div (ReadPeriod * clusteringRowCount) + 1

\* Mutant of MaxRange: the generation is not subtracted.
MaxRangeOfAll ==
    LET range == now \div ReadPeriod + 1
    IN  IF range < clusteringRowCount THEN range ELSE clusteringRowCount

MaxRange ==
    LET range == now \div ReadPeriod - readGeneration * clusteringRowCount + 1
    IN  IF range < clusteringRowCount THEN range ELSE clusteringRowCount

\* RandomInt64(max): what Int63n may return.  The half-normal distribution has the same
\* values, and max itself in the case that NormFloat64 is exactly 0, left out here.
Draws(max) == 0 .. max - 1

ReadPartition ==
    /\ ~panicked /\ WriteRate > 0
    /\ readPosition' = IF readPosition + readers >= partitionCount + ReadOffset
                       THEN ReadOffset ELSE readPosition + readers
    /\ \E g \in Draws(MaxGeneration) : readGeneration' = g
    /\ reading' = TRUE
    /\ UNCHANGED <<flags, now, limiter, writer, panicked>>

\* The rows of which NextClusteringKey may return one now, by their number in the
\* partitions of the position.
NextRows == {readGeneration * clusteringRowCount + x : x \in Draws(MaxRange)}

\* NextClusteringKey reads the clock again.  It returns a key and changes nothing, or
\* panics in Int63n; with -in-restriction it is called several times.
ReadRow ==
    /\ ~panicked /\ reading
    /\ panicked' = (NextRows = {})
    /\ UNCHANGED <<flags, now, limiter, writer, readPosition, readGeneration, reading>>

-----------------------------------------------------------------------------

Init == LimiterInit /\ WritersInit /\ ReaderInit

ClockTick == Tick /\ UNCHANGED <<flags, writer, reader>>

Idle(t) ==
    /\ NewRateLimiter(t) \/ Wait(t)
    /\ UNCHANGED <<flags, writer, reader>>

\* The bound on the time is reached: the workers may be asleep for ever.
TimeOver == now = MaxTime /\ UNCHANGED vars

Next ==
    \/ ClockTick
    \/ \E t \in Threads : Idle(t) \/ StartWrite(t) \/ EndWrite(t)
    \/ ReadPartition
    \/ ReadRow
    \/ TimeOver

Spec == Init /\ [][Next]_vars

-----------------------------------------------------------------------------
(* Properties *)

Rows == [pos : Nat, gen : Nat, ck : Int]

\* The type of every variable but the flags.
TypeOK ==
    /\ LimiterTypeOK
    /\ pkPosition \in [Threads -> Int]
    /\ pkGeneration \in [Threads -> Nat]
    /\ ckPosition \in [Threads -> 0 .. clusteringRowCount - 1]
    /\ rows \in [Threads -> Seq(Rows)]
    /\ readPosition \in Int /\ readGeneration \in Nat
    /\ reading \in BOOLEAN /\ panicked \in BOOLEAN

SamePartition(r, s) == r.pos = s.pos /\ r.gen = s.gen

\* No two writers ever write to one partition, whether or not the partitions can be
\* divided between them without a remainder (workloads.go:167-168, 188-196).
WritersApart ==
    \A t, u \in Threads : t # u =>
        \A i \in 1 .. Len(rows[t]) : \A j \in 1 .. Len(rows[u]) :
            ~SamePartition(rows[t][i], rows[u][j])

\* In a position's partitions newer rows have smaller clustering keys than all older
\* ones, through the generations, so no row is written twice (README.md:274).
NewerRowsSmaller ==
    \A t \in Threads : \A i, j \in 1 .. Len(rows[t]) :
        i < j /\ rows[t][i].pos = rows[t][j].pos => rows[t][j].ck < rows[t][i].ck

\* A writer turns to a new partition key when the old one has its
\* -clustering-row-count rows, no earlier and no later (README.md:276).
FullGenerations ==
    \A t \in Threads : \A i \in 1 .. Len(rows[t]) :
        LET Older(gen) == {j \in 1 .. i - 1 : /\ rows[t][j].pos = rows[t][i].pos
                                              /\ rows[t][j].gen = gen}
        IN  /\ Cardinality(Older(rows[t][i].gen)) < clusteringRowCount
            /\ rows[t][i].gen > 0 =>
                  Cardinality(Older(rows[t][i].gen - 1)) = clusteringRowCount

\* The reader asks for a generation at one time and for a row of it at a later one;
\* its range is never empty, which would be a panic (workloads.go:288-296).
ReaderSafe == ~panicked

\* The client's rate, the partitions and the reader's goroutines divide evenly.
Even ==
    /\ maximumRate % partitionCount = 0 /\ maximumRate % concurrency = 0
    /\ partitionCount % concurrency = 0
    /\ partitionCount % readers = 0 \/ readers > partitionCount

\* A worker has done all operations that are due since the start timestamp.
OnTime(t) == Len(rows[t]) >= now \div OpPeriod

Written(number) ==
    \E t \in Threads : \E i \in 1 .. Len(rows[t]) :
        rows[t][i] = [pos |-> readPosition, gen |-> readGeneration,
                      ck |-> -(number * ReadPeriod)]

\* While the writers keep up with their rate, every row that the reader may ask for
\* has been written, but for the newest of a partition, whose turn has only begun
\* (README.md:284, workloads.go:164-166, 203-204, 254, 288-297).
OlderRowsWritten ==
    reading /\ Even /\ (\A t \in Threads : OnTime(t)) =>
        \A number \in NextRows : number = now \div ReadPeriod \/ Written(number)
=============================================================================
