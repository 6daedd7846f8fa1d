----------------------- MODULE SequentialWorkloadProofs -----------------------
(***************************************************************************)
(* Proofs about the sequential workload, for any number of goroutines and   *)
(* any size of the population: how it is split, that a goroutine stays in   *)
(* its own part, in which order and how often it visits a row, and that     *)
(* each operation brings it nearer to its end.                              *)
(***************************************************************************)
EXTENDS SequentialWorkload, NumberLemmas, SequenceTheorems, TLAPS

-----------------------------------------------------------------------------
(* Arithmetic *)

\* A multiple of c above another is above it by c at least.
LEMMA NextMultiple ==
    ASSUME NEW a \in Nat, NEW b \in Nat, NEW c \in Nat, a * c < b * c
    PROVE  (a + 1) * c <= b * c
<1>1. a < b
  <2>1. CASE b <= a
    BY <2>1, ProductMonotonic, ProductNat
  <2> QED BY <2>1
<1> QED BY <1>1, ProductMonotonic

-----------------------------------------------------------------------------
(* The split *)

\* The parts are numbers, and each begins where the one before it ends.
LEMMA PartsAdjoin ==
    ASSUME NEW n \in Nat \ {0}, NEW total \in Nat, NEW first \in Nat, NEW t \in Nat
    PROVE  /\ RowCount(t, n, total) \in Nat
           /\ RowOffset(t, n, total, first) \in Nat
           /\ RowOffset(t + 1, n, total, first)
                 = RowOffset(t, n, total, first) + RowCount(t, n, total)
<1> DEFINE q == total \div n
           r == total % n
<1>1. q \in Nat /\ r \in Nat
  BY DivMod
<1>2. t * q \in Nat /\ (t + 1) * q = t * q + q
  BY <1>1, ProductNat
<1> HIDE DEF q, r
<1>3. RowCount(t, n, total) = q + IF t < r THEN 1 ELSE 0
  BY DEF RowCount, q, r
<1>4. RowOffset(t, n, total, first) = first + t * q + IF t < r THEN t ELSE r
  BY DEF RowOffset, q, r
<1>5. RowOffset(t + 1, n, total, first)
        = first + (t + 1) * q + IF t + 1 < r THEN t + 1 ELSE r
  BY DEF RowOffset, q, r
<1> QED BY <1>1, <1>2, <1>3, <1>4, <1>5

\* The first part begins with the population, and the last one ends with it.
LEMMA PartsEnds ==
    ASSUME NEW n \in Nat \ {0}, NEW total \in Nat, NEW first \in Nat
    PROVE  /\ RowOffset(0, n, total, first) = first
           /\ RowOffset(n, n, total, first) = first + total
<1>1. /\ total \div n \in Nat /\ total % n \in 0 .. n - 1
      /\ total = n * (total \div n) + (total % n)
  BY DivMod
<1> QED BY <1>1 DEF RowOffset

\* A later part begins after an earlier one has ended: no two goroutines share a row.
THEOREM PartsDisjoint ==
    ASSUME NEW n \in Nat \ {0}, NEW total \in Nat, NEW first \in Nat,
           NEW t \in Nat, NEW u \in Nat, t < u
    PROVE  RowOffset(t, n, total, first) + RowCount(t, n, total)
               <= RowOffset(u, n, total, first)
<1> DEFINE q == total \div n
           r == total % n
<1>1. q \in Nat /\ r \in Nat
  BY DivMod
<1>2. (t + 1) * q <= u * q /\ (t + 1) * q \in Nat /\ u * q \in Nat
  BY <1>1, ProductMonotonic, ProductNat
<1> HIDE DEF q, r
<1>3. RowOffset(t + 1, n, total, first)
        = first + (t + 1) * q + IF t + 1 < r THEN t + 1 ELSE r
  BY DEF RowOffset, q, r
<1>4. RowOffset(u, n, total, first) = first + u * q + IF u < r THEN u ELSE r
  BY DEF RowOffset, q, r
<1>5. RowOffset(t + 1, n, total, first) <= RowOffset(u, n, total, first)
  BY <1>1, <1>2, <1>3, <1>4
<1> QED BY <1>5, PartsAdjoin

\* Every row of the population belongs to a part.
THEOREM PartsCover ==
    ASSUME NEW n \in Nat \ {0}, NEW total \in Nat, NEW first \in Nat,
           NEW k \in first .. first + total - 1
    PROVE  \E t \in 0 .. n - 1 :
              /\ RowOffset(t, n, total, first) <= k
              /\ k < RowOffset(t, n, total, first) + RowCount(t, n, total)
<1> DEFINE q == total \div n
           r == total % n
           Part(t) == /\ RowOffset(t, n, total, first) <= k
                      /\ k < RowOffset(t, n, total, first) + RowCount(t, n, total)
<1>1. q \in Nat /\ r \in 0 .. n - 1 /\ total = n * q + r
  BY DivMod
<1>2. \A t \in Nat :
         /\ RowCount(t, n, total) = q + IF t < r THEN 1 ELSE 0
         /\ RowOffset(t, n, total, first) = first + t * q + IF t < r THEN t ELSE r
  BY DEF RowCount, RowOffset
<1> HIDE DEF q, r
<1>3. PICK j \in Nat : k = first + j /\ j < total
  <2>1. k - first \in Nat /\ k = first + (k - first) /\ k - first < total
    OBVIOUS
  <2> QED BY <2>1
<1>4. CASE j < r * (q + 1)
  <2> DEFINE t == j \div (q + 1)
  <2>1. t \in Nat /\ t * (q + 1) <= j /\ j < t * (q + 1) + (q + 1)
    <3>1. q + 1 \in Nat \ {0}
      BY <1>1
    <3>2. t \in Nat /\ j % (q + 1) \in 0 .. (q + 1) - 1 /\ j = (q + 1) * t + (j % (q + 1))
      BY <3>1, DivMod
    <3>3. (q + 1) * t = t * (q + 1) /\ t * (q + 1) \in Nat
      BY <3>1, <3>2, ProductNat
    <3> QED BY <1>1, <3>2, <3>3
  <2> HIDE DEF t
  <2>2. t < r
    <3>1. CASE r <= t
      <4>1. r * (q + 1) <= t * (q + 1)
        BY <1>1, <2>1, <3>1, ProductMonotonic
      <4>2. r * (q + 1) \in Nat /\ t * (q + 1) \in Nat
        BY <1>1, <2>1, ProductNat
      <4> QED BY <1>4, <2>1, <4>1, <4>2
    <3> QED BY <1>1, <2>1, <3>1
  <2>3. t * (q + 1) = t * q + t /\ t * q \in Nat
    BY <1>1, <2>1, ProductNat
  <2>4. Part(t)
    BY <1>1, <1>2, <1>3, <2>1, <2>2, <2>3
  <2> QED BY <1>1, <2>1, <2>2, <2>4
<1>5. CASE r * (q + 1) <= j
  <2>1. q > 0
    <3>1. CASE q = 0
      BY <1>1, <1>3, <1>5, <3>1
    <3> QED BY <1>1, <3>1
  <2>2. r * (q + 1) = r * q + r /\ r * q \in Nat
    BY <1>1, ProductNat
  <2>3. PICK i \in Nat : i = j - r /\ r * q <= i
    BY <1>1, <1>5, <2>2
  <2> DEFINE t == i \div q
  <2>4. t \in Nat /\ t * q <= i /\ i < t * q + q
    <3>1. q \in Nat \ {0}
      BY <1>1, <2>1
    <3>2. t \in Nat /\ i % q \in 0 .. q - 1 /\ i = q * t + (i % q)
      BY <3>1, DivMod
    <3>3. q * t = t * q /\ t * q \in Nat
      BY <3>1, <3>2, ProductNat
    <3> QED BY <1>1, <3>2, <3>3
  <2> HIDE DEF t
  <2>5. r <= t
    <3>1. CASE t + 1 <= r
      <4>1. (t + 1) * q <= r * q /\ (t + 1) * q = t * q + q /\ t * q \in Nat
        BY <1>1, <2>4, <3>1, ProductMonotonic, ProductNat
      <4> QED BY <1>1, <2>2, <2>3, <2>4, <4>1
    <3> QED BY <1>1, <2>4, <3>1
  <2>6. t < n
    <3>1. CASE n <= t
      <4>1. n * q <= t * q /\ n * q \in Nat /\ t * q \in Nat
        BY <1>1, <2>4, <3>1, ProductMonotonic, ProductNat
      <4> QED BY <1>1, <1>3, <2>3, <2>4, <4>1
    <3> QED BY <2>4, <3>1
  <2>7. t * q \in Nat
    BY <1>1, <2>4, ProductNat
  <2>8. Part(t)
    BY <1>1, <1>2, <1>3, <2>3, <2>4, <2>5, <2>7
  <2> QED BY <1>1, <2>4, <2>6, <2>8
<1>6. r * (q + 1) \in Nat
  BY <1>1, ProductNat
<1> QED BY <1>3, <1>4, <1>5, <1>6

-----------------------------------------------------------------------------
(* The walk *)

\* The flags are numbers.
FlagsOK ==
    /\ concurrency \in Nat \ {0} /\ partitionCount \in Nat
    /\ partitionOffset \in Nat /\ clusteringRowCount \in Nat \ {0}
    /\ consumer \in AllConsumers /\ rowsPerRequest \in Nat \ {0}
    /\ iterations \in Nat

\* The parts are numbers.
LEMMA PartTypes ==
    ASSUME FlagsOK, NEW t \in Threads
    PROVE  Total \in Nat /\ Count(t) \in Nat /\ Offset(t) \in Nat /\ t \in Nat
<1>1. Total \in Nat /\ partitionOffset * clusteringRowCount \in Nat
  BY ProductNat DEF FlagsOK, Total, TotalRowCount
<1>2. t \in Nat /\ concurrency \in Nat \ {0}
  BY DEF FlagsOK, Threads
<1> QED BY <1>1, <1>2, PartsAdjoin DEF Count, Offset

\* The first row of a part is at its offset.
LEMMA StartAtOffset ==
    ASSUME FlagsOK, NEW t \in Threads
    PROVE  /\ StartPartition(t) \in Nat
           /\ StartClusteringRow(t) \in 0 .. clusteringRowCount - 1
           /\ StartPartition(t) * clusteringRowCount + StartClusteringRow(t) = Offset(t)
<1>1. Offset(t) \in Nat /\ clusteringRowCount \in Nat \ {0}
  BY PartTypes DEF FlagsOK
<1>2. /\ StartPartition(t) \in Nat
      /\ StartClusteringRow(t) \in 0 .. clusteringRowCount - 1
      /\ Offset(t) = clusteringRowCount * StartPartition(t) + StartClusteringRow(t)
  BY <1>1, DivMod DEF StartPartition, StartClusteringRow
<1> QED BY <1>1, <1>2, ProductNat

\* A part that is made of whole partitions ends with one.
LEMMA AlignedEnd ==
    ASSUME FlagsOK, Aligned, NEW t \in Threads
    PROVE  \E m \in Nat : Offset(t) + Count(t) = m * clusteringRowCount
<1> DEFINE q == Total \div concurrency
           e == q \div clusteringRowCount
<1>1. /\ Total \in Nat /\ t \in Nat /\ partitionOffset \in Nat
      /\ clusteringRowCount \in Nat \ {0} /\ concurrency \in Nat \ {0}
  BY PartTypes DEF FlagsOK
<1>2. q \in Nat /\ Total % concurrency = 0 /\ q % clusteringRowCount = 0
  BY <1>1, DivMod DEF Aligned
<1>3. Offset(t) = partitionOffset * clusteringRowCount + t * q /\ Count(t) = q
  BY <1>1, <1>2, ProductNat DEF Offset, Count, RowOffset, RowCount
<1> HIDE DEF q
<1>4. e \in Nat /\ q = clusteringRowCount * e
  BY <1>1, <1>2, DivMod
<1> HIDE DEF e
<1>5. t * e \in Nat /\ t * q = (t * e) * clusteringRowCount
  BY <1>1, <1>4, ProductNat
<1>6. q = e * clusteringRowCount
  BY <1>1, <1>4, ProductNat
<1>7. partitionOffset + t * e + e \in Nat
  BY <1>1, <1>4, <1>5
<1>8. Offset(t) + Count(t) = (partitionOffset + t * e + e) * clusteringRowCount
  BY <1>1, <1>3, <1>4, <1>5, <1>6
<1> QED BY <1>7, <1>8

\* Where a goroutine stands is as far from its part's first row as it has rows
\* behind it; it has no more of them than the part has, and repeats the part only if
\* there is more than one iteration.
Walks ==
    \A t \in Threads :
        /\ nextPartition[t] * clusteringRowCount + nextClusteringRow[t]
              = Offset(t) + processedRowCount[t]
        /\ iterations = 1 => iteration[t] = 0

\* The record describes a place in the part.
IsPlace(at, t) ==
    /\ at \in [part : Nat, row : 0 .. clusteringRowCount, processed : Nat]
    /\ at.part * clusteringRowCount + at.row = Offset(t) + at.processed

\* An operation begins at a place of the part, and not behind its last row.
LEMMA HereIsPlace ==
    ASSUME FlagsOK, TypeOK, Walks, NEW t \in Threads
    PROVE  /\ IsPlace(Here(t), t)
           /\ (Count(t) > 0 \/ ~WorkloadDone(t)) => Here(t).processed < Count(t)
<1>1. Count(t) \in Nat /\ Offset(t) \in Nat /\ clusteringRowCount \in Nat \ {0}
  BY PartTypes DEF FlagsOK
<1>2. CASE WorkloadDone(t)
  <2>1. Here(t) = [part |-> StartPartition(t), row |-> StartClusteringRow(t),
                   processed |-> 0]
    BY <1>2 DEF Here
  <2>2. /\ StartPartition(t) \in Nat
        /\ StartClusteringRow(t) \in 0 .. clusteringRowCount
        /\ StartPartition(t) * clusteringRowCount + StartClusteringRow(t) = Offset(t) + 0
    BY <1>1, StartAtOffset
  <2>3. IsPlace(Here(t), t)
    BY <2>1, <2>2 DEF IsPlace
  <2> QED BY <1>1, <1>2, <2>1, <2>3
<1>3. CASE ~WorkloadDone(t)
  <2>1. Here(t) = [part |-> nextPartition[t], row |-> nextClusteringRow[t],
                   processed |-> processedRowCount[t]]
    BY <1>3 DEF Here
  <2>2. processedRowCount[t] < Count(t)
    BY <1>1, <1>3 DEF WorkloadDone, TypeOK
  <2>3. /\ nextPartition[t] \in Nat /\ nextClusteringRow[t] \in 0 .. clusteringRowCount
        /\ processedRowCount[t] \in Nat
        /\ nextPartition[t] * clusteringRowCount + nextClusteringRow[t]
              = Offset(t) + processedRowCount[t]
    BY DEF TypeOK, Walks
  <2>4. IsPlace(Here(t), t)
    BY <2>1, <2>3 DEF IsPlace
  <2> QED BY <2>1, <2>2, <2>4
<1> QED BY <1>2, <1>3

\* NextPartitionKey moves to the same row by another name, in front of which there
\* is a row of the partition to take.
LEMMA NextPartitionKeyIsPlace ==
    ASSUME FlagsOK, NEW t \in Threads, NEW at, IsPlace(at, t)
    PROVE  /\ IsPlace(NextPartitionKey(at), t)
           /\ NextPartitionKey(at).row < clusteringRowCount
           /\ NextPartitionKey(at).processed = at.processed
<1> DEFINE next == NextPartitionKey(at)
<1>1. /\ at \in [part : Nat, row : 0 .. clusteringRowCount, processed : Nat]
      /\ at.part \in Nat /\ at.row \in 0 .. clusteringRowCount /\ at.processed \in Nat
      /\ at.part * clusteringRowCount + at.row = Offset(t) + at.processed
      /\ clusteringRowCount \in Nat \ {0}
  BY DEF IsPlace, FlagsOK
<1>2. CASE at.row < clusteringRowCount
  BY <1>1, <1>2 DEF NextPartitionKey, IsPlace
<1>3. CASE ~(at.row < clusteringRowCount)
  <2>1. /\ next.part = at.part + 1 /\ next.row = 0 /\ next.processed = at.processed
        /\ next \in [part : Nat, row : 0 .. clusteringRowCount, processed : Nat]
    BY <1>1, <1>3 DEF NextPartitionKey
  <2>2. at.row = clusteringRowCount
    BY <1>1, <1>3
  <2>3. (at.part + 1) * clusteringRowCount + 0
          = at.part * clusteringRowCount + clusteringRowCount
    BY <1>1, ProductNat
  <2>4. next.part * clusteringRowCount + next.row = Offset(t) + next.processed
    BY <1>1, <2>1, <2>2, <2>3
  <2> QED BY <1>1, <2>1, <2>4 DEF IsPlace
<1> QED BY <1>2, <1>3

\* An operation takes rows of its partition only.
LEMMA TakenInPartition ==
    ASSUME FlagsOK, NEW t \in Threads, NEW at, IsPlace(at, t),
           at.row < clusteringRowCount
    PROVE  /\ Taken(at) \in Nat /\ at.row + Taken(at) <= clusteringRowCount
           /\ consumer = "row" => Taken(at) = 1
<1>1. /\ at.row \in Nat /\ clusteringRowCount \in Nat /\ rowsPerRequest \in Nat
      /\ consumer \in {"row", "batch", "in", "partition"}
  BY DEF IsPlace, FlagsOK, AllConsumers
<1> QED BY <1>1 DEF Taken

\* An operation that begins before the end of its part does not go beyond it.
LEMMA TakenInPart ==
    ASSUME FlagsOK, NEW t \in Threads, NEW at, IsPlace(at, t),
           at.row < clusteringRowCount, at.processed < Count(t),
           consumer = "row" \/ Aligned
    PROVE  at.processed + Taken(at) <= Count(t)
<1>1. /\ at.part \in Nat /\ at.row \in Nat /\ at.processed \in Nat
      /\ at.part * clusteringRowCount + at.row = Offset(t) + at.processed
      /\ clusteringRowCount \in Nat /\ Count(t) \in Nat /\ Offset(t) \in Nat
      /\ Taken(at) \in Nat /\ at.row + Taken(at) <= clusteringRowCount
  BY PartTypes, TakenInPartition DEF IsPlace, FlagsOK
<1>2. CASE consumer = "row"
  BY <1>1, <1>2, TakenInPartition
<1>3. CASE Aligned
  <2>1. PICK m \in Nat : Offset(t) + Count(t) = m * clusteringRowCount
    BY <1>3, AlignedEnd
  <2>2. at.part * clusteringRowCount \in Nat /\ m * clusteringRowCount \in Nat
    BY <1>1, ProductNat
  <2>3. at.part * clusteringRowCount < m * clusteringRowCount
    BY <1>1, <2>1, <2>2
  <2>4. (at.part + 1) * clusteringRowCount <= m * clusteringRowCount
    BY <1>1, <2>3, NextMultiple
  <2>5. (at.part + 1) * clusteringRowCount
          = at.part * clusteringRowCount + clusteringRowCount
    BY <1>1
  <2> QED BY <1>1, <2>1, <2>2, <2>4, <2>5
<1> QED BY <1>2, <1>3

\* The operation takes n rows from a place on.
Takes(t, at, n) ==
    /\ IsPlace(at, t) /\ at.row < clusteringRowCount
    /\ n \in Nat /\ at.row + n <= clusteringRowCount
    /\ at.processed = IF WorkloadDone(t) THEN 0 ELSE processedRowCount[t]
    /\ nextPartition' = [nextPartition EXCEPT ![t] = at.part]
    /\ nextClusteringRow' = [nextClusteringRow EXCEPT ![t] = at.row + n]
    /\ processedRowCount' = [processedRowCount EXCEPT ![t] = at.processed + n]
    /\ visits' = [visits EXCEPT ![t] = @ \o RowsFrom(at, n)]
    /\ (Count(t) > 0 \/ iterations = 1) /\ (consumer = "row" \/ Aligned)
          => at.processed + n <= Count(t)

\* What an operation does.
LEMMA OperateStep ==
    ASSUME FlagsOK, TypeOK, Walks, NEW t \in Threads, Operate(t)
    PROVE  \E at, n : Takes(t, at, n)
<1> DEFINE at == NextPartitionKey(Here(t))
           n == Taken(at)
<1>1. IsPlace(at, t) /\ at.row < clusteringRowCount /\ at.processed = Here(t).processed
  BY HereIsPlace, NextPartitionKeyIsPlace
<1>2. n \in Nat /\ at.row + n <= clusteringRowCount
  BY <1>1, TakenInPartition
<1>3. iterations = 1 => ~WorkloadDone(t)
  <2>1. iterations = 1 => iteration[t] = 0
    BY DEF Walks
  <2> QED BY <2>1 DEF Operate
<1>4. Count(t) > 0 \/ iterations = 1 => at.processed < Count(t)
  BY <1>1, <1>3, HereIsPlace
<1>5. (Count(t) > 0 \/ iterations = 1) /\ (consumer = "row" \/ Aligned)
        => at.processed + n <= Count(t)
  BY <1>1, <1>4, TakenInPart
<1>6. /\ nextPartition' = [nextPartition EXCEPT ![t] = at.part]
      /\ nextClusteringRow' = [nextClusteringRow EXCEPT ![t] = at.row + n]
      /\ processedRowCount' = [processedRowCount EXCEPT ![t] = at.processed + n]
      /\ visits' = [visits EXCEPT ![t] = @ \o RowsFrom(at, n)]
  BY DEF Operate
<1>7. at.processed = IF WorkloadDone(t) THEN 0 ELSE processedRowCount[t]
  BY <1>1 DEF Here
<1> HIDE DEF at, n
<1> QED BY <1>1, <1>2, <1>5, <1>6, <1>7 DEF Takes

\* The second sequence is the first one with n rows from a place on after it.
Lengthened(old, all, at, n) ==
    /\ Len(all) = Len(old) + n
    /\ \A i \in 1 .. Len(old) : all[i] = old[i]
    /\ \A j \in 1 .. n : all[Len(old) + j] = <<at.part, at.row + j - 1>>

\* The sequence of the rows an operation takes, and of all up to it.
LEMMA VisitsGrow ==
    ASSUME FlagsOK, TypeOK, NEW t \in Threads, NEW at, at.part \in Nat, at.row \in Nat,
           NEW n \in Nat, at.row + n <= clusteringRowCount
    PROVE  /\ visits[t] \o RowsFrom(at, n) \in Seq(Nat \X (0 .. clusteringRowCount - 1))
           /\ \A i \in 1 .. Len(visits[t] \o RowsFrom(at, n)) :
                 \/ /\ i \in 1 .. Len(visits[t])
                    /\ (visits[t] \o RowsFrom(at, n))[i] = visits[t][i]
                 \/ \E j \in 1 .. n :
                       (visits[t] \o RowsFrom(at, n))[i] = <<at.part, at.row + j - 1>>
           /\ Lengthened(visits[t], visits[t] \o RowsFrom(at, n), at, n)
<1> DEFINE Rows == Nat \X (0 .. clusteringRowCount - 1)
           more == RowsFrom(at, n)
<1>1. visits[t] \in Seq(Rows) /\ clusteringRowCount \in Nat
  BY DEF TypeOK, FlagsOK
<1>2. \A i \in 1 .. n : <<at.part, at.row + i - 1>> \in Rows
  BY <1>1
<1>3. /\ more \in Seq(Rows) /\ Len(more) = n
      /\ \A i \in 1 .. n : more[i] = <<at.part, at.row + i - 1>>
  <2> HIDE DEF Rows
  <2>1. more \in Seq(Rows)
    BY <1>2, IsASeq DEF RowsFrom
  <2>2. /\ DOMAIN more = 1 .. n
        /\ \A i \in 1 .. n : more[i] = <<at.part, at.row + i - 1>>
    BY DEF RowsFrom
  <2> HIDE DEF more
  <2>3. Len(more) \in Nat /\ DOMAIN more = 1 .. Len(more)
    BY <2>1, LenProperties
  <2>4. n \in 1 .. n \/ n = 0
    OBVIOUS
  <2>5. Len(more) \in 1 .. Len(more) \/ Len(more) = 0
    BY <2>3
  <2>6. Len(more) = n
    BY <2>2, <2>3, <2>4, <2>5
  <2> QED BY <2>1, <2>2, <2>6
<1> HIDE DEF Rows, more
<1> DEFINE all == visits[t] \o more
<1>4. /\ all \in Seq(Rows) /\ Len(all) = Len(visits[t]) + n /\ Len(visits[t]) \in Nat
      /\ \A i \in 1 .. Len(visits[t]) + n :
            all[i] = IF i <= Len(visits[t]) THEN visits[t][i] ELSE more[i - Len(visits[t])]
  <2>1. /\ all \in Seq(Rows) /\ Len(all) = Len(visits[t]) + Len(more)
        /\ \A i \in 1 .. Len(visits[t]) + Len(more) :
              all[i] = IF i <= Len(visits[t]) THEN visits[t][i] ELSE more[i - Len(visits[t])]
    <3>1. PICK old \in Seq(Rows), new \in Seq(Rows) : old = visits[t] /\ new = more
      BY <1>1, <1>3
    <3>2. /\ old \o new \in Seq(Rows) /\ Len(old \o new) = Len(old) + Len(new)
          /\ \A i \in 1 .. Len(old) + Len(new) :
                (old \o new)[i] = IF i <= Len(old) THEN old[i] ELSE new[i - Len(old)]
      BY ConcatProperties
    <3> QED BY <3>1, <3>2
  <2>2. Len(visits[t]) \in Nat
    BY <1>1, LenProperties
  <2> HIDE DEF all
  <2> QED BY <1>3, <2>1, <2>2
<1> HIDE DEF all
<1>5. ASSUME NEW i \in 1 .. Len(all)
      PROVE  \/ i \in 1 .. Len(visits[t]) /\ all[i] = visits[t][i]
             \/ \E j \in 1 .. n : all[i] = <<at.part, at.row + j - 1>>
  <2>1. CASE i <= Len(visits[t])
    BY <1>4, <1>5, <2>1
  <2>2. CASE ~(i <= Len(visits[t]))
    <3>1. i - Len(visits[t]) \in 1 .. n
      BY <1>4, <1>5, <2>2
    <3> QED BY <1>3, <1>4, <1>5, <2>2, <3>1
  <2> QED BY <2>1, <2>2
<1>6. ASSUME NEW j \in 1 .. n
      PROVE  all[Len(visits[t]) + j] = <<at.part, at.row + j - 1>>
  <2>1. PICK k \in Int : k = Len(visits[t]) + j
    BY <1>4
  <2>2. k \in 1 .. Len(visits[t]) + n /\ ~(k <= Len(visits[t])) /\ k - Len(visits[t]) = j
    BY <1>4, <2>1
  <2>3. all[k] = more[k - Len(visits[t])]
    BY <1>4, <2>2
  <2> QED BY <1>3, <2>1, <2>2, <2>3
<1>7. Lengthened(visits[t], all, at, n)
  <2>1. ASSUME NEW i \in 1 .. Len(visits[t]) PROVE all[i] = visits[t][i]
    <3>1. i \in 1 .. Len(visits[t]) + n /\ i <= Len(visits[t])
      BY <1>4
    <3> QED BY <1>4, <3>1
  <2> QED BY <1>4, <1>6, <2>1 DEF Lengthened
<1> QED BY <1>4, <1>5, <1>7, Zenon DEF all, more, Rows

\* With the flags the parts stay as they are.
LEMMA FlagsStay ==
    ASSUME FlagsOK, UNCHANGED flags
    PROVE  /\ FlagsOK' /\ Threads' = Threads
           /\ (consumer' = "row" \/ Aligned') = (consumer = "row" \/ Aligned)
           /\ iterations' = iterations /\ clusteringRowCount' = clusteringRowCount
           /\ \A t \in Threads : Offset(t)' = Offset(t) /\ Count(t)' = Count(t)
BY DEF flags, FlagsOK, Threads, Aligned, Offset, Count, Total

\* Every step keeps the types.
LEMMA TypeStep == FlagsOK /\ TypeOK /\ Walks /\ [Next]_vars => TypeOK'
<1> SUFFICES ASSUME FlagsOK, TypeOK, Walks, [Next]_vars PROVE TypeOK'
  OBVIOUS
<1>1. ASSUME NEW t \in Threads, Finish(t) PROVE TypeOK'
  <2>1. UNCHANGED <<flags, position, iteration, visits>>
        /\ done' = [done EXCEPT ![t] = TRUE]
    BY <1>1 DEF Finish
  <2> QED BY <2>1, FlagsStay DEF TypeOK, position
<1>2. ASSUME NEW t \in Threads, Operate(t) PROVE TypeOK'
  <2>1. UNCHANGED <<flags, done>>
        /\ iteration' = [iteration EXCEPT ![t] = IF WorkloadDone(t) THEN @ + 1 ELSE @]
    BY <1>2 DEF Operate
  <2>2. PICK at, n : Takes(t, at, n)
    BY <1>2, OperateStep
  <2>3. /\ at.part \in Nat /\ at.row \in Nat /\ at.processed \in Nat
        /\ clusteringRowCount \in Nat /\ n \in Nat /\ at.row + n <= clusteringRowCount
    BY <2>2 DEF Takes, IsPlace, FlagsOK
  <2>4. Threads' = Threads /\ clusteringRowCount' = clusteringRowCount
    BY <2>1, FlagsStay
  <2>5. nextPartition' \in [Threads -> Nat]
    BY <2>2, <2>3 DEF Takes, TypeOK
  <2>6. nextClusteringRow' \in [Threads -> 0 .. clusteringRowCount]
    <3>1. at.row + n \in 0 .. clusteringRowCount
      BY <2>3
    <3> QED BY <2>2, <3>1 DEF Takes, TypeOK
  <2>7. processedRowCount' \in [Threads -> Nat]
    <3>1. at.processed + n \in Nat
      BY <2>3
    <3> QED BY <2>2, <3>1 DEF Takes, TypeOK
  <2>8. iteration' \in [Threads -> Nat]
    BY <2>1 DEF TypeOK
  <2>9. visits' \in [Threads -> Seq(Nat \X (0 .. clusteringRowCount - 1))]
    <3>1. visits[t] \o RowsFrom(at, n) \in Seq(Nat \X (0 .. clusteringRowCount - 1))
      BY <2>3, VisitsGrow
    <3> QED BY <2>2, <3>1 DEF Takes, TypeOK
  <2> QED BY <2>1, <2>4, <2>5, <2>6, <2>7, <2>8, <2>9 DEF TypeOK
<1>3. CASE UNCHANGED vars
  BY <1>3, FlagsStay DEF TypeOK, vars, position
<1> QED BY <1>1, <1>2, <1>3 DEF Next

\* Every step keeps the places.
LEMMA WalkStep == FlagsOK /\ TypeOK /\ Walks /\ [Next]_vars => Walks'
<1> SUFFICES ASSUME FlagsOK, TypeOK, Walks, [Next]_vars PROVE Walks'
  OBVIOUS
<1>1. ASSUME NEW t \in Threads, Finish(t) PROVE Walks'
  <2>1. UNCHANGED <<flags, position, iteration>>
    BY <1>1 DEF Finish
  <2> QED BY <2>1, FlagsStay DEF Walks, position
<1>2. ASSUME NEW t \in Threads, Operate(t) PROVE Walks'
  <2>1. UNCHANGED flags
    BY <1>2 DEF Operate
  <2>2. iterations = 1 => iteration' = iteration
    <3>1. iterations = 1 => ~WorkloadDone(t)
      BY <1>2 DEF Operate, Walks
    <3>2. ~WorkloadDone(t) => iteration' = [iteration EXCEPT ![t] = iteration[t]]
      BY <1>2 DEF Operate
    <3> QED BY <3>1, <3>2 DEF TypeOK
  <2>3. PICK at, n : Takes(t, at, n)
    BY <1>2, OperateStep
  <2>4. /\ at.part \in Nat /\ at.row \in Nat /\ at.processed \in Nat /\ n \in Nat
        /\ at.part * clusteringRowCount + at.row = Offset(t) + at.processed
        /\ clusteringRowCount \in Nat /\ Offset(t) \in Nat
    BY <2>3, PartTypes DEF Takes, IsPlace, FlagsOK
  <2>5. at.part * clusteringRowCount + (at.row + n) = Offset(t) + (at.processed + n)
    <3>1. at.part * clusteringRowCount \in Nat
      BY <2>4, ProductNat
    <3> QED BY <2>4, <3>1
  <2>6. ASSUME NEW u \in Threads
        PROVE  nextPartition'[u] * clusteringRowCount + nextClusteringRow'[u]
                  = Offset(u) + processedRowCount'[u]
    <3>1. CASE u = t
      <4>1. /\ nextPartition'[u] = at.part /\ nextClusteringRow'[u] = at.row + n
            /\ processedRowCount'[u] = at.processed + n
        BY <2>3, <3>1 DEF Takes, TypeOK
      <4> QED BY <2>5, <3>1, <4>1
    <3>2. CASE u # t
      <4>1. /\ nextPartition'[u] = nextPartition[u]
            /\ nextClusteringRow'[u] = nextClusteringRow[u]
            /\ processedRowCount'[u] = processedRowCount[u]
        BY <2>3, <3>2 DEF Takes, TypeOK
      <4> QED BY <4>1 DEF Walks
    <3> QED BY <3>1, <3>2
  <2>7. /\ Threads' = Threads /\ clusteringRowCount' = clusteringRowCount
        /\ iterations' = iterations /\ \A u \in Threads : Offset(u)' = Offset(u)
    BY <2>1, FlagsStay
  <2>8. \A u \in Threads : iterations = 1 => iteration'[u] = 0
    BY <2>2 DEF Walks
  <2> QED BY <2>6, <2>7, <2>8 DEF Walks
<1>3. CASE UNCHANGED vars
  BY <1>3, FlagsStay DEF Walks, vars, position
<1> QED BY <1>1, <1>2, <1>3 DEF Next

\* The arithmetic of one row: the j-th of n rows taken lies in the part while the
\* rows processed do not exceed it.
LEMMA RowInPart ==
    ASSUME NEW before \in Nat, NEW row \in Nat, NEW offset \in Nat,
           NEW processed \in Nat, NEW count \in Nat, NEW n \in Nat,
           NEW j \in 1 .. n,
           before + row = offset + processed, processed + n <= count
    PROVE  /\ offset <= before + (row + j - 1)
           /\ before + (row + j - 1) < offset + count
OBVIOUS

\* Every step keeps the goroutines in their parts.
LEMMA OwnRowsStep ==
    FlagsOK /\ TypeOK /\ Walks /\ OwnRows /\ [Next]_vars => OwnRows'
<1> SUFFICES ASSUME FlagsOK, TypeOK, Walks, OwnRows, [Next]_vars PROVE OwnRows'
  OBVIOUS
<1>1. ASSUME NEW t \in Threads, Finish(t) PROVE OwnRows'
  <2>1. UNCHANGED <<flags, visits>>
    BY <1>1 DEF Finish
  <2> QED BY <2>1, FlagsStay DEF OwnRows, InOwnPart, Index
<1>2. ASSUME NEW t \in Threads, Operate(t) PROVE OwnRows'
  <2>1. UNCHANGED flags
    BY <1>2 DEF Operate
  <2>2. PICK at, n : Takes(t, at, n)
    BY <1>2, OperateStep
  <2>3. /\ at.part \in Nat /\ at.row \in Nat /\ at.processed \in Nat /\ n \in Nat
        /\ at.row + n <= clusteringRowCount
        /\ at.part * clusteringRowCount + at.row = Offset(t) + at.processed
        /\ clusteringRowCount \in Nat /\ Offset(t) \in Nat /\ Count(t) \in Nat
    BY <2>2, PartTypes DEF Takes, IsPlace, FlagsOK
  <2>4. /\ Threads' = Threads /\ clusteringRowCount' = clusteringRowCount
        /\ iterations' = iterations
        /\ (consumer' = "row" \/ Aligned') = (consumer = "row" \/ Aligned)
        /\ \A u \in Threads : Offset(u)' = Offset(u) /\ Count(u)' = Count(u)
    BY <2>1, FlagsStay
  <2>5. ASSUME consumer = "row" \/ Aligned, NEW u \in Threads,
               Count(u) > 0 \/ iterations = 1,
               NEW i \in 1 .. Len(visits'[u])
        PROVE  InOwnPart(u, visits'[u][i])
    <3>1. CASE u # t
      <4>1. visits'[u] = visits[u]
        BY <2>2, <3>1 DEF Takes, TypeOK
      <4> QED BY <2>5, <4>1 DEF OwnRows
    <3>2. CASE u = t
      <4>1. visits'[u] = visits[t] \o RowsFrom(at, n)
        BY <2>2, <3>2 DEF Takes, TypeOK
      <4>2. \/ i \in 1 .. Len(visits[t]) /\ visits'[u][i] = visits[t][i]
            \/ \E j \in 1 .. n : visits'[u][i] = <<at.part, at.row + j - 1>>
        <5>1. \A k \in 1 .. Len(visits[t] \o RowsFrom(at, n)) :
                 \/ k \in 1 .. Len(visits[t])
                    /\ (visits[t] \o RowsFrom(at, n))[k] = visits[t][k]
                 \/ \E j \in 1 .. n : (visits[t] \o RowsFrom(at, n))[k]
                                       = <<at.part, at.row + j - 1>>
          BY <2>3, VisitsGrow
        <5>2. i \in 1 .. Len(visits'[u])
          BY <2>5
        <5> DEFINE all == visits[t] \o RowsFrom(at, n)
        <5>3. visits'[u] = all
          BY <4>1
        <5>4. \A k \in 1 .. Len(all) :
                 \/ k \in 1 .. Len(visits[t]) /\ all[k] = visits[t][k]
                 \/ \E j \in 1 .. n : all[k] = <<at.part, at.row + j - 1>>
          BY <5>1
        <5> HIDE DEF all
        <5> QED BY <5>2, <5>3, <5>4
      <4>3. CASE i \in 1 .. Len(visits[t]) /\ visits'[u][i] = visits[t][i]
        BY <2>5, <3>2, <4>3 DEF OwnRows
      <4>4. CASE \E j \in 1 .. n : visits'[u][i] = <<at.part, at.row + j - 1>>
        <5>1. PICK j \in 1 .. n : visits'[u][i] = <<at.part, at.row + j - 1>>
          BY <4>4
        <5>2. Index(visits'[u][i]) = at.part * clusteringRowCount + (at.row + j - 1)
          BY <5>1 DEF Index
        <5>3. at.processed + n <= Count(t)
          BY <2>2, <2>5, <3>2 DEF Takes
        <5>4. PICK before \in Nat : before = at.part * clusteringRowCount
          BY <2>3, ProductNat
        <5>5. /\ Offset(t) <= before + (at.row + j - 1)
              /\ before + (at.row + j - 1) < Offset(t) + Count(t)
          <6>1. before + at.row = Offset(t) + at.processed
            BY <2>3, <5>4
          <6> QED BY <2>3, <5>3, <6>1, RowInPart
        <5> QED BY <3>2, <5>2, <5>4, <5>5 DEF InOwnPart
      <4> QED BY <4>2, <4>3, <4>4
    <3> QED BY <3>1, <3>2
  <2>6. ASSUME consumer = "row" \/ Aligned, NEW u \in Threads,
               Count(u) > 0 \/ iterations = 1,
               NEW i \in 1 .. Len(visits'[u])
        PROVE  InOwnPart(u, visits[u][i])'
    BY <2>4, <2>5, <2>6 DEF InOwnPart, Index
  <2> QED BY <2>4, <2>6 DEF OwnRows
<1>3. CASE UNCHANGED vars
  BY <1>3, FlagsStay DEF OwnRows, InOwnPart, Index, vars
<1> QED BY <1>1, <1>2, <1>3 DEF Next

\* The goroutines begin at their offsets.
LEMMA Begins == Init => FlagsOK /\ TypeOK /\ Walks /\ OwnRows
<1> SUFFICES ASSUME Init PROVE FlagsOK /\ TypeOK /\ Walks /\ OwnRows
  OBVIOUS
<1>1. FlagsOK
  BY SequentialAssumption DEF Init, FlagsOK
<1>2. \A t \in Threads :
         /\ StartPartition(t) \in Nat
         /\ StartClusteringRow(t) \in 0 .. clusteringRowCount - 1
         /\ StartPartition(t) * clusteringRowCount + StartClusteringRow(t) = Offset(t) + 0
         /\ Offset(t) \in Nat
  BY <1>1, StartAtOffset, PartTypes
<1>3. TypeOK
  BY <1>1, <1>2 DEF Init, TypeOK, FlagsOK
<1>4. Walks
  BY <1>2 DEF Init, Walks
<1>5. OwnRows
  BY DEF Init, OwnRows
<1> QED BY <1>1, <1>3, <1>4, <1>5

\* The flags never change.
LEMMA FlagsStep == FlagsOK /\ [Next]_vars => FlagsOK'
<1>1. [Next]_vars => UNCHANGED flags
  BY DEF Next, Finish, Operate, vars
<1> QED BY <1>1, FlagsStay

\* The types, and with them the place of every goroutine, hold in every state.
THEOREM TypeCorrect == Spec => [](FlagsOK /\ TypeOK /\ Walks)
BY Begins, FlagsStep, TypeStep, WalkStep, PTL DEF Spec

\* A goroutine visits rows of its own part only, if it takes them one by one or the
\* parts are whole partitions.
THEOREM OwnRowsCorrect == Spec => []OwnRows
BY Begins, TypeCorrect, OwnRowsStep, PTL DEF Spec

-----------------------------------------------------------------------------
(* The order of the rows, and how often each is visited *)

\* A goroutine that keeps to its part has visited as many rows as its iterations and
\* its place say, each at its place in the walk.
Ordered ==
    consumer = "row" \/ Aligned =>
        \A t \in Threads : Count(t) > 0 \/ iterations = 1 =>
            /\ processedRowCount[t] <= Count(t)
            /\ Len(visits[t]) = iteration[t] * Count(t) + processedRowCount[t]
            /\ \A i \in 1 .. Len(visits[t]) :
                  Index(visits[t][i]) = Offset(t) + ((i - 1) % Count(t))

\* A goroutine is done only when its last iteration is.
Finished ==
    \A t \in Threads :
        done[t] => WorkloadDone(t) /\ iteration[t] + 1 = iterations

\* Every step keeps the order.
LEMMA OrderStep ==
    FlagsOK /\ TypeOK /\ Walks /\ Ordered /\ [Next]_vars => Ordered'
<1> SUFFICES ASSUME FlagsOK, TypeOK, Walks, Ordered, [Next]_vars PROVE Ordered'
  OBVIOUS
<1>1. ASSUME NEW t \in Threads, Finish(t) PROVE Ordered'
  <2>1. UNCHANGED <<flags, position, iteration, visits>>
    BY <1>1 DEF Finish
  <2> QED BY <2>1, FlagsStay DEF Ordered, Index, position
<1>2. ASSUME NEW t \in Threads, Operate(t) PROVE Ordered'
  <2>1. /\ UNCHANGED flags
        /\ iteration' = [iteration EXCEPT ![t] = IF WorkloadDone(t) THEN @ + 1 ELSE @]
    BY <1>2 DEF Operate
  <2>2. PICK at, n : Takes(t, at, n)
    BY <1>2, OperateStep
  <2>3. /\ at.part \in Nat /\ at.row \in Nat /\ at.processed \in Nat /\ n \in Nat
        /\ at.row + n <= clusteringRowCount
        /\ at.part * clusteringRowCount + at.row = Offset(t) + at.processed
        /\ clusteringRowCount \in Nat /\ Offset(t) \in Nat /\ Count(t) \in Nat
    BY <2>2, PartTypes DEF Takes, IsPlace, FlagsOK
  <2>4. /\ Threads' = Threads /\ clusteringRowCount' = clusteringRowCount
        /\ iterations' = iterations
        /\ (consumer' = "row" \/ Aligned') = (consumer = "row" \/ Aligned)
        /\ \A u \in Threads : Offset(u)' = Offset(u) /\ Count(u)' = Count(u)
    BY <2>1, FlagsStay
  <2> SUFFICES ASSUME consumer = "row" \/ Aligned, NEW u \in Threads,
                      Count(u) > 0 \/ iterations = 1
               PROVE  /\ processedRowCount'[u] <= Count(u)
                      /\ Len(visits'[u]) = iteration'[u] * Count(u) + processedRowCount'[u]
                      /\ \A i \in 1 .. Len(visits'[u]) :
                            Index(visits'[u][i]) = Offset(u) + ((i - 1) % Count(u))
    BY <2>4 DEF Ordered, Index
  <2>5. at.row \in Nat /\ at.processed \in Nat /\ Offset(t) \in Nat /\ Count(t) \in Nat
        /\ n \in Nat
    BY <2>3
  <2>6. CASE u # t
    <3>1. /\ visits'[u] = visits[u] /\ processedRowCount'[u] = processedRowCount[u]
          /\ iteration'[u] = iteration[u]
      BY <2>1, <2>2, <2>6 DEF Takes, TypeOK
    <3> QED BY <3>1 DEF Ordered
  <2>7. CASE u = t
    <3> DEFINE all == visits[t] \o RowsFrom(at, n)
               old == Len(visits[t])
    <3>1. /\ visits'[t] = all /\ processedRowCount'[t] = at.processed + n
          /\ iteration'[t] = IF WorkloadDone(t) THEN iteration[t] + 1 ELSE iteration[t]
      BY <2>1, <2>2 DEF Takes, TypeOK
    <3>2. /\ processedRowCount[t] <= Count(t)
          /\ old = iteration[t] * Count(t) + processedRowCount[t]
          /\ \A i \in 1 .. old : Index(visits[t][i]) = Offset(t) + ((i - 1) % Count(t))
          /\ processedRowCount[t] \in Nat /\ iteration[t] \in Nat
      BY <2>7 DEF Ordered, TypeOK
    <3>3. at.processed + n <= Count(t)
      BY <2>2, <2>7 DEF Takes
    <3>4. iteration'[t] \in Nat
      BY <3>1, <3>2
    <3>5. PICK p \in Nat : p = iteration[t] * Count(t)
      BY <2>3, <3>2, ProductNat
    <3>6. PICK round \in Nat, r \in Nat :
             round = iteration'[t] /\ r = round * Count(t)
      BY <2>3, <3>4, ProductNat
    <3>7. PICK l \in Nat : l = old /\ l = r + at.processed
      <4>1. CASE WorkloadDone(t)
        <5>1. /\ processedRowCount[t] = Count(t) /\ at.processed = 0
              /\ round = iteration[t] + 1
          BY <2>2, <2>3, <3>1, <3>2, <3>6, <4>1 DEF WorkloadDone, Takes
        <5>2. (iteration[t] + 1) * Count(t) = iteration[t] * Count(t) + Count(t)
          BY <2>3, <3>2
        <5>3. r = p + Count(t)
          BY <3>5, <3>6, <5>1, <5>2
        <5>4. old = p + Count(t)
          BY <3>2, <3>5, <5>1
        <5> QED BY <2>3, <5>1, <5>3, <5>4
      <4>2. CASE ~WorkloadDone(t)
        <5>1. at.processed = processedRowCount[t] /\ round = iteration[t]
          BY <2>2, <3>1, <3>6, <4>2 DEF Takes
        <5>2. r = p
          BY <3>5, <3>6, <5>1
        <5> QED BY <3>2, <3>5, <5>1, <5>2
      <4> QED BY <4>1, <4>2
    <3>8. Lengthened(visits[t], all, at, n)
      BY <2>3, VisitsGrow
    <3> HIDE DEF all
    <3>9. /\ Len(all) = l + n
          /\ \A i \in 1 .. l : all[i] = visits[t][i]
          /\ \A j \in 1 .. n : all[l + j] = <<at.part, at.row + j - 1>>
      BY <3>7, <3>8 DEF Lengthened
    <3>10. Len(all) = r + (at.processed + n)
      BY <2>3, <3>7, <3>9
    <3>11. ASSUME NEW i \in 1 .. Len(all)
           PROVE  Index(all[i]) = Offset(t) + ((i - 1) % Count(t))
      <4>1. CASE i <= l
        <5>1. i \in 1 .. l
          BY <3>7, <3>9, <3>11, <4>1
        <5>2. Index(visits[t][i]) = Offset(t) + ((i - 1) % Count(t))
          BY <3>2, <3>7, <5>1
        <5> QED BY <3>9, <5>1, <5>2
      <4>2. CASE ~(i <= l)
        <5>1. PICK j \in 1 .. n : i = l + j
          <6>1. i - l \in 1 .. n /\ i = l + (i - l)
            BY <2>3, <3>9, <4>2
          <6> QED BY <6>1
        <5>2. all[i] = <<at.part, at.row + j - 1>>
          BY <3>9, <5>1
        <5>3. PICK start \in Nat : start = at.part * clusteringRowCount
          BY <2>3, ProductNat
        <5>4. Index(all[i]) = start + (at.row + j - 1)
          BY <5>2, <5>3 DEF Index
        <5>5. start + (at.row + j - 1) = Offset(t) + (at.processed + j - 1)
          <6>1. start + at.row = Offset(t) + at.processed
            BY <2>3, <5>3
          <6>2. PICK a \in Nat, b \in Nat, o \in Nat :
                   a = at.row /\ b = at.processed /\ o = Offset(t)
            BY <2>5
          <6>3. start + a = o + b
            BY <6>1, <6>2
          <6>4. start + (a + j - 1) = o + (b + j - 1)
            BY <6>3
          <6> QED BY <6>2, <6>4
        <5>6. (round * Count(t) + at.processed + j - 1) % Count(t) = at.processed + j - 1
          <6>1. PICK b \in Nat, c \in Nat : b = at.processed /\ c = Count(t)
            BY <2>5
          <6>2. j \in Nat \ {0} /\ b + j <= c
            BY <2>5, <3>3, <6>1
          <6>3. c \in Nat \ {0} /\ b + j - 1 \in 0 .. c - 1
            BY <6>2
          <6>4. (round * c + (b + j - 1)) % c = b + j - 1
            BY <6>3, PlaceInRun
          <6>5. PICK m \in Nat : m = round * c
            BY ProductNat
          <6>6. round * c + b + j - 1 = round * c + (b + j - 1)
            BY <6>2, <6>5
          <6> QED BY <6>1, <6>4, <6>6
        <5>7. i - 1 = r + at.processed + j - 1
          BY <2>3, <3>7, <5>1
        <5>8. (i - 1) % Count(t) = at.processed + j - 1
          BY <3>6, <5>6, <5>7
        <5> QED BY <5>4, <5>5, <5>8
      <4> QED BY <3>7, <3>9, <4>1, <4>2
    <3> QED BY <2>3, <2>7, <3>1, <3>3, <3>6, <3>10, <3>11
  <2> QED BY <2>6, <2>7
<1>3. CASE UNCHANGED vars
  BY <1>3, FlagsStay DEF Ordered, Index, vars, position
<1> QED BY <1>1, <1>2, <1>3 DEF Next

\* Every step keeps what is said of the goroutines that are done.
LEMMA FinishedStep == TypeOK /\ Finished /\ [Next]_vars => Finished'
<1> SUFFICES ASSUME TypeOK, Finished, [Next]_vars PROVE Finished'
  OBVIOUS
<1>1. UNCHANGED flags
  BY DEF Next, Finish, Operate, vars
<1>2. /\ Threads' = Threads /\ iterations' = iterations
      /\ \A u \in Threads : Count(u)' = Count(u)
  BY <1>1 DEF flags, Threads, Count, Total
<1>3. ASSUME NEW t \in Threads, Finish(t) PROVE Finished'
  <2>1. UNCHANGED <<position, iteration>> /\ done' = [done EXCEPT ![t] = TRUE]
    BY <1>3 DEF Finish
  <2>2. WorkloadDone(t) /\ iteration[t] + 1 = iterations
    BY <1>3 DEF Finish
  <2>3. \A u \in Threads : done'[u] => WorkloadDone(u) /\ iteration[u] + 1 = iterations
    BY <2>1, <2>2 DEF Finished, TypeOK
  <2> QED BY <1>2, <2>1, <2>3 DEF Finished, WorkloadDone, position
<1>4. ASSUME NEW t \in Threads, Operate(t) PROVE Finished'
  <2>1. /\ ~done[t] /\ done' = done
        /\ iteration' = [iteration EXCEPT ![t] = IF WorkloadDone(t) THEN @ + 1 ELSE @]
        /\ \E k : processedRowCount' = [processedRowCount EXCEPT ![t] = k]
    BY <1>4 DEF Operate
  <2>2. \A u \in Threads : u # t =>
            /\ iteration'[u] = iteration[u]
            /\ processedRowCount'[u] = processedRowCount[u]
    BY <2>1 DEF TypeOK
  <2> QED BY <1>2, <2>1, <2>2 DEF Finished, WorkloadDone
<1>5. CASE UNCHANGED vars
  BY <1>2, <1>5 DEF Finished, WorkloadDone, vars, position
<1> QED BY <1>3, <1>4, <1>5 DEF Next

\* Nobody has visited anything when the goroutines begin.
LEMMA OrderBegins == Init => Ordered /\ Finished
<1> SUFFICES ASSUME Init PROVE Ordered /\ Finished
  OBVIOUS
<1>1. FlagsOK
  BY Begins
<1>2. \A t \in Threads : Count(t) \in Nat /\ 0 * Count(t) + 0 = 0
  BY <1>1, PartTypes
<1>3. \A t \in Threads :
         /\ visits[t] = << >> /\ processedRowCount[t] = 0 /\ iteration[t] = 0 /\ ~done[t]
  BY DEF Init
<1>4. Finished
  BY <1>3 DEF Finished
<1>5. Ordered
  BY <1>2, <1>3 DEF Ordered
<1> QED BY <1>4, <1>5

\* A goroutine that takes rows one by one, or in portions of any size from a part that
\* is whole partitions, visits its part from the first row to the last, and from the
\* first again in the next iteration (workloads.go:68-93).
THEOREM VisitsInOrderCorrect == Spec => []VisitsInOrder
<1>1. Ordered => VisitsInOrder
  BY DEF Ordered, VisitsInOrder
<1> QED BY <1>1, OrderBegins, TypeCorrect, OrderStep, PTL DEF Spec

\* Two rows with the same number are one.
LEMMA RowOfIndex ==
    ASSUME FlagsOK, NEW r \in Nat \X (0 .. clusteringRowCount - 1),
           NEW s \in Nat \X (0 .. clusteringRowCount - 1), Index(r) = Index(s)
    PROVE  r = s
<1> DEFINE n == clusteringRowCount
<1>1. n \in Nat \ {0}
  BY DEF FlagsOK
<1>2. PICK p \in Nat, c \in 0 .. n - 1 : r = <<p, c>>
  OBVIOUS
<1>3. PICK q \in Nat, d \in 0 .. n - 1 : s = <<q, d>>
  OBVIOUS
<1> HIDE DEF n
<1>4. PICK v \in Nat, w \in Nat : v = n * p /\ w = n * q /\ v = p * n /\ w = q * n
  BY <1>1, ProductNat
<1>5. Index(r) = v + c /\ Index(s) = w + d
  BY <1>2, <1>3, <1>4 DEF Index, n
<1>6. (n * p + c) % n = c /\ (n * q + d) % n = d
  BY <1>1, Remainder
<1>7. c = d
  BY <1>4, <1>5, <1>6
<1>8. v = w
  <2>1. v + c = w + c
    BY <1>5, <1>7
  <2>2. c \in Int
    BY <1>1
  <2> QED BY <2>1, <2>2
<1>9. ~(p > q) /\ ~(q > p)
  <2>1. p > q => n * p >= n * q + n
    BY <1>1, LargerProduct
  <2>2. q > p => n * q >= n * p + n
    BY <1>1, LargerProduct
  <2> QED BY <1>1, <1>4, <1>8, <2>1, <2>2
<1> QED BY <1>2, <1>3, <1>7, <1>9

\* A row of the population is in the part of a goroutine and in no other's.
LEMMA RowHasOwner ==
    ASSUME FlagsOK, NEW row \in Population
    PROVE  /\ row \in Nat \X (0 .. clusteringRowCount - 1)
           /\ \E t \in Threads :
                 InOwnPart(t, row) /\ \A u \in Threads : u # t => ~InOwnPart(u, row)
<1> DEFINE n == clusteringRowCount
           first == partitionOffset * n
<1>1. /\ n \in Nat \ {0} /\ partitionOffset \in Nat /\ partitionCount \in Nat
      /\ concurrency \in Nat \ {0}
  BY DEF FlagsOK
<1>2. PICK p \in partitionOffset .. partitionOffset + partitionCount - 1, c \in 0 .. n - 1 :
         row = <<p, c>>
  BY DEF Population
<1>3. first \in Nat /\ Total \in Nat /\ Total = partitionCount * n
  BY <1>1, ProductNat DEF Total, TotalRowCount
<1> HIDE DEF n
<1>4. p \in Nat /\ c \in Nat /\ c < n /\ p * n \in Nat /\ Index(row) = p * n + c
  BY <1>1, <1>2, ProductNat DEF Index, n
<1>5. first <= p * n
  BY <1>1, <1>2, <1>4, ProductMonotonic
<1>6. p * n + n <= first + Total
  <2>1. p + 1 \in Nat /\ partitionOffset + partitionCount \in Nat
        /\ p + 1 <= partitionOffset + partitionCount
    BY <1>1, <1>2
  <2>2. (p + 1) * n <= (partitionOffset + partitionCount) * n
    BY <1>1, <2>1, ProductMonotonic
  <2>3. (p + 1) * n = p * n + n
    BY <1>1, <1>4
  <2>4. (partitionOffset + partitionCount) * n = first + Total
    BY <1>1, <1>3
  <2> QED BY <2>2, <2>3, <2>4
<1> HIDE DEF first
<1>7. PICK k \in Nat : k = Index(row) /\ k \in first .. first + Total - 1
  <2>1. PICK m \in Nat : m = p * n
    BY <1>4
  <2>2. m + c \in Nat /\ m + c \in first .. first + Total - 1
    BY <1>1, <1>3, <1>4, <1>5, <1>6, <2>1
  <2> QED BY <1>4, <2>1, <2>2
<1>8. \A u \in Threads :
         InOwnPart(u, row) <=>
            /\ RowOffset(u, concurrency, Total, first) <= k
            /\ k < RowOffset(u, concurrency, Total, first) + RowCount(u, concurrency, Total)
  BY <1>7 DEF InOwnPart, Offset, Count, first, n
<1>9. PICK t \in Threads : InOwnPart(t, row)
  BY <1>1, <1>3, <1>7, <1>8, PartsCover DEF Threads
<1>10. ASSUME NEW u \in Threads, u # t, InOwnPart(u, row)
       PROVE  FALSE
  <2>1. t \in Nat /\ u \in Nat /\ (t < u \/ u < t)
    BY <1>1, <1>10 DEF Threads
  <2>2. \A v \in {t, u} :
           /\ RowOffset(v, concurrency, Total, first) \in Nat
           /\ RowCount(v, concurrency, Total) \in Nat
    BY <1>1, <1>3, <2>1, PartsAdjoin
  <2>3. CASE t < u
    <3>1. RowOffset(t, concurrency, Total, first) + RowCount(t, concurrency, Total)
             <= RowOffset(u, concurrency, Total, first)
      BY <1>1, <1>3, <2>1, <2>3, PartsDisjoint
    <3> QED BY <1>8, <1>9, <1>10, <2>2, <3>1
  <2>4. CASE u < t
    <3>1. RowOffset(u, concurrency, Total, first) + RowCount(u, concurrency, Total)
             <= RowOffset(t, concurrency, Total, first)
      BY <1>1, <1>3, <2>1, <2>4, PartsDisjoint
    <3> QED BY <1>8, <1>9, <1>10, <2>2, <3>1
  <2> QED BY <2>1, <2>3, <2>4
<1>11. row \in Nat \X (0 .. clusteringRowCount - 1)
  BY <1>2, <1>4 DEF n
<1> QED BY <1>9, <1>10, <1>11

\* A goroutine that is done has visited each row of its part once in each iteration.
LEMMA OwnerVisits ==
    ASSUME FlagsOK, TypeOK, Ordered, Finished, NEW t \in Threads, done[t],
           consumer = "row" \/ Aligned,
           NEW row \in Nat \X (0 .. clusteringRowCount - 1), InOwnPart(t, row)
    PROVE  LET V == {i \in 1 .. Len(visits[t]) : visits[t][i] = row}
           IN  Count(t) > 0 => IsFiniteSet(V) /\ Cardinality(V) = iterations
<1> SUFFICES ASSUME Count(t) > 0
             PROVE  /\ IsFiniteSet({i \in 1 .. Len(visits[t]) : visits[t][i] = row})
                    /\ Cardinality({i \in 1 .. Len(visits[t]) : visits[t][i] = row})
                          = iterations
  OBVIOUS
<1>1. Offset(t) \in Nat /\ Count(t) \in Nat \ {0} /\ iterations \in Nat
      /\ clusteringRowCount \in Nat
  BY PartTypes DEF FlagsOK
<1>2. Index(row) \in Nat
  <2>1. row[1] \in Nat /\ row[2] \in Nat
    OBVIOUS
  <2> QED BY <1>1, <2>1, ProductNat DEF Index
<1>3. PICK d \in 0 .. Count(t) - 1 : Index(row) = Offset(t) + d
  <2>1. /\ Index(row) - Offset(t) \in 0 .. Count(t) - 1
        /\ Index(row) = Offset(t) + (Index(row) - Offset(t))
    BY <1>1, <1>2 DEF InOwnPart
  <2> QED BY <2>1
<1>4. /\ Len(visits[t]) = iterations * Count(t)
      /\ \A i \in 1 .. Len(visits[t]) :
            Index(visits[t][i]) = Offset(t) + ((i - 1) % Count(t))
  <2>1. processedRowCount[t] \in Nat /\ iteration[t] \in Nat
    BY DEF TypeOK
  <2>2. /\ processedRowCount[t] <= Count(t)
        /\ Len(visits[t]) = iteration[t] * Count(t) + processedRowCount[t]
        /\ \A i \in 1 .. Len(visits[t]) :
              Index(visits[t][i]) = Offset(t) + ((i - 1) % Count(t))
    BY DEF Ordered
  <2>3. processedRowCount[t] = Count(t) /\ iterations = iteration[t] + 1
    <3>1. WorkloadDone(t) /\ iterations = iteration[t] + 1
      BY DEF Finished
    <3>2. processedRowCount[t] >= Count(t)
      BY <3>1 DEF WorkloadDone
    <3> QED BY <1>1, <2>1, <2>2, <3>1, <3>2
  <2>4. (iteration[t] + 1) * Count(t) = iteration[t] * Count(t) + Count(t)
    BY <1>1, <2>1
  <2> QED BY <2>2, <2>3, <2>4
<1>5. ASSUME NEW i \in 1 .. Len(visits[t])
      PROVE  visits[t][i] = row <=> (i - 1) % Count(t) = d
  <2>1. visits[t][i] \in Nat \X (0 .. clusteringRowCount - 1)
    BY LenProperties, ElementOfSeq DEF TypeOK
  <2>2. visits[t][i] = row <=> Index(visits[t][i]) = Index(row)
    BY <2>1, RowOfIndex
  <2>3. i - 1 \in Int
    OBVIOUS
  <2>4. PICK e \in Int : e = (i - 1) % Count(t)
    <3>1. PICK c \in Nat \ {0} : c = Count(t)
      BY <1>1
    <3>2. (i - 1) % c \in Int
      BY <2>3
    <3> QED BY <3>1, <3>2
  <2>5. Index(visits[t][i]) = Offset(t) + e
    BY <1>4, <2>4
  <2>6. Offset(t) + e = Offset(t) + d <=> e = d
    BY <1>1
  <2>7. visits[t][i] = row <=> e = d
    BY <1>3, <2>2, <2>5, <2>6
  <2> QED BY <2>4, <2>7
<1>6. {i \in 1 .. Len(visits[t]) : visits[t][i] = row}
         = {i \in 1 .. iterations * Count(t) : (i - 1) % Count(t) = d}
  BY <1>4, <1>5
<1>7. PICK c \in Nat \ {0}, n \in Nat : c = Count(t) /\ n = iterations
  BY <1>1
<1>8. /\ IsFiniteSet({i \in 1 .. n * c : (i - 1) % c = d})
      /\ Cardinality({i \in 1 .. n * c : (i - 1) % c = d}) = n
  <2>1. d \in 0 .. c - 1
    BY <1>7
  <2> QED BY <2>1, Repeats
<1> QED BY <1>6, <1>7, <1>8

\* When all goroutines are done the rows have been visited as often as there are
\* iterations.
LEMMA EachRowFromOrder ==
    FlagsOK /\ TypeOK /\ OwnRows /\ Ordered /\ Finished => EachRowOncePerIteration
<1> SUFFICES ASSUME FlagsOK, TypeOK, OwnRows, Ordered, Finished, AllDone,
                    consumer = "row" \/ Aligned,
                    iterations = 1 \/ \A t \in Threads : Count(t) > 0,
                    NEW row \in Population
             PROVE  TimesVisited(row) = iterations
  BY DEF EachRowOncePerIteration
<1> DEFINE V(u) == {i \in 1 .. Len(visits[u]) : visits[u][i] = row}
<1>1. row \in Nat \X (0 .. clusteringRowCount - 1)
  BY RowHasOwner
<1>2. PICK t \in Threads :
         InOwnPart(t, row) /\ \A u \in Threads : u # t => ~InOwnPart(u, row)
  BY RowHasOwner
<1>3. ASSUME NEW u \in Threads, u # t
      PROVE  V(u) = {}
  <2>1. \A i \in 1 .. Len(visits[u]) : InOwnPart(u, visits[u][i])
    BY DEF OwnRows
  <2> QED BY <1>2, <1>3, <2>1
<1>4. Count(t) > 0
  <2>1. /\ Offset(t) <= Index(row) /\ Index(row) < Offset(t) + Count(t)
        /\ Offset(t) \in Nat /\ Count(t) \in Nat
    BY <1>2, PartTypes DEF InOwnPart
  <2>2. Index(row) \in Nat
    <3>1. row[1] \in Nat /\ row[2] \in Nat /\ clusteringRowCount \in Nat
      BY <1>1 DEF FlagsOK
    <3> QED BY <3>1, ProductNat DEF Index
  <2> QED BY <2>1, <2>2
<1>5. done[t]
  BY DEF AllDone
<1>6. IsFiniteSet(V(t)) /\ Cardinality(V(t)) = iterations
  BY <1>1, <1>2, <1>4, <1>5, OwnerVisits
<1>7. TimesVisited(row) = Cardinality(UNION {{u} \X V(u) : u \in Threads})
  BY DEF TimesVisited
<1> HIDE DEF V
<1>8. UNION {{u} \X V(u) : u \in Threads} = {t} \X V(t)
  <2>1. \A u \in Threads : u # t => {u} \X V(u) = {}
    BY <1>3
  <2> QED BY <2>1
<1> QED BY <1>6, <1>7, <1>8, Pairs

\* When all goroutines are done every row of the population has been visited once in
\* each iteration, for any number of goroutines and any population (README.md:251).
THEOREM EachRowOncePerIterationCorrect == Spec => []EachRowOncePerIteration
<1>1. Spec => []Ordered
  BY OrderBegins, TypeCorrect, OrderStep, PTL DEF Spec
<1>2. Spec => []Finished
  BY OrderBegins, TypeCorrect, FinishedStep, PTL DEF Spec
<1> QED BY <1>1, <1>2, TypeCorrect, OwnRowsCorrect, EachRowFromOrder, PTL
-----------------------------------------------------------------------------
(* The end of the visit *)

\* A goroutine does not begin an iteration beyond the last.
InIterations ==
    iterations > 0 => \A t \in Threads : iteration[t] < iterations

\* The rows that are left to a goroutine in this iteration and in the later ones, and
\* a step to end each.
Left(t) ==
    IF done[t] THEN 0
    ELSE (iterations - iteration[t]) * (Count(t) + 1)
            - IF WorkloadDone(t) THEN Count(t) ELSE processedRowCount[t]

LeftOK == iterations > 0 => \A t \in Threads : Left(t) \in Nat /\ (~done[t] => Left(t) > 0)

\* With a number of iterations and operations that take rows, nobody makes more of
\* what is left, and every operation of a goroutine makes less of it.
VisitShrinks ==
    iterations > 0 /\ consumer # "partition" =>
        \A t \in Threads :
            /\ Left(t)' \in Nat /\ Left(t)' <= Left(t)
            /\ Finish(t) \/ Operate(t) => Left(t)' < Left(t)

\* What a step does to the counters of the goroutines.
LEMMA CountersStep ==
    ASSUME FlagsOK, TypeOK, Walks, NEW t \in Threads, Operate(t)
    PROVE  /\ ~done[t] /\ done' = done
           /\ iteration' = [iteration EXCEPT ![t] = IF WorkloadDone(t) THEN @ + 1 ELSE @]
           /\ WorkloadDone(t) => iteration[t] + 1 # iterations
           /\ \E n \in Nat :
                 /\ processedRowCount' = [processedRowCount EXCEPT
                       ![t] = (IF WorkloadDone(t) THEN 0 ELSE processedRowCount[t]) + n]
                 /\ consumer # "partition" => n >= 1
<1> DEFINE at == NextPartitionKey(Here(t))
<1>1. /\ IsPlace(at, t) /\ at.row < clusteringRowCount
      /\ at.processed = IF WorkloadDone(t) THEN 0 ELSE processedRowCount[t]
  BY HereIsPlace, NextPartitionKeyIsPlace DEF Here
<1>2. processedRowCount' = [processedRowCount EXCEPT ![t] = at.processed + Taken(at)]
  BY DEF Operate
<1> HIDE DEF at
<1>3. Taken(at) \in Nat
  BY <1>1, TakenInPartition
<1>4. consumer # "partition" => Taken(at) >= 1
  BY <1>1 DEF Taken, IsPlace, FlagsOK, AllConsumers
<1>5. /\ ~done[t] /\ done' = done
      /\ iteration' = [iteration EXCEPT ![t] = IF WorkloadDone(t) THEN @ + 1 ELSE @]
      /\ WorkloadDone(t) => iteration[t] + 1 # iterations
  BY DEF Operate
<1> QED BY <1>1, <1>2, <1>3, <1>4, <1>5

\* No step begins an iteration beyond the last.
LEMMA IterationsStep ==
    FlagsOK /\ TypeOK /\ Walks /\ InIterations /\ [Next]_vars => InIterations'
<1> SUFFICES ASSUME FlagsOK, TypeOK, Walks, InIterations, [Next]_vars PROVE InIterations'
  OBVIOUS
<1>1. Threads' = Threads /\ iterations' = iterations /\ iterations \in Nat
  BY FlagsStay DEF Next, Finish, Operate, vars, FlagsOK
<1>2. iteration \in [Threads -> Nat]
  BY DEF TypeOK
<1>3. ASSUME NEW t \in Threads, Operate(t) PROVE InIterations'
  BY <1>1, <1>2, <1>3, CountersStep DEF InIterations
<1>4. CASE iteration' = iteration
  BY <1>1, <1>4 DEF InIterations
<1> QED BY <1>3, <1>4 DEF Next, Finish, vars

\* What is left is a natural number, and not 0 before the end.
LEMMA LeftIsNat == FlagsOK /\ TypeOK /\ InIterations => LeftOK
<1> SUFFICES ASSUME FlagsOK, TypeOK, InIterations, iterations > 0, NEW t \in Threads
             PROVE  Left(t) \in Nat /\ (~done[t] => Left(t) > 0)
  BY DEF LeftOK
<1> DEFINE more == iterations - iteration[t] - 1
           p == IF WorkloadDone(t) THEN Count(t) ELSE processedRowCount[t]
<1>1. Count(t) \in Nat /\ processedRowCount[t] \in Nat /\ iteration[t] \in Nat
  BY PartTypes DEF TypeOK
<1>2. more \in Nat
  BY <1>1 DEF FlagsOK, InIterations
<1>3. p \in 0 .. Count(t)
  BY <1>1 DEF WorkloadDone
<1>4. iterations - iteration[t] = more + 1
  BY <1>1 DEF FlagsOK
<1> HIDE DEF more
<1>5. (more + 1) * (Count(t) + 1) = more * (Count(t) + 1) + Count(t) + 1
  BY <1>1, <1>2
<1>6. more * (Count(t) + 1) \in Nat
  BY <1>1, <1>2, ProductNat
<1>7. Left(t) = IF done[t] THEN 0 ELSE (more + 1) * (Count(t) + 1) - p
  BY <1>4 DEF Left
<1> HIDE DEF p
<1> QED BY <1>1, <1>3, <1>5, <1>6, <1>7

\* An operation leaves less.
LEMMA OperateShrinks ==
    ASSUME FlagsOK, TypeOK, Walks, InIterations, iterations > 0, consumer # "partition",
           NEW t \in Threads, Operate(t)
    PROVE  Left(t)' < Left(t)
<1> DEFINE c == Count(t)
           more == iterations - iteration[t] - 1
<1>1. /\ c \in Nat /\ processedRowCount[t] \in Nat /\ iteration[t] \in Nat
      /\ processedRowCount \in [Threads -> Nat] /\ iteration \in [Threads -> Nat]
      /\ more \in Nat /\ iterations - iteration[t] = more + 1
  BY PartTypes DEF TypeOK, FlagsOK, InIterations
<1>2. Threads' = Threads /\ iterations' = iterations /\ Count(t)' = c
  BY FlagsStay DEF Operate
<1>3. PICK n \in Nat : /\ n >= 1
                       /\ processedRowCount' = [processedRowCount EXCEPT
                             ![t] = (IF WorkloadDone(t) THEN 0 ELSE processedRowCount[t]) + n]
  BY CountersStep
<1>4. /\ ~done[t] /\ ~done'[t]
      /\ iteration'[t] = IF WorkloadDone(t) THEN iteration[t] + 1 ELSE iteration[t]
  BY <1>1, CountersStep
<1>5. WorkloadDone(t) <=> processedRowCount[t] >= c
  BY DEF WorkloadDone
<1>6. WorkloadDone(t)' <=> processedRowCount'[t] >= c
  BY <1>2 DEF WorkloadDone
<1> HIDE DEF c
<1>7. Left(t) = (more + 1) * (c + 1) - IF WorkloadDone(t) THEN c ELSE processedRowCount[t]
  BY <1>1, <1>4 DEF Left, c
<1>8. Left(t)' = (iterations - iteration'[t]) * (c + 1)
                    - IF WorkloadDone(t)' THEN c ELSE processedRowCount'[t]
  BY <1>2, <1>4 DEF Left
<1>9. (more + 1) * (c + 1) = more * (c + 1) + c + 1 /\ more * (c + 1) \in Nat
  BY <1>1, ProductNat
<1>10. CASE WorkloadDone(t)
  <2>1. processedRowCount'[t] = n /\ iterations - iteration'[t] = more
    BY <1>1, <1>3, <1>4, <1>10 DEF FlagsOK
  <2> HIDE DEF more
  <2>2. Left(t) = more * (c + 1) + 1
    BY <1>1, <1>7, <1>9, <1>10
  <2>3. Left(t)' <= more * (c + 1)
    BY <1>1, <1>3, <1>6, <1>8, <1>9, <2>1
  <2> QED BY <1>1, <1>3, <1>6, <1>8, <1>9, <2>1, <2>2
<1>11. CASE ~WorkloadDone(t)
  <2>1. processedRowCount'[t] = processedRowCount[t] + n /\ iterations - iteration'[t] = more + 1
    BY <1>1, <1>3, <1>4, <1>11
  <2> HIDE DEF more
  <2> QED BY <1>1, <1>3, <1>5, <1>6, <1>7, <1>8, <1>9, <1>11, <2>1
<1> QED BY <1>10, <1>11

\* A finite number of iterations takes a finite number of operations, whichever way
\* they take rows: each leaves less of what its goroutine has to do (workloads.go:68-93,
\* modes.go:158-173), for any population and any number of goroutines.
THEOREM VisitShrinksCorrect == Spec => [][VisitShrinks]_vars
<1>1. FlagsOK /\ TypeOK /\ Walks /\ InIterations /\ LeftOK /\ LeftOK' /\ [Next]_vars
        => [VisitShrinks]_vars
  <2> SUFFICES ASSUME FlagsOK, TypeOK, Walks, InIterations, LeftOK, LeftOK', [Next]_vars,
                      iterations > 0, consumer # "partition", NEW t \in Threads
               PROVE  /\ Left(t)' \in Nat /\ Left(t)' <= Left(t)
                      /\ Finish(t) \/ Operate(t) => Left(t)' < Left(t)
    BY DEF VisitShrinks
  <2>1. UNCHANGED flags
    BY DEF Next, Finish, Operate, vars
  <2>2. Threads' = Threads /\ iterations' = iterations /\ Count(t)' = Count(t)
    BY <2>1, FlagsStay
  <2>3. Left(t) \in Nat /\ Left(t)' \in Nat /\ (~done[t] => Left(t) > 0)
    BY <2>2 DEF LeftOK
  <2>4. ASSUME Operate(t) PROVE Left(t)' < Left(t)
    BY <2>4, OperateShrinks
  <2>5. ASSUME Finish(t) PROVE Left(t)' < Left(t)
    <3>1. ~done[t] /\ done'[t]
      BY <2>5 DEF Finish, TypeOK
    <3>2. Left(t)' = 0
      BY <3>1 DEF Left
    <3> QED BY <2>3, <3>1, <3>2
  <2>6. ASSUME ~Finish(t), ~Operate(t) PROVE Left(t)' = Left(t)
    <3>1. UNCHANGED <<done[t], iteration[t], processedRowCount[t]>>
      <4>1. ASSUME NEW u \in Threads, u # t, Finish(u) \/ Operate(u)
            PROVE  UNCHANGED <<done[t], iteration[t], processedRowCount[t]>>
        BY <4>1 DEF Finish, Operate, position, TypeOK
      <4> QED BY <2>6, <4>1 DEF Next, vars, position
    <3> QED BY <2>2, <3>1 DEF Left, WorkloadDone
  <2> QED BY <2>3, <2>4, <2>5, <2>6
<1>2. Init => InIterations
  BY Begins DEF Init, InIterations, FlagsOK
<1>3. Spec => []InIterations
  BY <1>2, TypeCorrect, IterationsStep, PTL DEF Spec
<1> QED BY <1>1, <1>3, LeftIsNat, TypeCorrect, PTL DEF Spec
=============================================================================
