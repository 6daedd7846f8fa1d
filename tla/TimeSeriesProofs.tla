-------------------------- MODULE TimeSeriesProofs --------------------------
(***************************************************************************)
(* Proofs about the time series workload, for any rates, concurrencies,     *)
(* partition and row counts: the writers stay apart, clustering keys fall,  *)
(* generations are full, the workers keep the rate, the reader never draws   *)
(* from an empty range, and it asks for rows that have been written.        *)
(***************************************************************************)
EXTENDS TimeSeries, NumberLemmas, SequenceTheorems, TLAPS

-----------------------------------------------------------------------------
(* Strides *)

\* Strides of the length of the concurrency keep the remainders of the workers apart.
LEMMA StridesApart ==
    ASSUME NEW c \in Nat \ {0}, NEW t \in 0 .. c - 1, NEW u \in 0 .. c - 1,
           NEW k \in Int, NEW l \in Int, t + k * c = u + l * c
    PROVE  t = u
<1>1. t - u = (l - k) * c
  OBVIOUS
<1>2. ASSUME NEW d \in Nat, d > 0 PROVE d * c >= c
  <2>1. 1 * c <= d * c
    BY <1>2, ProductMonotonic
  <2> QED BY <2>1
<1>3. CASE l > k
  BY <1>1, <1>2, <1>3
<1>4. CASE l < k
  <2>1. (k - l) * c >= c
    BY <1>2, <1>4
  <2>2. (k - l) * c = u - t
    BY <1>1
  <2> QED BY <2>1, <2>2
<1>5. CASE l = k
  BY <1>1, <1>5
<1> QED BY <1>3, <1>4, <1>5

\* Two strides from one place to one place are the same.
LEMMA SameStride ==
    ASSUME NEW c \in Nat \ {0}, NEW t \in Int, NEW l \in Int, NEW k \in Int,
           t + l * c = t + k * c
    PROVE  l = k
<1>1. PICK a \in Int : a = l * c /\ a = k * c
  <2>1. PICK a \in Int, b \in Int : a = l * c /\ b = k * c
    OBVIOUS
  <2> QED BY <2>1
<1>2. InRun(a, c, l, 0) /\ InRun(a, c, k, 0)
  BY <1>1 DEF InRun
<1> QED BY <1>2, SameRun

-----------------------------------------------------------------------------
(* Flags and types *)

FlagsOK ==
    /\ maximumRate \in MaxRates /\ concurrency \in ConcurrencyFlags /\ ThreadRate > 0
    /\ partitionCount \in PartitionCounts /\ concurrency <= partitionCount
    /\ clusteringRowCount \in ClusteringRowCounts
    /\ readers \in ReaderConcurrencies /\ threadID \in 0 .. readers - 1

SameFlags ==
    /\ maximumRate' = maximumRate /\ concurrency' = concurrency
    /\ partitionCount' = partitionCount /\ clusteringRowCount' = clusteringRowCount
    /\ readers' = readers /\ threadID' = threadID

\* No action changes a flag.
LEMMA FlagsConstant ==
    ASSUME [Next]_vars PROVE SameFlags
<1> USE DEF SameFlags, flags
<1>1. CASE ClockTick
  BY <1>1 DEF ClockTick
<1>2. ASSUME NEW t \in Threads, Idle(t) PROVE SameFlags
  BY <1>2 DEF Idle
<1>3. ASSUME NEW t \in Threads, StartWrite(t) PROVE SameFlags
  BY <1>3 DEF StartWrite
<1>4. ASSUME NEW t \in Threads, EndWrite(t) PROVE SameFlags
  BY <1>4 DEF EndWrite
<1>5. CASE ReadPartition
  BY <1>5 DEF ReadPartition
<1>6. CASE ReadRow
  BY <1>6 DEF ReadRow
<1>7. CASE UNCHANGED vars
  BY <1>7 DEF vars
<1> QED BY <1>1, <1>2, <1>3, <1>4, <1>5, <1>6, <1>7 DEF Next, TimeOver

\* The rate of a worker, and the periods, are whole and not 0.
LEMMA Periods ==
    ASSUME FlagsOK
    PROVE  /\ Second \in Nat \ {0} /\ concurrency \in Nat \ {0}
           /\ partitionCount \in Nat \ {0} /\ clusteringRowCount \in Nat \ {0}
           /\ ThreadRate \in Nat \ {0} /\ OpPeriod \in Nat \ {0}
           /\ Period \in Nat \ {0}
           /\ WriteRate \in Nat /\ (WriteRate > 0 => ReadPeriod \in Nat \ {0})
<1>1. /\ Second \in Nat \ {0} /\ concurrency \in Nat \ {0}
      /\ partitionCount \in Nat \ {0} /\ clusteringRowCount \in Nat \ {0}
      /\ maximumRate \in 1 .. Second /\ concurrency <= partitionCount
  BY RateAssumption, SeriesAssumption DEF FlagsOK
<1>2. ASSUME NEW n \in Nat \ {0}
      PROVE  maximumRate \div n \in Nat /\ maximumRate \div n <= Second
  <2>1. PICK q \in Nat, r \in 0 .. n - 1 : q = maximumRate \div n /\ maximumRate = n * q + r
    BY <1>1, DivMod
  <2>2. 1 * q <= n * q
    BY <2>1, ProductMonotonic
  <2> QED BY <1>1, <2>1, <2>2
<1>3. ThreadRate \in 1 .. Second
  BY <1>1, <1>2 DEF ThreadRate, FlagsOK
<1>4. WriteRate \in 0 .. Second
  BY <1>1, <1>2 DEF WriteRate
<1>5. ASSUME NEW a \in Nat, NEW n \in Nat \ {0}, n <= a
      PROVE  a \div n \in Nat \ {0}
  <2>1. 1 <= a \div n
    BY <1>5, QuotientAtLeast
  <2> QED BY <2>1, DivMod
<1>6. OpPeriod \in Nat \ {0}
  BY <1>1, <1>3, <1>5 DEF OpPeriod
<1>7. WriteRate > 0 => ReadPeriod \in Nat \ {0}
  BY <1>1, <1>4, <1>5 DEF ReadPeriod
<1>8. PartitionsPerThread \in Nat \ {0}
  BY <1>1, <1>5 DEF PartitionsPerThread
<1>9. Second * PartitionsPerThread \in Nat /\ Second <= Second * PartitionsPerThread
  <2>1. 1 * Second <= PartitionsPerThread * Second
        /\ PartitionsPerThread * Second \in Nat
    BY <1>1, <1>8, ProductMonotonic
  <2> QED BY <1>1, <1>8, <2>1
<1>10. Period \in Nat \ {0}
  BY <1>1, <1>3, <1>5, <1>9 DEF Period
<1> QED BY <1>1, <1>3, <1>4, <1>6, <1>7, <1>10

\* The flags are chosen once.
THEOREM FlagsCorrect == Spec => []FlagsOK
<1>1. Init => FlagsOK
  BY DEF Init, LimiterInit, WritersInit, ReaderInit, FlagsOK
<1>2. FlagsOK /\ [Next]_vars => FlagsOK'
  BY FlagsConstant DEF FlagsOK, SameFlags, ThreadRate
<1> QED BY <1>1, <1>2, PTL DEF Spec

-----------------------------------------------------------------------------
(* Types *)

\* Where a writer is: behind its first partition before it begins, not after.
Placed ==
    \A t \in Threads : /\ pkPosition[t] >= t - concurrency
                       /\ pc[t] = "test" => pkPosition[t] >= 0

\* A position a stride further on.
LEMMA Strides ==
    ASSUME FlagsOK, TypeOK, Placed, NEW t \in Threads
    PROVE  NextPosition(t) \in Int /\ NextPosition(t) >= t /\ t \in Nat
<1>1. concurrency \in Nat \ {0} /\ partitionCount \in Nat \ {0}
  BY Periods
<1>2. pkPosition[t] \in Int /\ pkPosition[t] >= t - concurrency /\ t \in Nat
  BY <1>1 DEF TypeOK, Placed, Threads
<1> QED BY <1>1, <1>2 DEF NextPosition, Wraps

\* The types hold.
THEOREM TypeCorrect == Spec => []TypeOK
<1> DEFINE Inv == TypeOK /\ Placed
<1>1. Init /\ FlagsOK => Inv
  <2> SUFFICES ASSUME Init, FlagsOK PROVE Inv
    OBVIOUS
  <2>1. /\ concurrency \in Nat \ {0} /\ partitionCount \in Nat \ {0}
        /\ clusteringRowCount \in Nat \ {0} /\ ThreadRate \in Nat \ {0}
    BY Periods
  <2>2. LimiterTypeOK
    BY <2>1, RateAssumption DEF Init, LimiterInit, LimiterTypeOK, Threads
  <2>3. ReadOffset \in Int
    <3>1. threadID \in Nat
      BY SeriesAssumption DEF FlagsOK
    <3> QED BY <2>1, <3>1, DivMod DEF ReadOffset
  <2>4. readPosition \in Int
    <3>1. readers \in Int
      BY SeriesAssumption DEF FlagsOK
    <3> QED BY <2>3, <3>1 DEF Init, ReaderInit
  <2>5. /\ pkPosition \in [Threads -> Int] /\ pkGeneration \in [Threads -> Nat]
        /\ ckPosition \in [Threads -> 0 .. clusteringRowCount - 1]
    BY <2>1 DEF Init, WritersInit, Threads
  <2>6. rows \in [Threads -> Seq(Rows)]
    <3>1. << >> \in Seq(Rows)
      BY EmptySeq
    <3> QED BY <3>1 DEF Init, WritersInit
  <2>7. Placed
    BY <2>1 DEF Init, WritersInit, LimiterInit, Placed, Threads
  <2> QED BY <2>2, <2>4, <2>5, <2>6, <2>7 DEF TypeOK, Init, ReaderInit
<1>2. FlagsOK /\ Inv /\ [Next]_vars => Inv'
  <2> SUFFICES ASSUME FlagsOK, TypeOK, Placed, [Next]_vars PROVE TypeOK' /\ Placed'
    OBVIOUS
  <2>1. /\ concurrency \in Nat \ {0} /\ partitionCount \in Nat \ {0}
        /\ clusteringRowCount \in Nat \ {0} /\ ThreadRate \in Nat \ {0}
        /\ Period \in Nat \ {0} /\ MaxTime \in Nat
    BY Periods, RateAssumption
  <2>2. /\ Threads' = Threads /\ ThreadRate' = ThreadRate
        /\ clusteringRowCount' = clusteringRowCount /\ concurrency' = concurrency
    BY FlagsConstant DEF SameFlags, Threads, ThreadRate
  <2>3. /\ LimiterTypeOK
        /\ now \in 0 .. MaxTime
        /\ limiterStart \in [Threads -> 0 .. MaxTime]
        /\ completed \in [Threads -> Nat]
        /\ pc \in [Threads -> {"new", "loop", "sleep", "test"}]
        /\ pkPosition \in [Threads -> Int]
        /\ pkGeneration \in [Threads -> Nat]
        /\ ckPosition \in [Threads -> 0 .. clusteringRowCount - 1]
        /\ rows \in [Threads -> Seq(Rows)]
        /\ readPosition \in Int /\ readGeneration \in Nat
        /\ reading \in BOOLEAN /\ panicked \in BOOLEAN
    BY DEF TypeOK, LimiterTypeOK
  <2>4. CASE UNCHANGED <<limiterStart, completed, pc>> /\ UNCHANGED writer
             /\ now' \in 0 .. MaxTime
             /\ readPosition' \in Int /\ readGeneration' \in Nat
             /\ reading' \in BOOLEAN /\ panicked' \in BOOLEAN
    <3>1. LimiterTypeOK'
      BY <2>1, <2>2, <2>3, <2>4 DEF LimiterTypeOK
    <3>2. TypeOK'
      BY <2>2, <2>3, <2>4, <3>1 DEF TypeOK, writer
    <3>3. Placed'
      BY <2>2, <2>4 DEF Placed, writer
    <3> QED BY <3>2, <3>3
  <2>5. CASE ClockTick
    <3>1. UNCHANGED <<limiterStart, completed, pc>> /\ UNCHANGED writer
          /\ now' = now + 1 /\ now < MaxTime
          /\ UNCHANGED <<readPosition, readGeneration, reading, panicked>>
      BY <2>5 DEF ClockTick, Tick, limiter, reader
    <3> QED BY <2>1, <2>3, <2>4, <3>1
  <2>6. ASSUME NEW t \in Threads, Idle(t) PROVE TypeOK' /\ Placed'
    <3>1. UNCHANGED writer /\ UNCHANGED <<readPosition, readGeneration, reading, panicked>>
          /\ now' = now
      BY <2>6 DEF Idle, NewRateLimiter, Wait, reader
    <3>2. /\ limiterStart' \in [Threads -> 0 .. MaxTime]
          /\ completed' \in [Threads -> Nat]
          /\ pc' \in [Threads -> {"new", "loop", "sleep", "test"}]
          /\ \A u \in Threads : pc'[u] = "test" => pc[u] = "test"
      <4>1. CASE NewRateLimiter(t)
        <5>1. /\ limiterStart' = [limiterStart EXCEPT ![t] = now]
              /\ completed' = completed /\ pc' = [pc EXCEPT ![t] = "loop"]
          BY <4>1 DEF NewRateLimiter, At
        <5> QED BY <2>3, <5>1
      <4>2. CASE Wait(t)
        <5>1. /\ completed' = [completed EXCEPT ![t] = @ + 1]
              /\ limiterStart' = limiterStart /\ pc' = [pc EXCEPT ![t] = "sleep"]
          BY <4>2 DEF Wait, At
        <5> QED BY <2>3, <5>1
      <4> QED BY <2>6, <4>1, <4>2 DEF Idle
    <3>3. LimiterTypeOK'
      BY <2>1, <2>2, <2>3, <3>1, <3>2 DEF LimiterTypeOK
    <3>4. TypeOK'
      BY <2>2, <2>3, <3>1, <3>3 DEF TypeOK, writer
    <3>5. Placed'
      BY <2>2, <3>1, <3>2 DEF Placed, writer
    <3> QED BY <3>4, <3>5
  <2>7. ASSUME NEW t \in Threads, StartWrite(t) PROVE TypeOK' /\ Placed'
    <3>1. /\ UNCHANGED <<now, limiterStart, completed>> /\ rows' = rows
          /\ UNCHANGED <<readPosition, readGeneration, reading, panicked>>
          /\ pc' = [pc EXCEPT ![t] = "test"]
          /\ pkPosition' = [pkPosition EXCEPT ![t] = NextPosition(t)]
          /\ pkGeneration' =
                [pkGeneration EXCEPT ![t] = IF Fills(t) THEN @ + 1 ELSE @]
          /\ ckPosition' = [ckPosition EXCEPT ![t] =
                IF ~Wraps(t) THEN @ ELSE IF Fills(t) THEN 0 ELSE @ + 1]
      BY <2>7 DEF StartWrite, Begin, At, reader
    <3>2. LimiterTypeOK'
      BY <2>1, <2>2, <2>3, <3>1 DEF LimiterTypeOK
    <3>3. NextPosition(t) \in Int /\ NextPosition(t) >= t /\ t \in Nat
      BY Strides
    <3>4. pkPosition' \in [Threads -> Int]
      BY <2>3, <3>1, <3>3
    <3>5. pkGeneration' \in [Threads -> Nat]
      BY <2>3, <3>1
    <3>6. ckPosition' \in [Threads -> 0 .. clusteringRowCount - 1]
      <4>1. Wraps(t) /\ ~Fills(t) => ckPosition[t] + 1 \in 0 .. clusteringRowCount - 1
        BY <2>1, <2>3 DEF Fills
      <4> QED BY <2>1, <2>3, <3>1, <4>1
    <3>7. TypeOK'
      BY <2>2, <2>3, <3>1, <3>2, <3>4, <3>5, <3>6 DEF TypeOK
    <3>8. Placed'
      <4> SUFFICES ASSUME NEW u \in Threads
                   PROVE  /\ pkPosition'[u] >= u - concurrency
                          /\ pc'[u] = "test" => pkPosition'[u] >= 0
        BY <2>2 DEF Placed
      <4>1. CASE u = t
        BY <2>1, <2>3, <3>1, <3>3, <4>1
      <4>2. CASE u # t
        BY <2>3, <3>1, <4>2 DEF Placed
      <4> QED BY <4>1, <4>2
    <3> QED BY <3>7, <3>8
  <2>8. ASSUME NEW t \in Threads, EndWrite(t) PROVE TypeOK' /\ Placed'
    <3> DEFINE r == [pos |-> pkPosition[t], gen |-> pkGeneration[t],
                     ck |-> ClusteringKey(t)]
    <3>1. /\ UNCHANGED <<now, limiterStart, completed>> /\ pc[t] = "test"
          /\ pc' = [pc EXCEPT ![t] = "loop"]
          /\ UNCHANGED <<pkPosition, pkGeneration, ckPosition>>
          /\ UNCHANGED <<readPosition, readGeneration, reading, panicked>>
          /\ rows' = [rows EXCEPT ![t] = Append(@, r)]
      BY <2>8 DEF EndWrite, End, At, reader
    <3>2. LimiterTypeOK'
      BY <2>1, <2>2, <2>3, <3>1 DEF LimiterTypeOK
    <3>3. ClusteringKey(t) \in Int
      <4>1. /\ ckPosition[t] \in Nat /\ pkGeneration[t] \in Nat
            /\ clusteringRowCount \in Nat /\ Period \in Nat
        BY <2>1, <2>3
      <4>2. pkGeneration[t] * clusteringRowCount \in Nat
        BY <4>1
      <4>3. ckPosition[t] + pkGeneration[t] * clusteringRowCount \in Nat
        BY <4>1, <4>2
      <4> QED BY <4>1, <4>3 DEF ClusteringKey
    <3>4. pkPosition[t] \in Nat /\ pkGeneration[t] \in Nat
      BY <2>3, <3>1 DEF Placed
    <3>5. r \in Rows
      BY <3>3, <3>4 DEF Rows
    <3> HIDE DEF r
    <3>6. rows' \in [Threads -> Seq(Rows)]
      <4>1. Append(rows[t], r) \in Seq(Rows)
        BY <2>3, <3>5, AppendProperties
      <4> QED BY <2>3, <3>1, <4>1
    <3>7. TypeOK'
      BY <2>2, <2>3, <3>1, <3>2, <3>6 DEF TypeOK
    <3>8. Placed'
      BY <2>2, <2>3, <3>1 DEF Placed
    <3> QED BY <3>7, <3>8
  <2>9. CASE ReadPartition
    <3>1. UNCHANGED <<limiterStart, completed, pc>> /\ UNCHANGED writer
          /\ now' = now /\ panicked' = panicked /\ reading' = TRUE
      BY <2>9 DEF ReadPartition, limiter
    <3>2. readPosition' \in Int
      <4>1. threadID \in Nat /\ readers \in Nat
        BY SeriesAssumption DEF FlagsOK
      <4>2. ReadOffset \in Int
        BY <2>1, <4>1, DivMod DEF ReadOffset
      <4> QED BY <2>3, <2>9, <4>1, <4>2 DEF ReadPartition
    <3>3. readGeneration' \in Nat
      BY <2>9 DEF ReadPartition, Draws
    <3> QED BY <2>3, <2>4, <3>1, <3>2, <3>3
  <2>10. CASE ReadRow
    <3>1. UNCHANGED <<limiterStart, completed, pc>> /\ UNCHANGED writer
          /\ UNCHANGED <<now, readPosition, readGeneration, reading>>
          /\ panicked' = (NextRows = {})
      BY <2>10 DEF ReadRow, limiter
    <3> QED BY <2>3, <2>4, <3>1
  <2>11. CASE UNCHANGED vars
    <3>1. UNCHANGED <<limiterStart, completed, pc>> /\ UNCHANGED writer
          /\ UNCHANGED <<now, readPosition, readGeneration, reading, panicked>>
      BY <2>11 DEF vars, limiter, reader
    <3> QED BY <2>3, <2>4, <3>1
  <2> QED
    BY <2>5, <2>6, <2>7, <2>8, <2>9, <2>10, <2>11 DEF Next, TimeOver
<1> QED BY <1>1, <1>2, FlagsCorrect, PTL DEF Spec

-----------------------------------------------------------------------------
(* The writers *)

\* The positions of a writer, and those of its rows, lie a whole number of strides
\* from its own.
OwnStride(t, position) == \E k \in Int : position = t + k * concurrency

Strided ==
    \A t \in Threads : /\ OwnStride(t, pkPosition[t])
                       /\ \A i \in 1 .. Len(rows[t]) : OwnStride(t, rows[t][i].pos)

\* What an action does to the writers, if anything: one of them turns to its next key,
\* or it appends a row with the key it has.
Turns(t) ==
    /\ rows' = rows
    /\ pc[t] = "sleep" /\ pc' = [pc EXCEPT ![t] = "test"]
    /\ pkPosition' = [pkPosition EXCEPT ![t] = NextPosition(t)]
    /\ pkGeneration' = [pkGeneration EXCEPT ![t] = IF Fills(t) THEN @ + 1 ELSE @]
    /\ ckPosition' = [ckPosition EXCEPT ![t] =
                         IF ~Wraps(t) THEN @ ELSE IF Fills(t) THEN 0 ELSE @ + 1]

Appends(t) ==
    /\ UNCHANGED <<pkPosition, pkGeneration, ckPosition>>
    /\ pc[t] = "test" /\ pc' = [pc EXCEPT ![t] = "loop"]
    /\ rows' = [rows EXCEPT ![t] = Append(@,
                  [pos |-> pkPosition[t], gen |-> pkGeneration[t],
                   ck |-> ClusteringKey(t)])]

Rests ==
    /\ UNCHANGED <<pkPosition, pkGeneration, ckPosition, rows>>
    /\ \A t \in Threads : pc'[t] = "test" <=> pc[t] = "test"

\* Every step is one of these.
LEMMA WriterSteps ==
    ASSUME TypeOK, [Next]_vars
    PROVE  Rests \/ \E t \in Threads : Turns(t) \/ Appends(t)
<1>1. pc \in [Threads -> {"new", "loop", "sleep", "test"}]
  BY DEF TypeOK, LimiterTypeOK
<1>2. UNCHANGED <<writer, pc>> => Rests
  BY DEF Rests, writer
<1>3. CASE ClockTick \/ ReadPartition \/ ReadRow \/ UNCHANGED vars
  BY <1>2, <1>3 DEF ClockTick, Tick, ReadPartition, ReadRow, vars, limiter
<1>4. ASSUME NEW t \in Threads, Idle(t) PROVE Rests
  <2>1. UNCHANGED writer
    BY <1>4 DEF Idle
  <2>2. /\ pc' = [pc EXCEPT ![t] = "loop"] \/ pc' = [pc EXCEPT ![t] = "sleep"]
        /\ pc[t] = "new" \/ pc[t] = "loop"
    BY <1>4 DEF Idle, NewRateLimiter, Wait, At
  <2>3. \A u \in Threads : pc'[u] = "test" <=> pc[u] = "test"
    BY <1>1, <2>2
  <2> QED BY <2>1, <2>3 DEF Rests, writer
<1>5. ASSUME NEW t \in Threads, StartWrite(t) PROVE Turns(t)
  BY <1>5 DEF StartWrite, Begin, At, Turns
<1>6. ASSUME NEW t \in Threads, EndWrite(t) PROVE Appends(t)
  BY <1>6 DEF EndWrite, End, At, Appends
<1> QED BY <1>3, <1>4, <1>5, <1>6 DEF Next, TimeOver

\* Any two rows of different writers are in different partitions.
THEOREM WritersApartCorrect == Spec => []WritersApart
<1>1. Init /\ FlagsOK => Strided
  <2> SUFFICES ASSUME Init, FlagsOK, NEW t \in Threads
               PROVE  OwnStride(t, pkPosition[t]) /\ Len(rows[t]) = 0
    BY DEF Strided
  <2>1. concurrency \in Nat
    BY Periods
  <2>2. t \in Int
    BY <2>1 DEF Threads
  <2>3. pkPosition[t] = t + (-1) * concurrency
    BY <2>1, <2>2 DEF Init, WritersInit
  <2>4. Len(rows[t]) = 0
    BY EmptySeq DEF Init, WritersInit
  <2> QED BY <2>3, <2>4 DEF OwnStride
<1>2. FlagsOK /\ TypeOK /\ Strided /\ [Next]_vars => Strided'
  <2> SUFFICES ASSUME FlagsOK, TypeOK, Strided, [Next]_vars PROVE Strided'
    OBVIOUS
  <2>1. concurrency \in Nat \ {0} /\ Threads \subseteq Int
    BY Periods DEF Threads
  <2>2. Threads' = Threads /\ concurrency' = concurrency
    BY FlagsConstant DEF SameFlags, Threads
  <2>3. /\ pkPosition \in [Threads -> Int] /\ rows \in [Threads -> Seq(Rows)]
    BY DEF TypeOK
  <2>4. CASE Rests
    BY <2>2, <2>4 DEF Rests, Strided, OwnStride
  <2>5. ASSUME NEW t \in Threads, Turns(t) PROVE Strided'
    <3>1. rows' = rows /\ pkPosition' = [pkPosition EXCEPT ![t] = NextPosition(t)]
      BY <2>5 DEF Turns
    <3>2. OwnStride(t, NextPosition(t))
      <4>1. PICK k \in Int : pkPosition[t] = t + k * concurrency
        BY DEF Strided, OwnStride
      <4>2. t = t + 0 * concurrency
        BY <2>1
      <4>3. pkPosition[t] + concurrency = t + (k + 1) * concurrency
        BY <2>1, <4>1
      <4> QED BY <4>2, <4>3 DEF NextPosition, OwnStride
    <3>3. ASSUME NEW u \in Threads PROVE OwnStride(u, pkPosition'[u])
      BY <2>3, <3>1, <3>2 DEF Strided
    <3> QED BY <2>2, <3>1, <3>3 DEF Strided, OwnStride
  <2>6. ASSUME NEW t \in Threads, Appends(t) PROVE Strided'
    <3> DEFINE r == [pos |-> pkPosition[t], gen |-> pkGeneration[t],
                     ck |-> ClusteringKey(t)]
    <3>1. pkPosition' = pkPosition /\ rows' = [rows EXCEPT ![t] = Append(@, r)]
      BY <2>6 DEF Appends
    <3>2. r.pos = pkPosition[t]
      OBVIOUS
    <3> HIDE DEF r
    <3>3. ASSUME NEW u \in Threads, NEW i \in 1 .. Len(rows'[u])
          PROVE  OwnStride(u, rows'[u][i].pos)
      <4>1. CASE u # t
        <5>1. rows'[u] = rows[u]
          BY <2>3, <3>1, <4>1
        <5> QED BY <5>1 DEF Strided
      <4>2. CASE u = t
        <5>1. rows'[u] = Append(rows[t], r) /\ rows[t] \in Seq(Rows)
          BY <2>3, <3>1, <4>2
        <5>2. Len(rows'[u]) = Len(rows[t]) + 1 /\ Len(rows[t]) \in Nat
          BY <5>1
        <5>3. CASE i = Len(rows[t]) + 1
          <6>1. rows'[u][i] = r
            BY <5>1, <5>3
          <6> QED BY <3>2, <4>2, <6>1 DEF Strided
        <5>4. CASE i # Len(rows[t]) + 1
          <6>1. i \in 1 .. Len(rows[t]) /\ rows'[u][i] = rows[t][i]
            BY <5>1, <5>2, <5>4
          <6> QED BY <4>2, <6>1 DEF Strided
        <5> QED BY <5>3, <5>4
      <4> QED BY <4>1, <4>2
    <3> QED BY <2>2, <3>1, <3>3 DEF Strided, OwnStride
  <2> QED BY <2>4, <2>5, <2>6, WriterSteps
<1>3. FlagsOK /\ Strided => WritersApart
  <2> SUFFICES ASSUME FlagsOK, Strided, NEW t \in Threads, NEW u \in Threads, t # u,
                      NEW i \in 1 .. Len(rows[t]), NEW j \in 1 .. Len(rows[u]),
                      rows[t][i].pos = rows[u][j].pos
               PROVE  FALSE
    BY DEF WritersApart, SamePartition
  <2>1. concurrency \in Nat \ {0}
    BY Periods
  <2>2. PICK k \in Int, l \in Int : /\ rows[t][i].pos = t + k * concurrency
                                    /\ rows[u][j].pos = u + l * concurrency
    BY DEF Strided, OwnStride
  <2>3. t + k * concurrency = u + l * concurrency
    BY <2>2
  <2> QED BY <2>1, <2>3, StridesApart DEF Threads
<1> QED BY <1>1, <1>2, <1>3, FlagsCorrect, TypeCorrect, PTL DEF Spec

\* The next position is whole.
LEMMA NextPositionWhole ==
    ASSUME FlagsOK, TypeOK, NEW t \in Threads PROVE NextPosition(t) \in Int
<1>1. concurrency \in Nat \ {0}
  BY Periods
<1>2. t \in Int /\ pkPosition[t] \in Int
  BY <1>1 DEF Threads, TypeOK
<1> QED BY <1>1, <1>2 DEF NextPosition

\* The number of the row a writer is at, through the generations.
Number(t) == ckPosition[t] + pkGeneration[t] * clusteringRowCount

\* A row is from an earlier round of the writer's positions, or from this one, in which
\* they rise.
Before(t, row) ==
    \E n \in Nat :
        /\ row.ck = -(Period * n)
        /\ n <= Number(t)
        /\ n = Number(t) => /\ row.pos <= pkPosition[t]
                            /\ pc[t] = "test" => row.pos < pkPosition[t]

AllBefore == \A t \in Threads : \A i \in 1 .. Len(rows[t]) : Before(t, rows[t][i])

\* A turn goes to a higher position, or else to the first one and the next number.
LEMMA TurnsGoOn ==
    ASSUME FlagsOK, TypeOK, [Next]_vars, NEW t \in Threads, Turns(t)
    PROVE  /\ Number(t) \in Nat
           /\ \/ Number(t)' = Number(t) /\ pkPosition'[t] > pkPosition[t]
              \/ Number(t)' = Number(t) + 1
           /\ Wraps(t) => Number(t)' = Number(t) + 1 /\ pkPosition'[t] = t
           /\ ~Wraps(t) => /\ Number(t)' = Number(t)
                           /\ pkPosition'[t] = pkPosition[t] + concurrency
<1> DEFINE c == ckPosition[t]
           g == pkGeneration[t]
           n == clusteringRowCount
<1>1. /\ n \in Nat \ {0} /\ concurrency \in Nat \ {0} /\ n' = n
      /\ c \in 0 .. n - 1 /\ g \in Nat /\ pkPosition[t] \in Int
  BY Periods, FlagsConstant DEF TypeOK, SameFlags
<1>2. /\ pkPosition'[t] = NextPosition(t)
      /\ g' = (IF Fills(t) THEN g + 1 ELSE g)
      /\ c' = (IF ~Wraps(t) THEN c ELSE IF Fills(t) THEN 0 ELSE c + 1)
  BY DEF Turns, TypeOK
<1>3. Number(t) = c + g * n /\ Number(t)' = c' + g' * n
  BY <1>1 DEF Number
<1>4. Fills(t) => Wraps(t) /\ c + 1 >= n
  BY DEF Fills
<1>5. Wraps(t) /\ ~Fills(t) => c' = c + 1 /\ g' = g
  BY <1>2
<1>6. Wraps(t) => pkPosition'[t] = t
  BY <1>2 DEF NextPosition
<1> HIDE DEF c, g, n
<1>7. g * n \in Nat /\ (g + 1) * n = g * n + n
  BY <1>1
<1>8. CASE Fills(t)
  <2>1. c = n - 1
    BY <1>1, <1>4, <1>8
  <2>2. c' = 0 /\ g' = g + 1
    BY <1>2, <1>4, <1>8
  <2> QED BY <1>1, <1>3, <1>4, <1>7, <1>6, <1>8, <2>1, <2>2
<1>9. CASE ~Fills(t) /\ Wraps(t)
  <2>1. c' = c + 1 /\ g' = g
    BY <1>5, <1>9
  <2> QED BY <1>1, <1>3, <1>7, <1>9, <1>6, <2>1
<1>10. CASE ~Wraps(t)
  <2>1. c' = c /\ g' = g
    BY <1>2, <1>4, <1>10
  <2>2. pkPosition'[t] = pkPosition[t] + concurrency
    BY <1>2, <1>10 DEF NextPosition
  <2> QED BY <1>1, <1>3, <1>7, <1>10, <2>1, <2>2
<1> QED BY <1>8, <1>9, <1>10

\* In a position, newer rows have smaller clustering keys than all older ones.
THEOREM NewerRowsSmallerCorrect == Spec => []NewerRowsSmaller
<1> DEFINE Inv == AllBefore /\ NewerRowsSmaller
<1>1. Init /\ FlagsOK => Inv
  <2> SUFFICES ASSUME Init, FlagsOK, NEW t \in Threads PROVE Len(rows[t]) = 0
    BY DEF AllBefore, NewerRowsSmaller
  <2> QED BY EmptySeq DEF Init, WritersInit
<1>2. FlagsOK /\ TypeOK /\ Inv /\ [Next]_vars => Inv'
  <2> SUFFICES ASSUME FlagsOK, TypeOK, AllBefore, NewerRowsSmaller, [Next]_vars
               PROVE  AllBefore' /\ NewerRowsSmaller'
    OBVIOUS
  <2>1. /\ Threads' = Threads /\ Period' = Period
        /\ clusteringRowCount' = clusteringRowCount
    BY FlagsConstant DEF SameFlags, Threads, Period, PartitionsPerThread, ThreadRate
  <2>2. /\ pkPosition \in [Threads -> Int] /\ rows \in [Threads -> Seq(Rows)]
        /\ pkGeneration \in [Threads -> Nat]
        /\ ckPosition \in [Threads -> 0 .. clusteringRowCount - 1]
        /\ pc \in [Threads -> {"new", "loop", "sleep", "test"}]
    BY DEF TypeOK, LimiterTypeOK
  <2>3. Period \in Nat \ {0} /\ clusteringRowCount \in Nat \ {0}
    BY Periods
  <2>5. CASE Rests
    <3>1. \A u \in Threads : /\ Number(u)' = Number(u) /\ pkPosition'[u] = pkPosition[u]
                             /\ pc'[u] = "test" => pc[u] = "test"
      BY <2>1, <2>5 DEF Rests, Number
    <3>2. rows' = rows
      BY <2>5 DEF Rests
    <3>3. ASSUME NEW u \in Threads, NEW i \in 1 .. Len(rows[u])
          PROVE  Before(u, rows[u][i])'
      <4> DEFINE row == rows[u][i]
      <4>1. Before(u, row)
        BY DEF AllBefore
      <4>2. row' = row
        BY <3>2
      <4> HIDE DEF row
      <4>3. Before(u, row)'
        BY <2>1, <3>1, <4>1, <4>2 DEF Before
      <4> QED BY <4>3 DEF row
    <3>4. AllBefore'
      BY <2>1, <3>2, <3>3 DEF AllBefore
    <3>5. NewerRowsSmaller'
      BY <2>1, <3>2 DEF NewerRowsSmaller
    <3> QED BY <3>4, <3>5
  <2>6. ASSUME NEW t \in Threads, Turns(t) PROVE AllBefore' /\ NewerRowsSmaller'
    <3>1. /\ rows' = rows /\ pc[t] = "sleep"
          /\ \A u \in Threads \ {t} : /\ Number(u)' = Number(u) /\ pc'[u] = pc[u]
                                      /\ pkPosition'[u] = pkPosition[u]
      BY <2>1, <2>2, <2>6 DEF Turns, Number
    <3>2. /\ Number(t) \in Nat /\ pkPosition[t] \in Int /\ pkPosition'[t] \in Int
          /\ \/ Number(t)' = Number(t) /\ pkPosition'[t] > pkPosition[t]
             \/ Number(t)' = Number(t) + 1
      BY <2>2, <2>6, TurnsGoOn, NextPositionWhole DEF Turns
    <3>3. ASSUME NEW u \in Threads, NEW i \in 1 .. Len(rows[u])
          PROVE  Before(u, rows[u][i])'
      <4> DEFINE row == rows[u][i]
      <4>1. Before(u, row) /\ row.pos \in Int
        <5>1. row \in Rows
          BY <2>2
        <5>2. row.pos \in Int
          BY <5>1 DEF Rows
        <5> QED BY <5>2 DEF AllBefore
      <4>2. row' = row
        BY <3>1
      <4> HIDE DEF row
      <4>3. Before(u, row)'
        <5>1. CASE u # t
          BY <2>1, <3>1, <4>1, <4>2, <5>1 DEF Before
        <5>2. CASE u = t
          <6>1. PICK n \in Nat : /\ row.ck = -(Period * n) /\ n <= Number(t)
                                 /\ n = Number(t) => row.pos <= pkPosition[t]
            BY <4>1, <5>2 DEF Before
          <6>2. /\ n <= Number(t)'
                /\ n = Number(t)' => row.pos < pkPosition'[t]
            BY <3>2, <4>1, <6>1
          <6>3. row.ck = -(Period' * n)
            BY <2>1, <6>1
          <6>4. n = Number(t)' => row.pos <= pkPosition'[t]
            BY <3>2, <4>1, <6>2
          <6> QED BY <4>2, <5>2, <6>2, <6>3, <6>4 DEF Before
        <5> QED BY <5>1, <5>2
      <4> QED BY <4>3 DEF row
    <3>4. AllBefore'
      BY <2>1, <3>1, <3>3 DEF AllBefore
    <3>5. NewerRowsSmaller'
      BY <2>1, <3>1 DEF NewerRowsSmaller
    <3> QED BY <3>4, <3>5
  <2>7. ASSUME NEW t \in Threads, Appends(t) PROVE AllBefore' /\ NewerRowsSmaller'
    <3> DEFINE r == [pos |-> pkPosition[t], gen |-> pkGeneration[t],
                     ck |-> ClusteringKey(t)]
    <3>1. /\ rows' = [rows EXCEPT ![t] = Append(@, r)]
          /\ pc[t] = "test" /\ pc'[t] = "loop" /\ \A u \in Threads \ {t} : pc'[u] = pc[u]
          /\ pkPosition' = pkPosition /\ \A u \in Threads : Number(u)' = Number(u)
      BY <2>1, <2>2, <2>7 DEF Appends, Number
    <3>2. r.pos = pkPosition[t] /\ r.ck = -(Period * Number(t))
      BY DEF ClusteringKey, Number
    <3>3. Number(t) \in Nat /\ pkPosition[t] \in Int
      <4>1. /\ ckPosition[t] \in Nat /\ pkGeneration[t] \in Nat
            /\ clusteringRowCount \in Nat
        BY <2>2, <2>3
      <4>2. pkGeneration[t] * clusteringRowCount \in Nat
        BY <4>1
      <4> QED BY <2>2, <4>1, <4>2 DEF Number
    <3> HIDE DEF r
    <3>4. /\ Len(rows[t]) \in Nat /\ Len(rows'[t]) = Len(rows[t]) + 1
          /\ rows'[t][Len(rows[t]) + 1] = r
          /\ \A i \in 1 .. Len(rows[t]) : rows'[t][i] = rows[t][i]
      <4>1. rows'[t] = Append(rows[t], r) /\ rows[t] \in Seq(Rows)
        BY <2>2, <3>1
      <4> QED BY <4>1
    <3>5. \A u \in Threads \ {t} : rows'[u] = rows[u]
      BY <2>2, <3>1
    <3>6. ASSUME NEW u \in Threads, NEW i \in 1 .. Len(rows'[u])
          PROVE  Before(u, rows[u][i])'
      <4> DEFINE row == rows'[u][i]
      <4>1. CASE u = t /\ i = Len(rows[t]) + 1
        <5>1. row = r
          BY <3>4, <4>1
        <5> HIDE DEF row
        <5>2. /\ row.ck = -(Period' * Number(u)') /\ Number(u)' \in Nat
              /\ Number(u)' <= Number(u)'
              /\ row.pos <= pkPosition'[u] /\ pc'[u] # "test"
          BY <2>1, <3>1, <3>2, <3>3, <4>1, <5>1
        <5>3. \E n \in Nat :
                /\ row.ck = -(Period' * n) /\ n <= Number(u)'
                /\ n = Number(u)' => row.pos <= pkPosition'[u] /\ (pc'[u] = "test" => row.pos < pkPosition'[u])
          BY <5>2
        <5> QED BY <5>3 DEF Before, row
      <4>2. CASE ~(u = t /\ i = Len(rows[t]) + 1)
        <5>1. i \in 1 .. Len(rows[u]) /\ row = rows[u][i]
          BY <3>4, <3>5, <4>2
        <5>2. Before(u, row)
          BY <5>1 DEF AllBefore
        <5>3. pc'[u] = "test" => pc[u] = "test"
          BY <3>1
        <5> HIDE DEF row
        <5>4. \E n \in Nat :
                /\ row.ck = -(Period' * n) /\ n <= Number(u)'
                /\ n = Number(u)' => row.pos <= pkPosition'[u] /\ (pc'[u] = "test" => row.pos < pkPosition'[u])
          BY <2>1, <3>1, <5>2, <5>3 DEF Before
        <5> QED BY <5>4 DEF Before, row
      <4> QED BY <4>1, <4>2
    <3>7. AllBefore'
      BY <2>1, <3>6 DEF AllBefore
    <3>8. ASSUME NEW i \in 1 .. Len(rows[t]), rows[t][i].pos = r.pos
          PROVE  r.ck < rows[t][i].ck
      <4>1. PICK n \in Nat : /\ rows[t][i].ck = -(Period * n) /\ n <= Number(t)
                             /\ n = Number(t) => rows[t][i].pos < pkPosition[t]
        BY <3>1 DEF AllBefore, Before
      <4>2. n < Number(t)
        BY <3>2, <3>3, <3>8, <4>1
      <4>3. n * Period < Number(t) * Period /\ n * Period \in Nat
            /\ Number(t) * Period \in Nat
        BY <2>3, <3>3, <4>2, ProductMonotonic
      <4>4. Period * n = n * Period /\ Period * Number(t) = Number(t) * Period
        BY <2>3, <3>3
      <4> QED BY <3>2, <4>1, <4>3, <4>4
    <3>9. NewerRowsSmaller'
      <4> SUFFICES ASSUME NEW u \in Threads,
                          NEW i \in 1 .. Len(rows'[u]), NEW j \in 1 .. Len(rows'[u]),
                          i < j, rows'[u][i].pos = rows'[u][j].pos
                   PROVE  rows'[u][j].ck < rows'[u][i].ck
        BY <2>1 DEF NewerRowsSmaller
      <4>1. CASE u # t
        BY <3>5, <4>1 DEF NewerRowsSmaller
      <4>2. CASE u = t /\ j = Len(rows[t]) + 1
        <5>1. i \in 1 .. Len(rows[t])
          BY <3>4, <4>2
        <5> QED BY <3>4, <3>8, <4>2, <5>1
      <4>3. CASE u = t /\ j # Len(rows[t]) + 1
        <5>1. i \in 1 .. Len(rows[t]) /\ j \in 1 .. Len(rows[t])
          BY <3>4, <4>3
        <5> QED BY <3>4, <4>3, <5>1 DEF NewerRowsSmaller
      <4> QED BY <4>1, <4>2, <4>3
    <3> QED BY <3>7, <3>9
  <2> QED BY <2>5, <2>6, <2>7, WriterSteps
<1> QED BY <1>1, <1>2, FlagsCorrect, TypeCorrect, PTL DEF Spec

-----------------------------------------------------------------------------
(* The reader *)

\* The generation the reader is in has begun.
Begins ==
    reading => /\ WriteRate > 0
               /\ readGeneration * (ReadPeriod * clusteringRowCount) <= now

\* The rows of a generation that has begun are not none.
LEMMA RangeNotEmpty ==
    ASSUME FlagsOK, TypeOK, Begins, reading PROVE NextRows # {}
<1> DEFINE n == clusteringRowCount
           g == readGeneration
           p == ReadPeriod
<1>1. n \in Nat \ {0} /\ g \in Nat /\ p \in Nat \ {0} /\ now \in Nat
  BY Periods DEF TypeOK, LimiterTypeOK, Begins
<1>2. g * (p * n) <= now
  BY DEF Begins
<1>3. MaxRange = IF now \div p - g * n + 1 < n THEN now \div p - g * n + 1 ELSE n
  BY DEF MaxRange
<1> HIDE DEF n, g, p
<1>4. g * n \in Nat /\ (g * n) * p = g * (p * n)
  BY <1>1
<1>5. g * n <= now \div p /\ now \div p \in Nat
  BY <1>1, <1>2, <1>4, QuotientAtLeast, DivMod
<1>6. MaxRange \in Nat /\ MaxRange >= 1
  BY <1>1, <1>3, <1>4, <1>5
<1>7. 0 \in Draws(MaxRange)
  BY <1>6 DEF Draws
<1> QED BY <1>7 DEF NextRows

\* The reader never draws from an empty range, at whatever times it draws.
THEOREM ReaderSafeCorrect == Spec => []ReaderSafe
<1> DEFINE Inv == Begins /\ ReaderSafe
<1>1. Init => Inv
  BY DEF Init, ReaderInit, Begins, ReaderSafe
<1>2. FlagsOK /\ TypeOK /\ Inv /\ [Next]_vars => Inv'
  <2> SUFFICES ASSUME FlagsOK, TypeOK, Begins, ReaderSafe, [Next]_vars
               PROVE  Begins' /\ ReaderSafe'
    OBVIOUS
  <2>1. /\ WriteRate' = WriteRate /\ ReadPeriod' = ReadPeriod
        /\ clusteringRowCount' = clusteringRowCount
    BY FlagsConstant DEF SameFlags, WriteRate, ReadPeriod
  <2>2. now \in Nat /\ readGeneration \in Nat /\ clusteringRowCount \in Nat \ {0}
        /\ (WriteRate > 0 => ReadPeriod \in Nat \ {0})
    BY Periods DEF TypeOK, LimiterTypeOK
  <2>3. ASSUME UNCHANGED reader, now' \in Nat, now' >= now PROVE Begins' /\ ReaderSafe'
    <3>1. readGeneration' = readGeneration /\ reading' = reading /\ panicked' = panicked
      BY <2>3 DEF reader
    <3>2. ASSUME reading PROVE readGeneration * (ReadPeriod * clusteringRowCount) <= now'
      <4>1. ReadPeriod * clusteringRowCount \in Nat
        BY <2>2, <3>2 DEF Begins
      <4>2. readGeneration * (ReadPeriod * clusteringRowCount) \in Nat
        BY <2>2, <4>1
      <4>3. readGeneration * (ReadPeriod * clusteringRowCount) <= now
        BY <3>2 DEF Begins
      <4> QED BY <2>2, <2>3, <4>2, <4>3
    <3> QED BY <2>1, <3>1, <3>2 DEF Begins, ReaderSafe
  <2>4. CASE ClockTick
    BY <2>2, <2>3, <2>4 DEF ClockTick, Tick
  <2>5. CASE UNCHANGED vars \/ \E t \in Threads : Idle(t) \/ StartWrite(t) \/ EndWrite(t)
    <3>1. UNCHANGED reader /\ now' = now
      BY <2>5 DEF Idle, NewRateLimiter, Wait, StartWrite, Begin, EndWrite, End, vars
    <3> QED BY <2>2, <2>3, <3>1
  <2>6. CASE ReadPartition
    <3>1. /\ WriteRate > 0 /\ now' = now /\ panicked' = panicked
          /\ readGeneration' \in 0 .. MaxGeneration - 1
      BY <2>6 DEF ReadPartition, Draws
    <3>2. PICK d \in Nat \ {0} : d = ReadPeriod * clusteringRowCount
      BY <2>2, <3>1
    <3>3. MaxGeneration = now \div d + 1
      BY <3>2 DEF MaxGeneration
    <3>4. readGeneration' \in Nat /\ readGeneration' <= now \div d
      <4>1. PICK q \in Nat : q = now \div d
        BY <2>2, <3>2, DivMod
      <4>2. readGeneration' \in 0 .. q
        BY <3>1, <3>3, <4>1
      <4> QED BY <4>1, <4>2
    <3>5. readGeneration' * d <= now
      BY <2>2, <3>2, <3>4, QuotientAtMost
    <3> QED BY <2>1, <3>1, <3>2, <3>5 DEF Begins, ReaderSafe
  <2>7. CASE ReadRow
    <3>1. /\ reading /\ panicked' = (NextRows = {})
          /\ UNCHANGED <<now, readGeneration, reading>>
      BY <2>7 DEF ReadRow
    <3>2. panicked' = FALSE
      BY <3>1, RangeNotEmpty
    <3> QED BY <2>1, <3>1, <3>2 DEF Begins, ReaderSafe
  <2> QED BY <2>4, <2>5, <2>6, <2>7 DEF Next, TimeOver
<1> QED BY <1>1, <1>2, FlagsCorrect, TypeCorrect, PTL DEF Spec

-----------------------------------------------------------------------------
(* The rate limiter *)

\* A worker has begun no more operations than there were periods since it started.
Paced ==
    \A t \in Threads :
        /\ limiterStart[t] <= now
        /\ pc[t] = "new" => completed[t] = 0
        /\ pc[t] = "sleep" => completed[t] > 0
        /\ OpPeriod * Begun(t) <= now - limiterStart[t]

\* No worker is ahead of its own rate since its limiter was made, however late it was
\* before; RateRespected is the sum of this over the workers.
THEOREM PacedCorrect == Spec => []Paced
<1>1. Init /\ FlagsOK => Paced
  <2> SUFFICES ASSUME Init, FlagsOK, NEW t \in Threads
               PROVE  /\ limiterStart[t] = 0 /\ now = 0 /\ pc[t] = "new"
                      /\ completed[t] = 0 /\ OpPeriod * Begun(t) = 0
    BY DEF Paced
  <2>1. OpPeriod \in Nat
    BY Periods
  <2>2. limiterStart[t] = 0 /\ now = 0 /\ pc[t] = "new" /\ completed[t] = 0
    BY DEF Init, LimiterInit
  <2> QED BY <2>1, <2>2 DEF Begun
<1>2. FlagsOK /\ TypeOK /\ Paced /\ [Next]_vars => Paced'
  <2> SUFFICES ASSUME FlagsOK, TypeOK, Paced, [Next]_vars PROVE Paced'
    OBVIOUS
  <2>1. Threads' = Threads /\ OpPeriod' = OpPeriod
    BY FlagsConstant DEF SameFlags, Threads, OpPeriod, ThreadRate
  <2>2. /\ OpPeriod \in Nat \ {0} /\ now \in Nat
        /\ limiterStart \in [Threads -> 0 .. MaxTime] /\ MaxTime \in Nat
        /\ completed \in [Threads -> Nat]
        /\ pc \in [Threads -> {"new", "loop", "sleep", "test"}]
    BY Periods, RateAssumption DEF TypeOK, LimiterTypeOK
  <2>3. ASSUME NEW u \in Threads
        PROVE  /\ limiterStart[u] \in Nat /\ completed[u] \in Nat
               /\ OpPeriod * completed[u] \in Nat /\ OpPeriod * Begun(u) \in Int
               /\ pc[u] # "sleep" => Begun(u) = completed[u]
               /\ pc[u] = "sleep" => Begun(u) = completed[u] - 1
    BY <2>2 DEF Begun
  <2>4. ASSUME NEW u \in Threads, limiterStart'[u] = limiterStart[u],
               completed'[u] = completed[u], pc'[u] = pc[u], now' \in Nat, now' >= now
        PROVE  /\ limiterStart'[u] <= now'
               /\ pc'[u] = "new" => completed'[u] = 0
               /\ pc'[u] = "sleep" => completed'[u] > 0
               /\ OpPeriod * Begun(u)' <= now' - limiterStart'[u]
    <3>1. Begun(u)' = Begun(u)
      BY <2>4 DEF Begun
    <3>2. OpPeriod * Begun(u) <= now - limiterStart[u] /\ limiterStart[u] <= now
      BY DEF Paced
    <3>3. OpPeriod * Begun(u)' <= now' - limiterStart[u]
      BY <2>2, <2>3, <2>4, <3>1, <3>2
    <3> QED BY <2>2, <2>3, <2>4, <3>2, <3>3 DEF Paced
  <2>5. CASE UNCHANGED limiter /\ now' \in Nat /\ now' >= now
    BY <2>1, <2>4, <2>5 DEF limiter, Paced
  <2>6. CASE ClockTick
    BY <2>2, <2>5, <2>6 DEF ClockTick, Tick
  <2>7. CASE ReadPartition \/ ReadRow \/ UNCHANGED vars
    BY <2>2, <2>5, <2>7 DEF ReadPartition, ReadRow, vars
  <2>8. ASSUME NEW t \in Threads,
               \A u \in Threads \ {t} : /\ limiterStart'[u] = limiterStart[u]
                                         /\ completed'[u] = completed[u] /\ pc'[u] = pc[u],
               now' = now, limiterStart'[t] <= now,
               pc'[t] # "new", pc'[t] = "sleep" => completed'[t] > 0,
               OpPeriod * Begun(t)' <= now - limiterStart'[t]
        PROVE  Paced'
    <3>1. ASSUME NEW u \in Threads
          PROVE  /\ limiterStart'[u] <= now'
                 /\ pc'[u] = "new" => completed'[u] = 0
                 /\ pc'[u] = "sleep" => completed'[u] > 0
                 /\ OpPeriod * Begun(u)' <= now' - limiterStart'[u]
      <4>1. CASE u = t
        BY <2>8, <4>1
      <4>2. CASE u # t
        BY <2>2, <2>4, <2>8, <4>2
      <4> QED BY <4>1, <4>2
    <3> QED BY <2>1, <3>1 DEF Paced
  <2>9. ASSUME NEW t \in Threads, NewRateLimiter(t) PROVE Paced'
    <3>1. /\ limiterStart' = [limiterStart EXCEPT ![t] = now] /\ completed' = completed
          /\ pc[t] = "new" /\ pc' = [pc EXCEPT ![t] = "loop"] /\ now' = now
      BY <2>9 DEF NewRateLimiter, At
    <3>2. completed[t] = 0
      BY <3>1 DEF Paced
    <3>3. limiterStart'[t] = now /\ pc'[t] = "loop" /\ Begun(t)' = 0
      BY <2>2, <3>1, <3>2 DEF Begun
    <3>4. OpPeriod * Begun(t)' <= now - limiterStart'[t]
      BY <2>2, <3>3
    <3> QED BY <2>2, <2>8, <3>1, <3>3, <3>4
  <2>10. ASSUME NEW t \in Threads, Wait(t) PROVE Paced'
    <3>1. /\ completed' = [completed EXCEPT ![t] = @ + 1] /\ limiterStart' = limiterStart
          /\ pc[t] = "loop" /\ pc' = [pc EXCEPT ![t] = "sleep"] /\ now' = now
      BY <2>10 DEF Wait, At
    <3>2. /\ pc'[t] = "sleep" /\ completed'[t] = completed[t] + 1
          /\ completed[t] \in Nat
      BY <2>2, <3>1
    <3>3. Begun(t)' = Begun(t)
      BY <3>1, <3>2 DEF Begun
    <3>4. OpPeriod * Begun(t)' <= now - limiterStart'[t] /\ limiterStart'[t] <= now
      BY <3>1, <3>3 DEF Paced
    <3> QED BY <2>2, <2>8, <3>1, <3>2, <3>4
  <2>11. ASSUME NEW t \in Threads, StartWrite(t) PROVE Paced'
    <3>1. /\ now >= Expected(t) /\ UNCHANGED <<now, limiterStart, completed>>
          /\ pc' = [pc EXCEPT ![t] = "test"]
      BY <2>11 DEF StartWrite, Begin, At
    <3>2. pc'[t] = "test" /\ Begun(t)' = completed[t]
      BY <2>2, <3>1 DEF Begun
    <3>3. OpPeriod * Begun(t)' <= now - limiterStart'[t]
      BY <2>2, <2>3, <3>1, <3>2 DEF Expected
    <3>4. limiterStart'[t] <= now
      BY <3>1 DEF Paced
    <3> QED BY <2>2, <2>8, <3>1, <3>2, <3>3, <3>4
  <2>12. ASSUME NEW t \in Threads, EndWrite(t) PROVE Paced'
    <3>1. /\ UNCHANGED <<now, limiterStart, completed>> /\ pc[t] = "test"
          /\ pc' = [pc EXCEPT ![t] = "loop"]
      BY <2>12 DEF EndWrite, End, At
    <3>2. pc'[t] = "loop" /\ Begun(t)' = Begun(t)
      BY <2>2, <3>1 DEF Begun
    <3>3. OpPeriod * Begun(t)' <= now - limiterStart'[t] /\ limiterStart'[t] <= now
      BY <3>1, <3>2 DEF Paced
    <3> QED BY <2>2, <2>8, <3>1, <3>2, <3>3
  <2> QED BY <2>6, <2>7, <2>9, <2>10, <2>11, <2>12 DEF Next, Idle, TimeOver
<1> QED BY <1>1, <1>2, FlagsCorrect, TypeCorrect, PTL DEF Spec

\* What the workers have begun, as the terms of their sum.
Terms == [t \in 0 .. concurrency - 1 |-> Begun(t)]

\* AllBegun is their sum.
LEMMA AllBegunIsSum ==
    ASSUME FlagsOK, TypeOK
    PROVE  /\ Terms \in [0 .. concurrency - 1 -> Int]
           /\ \E f : IsSum(f, concurrency, Terms) /\ AllBegun = f[concurrency]
<1>1. concurrency \in Nat \ {0}
  BY Periods
<1>2. Terms \in [0 .. concurrency - 1 -> Int]
  BY DEF Terms, Begun, TypeOK, LimiterTypeOK, Threads
<1> DEFINE Sum == CHOOSE Sum : Sum = [t \in 0 .. concurrency |->
                                        IF t = 0 THEN 0 ELSE Sum[t - 1] + Begun(t - 1)]
<1>3. ASSUME NEW f
      PROVE  [t \in 0 .. concurrency |-> IF t = 0 THEN 0 ELSE f[t - 1] + Begun(t - 1)]
               = [t \in 0 .. concurrency |-> IF t = 0 THEN 0 ELSE f[t - 1] + Terms[t - 1]]
  <2>1. \A t \in 0 .. concurrency : t # 0 => Terms[t - 1] = Begun(t - 1)
    BY <1>1 DEF Terms
  <2> HIDE DEF Begun
  <2> QED BY <2>1
<1>4. \E f : f = [t \in 0 .. concurrency |-> IF t = 0 THEN 0 ELSE f[t - 1] + Terms[t - 1]]
  BY <1>1, <1>2, SumExists
<1>5. \E f : f = [t \in 0 .. concurrency |-> IF t = 0 THEN 0 ELSE f[t - 1] + Begun(t - 1)]
  <2>1. PICK f : f = [t \in 0 .. concurrency |->
                        IF t = 0 THEN 0 ELSE f[t - 1] + Terms[t - 1]]
    BY <1>4
  <2>2. f = [t \in 0 .. concurrency |-> IF t = 0 THEN 0 ELSE f[t - 1] + Begun(t - 1)]
    BY <1>3, <2>1
  <2> QED BY <2>2
<1>6. Sum = [t \in 0 .. concurrency |-> IF t = 0 THEN 0 ELSE Sum[t - 1] + Begun(t - 1)]
  BY <1>5
<1>7. AllBegun = Sum[concurrency]
  BY DEF AllBegun
<1> HIDE DEF Sum
<1>8. Sum = [t \in 0 .. concurrency |-> IF t = 0 THEN 0 ELSE Sum[t - 1] + Terms[t - 1]]
  BY <1>3, <1>6
<1>9. IsSum(Sum, concurrency, Terms)
  BY <1>1, <1>2, <1>8, SumByDefinition
<1> QED BY <1>2, <1>7, <1>9

\* The workers together keep to -max-rate: none has begun more operations than there
\* were periods (rate_limiter.go:29-36, testrun.go:42-44).
THEOREM RateRespectedCorrect == Spec => []RateRespected
<1>1. ASSUME FlagsOK, TypeOK, Paced PROVE RateRespected
  <2> SUFFICES ASSUME Second % ThreadRate = 0
               PROVE  AllBegun * Second <= maximumRate * now
    BY DEF RateRespected
  <2>1. /\ concurrency \in Nat \ {0} /\ ThreadRate \in Nat \ {0} /\ OpPeriod \in Nat \ {0}
        /\ Second \in Nat \ {0} /\ maximumRate \in Nat /\ now \in Nat
    BY <1>1, Periods, RateAssumption DEF FlagsOK, TypeOK, LimiterTypeOK
  <2>2. Second = ThreadRate * OpPeriod
    BY <2>1, DivMod DEF OpPeriod
  <2>3. ThreadRate * concurrency <= maximumRate
    BY <2>1, QuotientAtMost DEF ThreadRate
  <2> DEFINE periods == now \div OpPeriod
  <2>4. periods \in Nat /\ periods * OpPeriod <= now
    BY <2>1, DivMod, QuotientAtMost
  <2>5. ASSUME NEW t \in 0 .. concurrency - 1 PROVE Begun(t) \in Int /\ Begun(t) <= periods
    <3>1. /\ t \in Threads /\ completed[t] \in Nat /\ limiterStart[t] \in Nat
          /\ OpPeriod * Begun(t) <= now - limiterStart[t]
      BY <1>1 DEF Threads, Paced, TypeOK, LimiterTypeOK
    <3>2. PICK b \in Int : b = Begun(t)
      BY <3>1 DEF Begun
    <3>3. CASE b < 0
      BY <2>4, <3>2, <3>3
    <3>4. CASE b >= 0
      <4>1. b \in Nat /\ OpPeriod * b = b * OpPeriod /\ b * OpPeriod <= now
        BY <2>1, <3>1, <3>2, <3>4
      <4>2. b <= now \div OpPeriod
        BY <2>1, <4>1, QuotientAtLeast
      <4> QED BY <3>2, <4>2
    <3> QED BY <3>2, <3>3, <3>4
  <2> HIDE DEF periods
  <2>6. PICK f : IsSum(f, concurrency, Terms) /\ AllBegun = f[concurrency]
    BY <1>1, AllBegunIsSum
  <2>7. \A t \in 0 .. concurrency - 1 : Terms[t] <= periods
    BY <2>5 DEF Terms
  <2>8. AllBegun <= concurrency * periods
    BY <1>1, <2>1, <2>4, <2>6, <2>7, AllBegunIsSum, SumBound
  <2>9. AllBegun \in Int
    BY <2>1, <2>6 DEF IsSum
  <2>10. PICK a \in Int : a = AllBegun /\ a <= concurrency * periods
    BY <2>8, <2>9
  <2>11. CASE a < 0
    <3>1. a * Second <= 0 /\ 0 <= maximumRate * now
      BY <2>1, <2>11
    <3>2. a * Second \in Int /\ maximumRate * now \in Int
      BY <2>1
    <3> QED BY <2>10, <3>1, <3>2
  <2>12. CASE a >= 0
    <3>1. a \in Nat /\ concurrency * periods \in Nat
      BY <2>1, <2>4, <2>12
    <3>2. a * Second <= (concurrency * periods) * Second
      BY <2>1, <2>10, <3>1, ProductMonotonic
    <3>3. (concurrency * periods) * Second
            = (ThreadRate * concurrency) * (periods * OpPeriod)
      BY <2>1, <2>2, <2>4
    <3>4. ThreadRate * concurrency \in Nat /\ periods * OpPeriod \in Nat
      BY <2>1, <2>4
    <3>5. /\ (ThreadRate * concurrency) * (periods * OpPeriod)
               <= maximumRate * (periods * OpPeriod)
          /\ (periods * OpPeriod) * maximumRate <= now * maximumRate
      BY <2>1, <2>3, <2>4, <3>4, ProductMonotonic
    <3>6. /\ (periods * OpPeriod) * maximumRate = maximumRate * (periods * OpPeriod)
          /\ now * maximumRate = maximumRate * now
      BY <2>1, <3>4
    <3>7. /\ a * Second \in Int /\ (concurrency * periods) * Second \in Int
          /\ (ThreadRate * concurrency) * (periods * OpPeriod) \in Int
          /\ maximumRate * (periods * OpPeriod) \in Int /\ maximumRate * now \in Int
      BY <2>1, <3>1, <3>4
    <3> QED BY <2>10, <3>2, <3>3, <3>5, <3>6, <3>7
  <2> QED BY <2>10, <2>11, <2>12
<1> QED BY <1>1, FlagsCorrect, TypeCorrect, PacedCorrect, PTL

-----------------------------------------------------------------------------
(* The series of a worker's rows *)

\* The partitions of a worker: it takes as many keys in each of its rounds.
Positions == (partitionCount - 1) \div concurrency + 1

\* Round number has this position at its place for the i-th key.
AtKey(t, i, position, number) ==
    \E k \in 0 .. Positions - 1 :
        InRun(i - 1, Positions, number, k) /\ position = t + k * concurrency

\* How many keys a writer has taken.
Taken(t) == IF pc[t] = "test" THEN Len(rows[t]) + 1 ELSE Len(rows[t])

\* The key is that of the worker's count of them ...
KeyInSeries(t) ==
    IF Taken(t) = 0 THEN pkPosition[t] = t - concurrency /\ Number(t) = 0
    ELSE AtKey(t, Taken(t), pkPosition[t], Number(t))

\* ... and so is that of each row, its generation being the one the round lies in.
RowInSeries(t, i, row) ==
    \E n \in Nat : /\ AtKey(t, i, row.pos, n)
                   /\ row.ck = -(Period * n)
                   /\ \E x : InRun(n, clusteringRowCount, row.gen, x)

InSeries ==
    \A t \in Threads :
        KeyInSeries(t) /\ \A i \in 1 .. Len(rows[t]) : RowInSeries(t, i, rows[t][i])

\* Positions is the quotient rounded up.
LEMMA PositionsAre ==
    ASSUME FlagsOK
    PROVE  /\ Positions \in Nat \ {0}
           /\ partitionCount <= Positions * concurrency
           /\ (Positions - 1) * concurrency < partitionCount
<1>1. PICK c \in Nat \ {0}, p \in Nat : c = concurrency /\ partitionCount = p + 1
  <2>1. concurrency \in Nat \ {0} /\ partitionCount - 1 \in Nat
        /\ partitionCount = (partitionCount - 1) + 1
    BY Periods
  <2> QED BY <2>1
<1>2. PICK q \in Nat, r \in 0 .. c - 1 : q = p \div c /\ p = c * q + r
  BY DivMod
<1>3. Positions = q + 1
  BY <1>1, <1>2 DEF Positions
<1>4. PICK m \in Nat : m = c * q /\ m = q * c
  BY ProductNat
<1>5. (q + 1) * c = m + c /\ ((q + 1) - 1) * c = m
  BY <1>4
<1> QED BY <1>1, <1>2, <1>3, <1>4, <1>5

\* A writer goes back to its first partition at the last place of a round.
LEMMA WrapsAtLast ==
    ASSUME FlagsOK, NEW t \in Threads, NEW k \in 0 .. Positions - 1,
           pkPosition[t] = t + k * concurrency
    PROVE  Wraps(t) <=> k = Positions - 1
<1>1. /\ Positions \in Nat \ {0} /\ concurrency \in Nat \ {0} /\ partitionCount \in Nat
      /\ t \in Nat
  BY Periods, PositionsAre DEF Threads
<1>2. PICK m \in Nat : m = (k + 1) * concurrency
  BY <1>1, ProductNat
<1>3. PICK p \in Nat : p = k * concurrency /\ m = p + concurrency
  BY <1>1, <1>2, ProductNat
<1>4. Wraps(t) <=> m >= partitionCount
  <2>1. Wraps(t) <=> (t + p) + concurrency >= partitionCount + t
    BY <1>3 DEF Wraps
  <2> QED BY <1>1, <1>3, <2>1
<1>5. CASE k = Positions - 1
  <2>1. m = Positions * concurrency
    BY <1>1, <1>2, <1>5
  <2> QED BY <1>4, <1>5, <2>1, PositionsAre
<1>6. CASE k # Positions - 1
  <2>1. k + 1 \in Nat /\ Positions - 1 \in Nat /\ k + 1 <= Positions - 1
    BY <1>1, <1>6
  <2>2. /\ m <= (Positions - 1) * concurrency
        /\ (Positions - 1) * concurrency \in Nat
    BY <1>1, <1>2, <2>1, ProductMonotonic
  <2>3. (Positions - 1) * concurrency < partitionCount
    BY PositionsAre
  <2>4. m < partitionCount
    BY <1>1, <2>2, <2>3
  <2> QED BY <1>1, <1>4, <1>6, <2>4
<1> QED BY <1>5, <1>6

\* A turn leads from each key of the series to the next one.
LEMMA TurnsToNext ==
    ASSUME FlagsOK, TypeOK, [Next]_vars, NEW t \in Threads, Turns(t), KeyInSeries(t)
    PROVE  KeyInSeries(t)'
<1>1. /\ Positions \in Nat \ {0} /\ concurrency \in Nat \ {0}
      /\ partitionCount \in Nat \ {0} /\ t \in Nat
      /\ Positions' = Positions /\ concurrency' = concurrency
  BY Periods, PositionsAre, FlagsConstant DEF SameFlags, Positions, Threads
<1>2. PICK i \in Nat : i = Len(rows[t]) /\ i = Taken(t) /\ Taken(t)' = i + 1
  <2>1. rows[t] \in Seq(Rows) /\ Len(rows[t]) \in Nat
    BY DEF TypeOK
  <2>2. pc[t] = "sleep" /\ pc'[t] = "test" /\ rows' = rows
    BY DEF Turns, TypeOK, LimiterTypeOK
  <2> QED BY <2>1, <2>2 DEF Taken
<1>3. /\ Number(t) \in Nat
      /\ Wraps(t) => Number(t)' = Number(t) + 1 /\ pkPosition'[t] = t
      /\ ~Wraps(t) => /\ Number(t)' = Number(t)
                      /\ pkPosition'[t] = pkPosition[t] + concurrency
  BY TurnsGoOn
<1>4. SUFFICES AtKey(t, i + 1, pkPosition'[t], Number(t)')
  <2>1. AtKey(t, Taken(t), pkPosition[t], Number(t))'
          = AtKey(t, i + 1, pkPosition'[t], Number(t)')
    BY <1>1, <1>2 DEF AtKey
  <2>2. Taken(t)' # 0
    BY <1>2
  <2> QED BY <2>1, <2>2 DEF KeyInSeries
<1>5. CASE i = 0
  <2>1. pkPosition[t] = t - concurrency /\ Number(t) = 0
    BY <1>2, <1>5 DEF KeyInSeries
  <2>2. ~Wraps(t)
    BY <1>1, <2>1 DEF Wraps
  <2>3. pkPosition'[t] = t + 0 * concurrency /\ Number(t)' = 0
    BY <1>1, <1>3, <2>1, <2>2
  <2>4. InRun((i + 1) - 1, Positions, 0, 0) /\ 0 \in 0 .. Positions - 1
    BY <1>1, <1>5 DEF InRun
  <2> QED BY <2>3, <2>4 DEF AtKey
<1>6. CASE i # 0
  <2>1. PICK k \in 0 .. Positions - 1 :
           InRun(i - 1, Positions, Number(t), k) /\ pkPosition[t] = t + k * concurrency
    BY <1>2, <1>6 DEF KeyInSeries, AtKey
  <2>2. PICK n \in Nat, m \in Nat : n = Number(t) /\ m = Positions * n
    BY <1>1, <1>3, ProductNat
  <2>3. i = m + k + 1
    BY <1>2, <2>1, <2>2 DEF InRun
  <2>4. Wraps(t) <=> k = Positions - 1
    BY <2>1, WrapsAtLast
  <2>5. CASE k = Positions - 1
    <3>1. pkPosition'[t] = t + 0 * concurrency /\ Number(t)' = n + 1
      BY <1>1, <1>3, <2>2, <2>4, <2>5
    <3>2. Positions * (n + 1) = m + Positions
      BY <1>1, <2>2
    <3>3. InRun((i + 1) - 1, Positions, n + 1, 0) /\ 0 \in 0 .. Positions - 1
      BY <1>1, <2>3, <2>5, <3>2 DEF InRun
    <3> QED BY <3>1, <3>3 DEF AtKey
  <2>6. CASE k # Positions - 1
    <3>1. pkPosition'[t] = (t + k * concurrency) + concurrency /\ Number(t)' = n
      BY <1>3, <2>1, <2>2, <2>4, <2>6
    <3>2. (t + k * concurrency) + concurrency = t + (k + 1) * concurrency
      BY <1>1
    <3>3. k + 1 \in 0 .. Positions - 1
      BY <1>1, <2>6
    <3>4. InRun((i + 1) - 1, Positions, n, k + 1)
      BY <2>2, <2>3, <3>3 DEF InRun
    <3> QED BY <3>1, <3>2, <3>3, <3>4 DEF AtKey
  <2> QED BY <2>5, <2>6
<1> QED BY <1>5, <1>6

\* Every writer follows its series, and so do the rows it has written.
THEOREM InSeriesCorrect == Spec => []InSeries
<1>1. Init /\ FlagsOK => InSeries
  <2> SUFFICES ASSUME Init, FlagsOK, NEW t \in Threads
               PROVE  Len(rows[t]) = 0 /\ KeyInSeries(t)
    BY DEF InSeries
  <2>1. clusteringRowCount \in Nat
    BY Periods
  <2>2. /\ rows[t] = << >> /\ pc[t] = "new" /\ pkPosition[t] = t - concurrency
        /\ ckPosition[t] = 0 /\ pkGeneration[t] = 0
    BY DEF Init, WritersInit, LimiterInit
  <2>3. Len(rows[t]) = 0 /\ Taken(t) = 0
    BY <2>2, EmptySeq DEF Taken
  <2>4. Number(t) = 0
    BY <2>1, <2>2 DEF Number
  <2> QED BY <2>2, <2>3, <2>4 DEF KeyInSeries
<1>2. FlagsOK /\ TypeOK /\ InSeries /\ [Next]_vars => InSeries'
  <2> SUFFICES ASSUME FlagsOK, TypeOK, InSeries, [Next]_vars PROVE InSeries'
    OBVIOUS
  <2>1. /\ Threads' = Threads /\ Period' = Period /\ Positions' = Positions
        /\ clusteringRowCount' = clusteringRowCount /\ concurrency' = concurrency
    BY FlagsConstant DEF SameFlags, Threads, Period, PartitionsPerThread, ThreadRate,
                         Positions
  <2>2. /\ pkPosition \in [Threads -> Int] /\ rows \in [Threads -> Seq(Rows)]
        /\ pkGeneration \in [Threads -> Nat]
        /\ ckPosition \in [Threads -> 0 .. clusteringRowCount - 1]
        /\ pc \in [Threads -> {"new", "loop", "sleep", "test"}]
    BY DEF TypeOK, LimiterTypeOK
  <2>3. \A t, i, position, n : AtKey(t, i, position, n)' <=> AtKey(t, i, position, n)
    BY <2>1 DEF AtKey
  <2>4. ASSUME NEW t, NEW i, NEW row, RowInSeries(t, i, row)
        PROVE  \E n \in Nat : /\ AtKey(t, i, row.pos, n)'
                              /\ row.ck = -(Period' * n)
                              /\ \E x : InRun(n, clusteringRowCount', row.gen, x)
    BY <2>1, <2>3, <2>4 DEF RowInSeries
  <2>5. ASSUME NEW t \in Threads, rows'[t] = rows[t], KeyInSeries(t)'
        PROVE  KeyInSeries(t)' /\ \A i \in 1 .. Len(rows'[t]) :
                                      RowInSeries(t, i, rows[t][i])'
    <3>1. ASSUME NEW i \in 1 .. Len(rows'[t]) PROVE RowInSeries(t, i, rows[t][i])'
      <4> DEFINE row == rows[t][i]
      <4>1. row' = row /\ RowInSeries(t, i, row)
        BY <2>5 DEF InSeries
      <4> HIDE DEF row
      <4>2. RowInSeries(t, i, row)'
        BY <2>4, <4>1 DEF RowInSeries
      <4> QED BY <4>2 DEF row
    <3> QED BY <2>5, <3>1
  <2>6. ASSUME NEW t \in Threads, rows'[t] = rows[t], pkPosition'[t] = pkPosition[t],
               Number(t)' = Number(t), Taken(t)' = Taken(t)
        PROVE  KeyInSeries(t)'
    <3>1. KeyInSeries(t)
      BY DEF InSeries
    <3>2. AtKey(t, Taken(t), pkPosition[t], Number(t))'
             <=> AtKey(t, Taken(t), pkPosition[t], Number(t))
      BY <2>1, <2>6 DEF AtKey
    <3> QED BY <2>1, <2>6, <3>1, <3>2 DEF KeyInSeries
  <2>7. CASE Rests
    <3>1. ASSUME NEW t \in Threads PROVE rows'[t] = rows[t] /\ KeyInSeries(t)'
      <4>1. /\ rows'[t] = rows[t] /\ pkPosition'[t] = pkPosition[t]
            /\ Number(t)' = Number(t) /\ (pc'[t] = "test" <=> pc[t] = "test")
        BY <2>1, <2>7 DEF Rests, Number
      <4>2. Taken(t)' = Taken(t)
        BY <4>1 DEF Taken
      <4> QED BY <2>6, <4>1, <4>2
    <3> QED BY <2>1, <2>5, <3>1 DEF InSeries
  <2>8. ASSUME NEW t \in Threads, Turns(t) PROVE InSeries'
    <3>1. ASSUME NEW u \in Threads PROVE rows'[u] = rows[u] /\ KeyInSeries(u)'
      <4>1. rows'[u] = rows[u]
        BY <2>8 DEF Turns
      <4>2. CASE u = t
        BY <2>8, <4>1, <4>2, TurnsToNext DEF InSeries
      <4>3. CASE u # t
        <5>1. /\ pkPosition'[u] = pkPosition[u] /\ Number(u)' = Number(u) /\ pc'[u] = pc[u]
          BY <2>1, <2>2, <2>8, <4>3 DEF Turns, Number
        <5>2. Taken(u)' = Taken(u)
          BY <4>1, <5>1 DEF Taken
        <5> QED BY <2>6, <4>1, <5>1, <5>2
      <4> QED BY <4>2, <4>3
    <3> QED BY <2>1, <2>5, <3>1 DEF InSeries
  <2>9. ASSUME NEW t \in Threads, Appends(t) PROVE InSeries'
    <3> DEFINE r == [pos |-> pkPosition[t], gen |-> pkGeneration[t],
                     ck |-> ClusteringKey(t)]
               l == Len(rows[t])
    <3>1. /\ rows' = [rows EXCEPT ![t] = Append(@, r)] /\ pkPosition' = pkPosition
          /\ pc[t] = "test" /\ pc'[t] = "loop" /\ \A u \in Threads \ {t} : pc'[u] = pc[u]
          /\ \A u \in Threads : Number(u)' = Number(u)
      BY <2>1, <2>2, <2>9 DEF Appends, Number
    <3>2. r.pos = pkPosition[t] /\ r.gen = pkGeneration[t] /\ r.ck = -(Period * Number(t))
      BY DEF ClusteringKey, Number
    <3> HIDE DEF r
    <3>3. /\ l \in Nat /\ Len(rows'[t]) = l + 1 /\ rows'[t][l + 1] = r
          /\ \A i \in 1 .. l : rows'[t][i] = rows[t][i]
      <4>1. rows'[t] = Append(rows[t], r) /\ rows[t] \in Seq(Rows)
        BY <2>2, <3>1
      <4> QED BY <4>1
    <3>4. ASSUME NEW u \in Threads, u # t
          PROVE  KeyInSeries(u)' /\ \A i \in 1 .. Len(rows'[u]) :
                                        RowInSeries(u, i, rows[u][i])'
      <4>1. /\ rows'[u] = rows[u] /\ pkPosition'[u] = pkPosition[u]
            /\ Number(u)' = Number(u) /\ Taken(u)' = Taken(u)
        BY <2>2, <3>1, <3>4 DEF Taken
      <4> QED BY <2>5, <2>6, <4>1
    <3>5. Number(t) \in Nat /\ InRun(Number(t), clusteringRowCount, pkGeneration[t], ckPosition[t])
      <4>1. PICK n \in Nat, g \in Nat, c \in Nat :
               /\ n = clusteringRowCount /\ g = pkGeneration[t] /\ c = ckPosition[t]
               /\ c \in 0 .. n - 1
        BY <2>2, Periods
      <4>2. c + g * n \in Nat /\ c + g * n = n * g + c
        BY <4>1
      <4> QED BY <4>1, <4>2 DEF Number, InRun
    <3>6. Taken(t) = l + 1 /\ Taken(t)' = l + 1 /\ l + 1 # 0
      BY <3>1, <3>3 DEF Taken
    <3>7. AtKey(t, l + 1, pkPosition[t], Number(t))
      BY <3>6 DEF InSeries, KeyInSeries
    <3>8. KeyInSeries(t)'
      <4>1. AtKey(t, Taken(t), pkPosition[t], Number(t))'
               <=> AtKey(t, l + 1, pkPosition[t], Number(t))
        BY <2>1, <3>1, <3>6 DEF AtKey
      <4> QED BY <3>6, <3>7, <4>1 DEF KeyInSeries
    <3>9. RowInSeries(t, l + 1, r)
      BY <3>2, <3>5, <3>7 DEF RowInSeries
    <3>10. ASSUME NEW i \in 1 .. Len(rows'[t]) PROVE RowInSeries(t, i, rows[t][i])'
      <4> DEFINE row == rows[t][i]
      <4>1. RowInSeries(t, i, row')
        BY <3>3, <3>9 DEF InSeries
      <4> HIDE DEF row
      <4>2. RowInSeries(t, i, row)'
        BY <2>4, <4>1 DEF RowInSeries
      <4> QED BY <4>2 DEF row
    <3> QED BY <2>1, <3>4, <3>8, <3>10 DEF InSeries
  <2> QED BY <2>7, <2>8, <2>9, WriterSteps
<1> QED BY <1>1, <1>2, FlagsCorrect, TypeCorrect, PTL DEF Spec

\* The k-th position of a writer.
PositionAt(t, k) == t + k * concurrency

\* The i-th row of a writer is in round n at its k-th position, and n is the x-th
\* round of its generation.
RowAt(t, i, n, k, x) ==
    /\ InRun(i - 1, Positions, n, k)
    /\ InRun(n, clusteringRowCount, rows[t][i].gen, x)
    /\ rows[t][i] = [pos |-> PositionAt(t, k), gen |-> rows[t][i].gen,
                     ck |-> -(Period * n)]

\* What it means for a row to be in its series.
LEMMA RowPlace ==
    ASSUME FlagsOK, TypeOK, InSeries, NEW t \in Threads, NEW i \in 1 .. Len(rows[t])
    PROVE  /\ rows[t][i] \in Rows
           /\ \E n \in Nat, k \in 0 .. Positions - 1, x \in 0 .. clusteringRowCount - 1 :
                 RowAt(t, i, n, k, x)
<1>1. rows[t] \in Seq(Rows)
  BY DEF TypeOK
<1>2. rows[t][i] \in Rows
  BY <1>1
<1>3. PICK n \in Nat, x \in 0 .. clusteringRowCount - 1 :
         /\ AtKey(t, i, rows[t][i].pos, n)
         /\ rows[t][i].ck = -(Period * n)
         /\ InRun(n, clusteringRowCount, rows[t][i].gen, x)
  BY DEF InSeries, RowInSeries, InRun
<1>4. PICK k \in 0 .. Positions - 1 :
         InRun(i - 1, Positions, n, k) /\ rows[t][i].pos = t + k * concurrency
  BY <1>3 DEF AtKey
<1> DEFINE row == rows[t][i]
<1>5. /\ row \in Rows /\ row.pos = t + k * concurrency /\ row.ck = -(Period * n)
  BY <1>2, <1>3, <1>4
<1> HIDE DEF row
<1>6. row = [pos |-> t + k * concurrency, gen |-> row.gen, ck |-> -(Period * n)]
  BY <1>5 DEF Rows
<1>7. RowAt(t, i, n, k, x)
  BY <1>3, <1>4, <1>6 DEF RowAt, PositionAt, row
<1> QED BY <1>2, <1>7

\* A row has a generation.
LEMMA GenerationNat ==
    ASSUME FlagsOK, TypeOK, InSeries, NEW t \in Threads, NEW i \in 1 .. Len(rows[t])
    PROVE  rows[t][i].gen \in Nat
<1>1. rows[t][i] \in Rows
  BY RowPlace
<1> QED BY <1>1 DEF Rows

\* Of the rounds before the n-th, those from lo to hi, exclusive, are generation h's.
RoundsOf(h, n, lo, hi) ==
    \A m \in Nat : m < n =>
        ((\E x : InRun(m, clusteringRowCount, h, x)) <=> m \in lo .. hi - 1)

\* The older rows of a row's position that are of a generation.
OlderOf(t, i, h) ==
    {j \in 1 .. i - 1 : rows[t][j].pos = rows[t][i].pos /\ rows[t][j].gen = h}

\* There is one in each of the generation's rounds.
LEMMA OlderOfGeneration ==
    ASSUME FlagsOK, TypeOK, InSeries, NEW t \in Threads, NEW i \in 1 .. Len(rows[t]),
           NEW n \in Nat, NEW k \in 0 .. Positions - 1, InRun(i - 1, Positions, n, k),
           rows[t][i].pos = PositionAt(t, k),
           NEW h \in Nat, NEW lo \in Nat, NEW hi \in Nat, lo <= hi, hi <= n,
           RoundsOf(h, n, lo, hi)
    PROVE  Cardinality(OlderOf(t, i, h)) = hi - lo
<1>1. /\ Positions \in Nat \ {0} /\ concurrency \in Nat \ {0} /\ t \in Nat
      /\ clusteringRowCount \in Nat \ {0} /\ Len(rows[t]) \in Nat
  BY Periods, PositionsAre DEF Threads, TypeOK
<1>2. PICK b \in Nat : b = Positions * n /\ i = b + k + 1
  BY <1>1, ProductNat DEF InRun
<1>3. PICK d \in Nat : d = k + 1
  OBVIOUS
<1>4. ASSUME NEW j \in OlderOf(t, i, h)
      PROVE  \E m \in lo .. hi - 1 : j = m * Positions + d
  <2>1. /\ j \in 1 .. Len(rows[t]) /\ j < i
        /\ rows[t][j].pos = rows[t][i].pos /\ rows[t][j].gen = h
    BY <1>1 DEF OlderOf
  <2>2. PICK m \in Nat, l \in 0 .. Positions - 1, x \in 0 .. clusteringRowCount - 1 :
           /\ InRun(j - 1, Positions, m, l)
           /\ InRun(m, clusteringRowCount, h, x)
           /\ rows[t][j].pos = PositionAt(t, l)
    <3>1. PICK m \in Nat, l \in 0 .. Positions - 1, x \in 0 .. clusteringRowCount - 1 :
             RowAt(t, j, m, l, x)
      BY <2>1, RowPlace
    <3>2. /\ InRun(j - 1, Positions, m, l)
          /\ InRun(m, clusteringRowCount, h, x)
          /\ rows[t][j].pos = PositionAt(t, l)
      BY <2>1, <3>1 DEF RowAt
    <3> QED BY <3>2
  <2>3. l = k
    <3>1. k \in Int /\ l \in Int /\ t \in Int /\ concurrency \in Nat \ {0}
      BY <1>1
    <3>2. PositionAt(t, l) = PositionAt(t, k)
      BY <2>1, <2>2
    <3>3. t + l * concurrency = t + k * concurrency
      BY <3>2 DEF PositionAt
    <3> QED BY <3>1, <3>3, SameStride
  <2>4. PICK p \in Nat : p = Positions * m /\ p = m * Positions
    BY <1>1, ProductNat
  <2>5. j = p + k + 1
    BY <2>1, <2>2, <2>3, <2>4 DEF InRun
  <2>6. m < n
    <3> SUFFICES ASSUME m >= n PROVE FALSE
      OBVIOUS
    <3>1. n <= m
      OBVIOUS
    <3>2. n * Positions <= m * Positions
      BY <1>1, <3>1, ProductMonotonic
    <3>3. n * Positions = b
      BY <1>1, <1>2, ProductNat
    <3>4. b <= p
      BY <2>4, <3>2, <3>3
    <3>5. i = b + k + 1 /\ j < i
      BY <1>2, <2>1
    <3> QED BY <2>5, <3>4, <3>5
  <2>7. m \in lo .. hi - 1
    BY <2>2, <2>6 DEF RoundsOf
  <2>8. j = m * Positions + d
    BY <1>3, <2>4, <2>5
  <2> QED BY <2>7, <2>8
<1>5. ASSUME NEW m \in lo .. hi - 1
      PROVE  m * Positions + d \in OlderOf(t, i, h)
  <2>1. m \in Nat /\ m < n
    OBVIOUS
  <2>2. PICK p \in Nat : p = Positions * m /\ p = m * Positions
    BY <1>1, <2>1, ProductNat
  <2>3. PICK j \in Nat : j = p + k + 1
    OBVIOUS
  <2>4. b >= p + Positions
    BY <1>1, <1>2, <2>1, <2>2, LargerProduct
  <2>5. j < i /\ j \in 1 .. Len(rows[t])
    BY <1>1, <1>2, <2>3, <2>4
  <2>6. InRun(j - 1, Positions, m, k)
    BY <2>2, <2>3 DEF InRun
  <2>7. PICK q \in Nat, l \in 0 .. Positions - 1, x \in 0 .. clusteringRowCount - 1 :
           RowAt(t, j, q, l, x)
    BY <2>5, RowPlace
  <2>8. q = m /\ l = k
    <3>1. Positions \in Nat \ {0} /\ q \in Int /\ m \in Int
      BY <1>1, <2>1
    <3>2. InRun(j - 1, Positions, q, l)
      BY <2>7 DEF RowAt
    <3> QED BY <2>6, <3>1, <3>2, SameRun
  <2>9. rows[t][j].pos = rows[t][i].pos
    <3>1. rows[t][j].pos = PositionAt(t, l)
      BY <2>7 DEF RowAt
    <3> QED BY <2>8, <3>1
  <2>10. rows[t][j].gen = h
    <3>1. PICK f \in Nat : f = rows[t][j].gen
      BY <2>5, GenerationNat
    <3>2. PICK y : InRun(m, clusteringRowCount, h, y)
      BY <2>1 DEF RoundsOf
    <3>3. InRun(m, clusteringRowCount, f, x)
      BY <2>7, <2>8, <3>1 DEF RowAt
    <3>4. f = h
      BY <1>1, <3>2, <3>3, SameRun
    <3> QED BY <3>1, <3>4
  <2>11. m * Positions + d = j
    BY <1>3, <2>2, <2>3
  <2>12. j \in 1 .. i - 1
    BY <1>1, <2>5
  <2>13. j \in OlderOf(t, i, h)
    BY <2>9, <2>10, <2>12 DEF OlderOf
  <2> QED BY <2>11, <2>13
<1>6. InEachRun(OlderOf(t, i, h), Positions, d, lo, hi)
  BY <1>4, <1>5 DEF InEachRun
<1> DEFINE S == OlderOf(t, i, h)
<1>7. PICK c \in Nat \ {0} : InEachRun(S, c, d, lo, hi)
  BY <1>1, <1>6
<1> HIDE DEF S
<1>8. Cardinality(S) = hi - lo
  BY <1>7, OneOfEachRun
<1> QED BY <1>8 DEF S

\* A row that is in its series has all rows of the generation before behind it, and
\* less than all of its own.
LEMMA FullFromSeries ==
    ASSUME FlagsOK, TypeOK, InSeries PROVE FullGenerations
<1> SUFFICES ASSUME NEW t \in Threads, NEW i \in 1 .. Len(rows[t])
             PROVE  /\ Cardinality(OlderOf(t, i, rows[t][i].gen)) < clusteringRowCount
                    /\ rows[t][i].gen > 0 =>
                          Cardinality(OlderOf(t, i, rows[t][i].gen - 1))
                             = clusteringRowCount
  BY DEF FullGenerations, OlderOf
<1>0. PICK n \in Nat, k \in 0 .. Positions - 1, x \in 0 .. clusteringRowCount - 1 :
         RowAt(t, i, n, k, x)
  BY RowPlace
<1>1. InRun(i - 1, Positions, n, k) /\ InRun(n, clusteringRowCount, rows[t][i].gen, x)
  BY <1>0 DEF RowAt
<1>2. rows[t][i].pos = PositionAt(t, k)
  BY <1>0 DEF RowAt
<1>3. PICK g \in Nat : g = rows[t][i].gen
  BY GenerationNat
<1>4. PICK r \in Nat \ {0} : r = clusteringRowCount
  BY Periods
<1>5. PICK first \in Nat : first = r * g
  BY ProductNat
<1>6. x \in 0 .. r - 1 /\ n = first + x
  BY <1>1, <1>3, <1>4, <1>5 DEF InRun
<1>7. Cardinality(OlderOf(t, i, g)) = n - first
  <2>1. ASSUME NEW m \in Nat, m < n
        PROVE  (\E y : InRun(m, clusteringRowCount, g, y)) <=> m \in first .. n - 1
    <3>1. ASSUME NEW y, InRun(m, clusteringRowCount, g, y) PROVE m \in first .. n - 1
      BY <1>4, <1>5, <2>1, <3>1 DEF InRun
    <3>2. ASSUME m \in first .. n - 1 PROVE InRun(m, clusteringRowCount, g, m - first)
      BY <1>4, <1>5, <1>6, <2>1, <3>2 DEF InRun
    <3> QED BY <3>1, <3>2
  <2>2. first <= n /\ n <= n
    BY <1>6
  <2>3. RoundsOf(g, n, first, n)
    BY <2>1 DEF RoundsOf
  <2> QED BY <1>1, <1>2, <2>2, <2>3, OlderOfGeneration
<1>8. ASSUME g > 0
      PROVE  Cardinality(OlderOf(t, i, g - 1)) = r
  <2>1. PICK h \in Nat : h = g - 1
    BY <1>8
  <2>2. PICK before \in Nat : before = r * h
    BY ProductNat
  <2>3. first = before + r
    BY <1>5, <2>1, <2>2
  <2>4. ASSUME NEW m \in Nat, m < n
        PROVE  (\E y : InRun(m, clusteringRowCount, h, y)) <=> m \in before .. first - 1
    <3>1. ASSUME NEW y, InRun(m, clusteringRowCount, h, y)
          PROVE  m \in before .. first - 1
      BY <1>4, <2>2, <2>3, <3>1 DEF InRun
    <3>2. ASSUME m \in before .. first - 1
          PROVE  InRun(m, clusteringRowCount, h, m - before)
      BY <1>4, <2>2, <2>3, <3>2 DEF InRun
    <3> QED BY <3>1, <3>2
  <2>5. before <= first /\ first <= n
    BY <1>6, <2>3
  <2>6. RoundsOf(h, n, before, first)
    BY <2>4 DEF RoundsOf
  <2>7. Cardinality(OlderOf(t, i, h)) = first - before
    BY <1>1, <1>2, <2>5, <2>6, OlderOfGeneration
  <2> QED BY <2>1, <2>3, <2>7
<1>9. n - first < r
  BY <1>6
<1> QED BY <1>3, <1>4, <1>7, <1>8, <1>9

\* A writer turns to a new partition key when the old one has its rows.
THEOREM FullGenerationsCorrect == Spec => []FullGenerations
BY FullFromSeries, FlagsCorrect, TypeCorrect, InSeriesCorrect, PTL

-----------------------------------------------------------------------------
(* What the reader asks for *)

\* The positions of the reader, too, lie a whole number of strides from its first.
ReadsAt ==
    \E j \in Int : /\ j >= -1 /\ readPosition = ReadOffset + j * readers
                   /\ j > 0 => j * readers < partitionCount
                   /\ reading => j >= 0 /\ WriteRate > 0

\* The reader keeps to its positions.
THEOREM ReadsAtCorrect == Spec => []ReadsAt
<1>1. Init /\ FlagsOK => ReadsAt
  <2> SUFFICES ASSUME Init, FlagsOK PROVE ReadsAt
    OBVIOUS
  <2>1. PICK o \in Int, d \in Nat : o = ReadOffset /\ d = readers
    <3>1. threadID \in Nat /\ readers \in Nat
      BY SeriesAssumption DEF FlagsOK
    <3> QED BY <3>1, Periods, DivMod DEF ReadOffset
  <2>2. readPosition = o - d /\ ~reading
    BY <2>1 DEF Init, ReaderInit
  <2>3. readPosition = o + (-1) * d
    BY <2>1, <2>2
  <2>4. -1 \in Int /\ -1 >= -1 /\ ~(-1 > 0)
    OBVIOUS
  <2> QED BY <2>1, <2>2, <2>3, <2>4 DEF ReadsAt
<1>2. FlagsOK /\ ReadsAt /\ [Next]_vars => ReadsAt'
  <2> SUFFICES ASSUME FlagsOK, ReadsAt, [Next]_vars PROVE ReadsAt'
    OBVIOUS
  <2>1. /\ ReadOffset' = ReadOffset /\ WriteRate' = WriteRate
        /\ readers' = readers /\ partitionCount' = partitionCount
    BY FlagsConstant DEF SameFlags, ReadOffset, WriteRate
  <2>2. CASE readPosition' = readPosition /\ reading' = reading
    BY <2>1, <2>2 DEF ReadsAt
  <2>3. CASE ReadPartition
    <3>1. PICK o \in Int, d \in Nat, p \in Nat \ {0} :
             o = ReadOffset /\ d = readers /\ p = partitionCount
      <4>1. threadID \in Nat /\ readers \in Nat /\ partitionCount \in Nat \ {0}
        BY SeriesAssumption, Periods DEF FlagsOK
      <4>2. ReadOffset \in Int
        BY <4>1, DivMod DEF ReadOffset
      <4> QED BY <4>1, <4>2
    <3>2. PICK j \in Int : /\ j >= -1 /\ readPosition = o + j * d
      BY <3>1 DEF ReadsAt
    <3>3. PICK m \in Int : m = j * d /\ (j + 1) * d = m + d
      OBVIOUS
    <3>4. /\ WriteRate > 0 /\ reading'
          /\ readPosition' = IF readPosition + d >= p + o THEN o ELSE readPosition + d
      BY <2>3, <3>1 DEF ReadPartition
    <3>5. CASE readPosition + d >= p + o
      <4>1. readPosition' = o + 0 * d /\ 0 \in Int /\ 0 >= -1 /\ ~(0 > 0) /\ 0 >= 0
        BY <3>4, <3>5
      <4> QED BY <2>1, <3>1, <3>4, <4>1 DEF ReadsAt
    <3>6. CASE ~(readPosition + d >= p + o)
      <4>1. readPosition' = o + (j + 1) * d /\ j + 1 \in Int /\ j + 1 >= 0
        BY <3>2, <3>3, <3>4, <3>6
      <4>2. (j + 1) * d < p
        BY <3>2, <3>3, <3>6
      <4>3. PICK i \in Int : i = j + 1
        OBVIOUS
      <4>4. i >= -1 /\ i >= 0 /\ readPosition' = o + i * d /\ i * d < p
        BY <4>1, <4>2, <4>3
      <4> QED BY <2>1, <3>1, <3>4, <4>4 DEF ReadsAt
    <3> QED BY <3>5, <3>6
  <2>4. CASE ReadRow \/ UNCHANGED vars
    BY <2>2, <2>4 DEF ReadRow, vars, reader
  <2>5. CASE ClockTick \/ \E t \in Threads : Idle(t) \/ StartWrite(t) \/ EndWrite(t)
    BY <2>2, <2>5 DEF ClockTick, Idle, StartWrite, EndWrite, reader
  <2> QED BY <2>3, <2>4, <2>5 DEF Next, TimeOver
<1> QED BY <1>1, <1>2, FlagsCorrect, PTL DEF Spec

\* When its goroutines divide the partitions evenly it is at one of them.
LEMMA ReadsPartition ==
    ASSUME FlagsOK, ReadsAt, Even, reading
    PROVE  readPosition \in 0 .. partitionCount - 1 /\ WriteRate > 0
<1>1. PICK p \in Nat \ {0}, d \in Nat \ {0}, h \in Nat :
         p = partitionCount /\ d = readers /\ h = threadID /\ h < d
  <2>1. threadID \in Nat /\ threadID < readers /\ readers \in Nat \ {0}
    BY SeriesAssumption DEF FlagsOK
  <2> QED BY <2>1, Periods
<1>2. PICK o \in 0 .. p - 1 : o = ReadOffset /\ o = h % p
  BY <1>1, DivMod DEF ReadOffset
<1>3. PICK j \in Int : /\ j >= 0 /\ readPosition = o + j * d /\ WriteRate > 0
                       /\ j > 0 => j * d < p
  BY <1>1, <1>2 DEF ReadsAt
<1>4. CASE j = 0
  BY <1>1, <1>2, <1>3, <1>4
<1>5. CASE j > 0
  <2>1. j \in Nat /\ 1 <= j
    BY <1>3, <1>5
  <2>2. PICK m \in Nat : m = j * d /\ m = d * j /\ d <= m
    <3>1. 1 * d <= j * d
      BY <2>1, ProductMonotonic
    <3> QED BY <2>1, <3>1, ProductNat
  <2>3. m < p /\ p % d = 0
    BY <1>1, <1>3, <1>5, <2>2 DEF Even
  <2>4. PICK q \in Nat : p = d * q
    <3>1. PICK q \in Nat : q = p \div d /\ p = d * q + 0
      BY <2>3, DivMod
    <3>2. d * q \in Nat
      OBVIOUS
    <3> QED BY <3>1, <3>2
  <2>5. q > j
    <3> SUFFICES ASSUME q <= j PROVE FALSE
      OBVIOUS
    <3>1. q * d <= j * d
      BY <2>1, ProductMonotonic
    <3> QED BY <2>2, <2>3, <2>4, <3>1, ProductNat
  <2>6. p >= m + d
    BY <2>1, <2>2, <2>4, <2>5, LargerProduct
  <2>7. o = h
    <3>1. h \in 0 .. p - 1 /\ p * 0 + h = h
      BY <1>1, <2>2, <2>3
    <3>2. (p * 0 + h) % p = h
      BY <3>1, Remainder
    <3> QED BY <1>2, <3>1, <3>2
  <2> QED BY <1>1, <1>3, <2>2, <2>6, <2>7
<1> QED BY <1>3, <1>4, <1>5

\* Then, if the rates divide evenly, a round takes no longer than the reader's period,
\* which is also the one between the clustering keys.
LEMMA EvenPeriods ==
    ASSUME FlagsOK, Even, WriteRate > 0
    PROVE  /\ partitionCount = Positions * concurrency
           /\ Period = ReadPeriod
           /\ Positions * OpPeriod <= ReadPeriod
<1>1. PICK c \in Nat \ {0}, p \in Nat \ {0}, s \in Nat \ {0}, m \in Nat \ {0},
           w \in Nat \ {0}, r \in Nat \ {0} :
         /\ c = concurrency /\ p = partitionCount /\ s = Second /\ m = Positions
         /\ w = WriteRate /\ r = ThreadRate
  <2>1. /\ concurrency \in Nat \ {0} /\ partitionCount \in Nat \ {0}
        /\ Second \in Nat \ {0} /\ Positions \in Nat \ {0}
        /\ WriteRate \in Nat \ {0} /\ ThreadRate \in Nat \ {0}
    BY Periods, PositionsAre
  <2> QED BY <2>1
<1>2. PICK a \in Nat : a = maximumRate
  BY RateAssumption DEF FlagsOK
<1>3. p <= m * c /\ (m - 1) * c < p
  BY <1>1, PositionsAre
<1>4. PICK q \in Nat : q = p \div c /\ p = c * q
  <2>1. p % c = 0
    BY <1>1 DEF Even
  <2>2. p = c * (p \div c) + 0 /\ p \div c \in Nat
    BY <2>1, DivMod
  <2>3. c * (p \div c) \in Nat
    BY <2>2
  <2> QED BY <2>2, <2>3
<1>5. q = m
  <2>1. PICK u \in Nat : u = m * c
    BY ProductNat
  <2>2. ~(q > m)
    <3> SUFFICES ASSUME q > m PROVE FALSE
      OBVIOUS
    <3>1. c * q >= c * m + c
      BY LargerProduct
    <3>2. c * m = u
      BY <2>1, ProductNat
    <3> QED BY <1>3, <1>4, <2>1, <3>1, <3>2
  <2>3. ~(q < m)
    <3> SUFFICES ASSUME q <= m - 1 PROVE FALSE
      OBVIOUS
    <3>1. m - 1 \in Nat
      OBVIOUS
    <3>2. q * c <= (m - 1) * c
      BY <3>1, ProductMonotonic
    <3>3. q * c = p /\ (m - 1) * c \in Nat
      BY <1>4, <3>1, ProductNat
    <3> QED BY <1>3, <3>2, <3>3
  <2> QED BY <2>2, <2>3
<1>6. p = m * c
  BY <1>4, <1>5, ProductNat
<1>7. r = m * w
  <2>1. a = c * r
    <3>1. a % c = 0 /\ r = a \div c
      BY <1>1, <1>2 DEF Even, ThreadRate
    <3>2. a = c * r + 0
      BY <3>1, DivMod
    <3> QED BY <3>2
  <2>2. a = p * w
    <3>1. a % p = 0 /\ w = a \div p
      BY <1>1, <1>2 DEF Even, WriteRate
    <3>2. a = p * w + 0
      BY <3>1, DivMod
    <3> QED BY <3>2
  <2>3. PICK u \in Nat : u = m * w
    BY ProductNat
  <2>4. p * w = c * u
    BY <1>6, <2>3
  <2>5. InRun(a, c, r, 0) /\ InRun(a, c, u, 0)
    BY <2>1, <2>2, <2>4 DEF InRun
  <2> QED BY <2>3, <2>5, SameRun
<1>8. PICK z \in Nat, x \in 0 .. w - 1 : z = s \div w /\ z = ReadPeriod /\ s = w * z + x
  <2>1. s = w * (s \div w) + (s % w) /\ s \div w \in Nat /\ s % w \in 0 .. w - 1
    BY DivMod
  <2> QED BY <1>1, <2>1 DEF ReadPeriod
<1>9. Period = z
  <2>1. PartitionsPerThread = m
    BY <1>1, <1>4, <1>5 DEF PartitionsPerThread
  <2>2. PICK v \in Nat : v = s * m
    BY ProductNat
  <2>3. Period = v \div r
    BY <1>1, <2>1, <2>2 DEF Period
  <2>4. PICK y \in Nat : y = x * m /\ y < w * m
    <3>1. x \in Nat /\ x < w /\ x <= w /\ m > 0
      OBVIOUS
    <3>2. x * m < w * m /\ x * m \in Nat
      BY <3>1, ProductMonotonic
    <3> QED BY <3>2
  <2>5. r = w * m
    BY <1>7, ProductNat
  <2>6. v = r * z + y
    <3>1. v = (w * z + x) * m
      BY <1>8, <2>2
    <3>2. (w * z + x) * m = (w * m) * z + x * m
      OBVIOUS
    <3> QED BY <2>4, <2>5, <3>1, <3>2
  <2>7. InRun(v, r, z, y)
    BY <2>4, <2>5, <2>6 DEF InRun
  <2>8. InRun(v, r, v \div r, v % r) /\ v \div r \in Nat
    BY DivMod DEF InRun
  <2>9. v \div r = z
    BY <2>7, <2>8, SameRun
  <2> QED BY <2>3, <2>9
<1>10. m * OpPeriod <= z
  <2>1. PICK o \in Nat : o = OpPeriod /\ o = s \div r
    BY <1>1, DivMod DEF OpPeriod
  <2>2. o * r <= s
    BY <2>1, QuotientAtMost
  <2>3. PICK k \in Nat : k = m * o
    BY ProductNat
  <2>4. o * r = k * w
    BY <1>7, <2>3
  <2>5. k <= s \div w
    BY <2>2, <2>4, QuotientAtLeast
  <2> QED BY <1>8, <2>1, <2>3, <2>5
<1> QED BY <1>1, <1>6, <1>8, <1>9, <1>10

\* While the writers keep up, all rows but the newest ones are there.
LEMMA WrittenFromSeries ==
    ASSUME FlagsOK, TypeOK, InSeries, ReadsAt PROVE OlderRowsWritten
<1> SUFFICES ASSUME reading, Even, \A t \in Threads : OnTime(t),
                    NEW number \in NextRows, number # now \div ReadPeriod
             PROVE  Written(number)
  BY DEF OlderRowsWritten
<1>1. readPosition \in 0 .. partitionCount - 1 /\ WriteRate > 0
  BY ReadsPartition
<1>2. PICK c \in Nat \ {0}, m \in Nat \ {0}, r \in Nat \ {0}, z \in Nat \ {0},
           o \in Nat \ {0}, g \in Nat, time \in Nat :
         /\ c = concurrency /\ m = Positions /\ r = clusteringRowCount /\ z = ReadPeriod
         /\ o = OpPeriod /\ g = readGeneration /\ time = now
  <2>1. /\ concurrency \in Nat \ {0} /\ Positions \in Nat \ {0}
        /\ clusteringRowCount \in Nat \ {0} /\ ReadPeriod \in Nat \ {0}
        /\ OpPeriod \in Nat \ {0}
    BY <1>1, Periods, PositionsAre
  <2>2. readGeneration \in Nat /\ now \in Nat
    BY DEF TypeOK, LimiterTypeOK
  <2> QED BY <2>1, <2>2
<1>3. partitionCount = m * c /\ Period = z /\ m * o <= z
  BY <1>1, <1>2, EvenPeriods
<1>4. PICK f \in Nat : f = g * r /\ f = r * g
  BY ProductNat
<1>5. PICK q \in Nat : q = time \div z
  BY DivMod
<1>6. PICK x \in Nat : number = f + x /\ x < r /\ x < q - f + 1
  <2>1. MaxRange = IF q - f + 1 < r THEN q - f + 1 ELSE r
    BY <1>2, <1>4, <1>5 DEF MaxRange
  <2>2. PICK x \in 0 .. MaxRange - 1 : number = f + x
    BY <1>2, <1>4 DEF NextRows, Draws
  <2>3. MaxRange \in Int /\ MaxRange <= r /\ MaxRange <= q - f + 1
    BY <2>1
  <2> QED BY <2>2, <2>3
<1>7. number \in Nat /\ number + 1 \in Nat /\ number + 1 <= q
  BY <1>2, <1>5, <1>6
<1>8. PICK u \in Nat : u = m * number /\ (number + 1) * m = u + m
  <2>1. m * number \in Nat /\ (number + 1) * m = m * number + m
    BY <1>7
  <2> QED BY <2>1
<1>9. u + m <= time \div o
  <2>1. (number + 1) * z <= time
    BY <1>5, <1>7, QuotientAtMost
  <2>2. PICK y \in Nat : y = m * o
    BY ProductNat
  <2>3. y * (number + 1) <= z * (number + 1)
    BY <1>3, <1>7, <2>2, ProductMonotonic
  <2>4. /\ y * (number + 1) = (u + m) * o
        /\ z * (number + 1) = (number + 1) * z
    <3>1. ((number + 1) * m) * o = (m * o) * (number + 1)
      BY <1>7
    <3> QED BY <1>7, <1>8, <2>2, <3>1
  <2>5. y * (number + 1) \in Nat /\ z * (number + 1) \in Nat
    BY <1>7, ProductNat
  <2>6. (u + m) * o <= time
    BY <2>1, <2>3, <2>4, <2>5
  <2> QED BY <2>6, QuotientAtLeast
<1>10. PICK t \in 0 .. c - 1, k \in Nat : readPosition = c * k + t
  <2>1. PICK a \in Nat : a = readPosition
    BY <1>1
  <2>2. \E k \in Nat, t \in 0 .. c - 1 : a = c * k + t
    BY Split
  <2> QED BY <2>1, <2>2
<1>11. k \in 0 .. m - 1 /\ readPosition = t + k * c
  <2>1. c * k \in Nat /\ k * c = c * k
    BY ProductNat
  <2>2. readPosition < m * c
    BY <1>1, <1>2, <1>3, Periods
  <2>3. ~(k >= m)
    <3> SUFFICES ASSUME m <= k PROVE FALSE
      OBVIOUS
    <3>1. m * c <= k * c /\ m * c \in Nat
      BY ProductMonotonic
    <3> QED BY <1>10, <2>1, <2>2, <3>1
  <2> QED BY <1>10, <2>1, <2>3
<1>12. t \in Threads /\ Len(rows[t]) \in Nat /\ u + m <= Len(rows[t])
  <2>1. t \in Threads
    BY <1>2 DEF Threads
  <2>2. Len(rows[t]) \in Nat
    BY <2>1 DEF TypeOK
  <2>3. Len(rows[t]) >= time \div o /\ time \div o \in Nat
    BY <1>2, <2>1, DivMod DEF OnTime
  <2> QED BY <1>9, <2>1, <2>2, <2>3
<1>13. PICK i \in 1 .. Len(rows[t]) : i = u + k + 1
  BY <1>11, <1>12
<1>14. InRun(i - 1, m, number, k)
  BY <1>8, <1>11, <1>13 DEF InRun
<1>15. PICK n \in Nat, l \in 0 .. m - 1, y \in 0 .. r - 1 :
          /\ InRun(i - 1, m, n, l)
          /\ InRun(n, r, rows[t][i].gen, y)
          /\ rows[t][i] = [pos |-> t + l * c, gen |-> rows[t][i].gen, ck |-> -(z * n)]
  <2>1. PICK n \in Nat, l \in 0 .. Positions - 1, y \in 0 .. clusteringRowCount - 1 :
           RowAt(t, i, n, l, y)
    BY <1>12, <1>13, RowPlace
  <2> QED BY <1>2, <1>3, <2>1 DEF RowAt, PositionAt
<1>16. n = number /\ l = k
  <2>1. m \in Nat \ {0} /\ n \in Int /\ number \in Int
    BY <1>2, <1>3, <1>7, <1>8
  <2>2. InRun(i - 1, m, n, l)
    BY <1>15
  <2> QED BY <1>14, <2>1, <2>2, SameRun
<1>17. rows[t][i].gen = g
  <2>1. PICK e \in Nat : e = rows[t][i].gen
    BY <1>12, <1>13, GenerationNat
  <2>2. InRun(number, r, e, y)
    BY <1>15, <1>16, <2>1
  <2>3. InRun(number, r, g, x)
    BY <1>4, <1>6 DEF InRun
  <2>4. r \in Nat \ {0} /\ e \in Int /\ g \in Int
    OBVIOUS
  <2>5. e = g
    BY <2>2, <2>3, <2>4, SameRun
  <2> QED BY <2>1, <2>5
<1>18. z * n = number * z
  BY <1>7, <1>16, ProductNat
<1>19. rows[t][i] = [pos |-> readPosition, gen |-> readGeneration,
                     ck |-> -(number * ReadPeriod)]
  BY <1>2, <1>11, <1>15, <1>16, <1>17, <1>18
<1> QED BY <1>12, <1>13, <1>19 DEF Written

\* While the writers keep up with their rate the reader asks for no row that has not
\* been written, but for the newest of a partition (workloads.go:254, 288-297).
THEOREM OlderRowsWrittenCorrect == Spec => []OlderRowsWritten
BY WrittenFromSeries, FlagsCorrect, TypeCorrect, InSeriesCorrect, ReadsAtCorrect, PTL
=============================================================================
