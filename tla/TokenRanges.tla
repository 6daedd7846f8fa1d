----------------------------- MODULE TokenRanges -----------------------------
(***************************************************************************)
(* The scan workload: how GetWorkload (main.go) gives the ranges of a full  *)
(* table scan to the goroutines, and how RangeScan (pkg/workloads) computes *)
(* the tokens of a range in 64-bit integers, which may wrap.  The width is  *)
(* a parameter: the tokens are the integers from -HalfTokens to             *)
(* HalfTokens-1, which for int64 is 2^63.                                   *)
(***************************************************************************)
EXTENDS Integers, Sequences, FiniteSets

CONSTANTS
    HalfTokens,       \* 2^(w-1) for integers of w bits
    ConcurrencyFlags, \* the values of -concurrency considered
    RangeCounts,      \* of -range-count
    IterationCounts   \* of -iterations, none of them 0, which is endless

\* A -range-count is an int, so it is below 2^63.
ASSUME TokenAssumption ==
    /\ HalfTokens \in Nat \ {0, 1}
    /\ ConcurrencyFlags \subseteq Nat \ {0}
    /\ RangeCounts \subseteq 1 .. HalfTokens - 1
    /\ IterationCounts \subseteq Nat \ {0}

VARIABLES
    concurrency, rangeCount, iterations,  \* the flags, chosen once
    nextRange,                            \* RangeScan.NextRange, by goroutine
    iteration,                            \* TestIterator.iteration
    done,                                 \* RunTest has returned
    taken                                 \* the token ranges taken, in order

flags == <<concurrency, rangeCount, iterations>>
vars == <<flags, nextRange, iteration, done, taken>>

Threads == 0 .. concurrency - 1

-----------------------------------------------------------------------------
(* Integers of a fixed width *)

minToken == -HalfTokens
maxToken == HalfTokens - 1
Tokens == minToken .. maxToken
TokenCount == 2 * HalfTokens

\* What is left of an integer in two's complement.
Int64(x) == ((x + HalfTokens) % TokenCount) - HalfTokens

-----------------------------------------------------------------------------
(* NextTokenRange *)

\* Mutant of TokensPerRange: the division is rounded up.
TokensPerRangeRoundedUp(n) == Int64((TokenCount - 1) \div n + 1)

\* The tokenCount of the code is one less than the number of tokens.
TokensPerRange(n) == Int64((TokenCount - 1) \div n)

FirstToken(range, n) == Int64(minToken + Int64(range * TokensPerRange(n)))

\* Mutant of LastToken: the bounds are taken for exclusive ones.
LastTokenExclusive(range, n) ==
    IF range + 1 = n THEN maxToken
    ELSE Int64(FirstToken(range, n) + TokensPerRange(n))

\* The last range takes all the tokens that are left.
LastToken(range, n) ==
    IF range + 1 = n THEN maxToken
    ELSE Int64(FirstToken(range, n) + TokensPerRange(n) - 1)

TokenRange(range, n) ==
    IF n = 1 THEN [Start |-> minToken, End |-> maxToken]
    ELSE [Start |-> FirstToken(range, n), End |-> LastToken(range, n)]

-----------------------------------------------------------------------------
(* GetWorkload *)

RangesPerThread == rangeCount \div concurrency
RangeOffset(t) == RangesPerThread * t

\* Mutant of ThisCount: the last goroutine does not take the remainder.
ThisCountEven(t) == RangesPerThread

ThisCount(t) ==
    IF t + 1 = concurrency THEN rangeCount - RangeOffset(t) ELSE RangesPerThread

\* The field RangeCount of RangeScan, where the goroutine's ranges end.
RangeEnd(t) == RangeOffset(t) + ThisCount(t)

\* main lowers the concurrency to the number of ranges.
Init ==
    /\ rangeCount \in RangeCounts
    /\ \E c \in ConcurrencyFlags :
          concurrency = IF c > rangeCount THEN rangeCount ELSE c
    /\ iterations \in IterationCounts
    /\ nextRange = [t \in Threads |-> RangeOffset(t)]
    /\ iteration = [t \in Threads |-> 0]
    /\ done = [t \in Threads |-> FALSE]
    /\ taken = [t \in Threads |-> << >>]

-----------------------------------------------------------------------------
(* TestIterator.IsDone, and one operation *)

WorkloadDone(t) == nextRange[t] >= RangeEnd(t)

Finish(t) ==
    /\ ~done[t]
    /\ WorkloadDone(t) /\ iteration[t] + 1 = iterations
    /\ done' = [done EXCEPT ![t] = TRUE]
    /\ UNCHANGED <<flags, nextRange, iteration, taken>>

\* A Restart if the iteration is over, then NextTokenRange; the requests for the
\* range, with their retries, belong to TestFunction.
Operate(t) ==
    /\ ~done[t]
    /\ ~(WorkloadDone(t) /\ iteration[t] + 1 = iterations)
    /\ LET range == IF WorkloadDone(t) THEN RangeOffset(t) ELSE nextRange[t]
       IN  /\ nextRange' = [nextRange EXCEPT ![t] = range + 1]
           /\ taken' = [taken EXCEPT ![t] = Append(@, TokenRange(range, rangeCount))]
    /\ iteration' = [iteration EXCEPT ![t] = IF WorkloadDone(t) THEN @ + 1 ELSE @]
    /\ UNCHANGED <<flags, done>>

AllDone == \A t \in Threads : done[t]

Next ==
    \/ \E t \in Threads : Finish(t) \/ Operate(t)
    \/ AllDone /\ UNCHANGED vars

Spec == Init /\ [][Next]_vars

-----------------------------------------------------------------------------
(* Properties *)

\* The type of every variable; a goroutine stays among its own ranges.
TypeOK ==
    /\ nextRange \in [Threads -> Nat]
    /\ \A t \in Threads : nextRange[t] \in RangeOffset(t) .. RangeEnd(t)
    /\ iteration \in [Threads -> Nat]
    /\ done \in [Threads -> BOOLEAN]
    /\ taken \in [Threads -> Seq([Start : Tokens, End : Tokens])]

\* No range is turned round by the wrapping of the arithmetic, which the server
\* would answer without a row (workloads.go:335-351).
RangesForward ==
    \A t \in Threads : \A i \in 1 .. Len(taken[t]) :
        taken[t][i].Start <= taken[t][i].End

Disjoint(r, s) == r.End < s.Start \/ s.End < r.Start

\* Two goroutines never read a token both, in whatever iterations they are
\* (main.go:242-250, workloads.go:335-351).
GoroutinesDisjoint ==
    \A t, u \in Threads : t # u =>
        \A i \in 1 .. Len(taken[t]) : \A j \in 1 .. Len(taken[u]) :
            Disjoint(taken[t][i], taken[u][j])

\* How often a token was in a range taken.
TimesTaken(token) ==
    LET Taken(t) == {t} \X {i \in 1 .. Len(taken[t]) :
                               taken[t][i].Start <= token /\ token <= taken[t][i].End}
    IN  Cardinality(UNION {Taken(t) : t \in Threads})

\* The scan reads the whole table once in each iteration, and no row twice
\* (README.md:217): every token, the first and the last ones included.
EveryTokenOncePerIteration ==
    \A token \in Tokens :
        /\ TimesTaken(token) <= iterations
        /\ AllDone => TimesTaken(token) = iterations
=============================================================================
