------------------------------ MODULE RateLimit ------------------------------
(***************************************************************************)
(* The rate limiter of a worker (pkg/ratelimiter) as RunTest uses it: Wait  *)
(* before every operation, with the client's rate divided by NewTestRun     *)
(* between the workers.  A worker that is late does not wait until it has   *)
(* made up for it.  Time passes in ticks, at any point of a worker's loop.  *)
(*                                                                         *)
(* The module has the actions; the workload that is paced, TimeSeries, has  *)
(* the specification.  Without a rate the limiter does nothing, and is left *)
(* out.                                                                    *)
(***************************************************************************)
EXTENDS Integers

CONSTANTS
    Second,           \* the ticks of a second
    MaxRates,         \* the values of -max-rate considered
    ConcurrencyFlags, \* of -concurrency
    StartDelay,       \* bound: the latest start of a worker's goroutine
    MaxTime           \* bound: when the clock stops

ASSUME RateAssumption ==
    /\ Second \in Nat \ {0} /\ StartDelay \in Nat /\ MaxTime \in Nat
    /\ MaxRates \subseteq 1 .. Second
    /\ ConcurrencyFlags \subseteq Nat \ {0}

VARIABLES
    maximumRate, concurrency,  \* the flags, chosen once
    now,                       \* the clock
    limiterStart,              \* StartTime of each worker's limiter
    completed,                 \* its CompletedOperations
    pc                         \* where each worker is in RunTest

limiter == <<limiterStart, completed, pc>>

Threads == 0 .. concurrency - 1

\* NewTestRun's maximumRate, after the division.
ThreadRate == maximumRate \div concurrency

\* The limiter's Period.
OpPeriod == Second \div ThreadRate

Expected(t) == limiterStart[t] + OpPeriod * completed[t]

LimiterInit ==
    /\ maximumRate \in MaxRates /\ concurrency \in ConcurrencyFlags
    /\ ThreadRate > 0
    /\ now = 0
    /\ limiterStart = [t \in Threads |-> 0]
    /\ completed = [t \in Threads |-> 0]
    /\ pc = [t \in Threads |-> "new"]

At(t, here, there) == pc[t] = here /\ pc' = [pc EXCEPT ![t] = there]

\* The goroutine starts, and makes its limiter.
NewRateLimiter(t) ==
    /\ At(t, "new", "loop")
    /\ limiterStart' = [limiterStart EXCEPT ![t] = now]
    /\ UNCHANGED <<now, completed>>

\* The first half of Wait, up to the sleep.
Wait(t) ==
    /\ At(t, "loop", "sleep")
    /\ completed' = [completed EXCEPT ![t] = @ + 1]
    /\ UNCHANGED <<now, limiterStart>>

\* Mutant of Begin: the sleep ends with the operation before.
BeginEarly(t) ==
    /\ At(t, "sleep", "test")
    /\ now >= Expected(t) - OpPeriod
    /\ UNCHANGED <<now, limiterStart, completed>>

\* The sleep is over, if there was one, and test(w) is called.
Begin(t) ==
    /\ At(t, "sleep", "test")
    /\ now >= Expected(t)
    /\ UNCHANGED <<now, limiterStart, completed>>

End(t) ==
    /\ At(t, "test", "loop")
    /\ UNCHANGED <<now, limiterStart, completed>>

Tick ==
    /\ now < MaxTime
    /\ now < StartDelay \/ \A t \in Threads : pc[t] # "new"
    /\ now' = now + 1
    /\ UNCHANGED limiter

-----------------------------------------------------------------------------
(* Properties *)

LimiterTypeOK ==
    /\ ThreadRate \in Nat \ {0}
    /\ now \in 0 .. MaxTime
    /\ limiterStart \in [Threads -> 0 .. MaxTime]
    /\ completed \in [Threads -> Nat]
    /\ pc \in [Threads -> {"new", "loop", "sleep", "test"}]

Begun(t) == IF pc[t] = "sleep" THEN completed[t] - 1 ELSE completed[t]

AllBegun ==
    LET Sum[t \in 0 .. concurrency] == IF t = 0 THEN 0 ELSE Sum[t - 1] + Begun(t - 1)
    IN  Sum[concurrency]

\* The workers together do not begin more operations than -max-rate allows since
\* the start, in spite of the bursts with which each catches up (README.md, other
\* notable options; rate_limiter.go:29-36, testrun.go:42-44).  The period is rounded
\* down, so this is for rates that divide the second.
RateRespected ==
    Second % ThreadRate = 0 => AllBegun * Second <= maximumRate * now
=============================================================================
