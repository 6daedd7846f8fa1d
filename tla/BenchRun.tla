------------------------------ MODULE BenchRun ------------------------------
(***************************************************************************)
(* A whole run: RunTest and TestIterator (modes.go), Worker (pkg/worker),   *)
(* the wait group and the final status of TestRun (pkg/testrun), the        *)
(* critical errors of TotalResult (pkg/results) and what main.go does after *)
(* it has started the workers: the timer of -duration, the signal handler,  *)
(* GetTotalResults and os.Exit(GetFinalStatus()).                           *)
(*                                                                         *)
(* One operation is a step with one of three outcomes; module TestFunction  *)
(* models what happens inside it.                                           *)
(***************************************************************************)
EXTENDS Integers, FiniteSets

CONSTANTS
    Workers,         \* the goroutines of TestRun.RunTest
    MaxErrors,       \* -error-limit, 0 for none
    MaxErrorsAtRow,  \* -error-at-row-limit, 0 for none
    Iterations,      \* -iterations, 0 for endless
    RowCount,        \* operations of one iteration of a finite workload
    Endless,         \* the workload's IsDone is always false (uniform, timeseries)
    Duration,        \* -duration is given: a timer runs
    MaxOps,          \* bound: operations of one worker
    MaxInterrupts    \* bound: interrupt signals

ASSUME RunAssumption ==
    /\ IsFiniteSet(Workers) /\ Workers # {}
    /\ MaxErrors \in Nat /\ MaxErrorsAtRow \in Nat
    /\ Iterations \in Nat /\ RowCount \in Nat
    /\ MaxOps \in Nat /\ MaxInterrupts \in Nat
    /\ Endless \in BOOLEAN /\ Duration \in BOOLEAN

VARIABLES
    stopAll,         \* the global stopAll
    globalErrorFlag, \* worker.GlobalErrorFlag
    totalErrors,     \* config.TotalErrors
    once,            \* config.TotalErrorsPrintOnce: "new", "running" or "done"
    rowLimitErrors,  \* totalResult.criticalErrors, by worker and by limit: how
    totalLimitErrors,\*   many of each there are
    summaryErrors,   \* totalResult.Errors
    waitGroup,       \* the counter of tr.waitGroup
    pc,              \* where each worker is in RunTest
    errorsAtRow,     \* the local errorsAtRow
    iteration,       \* TestIterator.iteration
    visited,         \* operations done in this iteration
    ops,             \* operations begun by each worker
    late,            \* those begun after stopAll or globalErrorFlag was set
    interrupts,      \* interrupt signals received
    main             \* "wait", "status", "exit 0", "exit 1" or "killed"

errorState == <<globalErrorFlag, totalErrors, once, rowLimitErrors,
                totalLimitErrors, summaryErrors>>
locals == <<errorsAtRow, iteration, visited, ops, late>>
env == <<stopAll, interrupts, main>>
vars == <<errorState, waitGroup, pc, locals, env>>

\* Mutant of Init: waitGroup.Add is one worker short.
InitOneShort ==
    /\ stopAll = FALSE /\ globalErrorFlag = FALSE
    /\ totalErrors = 0
    /\ once = "new"
    /\ rowLimitErrors = [w \in Workers |-> 0]
    /\ totalLimitErrors = [w \in Workers |-> 0]
    /\ summaryErrors = 0
    /\ waitGroup = Cardinality(Workers) - 1
    /\ pc = [w \in Workers |-> "iterate"]
    /\ errorsAtRow = [w \in Workers |-> 0]
    /\ iteration = [w \in Workers |-> 0]
    /\ visited = [w \in Workers |-> 0]
    /\ ops = [w \in Workers |-> 0]
    /\ late = [w \in Workers |-> 0]
    /\ interrupts = 0
    /\ main = "wait"

Init ==
    /\ stopAll = FALSE /\ globalErrorFlag = FALSE
    /\ totalErrors = 0
    /\ once = "new"
    /\ rowLimitErrors = [w \in Workers |-> 0]
    /\ totalLimitErrors = [w \in Workers |-> 0]
    /\ summaryErrors = 0
    /\ waitGroup = Cardinality(Workers)
    /\ pc = [w \in Workers |-> "iterate"]
    /\ errorsAtRow = [w \in Workers |-> 0]
    /\ iteration = [w \in Workers |-> 0]
    /\ visited = [w \in Workers |-> 0]
    /\ ops = [w \in Workers |-> 0]
    /\ late = [w \in Workers |-> 0]
    /\ interrupts = 0
    /\ main = "wait"

Exited == main \in {"exit 0", "exit 1", "killed"}
At(w, here, there) == pc[w] = here /\ pc' = [pc EXCEPT ![w] = there]

-----------------------------------------------------------------------------
(* TestIterator.IsDone *)

WorkloadDone(w) == ~Endless /\ visited[w] >= RowCount

\* The bound on operations.  A worker at the bound still does the one operation
\* after which it sees the flag.
MayGoOn(w) == ops[w] < MaxOps \/ (globalErrorFlag /\ ops[w] = MaxOps)

SeeStop(w) ==
    /\ At(w, "iterate", "leave")
    /\ stopAll
    /\ UNCHANGED <<errorState, waitGroup, locals, env>>

LastIterationDone(w) ==
    /\ At(w, "iterate", "leave")
    /\ ~stopAll
    /\ WorkloadDone(w) /\ iteration[w] + 1 = Iterations
    /\ UNCHANGED <<errorState, waitGroup, locals, env>>

\* Of an endless number of iterations only the first is told apart.
Restart(w) ==
    /\ At(w, "iterate", "test")
    /\ ~stopAll
    /\ WorkloadDone(w) /\ iteration[w] + 1 # Iterations /\ MayGoOn(w)
    /\ visited' = [visited EXCEPT ![w] = 0]
    /\ iteration' = [iteration EXCEPT ![w] = IF Iterations = 0 THEN @ ELSE @ + 1]
    /\ UNCHANGED <<errorState, waitGroup, errorsAtRow, ops, late, env>>

Continue(w) ==
    /\ At(w, "iterate", "test")
    /\ ~stopAll
    /\ ~WorkloadDone(w) /\ MayGoOn(w)
    /\ UNCHANGED <<errorState, waitGroup, locals, env>>

-----------------------------------------------------------------------------
(* RunTest *)

\* rateLimiter.Wait(), test(w) and the switch on its error.  A read may count
\* corrupted rows with IncErrors before it succeeds or fails.
RunOp(w) ==
    /\ pc[w] = "test"
    /\ ops' = [ops EXCEPT ![w] = @ + 1]
    /\ late' = [late EXCEPT ![w] = IF stopAll \/ globalErrorFlag THEN @ + 1 ELSE @]
    /\ visited' = [visited EXCEPT ![w] = IF Endless THEN @ ELSE @ + 1]
    /\ \/ /\ pc' = [pc EXCEPT ![w] = "rowCheck"]     \* errDoNotRegister
          /\ UNCHANGED <<errorsAtRow, summaryErrors>>
       \/ \E corrupted \in 0 .. 1 :
            /\ summaryErrors' = summaryErrors + corrupted
            /\ \/ /\ errorsAtRow' = [errorsAtRow EXCEPT ![w] = 0]
                  /\ pc' = [pc EXCEPT ![w] = "rowCheck"]
               \/ /\ errorsAtRow' = [errorsAtRow EXCEPT ![w] = @ + 1]
                  /\ pc' = [pc EXCEPT ![w] = "count"]
    /\ UNCHANGED <<globalErrorFlag, totalErrors, once, rowLimitErrors,
                   totalLimitErrors, waitGroup, iteration, env>>

CountError(w) ==
    /\ At(w, "count", "record")
    /\ totalErrors' = totalErrors + 1
    /\ UNCHANGED <<globalErrorFlag, once, rowLimitErrors, totalLimitErrors,
                   summaryErrors, waitGroup, locals, env>>

\* Mutant of IncErrors: only an error that counts as a timeout is counted.
IncErrorsIfSlow(w) ==
    /\ At(w, "record", "rowCheck")
    /\ \E slow \in BOOLEAN : summaryErrors' = summaryErrors + IF slow THEN 1 ELSE 0
    /\ UNCHANGED <<globalErrorFlag, totalErrors, once, rowLimitErrors,
                   totalLimitErrors, waitGroup, locals, env>>

IncErrors(w) ==
    /\ At(w, "record", "rowCheck")
    /\ summaryErrors' = summaryErrors + 1
    /\ UNCHANGED <<globalErrorFlag, totalErrors, once, rowLimitErrors,
                   totalLimitErrors, waitGroup, locals, env>>

RowLimitReached(w) == MaxErrorsAtRow > 0 /\ errorsAtRow[w] >= MaxErrorsAtRow
TotalLimitReached == MaxErrors > 0 /\ totalErrors >= MaxErrors

CheckRowLimit(w) ==
    /\ At(w, "rowCheck", IF RowLimitReached(w) THEN "rowAppend" ELSE "totalCheck")
    /\ UNCHANGED <<errorState, waitGroup, locals, env>>

CheckTotalLimit(w) ==
    /\ At(w, "totalCheck", IF TotalLimitReached THEN "once" ELSE "flagCheck")
    /\ UNCHANGED <<errorState, waitGroup, locals, env>>

\* Mutant of EnterOnce: a compare-and-swap, whose losers do not wait.
EnterOnceWithoutWaiting(w) ==
    /\ At(w, "once", IF once = "new" THEN "onceAppend" ELSE "flagCheck")
    /\ once' = IF once = "new" THEN "running" ELSE once
    /\ UNCHANGED <<globalErrorFlag, totalErrors, rowLimitErrors,
                   totalLimitErrors, summaryErrors, waitGroup, locals, env>>

\* TotalErrorsPrintOnce.Do: the first runs the function, the others wait for it.
EnterOnce(w) ==
    /\ once # "running"
    /\ At(w, "once", IF once = "new" THEN "onceAppend" ELSE "flagCheck")
    /\ once' = IF once = "new" THEN "running" ELSE once
    /\ UNCHANGED <<globalErrorFlag, totalErrors, rowLimitErrors,
                   totalLimitErrors, summaryErrors, waitGroup, locals, env>>

\* Worker.SubmitCriticalError, first half: TotalResult.SubmitCriticalError.
AppendError(w) ==
    /\ \/ /\ At(w, "rowAppend", "rowFlag")
          /\ rowLimitErrors' = [rowLimitErrors EXCEPT ![w] = @ + 1]
          /\ UNCHANGED totalLimitErrors
       \/ /\ At(w, "onceAppend", "onceFlag")
          /\ totalLimitErrors' = [totalLimitErrors EXCEPT ![w] = @ + 1]
          /\ UNCHANGED rowLimitErrors
    /\ UNCHANGED <<globalErrorFlag, totalErrors, once, summaryErrors,
                   waitGroup, locals, env>>

\* Second half: GlobalErrorFlag.Store(true).
StoreFlag(w) ==
    /\ At(w, "rowFlag", "totalCheck") \/ At(w, "onceFlag", "onceDone")
    /\ globalErrorFlag' = TRUE
    /\ UNCHANGED <<totalErrors, once, rowLimitErrors, totalLimitErrors,
                   summaryErrors, waitGroup, locals, env>>

LeaveOnce(w) ==
    /\ At(w, "onceDone", "flagCheck")
    /\ once' = "done"
    /\ UNCHANGED <<globalErrorFlag, totalErrors, rowLimitErrors,
                   totalLimitErrors, summaryErrors, waitGroup, locals, env>>

\* Mutant of CheckFlag: RunTest does not look at the flag.
IgnoreFlag(w) ==
    /\ At(w, "flagCheck", "iterate")
    /\ UNCHANGED <<errorState, waitGroup, locals, env>>

CheckFlag(w) ==
    /\ At(w, "flagCheck", IF globalErrorFlag THEN "leave" ELSE "iterate")
    /\ UNCHANGED <<errorState, waitGroup, locals, env>>

\* Mutant of StopReporting: a worker that leaves by the flag is not counted down.
StopReportingByFlag(w) ==
    /\ At(w, "leave", "stopped")
    /\ waitGroup' = IF globalErrorFlag THEN waitGroup ELSE waitGroup - 1
    /\ UNCHANGED <<errorState, locals, env>>

StopReporting(w) ==
    /\ At(w, "leave", "stopped")
    /\ waitGroup' = waitGroup - 1
    /\ UNCHANGED <<errorState, locals, env>>

-----------------------------------------------------------------------------
(* main *)

\* testRun.GetTotalResults: waitGroup.Wait().
Wait ==
    /\ main = "wait"
    /\ waitGroup = 0
    /\ main' = "status"
    /\ UNCHANGED <<errorState, waitGroup, pc, locals, stopAll, interrupts>>

CriticalErrorsFound ==
    \E w \in Workers : rowLimitErrors[w] + totalLimitErrors[w] > 0

\* os.Exit(tr.GetFinalStatus()).
Exit ==
    /\ main = "status"
    /\ main' = IF CriticalErrorsFound THEN "exit 1" ELSE "exit 0"
    /\ UNCHANGED <<errorState, waitGroup, pc, locals, stopAll, interrupts>>

\* The goroutine that sleeps for testDuration.
TimeIsUp ==
    /\ Duration /\ ~stopAll
    /\ stopAll' = TRUE
    /\ UNCHANGED <<errorState, waitGroup, pc, locals, interrupts, main>>

\* The goroutine that receives from interrupted: the second signal kills.
Interrupt ==
    /\ interrupts < MaxInterrupts
    /\ interrupts' = interrupts + 1
    /\ IF interrupts = 0
       THEN stopAll' = TRUE /\ UNCHANGED main
       ELSE main' = "killed" /\ UNCHANGED stopAll
    /\ UNCHANGED <<errorState, waitGroup, pc, locals>>

-----------------------------------------------------------------------------

WorkerNext(w) ==
    \/ SeeStop(w) \/ LastIterationDone(w) \/ Restart(w) \/ Continue(w)
    \/ RunOp(w) \/ CountError(w) \/ IncErrors(w)
    \/ CheckRowLimit(w) \/ CheckTotalLimit(w)
    \/ EnterOnce(w) \/ AppendError(w) \/ StoreFlag(w) \/ LeaveOnce(w)
    \/ CheckFlag(w) \/ StopReporting(w)

Next ==
    \/ /\ ~Exited
       /\ (\E w \in Workers : WorkerNext(w)) \/ Wait \/ Exit \/ TimeIsUp \/ Interrupt
    \/ Exited /\ UNCHANGED vars

Spec == Init /\ [][Next]_vars

\* Every goroutine that can run does, an operation returns (the driver's timeout),
\* and the timer fires.  Nobody has to interrupt the run.
Fairness ==
    /\ \A w \in Workers : WF_vars(~Exited /\ WorkerNext(w))
    /\ WF_vars(~Exited /\ (Wait \/ Exit))
    /\ WF_vars(~Exited /\ TimeIsUp)

FairSpec == Spec /\ Fairness

-----------------------------------------------------------------------------
(* Properties *)

PcValues == {"iterate", "test", "count", "record", "rowCheck", "rowAppend",
             "rowFlag", "totalCheck", "once", "onceAppend", "onceFlag",
             "onceDone", "flagCheck", "leave", "stopped"}

\* The type of every variable; the wait group's counter is never negative.
TypeOK ==
    /\ stopAll \in BOOLEAN /\ globalErrorFlag \in BOOLEAN
    /\ totalErrors \in Nat
    /\ once \in {"new", "running", "done"}
    /\ rowLimitErrors \in [Workers -> Nat]
    /\ totalLimitErrors \in [Workers -> Nat]
    /\ summaryErrors \in Nat
    /\ waitGroup \in Nat
    /\ pc \in [Workers -> PcValues]
    /\ errorsAtRow \in [Workers -> Nat]
    /\ iteration \in [Workers -> Nat]
    /\ visited \in [Workers -> Nat]
    /\ ops \in [Workers -> Nat]
    /\ late \in [Workers -> Nat]
    /\ interrupts \in 0 .. MaxInterrupts
    /\ main \in {"wait", "status", "exit 0", "exit 1", "killed"}

\* With -error-limit (modes.go:241-247) the workers count at most one error each
\* beyond the one that reaches the limit.  It holds because the losers of
\* TotalErrorsPrintOnce wait until the winner has set the flag.
TotalErrorsBound ==
    MaxErrors > 0 => totalErrors <= MaxErrors + Cardinality(Workers) - 1

\* The total limit is reported by one worker, once; its limit of errors at row is
\* reported by a worker at most once (modes.go:238-247).
LimitsReportedOnce ==
    /\ \A v, w \in Workers :
           totalLimitErrors[v] > 0 /\ totalLimitErrors[w] > 0 => v = w
    /\ \A w \in Workers : totalLimitErrors[w] <= 1 /\ rowLimitErrors[w] <= 1

\* Whoever sees the flag finds the error that raised it (worker.go:60-63): a run
\* cut short by the flag never exits as if nothing had happened.
FlagHasError == globalErrorFlag => CriticalErrorsFound

\* Status 0 means that every worker is through with its last check and none of
\* the limits was reached (testrun.go:95-101, 175-180, main.go:969-971).
StatusReportsLimits ==
    main = "exit 0" =>
        /\ \A w \in Workers : pc[w] = "stopped" /\ ~RowLimitReached(w)
        /\ ~TotalLimitReached /\ ~globalErrorFlag

\* After stopAll or the flag is set a worker begins at most one more operation,
\* the one it had decided upon already (modes.go:158-161, 208, 248-250).
OneLateOp == \A w \in Workers : late[w] <= 1

\* The summary that is printed before the exit shows every error that counted
\* towards -error-limit (modes.go:227-234, main.go:608-612).  It may show more:
\* corrupted rows are errors of the summary only.
SummaryShowsErrors == main \in {"exit 0", "exit 1"} => summaryErrors >= totalErrors

Promise == INSTANCE RunPromise WITH
    stopped <- stopAll,
    flag <- globalErrorFlag,
    rowReports <- rowLimitErrors,
    totalReports <- totalLimitErrors,
    status <- main

\* The run keeps its promise to the user (RunPromise), whatever the workers do
\* beside each other: a limit is reported once before its flag is seen, the exit
\* status says whether one was, and a stop, by the timer, by a signal or by a limit,
\* ends the process: nobody waits for ever in the once or is missing in the wait
\* group (modes.go:237-250, worker.go:60-63, testrun.go:95-101, main.go:869-886).
RunAsPromised == Promise!Spec
=============================================================================
