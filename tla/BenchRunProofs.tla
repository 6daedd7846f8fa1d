--------------------------- MODULE BenchRunProofs ---------------------------
(***************************************************************************)
(* Proofs about BenchRun, for any set of workers, any limits and any        *)
(* workload: how far the errors run past -error-limit, who reports a limit, *)
(* and what the exit status says.                                           *)
(***************************************************************************)
EXTENDS BenchRun, FiniteSetTheorems, TLAPS

\* The types of all variables but the wait group's counter.
Types ==
    /\ stopAll \in BOOLEAN /\ globalErrorFlag \in BOOLEAN
    /\ totalErrors \in Nat
    /\ once \in {"new", "running", "done"}
    /\ rowLimitErrors \in [Workers -> Nat]
    /\ totalLimitErrors \in [Workers -> Nat]
    /\ summaryErrors \in Nat
    /\ pc \in [Workers -> PcValues]
    /\ errorsAtRow \in [Workers -> Nat]
    /\ iteration \in [Workers -> Nat]
    /\ visited \in [Workers -> Nat]
    /\ ops \in [Workers -> Nat]
    /\ late \in [Workers -> Nat]
    /\ interrupts \in 0 .. MaxInterrupts
    /\ main \in {"wait", "status", "exit 0", "exit 1", "killed"}

\* Every step keeps the types but the wait group's.
LEMMA TypesStep == Types /\ [Next]_vars => Types'
<1> SUFFICES ASSUME Types, [Next]_vars PROVE Types'
  OBVIOUS
<1>0. ASSUME NEW w \in Workers, WorkerNext(w) PROVE pc' \in [Workers -> PcValues]
  <2>1. pc \in [Workers -> PcValues]
    BY DEF Types
  <2>2. \E there \in PcValues : pc' = [pc EXCEPT ![w] = there]
    BY <1>0 DEF WorkerNext, SeeStop, LastIterationDone, Restart, Continue,
       RunOp, CountError, IncErrors, CheckRowLimit, CheckTotalLimit, EnterOnce,
       AppendError, StoreFlag, LeaveOnce, CheckFlag, StopReporting, At, PcValues
  <2> QED BY <2>1, <2>2
<1>a. /\ totalErrors \in Nat /\ summaryErrors \in Nat
      /\ interrupts \in 0 .. MaxInterrupts
  BY DEF Types
<1>b. /\ rowLimitErrors \in [Workers -> Nat] /\ totalLimitErrors \in [Workers -> Nat]
      /\ errorsAtRow \in [Workers -> Nat] /\ iteration \in [Workers -> Nat]
      /\ visited \in [Workers -> Nat] /\ ops \in [Workers -> Nat]
      /\ late \in [Workers -> Nat]
  BY DEF Types
<1>1. ASSUME NEW w \in Workers, SeeStop(w) \/ LastIterationDone(w) \/ Continue(w)
                                 \/ CheckRowLimit(w) \/ CheckTotalLimit(w)
                                 \/ CheckFlag(w) \/ StopReporting(w)
      PROVE Types'
  <2>1. UNCHANGED <<errorState, locals, env>>
    BY <1>1 DEF SeeStop, LastIterationDone, Continue, CheckRowLimit,
       CheckTotalLimit, CheckFlag, StopReporting
  <2> QED BY <1>0, <1>1, <2>1 DEF WorkerNext, errorState, locals, env, Types
<1>2. ASSUME NEW w \in Workers, Restart(w) PROVE Types'
  <2>1. \E n \in Nat : visited' = [visited EXCEPT ![w] = n]
    BY <1>2 DEF Restart
  <2>2. \E n \in Nat : iteration' = [iteration EXCEPT ![w] = n]
    <3>1. iteration[w] \in Nat /\ iteration[w] + 1 \in Nat
      BY <1>b
    <3> QED BY <1>2, <3>1 DEF Restart
  <2>3. visited' \in [Workers -> Nat] /\ iteration' \in [Workers -> Nat]
    BY <1>b, <2>1, <2>2
  <2>4. pc' \in [Workers -> PcValues] /\ UNCHANGED <<errorState, errorsAtRow, ops, late, env>>
    BY <1>0, <1>2 DEF WorkerNext, Restart
  <2> QED BY <2>3, <2>4 DEF errorState, env, Types
<1>3. ASSUME NEW w \in Workers, RunOp(w) PROVE Types'
  <2>1. /\ ops[w] + 1 \in Nat /\ late[w] + 1 \in Nat /\ visited[w] + 1 \in Nat
        /\ errorsAtRow[w] + 1 \in Nat /\ ops[w] \in Nat /\ late[w] \in Nat
        /\ visited[w] \in Nat
    BY <1>b
  <2>2. /\ \E n \in Nat : ops' = [ops EXCEPT ![w] = n]
        /\ \E n \in Nat : late' = [late EXCEPT ![w] = n]
        /\ \E n \in Nat : visited' = [visited EXCEPT ![w] = n]
    BY <1>3, <2>1 DEF RunOp
  <2>3. errorsAtRow' = errorsAtRow \/ \E n \in Nat : errorsAtRow' = [errorsAtRow EXCEPT ![w] = n]
    BY <1>3, <2>1 DEF RunOp
  <2>4. /\ ops' \in [Workers -> Nat] /\ late' \in [Workers -> Nat]
        /\ visited' \in [Workers -> Nat] /\ errorsAtRow' \in [Workers -> Nat]
    BY <1>b, <2>2, <2>3
  <2>5. summaryErrors' \in Nat
    BY <1>a, <1>3 DEF RunOp
  <2>6. UNCHANGED <<globalErrorFlag, totalErrors, once, rowLimitErrors,
                    totalLimitErrors, iteration, stopAll, interrupts, main>>
    BY <1>3 DEF RunOp, env
  <2> QED BY <1>0, <1>3, <2>4, <2>5, <2>6 DEF WorkerNext, Types
<1>4. ASSUME NEW w \in Workers, CountError(w) \/ IncErrors(w) PROVE Types'
  <2>1. totalErrors' \in Nat /\ summaryErrors' \in Nat
    BY <1>a, <1>4 DEF CountError, IncErrors
  <2>2. UNCHANGED <<globalErrorFlag, once, rowLimitErrors, totalLimitErrors, locals, env>>
    BY <1>4 DEF CountError, IncErrors
  <2> QED BY <1>0, <1>4, <2>1, <2>2 DEF WorkerNext, locals, env, Types
<1>5. ASSUME NEW w \in Workers, EnterOnce(w) \/ LeaveOnce(w) PROVE Types'
  <2>1. once' \in {"new", "running", "done"}
    BY <1>5 DEF EnterOnce, LeaveOnce, Types
  <2>2. UNCHANGED <<globalErrorFlag, totalErrors, rowLimitErrors, totalLimitErrors,
                    summaryErrors, locals, env>>
    BY <1>5 DEF EnterOnce, LeaveOnce
  <2> QED BY <1>0, <1>5, <2>1, <2>2 DEF WorkerNext, locals, env, Types
<1>6. ASSUME NEW w \in Workers, AppendError(w) PROVE Types'
  <2>1. rowLimitErrors[w] + 1 \in Nat /\ totalLimitErrors[w] + 1 \in Nat
    BY <1>b
  <2>2. /\ \/ rowLimitErrors' = rowLimitErrors
           \/ \E n \in Nat : rowLimitErrors' = [rowLimitErrors EXCEPT ![w] = n]
        /\ \/ totalLimitErrors' = totalLimitErrors
           \/ \E n \in Nat : totalLimitErrors' = [totalLimitErrors EXCEPT ![w] = n]
    BY <1>6, <2>1 DEF AppendError
  <2>3. /\ rowLimitErrors' \in [Workers -> Nat]
        /\ totalLimitErrors' \in [Workers -> Nat]
    BY <1>b, <2>2
  <2>4. UNCHANGED <<globalErrorFlag, totalErrors, once, summaryErrors, locals, env>>
    BY <1>6 DEF AppendError
  <2> QED BY <1>0, <1>6, <2>3, <2>4 DEF WorkerNext, locals, env, Types
<1>7. ASSUME NEW w \in Workers, StoreFlag(w) PROVE Types'
  BY <1>0, <1>7 DEF WorkerNext, StoreFlag, locals, env, Types
<1>8. CASE Wait \/ Exit \/ TimeIsUp
  BY <1>8 DEF Wait, Exit, TimeIsUp, errorState, locals, Types
<1>9. CASE Interrupt
  <2>1. interrupts' \in 0 .. MaxInterrupts
    BY <1>9, <1>a, RunAssumption DEF Interrupt
  <2>2. /\ stopAll' \in BOOLEAN
        /\ main' \in {"wait", "status", "exit 0", "exit 1", "killed"}
    BY <1>9 DEF Interrupt, Types
  <2>3. UNCHANGED <<errorState, pc, locals>>
    BY <1>9 DEF Interrupt
  <2> QED BY <2>1, <2>2, <2>3 DEF errorState, locals, Types
<1>10. CASE UNCHANGED vars
  BY <1>10 DEF vars, errorState, locals, env, Types
<1> QED
  BY <1>1, <1>2, <1>3, <1>4, <1>5, <1>6, <1>7, <1>8, <1>9, <1>10
  DEF Next, WorkerNext

\* So they hold in every reachable state.
LEMMA TypesCorrect == Spec => []Types
<1>1. Init => Types
  <2>1. Init => interrupts \in 0 .. MaxInterrupts
    BY RunAssumption DEF Init
  <2>2. Init => pc \in [Workers -> PcValues]
    BY DEF Init, PcValues
  <2>3. [w \in Workers |-> 0] \in [Workers -> Nat]
    OBVIOUS
  <2>4. Init => /\ rowLimitErrors \in [Workers -> Nat]
                /\ totalLimitErrors \in [Workers -> Nat]
                /\ errorsAtRow \in [Workers -> Nat] /\ iteration \in [Workers -> Nat]
                /\ visited \in [Workers -> Nat] /\ ops \in [Workers -> Nat]
                /\ late \in [Workers -> Nat]
    BY <2>3, Zenon DEF Init
  <2>5. Init => totalErrors \in Nat /\ summaryErrors \in Nat
    BY SMT DEF Init
  <2>6. Init => stopAll \in BOOLEAN /\ globalErrorFlag \in BOOLEAN
    BY Zenon DEF Init
  <2>7. Init => /\ once \in {"new", "running", "done"}
                /\ main \in {"wait", "status", "exit 0", "exit 1", "killed"}
    BY Zenon DEF Init
  <2> QED BY <2>1, <2>2, <2>4, <2>5, <2>6, <2>7, Zenon DEF Types
<1> QED BY <1>1, TypesStep, PTL DEF Spec

-----------------------------------------------------------------------------
(* The wait group *)

Unfinished == {w \in Workers : pc[w] # "stopped"}

\* The counter is the number of workers that have not called Done.
WaitGroupOK ==
    /\ waitGroup = Cardinality(Unfinished)
    /\ main \in {"status", "exit 0", "exit 1"} => Unfinished = {}

\* The workers that have not called Done are finitely many.
LEMMA UnfinishedFinite == IsFiniteSet(Unfinished) /\ Cardinality(Unfinished) \in Nat
BY RunAssumption, FS_Subset, FS_CardinalityType DEF Unfinished

\* A worker leaves Unfinished exactly when it decrements the counter, and main
\* goes past Wait only when nobody is left.
LEMMA WaitGroupStep == Types /\ WaitGroupOK /\ [Next]_vars => WaitGroupOK'
<1> SUFFICES ASSUME Types, WaitGroupOK, [Next]_vars PROVE WaitGroupOK'
  OBVIOUS
<1>0. pc \in [Workers -> PcValues]
  BY DEF Types
<1>1. ASSUME NEW w \in Workers, StopReporting(w) PROVE WaitGroupOK'
  <2>1. Unfinished' = Unfinished \ {w} /\ w \in Unfinished
    BY <1>0, <1>1 DEF StopReporting, At, Unfinished
  <2>2. Cardinality(Unfinished') = Cardinality(Unfinished) - 1
    BY <2>1, FS_RemoveElement, UnfinishedFinite
  <2> QED BY <1>1, <2>1, <2>2 DEF StopReporting, WaitGroupOK, env
<1>2. ASSUME NEW w \in Workers, WorkerNext(w), ~StopReporting(w) PROVE WaitGroupOK'
  <2>1. /\ waitGroup' = waitGroup /\ main' = main
        /\ pc[w] # "stopped" /\ pc'[w] # "stopped"
        /\ \A v \in Workers \ {w} : pc'[v] = pc[v]
    BY <1>0, <1>2 DEF WorkerNext, SeeStop, LastIterationDone, Restart, Continue,
       RunOp, CountError, IncErrors, CheckRowLimit, CheckTotalLimit, EnterOnce,
       AppendError, StoreFlag, LeaveOnce, CheckFlag, At, env
  <2>2. Unfinished' = Unfinished
    BY <2>1 DEF Unfinished
  <2> QED BY <2>1, <2>2 DEF WaitGroupOK
<1>3. CASE Wait
  <2>1. Unfinished = {}
    BY <1>3, UnfinishedFinite, FS_EmptySet DEF Wait, WaitGroupOK
  <2> QED BY <1>3, <2>1 DEF Wait, WaitGroupOK, Unfinished
<1>4. CASE Exit \/ TimeIsUp \/ Interrupt
  <2>1. /\ waitGroup' = waitGroup /\ Unfinished' = Unfinished
        /\ main' \in {"status", "exit 0", "exit 1"} => main = main' \/ main = "status"
    BY <1>4 DEF Exit, TimeIsUp, Interrupt, Unfinished
  <2> QED BY <2>1 DEF WaitGroupOK
<1>5. CASE UNCHANGED vars
  BY <1>5 DEF vars, env, WaitGroupOK, Unfinished
<1> QED BY <1>1, <1>2, <1>3, <1>4, <1>5 DEF Next

\* The counter is right in every reachable state.
LEMMA WaitGroupCorrect == Spec => []WaitGroupOK
<1>1. Init => WaitGroupOK
  <2> SUFFICES ASSUME Init PROVE WaitGroupOK
    OBVIOUS
  <2>1. Unfinished = Workers
    BY DEF Init, Unfinished
  <2> QED BY <2>1 DEF Init, WaitGroupOK
<1> QED BY <1>1, TypesCorrect, WaitGroupStep, PTL DEF Spec

\* The types of all variables; with the wait group, which would panic below zero.
THEOREM TypeCorrect == Spec => []TypeOK
<1>1. Types /\ WaitGroupOK => TypeOK
  BY UnfinishedFinite DEF Types, WaitGroupOK, TypeOK
<1> QED BY <1>1, TypesCorrect, WaitGroupCorrect, PTL

-----------------------------------------------------------------------------
(* How far the errors run past -error-limit *)

\* The workers that have counted an error, or will do nothing else before they
\* either see the limit or leave.
Checking == {"record", "rowCheck", "rowAppend", "rowFlag", "totalCheck",
             "once", "onceAppend", "onceFlag", "onceDone"}

Beyond ==
    {w \in Workers : \/ pc[w] \in Checking
                     \/ globalErrorFlag /\ pc[w] \in {"flagCheck", "leave", "stopped"}}

\* Errors past the limit belong to workers that will not count another one; the
\* once is done only when the flag is set.
ErrorBudget ==
    /\ MaxErrors > 0 => totalErrors <= MaxErrors - 1 + Cardinality(Beyond)
    /\ once = "done" => globalErrorFlag
    /\ \A w \in Workers : pc[w] = "onceDone" => globalErrorFlag

\* At most every worker is beyond the check of the limit.
LEMMA BeyondFinite ==
    /\ IsFiniteSet(Beyond) /\ Cardinality(Beyond) \in Nat
    /\ Cardinality(Beyond) <= Cardinality(Workers) /\ Cardinality(Workers) \in Nat
<1>1. Beyond \subseteq Workers
  BY DEF Beyond
<1> QED BY <1>1, RunAssumption, FS_Subset, FS_CardinalityType

\* An error counted beyond the limit puts its worker into Beyond, and nobody
\* leaves Beyond to count another one before the flag is set.
LEMMA ErrorBudgetStep == Types /\ ErrorBudget /\ [Next]_vars => ErrorBudget'
<1> SUFFICES ASSUME Types, ErrorBudget, [Next]_vars PROVE ErrorBudget'
  OBVIOUS
<1>0. /\ pc \in [Workers -> PcValues] /\ totalErrors \in Nat /\ MaxErrors \in Nat
  BY RunAssumption DEF Types
<1>a. /\ IsFiniteSet(Beyond) /\ Cardinality(Beyond) \in Nat
      /\ IsFiniteSet(Beyond') /\ Cardinality(Beyond') \in Nat
  <2>1. Beyond' \subseteq Workers
    BY DEF Beyond
  <2> QED BY <2>1, BeyondFinite, RunAssumption, FS_Subset, FS_CardinalityType
<1>b. ASSUME totalErrors' = totalErrors, Beyond \subseteq Beyond',
             once' = once, globalErrorFlag => globalErrorFlag',
             \A w \in Workers : pc'[w] = "onceDone" =>
                 globalErrorFlag' \/ pc[w] = "onceDone"
      PROVE  ErrorBudget'
  <2>1. Cardinality(Beyond) <= Cardinality(Beyond')
    BY <1>a, <1>b, FS_Subset
  <2>2. MaxErrors > 0 => totalErrors' <= MaxErrors - 1 + Cardinality(Beyond')
    BY <1>0, <1>a, <1>b, <2>1 DEF ErrorBudget
  <2> QED BY <1>b, <2>2 DEF ErrorBudget
<1>1. ASSUME NEW w \in Workers, SeeStop(w) \/ LastIterationDone(w) \/ Restart(w)
                                 \/ Continue(w) \/ RunOp(w) \/ IncErrors(w)
                                 \/ CheckRowLimit(w) \/ AppendError(w)
                                 \/ CheckFlag(w) \/ StopReporting(w)
      PROVE ErrorBudget'
  <2>1. /\ UNCHANGED <<totalErrors, once, globalErrorFlag>>
        /\ \A v \in Workers \ {w} : pc'[v] = pc[v]
        /\ pc'[w] # "onceDone"
    BY <1>0, <1>1 DEF SeeStop, LastIterationDone, Restart, Continue, RunOp,
       IncErrors, CheckRowLimit, AppendError, CheckFlag, StopReporting, At,
       errorState
  <2>2. w \in Beyond => w \in Beyond'
    BY <1>0, <1>1, <2>1 DEF SeeStop, LastIterationDone, Restart, Continue, RunOp,
       IncErrors, CheckRowLimit, AppendError, CheckFlag, StopReporting, At,
       Beyond, Checking
  <2>3. Beyond \subseteq Beyond'
    BY <2>1, <2>2 DEF Beyond
  <2> QED BY <1>b, <2>1, <2>3
<1>2. ASSUME NEW w \in Workers, CountError(w) PROVE ErrorBudget'
  <2>1. /\ UNCHANGED <<once, globalErrorFlag>> /\ totalErrors' = totalErrors + 1
        /\ \A v \in Workers \ {w} : pc'[v] = pc[v]
        /\ pc[w] = "count" /\ pc'[w] = "record"
    BY <1>0, <1>2 DEF CountError, At
  <2>2. Beyond' = Beyond \cup {w} /\ w \notin Beyond
    BY <2>1 DEF Beyond, Checking
  <2>3. Cardinality(Beyond') = Cardinality(Beyond) + 1
    BY <1>a, <2>2, FS_AddElement
  <2>4. MaxErrors > 0 => totalErrors' <= MaxErrors - 1 + Cardinality(Beyond')
    BY <1>0, <1>a, <2>1, <2>3 DEF ErrorBudget
  <2> QED BY <2>1, <2>4 DEF ErrorBudget
<1>3. ASSUME NEW w \in Workers, CheckTotalLimit(w) PROVE ErrorBudget'
  <2>1. /\ UNCHANGED <<totalErrors, once, globalErrorFlag>>
        /\ \A v \in Workers \ {w} : pc'[v] = pc[v]
        /\ pc[w] = "totalCheck"
        /\ pc'[w] = IF TotalLimitReached THEN "once" ELSE "flagCheck"
    BY <1>0, <1>3 DEF CheckTotalLimit, At, errorState
  <2>2. CASE TotalLimitReached
    <3>1. Beyond \subseteq Beyond'
      BY <2>1, <2>2 DEF Beyond, Checking
    <3> QED BY <1>b, <2>1, <2>2, <3>1
  <2>3. CASE ~TotalLimitReached
    <3>1. MaxErrors > 0 => totalErrors' <= MaxErrors - 1 + Cardinality(Beyond')
      BY <1>0, <1>a, <2>1, <2>3 DEF TotalLimitReached
    <3> QED BY <2>1, <2>3, <3>1 DEF ErrorBudget
  <2> QED BY <2>2, <2>3
<1>4. ASSUME NEW w \in Workers, EnterOnce(w) PROVE ErrorBudget'
  <2>1. /\ UNCHANGED <<totalErrors, globalErrorFlag>>
        /\ \A v \in Workers \ {w} : pc'[v] = pc[v]
        /\ pc[w] = "once"
        /\ pc'[w] = IF once = "new" THEN "onceAppend" ELSE "flagCheck"
        /\ once # "new" => once = "done" /\ once' = "done"
        /\ once = "new" => once' = "running"
    BY <1>0, <1>4 DEF EnterOnce, At, Types
  <2>2. Beyond \subseteq Beyond'
    BY <2>1 DEF Beyond, Checking, ErrorBudget
  <2>3. Cardinality(Beyond) <= Cardinality(Beyond')
    BY <1>a, <2>2, FS_Subset
  <2>4. MaxErrors > 0 => totalErrors' <= MaxErrors - 1 + Cardinality(Beyond')
    BY <1>0, <1>a, <2>1, <2>3 DEF ErrorBudget
  <2> QED BY <2>1, <2>4 DEF ErrorBudget
<1>5. ASSUME NEW w \in Workers, StoreFlag(w) PROVE ErrorBudget'
  <2>1. /\ UNCHANGED <<totalErrors, once>> /\ globalErrorFlag' = TRUE
        /\ \A v \in Workers \ {w} : pc'[v] = pc[v]
        /\ pc'[w] \in {"totalCheck", "onceDone"}
    BY <1>0, <1>5 DEF StoreFlag, At
  <2>2. Beyond \subseteq Beyond'
    BY <2>1 DEF Beyond, Checking
  <2> QED BY <1>b, <2>1, <2>2
<1>6. ASSUME NEW w \in Workers, LeaveOnce(w) PROVE ErrorBudget'
  <2>1. /\ UNCHANGED <<totalErrors, globalErrorFlag>>
        /\ \A v \in Workers \ {w} : pc'[v] = pc[v]
        /\ pc[w] = "onceDone" /\ pc'[w] = "flagCheck" /\ globalErrorFlag
    BY <1>0, <1>6 DEF LeaveOnce, At, ErrorBudget
  <2>2. Beyond \subseteq Beyond'
    BY <2>1 DEF Beyond, Checking
  <2>3. Cardinality(Beyond) <= Cardinality(Beyond')
    BY <1>a, <2>2, FS_Subset
  <2>4. MaxErrors > 0 => totalErrors' <= MaxErrors - 1 + Cardinality(Beyond')
    BY <1>0, <1>a, <2>1, <2>3 DEF ErrorBudget
  <2> QED BY <2>1, <2>4 DEF ErrorBudget
<1>7. CASE Wait \/ Exit \/ TimeIsUp \/ Interrupt \/ UNCHANGED vars
  <2>1. UNCHANGED <<totalErrors, once, globalErrorFlag, pc>>
    BY <1>7 DEF Wait, Exit, TimeIsUp, Interrupt, vars, errorState
  <2>2. Beyond' = Beyond
    BY <2>1 DEF Beyond
  <2> QED BY <1>b, <2>1, <2>2
<1> QED
  BY <1>1, <1>2, <1>3, <1>4, <1>5, <1>6, <1>7 DEF Next, WorkerNext

\* The workers count at most one error each beyond the limit.
THEOREM TotalErrorsBoundCorrect == Spec => []TotalErrorsBound
<1>1. Init => ErrorBudget
  BY RunAssumption, BeyondFinite DEF Init, ErrorBudget
<1>2. Types /\ ErrorBudget => TotalErrorsBound
  <2> SUFFICES ASSUME Types, ErrorBudget, MaxErrors > 0
               PROVE  totalErrors <= MaxErrors + Cardinality(Workers) - 1
    BY DEF TotalErrorsBound
  <2>1. totalErrors \in Nat /\ MaxErrors \in Nat
    BY RunAssumption DEF Types
  <2> QED BY <2>1, BeyondFinite DEF ErrorBudget
<1> QED BY <1>1, <1>2, TypesCorrect, ErrorBudgetStep, PTL DEF Spec

-----------------------------------------------------------------------------
(* Who reports a limit *)

InOnce == {"onceAppend", "onceFlag", "onceDone"}
AfterRowFlag == {"totalCheck", "once", "onceAppend", "onceFlag", "onceDone",
                 "flagCheck", "leave", "stopped"}

\* One worker at most is inside the once, and the error of the total limit is
\* there from the time that worker has appended it.
OnceOK ==
    /\ \A w \in Workers : pc[w] \in InOnce => once = "running"
    /\ \A v, w \in Workers : pc[v] \in InOnce /\ pc[w] \in InOnce => v = w
    /\ \A w \in Workers : totalLimitErrors[w] > 0 => once # "new"
    /\ \A v, w \in Workers : pc[v] = "onceAppend" => totalLimitErrors[w] = 0
    /\ \A w \in Workers : pc[w] \in {"onceFlag", "onceDone"} => totalLimitErrors[w] > 0
    /\ \A v, w \in Workers :
           totalLimitErrors[v] > 0 /\ totalLimitErrors[w] > 0 => v = w
    /\ \A w \in Workers : totalLimitErrors[w] <= 1

\* A worker that has reported its limit of errors at row is on its way out, with
\* the flag set.
RowOK ==
    \A w \in Workers :
        /\ rowLimitErrors[w] <= 1
        /\ pc[w] = "rowFlag" => rowLimitErrors[w] > 0
        /\ rowLimitErrors[w] > 0 /\ pc[w] # "rowFlag" =>
               globalErrorFlag /\ pc[w] \in AfterRowFlag

Reports == OnceOK /\ RowOK /\ FlagHasError

\* Every step keeps what is known of the reports.
LEMMA ReportsStep == Types /\ Reports /\ [Next]_vars => Reports'
<1> SUFFICES ASSUME Types, Reports, [Next]_vars PROVE Reports'
  OBVIOUS
<1>0. /\ pc \in [Workers -> PcValues]
      /\ totalLimitErrors \in [Workers -> Nat] /\ rowLimitErrors \in [Workers -> Nat]
  BY DEF Types
<1>a. ASSUME UNCHANGED <<once, totalLimitErrors>>, NEW w \in Workers,
             \A v \in Workers \ {w} : pc'[v] = pc[v],
             pc'[w] \in InOnce => pc'[w] = pc[w]
                 \/ (pc[w] = "onceFlag" /\ pc'[w] = "onceDone")
      PROVE  OnceOK'
  BY <1>a DEF Reports, OnceOK, InOnce
<1>b. ASSUME UNCHANGED <<globalErrorFlag, rowLimitErrors, totalLimitErrors>>
      PROVE  FlagHasError'
  BY <1>b DEF Reports, FlagHasError, CriticalErrorsFound
<1>1. ASSUME NEW w \in Workers, SeeStop(w) \/ LastIterationDone(w) \/ Restart(w)
                                 \/ Continue(w) \/ RunOp(w) \/ CountError(w)
                                 \/ IncErrors(w) \/ CheckRowLimit(w)
                                 \/ CheckTotalLimit(w) \/ CheckFlag(w)
                                 \/ StopReporting(w)
      PROVE Reports'
  <2>1. /\ UNCHANGED <<once, globalErrorFlag, rowLimitErrors, totalLimitErrors>>
        /\ \A v \in Workers \ {w} : pc'[v] = pc[v]
        /\ pc'[w] \notin InOnce /\ pc'[w] # "rowFlag"
    BY <1>0, <1>1 DEF SeeStop, LastIterationDone, Restart, Continue, RunOp,
       CountError, IncErrors, CheckRowLimit, CheckTotalLimit, CheckFlag,
       StopReporting, At, errorState, InOnce
  <2>2. \/ pc[w] \in {"iterate", "test", "count", "record", "rowCheck"}
        \/ pc[w] # "rowFlag" /\ (globalErrorFlag => pc'[w] \in AfterRowFlag)
    BY <1>0, <1>1 DEF CheckTotalLimit, CheckFlag, StopReporting, SeeStop,
       LastIterationDone, Restart, Continue, RunOp, CountError, IncErrors,
       CheckRowLimit, At, AfterRowFlag
  <2>3. RowOK'
    BY <2>1, <2>2 DEF Reports, RowOK, AfterRowFlag
  <2> QED BY <1>a, <1>b, <2>1, <2>3 DEF Reports
<1>2. ASSUME NEW w \in Workers, EnterOnce(w) PROVE Reports'
  <2>1. /\ UNCHANGED <<globalErrorFlag, rowLimitErrors, totalLimitErrors>>
        /\ \A v \in Workers \ {w} : pc'[v] = pc[v]
        /\ pc[w] = "once" /\ once # "running"
        /\ pc'[w] = IF once = "new" THEN "onceAppend" ELSE "flagCheck"
        /\ once' = IF once = "new" THEN "running" ELSE once
    BY <1>0, <1>2 DEF EnterOnce, At
  <2>2. OnceOK'
    BY <1>0, <2>1 DEF Reports, OnceOK, InOnce
  <2>3. RowOK'
    BY <2>1 DEF Reports, RowOK, AfterRowFlag
  <2> QED BY <1>b, <2>1, <2>2, <2>3 DEF Reports
<1>3. ASSUME NEW w \in Workers, AppendError(w) PROVE Reports'
  <2>0. /\ UNCHANGED <<globalErrorFlag, once>>
        /\ \A v \in Workers \ {w} : pc'[v] = pc[v]
    BY <1>0, <1>3 DEF AppendError, At
  <2>1. CASE pc[w] = "rowAppend"
    <3>1. /\ pc'[w] = "rowFlag" /\ totalLimitErrors' = totalLimitErrors
          /\ rowLimitErrors'[w] = rowLimitErrors[w] + 1
          /\ \A v \in Workers \ {w} : rowLimitErrors'[v] = rowLimitErrors[v]
      BY <1>0, <1>3, <2>1 DEF AppendError, At
    <3>2. OnceOK'
      BY <1>a, <2>0, <3>1 DEF InOnce
    <3>3. rowLimitErrors[w] = 0
      BY <1>0, <2>1 DEF Reports, RowOK, AfterRowFlag
    <3>4. RowOK'
      BY <2>0, <3>1, <3>3 DEF Reports, RowOK
    <3>5. FlagHasError'
      BY <1>0, <3>1, <3>3 DEF FlagHasError, CriticalErrorsFound
    <3> QED BY <3>2, <3>4, <3>5 DEF Reports
  <2>2. CASE pc[w] = "onceAppend"
    <3>1. /\ pc'[w] = "onceFlag" /\ rowLimitErrors' = rowLimitErrors
          /\ totalLimitErrors'[w] = totalLimitErrors[w] + 1
          /\ \A v \in Workers \ {w} : totalLimitErrors'[v] = totalLimitErrors[v]
      BY <1>0, <1>3, <2>2 DEF AppendError, At
    <3>2. \A v \in Workers : totalLimitErrors[v] = 0
      BY <2>2 DEF Reports, OnceOK
    <3>3. OnceOK'
      BY <2>0, <2>2, <3>1, <3>2 DEF Reports, OnceOK, InOnce
    <3>4. RowOK'
      BY <2>0, <2>2, <3>1 DEF Reports, RowOK, AfterRowFlag
    <3>5. FlagHasError'
      BY <1>0, <3>1, <3>2 DEF FlagHasError, CriticalErrorsFound
    <3> QED BY <3>3, <3>4, <3>5 DEF Reports
  <2> QED BY <1>3, <2>1, <2>2 DEF AppendError, At
<1>4. ASSUME NEW w \in Workers, StoreFlag(w) PROVE Reports'
  <2>1. /\ UNCHANGED <<once, rowLimitErrors, totalLimitErrors>> /\ globalErrorFlag'
        /\ \A v \in Workers \ {w} : pc'[v] = pc[v]
        /\ \/ pc[w] = "rowFlag" /\ pc'[w] = "totalCheck"
           \/ pc[w] = "onceFlag" /\ pc'[w] = "onceDone"
    BY <1>0, <1>4 DEF StoreFlag, At
  <2>2. OnceOK'
    BY <1>a, <2>1 DEF InOnce
  <2>3. RowOK'
    BY <2>1 DEF Reports, RowOK, AfterRowFlag
  <2>4. FlagHasError'
    BY <1>0, <2>1 DEF Reports, OnceOK, RowOK, FlagHasError, CriticalErrorsFound
  <2> QED BY <2>2, <2>3, <2>4 DEF Reports
<1>5. ASSUME NEW w \in Workers, LeaveOnce(w) PROVE Reports'
  <2>1. /\ UNCHANGED <<globalErrorFlag, rowLimitErrors, totalLimitErrors>>
        /\ \A v \in Workers \ {w} : pc'[v] = pc[v]
        /\ pc[w] = "onceDone" /\ pc'[w] = "flagCheck" /\ once' = "done"
    BY <1>0, <1>5 DEF LeaveOnce, At
  <2>2. OnceOK'
    BY <2>1 DEF Reports, OnceOK, InOnce
  <2>3. RowOK'
    BY <2>1 DEF Reports, RowOK, AfterRowFlag
  <2> QED BY <1>b, <2>1, <2>2, <2>3 DEF Reports
<1>6. CASE Wait \/ Exit \/ TimeIsUp \/ Interrupt \/ UNCHANGED vars
  <2>1. UNCHANGED <<once, globalErrorFlag, rowLimitErrors, totalLimitErrors, pc>>
    BY <1>6 DEF Wait, Exit, TimeIsUp, Interrupt, vars, errorState
  <2>2. OnceOK' /\ RowOK'
    BY <2>1 DEF Reports, OnceOK, RowOK
  <2> QED BY <1>b, <2>1, <2>2 DEF Reports
<1> QED
  BY <1>1, <1>2, <1>3, <1>4, <1>5, <1>6 DEF Next, WorkerNext

\* It holds in every reachable state.
LEMMA ReportsCorrect == Spec => []Reports
<1>1. Init => Reports
  BY DEF Init, Reports, OnceOK, RowOK, FlagHasError, InOnce, AfterRowFlag
<1> QED BY <1>1, TypesCorrect, ReportsStep, PTL DEF Spec

\* The total limit is reported once; each worker's own at most once.
THEOREM LimitsReportedOnceCorrect == Spec => []LimitsReportedOnce
<1>1. Reports => LimitsReportedOnce
  BY DEF Reports, OnceOK, RowOK, LimitsReportedOnce
<1> QED BY <1>1, ReportsCorrect, PTL

\* The flag is never seen without the error that raised it.
THEOREM FlagHasErrorCorrect == Spec => []FlagHasError
<1>1. Reports => FlagHasError
  BY DEF Reports
<1> QED BY <1>1, ReportsCorrect, PTL

-----------------------------------------------------------------------------
(* Operations begun after a stop *)

\* A worker that has begun an operation late begins no other: it sees stopAll in
\* IsDone, or the flag before that.
LateOK ==
    \A w \in Workers :
        /\ late[w] <= 1
        /\ late[w] > 0 =>
               /\ stopAll \/ globalErrorFlag
               /\ pc[w] # "test"
               /\ pc[w] = "iterate" => stopAll

\* Every step keeps the number of late operations.
LEMMA LateStep == Types /\ LateOK /\ [Next]_vars => LateOK'
<1> SUFFICES ASSUME Types, LateOK, [Next]_vars PROVE LateOK'
  OBVIOUS
<1>0. pc \in [Workers -> PcValues] /\ late \in [Workers -> Nat]
  BY DEF Types
<1>1. ASSUME NEW w \in Workers, RunOp(w) PROVE LateOK'
  <2>1. /\ UNCHANGED <<stopAll, globalErrorFlag>>
        /\ \A v \in Workers \ {w} : pc'[v] = pc[v] /\ late'[v] = late[v]
        /\ pc[w] = "test" /\ pc'[w] \in {"rowCheck", "count"}
        /\ late'[w] = IF stopAll \/ globalErrorFlag THEN late[w] + 1 ELSE late[w]
    BY <1>0, <1>1 DEF RunOp, env
  <2>2. late[w] = 0
    BY <1>0, <2>1 DEF LateOK
  <2> QED BY <2>1, <2>2 DEF LateOK
<1>2. ASSUME NEW w \in Workers, WorkerNext(w), ~RunOp(w) PROVE LateOK'
  <2>1. late' = late /\ stopAll' = stopAll
    BY <1>2 DEF WorkerNext, SeeStop, LastIterationDone, Restart, Continue,
       CountError, IncErrors, CheckRowLimit, CheckTotalLimit, EnterOnce,
       AppendError, StoreFlag, LeaveOnce, CheckFlag, StopReporting, At, env, locals
  <2>2. globalErrorFlag => globalErrorFlag'
    BY <1>2, Zenon DEF WorkerNext, SeeStop, LastIterationDone, Restart, Continue,
       CountError, IncErrors, CheckRowLimit, CheckTotalLimit, EnterOnce,
       AppendError, StoreFlag, LeaveOnce, CheckFlag, StopReporting, At, errorState
  <2>3. \A v \in Workers \ {w} : pc'[v] = pc[v]
    BY <1>0, <1>2 DEF WorkerNext, SeeStop, LastIterationDone, Restart, Continue,
       CountError, IncErrors, CheckRowLimit, CheckTotalLimit, EnterOnce,
       AppendError, StoreFlag, LeaveOnce, CheckFlag, StopReporting, At
  <2>4. pc'[w] = "test" => pc[w] = "iterate" /\ ~stopAll
    BY <1>0, <1>2 DEF WorkerNext, SeeStop, LastIterationDone, Restart, Continue,
       CountError, IncErrors, CheckRowLimit, CheckTotalLimit, EnterOnce,
       AppendError, StoreFlag, LeaveOnce, CheckFlag, StopReporting, At
  <2>5. pc'[w] = "iterate" => pc[w] = "flagCheck" /\ CheckFlag(w)
    BY <1>0, <1>2 DEF WorkerNext, SeeStop, LastIterationDone, Restart, Continue,
       CountError, IncErrors, CheckRowLimit, CheckTotalLimit, EnterOnce,
       AppendError, StoreFlag, LeaveOnce, CheckFlag, StopReporting, At
  <2>6. pc'[w] = "iterate" => ~globalErrorFlag /\ ~globalErrorFlag'
    BY <1>0, <2>5 DEF CheckFlag, At, errorState
  <2> QED BY <2>1, <2>2, <2>3, <2>4, <2>6 DEF LateOK
<1>3. CASE Wait \/ Exit \/ TimeIsUp \/ Interrupt \/ UNCHANGED vars
  <2>1. late' = late /\ pc' = pc
    BY <1>3 DEF Wait, Exit, TimeIsUp, Interrupt, vars, locals
  <2>2. globalErrorFlag' = globalErrorFlag
    BY <1>3, Zenon DEF Wait, Exit, TimeIsUp, Interrupt, vars, errorState
  <2>3. stopAll => stopAll'
    BY <1>3, Zenon DEF Wait, Exit, TimeIsUp, Interrupt, vars, env
  <2> QED BY <2>1, <2>2, <2>3 DEF LateOK
<1> QED BY <1>1, <1>2, <1>3 DEF Next

\* At most one operation of each worker begins after a stop.
THEOREM OneLateOpCorrect == Spec => []OneLateOp
<1>1. Init => LateOK
  BY DEF Init, LateOK
<1>2. LateOK => OneLateOp
  BY DEF LateOK, OneLateOp
<1> QED BY <1>1, <1>2, TypesCorrect, LateStep, PTL DEF Spec

-----------------------------------------------------------------------------
(* The exit status *)

\* A limit that is reached has somebody on the way to report it, or is reported.
Answered ==
    /\ \A w \in Workers :
           RowLimitReached(w) /\ pc[w] \notin {"count", "record", "rowCheck", "rowAppend"}
               => rowLimitErrors[w] > 0
    /\ TotalLimitReached =>
           \/ once # "new"
           \/ \E w \in Workers : pc[w] \in {"record", "rowCheck", "rowAppend",
                                             "rowFlag", "totalCheck", "once"}
    /\ once = "running" => \E w \in Workers : pc[w] \in InOnce
    /\ main = "exit 0" => ~CriticalErrorsFound

\* Every step keeps a reached limit answered.
LEMMA AnsweredStep ==
    Types /\ WaitGroupOK /\ Answered /\ [Next]_vars => Answered'
<1> SUFFICES ASSUME Types, WaitGroupOK, Answered, [Next]_vars PROVE Answered'
  OBVIOUS
<1>0. /\ pc \in [Workers -> PcValues] /\ errorsAtRow \in [Workers -> Nat]
      /\ rowLimitErrors \in [Workers -> Nat] /\ totalLimitErrors \in [Workers -> Nat]
      /\ totalErrors \in Nat /\ MaxErrors \in Nat /\ MaxErrorsAtRow \in Nat
      /\ once \in {"new", "running", "done"}
  BY RunAssumption DEF Types
<1>a. ASSUME NEW w \in Workers, WorkerNext(w) PROVE main' = main /\ main # "exit 0"
  <2>1. main' = main /\ pc[w] # "stopped"
    BY <1>a DEF WorkerNext, SeeStop, LastIterationDone, Restart, Continue, RunOp,
       CountError, IncErrors, CheckRowLimit, CheckTotalLimit, EnterOnce,
       AppendError, StoreFlag, LeaveOnce, CheckFlag, StopReporting, At, env
  <2> QED BY <2>1 DEF WaitGroupOK, Unfinished
<1>1. ASSUME NEW w \in Workers, RunOp(w) PROVE Answered'
  <2>1. /\ UNCHANGED <<once, totalErrors, rowLimitErrors>>
        /\ \A v \in Workers \ {w} : pc'[v] = pc[v] /\ errorsAtRow'[v] = errorsAtRow[v]
        /\ pc[w] = "test" /\ pc'[w] \in {"rowCheck", "count"}
    BY <1>0, <1>1 DEF RunOp
  <2>2. main' # "exit 0"
    BY <1>a, <1>1 DEF WorkerNext
  <2> QED BY <2>1, <2>2 DEF Answered, RowLimitReached, TotalLimitReached, InOnce
<1>2. ASSUME NEW w \in Workers, CountError(w) PROVE Answered'
  <2>1. /\ UNCHANGED <<once, rowLimitErrors, errorsAtRow>>
        /\ \A v \in Workers \ {w} : pc'[v] = pc[v]
        /\ pc[w] = "count" /\ pc'[w] = "record"
    BY <1>0, <1>2 DEF CountError, At, locals
  <2>2. main' # "exit 0"
    BY <1>a, <1>2 DEF WorkerNext
  <2> QED BY <2>1, <2>2 DEF Answered, RowLimitReached, InOnce
<1>3. ASSUME NEW w \in Workers, SeeStop(w) \/ LastIterationDone(w) \/ Restart(w)
                                 \/ Continue(w) \/ CheckFlag(w) \/ StopReporting(w)
                                 \/ IncErrors(w) \/ CheckRowLimit(w)
                                 \/ CheckTotalLimit(w) \/ StoreFlag(w)
      PROVE Answered'
  <2>1. /\ UNCHANGED <<once, rowLimitErrors, errorsAtRow, totalErrors>>
        /\ \A v \in Workers \ {w} : pc'[v] = pc[v]
    BY <1>0, <1>3 DEF SeeStop, LastIterationDone, Restart, Continue, CheckFlag,
       StopReporting, IncErrors, CheckRowLimit, CheckTotalLimit, StoreFlag, At,
       errorState, locals
  <2>2. main' # "exit 0"
    BY <1>a, <1>3 DEF WorkerNext
  <2>3. /\ pc'[w] \in InOnce <=> pc[w] \in InOnce
        /\ pc[w] \in {"record", "rowCheck", "rowAppend", "rowFlag", "totalCheck", "once"}
              => \/ pc'[w] \in {"record", "rowCheck", "rowAppend", "rowFlag",
                                "totalCheck", "once"}
                 \/ ~TotalLimitReached
        /\ pc[w] \in {"count", "record", "rowCheck", "rowAppend"} =>
              \/ pc'[w] \in {"count", "record", "rowCheck", "rowAppend"}
              \/ ~RowLimitReached(w)
    BY <1>0, <1>3 DEF SeeStop, LastIterationDone, Restart, Continue, CheckFlag,
       StopReporting, IncErrors, CheckRowLimit, CheckTotalLimit, StoreFlag, At,
       InOnce
  <2> QED BY <2>1, <2>2, <2>3 DEF Answered, RowLimitReached, TotalLimitReached, InOnce
<1>4. ASSUME NEW w \in Workers, EnterOnce(w) \/ LeaveOnce(w) PROVE Answered'
  <2>1. /\ UNCHANGED <<rowLimitErrors, errorsAtRow, totalErrors>>
        /\ \A v \in Workers \ {w} : pc'[v] = pc[v]
        /\ pc[w] \in {"once", "onceDone"}
        /\ once' # "new"
        /\ \/ once' = "running" /\ pc'[w] = "onceAppend"
           \/ once' # "running" /\ pc'[w] = "flagCheck"
    BY <1>0, <1>4 DEF EnterOnce, LeaveOnce, At, locals
  <2>2. main' # "exit 0"
    BY <1>a, <1>4 DEF WorkerNext
  <2> QED BY <2>1, <2>2 DEF Answered, RowLimitReached, InOnce
<1>5. ASSUME NEW w \in Workers, AppendError(w) PROVE Answered'
  <2>1. /\ UNCHANGED <<once, errorsAtRow, totalErrors>>
        /\ \A v \in Workers \ {w} : pc'[v] = pc[v] /\ rowLimitErrors'[v] = rowLimitErrors[v]
        /\ \/ pc[w] = "rowAppend" /\ pc'[w] = "rowFlag" /\ rowLimitErrors'[w] > 0
           \/ /\ pc[w] = "onceAppend" /\ pc'[w] = "onceFlag"
              /\ rowLimitErrors'[w] = rowLimitErrors[w]
    BY <1>0, <1>5 DEF AppendError, At, locals
  <2>2. main' # "exit 0"
    BY <1>a, <1>5 DEF WorkerNext
  <2> QED BY <2>1, <2>2 DEF Answered, RowLimitReached, TotalLimitReached, InOnce
<1>6. CASE Wait \/ Exit \/ TimeIsUp \/ Interrupt \/ UNCHANGED vars
  <2>1. UNCHANGED <<once, errorsAtRow, totalErrors, rowLimitErrors, totalLimitErrors, pc>>
    BY <1>6 DEF Wait, Exit, TimeIsUp, Interrupt, vars, errorState, locals
  <2>2. main' = "exit 0" => ~CriticalErrorsFound
    BY <1>6 DEF Wait, Exit, TimeIsUp, Interrupt, vars, env, Answered
  <2> QED BY <2>1, <2>2
      DEF Answered, RowLimitReached, TotalLimitReached, InOnce, CriticalErrorsFound
<1> QED
  BY <1>1, <1>2, <1>3, <1>4, <1>5, <1>6 DEF Next, WorkerNext

\* An appended error of the row limit is among the critical errors.
LEMMA RowErrorIsCritical ==
    Types => \A w \in Workers : rowLimitErrors[w] > 0 => CriticalErrorsFound
<1> SUFFICES ASSUME Types, NEW w \in Workers, rowLimitErrors[w] > 0
             PROVE  \E v \in Workers : rowLimitErrors[v] + totalLimitErrors[v] > 0
  BY DEF CriticalErrorsFound
<1>1. rowLimitErrors[w] \in Nat /\ totalLimitErrors[w] \in Nat
  BY DEF Types
<1>2. rowLimitErrors[w] + totalLimitErrors[w] > 0
  BY <1>1
<1> QED BY <1>2

\* Status 0 means that no limit was reached.
THEOREM StatusReportsLimitsCorrect == Spec => []StatusReportsLimits
<1>1. Init => Answered
  BY RunAssumption DEF Init, Answered, RowLimitReached, TotalLimitReached, InOnce
<1>2. Types /\ WaitGroupOK /\ ErrorBudget /\ Reports /\ Answered => StatusReportsLimits
  <2> SUFFICES ASSUME Types, WaitGroupOK, ErrorBudget, Reports, Answered,
                      main = "exit 0"
               PROVE  /\ \A w \in Workers : pc[w] = "stopped" /\ ~RowLimitReached(w)
                      /\ ~TotalLimitReached /\ ~globalErrorFlag
    BY DEF StatusReportsLimits
  <2>1. \A w \in Workers : pc[w] = "stopped"
    BY DEF WaitGroupOK, Unfinished
  <2>2. ~CriticalErrorsFound /\ ~globalErrorFlag
    BY DEF Answered, Reports, FlagHasError
  <2>3. \A w \in Workers : ~RowLimitReached(w)
    <3> QED BY <2>1, <2>2, RowErrorIsCritical DEF Answered
  <2>4. ~TotalLimitReached
    <3>1. once \in {"new", "done"}
      BY <2>1 DEF Answered, InOnce, Types
    <3>2. once # "done"
      BY <2>2 DEF ErrorBudget
    <3> QED BY <2>1, <3>1, <3>2 DEF Answered
  <2> QED BY <2>1, <2>2, <2>3, <2>4
<1>3. Init => WaitGroupOK /\ ErrorBudget
  <2>1. Init => Unfinished = Workers
    BY DEF Init, Unfinished
  <2> QED BY <2>1, RunAssumption, BeyondFinite DEF Init, WaitGroupOK, ErrorBudget
<1> QED
  BY <1>1, <1>2, <1>3, TypesCorrect, WaitGroupCorrect, ErrorBudgetStep,
     ReportsCorrect, AnsweredStep, PTL DEF Spec

-----------------------------------------------------------------------------
(* The summary *)

\* The workers between TotalErrors and the errors of their results.
Recording == {w \in Workers : pc[w] = "record"}

\* The summary lacks the errors of those workers at most.
SummaryOK == summaryErrors + Cardinality(Recording) >= totalErrors

\* Every step keeps that.
LEMMA SummaryStep == Types /\ SummaryOK /\ [Next]_vars => SummaryOK'
<1> SUFFICES ASSUME Types, SummaryOK, [Next]_vars PROVE SummaryOK'
  OBVIOUS
<1>0. /\ pc \in [Workers -> PcValues] /\ summaryErrors \in Nat /\ totalErrors \in Nat
  BY DEF Types
<1>a. IsFiniteSet(Recording) /\ Cardinality(Recording) \in Nat
  BY RunAssumption, FS_Subset, FS_CardinalityType DEF Recording
<1>1. ASSUME NEW w \in Workers, CountError(w) PROVE SummaryOK'
  <2>1. Recording' = Recording \cup {w} /\ w \notin Recording
    BY <1>0, <1>1 DEF CountError, At, Recording
  <2>2. Cardinality(Recording') = Cardinality(Recording) + 1
    BY <1>a, <2>1, FS_AddElement
  <2> QED BY <1>0, <1>1, <1>a, <2>2 DEF CountError, SummaryOK
<1>2. ASSUME NEW w \in Workers, IncErrors(w) PROVE SummaryOK'
  <2>1. Recording' = Recording \ {w} /\ w \in Recording
    BY <1>0, <1>2 DEF IncErrors, At, Recording
  <2>2. Cardinality(Recording') = Cardinality(Recording) - 1
    BY <1>a, <2>1, FS_RemoveElement
  <2> QED BY <1>0, <1>2, <1>a, <2>2 DEF IncErrors, SummaryOK
<1>3. ASSUME NEW w \in Workers, WorkerNext(w), ~CountError(w), ~IncErrors(w) PROVE SummaryOK'
  <2>1. /\ totalErrors' = totalErrors
        /\ summaryErrors' \in {summaryErrors, summaryErrors + 1}
    <3>1. ASSUME RunOp(w) PROVE /\ totalErrors' = totalErrors
                                /\ summaryErrors' \in {summaryErrors, summaryErrors + 1}
      BY <1>0, <3>1 DEF RunOp
    <3>2. ASSUME ~RunOp(w) PROVE totalErrors' = totalErrors /\ summaryErrors' = summaryErrors
      BY <1>3, <3>2 DEF WorkerNext, SeeStop, LastIterationDone, Restart, Continue,
         CheckRowLimit, CheckTotalLimit, EnterOnce, AppendError, StoreFlag, LeaveOnce,
         CheckFlag, StopReporting, errorState
    <3> QED BY <3>1, <3>2
  <2>2. /\ pc[w] # "record" /\ pc'[w] # "record"
        /\ \A v \in Workers \ {w} : pc'[v] = pc[v]
    BY <1>0, <1>3 DEF WorkerNext, SeeStop, LastIterationDone, Restart, Continue, RunOp,
       CheckRowLimit, CheckTotalLimit, EnterOnce, AppendError, StoreFlag, LeaveOnce,
       CheckFlag, StopReporting, At
  <2>3. Recording' = Recording
    BY <2>2 DEF Recording
  <2> QED BY <1>0, <1>a, <2>1, <2>3 DEF SummaryOK
<1>4. CASE Wait \/ Exit \/ TimeIsUp \/ Interrupt \/ UNCHANGED vars
  BY <1>4 DEF Wait, Exit, TimeIsUp, Interrupt, vars, errorState, SummaryOK, Recording
<1> QED BY <1>1, <1>2, <1>3, <1>4 DEF Next

\* Every error that counted towards -error-limit is in the summary that main prints:
\* no worker is between the two counters then (modes.go:227-234, main.go:608-612).
THEOREM SummaryShowsErrorsCorrect == Spec => []SummaryShowsErrors
<1>1. Init => SummaryOK
  <2> SUFFICES ASSUME Init PROVE SummaryOK
    OBVIOUS
  <2>1. Recording = {} /\ summaryErrors = 0 /\ totalErrors = 0
    BY DEF Init, Recording
  <2> QED BY <2>1, FS_EmptySet DEF SummaryOK
<1>2. ASSUME Types, SummaryOK, Recording = {} PROVE summaryErrors >= totalErrors
  <2>1. summaryErrors \in Nat /\ totalErrors \in Nat
    BY <1>2 DEF Types
  <2>2. Cardinality(Recording) = 0
    BY <1>2, FS_EmptySet
  <2> QED BY <1>2, <2>1, <2>2 DEF SummaryOK
<1>3. Types /\ WaitGroupOK /\ SummaryOK => SummaryShowsErrors
  <2> SUFFICES ASSUME Types, WaitGroupOK, SummaryOK, main \in {"exit 0", "exit 1"}
               PROVE  summaryErrors >= totalErrors
    BY DEF SummaryShowsErrors
  <2>1. Recording = {}
    BY DEF WaitGroupOK, Unfinished, Recording
  <2> QED BY <1>2, <2>1, Zenon
<1> QED BY <1>1, <1>3, SummaryStep, TypesCorrect, WaitGroupCorrect, PTL DEF Spec

-----------------------------------------------------------------------------
(* The promise *)

\* Whoever has been interrupted has been told to stop.
InterruptOK == interrupts > 0 => stopAll

\* Every step keeps that.
LEMMA InterruptStep == Types /\ InterruptOK /\ [Next]_vars => InterruptOK'
<1> SUFFICES ASSUME Types, InterruptOK, [Next]_vars PROVE InterruptOK'
  OBVIOUS
<1>1. ASSUME NEW w \in Workers, WorkerNext(w) PROVE UNCHANGED <<interrupts, stopAll>>
  BY <1>1, Zenon DEF WorkerNext, SeeStop, LastIterationDone, Restart, Continue, RunOp,
     CountError, IncErrors, CheckRowLimit, CheckTotalLimit, EnterOnce,
     AppendError, StoreFlag, LeaveOnce, CheckFlag, StopReporting, env
<1>2. CASE Wait \/ Exit \/ UNCHANGED vars
  BY <1>2, Zenon DEF Wait, Exit, vars, env, InterruptOK
<1>3. CASE TimeIsUp
  BY <1>3, Zenon DEF TimeIsUp, InterruptOK
<1>4. CASE Interrupt
  <2>1. interrupts \in 0 .. MaxInterrupts /\ MaxInterrupts \in Nat
    BY RunAssumption DEF Types
  <2>2. CASE interrupts = 0
    BY <1>4, <2>2, Zenon DEF Interrupt, InterruptOK
  <2>3. CASE interrupts > 0
    <3>1. interrupts # 0
      BY <2>1, <2>3
    <3>2. stopAll' = stopAll
      BY <1>4, <3>1, Zenon DEF Interrupt
    <3> QED BY <2>3, <3>2, Zenon DEF InterruptOK
  <2> QED BY <2>1, <2>2, <2>3
<1>5. ASSUME NEW w \in Workers, WorkerNext(w) PROVE InterruptOK'
  BY <1>1, <1>5, Zenon DEF InterruptOK
<1> QED BY <1>2, <1>3, <1>4, <1>5, Zenon DEF Next

\* Nobody works once main has gone on.
LEMMA AtWork ==
    ASSUME Types, WaitGroupOK, ~Exited, NEW w \in Workers, pc[w] # "stopped"
    PROVE  main = "wait"
<1>1. Unfinished # {}
  BY DEF Unfinished
<1> QED BY <1>1 DEF WaitGroupOK, Types, Exited

\* A report is one of the promise.
LEMMA ReportKeepsPromise ==
    ASSUME Types, WaitGroupOK, Reports, ~Exited, NEW w \in Workers, AppendError(w)
    PROVE  Promise!ReportRow(w) \/ Promise!ReportTotal(w)
<1>0. /\ rowLimitErrors \in [Workers -> Nat] /\ totalLimitErrors \in [Workers -> Nat]
      /\ pc \in [Workers -> PcValues]
  BY DEF Types
<1>1. /\ UNCHANGED <<stopAll, main, globalErrorFlag>>
      /\ \/ /\ pc[w] = "rowAppend"
            /\ rowLimitErrors' = [rowLimitErrors EXCEPT ![w] = rowLimitErrors[w] + 1]
            /\ totalLimitErrors' = totalLimitErrors
         \/ /\ pc[w] = "onceAppend"
            /\ totalLimitErrors' = [totalLimitErrors EXCEPT ![w] = totalLimitErrors[w] + 1]
            /\ rowLimitErrors' = rowLimitErrors
  BY Zenon DEF AppendError, At, env
<1>2. main = "wait"
  BY <1>1, AtWork
<1>3. CASE pc[w] = "rowAppend"
  <2>1. rowLimitErrors[w] = 0
    BY <1>0, <1>3 DEF Reports, RowOK, AfterRowFlag
  <2>2. rowLimitErrors[w] + 1 = 1
    BY <2>1
  <2> QED BY <1>1, <1>2, <1>3, <2>1, <2>2, Zenon DEF Promise!ReportRow
<1>4. CASE pc[w] = "onceAppend"
  <2>1. \A v \in Workers : totalLimitErrors[v] = 0
    BY <1>4 DEF Reports, OnceOK
  <2>2. totalLimitErrors[w] + 1 = 1
    BY <2>1
  <2> QED BY <1>1, <1>2, <1>4, <2>1, <2>2, Zenon DEF Promise!ReportTotal
<1> QED BY <1>1, <1>3, <1>4

\* So is the flag, which is stored after the report.
LEMMA FlagKeepsPromise ==
    ASSUME Types, WaitGroupOK, Reports, ~Exited, NEW w \in Workers, StoreFlag(w)
    PROVE  Promise!Raise \/ UNCHANGED Promise!vars
<1>1. /\ UNCHANGED <<stopAll, main, rowLimitErrors, totalLimitErrors>>
      /\ globalErrorFlag' = TRUE /\ pc[w] \in {"rowFlag", "onceFlag"}
  BY Zenon DEF StoreFlag, At, env
<1>2. main = "wait"
  BY <1>1, AtWork
<1>3. /\ rowLimitErrors[w] \in Nat /\ totalLimitErrors[w] \in Nat
      /\ rowLimitErrors[w] > 0 \/ totalLimitErrors[w] > 0
  BY <1>1 DEF Types, Reports, RowOK, OnceOK
<1>4. rowLimitErrors[w] + totalLimitErrors[w] > 0
  BY <1>3
<1>5. Promise!Reported
  BY <1>4, Zenon DEF Promise!Reported
<1>6. globalErrorFlag \in BOOLEAN
  BY Zenon DEF Types
<1> QED BY <1>1, <1>2, <1>5, <1>6, Zenon DEF Promise!Raise, Promise!vars

\* Whatever the workers, main, the timer and the signals do in a step is a step of
\* the promise or none: a limit is reported once and before its flag is seen, and
\* the exit status tells of it.
THEOREM PromiseKept == Spec => Promise!Safety
<1>1. Init => Promise!Init /\ InterruptOK
  <2>1. Init => InterruptOK
    BY DEF Init, InterruptOK
  <2> QED BY <2>1, Zenon DEF Init, Promise!Init
<1>2. Types /\ WaitGroupOK /\ Reports /\ InterruptOK /\ [Next]_vars
          => [Promise!Next]_Promise!vars
  <2> SUFFICES ASSUME Types, WaitGroupOK, Reports, InterruptOK, [Next]_vars
               PROVE  Promise!Next \/ UNCHANGED Promise!vars
    OBVIOUS
  <2>1. ASSUME ~Exited, NEW w \in Workers, WorkerNext(w)
        PROVE  Promise!Next \/ UNCHANGED Promise!vars
    <3>1. CASE AppendError(w)
      BY <2>1, <3>1, ReportKeepsPromise, Zenon DEF Promise!Next
    <3>2. CASE StoreFlag(w)
      BY <2>1, <3>2, FlagKeepsPromise, Zenon DEF Promise!Next
    <3>3. CASE ~AppendError(w) /\ ~StoreFlag(w)
      BY <2>1, <3>3, Zenon DEF WorkerNext, SeeStop, LastIterationDone, Restart,
         Continue, RunOp, CountError, IncErrors, CheckRowLimit, CheckTotalLimit,
         EnterOnce, LeaveOnce, CheckFlag, StopReporting, env, errorState,
         Promise!vars
    <3> QED BY <3>1, <3>2, <3>3
  <2>2. ASSUME Wait PROVE Promise!Next
    BY <2>2, Zenon DEF Wait, errorState, Promise!Finish, Promise!Next
  <2>3. ASSUME Exit PROVE Promise!Next
    BY <2>3, Zenon DEF Exit, errorState, CriticalErrorsFound, Promise!Reported,
       Promise!Exit, Promise!Next
  <2>4. ASSUME ~Exited, TimeIsUp PROVE Promise!Next
    <3>1. main \in {"wait", "status"}
      BY <2>4 DEF Exited, Types
    <3> QED BY <2>4, <3>1, Zenon DEF TimeIsUp, errorState, Promise!Stop, Promise!Next
  <2>5. ASSUME ~Exited, Interrupt PROVE Promise!Next \/ UNCHANGED Promise!vars
    <3>1. main \in {"wait", "status"}
      BY <2>5 DEF Exited, Types
    <3>2. stopAll \in BOOLEAN
      BY Zenon DEF Types
    <3>3. CASE interrupts = 0
      BY <2>5, <3>1, <3>2, <3>3, Zenon
         DEF Interrupt, errorState, Promise!Stop, Promise!Next, Promise!vars
    <3>4. CASE interrupts # 0
      <4>0. interrupts \in 0 .. MaxInterrupts /\ MaxInterrupts \in Nat
        BY RunAssumption, Zenon DEF Types
      <4>1. interrupts > 0
        BY <3>4, <4>0
      <4>2. stopAll
        BY <4>1, Zenon DEF InterruptOK
      <4> QED BY <2>5, <3>1, <3>4, <4>2, Zenon
              DEF Interrupt, errorState, Promise!Kill, Promise!Next
    <3> QED BY <3>3, <3>4
  <2>6. ASSUME UNCHANGED vars PROVE UNCHANGED Promise!vars
    BY <2>6, Zenon DEF vars, errorState, env, Promise!vars
  <2> QED BY <2>1, <2>2, <2>3, <2>4, <2>5, <2>6, Zenon DEF Next
<1> QED
  BY <1>1, <1>2, TypesCorrect, WaitGroupCorrect, ReportsCorrect, InterruptStep, PTL
     DEF Spec, Promise!Safety
=============================================================================
