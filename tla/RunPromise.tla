------------------------------ MODULE RunPromise ------------------------------
(***************************************************************************)
(* What a run promises to the one who started it.  It works until its work   *)
(* is done or somebody stops it; a worker that reaches a limit reports it,   *)
(* once for each limit, and may then raise the flag that ends the run for    *)
(* all; the exit status tells whether a limit was reported.  Nothing is said *)
(* of operations, of the counting of errors and of how the workers agree.    *)
(***************************************************************************)
EXTENDS Naturals

CONSTANT Workers

VARIABLES
    stopped,       \* the time is up, or there was an interrupt
    flag,          \* a limit ends the run
    rowReports,    \* reports of -error-at-row-limit, by worker
    totalReports,  \* reports of -error-limit, by worker
    status         \* "wait" for the workers, "status" when they are through,
                   \* "exit 0", "exit 1" or "killed"

vars == <<stopped, flag, rowReports, totalReports, status>>

Reported == \E w \in Workers : rowReports[w] + totalReports[w] > 0

Init ==
    /\ stopped = FALSE /\ flag = FALSE
    /\ rowReports = [w \in Workers |-> 0]
    /\ totalReports = [w \in Workers |-> 0]
    /\ status = "wait"

\* The time may be up when the workers are through already.
Stop ==
    /\ status \in {"wait", "status"} /\ ~stopped
    /\ stopped' = TRUE
    /\ UNCHANGED <<flag, rowReports, totalReports, status>>

ReportRow(w) ==
    /\ status = "wait" /\ rowReports[w] = 0
    /\ rowReports' = [rowReports EXCEPT ![w] = 1]
    /\ UNCHANGED <<stopped, flag, totalReports, status>>

\* One worker for all.
ReportTotal(w) ==
    /\ status = "wait" /\ \A v \in Workers : totalReports[v] = 0
    /\ totalReports' = [totalReports EXCEPT ![w] = 1]
    /\ UNCHANGED <<stopped, flag, rowReports, status>>

\* Whoever sees the flag finds the report that raised it.
Raise ==
    /\ status = "wait" /\ Reported /\ ~flag
    /\ flag' = TRUE
    /\ UNCHANGED <<stopped, rowReports, totalReports, status>>

Finish ==
    /\ status = "wait"
    /\ status' = "status"
    /\ UNCHANGED <<stopped, flag, rowReports, totalReports>>

Exit ==
    /\ status = "status"
    /\ status' = IF Reported THEN "exit 1" ELSE "exit 0"
    /\ UNCHANGED <<stopped, flag, rowReports, totalReports>>

\* Only after a first interrupt.
Kill ==
    /\ status \in {"wait", "status"} /\ stopped
    /\ status' = "killed"
    /\ UNCHANGED <<stopped, flag, rowReports, totalReports>>

Next ==
    \/ Stop \/ Raise \/ Finish \/ Exit \/ Kill
    \/ \E w \in Workers : ReportRow(w) \/ ReportTotal(w)

\* A run that is stopped, or ended by a limit, comes to its end.
Fairness == WF_vars((stopped \/ flag) /\ Finish) /\ WF_vars(Exit)

Safety == Init /\ [][Next]_vars

Spec == Safety /\ Fairness
=============================================================================
