--------------------------- MODULE SampleRecorder ---------------------------
(***************************************************************************)
(* What a latency stack promises its users: a sample that has been accepted *)
(* is recorded in the histogram, once, and nothing else is recorded.  When  *)
(* and in which order the samples are recorded is left open.                *)
(***************************************************************************)
EXTENDS Naturals

CONSTANTS Samples,  \* the samples the workers may push
          Values    \* everything the histogram could count

VARIABLES accepted, recorded

vars == <<accepted, recorded>>

Init ==
    /\ accepted = {}
    /\ recorded = [v \in Values |-> 0]

Accept(s) ==
    /\ s \notin accepted
    /\ accepted' = accepted \cup {s}
    /\ UNCHANGED recorded

Record(s) ==
    /\ s \in accepted
    /\ recorded[s] = 0
    /\ recorded' = [recorded EXCEPT ![s] = 1]
    /\ UNCHANGED accepted

Next == \E s \in Samples : Accept(s) \/ Record(s)

Safety == Init /\ [][Next]_vars

Spec == Safety /\ \A s \in Samples : WF_vars(Record(s))
=============================================================================
