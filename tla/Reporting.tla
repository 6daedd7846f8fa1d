------------------------------ MODULE Reporting ------------------------------
(***************************************************************************)
(* What a run tells its user: the counters of the partial and of the total  *)
(* result (pkg/results, pkg/worker), the printer goroutine that shows and    *)
(* resets the partial one each second, and the end of main: GetTotalResults, *)
(* PrintTotalResults, os.Exit (pkg/testrun, main.go:969-971).                *)
(*                                                                         *)
(* What an operation counts is the matter of TestFunction: here a worker     *)
(* counts anything.  A latency stack keeps its samples and hands them on, as *)
(* SampleRecorder promises; where it does not is the matter of LatencyStack. *)
(***************************************************************************)
EXTENDS Integers, FiniteSets, Sequences

CONSTANTS
    MaxConcurrency,  \* bound: goroutines of TestRun.RunTest
    MaxCounted       \* bound: counts of all workers together

ASSUME ReportingAssumption == MaxConcurrency \in Nat /\ MaxCounted \in Nat

\* The counters of a result, in the order in which PrintPartialResult reads and
\* Reset clears them; the last stands for the histograms' samples.
Fields == <<"operations", "rows", "errors", "samples">>
Counters == {Fields[i] : i \in 1 .. 4}
Results == {"partial", "total"}
Workers == 0 .. (MaxConcurrency - 1)
None == [c \in Counters |-> 0]

VARIABLES
    measureLatency, \* -measure-latency: without it there are no stacks
    result,         \* partialResult and totalResult: the counters of each
    stack,          \* samples pushed to each and not yet in its histogram
    at,             \* of each worker: what it adds to the total next, if anything
    waitGroup,
    stopTime,       \* tr.stopTime is set
    printer,        \* "wait", "read", "reset", "check", "last" or "done"
    field,          \* the field the printer reads or clears next
    line,           \* what it has read for the line in the making or just printed
    main,           \* "wait", "flush partial", "flush total", "print" or "exit"
    summary,        \* what PrintTotalResults has shown
    counted,        \* history: the counts begun
    shown,          \* history: the sum of all lines
    missed          \* history: what was cleared and in no line

results == <<result, stack, at, waitGroup>>
printing == <<printer, field, line, shown, missed>>
ending == <<stopTime, main, summary>>
vars == <<measureLatency, results, printing, ending, counted>>

\* NewTestRun with a concurrency of n.
StartWorkers(n) ==
    /\ at = [w \in Workers |-> IF w < n THEN "between" ELSE "stopped"]
    /\ waitGroup = n

InitResults ==
    /\ result = [r \in Results |-> None]
    /\ stack = [r \in Results |-> 0]
    /\ stopTime = FALSE
    /\ printer = "wait" /\ field = 1
    /\ line = None /\ shown = None /\ missed = None
    /\ main = "wait"
    /\ summary = None
    /\ counted = None

Init ==
    /\ measureLatency \in BOOLEAN
    /\ \E n \in 0 .. MaxConcurrency : StartWorkers(n)
    /\ InitResults

-----------------------------------------------------------------------------
(* Worker: each Inc and Record is two adds or two pushes *)

Total == LET sum[i \in 0 .. 4] == IF i = 0 THEN 0 ELSE sum[i - 1] + counted[Fields[i]]
         IN sum[4]

Add(r, c) ==
    IF c = "samples"
    THEN stack' = [stack EXCEPT ![r] = @ + 1] /\ UNCHANGED result
    ELSE result' = [result EXCEPT ![r][c] = @ + 1] /\ UNCHANGED stack

CountPartial(w, c) ==
    /\ at[w] = "between" /\ Total < MaxCounted
    /\ c = "samples" => measureLatency
    /\ Add("partial", c)
    /\ at' = [at EXCEPT ![w] = c]
    /\ counted' = [counted EXCEPT ![c] = @ + 1]
    /\ UNCHANGED <<measureLatency, waitGroup, printing, ending>>

CountTotal(w) ==
    /\ at[w] \in Counters
    /\ Add("total", at[w])
    /\ at' = [at EXCEPT ![w] = "between"]
    /\ UNCHANGED <<measureLatency, waitGroup, printing, ending, counted>>

StopReporting(w) ==
    /\ at[w] = "between"
    /\ at' = [at EXCEPT ![w] = "stopped"]
    /\ waitGroup' = waitGroup - 1
    /\ UNCHANGED <<measureLatency, result, stack, printing, ending, counted>>

\* A Push that finds its buffer full has it emptied into the histogram in the
\* background, one sample after the other.
Record(r) ==
    /\ stack[r] > 0
    /\ stack' = [stack EXCEPT ![r] = @ - 1]
    /\ result' = [result EXCEPT ![r]["samples"] = @ + 1]
    /\ UNCHANGED <<measureLatency, at, waitGroup, printing, ending, counted>>

\* FlushDataToHistogram.  Swap always reports new data (a buffer has a length),
\* so that the result is whether there are stacks.
FlushDataToHistogram(r) ==
    /\ stack' = [stack EXCEPT ![r] = 0]
    /\ result' = [result EXCEPT ![r]["samples"] = @ + stack[r]]

-----------------------------------------------------------------------------
(* The printer, StartPrintingPartialResult *)

BeginLine ==
    /\ printer = "wait"
    /\ FlushDataToHistogram("partial")
    /\ printer' = "read"
    /\ UNCHANGED <<measureLatency, at, waitGroup, field, line, shown, missed,
                   ending, counted>>

\* PrintPartialResult reads the fields without a lock.  With the last of them the
\* line is printed.
ReadField ==
    /\ printer \in {"read", "last"}
    /\ line' = [line EXCEPT ![Fields[field]] = result["partial"][Fields[field]]]
    /\ IF field < 4
       THEN field' = field + 1 /\ UNCHANGED <<printer, shown>>
       ELSE /\ field' = 1
            /\ printer' = IF printer = "read" THEN "reset" ELSE "done"
            /\ shown' = [c \in Counters |-> shown[c] + line'[c]]
    /\ UNCHANGED <<measureLatency, results, missed, ending, counted>>

\* Mutant of ClearField: Reset forgets the errors.
ClearFieldNotErrors ==
    /\ printer = "reset"
    /\ LET c == Fields[field] IN
        /\ missed' = [missed EXCEPT ![c] = @ + result["partial"][c] - line[c]]
        /\ result' = [result EXCEPT !["partial"][c] = IF c = "errors" THEN @ ELSE 0]
        /\ line' = [line EXCEPT ![c] = 0]
    /\ IF field < 4
       THEN field' = field + 1 /\ UNCHANGED printer
       ELSE field' = 1 /\ printer' = "check"
    /\ UNCHANGED <<measureLatency, stack, at, waitGroup, shown, ending, counted>>

\* Reset: what was added since the field was read is in no line.
ClearField ==
    /\ printer = "reset"
    /\ LET c == Fields[field] IN
        /\ missed' = [missed EXCEPT ![c] = @ + result["partial"][c] - line[c]]
        /\ result' = [result EXCEPT !["partial"][c] = 0]
        /\ line' = [line EXCEPT ![c] = 0]
    /\ IF field < 4
       THEN field' = field + 1 /\ UNCHANGED printer
       ELSE field' = 1 /\ printer' = "check"
    /\ UNCHANGED <<measureLatency, stack, at, waitGroup, shown, ending, counted>>

\* Mutant of CheckStop: the goroutine ends without its last line.
CheckStopWithoutLine ==
    /\ printer = "check"
    /\ printer' = IF stopTime THEN "done" ELSE "wait"
    /\ UNCHANGED <<measureLatency, results, field, line, shown, missed, ending, counted>>

CheckStop ==
    /\ printer = "check"
    /\ IF stopTime
       THEN /\ FlushDataToHistogram("partial")
            /\ printer' = IF measureLatency THEN "last" ELSE "done"
       ELSE printer' = "wait" /\ UNCHANGED <<result, stack>>
    /\ UNCHANGED <<measureLatency, at, waitGroup, field, line, shown, missed,
                   ending, counted>>

-----------------------------------------------------------------------------
(* main *)

\* Mutant of WaitForWorkers: the workers are not waited for.
DoNotWait ==
    /\ main = "wait"
    /\ stopTime' = TRUE
    /\ main' = "flush partial"
    /\ UNCHANGED <<measureLatency, results, printing, summary, counted>>

\* GetTotalResults: waitGroup.Wait() and the stop time.
WaitForWorkers ==
    /\ main = "wait" /\ waitGroup = 0
    /\ stopTime' = TRUE
    /\ main' = "flush partial"
    /\ UNCHANGED <<measureLatency, results, printing, summary, counted>>

FlushPartial ==
    /\ main = "flush partial"
    /\ FlushDataToHistogram("partial")
    /\ main' = "flush total"
    /\ UNCHANGED <<measureLatency, at, waitGroup, printing, stopTime, summary, counted>>

FlushTotal ==
    /\ main = "flush total"
    /\ FlushDataToHistogram("total")
    /\ main' = "print"
    /\ UNCHANGED <<measureLatency, at, waitGroup, printing, stopTime, summary, counted>>

\* PrintTotalResults and os.Exit: the printer may be anywhere.
PrintTotalResults ==
    /\ main = "print"
    /\ summary' = result["total"]
    /\ main' = "exit"
    /\ UNCHANGED <<measureLatency, results, printing, stopTime, counted>>

-----------------------------------------------------------------------------

RunNext ==
    \/ \E w \in Workers :
          \/ \E c \in Counters : CountPartial(w, c)
          \/ CountTotal(w) \/ StopReporting(w)
    \/ \E r \in Results : Record(r)
    \/ BeginLine \/ ReadField \/ ClearField \/ CheckStop
    \/ WaitForWorkers \/ FlushPartial \/ FlushTotal \/ PrintTotalResults

Next ==
    \/ main # "exit" /\ RunNext
    \/ main = "exit" /\ UNCHANGED vars

Spec == Init /\ [][Next]_vars

-----------------------------------------------------------------------------
(* Properties *)

\* The type of every variable.
TypeOK ==
    /\ measureLatency \in BOOLEAN
    /\ result \in [Results -> [Counters -> Nat]]
    /\ stack \in [Results -> Nat]
    /\ at \in [Workers -> Counters \cup {"between", "stopped"}]
    /\ waitGroup \in Nat
    /\ stopTime \in BOOLEAN
    /\ printer \in {"wait", "read", "reset", "check", "last", "done"}
    /\ field \in 1 .. 4
    /\ main \in {"wait", "flush partial", "flush total", "print", "exit"}
    /\ {line, summary, counted, shown, missed} \subseteq [Counters -> Nat]

\* The summary shows all that the workers counted and every sample they took,
\* although they add to it in steps of their own and the last samples are still
\* in the stack when they leave (worker.go:40-58, testrun.go:95-101).
SummaryComplete == main = "exit" => summary = counted

\* No count and no sample is in two lines: what a line has shown is cleared before
\* the next one is read, also at the end, where main flushes beside the printer
\* (testrun.go:108-117, result.go:148-173).
ShownOnce == \A c \in Counters : shown[c] <= counted[c]

\* A printer that sees the end has shown everything that did not fall between its
\* reading of a field and the reset of it.  Only with -measure-latency: without it
\* nothing counts as new and the last line is left out (testrun.go:111-115).
LinesComplete ==
    printer = "done" /\ measureLatency =>
        \A c \in Counters : shown[c] + missed[c] = counted[c]
=============================================================================
