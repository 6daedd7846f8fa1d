--------------------------- MODULE StartupProofs ---------------------------
(***************************************************************************)
(* Proofs about Startup and the module Reporting in it, for any number of    *)
(* workers, any flags and any counts: what the lines and the summary show,   *)
(* and which runs that main accepts may panic.                              *)
(***************************************************************************)
EXTENDS Startup, NumberLemmas, FunctionTheorems, FiniteSetTheorems, TLAPS

\* The workers that have not called Done, and those between the two adds of c.
Working == {w \in Workers : at[w] # "stopped"}
Adding(c) == {w \in Workers : at[w] = c}

\* What result r has been given of c.
Got(r, c) == result[r][c] + (IF c = "samples" THEN stack[r] ELSE 0)

\* The types of all variables but the wait group's counter.
Types ==
    /\ measureLatency \in BOOLEAN
    /\ result \in [Results -> [Counters -> Nat]]
    /\ stack \in [Results -> Nat]
    /\ at \in [Workers -> Counters \cup {"between", "stopped"}]
    /\ stopTime \in BOOLEAN
    /\ printer \in {"wait", "read", "reset", "check", "last", "done"}
    /\ field \in 1 .. 4
    /\ main \in {"wait", "flush partial", "flush total", "print", "exit"}
    /\ line \in [Counters -> Nat] /\ summary \in [Counters -> Nat]
    /\ counted \in [Counters -> Nat] /\ shown \in [Counters -> Nat]
    /\ missed \in [Counters -> Nat]

\* main goes on when all workers have called Done.
WaitGroupOK ==
    /\ waitGroup = Cardinality(Working)
    /\ main # "wait" \/ stopTime => Working = {}

\* The total result lags behind by the adds that are under way, and main prints it
\* when its stack is empty for good.
TotalOK ==
    /\ \A c \in Counters : counted[c] = Got("total", c) + Cardinality(Adding(c))
    /\ main \in {"print", "exit"} => stack["total"] = 0
    /\ main = "exit" => summary = result["total"]

\* What the lines have shown or missed and what the partial result holds is what
\* was counted; a line that has been printed is counted twice until it is cleared.
LineOK ==
    /\ \A c \in Counters : line[c] <= result["partial"][c]
    /\ \A c \in Counters :
          shown[c] + missed[c] + Got("partial", c)
              = counted[c] + (IF printer \in {"reset", "done"} THEN line[c] ELSE 0)
    /\ printer = "reset" => \A i \in 1 .. 4 : i < field => line[Fields[i]] = 0
    /\ printer = "check" => field = 1 /\ \A c \in Counters : line[c] = 0

\* Nothing comes to the partial result after the last flush, and the last line shows
\* what is in it.
LastOK ==
    printer \in {"last", "done"} /\ measureLatency =>
        /\ Working = {} /\ stack["partial"] = 0
        /\ \A i \in 1 .. 4 : printer = "done" \/ i < field =>
               line[Fields[i]] = result["partial"][Fields[i]]

IInv == Types /\ WaitGroupOK /\ TotalOK /\ LineOK /\ LastOK

-----------------------------------------------------------------------------
(* Steps of Reporting *)

\* The fields are the counters, each once.
LEMMA FieldsAreCounters ==
    /\ \A i \in 1 .. 4 : Fields[i] \in Counters
    /\ \A c \in Counters : \E i \in 1 .. 4 : Fields[i] = c
    /\ \A i, j \in 1 .. 4 : Fields[i] = Fields[j] => i = j
    /\ Counters = {"operations", "rows", "errors", "samples"}
    /\ "partial" \in Results /\ "total" \in Results
BY DEF Fields, Counters, Results

\* What a flush does to either result.
LEMMA FlushTypes ==
    ASSUME Types, NEW r \in Results, FlushDataToHistogram(r)
    PROVE  /\ result' \in [Results -> [Counters -> Nat]] /\ stack' \in [Results -> Nat]
           /\ stack'[r] = 0
           /\ \A c \in Counters : Got(r, c)' = Got(r, c) /\ result[r][c] <= result'[r][c]
           /\ \A q \in Results \ {r} : result'[q] = result[q] /\ stack'[q] = stack[q]
<1>1. result \in [Results -> [Counters -> Nat]] /\ stack \in [Results -> Nat]
  BY DEF Types
<1>2. "samples" \in Counters
  BY FieldsAreCounters
<1>3. stack[r] \in Nat /\ result[r] \in [Counters -> Nat]
  BY <1>1
<1>4. result[r]["samples"] + stack[r] \in Nat
  BY <1>2, <1>3
<1>5. /\ stack' = [stack EXCEPT ![r] = 0]
      /\ result' = [result EXCEPT ![r] = [result[r] EXCEPT !["samples"] = result[r]["samples"] + stack[r]]]
  BY DEF FlushDataToHistogram
<1>6. result'[r] = [result[r] EXCEPT !["samples"] = result[r]["samples"] + stack[r]]
  BY <1>1, <1>5
<1>7. result'[r] \in [Counters -> Nat]
  BY <1>3, <1>4, <1>6
<1>8. stack' \in [Results -> Nat] /\ stack'[r] = 0
  BY <1>1, <1>5
<1>9. result' \in [Results -> [Counters -> Nat]]
  BY <1>1, <1>5, <1>6, <1>7
<1>10. ASSUME NEW c \in Counters
       PROVE  Got(r, c)' = Got(r, c) /\ result[r][c] <= result'[r][c]
  <2>1. result[r][c] \in Nat
    BY <1>3
  <2>2. CASE c = "samples"
    <3>1. result'[r][c] = result[r][c] + stack[r]
      BY <1>2, <1>3, <1>6, <2>2
    <3> QED BY <1>3, <1>8, <2>1, <2>2, <3>1 DEF Got
  <2>3. CASE c # "samples"
    <3>1. result'[r][c] = result[r][c]
      BY <1>3, <1>6, <2>3
    <3> QED BY <2>1, <2>3, <3>1 DEF Got
  <2> QED BY <2>2, <2>3
<1> QED BY <1>1, <1>5, <1>8, <1>9, <1>10

\* What an add does, to result r and to counter c only.
LEMMA AddTypes ==
    ASSUME Types, NEW r \in Results, NEW c \in Counters, Add(r, c)
    PROVE  /\ result' \in [Results -> [Counters -> Nat]] /\ stack' \in [Results -> Nat]
           /\ Got(r, c)' = Got(r, c) + 1
           /\ \A d \in Counters \ {c} : Got(r, d)' = Got(r, d)
           /\ \A d \in Counters : result[r][d] <= result'[r][d]
           /\ \A q \in Results \ {r} : result'[q] = result[q] /\ stack'[q] = stack[q]
<1>1. result \in [Results -> [Counters -> Nat]] /\ stack \in [Results -> Nat]
  BY DEF Types
<1>2. stack[r] \in Nat /\ result[r] \in [Counters -> Nat] /\ result[r][c] \in Nat
  BY <1>1
<1>3. CASE c = "samples"
  <2>1. stack' = [stack EXCEPT ![r] = stack[r] + 1] /\ result' = result
    BY <1>3 DEF Add
  <2>2. stack' \in [Results -> Nat] /\ stack'[r] = stack[r] + 1
    BY <1>1, <1>2, <2>1
  <2>3. Got(r, c)' = Got(r, c) + 1
    BY <1>2, <1>3, <2>1, <2>2 DEF Got
  <2>4. \A d \in Counters \ {c} : Got(r, d)' = Got(r, d)
    BY <1>3, <2>1 DEF Got
  <2>5. \A d \in Counters : result[r][d] <= result'[r][d]
    BY <1>2, <2>1
  <2> QED BY <1>1, <2>1, <2>2, <2>3, <2>4, <2>5
<1>4. CASE c # "samples"
  <2>1. /\ result' = [result EXCEPT ![r] = [result[r] EXCEPT ![c] = result[r][c] + 1]]
        /\ stack' = stack
    BY <1>4 DEF Add
  <2>2. result'[r] = [result[r] EXCEPT ![c] = result[r][c] + 1]
    BY <1>1, <2>1
  <2>3. result'[r] \in [Counters -> Nat]
    BY <1>2, <2>2
  <2>4. result' \in [Results -> [Counters -> Nat]]
    BY <1>1, <2>1, <2>2, <2>3
  <2>5. result'[r][c] = result[r][c] + 1
    BY <1>2, <2>2
  <2>6. \A d \in Counters \ {c} : result'[r][d] = result[r][d]
    BY <1>2, <2>2
  <2>7. Got(r, c)' = Got(r, c) + 1
    BY <1>2, <1>4, <2>5 DEF Got
  <2>8. \A d \in Counters \ {c} : Got(r, d)' = Got(r, d)
    BY <2>1, <2>6 DEF Got
  <2>9. \A d \in Counters : result[r][d] <= result'[r][d]
    BY <1>2, <2>5, <2>6
  <2> QED BY <1>1, <2>1, <2>4, <2>7, <2>8, <2>9
<1> QED BY <1>3, <1>4

\* A background flush moves a sample within its result.
LEMMA RecordTypes ==
    ASSUME Types, NEW r \in Results, Record(r)
    PROVE  /\ result' \in [Results -> [Counters -> Nat]] /\ stack' \in [Results -> Nat]
           /\ stack[r] > 0
           /\ \A c \in Counters : Got(r, c)' = Got(r, c) /\ result[r][c] <= result'[r][c]
           /\ \A q \in Results \ {r} : result'[q] = result[q] /\ stack'[q] = stack[q]
<1>1. result \in [Results -> [Counters -> Nat]] /\ stack \in [Results -> Nat]
  BY DEF Types
<1>2. "samples" \in Counters
  BY FieldsAreCounters
<1>3. stack[r] \in Nat /\ result[r] \in [Counters -> Nat]
  BY <1>1
<1>4. /\ stack[r] > 0 /\ stack' = [stack EXCEPT ![r] = stack[r] - 1]
      /\ result' = [result EXCEPT ![r] = [result[r] EXCEPT !["samples"] = result[r]["samples"] + 1]]
  BY DEF Record
<1>5. result'[r] = [result[r] EXCEPT !["samples"] = result[r]["samples"] + 1]
  BY <1>1, <1>4
<1>6. result[r]["samples"] + 1 \in Nat /\ stack[r] - 1 \in Nat
  BY <1>2, <1>3, <1>4
<1>7. result'[r] \in [Counters -> Nat]
  BY <1>3, <1>5, <1>6
<1>8. stack' \in [Results -> Nat] /\ stack'[r] = stack[r] - 1
  BY <1>1, <1>4, <1>6
<1>9. result' \in [Results -> [Counters -> Nat]]
  BY <1>1, <1>4, <1>5, <1>7
<1>10. ASSUME NEW c \in Counters
       PROVE  Got(r, c)' = Got(r, c) /\ result[r][c] <= result'[r][c]
  <2>1. result[r][c] \in Nat
    BY <1>3
  <2>2. CASE c = "samples"
    <3>1. result'[r][c] = result[r][c] + 1
      BY <1>2, <1>3, <1>5, <2>2
    <3> QED BY <1>3, <1>8, <2>1, <2>2, <3>1 DEF Got
  <2>3. CASE c # "samples"
    <3>1. result'[r][c] = result[r][c]
      BY <1>3, <1>5, <2>3
    <3> QED BY <2>1, <2>3, <3>1 DEF Got
  <2> QED BY <2>2, <2>3
<1> QED BY <1>1, <1>4, <1>8, <1>9, <1>10

\* The types are kept.
LEMMA TypesStep ==
    ASSUME Types, LineOK, RunNext
    PROVE  Types'
<1>1. /\ result \in [Results -> [Counters -> Nat]] /\ stack \in [Results -> Nat]
      /\ at \in [Workers -> Counters \cup {"between", "stopped"}]
      /\ counted \in [Counters -> Nat] /\ line \in [Counters -> Nat]
      /\ shown \in [Counters -> Nat] /\ missed \in [Counters -> Nat]
      /\ summary \in [Counters -> Nat] /\ field \in 1 .. 4
  BY DEF Types
<1>2. ASSUME NEW w \in Workers, NEW c \in Counters, CountPartial(w, c)
      PROVE  Types'
  <2>1. Add("partial", c)
    BY <1>2 DEF CountPartial
  <2>2. result' \in [Results -> [Counters -> Nat]] /\ stack' \in [Results -> Nat]
    BY <2>1, AddTypes, FieldsAreCounters
  <2>3. counted[c] + 1 \in Nat
    BY <1>1
  <2>4. counted' \in [Counters -> Nat]
    BY <1>1, <1>2, <2>3 DEF CountPartial
  <2>5. at' \in [Workers -> Counters \cup {"between", "stopped"}]
    BY <1>1, <1>2 DEF CountPartial
  <2> QED BY <1>2, <2>2, <2>4, <2>5 DEF Types, CountPartial, printing, ending
<1>3. ASSUME NEW w \in Workers, CountTotal(w)
      PROVE  Types'
  <2>1. Add("total", at[w]) /\ at[w] \in Counters
    BY <1>3 DEF CountTotal
  <2>2. result' \in [Results -> [Counters -> Nat]] /\ stack' \in [Results -> Nat]
    BY <2>1, AddTypes, FieldsAreCounters
  <2>3. at' \in [Workers -> Counters \cup {"between", "stopped"}]
    BY <1>1, <1>3 DEF CountTotal
  <2> QED BY <1>3, <2>2, <2>3 DEF Types, CountTotal, printing, ending
<1>4. ASSUME NEW w \in Workers, StopReporting(w)
      PROVE  Types'
  <2>1. at' \in [Workers -> Counters \cup {"between", "stopped"}]
    BY <1>1, <1>4 DEF StopReporting
  <2> QED BY <1>4, <2>1 DEF Types, StopReporting, printing, ending
<1>5. ASSUME NEW r \in Results, Record(r)
      PROVE  Types'
  <2>1. result' \in [Results -> [Counters -> Nat]] /\ stack' \in [Results -> Nat]
    BY <1>5, RecordTypes
  <2> QED BY <1>5, <2>1 DEF Types, Record, printing, ending
<1>6. CASE BeginLine
  <2>1. FlushDataToHistogram("partial")
    BY <1>6 DEF BeginLine
  <2>2. result' \in [Results -> [Counters -> Nat]] /\ stack' \in [Results -> Nat]
    BY <2>1, FlushTypes, FieldsAreCounters
  <2> QED BY <1>6, <2>2 DEF Types, BeginLine, ending
<1>7. CASE ReadField
  <2>1. Fields[field] \in Counters /\ "partial" \in Results
    BY <1>1, FieldsAreCounters
  <2>2. result["partial"][Fields[field]] \in Nat
    BY <1>1, <2>1
  <2>3. line' \in [Counters -> Nat]
    BY <1>1, <1>7, <2>2 DEF ReadField
  <2>4. [c \in Counters |-> shown[c] + line'[c]] \in [Counters -> Nat]
    BY <1>1, <2>3
  <2>5. /\ shown' \in [Counters -> Nat] /\ field' \in 1 .. 4
        /\ printer' \in {"wait", "read", "reset", "check", "last", "done"}
    <3>1. CASE field < 4
      BY <1>1, <1>7, <3>1 DEF ReadField
    <3>2. CASE ~(field < 4)
      BY <1>1, <1>7, <2>4, <3>2 DEF ReadField
    <3> QED BY <3>1, <3>2
  <2> QED BY <1>7, <2>3, <2>5 DEF Types, ReadField, results, ending
<1>8. CASE ClearField
  <2>1. Fields[field] \in Counters /\ "partial" \in Results
    BY <1>1, FieldsAreCounters
  <2> DEFINE f == Fields[field]
  <2>2. result' = [result EXCEPT !["partial"] = [result["partial"] EXCEPT ![f] = 0]]
    BY <1>8 DEF ClearField
  <2>3. [result["partial"] EXCEPT ![f] = 0] \in [Counters -> Nat]
    BY <1>1, <2>1
  <2>4. result' \in [Results -> [Counters -> Nat]]
    BY <1>1, <2>1, <2>2, <2>3
  <2>5. line' \in [Counters -> Nat]
    BY <1>1, <1>8 DEF ClearField
  <2>6. result["partial"][f] \in Nat /\ line[f] \in Nat /\ missed[f] \in Nat
    BY <1>1, <2>1
  <2>7. line[f] <= result["partial"][f]
    BY <2>1 DEF LineOK
  <2>8. missed[f] + result["partial"][f] - line[f] \in Nat
    BY <2>6, <2>7
  <2>9. missed' = [missed EXCEPT ![f] = missed[f] + result["partial"][f] - line[f]]
    BY <1>8 DEF ClearField
  <2>10. missed' \in [Counters -> Nat]
    BY <1>1, <2>8, <2>9
  <2>11. field' \in 1 .. 4 /\ printer' \in {"reset", "check"}
    <3>1. CASE field < 4
      BY <1>1, <1>8, <3>1 DEF ClearField
    <3>2. CASE ~(field < 4)
      BY <1>1, <1>8, <3>2 DEF ClearField
    <3> QED BY <3>1, <3>2
  <2> QED BY <1>8, <2>4, <2>5, <2>10, <2>11 DEF Types, ClearField, ending
<1>9. CASE CheckStop
  <2>1. CASE stopTime
    <3>1. FlushDataToHistogram("partial")
      BY <1>9, <2>1 DEF CheckStop
    <3>2. result' \in [Results -> [Counters -> Nat]] /\ stack' \in [Results -> Nat]
      BY <3>1, FlushTypes, FieldsAreCounters
    <3> QED BY <1>9, <2>1, <3>2 DEF Types, CheckStop, ending
  <2>2. CASE ~stopTime
    BY <1>9, <2>2 DEF Types, CheckStop, ending
  <2> QED BY <2>1, <2>2
<1>10. CASE WaitForWorkers
  BY <1>10 DEF Types, WaitForWorkers, results, printing
<1>11. CASE FlushPartial
  <2>1. FlushDataToHistogram("partial")
    BY <1>11 DEF FlushPartial
  <2>2. result' \in [Results -> [Counters -> Nat]] /\ stack' \in [Results -> Nat]
    BY <2>1, FlushTypes, FieldsAreCounters
  <2> QED BY <1>11, <2>2 DEF Types, FlushPartial, printing
<1>12. CASE FlushTotal
  <2>1. FlushDataToHistogram("total")
    BY <1>12 DEF FlushTotal
  <2>2. result' \in [Results -> [Counters -> Nat]] /\ stack' \in [Results -> Nat]
    BY <2>1, FlushTypes, FieldsAreCounters
  <2> QED BY <1>12, <2>2 DEF Types, FlushTotal, printing
<1>13. CASE PrintTotalResults
  <2>1. result["total"] \in [Counters -> Nat]
    BY <1>1, FieldsAreCounters
  <2> QED BY <1>13, <2>1 DEF Types, PrintTotalResults, results, printing
<1> QED
  BY <1>2, <1>3, <1>4, <1>5, <1>6, <1>7, <1>8, <1>9, <1>10, <1>11, <1>12, <1>13
  DEF RunNext

\* There are finitely many workers.
LEMMA FiniteWorkers ==
    ASSUME NEW S \in SUBSET Workers
    PROVE  IsFiniteSet(S) /\ Cardinality(S) \in Nat
<1>1. MaxConcurrency - 1 \in Int
  BY ReportingAssumption
<1>2. IsFiniteSet(Workers)
  BY <1>1, FS_Interval DEF Workers
<1>3. IsFiniteSet(S)
  BY <1>2, FS_Subset
<1> QED BY <1>3, FS_CardinalityType

\* The wait group counts the workers that go on, and main waits for it.
LEMMA WaitGroupStep ==
    ASSUME Types, WaitGroupOK, RunNext
    PROVE  WaitGroupOK'
<1>1. at \in [Workers -> Counters \cup {"between", "stopped"}]
  BY DEF Types
<1>2. ~("between" \in {"stopped"}) /\ ~("stopped" \in Counters)
  BY FieldsAreCounters
<1>3. ASSUME NEW w \in Workers, NEW c \in Counters, CountPartial(w, c) \/ CountTotal(w)
      PROVE  WaitGroupOK'
  <2>1. at[w] # "stopped"
    BY <1>2, <1>3 DEF CountPartial, CountTotal
  <2>2. PICK v \in Counters \cup {"between"} : at' = [at EXCEPT ![w] = v]
    BY <1>3 DEF CountPartial, CountTotal
  <2>3. Working' = Working
    BY <1>1, <1>2, <2>1, <2>2 DEF Working
  <2>4. waitGroup' = waitGroup /\ main' = main /\ stopTime' = stopTime
    BY <1>3 DEF CountPartial, CountTotal, ending
  <2> QED BY <2>3, <2>4 DEF WaitGroupOK
<1>4. ASSUME NEW w \in Workers, StopReporting(w)
      PROVE  WaitGroupOK'
  <2>1. w \in Working
    BY <1>4 DEF StopReporting, Working
  <2>2. Working' = Working \ {w}
    BY <1>1, <1>4 DEF StopReporting, Working
  <2>3. Working \in SUBSET Workers
    BY DEF Working
  <2>4. Cardinality(Working') = Cardinality(Working) - 1
    BY <2>1, <2>2, <2>3, FiniteWorkers, FS_RemoveElement
  <2>5. waitGroup' = waitGroup - 1 /\ main' = main /\ stopTime' = stopTime
    BY <1>4 DEF StopReporting, ending
  <2>6. waitGroup' = Cardinality(Working')
    BY <2>4, <2>5 DEF WaitGroupOK
  <2>7. ~(main # "wait" \/ stopTime)
    BY <2>1 DEF WaitGroupOK
  <2>8. ~(main' # "wait" \/ stopTime')
    BY <2>5, <2>7
  <2> QED BY <2>6, <2>8 DEF WaitGroupOK
<1>5. CASE WaitForWorkers
  <2>1. Cardinality(Working) = 0
    BY <1>5 DEF WaitForWorkers, WaitGroupOK
  <2>2. Working = {}
    <3>1. Working \in SUBSET Workers
      BY DEF Working
    <3> QED BY <2>1, <3>1, FiniteWorkers, FS_EmptySet
  <2>3. at' = at /\ waitGroup' = waitGroup
    BY <1>5 DEF WaitForWorkers, results
  <2>4. Working' = Working
    BY <2>3 DEF Working
  <2> QED BY <2>2, <2>3, <2>4 DEF WaitGroupOK
<1>6. CASE \/ \E r \in Results : Record(r)
           \/ BeginLine \/ ReadField \/ ClearField \/ CheckStop
           \/ FlushPartial \/ FlushTotal \/ PrintTotalResults
  <2>1. at' = at /\ waitGroup' = waitGroup /\ stopTime' = stopTime
    BY <1>6 DEF Record, BeginLine, ReadField, ClearField, CheckStop, FlushPartial,
                FlushTotal, PrintTotalResults, results, printing, ending
  <2>2. main' # "wait" => main # "wait"
    BY <1>6 DEF Record, BeginLine, ReadField, ClearField, CheckStop, FlushPartial,
                FlushTotal, PrintTotalResults, results, printing, ending
  <2>3. Working' = Working
    BY <2>1 DEF Working
  <2> QED BY <2>1, <2>2, <2>3 DEF WaitGroupOK
<1> QED
  BY <1>3, <1>4, <1>5, <1>6, FieldsAreCounters DEF RunNext

\* The total result lacks what the workers have still to add to it.
LEMMA TotalStep ==
    ASSUME Types, WaitGroupOK, TotalOK, RunNext
    PROVE  TotalOK'
<1>1. /\ at \in [Workers -> Counters \cup {"between", "stopped"}]
      /\ result \in [Results -> [Counters -> Nat]] /\ stack \in [Results -> Nat]
      /\ counted \in [Counters -> Nat]
  BY DEF Types
<1>2. "stopped" \notin Counters /\ "between" \notin Counters
  BY FieldsAreCounters
<1>3. \A c \in Counters : Got("total", c) \in Nat
  <2> TAKE c \in Counters
  <2>1. result["total"][c] \in Nat /\ stack["total"] \in Nat
    BY <1>1, FieldsAreCounters
  <2> QED BY <2>1 DEF Got
<1>4. ASSUME NEW w \in Workers, at[w] # "stopped"
      PROVE  main = "wait"
  BY <1>4 DEF WaitGroupOK, Working
<1>5. ASSUME NEW w \in Workers, NEW c \in Counters, CountPartial(w, c)
      PROVE  TotalOK'
  <2>1. at[w] = "between" /\ main = "wait" /\ main' = main
    <3>1. at[w] = "between" /\ main' = main
      BY <1>5 DEF CountPartial, ending
    <3> QED BY <1>4, <3>1
  <2>2. at' = [at EXCEPT ![w] = c] /\ counted' = [counted EXCEPT ![c] = counted[c] + 1]
    BY <1>5 DEF CountPartial
  <2>3. \A d \in Counters : Got("total", d)' = Got("total", d)
    <3>1. Add("partial", c)
      BY <1>5 DEF CountPartial
    <3>2. result'["total"] = result["total"] /\ stack'["total"] = stack["total"]
      BY <3>1, AddTypes, FieldsAreCounters
    <3> QED BY <3>2 DEF Got
  <2>4. Adding(c)' = Adding(c) \cup {w} /\ w \notin Adding(c)
    BY <1>1, <1>2, <2>1, <2>2 DEF Adding
  <2>5. Cardinality(Adding(c)') = Cardinality(Adding(c)) + 1
    <3>1. Adding(c) \in SUBSET Workers
      BY DEF Adding
    <3> QED BY <2>4, <3>1, FiniteWorkers, FS_AddElement
  <2>6. \A d \in Counters \ {c} : Adding(d)' = Adding(d)
    BY <1>1, <1>2, <2>1, <2>2 DEF Adding
  <2>7. ASSUME NEW d \in Counters
        PROVE  counted'[d] = Got("total", d)' + Cardinality(Adding(d)')
    <3>1. /\ counted[d] = Got("total", d) + Cardinality(Adding(d))
          /\ Got("total", d) \in Nat /\ Cardinality(Adding(d)) \in Nat
      <4>1. Adding(d) \in SUBSET Workers
        BY DEF Adding
      <4> QED BY <1>3, <4>1, FiniteWorkers DEF TotalOK
    <3>2. CASE d = c
      <4>1. counted'[d] = counted[d] + 1
        BY <1>1, <2>2, <3>2
      <4>2. Cardinality(Adding(d)') = Cardinality(Adding(d)) + 1
        BY <2>5, <3>2
      <4> QED BY <2>3, <3>1, <4>1, <4>2
    <3>3. CASE d # c
      <4>1. counted'[d] = counted[d]
        BY <1>1, <2>2, <3>3
      <4>2. Cardinality(Adding(d)') = Cardinality(Adding(d))
        BY <2>6, <3>3
      <4> QED BY <2>3, <3>1, <4>1, <4>2
    <3> QED BY <3>2, <3>3
  <2>8. main' = "wait"
    BY <2>1
  <2> QED BY <2>7, <2>8 DEF TotalOK
<1>6. ASSUME NEW w \in Workers, CountTotal(w)
      PROVE  TotalOK'
  <2> PICK c \in Counters : at[w] = c
    BY <1>6 DEF CountTotal
  <2>1. at[w] = c /\ main = "wait" /\ main' = main /\ counted' = counted
    <3>1. main' = main /\ counted' = counted
      BY <1>6 DEF CountTotal, ending
    <3> QED BY <1>2, <1>4, <3>1
  <2>2. at' = [at EXCEPT ![w] = "between"] /\ Add("total", c)
    BY <1>6, <2>1 DEF CountTotal
  <2>3. /\ Got("total", c)' = Got("total", c) + 1
        /\ \A d \in Counters \ {c} : Got("total", d)' = Got("total", d)
    BY <2>1, <2>2, AddTypes, FieldsAreCounters
  <2>4. Adding(c)' = Adding(c) \ {w} /\ w \in Adding(c)
    BY <1>1, <1>2, <2>1, <2>2 DEF Adding
  <2>5. Cardinality(Adding(c)') = Cardinality(Adding(c)) - 1
    <3>1. Adding(c) \in SUBSET Workers
      BY DEF Adding
    <3> QED BY <2>4, <3>1, FiniteWorkers, FS_RemoveElement
  <2>6. \A d \in Counters \ {c} : Adding(d)' = Adding(d)
    BY <1>1, <1>2, <2>1, <2>2 DEF Adding
  <2>7. ASSUME NEW d \in Counters
        PROVE  counted'[d] = Got("total", d)' + Cardinality(Adding(d)')
    <3>1. /\ counted[d] = Got("total", d) + Cardinality(Adding(d))
          /\ Got("total", d) \in Nat /\ Cardinality(Adding(d)) \in Nat
      <4>1. Adding(d) \in SUBSET Workers
        BY DEF Adding
      <4> QED BY <1>3, <4>1, FiniteWorkers DEF TotalOK
    <3>2. CASE d = c
      BY <2>1, <2>3, <2>5, <3>1, <3>2
    <3>3. CASE d # c
      BY <2>1, <2>3, <2>6, <3>1, <3>3
    <3> QED BY <3>2, <3>3
  <2>8. main' = "wait"
    BY <2>1
  <2> QED BY <2>7, <2>8 DEF TotalOK
<1>7. ASSUME NEW w \in Workers, StopReporting(w)
      PROVE  TotalOK'
  <2>1. /\ at[w] = "between" /\ at' = [at EXCEPT ![w] = "stopped"]
        /\ main' = main /\ counted' = counted /\ result' = result /\ stack' = stack
    BY <1>7 DEF StopReporting, ending
  <2>2. main = "wait"
    BY <1>4, <2>1
  <2>3. \A d \in Counters : Adding(d)' = Adding(d)
    BY <1>1, <1>2, <2>1 DEF Adding
  <2>4. \A d \in Counters : Got("total", d)' = Got("total", d)
    BY <2>1 DEF Got
  <2> QED BY <2>1, <2>2, <2>3, <2>4 DEF TotalOK
<1>8. ASSUME at' = at, counted' = counted, main' = main,
             \A d \in Counters : Got("total", d)' = Got("total", d),
             main \in {"print", "exit"} =>
                 stack'["total"] = stack["total"] /\ result'["total"] = result["total"],
             summary' = summary
      PROVE  TotalOK'
  <2>1. \A d \in Counters : Adding(d)' = Adding(d)
    BY <1>8 DEF Adding
  <2> QED BY <1>8, <2>1 DEF TotalOK
<1>9. ASSUME NEW r \in Results, Record(r)
      PROVE  TotalOK'
  <2>1. /\ at' = at /\ counted' = counted /\ main' = main /\ summary' = summary
    BY <1>9 DEF Record, ending
  <2>2. CASE r = "partial"
    <3>1. result'["total"] = result["total"] /\ stack'["total"] = stack["total"]
      BY <1>9, <2>2, RecordTypes, FieldsAreCounters
    <3>2. \A d \in Counters : Got("total", d)' = Got("total", d)
      BY <3>1 DEF Got
    <3> QED BY <1>8, <2>1, <3>1, <3>2
  <2>3. CASE r = "total"
    <3>1. stack["total"] > 0 /\ \A d \in Counters : Got("total", d)' = Got("total", d)
      BY <1>9, <2>3, RecordTypes
    <3>2. main \notin {"print", "exit"}
      BY <3>1 DEF TotalOK
    <3> QED BY <1>8, <2>1, <3>1, <3>2
  <2> QED BY <2>2, <2>3 DEF Results
<1>10. CASE FlushTotal
  <2>1. /\ FlushDataToHistogram("total") /\ at' = at /\ counted' = counted
        /\ main' = "print"
    BY <1>10 DEF FlushTotal
  <2>2. stack'["total"] = 0 /\ \A d \in Counters : Got("total", d)' = Got("total", d)
    BY <2>1, FlushTypes, FieldsAreCounters
  <2>3. \A d \in Counters : Adding(d)' = Adding(d)
    BY <2>1 DEF Adding
  <2> QED BY <2>1, <2>2, <2>3 DEF TotalOK
<1>11. CASE PrintTotalResults
  <2>1. /\ main = "print" /\ at' = at /\ counted' = counted
        /\ result' = result /\ stack' = stack /\ summary' = result["total"]
    BY <1>11 DEF PrintTotalResults, results
  <2>2. \A d \in Counters : Adding(d)' = Adding(d)
    BY <2>1 DEF Adding
  <2>3. \A d \in Counters : Got("total", d)' = Got("total", d)
    BY <2>1 DEF Got
  <2>4. stack'["total"] = 0 /\ summary' = result'["total"]
    BY <2>1 DEF TotalOK
  <2> QED BY <2>1, <2>2, <2>3, <2>4 DEF TotalOK
<1>12. ASSUME result'["total"] = result["total"], stack'["total"] = stack["total"],
              at' = at, counted' = counted, summary' = summary,
              main' = main \/ main' \notin {"print", "exit"}
       PROVE  TotalOK'
  <2>1. \A d \in Counters : Got("total", d)' = Got("total", d)
    BY <1>12 DEF Got
  <2>2. \A d \in Counters : Adding(d)' = Adding(d)
    BY <1>12 DEF Adding
  <2> QED BY <1>12, <2>1, <2>2 DEF TotalOK
<1>13. ASSUME BeginLine \/ FlushPartial \/ CheckStop
       PROVE  result'["total"] = result["total"] /\ stack'["total"] = stack["total"]
  <2>1. CASE FlushDataToHistogram("partial")
    BY <2>1, FlushTypes, FieldsAreCounters
  <2>2. CASE UNCHANGED <<result, stack>>
    BY <2>2
  <2> QED BY <1>13, <2>1, <2>2 DEF BeginLine, FlushPartial, CheckStop
<1>14. CASE BeginLine \/ CheckStop
  <2>1. at' = at /\ counted' = counted /\ summary' = summary /\ main' = main
    BY <1>14 DEF BeginLine, CheckStop, ending
  <2> QED BY <1>12, <1>13, <1>14, <2>1
<1>15. CASE FlushPartial
  <2>1. at' = at /\ counted' = counted /\ summary' = summary /\ main' = "flush total"
    BY <1>15 DEF FlushPartial
  <2> QED BY <1>12, <1>13, <1>15, <2>1
<1>16. CASE ReadField \/ WaitForWorkers
  <2>1. /\ result' = result /\ stack' = stack /\ at' = at /\ counted' = counted
        /\ summary' = summary /\ (main' = main \/ main' = "flush partial")
    BY <1>16 DEF ReadField, WaitForWorkers, results, ending
  <2> QED BY <1>12, <2>1
<1>17. CASE ClearField
  <2>1. /\ result' = [result EXCEPT !["partial"] =
                         [result["partial"] EXCEPT ![Fields[field]] = 0]]
        /\ stack' = stack /\ at' = at /\ counted' = counted
        /\ summary' = summary /\ main' = main
    BY <1>17 DEF ClearField, ending
  <2>2. result'["total"] = result["total"]
    BY <1>1, <2>1, FieldsAreCounters
  <2> QED BY <1>12, <2>1, <2>2
<1> QED
  BY <1>5, <1>6, <1>7, <1>9, <1>10, <1>11, <1>14, <1>15, <1>16, <1>17 DEF RunNext

\* What the partial result is given and what the lines take from it.
LEMMA LineStep ==
    ASSUME Types, LineOK, RunNext
    PROVE  LineOK'
<1>1. /\ result \in [Results -> [Counters -> Nat]] /\ stack \in [Results -> Nat]
      /\ counted \in [Counters -> Nat] /\ line \in [Counters -> Nat]
      /\ shown \in [Counters -> Nat] /\ missed \in [Counters -> Nat]
      /\ field \in 1 .. 4 /\ "partial" \in Results /\ "total" \in Results
  BY FieldsAreCounters DEF Types
<1>2. ASSUME NEW c \in Counters
      PROVE  /\ result["partial"][c] \in Nat /\ stack["partial"] \in Nat
             /\ Got("partial", c) \in Nat /\ counted[c] \in Nat /\ line[c] \in Nat
             /\ shown[c] \in Nat /\ missed[c] \in Nat
             /\ line[c] <= result["partial"][c]
             /\ shown[c] + missed[c] + Got("partial", c)
                   = counted[c] + (IF printer \in {"reset", "done"} THEN line[c] ELSE 0)
  <2>1. /\ result["partial"][c] \in Nat /\ stack["partial"] \in Nat /\ counted[c] \in Nat
        /\ line[c] \in Nat /\ shown[c] \in Nat /\ missed[c] \in Nat
    BY <1>1
  <2>2. Got("partial", c) \in Nat
    BY <2>1 DEF Got
  <2> QED BY <2>1, <2>2 DEF LineOK
\* A step of a worker, of main or of a background flush.
<1>3. ASSUME UNCHANGED <<printer, field, line, shown, missed>>,
             \A c \in Counters :
                 /\ result["partial"][c] <= result'["partial"][c]
                 /\ Got("partial", c)' - Got("partial", c) = counted'[c] - counted[c]
                 /\ result'["partial"][c] \in Nat
                 /\ Got("partial", c)' \in Nat /\ counted'[c] \in Nat
      PROVE  LineOK'
  <2>1. ASSUME NEW c \in Counters
        PROVE  /\ line'[c] <= result'["partial"][c]
               /\ shown'[c] + missed'[c] + Got("partial", c)'
                   = counted'[c] + (IF printer' \in {"reset", "done"} THEN line'[c] ELSE 0)
    <3>1. line'[c] = line[c] /\ shown'[c] = shown[c] /\ missed'[c] = missed[c]
          /\ printer' = printer
      BY <1>3
    <3>2. /\ result["partial"][c] <= result'["partial"][c] /\ result'["partial"][c] \in Nat
          /\ Got("partial", c)' - Got("partial", c) = counted'[c] - counted[c]
          /\ Got("partial", c)' \in Nat /\ counted'[c] \in Nat
      BY <1>3
    <3>3. /\ Got("partial", c) \in Nat /\ counted[c] \in Nat /\ line[c] \in Nat
          /\ result["partial"][c] \in Nat /\ line[c] <= result["partial"][c]
          /\ shown[c] \in Nat /\ missed[c] \in Nat
      BY <1>2
    <3>4. line'[c] <= result'["partial"][c]
      BY <3>1, <3>2, <3>3
    <3>5. CASE printer \in {"reset", "done"}
      <4>1. shown[c] + missed[c] + Got("partial", c) = counted[c] + line[c]
        BY <1>2, <3>5
      <4>2. shown'[c] + missed'[c] + Got("partial", c)' = counted'[c] + line'[c]
        BY <3>1, <3>2, <3>3, <4>1
      <4> QED BY <3>1, <3>4, <3>5, <4>2
    <3>6. CASE printer \notin {"reset", "done"}
      <4>1. shown[c] + missed[c] + Got("partial", c) = counted[c]
        BY <1>2, <3>6
      <4>2. shown'[c] + missed'[c] + Got("partial", c)' = counted'[c]
        BY <3>1, <3>2, <3>3, <4>1
      <4> QED BY <3>1, <3>2, <3>4, <3>6, <4>2
    <3> QED BY <3>5, <3>6
  <2>2. /\ printer' = "reset" => \A i \in 1 .. 4 : i < field' => line'[Fields[i]] = 0
        /\ printer' = "check" => field' = 1 /\ \A c \in Counters : line'[c] = 0
    BY <1>3 DEF LineOK
  <2> QED BY <2>1, <2>2 DEF LineOK
\* A flush, or a step that leaves the partial result alone.
<1>4. ASSUME FlushDataToHistogram("partial")
      PROVE  \A c \in Counters :
                 /\ result["partial"][c] <= result'["partial"][c]
                 /\ Got("partial", c)' = Got("partial", c)
                 /\ result'["partial"][c] \in Nat /\ Got("partial", c)' \in Nat
  <2> TAKE c \in Counters
  <2>1. /\ result' \in [Results -> [Counters -> Nat]]
        /\ result["partial"][c] <= result'["partial"][c]
        /\ Got("partial", c)' = Got("partial", c)
    BY <1>1, <1>4, FlushTypes
  <2>2. result'["partial"][c] \in Nat
    BY <1>1, <2>1
  <2> QED BY <1>2, <2>1, <2>2
<1>5. ASSUME result'["partial"] = result["partial"], stack'["partial"] = stack["partial"]
      PROVE  \A c \in Counters :
                 /\ result["partial"][c] <= result'["partial"][c]
                 /\ Got("partial", c)' = Got("partial", c)
                 /\ result'["partial"][c] \in Nat /\ Got("partial", c)' \in Nat
  <2> TAKE c \in Counters
  <2>1. Got("partial", c)' = Got("partial", c)
    BY <1>5 DEF Got
  <2> QED BY <1>2, <1>5, <2>1
<1>6. ASSUME UNCHANGED <<printer, field, line, shown, missed, counted>>,
             \A c \in Counters :
                 /\ result["partial"][c] <= result'["partial"][c]
                 /\ Got("partial", c)' = Got("partial", c)
                 /\ result'["partial"][c] \in Nat /\ Got("partial", c)' \in Nat
      PROVE  LineOK'
  <2>1. \A c \in Counters :
            /\ result["partial"][c] <= result'["partial"][c]
            /\ Got("partial", c)' - Got("partial", c) = counted'[c] - counted[c]
            /\ result'["partial"][c] \in Nat
            /\ Got("partial", c)' \in Nat /\ counted'[c] \in Nat
    <3> TAKE c \in Counters
    <3>1. counted'[c] = counted[c]
      BY <1>6
    <3> QED BY <1>2, <1>6, <3>1
  <2> QED BY <1>3, <1>6, <2>1
<1>7. ASSUME NEW w \in Workers, NEW c \in Counters, CountPartial(w, c)
      PROVE  LineOK'
  <2>1. /\ Add("partial", c) /\ counted' = [counted EXCEPT ![c] = counted[c] + 1]
        /\ UNCHANGED <<printer, field, line, shown, missed>>
    BY <1>7 DEF CountPartial, printing
  <2>2. ASSUME NEW d \in Counters
        PROVE  /\ result["partial"][d] <= result'["partial"][d]
               /\ Got("partial", d)' - Got("partial", d) = counted'[d] - counted[d]
               /\ result'["partial"][d] \in Nat
               /\ Got("partial", d)' \in Nat /\ counted'[d] \in Nat
    <3>1. /\ result' \in [Results -> [Counters -> Nat]]
          /\ result["partial"][d] <= result'["partial"][d]
          /\ Got("partial", c)' = Got("partial", c) + 1
          /\ d # c => Got("partial", d)' = Got("partial", d)
      BY <1>1, <2>1, AddTypes
    <3>2. result'["partial"][d] \in Nat
      BY <1>1, <3>1
    <3>3. CASE d = c
      <4>1. counted'[d] = counted[d] + 1
        BY <1>1, <2>1, <3>3
      <4>2. Got("partial", d)' = Got("partial", d) + 1
        BY <3>1, <3>3
      <4> QED BY <1>2, <3>1, <3>2, <4>1, <4>2
    <3>4. CASE d # c
      <4>1. counted'[d] = counted[d]
        BY <1>1, <2>1, <3>4
      <4>2. Got("partial", d)' = Got("partial", d)
        BY <3>1, <3>4
      <4> QED BY <1>2, <3>1, <3>2, <4>1, <4>2
    <3> QED BY <3>3, <3>4
  <2> QED BY <1>3, <2>1, <2>2
<1>8. ASSUME NEW w \in Workers, CountTotal(w) \/ StopReporting(w)
      PROVE  LineOK'
  <2>1. UNCHANGED <<printer, field, line, shown, missed, counted>>
    BY <1>8 DEF CountTotal, StopReporting, printing
  <2>2. result'["partial"] = result["partial"] /\ stack'["partial"] = stack["partial"]
    <3>1. CASE CountTotal(w)
      <4>1. at[w] \in Counters /\ Add("total", at[w])
        BY <3>1 DEF CountTotal
      <4>2. "partial" # "total"
        OBVIOUS
      <4> QED BY <1>1, <4>1, <4>2, AddTypes
    <3>2. CASE StopReporting(w)
      BY <3>2 DEF StopReporting
    <3> QED BY <1>8, <3>1, <3>2
  <2> QED BY <1>5, <1>6, <2>1, <2>2
<1>9. ASSUME NEW r \in Results, Record(r)
      PROVE  LineOK'
  <2>1. UNCHANGED <<printer, field, line, shown, missed, counted>>
    BY <1>9 DEF Record, printing
  <2>2. CASE r = "partial"
    <3>1. ASSUME NEW c \in Counters
          PROVE  /\ result["partial"][c] <= result'["partial"][c]
                 /\ Got("partial", c)' = Got("partial", c)
                 /\ result'["partial"][c] \in Nat /\ Got("partial", c)' \in Nat
      <4>1. /\ result' \in [Results -> [Counters -> Nat]]
            /\ result["partial"][c] <= result'["partial"][c]
            /\ Got("partial", c)' = Got("partial", c)
        BY <1>9, <2>2, RecordTypes
      <4>2. result'["partial"][c] \in Nat
        BY <1>1, <4>1
      <4> QED BY <1>2, <4>1, <4>2
    <3> QED BY <1>6, <2>1, <3>1
  <2>3. CASE r = "total"
    <3>1. result'["partial"] = result["partial"] /\ stack'["partial"] = stack["partial"]
      BY <1>1, <1>9, <2>3, RecordTypes
    <3> QED BY <1>5, <1>6, <2>1, <3>1
  <2> QED BY <2>2, <2>3 DEF Results
<1>10. CASE FlushPartial
  <2>1. FlushDataToHistogram("partial") /\ UNCHANGED <<printer, field, line, shown, missed, counted>>
    BY <1>10 DEF FlushPartial, printing
  <2> QED BY <1>4, <1>6, <2>1
<1>11. CASE FlushTotal
  <2>1. FlushDataToHistogram("total") /\ UNCHANGED <<printer, field, line, shown, missed, counted>>
    BY <1>11 DEF FlushTotal, printing
  <2>2. result'["partial"] = result["partial"] /\ stack'["partial"] = stack["partial"]
    BY <1>1, <2>1, FlushTypes
  <2> QED BY <1>5, <1>6, <2>1, <2>2
<1>12. CASE WaitForWorkers \/ PrintTotalResults
  <2>1. /\ UNCHANGED <<printer, field, line, shown, missed, counted>>
        /\ result' = result /\ stack' = stack
    BY <1>12 DEF WaitForWorkers, PrintTotalResults, results, printing
  <2> QED BY <1>5, <1>6, <2>1
\* The steps of the printer.
<1>13. CASE BeginLine
  <2>1. /\ printer = "wait" /\ printer' = "read" /\ FlushDataToHistogram("partial")
        /\ UNCHANGED <<field, line, shown, missed, counted>>
    BY <1>13 DEF BeginLine
  <2>2. ASSUME NEW c \in Counters
        PROVE  /\ line'[c] <= result'["partial"][c]
               /\ shown'[c] + missed'[c] + Got("partial", c)' = counted'[c]
    <3>1. shown[c] + missed[c] + Got("partial", c) = counted[c] + 0
      BY <1>2, <2>1
    <3>2. /\ result["partial"][c] <= result'["partial"][c]
          /\ result'["partial"][c] \in Nat /\ Got("partial", c)' = Got("partial", c)
      BY <1>4, <2>1
    <3>3. /\ line'[c] = line[c] /\ shown'[c] = shown[c] /\ missed'[c] = missed[c]
          /\ counted'[c] = counted[c]
      BY <2>1
    <3>4. line'[c] <= result'["partial"][c]
      BY <1>2, <3>2, <3>3
    <3>5. counted[c] + 0 = counted[c]
      BY <1>2
    <3> QED BY <3>1, <3>2, <3>3, <3>4, <3>5
  <2>3. \A c \in Counters : counted'[c] = counted'[c] + 0
    BY <1>2, <2>1
  <2> QED BY <2>1, <2>2, <2>3 DEF LineOK
<1>14. CASE ReadField
  <2> DEFINE f == Fields[field]
  <2>1. f \in Counters /\ result["partial"][f] \in Nat
    BY <1>1, FieldsAreCounters
  <2>2. /\ line' = [line EXCEPT ![f] = result["partial"][f]]
        /\ result' = result /\ stack' = stack /\ counted' = counted /\ missed' = missed
        /\ printer \in {"read", "last"}
    BY <1>14 DEF ReadField, results
  <2>3. ASSUME NEW c \in Counters
        PROVE  /\ line'[c] \in Nat /\ line'[c] <= result'["partial"][c]
               /\ Got("partial", c)' = Got("partial", c)
               /\ shown[c] + missed[c] + Got("partial", c) = counted[c]
    <3>1. line'[c] = IF c = f THEN result["partial"][f] ELSE line[c]
      BY <1>1, <2>1, <2>2
    <3>2. line'[c] \in Nat /\ line'[c] <= result'["partial"][c]
      BY <1>2, <2>1, <2>2, <3>1
    <3>3. Got("partial", c)' = Got("partial", c)
      BY <2>2 DEF Got
    <3>4. shown[c] + missed[c] + Got("partial", c) = counted[c] + 0
      BY <1>2, <2>2
    <3>5. counted[c] + 0 = counted[c]
      BY <1>2
    <3> QED BY <3>2, <3>3, <3>4, <3>5
  <2>4. CASE field < 4
    <3>1. printer' = printer /\ shown' = shown
      BY <1>14, <2>4 DEF ReadField
    <3>2. ASSUME NEW c \in Counters
          PROVE  shown'[c] + missed'[c] + Got("partial", c)' = counted'[c] + 0
      <4>1. shown[c] + missed[c] + Got("partial", c) = counted[c] /\ counted[c] \in Nat
        BY <1>2, <2>3
      <4>2. counted[c] + 0 = counted[c]
        BY <4>1
      <4> QED BY <2>2, <2>3, <3>1, <4>1, <4>2
    <3> QED BY <2>2, <2>3, <3>1, <3>2 DEF LineOK
  <2>5. CASE ~(field < 4)
    <3>1. /\ printer' \in {"reset", "done"} /\ field' = 1
          /\ shown' = [c \in Counters |-> shown[c] + line'[c]]
      BY <1>14, <2>2, <2>5 DEF ReadField
    <3>2. ASSUME NEW c \in Counters
          PROVE  shown'[c] + missed'[c] + Got("partial", c)' = counted'[c] + line'[c]
      <4>1. /\ shown[c] + missed[c] + Got("partial", c) = counted[c]
            /\ line'[c] \in Nat /\ Got("partial", c)' = Got("partial", c)
        BY <2>3
      <4>2. shown'[c] = shown[c] + line'[c] /\ missed'[c] = missed[c] /\ counted'[c] = counted[c]
        BY <2>2, <3>1
      <4>3. /\ shown[c] \in Nat /\ missed[c] \in Nat /\ counted[c] \in Nat
            /\ Got("partial", c) \in Nat
        BY <1>2
      <4> QED BY <4>1, <4>2, <4>3
    <3>3. \A i \in 1 .. 4 : ~(i < field')
      BY <3>1
    <3> QED BY <2>3, <3>1, <3>2, <3>3 DEF LineOK
  <2> QED BY <2>4, <2>5
<1>15. CASE ClearField
  <2> DEFINE f == Fields[field]
  <2>1. f \in Counters
    BY <1>1, FieldsAreCounters
  <2>2. /\ printer = "reset" /\ stack' = stack /\ counted' = counted /\ shown' = shown
        /\ missed' = [missed EXCEPT ![f] = missed[f] + result["partial"][f] - line[f]]
        /\ line' = [line EXCEPT ![f] = 0]
        /\ result' = [result EXCEPT !["partial"] = [result["partial"] EXCEPT ![f] = 0]]
    BY <1>15 DEF ClearField
  <2>3. /\ line'[f] = 0 /\ result'["partial"][f] = 0
        /\ missed'[f] = missed[f] + result["partial"][f] - line[f]
    BY <1>1, <2>1, <2>2
  <2>4. \A c \in Counters \ {f} : /\ line'[c] = line[c] /\ missed'[c] = missed[c]
                                  /\ result'["partial"][c] = result["partial"][c]
    BY <1>1, <2>1, <2>2
  <2>5. ASSUME NEW c \in Counters
        PROVE  /\ line'[c] \in Nat /\ line'[c] <= result'["partial"][c]
               /\ shown'[c] + missed'[c] + Got("partial", c)' = counted'[c] + line'[c]
    <3>1. shown[c] + missed[c] + Got("partial", c) = counted[c] + line[c]
      BY <1>2, <2>2
    <3>2. /\ result["partial"][c] \in Nat /\ stack["partial"] \in Nat
          /\ Got("partial", c) \in Nat /\ counted[c] \in Nat /\ line[c] \in Nat
          /\ shown[c] \in Nat /\ missed[c] \in Nat /\ line[c] <= result["partial"][c]
      BY <1>2
    <3>3. shown'[c] = shown[c] /\ counted'[c] = counted[c]
      BY <2>2
    <3>4. CASE c = f
      <4>1. Got("partial", c)' = Got("partial", c) - result["partial"][c]
        <5>1. result'["partial"][c] = 0 /\ stack'["partial"] = stack["partial"]
          BY <2>2, <2>3, <3>4
        <5> QED BY <3>2, <5>1 DEF Got
      <4>2. line'[c] = 0 /\ result'["partial"][c] = 0
            /\ missed'[c] = missed[c] + result["partial"][c] - line[c]
        BY <2>3, <3>4
      <4> QED BY <3>1, <3>2, <3>3, <4>1, <4>2
    <3>5. CASE c # f
      <4>1. /\ line'[c] = line[c] /\ missed'[c] = missed[c]
            /\ result'["partial"][c] = result["partial"][c]
        BY <2>4, <3>5
      <4>2. Got("partial", c)' = Got("partial", c)
        BY <2>2, <4>1 DEF Got
      <4> QED BY <3>1, <3>2, <3>3, <4>1, <4>2
    <3> QED BY <3>4, <3>5
  <2>6. ASSUME NEW i \in 1 .. 4, i <= field
        PROVE  line'[Fields[i]] = 0
    <3>1. CASE i = field
      BY <2>3, <3>1
    <3>2. CASE i # field
      <4>1. i < field
        BY <1>1, <2>6, <3>2
      <4>2. line[Fields[i]] = 0
        BY <2>2, <4>1 DEF LineOK
      <4>3. Fields[i] \in Counters /\ Fields[i] # f
        BY <1>1, <3>2, FieldsAreCounters
      <4> QED BY <2>4, <4>2, <4>3
    <3> QED BY <3>1, <3>2
  <2>7. CASE field < 4
    <3>1. field' = field + 1 /\ printer' = "reset"
      BY <1>15, <2>2, <2>7 DEF ClearField
    <3>2. \A i \in 1 .. 4 : i < field' => line'[Fields[i]] = 0
      <4> TAKE i \in 1 .. 4
      <4>1. i < field' => i <= field
        BY <1>1, <3>1
      <4> QED BY <2>6, <4>1
    <3> QED BY <2>5, <3>1, <3>2 DEF LineOK
  <2>8. CASE ~(field < 4)
    <3>1. field' = 1 /\ printer' = "check"
      BY <1>15, <2>8 DEF ClearField
    <3>2. \A c \in Counters : line'[c] = 0
      <4> TAKE c \in Counters
      <4>1. PICK i \in 1 .. 4 : Fields[i] = c
        BY FieldsAreCounters
      <4>2. i <= field
        BY <1>1, <2>8
      <4> QED BY <2>6, <4>1, <4>2
    <3>3. \A c \in Counters :
              shown'[c] + missed'[c] + Got("partial", c)' = counted'[c] + 0
      BY <2>5, <3>2
    <3> QED BY <2>5, <3>1, <3>2, <3>3 DEF LineOK
  <2> QED BY <2>7, <2>8
<1>16. CASE CheckStop
  <2>1. /\ printer = "check" /\ printer' \in {"wait", "last", "done"}
        /\ UNCHANGED <<field, line, shown, missed, counted>>
    BY <1>16 DEF CheckStop
  <2>2. \A c \in Counters :
            /\ result["partial"][c] <= result'["partial"][c]
            /\ Got("partial", c)' = Got("partial", c)
            /\ result'["partial"][c] \in Nat /\ Got("partial", c)' \in Nat
    <3>1. CASE FlushDataToHistogram("partial")
      BY <1>4, <3>1
    <3>2. CASE UNCHANGED <<result, stack>>
      BY <1>5, <3>2
    <3> QED BY <1>16, <3>1, <3>2 DEF CheckStop
  <2>3. ASSUME NEW c \in Counters
        PROVE  /\ line'[c] <= result'["partial"][c] /\ line'[c] = 0
               /\ shown'[c] + missed'[c] + Got("partial", c)' = counted'[c] + 0
    <3>1. shown[c] + missed[c] + Got("partial", c) = counted[c] + 0
      BY <1>2, <2>1
    <3>2. line'[c] = 0
      BY <2>1 DEF LineOK
    <3>3. line'[c] <= result'["partial"][c]
      BY <2>2, <3>2
    <3> QED BY <2>1, <2>2, <3>1, <3>2, <3>3
  <2> QED BY <2>1, <2>3 DEF LineOK
<1> QED
  BY <1>7, <1>8, <1>9, <1>10, <1>11, <1>12, <1>13, <1>14, <1>15, <1>16 DEF RunNext

\* At the end the partial result keeps still.
LEMMA LastStep ==
    ASSUME Types, WaitGroupOK, LineOK, LastOK, RunNext
    PROVE  LastOK'
<1>1. /\ result \in [Results -> [Counters -> Nat]] /\ stack \in [Results -> Nat]
      /\ at \in [Workers -> Counters \cup {"between", "stopped"}]
      /\ line \in [Counters -> Nat] /\ field \in 1 .. 4
      /\ "partial" \in Results /\ "total" \in Results
  BY FieldsAreCounters DEF Types
<1>2. measureLatency' = measureLatency
  BY DEF RunNext, CountPartial, CountTotal, StopReporting, Record, BeginLine, ReadField,
         ClearField, CheckStop, WaitForWorkers, FlushPartial, FlushTotal, PrintTotalResults
<1>3. SUFFICES ASSUME printer' \in {"last", "done"}, measureLatency
               PROVE  LastOK'
  BY <1>2 DEF LastOK
<1>4. CASE CheckStop
  <2>1. printer = "check" /\ stopTime /\ printer' = "last"
    BY <1>3, <1>4 DEF CheckStop
  <2>2. FlushDataToHistogram("partial") /\ at' = at /\ field' = field
    BY <1>4, <2>1 DEF CheckStop
  <2>3. Working' = {}
    BY <2>1, <2>2 DEF WaitGroupOK, Working
  <2>4. stack'["partial"] = 0
    BY <1>1, <2>2, FlushTypes
  <2>5. field' = 1
    BY <2>1, <2>2 DEF LineOK
  <2>6. \A i \in 1 .. 4 : ~(printer' = "done" \/ i < field')
    BY <2>1, <2>5
  <2> QED BY <2>3, <2>4, <2>6 DEF LastOK
<1>5. CASE ~CheckStop
  <2>1. printer \in {"last", "done"}
    BY <1>3, <1>5 DEF RunNext, CountPartial, CountTotal, StopReporting, Record, BeginLine,
       ReadField, ClearField, WaitForWorkers, FlushPartial, FlushTotal, PrintTotalResults,
       printing
  <2>2. /\ Working = {} /\ stack["partial"] = 0
        /\ \A i \in 1 .. 4 : printer = "done" \/ i < field =>
               line[Fields[i]] = result["partial"][Fields[i]]
    BY <1>3, <2>1 DEF LastOK
  <2>3. \A w \in Workers : at[w] = "stopped"
    BY <2>2 DEF Working
  <2>4. \A w \in Workers : /\ \A c \in Counters : ~CountPartial(w, c)
                           /\ ~CountTotal(w) /\ ~StopReporting(w)
    BY <2>3, FieldsAreCounters DEF CountPartial, CountTotal, StopReporting
  <2>5. ~BeginLine /\ ~ClearField
    BY <2>1 DEF BeginLine, ClearField
  \* A step that leaves the printer and the partial result alone.
  <2>6. ASSUME UNCHANGED <<printer, field, line, at>>, stack'["partial"] = 0,
               \A c \in Counters : result'["partial"][c] = result["partial"][c]
        PROVE  LastOK'
    <3>1. Working' = {}
      BY <2>2, <2>6 DEF Working
    <3>2. \A i \in 1 .. 4 : Fields[i] \in Counters
      BY FieldsAreCounters
    <3> QED BY <2>2, <2>6, <3>1, <3>2 DEF LastOK
  <2>7. ASSUME NEW r \in Results, Record(r)
        PROVE  LastOK'
    <3>1. UNCHANGED <<printer, field, line, at>>
      BY <2>7 DEF Record, printing
    <3>2. stack[r] > 0
      BY <2>7 DEF Record
    <3>3. r # "partial"
      BY <2>2, <3>2
    <3>4. result'["partial"] = result["partial"] /\ stack'["partial"] = stack["partial"]
      BY <1>1, <2>7, <3>3, RecordTypes
    <3> QED BY <2>2, <2>6, <3>1, <3>4
  <2>8. CASE FlushPartial
    <3>1. UNCHANGED <<printer, field, line, at>> /\ FlushDataToHistogram("partial")
      BY <2>8 DEF FlushPartial, printing
    <3>2. stack'["partial"] = 0
      BY <1>1, <3>1, FlushTypes
    <3>3. ASSUME NEW c \in Counters
          PROVE  result'["partial"][c] = result["partial"][c]
      <4>1. /\ Got("partial", c)' = Got("partial", c)
            /\ result' \in [Results -> [Counters -> Nat]]
        BY <1>1, <3>1, FlushTypes
      <4>2. result'["partial"][c] \in Nat /\ result["partial"][c] \in Nat
        BY <1>1, <4>1
      <4> QED BY <2>2, <3>2, <4>1, <4>2 DEF Got
    <3> QED BY <2>6, <3>1, <3>2, <3>3
  <2>9. CASE FlushTotal
    <3>1. UNCHANGED <<printer, field, line, at>> /\ FlushDataToHistogram("total")
      BY <2>9 DEF FlushTotal, printing
    <3>2. result'["partial"] = result["partial"] /\ stack'["partial"] = stack["partial"]
      BY <1>1, <3>1, FlushTypes
    <3> QED BY <2>2, <2>6, <3>1, <3>2
  <2>10. CASE WaitForWorkers \/ PrintTotalResults
    <3>1. UNCHANGED <<printer, field, line, at, result, stack>>
      BY <2>10 DEF WaitForWorkers, PrintTotalResults, printing, results
    <3> QED BY <2>2, <2>6, <3>1
  <2>11. CASE ReadField
    <3>1. /\ printer = "last" /\ UNCHANGED <<result, stack, at>>
          /\ line' = [line EXCEPT ![Fields[field]] = result["partial"][Fields[field]]]
          /\ IF field < 4 THEN field' = field + 1 /\ printer' = printer
                          ELSE field' = 1 /\ printer' = "done"
      BY <2>1, <2>11 DEF ReadField, results
    <3>2. ASSUME NEW i \in 1 .. 4, i <= field
          PROVE  line'[Fields[i]] = result'["partial"][Fields[i]]
      <4>1. Fields[i] \in Counters /\ Fields[field] \in Counters
        BY <1>1, FieldsAreCounters
      <4>2. CASE i = field
        BY <1>1, <3>1, <4>1, <4>2
      <4>3. CASE i # field
        <5>1. i < field /\ Fields[i] # Fields[field]
          BY <1>1, <3>2, <4>3, FieldsAreCounters
        <5>2. line[Fields[i]] = result["partial"][Fields[i]]
          BY <2>2, <5>1
        <5> QED BY <1>1, <3>1, <4>1, <5>1, <5>2
      <4> QED BY <4>2, <4>3
    <3>3. \A i \in 1 .. 4 : (printer' = "done" \/ i < field') => i <= field
      <4>1. field \in 1 .. 4
        BY <1>1
      <4>2. CASE field < 4
        <5>1. field' = field + 1 /\ printer' # "done"
          BY <3>1, <4>2
        <5> QED BY <4>1, <5>1
      <4>3. CASE ~(field < 4)
        BY <4>1, <4>3
      <4> QED BY <4>2, <4>3
    <3>4. Working' = {} /\ stack'["partial"] = 0
      BY <2>2, <3>1 DEF Working
    <3>5. \A i \in 1 .. 4 : (printer' = "done" \/ i < field') =>
              line'[Fields[i]] = result'["partial"][Fields[i]]
      BY <3>2, <3>3
    <3> QED BY <3>4, <3>5 DEF LastOK
  <2> QED
    BY <1>5, <2>4, <2>5, <2>7, <2>8, <2>9, <2>10, <2>11 DEF RunNext
<1> QED BY <1>4, <1>5

-----------------------------------------------------------------------------
(* The run as a whole *)

\* The invariant holds when the workers start.
LEMMA InitIInv == Init => IInv
<1> SUFFICES ASSUME Init
             PROVE  IInv
  OBVIOUS
<1>1. PICK n \in 0 .. MaxConcurrency :
          /\ at = [w \in Workers |-> IF w < n THEN "between" ELSE "stopped"]
          /\ waitGroup = n
  BY DEF Init, StartWorkers
<1>2. /\ result = [r \in Results |-> None] /\ stack = [r \in Results |-> 0]
      /\ stopTime = FALSE /\ printer = "wait" /\ field = 1
      /\ line = None /\ shown = None /\ missed = None
      /\ main = "wait" /\ summary = None /\ counted = None
      /\ measureLatency \in BOOLEAN
  BY DEF Init, InitResults
<1>3. None \in [Counters -> Nat] /\ \A c \in Counters : None[c] = 0
  BY DEF None
<1>4. /\ result \in [Results -> [Counters -> Nat]] /\ stack \in [Results -> Nat]
      /\ \A r \in Results : stack[r] = 0 /\ \A c \in Counters : result[r][c] = 0
  BY <1>2, <1>3
<1>5. at \in [Workers -> Counters \cup {"between", "stopped"}]
  BY <1>1
<1>6. Types
  <2>1. /\ line \in [Counters -> Nat] /\ summary \in [Counters -> Nat]
        /\ counted \in [Counters -> Nat] /\ shown \in [Counters -> Nat]
        /\ missed \in [Counters -> Nat]
    BY <1>2, <1>3
  <2>2. field \in 1 .. 4
    BY <1>2
  <2> QED BY <1>2, <1>4, <1>5, <2>1, <2>2 DEF Types
<1>7. \A r \in Results, c \in Counters : Got(r, c) = 0
  BY <1>4 DEF Got
<1>8. WaitGroupOK
  <2>1. MaxConcurrency \in Nat /\ n \in Int /\ 0 \in Int
    BY ReportingAssumption
  <2>2. Working = 0 .. (n - 1)
    <3>1. \A w : w \in Working <=> w \in 0 .. (MaxConcurrency - 1) /\ w < n
      BY <1>1 DEF Working, Workers
    <3>2. n <= MaxConcurrency
      BY <2>1
    <3>3. \A w : w \in 0 .. (MaxConcurrency - 1) /\ w < n <=> w \in 0 .. (n - 1)
      BY <2>1, <3>2
    <3> QED BY <3>1, <3>3
  <2>3. Cardinality(0 .. (n - 1)) = IF 0 > n - 1 THEN 0 ELSE (n - 1) - 0 + 1
    BY <2>1, FS_Interval
  <2>4. Cardinality(Working) = n
    BY <2>1, <2>2, <2>3
  <2> QED BY <1>1, <1>2, <2>4 DEF WaitGroupOK
<1>9. TotalOK
  <2>1. \A c \in Counters : Adding(c) = {}
    <3>1. \A w \in Workers : at[w] \in {"between", "stopped"}
      BY <1>1
    <3> QED BY <3>1, FieldsAreCounters DEF Adding
  <2>2. Cardinality({}) = 0
    BY FS_EmptySet
  <2>3. \A c \in Counters : counted[c] = 0 /\ Got("total", c) = 0
    BY <1>2, <1>3, <1>7, FieldsAreCounters
  <2> QED BY <1>2, <2>1, <2>2, <2>3 DEF TotalOK
<1>10. LineOK
  <2>1. \A c \in Counters : /\ line[c] = 0 /\ shown[c] = 0 /\ missed[c] = 0 /\ counted[c] = 0
                            /\ result["partial"][c] = 0 /\ Got("partial", c) = 0
    BY <1>2, <1>3, <1>4, <1>7, FieldsAreCounters
  <2> QED BY <1>2, <2>1 DEF LineOK
<1>11. LastOK
  BY <1>2 DEF LastOK
<1> QED BY <1>6, <1>8, <1>9, <1>10, <1>11 DEF IInv

\* The same of the state after a step.
LEMMA InitIInvNext == Init' => IInv'
BY InitIInv, PTL

\* Every step keeps the invariant.
LEMMA IInvStep ==
    ASSUME IInv, RunNext
    PROVE  IInv'
BY TypesStep, WaitGroupStep, TotalStep, LineStep, LastStep DEF IInv

\* A step that leaves the variables of Reporting alone.
LEMMA IInvStutter ==
    ASSUME IInv, UNCHANGED vars
    PROVE  IInv'
<1>1. /\ UNCHANGED <<measureLatency, result, stack, at, waitGroup, stopTime, printer>>
      /\ UNCHANGED <<field, line, main, summary, counted, shown, missed>>
  BY DEF vars, results, printing, ending
<1>2. Types'
  BY <1>1 DEF IInv, Types
<1>3. Working' = Working /\ \A c \in Counters : Adding(c)' = Adding(c)
  BY <1>1 DEF Working, Adding
<1>4. \A r \in Results, c \in Counters : Got(r, c)' = Got(r, c)
  BY <1>1 DEF Got
<1>5. WaitGroupOK' /\ TotalOK'
  BY <1>1, <1>3, <1>4, FieldsAreCounters DEF IInv, WaitGroupOK, TotalOK
<1>6. LineOK' /\ LastOK'
  BY <1>1, <1>3, <1>4, FieldsAreCounters DEF IInv, LineOK, LastOK
<1> QED BY <1>2, <1>5, <1>6 DEF IInv

\* What the invariant says of the properties.
LEMMA IInvShows == IInv => TypeOK /\ SummaryComplete /\ ShownOnce /\ LinesComplete
<1> SUFFICES ASSUME IInv
             PROVE  TypeOK /\ SummaryComplete /\ ShownOnce /\ LinesComplete
  OBVIOUS
<1>1. Types /\ WaitGroupOK /\ TotalOK /\ LineOK /\ LastOK
  BY DEF IInv
<1>2. /\ result \in [Results -> [Counters -> Nat]] /\ stack \in [Results -> Nat]
      /\ summary \in [Counters -> Nat] /\ counted \in [Counters -> Nat]
      /\ line \in [Counters -> Nat] /\ shown \in [Counters -> Nat]
      /\ missed \in [Counters -> Nat] /\ "partial" \in Results /\ "total" \in Results
  BY <1>1, FieldsAreCounters DEF Types
<1>3. ASSUME NEW c \in Counters
      PROVE  /\ result["partial"][c] \in Nat /\ stack["partial"] \in Nat
             /\ result["total"][c] \in Nat
             /\ Got("partial", c) \in Nat /\ result["partial"][c] <= Got("partial", c)
             /\ counted[c] \in Nat /\ line[c] \in Nat /\ shown[c] \in Nat /\ missed[c] \in Nat
             /\ line[c] <= result["partial"][c]
  <2>1. /\ result["partial"][c] \in Nat /\ stack["partial"] \in Nat
        /\ result["total"][c] \in Nat
        /\ counted[c] \in Nat /\ line[c] \in Nat /\ shown[c] \in Nat /\ missed[c] \in Nat
    BY <1>2
  <2>2. Got("partial", c) \in Nat /\ result["partial"][c] <= Got("partial", c)
    BY <2>1 DEF Got
  <2> QED BY <1>1, <2>1, <2>2 DEF LineOK
<1>4. TypeOK
  <2>1. waitGroup \in Nat
    <3>1. Working \in SUBSET Workers
      BY DEF Working
    <3> QED BY <1>1, <3>1, FiniteWorkers DEF WaitGroupOK
  <2>2. {line, summary, counted, shown, missed} \subseteq [Counters -> Nat]
    BY <1>2
  <2> QED BY <1>1, <2>1, <2>2 DEF Types, TypeOK
<1>5. ASSUME main = "exit"
      PROVE  summary = counted
  <2>1. summary = result["total"] /\ stack["total"] = 0 /\ Working = {}
    BY <1>1, <1>5 DEF TotalOK, WaitGroupOK
  <2>2. ASSUME NEW c \in Counters
        PROVE  summary[c] = counted[c]
    <3>1. Adding(c) = {}
      BY <2>1, FieldsAreCounters DEF Adding, Working
    <3>2. counted[c] = Got("total", c) + Cardinality(Adding(c))
      BY <1>1 DEF TotalOK
    <3>3. Cardinality({}) = 0
      BY FS_EmptySet
    <3>4. Got("total", c) = result["total"][c]
      BY <1>3, <2>1 DEF Got
    <3> QED BY <1>3, <2>1, <3>1, <3>2, <3>3, <3>4
  <2> QED BY <1>2, <2>2
<1>6. ASSUME NEW c \in Counters
      PROVE  shown[c] <= counted[c]
  <2>1. shown[c] + missed[c] + Got("partial", c)
            = counted[c] + (IF printer \in {"reset", "done"} THEN line[c] ELSE 0)
    BY <1>1 DEF LineOK
  <2>2. (IF printer \in {"reset", "done"} THEN line[c] ELSE 0) \in 0 .. line[c]
    BY <1>3
  <2> QED BY <1>3, <2>1, <2>2
<1>7. ASSUME printer = "done", measureLatency, NEW c \in Counters
      PROVE  shown[c] + missed[c] = counted[c]
  <2>1. shown[c] + missed[c] + Got("partial", c) = counted[c] + line[c]
    BY <1>1, <1>7 DEF LineOK
  <2>2. stack["partial"] = 0 /\ \A i \in 1 .. 4 : line[Fields[i]] = result["partial"][Fields[i]]
    BY <1>1, <1>7 DEF LastOK
  <2>3. PICK i \in 1 .. 4 : Fields[i] = c
    BY FieldsAreCounters
  <2>4. line[c] = result["partial"][c]
    BY <2>2, <2>3
  <2>5. Got("partial", c) = result["partial"][c]
    BY <1>3, <2>2 DEF Got
  <2> QED BY <1>3, <2>1, <2>4, <2>5
<1> QED BY <1>4, <1>5, <1>6, <1>7 DEF SummaryComplete, ShownOnce, LinesComplete

-----------------------------------------------------------------------------
(* The sizes of the rows *)

\* The words that are not rejected are a whole number of runs of n.
LEMMA WholeRuns ==
    ASSUME NEW n \in 1 .. WordCount
    PROVE  /\ Threshold(n) \in 0 .. n - 1
           /\ \E q \in Nat \ {0} : WordCount = n * q + Threshold(n)
<1>1. WordCount \in Nat \ {0} /\ n \in Nat \ {0} /\ n <= WordCount
  BY WordAssumption
<1>2. CASE n = WordCount
  <2>1. WordCount * (-1) + 0 = -n
    BY <1>1, <1>2
  <2>2. (-n) % WordCount = 0
    <3>1. 0 \in 0 .. WordCount - 1 /\ -1 \in Int
      BY <1>1
    <3> QED BY <1>1, <2>1, <3>1, Remainder
  <2>3. 0 % n = 0
    <3>1. 0 \in 0 .. n - 1 /\ n * 0 + 0 = 0
      BY <1>1
    <3> QED BY <1>1, <3>1, Remainder
  <2>4. Threshold(n) = 0
    BY <2>2, <2>3 DEF Threshold
  <2>5. WordCount = n * 1 + 0
    BY <1>1, <1>2
  <2> QED BY <1>1, <2>4, <2>5
<1>3. CASE n < WordCount
  <2>1. WordCount * (-1) + (WordCount - n) = -n
    BY <1>1
  <2>2. (-n) % WordCount = WordCount - n
    <3>1. WordCount - n \in 0 .. WordCount - 1 /\ -1 \in Int
      BY <1>1, <1>3
    <3> QED BY <1>1, <2>1, <3>1, Remainder
  <2>3. Threshold(n) = (WordCount - n) % n
    BY <2>2 DEF Threshold
  <2> DEFINE j == (WordCount - n) \div n
             t == (WordCount - n) % n
  <2>4. WordCount - n \in Int
    BY <1>1
  <2>5. j \in Int /\ t \in 0 .. n - 1 /\ WordCount - n = n * j + t
    BY <1>1, <2>4, Division
  <2> HIDE DEF j, t
  <2>6. ~(0 > j)
    <3> SUFFICES ASSUME 0 > j PROVE FALSE
      OBVIOUS
    <3>1. n * 0 >= n * j + n
      BY <1>1, <2>5, LargerProduct
    <3>2. n * j \in Int
      BY <1>1, <2>5
    <3> QED BY <1>1, <1>3, <2>5, <3>1, <3>2
  <2>7. n * (j + 1) = n * j + n /\ n * j \in Int
    BY <1>1, <2>5
  <2>8. j + 1 \in Nat \ {0} /\ WordCount = n * (j + 1) + t
    BY <1>1, <2>5, <2>6, <2>7
  <2>9. Threshold(n) = t
    BY <2>3 DEF t
  <2> QED BY <2>5, <2>8, <2>9
<1> QED BY <1>1, <1>2, <1>3

\* There are finitely many words, and 0 has one.
LEMMA SomeWords ==
    ASSUME NEW n \in 1 .. WordCount, NEW r \in 0 .. n - 1
    PROVE  IsFiniteSet(WordsFor(n, r)) /\ WordsFor(n, r) # {}
<1>1. WordCount \in Nat \ {0} /\ n \in Nat \ {0} /\ r \in Nat
  BY WordAssumption
<1>2. IsFiniteSet(RandomWords)
  BY <1>1, FS_Interval DEF RandomWords
<1>3. WordsFor(n, r) \subseteq RandomWords
  BY DEF WordsFor
<1>4. PICK q \in Nat \ {0} : WordCount = n * q + Threshold(n)
  BY WholeRuns
<1>5. PICK t \in 0 .. n - 1 : t = Threshold(n)
  BY WholeRuns
\* The first word that is accepted and gives r.
<1>6. PICK v \in RandomWords : v >= t /\ v % n = r
  <2>1. n * q >= n
    <3>1. n * q >= n * 0 + n
      BY <1>1, <1>4, LargerProduct
    <3> QED BY <1>1, <3>1
  <2>2. n * q \in Int
    BY <1>1
  <2>3. CASE r >= t
    <3>1. (n * 0 + r) % n = r
      BY <1>1, Remainder
    <3>2. n * 0 + r = r
      BY <1>1
    <3>3. r \in RandomWords
      BY <1>1, <1>4, <1>5, <2>1, <2>2 DEF RandomWords
    <3> QED BY <2>3, <3>1, <3>2, <3>3
  <2>4. CASE r < t
    <3>1. (n * 1 + r) % n = r
      BY <1>1, Remainder
    <3>2. n * 1 + r = n + r /\ n + r >= t
      BY <1>1, <1>5
    <3>3. n + r \in RandomWords
      BY <1>1, <1>4, <1>5, <2>1, <2>2, <2>4 DEF RandomWords
    <3> QED BY <3>1, <3>2, <3>3
  <2> QED BY <1>1, <1>5, <2>3, <2>4
<1>7. v \in WordsFor(n, r)
  BY <1>5, <1>6 DEF WordsFor, Accepted
<1> QED BY <1>2, <1>3, <1>7, FS_Subset

\* The words for r are those for 0, moved by r within the accepted ones.
LEMMA SameShare ==
    ASSUME NEW n \in 1 .. WordCount, NEW r \in 0 .. n - 1
    PROVE  Cardinality(WordsFor(n, r)) = Cardinality(WordsFor(n, 0))
<1>1. WordCount \in Nat \ {0} /\ n \in Nat \ {0} /\ r \in Nat /\ 0 \in 0 .. n - 1
  BY WordAssumption
<1>2. PICK q \in Nat \ {0} : WordCount = n * q + Threshold(n)
  BY WholeRuns
<1>3. PICK t \in 0 .. n - 1 : t = Threshold(n)
  BY WholeRuns
<1>4. PICK m \in Nat : m = n * q /\ m >= n
  <2>1. n * q >= n * 0 + n /\ n * q \in Int
    BY <1>1, LargerProduct
  <2> QED BY <1>1, <2>1
<1>5. ASSUME NEW s \in 0 .. n - 1, NEW v
      PROVE  v \in WordsFor(n, s) <=> v \in t .. (t + m - 1) /\ v % n = s
  <2>1. RandomWords = 0 .. (t + m - 1)
    BY <1>2, <1>3, <1>4 DEF RandomWords
  <2>2. v \in 0 .. (t + m - 1) /\ v >= t <=> v \in t .. (t + m - 1)
    BY <1>1, <1>3, <1>4
  <2> QED BY <1>3, <2>1, <2>2 DEF WordsFor, Accepted
\* Moving by r, and by a whole number of runs, changes the remainder by r.
<1>6. ASSUME NEW v \in Int, v % n = r
      PROVE  (v - r) % n = 0 /\ (v - r + m) % n = 0
  <2> DEFINE k == v \div n
  <2>1. k \in Int /\ v = n * k + r
    BY <1>1, <1>6, Division
  <2> HIDE DEF k
  <2>2. v - r = n * k + 0 /\ n * k \in Int
    BY <1>1, <2>1
  <2>3. v - r + m = n * (k + q) + 0
    BY <1>1, <1>4, <2>1
  <2>4. k + q \in Int
    BY <2>1
  <2> QED BY <1>1, <2>1, <2>2, <2>3, <2>4, Remainder
<1>7. ASSUME NEW u \in Int, u % n = 0
      PROVE  (u + r) % n = r /\ (u + r - m) % n = r
  <2> DEFINE k == u \div n
  <2>1. k \in Int /\ u = n * k + 0
    BY <1>1, <1>7, Division
  <2> HIDE DEF k
  <2>2. u + r = n * k + r
    BY <1>1, <2>1
  <2>3. u + r - m = n * (k - q) + r
    BY <1>1, <1>4, <2>1
  <2>4. k - q \in Int
    BY <2>1
  <2> QED BY <1>1, <2>1, <2>2, <2>3, <2>4, Remainder
<1> DEFINE F == [v \in WordsFor(n, r) |-> IF v - r >= t THEN v - r ELSE v - r + m]
<1>8. F \in [WordsFor(n, r) -> WordsFor(n, 0)]
  <2> SUFFICES ASSUME NEW v \in WordsFor(n, r)
               PROVE  (IF v - r >= t THEN v - r ELSE v - r + m) \in WordsFor(n, 0)
    OBVIOUS
  <2>1. v \in t .. (t + m - 1) /\ v % n = r /\ v \in Int
    BY <1>5
  <2>2. (v - r) % n = 0 /\ (v - r + m) % n = 0
    BY <1>6, <2>1
  <2>3. CASE v - r >= t
    <3>1. v - r \in t .. (t + m - 1)
      BY <1>1, <1>3, <1>4, <2>1, <2>3
    <3> QED BY <1>1, <1>5, <2>2, <2>3, <3>1
  <2>4. CASE ~(v - r >= t)
    <3>1. v - r + m \in t .. (t + m - 1)
      BY <1>1, <1>3, <1>4, <2>1, <2>4
    <3> QED BY <1>1, <1>5, <2>2, <2>4, <3>1
  <2> QED BY <2>3, <2>4
<1>9. ASSUME NEW v \in WordsFor(n, r), NEW w \in WordsFor(n, r), F[v] = F[w]
      PROVE  v = w
  <2>1. v \in t .. (t + m - 1) /\ w \in t .. (t + m - 1)
    BY <1>5
  <2>2. (IF v - r >= t THEN v - r ELSE v - r + m) = (IF w - r >= t THEN w - r ELSE w - r + m)
    BY <1>9
  <2> QED BY <1>1, <1>3, <1>4, <2>1, <2>2
<1>10. ASSUME NEW u \in WordsFor(n, 0)
       PROVE  \E v \in WordsFor(n, r) : F[v] = u
  <2>1. u \in t .. (t + m - 1) /\ u % n = 0 /\ u \in Int
    BY <1>1, <1>5
  <2>2. (u + r) % n = r /\ (u + r - m) % n = r
    BY <1>7, <2>1
  <2>3. CASE u + r < t + m
    <3>1. u + r \in t .. (t + m - 1) /\ (u + r) - r = u /\ (u + r) - r >= t
      BY <1>1, <1>3, <1>4, <2>1, <2>3
    <3>2. u + r \in WordsFor(n, r)
      BY <1>5, <2>2, <3>1
    <3>3. F[u + r] = u
      BY <3>1, <3>2
    <3> QED BY <3>2, <3>3
  <2>4. CASE ~(u + r < t + m)
    <3>1. /\ u + r - m \in t .. (t + m - 1) /\ ~((u + r - m) - r >= t)
          /\ (u + r - m) - r + m = u
      BY <1>1, <1>3, <1>4, <2>1, <2>4
    <3>2. u + r - m \in WordsFor(n, r)
      BY <1>5, <2>2, <3>1
    <3>3. F[u + r - m] = u
      BY <3>1, <3>2
    <3> QED BY <3>2, <3>3
  <2> QED BY <2>3, <2>4
<1> HIDE DEF F
<1>11. F \in Bijection(WordsFor(n, r), WordsFor(n, 0))
  BY <1>8, <1>9, <1>10, Fun_IsBij
<1>12. ExistsBijection(WordsFor(n, r), WordsFor(n, 0))
  BY <1>11 DEF ExistsBijection
<1> QED BY <1>12, SomeWords, FS_Bijection

\* Every distribution that is not wider than the generator draws all its sizes but
\* the largest, each with as many words as any other (random.go:333-338, 418-430).
THEOREM EvenlyDrawnCorrect ==
    ASSUME NEW d \in Distributions(Nat), d.max - d.min <= WordCount
    PROVE  EvenlyDrawn(d)
<1> DEFINE n == d.max - d.min
<1> SUFFICES ASSUME n > 0
             PROVE  /\ Cardinality(WordsFor(n, 0)) > 0
                    /\ \A r \in 1 .. n - 1 :
                           Cardinality(WordsFor(n, r)) = Cardinality(WordsFor(n, 0))
  BY DEF EvenlyDrawn
<1>1. d.max \in Nat /\ d.min \in Nat
  BY DEF Distributions
<1>2. n \in 1 .. WordCount
  BY <1>1, WordAssumption
<1> HIDE DEF n
<1>3. 0 \in 0 .. n - 1 /\ \A r \in 1 .. n - 1 : r \in 0 .. n - 1
  BY <1>2
<1>4. IsFiniteSet(WordsFor(n, 0)) /\ WordsFor(n, 0) # {}
  BY <1>2, <1>3, SomeWords
<1>5. Cardinality(WordsFor(n, 0)) > 0
  <2>1. Cardinality(WordsFor(n, 0)) \in Nat
    BY <1>4, FS_CardinalityType
  <2>2. Cardinality(WordsFor(n, 0)) # 0
    BY <1>4, FS_EmptySet
  <2> QED BY <2>1, <2>2
<1> QED BY <1>2, <1>3, <1>5, SameShare

\* The limits are numbers that the words of the generator reach.
LEMMA RowSizeTypes ==
    ASSUME NEW d \in Distributions(RowSizes)
    PROVE  d \in Distributions(Nat) /\ d.max - d.min <= WordCount
<1>1. RowSizes \subseteq 0 .. WordCount /\ WordCount \in Nat
  BY StartupAssumption, WordAssumption
<1>2. d \in [min : RowSizes, max : RowSizes] /\ d.min <= d.max
  BY DEF Distributions
<1>3. d.min \in 0 .. WordCount /\ d.max \in 0 .. WordCount
  BY <1>1, <1>2
<1>4. d \in [min : Nat, max : Nat]
  <2>1. RowSizes \subseteq Nat
    BY <1>1
  <2> QED BY <1>2, <2>1
<1>5. d \in Distributions(Nat)
  BY <1>2, <1>4 DEF Distributions
<1>6. d.max - d.min <= WordCount
  BY <1>1, <1>3
<1> QED BY <1>5, <1>6

\* No size is below the least.
LEMMA GeneratedTypes ==
    ASSUME NEW d \in Distributions(Nat), NEW size \in Generated(d)
    PROVE  size \in Nat /\ d.min \in Nat /\ size >= d.min
<1>1. d.min \in Nat /\ d.max \in Nat /\ d.min <= d.max
  BY DEF Distributions
<1> DEFINE n == d.max - d.min
<1>2. CASE n = 0
  BY <1>1, <1>2 DEF Generated
<1>3. CASE n # 0
  <2>1. PICK v \in {u \in RandomWords : Accepted(u, n)} : size = d.min + (v % n)
    BY <1>3 DEF Generated
  <2>2. v \in Int /\ n \in Nat \ {0}
    BY <1>1, <1>3 DEF RandomWords
  <2> HIDE DEF n
  <2>3. v % n \in 0 .. n - 1
    BY <2>2, Division
  <2> QED BY <1>1, <2>1, <2>2, <2>3
<1> QED BY <1>2, <1>3

-----------------------------------------------------------------------------
(* Startup *)

\* The flags that pass the checks.
Admitted(f) == \E given \in Flags, o \in Options :
                   f = Effective(given) /\ ~Rejected(given, f, o)

\* What has crashed a process.
Panicked(f) == \/ ConfigurationPanics(f)
               \/ /\ f.concurrency > 0
                  /\ \/ WorkloadPanics(f)
                     \/ \E size \in Generated(f.rowSize) : ModePanics(f, size)

MInv ==
    /\ IInv
    /\ phase # "run" => InitResults
    /\ phase \in {"flags", "connect", "tables", "results", "launch", "crashed"} =>
           flags \in Flags
    /\ phase \in {"connect", "tables", "results", "launch", "crashed"} => Admitted(flags)
    /\ phase = "crashed" => Panicked(flags)

\* The fields of the flags.
LEMMA FlagTypes ==
    ASSUME NEW f \in Flags
    PROVE  /\ f.concurrency \in 0 .. MaxConcurrency /\ f.rangeCount \in Nat
           /\ f.maximumRate \in Nat /\ f.partitionCount \in Nat
           /\ f.clusteringRowCount \in Nat /\ f.writeRate \in {0, 1}
           /\ f.validateData \in BOOLEAN /\ f.rowSize \in Distributions(RowSizes)
<1>1. Counts \subseteq Nat
  BY StartupAssumption
<1> QED BY <1>1 DEF Flags

\* -mode scan changes the flags to flags.
LEMMA EffectiveTypes ==
    ASSUME NEW f \in Flags
    PROVE  Effective(f) \in Flags
<1>1. CASE f.mode # "scan"
  BY <1>1 DEF Effective
<1>2. CASE f.mode = "scan"
  <2> DEFINE n == IF f.concurrency > f.rangeCount THEN f.rangeCount ELSE f.concurrency
  <2>1. n \in 0 .. MaxConcurrency
    <3>1. f.concurrency \in 0 .. MaxConcurrency /\ f.rangeCount \in Nat
      BY FlagTypes
    <3>2. MaxConcurrency \in Nat
      BY ReportingAssumption
    <3> QED BY <3>1, <3>2
  <2>2. Effective(f) = [f EXCEPT !.workload = "scan", !.concurrency = n]
    BY <1>2 DEF Effective
  <2> HIDE DEF n
  <2>3. "scan" \in Workloads \cup {"", "other"}
    BY DEF Workloads
  <2> QED BY <2>1, <2>2, <2>3 DEF Flags
<1> QED BY <1>1, <1>2

\* Flags that are as described, pass the checks and are none of the exceptions crash
\* nothing.
LEMMA DescribedRuns ==
    ASSUME NEW f \in Flags, Admitted(f), Described(f),
           ~NothingToDo(f), ~SlowTimeSeries(f), ~EmptyRows(f)
    PROVE  ~Panicked(f)
<1>1. PICK given \in Flags, o \in Options :
          f = Effective(given) /\ ~Rejected(given, f, o)
  BY DEF Admitted
<1>2. /\ f.mode \in Modes
      /\ f.mode = "scan" \/ f.workload \in {"sequential", "uniform", "timeseries"}
      /\ f.concurrency # 0 /\ f.partitionCount # 0 /\ f.clusteringRowCount # 0
      /\ f.workload = "timeseries" =>
             f.mode \in {"read", "write"} \/ (f.mode = "mixed" /\ f.maximumRate > 0)
  BY DEF Described, NothingToDo
<1>3. f.mode = "scan" => f.workload = "scan"
  <2>1. CASE given.mode = "scan"
    <3> DEFINE n == IF given.concurrency > given.rangeCount THEN given.rangeCount
                                                            ELSE given.concurrency
    <3>1. f = [given EXCEPT !.workload = "scan", !.concurrency = n]
      BY <1>1, <2>1 DEF Effective
    <3> QED BY <3>1 DEF Flags
  <2>2. CASE given.mode # "scan"
    BY <1>1, <2>2 DEF Effective
  <2> QED BY <2>1, <2>2
<1>4. f.concurrency \in Nat /\ f.concurrency > 0 /\ f.maximumRate \in Nat
  <2>1. f.concurrency \in 0 .. MaxConcurrency /\ f.maximumRate \in Nat
    BY FlagTypes
  <2> QED BY <1>2, <2>1, ReportingAssumption
<1>5. ~ConfigurationPanics(f)
  BY <1>2 DEF ConfigurationPanics
<1>6. ASSUME f.workload = "timeseries", f.mode \in {"write", "mixed"}, f.maximumRate > 0
      PROVE  WorkerRate(f) # 0
  <2> SUFFICES f.maximumRate \div f.concurrency # 0
    BY DEF WorkerRate
  <2> DEFINE r == f.maximumRate
             n == f.concurrency
  <2>1. r \in Nat /\ n \in Nat /\ n > 0 /\ r >= n
    BY <1>4, <1>6 DEF SlowTimeSeries
  <2> HIDE DEF r, n
  <2>2. r \div n >= 1
    BY <2>1
  <2>3. r \div n # 0
    BY <2>2
  <2> QED BY <2>3 DEF r, n
<1>7. f.workload = "timeseries" => ~TimeSeriesPanics(f)
  <2> SUFFICES ASSUME f.workload = "timeseries"
               PROVE  ~TimeSeriesPanics(f)
    OBVIOUS
  <2>1. ~TimeSeriesRejected(f, o)
    BY <1>1 DEF Rejected
  <2>2. CASE f.mode = "read"
    <3>1. f.writeRate # 0
      BY <2>1, <2>2 DEF TimeSeriesRejected
    <3> QED BY <1>2, <2>2, <3>1 DEF TimeSeriesPanics
  <2>3. CASE f.mode = "write"
    <3>1. f.maximumRate # 0
      BY <2>1, <2>3 DEF TimeSeriesRejected
    <3>2. WorkerRate(f) # 0
      BY <1>4, <1>6, <2>3, <3>1
    <3> QED BY <2>3, <3>2 DEF TimeSeriesPanics
  <2>4. CASE f.mode = "mixed"
    <3>1. WorkerRate(f) # 0
      BY <1>2, <1>6, <2>4
    <3> QED BY <2>4, <3>1 DEF TimeSeriesPanics
  <2> QED BY <1>2, <2>2, <2>3, <2>4
<1>8. ~WorkloadPanics(f)
  BY <1>2, <1>3, <1>7 DEF WorkloadPanics, Workloads
<1>9. ASSUME NEW size \in Generated(f.rowSize)
      PROVE  ~ModePanics(f, size)
  <2>1. f.rowSize \in Distributions(Nat)
    BY FlagTypes, RowSizeTypes
  <2>2. size \in Nat /\ size >= f.rowSize.min /\ f.rowSize.min \in Nat
    BY <2>1, GeneratedTypes
  <2>3. f.mode \in {"write", "mixed"} /\ f.validateData => size # 0
    BY <2>2 DEF EmptyRows
  <2> QED BY <1>2, <2>3 DEF ModePanics
<1> QED BY <1>5, <1>8, <1>9 DEF Panicked

\* What the invariant says of the last property.
LEMMA MInvShows == MInv => AcceptedRuns
BY DescribedRuns DEF MInv, AcceptedRuns

\* The invariant holds when main begins.
LEMMA InitMInv == StartInit => MInv
<1> SUFFICES ASSUME StartInit
             PROVE  MInv
  OBVIOUS
<1>1. 0 \in 0 .. MaxConcurrency
  BY ReportingAssumption
<1>2. Init
  BY <1>1 DEF StartInit, Init
<1> QED BY <1>2, InitIInv DEF StartInit, MInv

\* Every step of main and of the run keeps the invariant.
LEMMA MInvStep == MInv /\ [MainNext]_allVars => MInv'
<1> SUFFICES ASSUME MInv, [MainNext]_allVars
             PROVE  MInv'
  OBVIOUS
<1>1. IInv
  BY DEF MInv
<1>2. UNCHANGED vars => UNCHANGED <<result, stack, stopTime, printer, field, line, shown,
                                     missed, main, summary, counted>>
  BY DEF vars, results, printing, ending
<1>3. UNCHANGED vars /\ InitResults => InitResults'
  BY <1>2 DEF InitResults
<1>4. CASE CheckFlags
  <2>1. IInv' /\ InitResults'
    BY <1>1, <1>3, <1>4, IInvStutter DEF CheckFlags, MInv
  <2>2. flags \in Flags
    BY <1>4 DEF CheckFlags, MInv
  <2>3. PICK o \in Options :
            IF Rejected(flags, Effective(flags), o)
            THEN phase' = "rejected" /\ UNCHANGED flags
            ELSE phase' = "connect" /\ flags' = Effective(flags)
    BY <1>4 DEF CheckFlags
  <2>4. CASE Rejected(flags, Effective(flags), o)
    BY <2>1, <2>3, <2>4 DEF MInv
  <2>5. CASE ~Rejected(flags, Effective(flags), o)
    <3>1. phase' = "connect" /\ flags' = Effective(flags)
      BY <2>3, <2>5
    <3>2. flags' \in Flags
      BY <2>2, <3>1, EffectiveTypes
    <3>3. Admitted(flags')
      BY <2>2, <2>5, <3>1 DEF Admitted
    <3>4. Admitted(flags)'
      BY <3>3 DEF Admitted
    <3> QED BY <2>1, <3>1, <3>2, <3>4 DEF MInv
  <2> QED BY <2>4, <2>5
<1>5. CASE Connect
  <2>1. IInv' /\ InitResults'
    BY <1>1, <1>3, <1>5, IInvStutter DEF Connect, MInv
  <2>2. /\ phase \in {"connect", "tables"} /\ phase' \in {"rejected", "tables", "results"}
        /\ flags' = flags
    BY <1>5 DEF Connect
  <2>3. flags \in Flags /\ Admitted(flags)
    BY <2>2 DEF MInv
  <2>4. Admitted(flags)'
    BY <2>2, <2>3 DEF Admitted
  <2> QED BY <2>1, <2>2, <2>3, <2>4 DEF MInv
<1>6. CASE Configure
  <2>1. flags \in Flags /\ Admitted(flags) /\ InitResults /\ flags' = flags
    BY <1>6 DEF Configure, MInv
  <2>2. Admitted(flags)'
    BY <2>1 DEF Admitted
  <2>3. CASE /\ phase' = "crashed" /\ ConfigurationPanics(flags) /\ UNCHANGED vars
    <3>1. IInv' /\ InitResults'
      BY <1>1, <1>3, <2>1, <2>3, IInvStutter
    <3>2. Panicked(flags)'
      BY <2>1, <2>3 DEF Panicked, ConfigurationPanics
    <3> QED BY <2>1, <2>2, <2>3, <3>1, <3>2 DEF MInv
  <2>4. CASE phase' = "rejected" /\ UNCHANGED vars
    <3>1. IInv' /\ InitResults'
      BY <1>1, <1>3, <2>1, <2>4, IInvStutter
    <3> QED BY <2>4, <3>1 DEF MInv
  <2>5. CASE /\ phase' = "launch" /\ measureLatency' \in BOOLEAN
             /\ waitGroup' = flags.concurrency
             /\ at' = [w \in Workers |-> IF w < flags.concurrency THEN "between" ELSE "stopped"]
             /\ UNCHANGED <<result, stack, printing, ending, counted>>
    <3>1. InitResults'
      BY <2>1, <2>5 DEF InitResults, printing, ending
    <3>2. flags.concurrency \in 0 .. MaxConcurrency
      BY <2>1, FlagTypes
    <3>3. StartWorkers(flags.concurrency)'
      BY <2>1, <2>5 DEF StartWorkers
    <3>4. Init'
      BY <2>1, <2>5, <3>1, <3>2, <3>3 DEF Init
    <3>5. IInv'
      BY <3>4, InitIInvNext
    <3> QED BY <2>1, <2>2, <2>5, <3>1, <3>5 DEF MInv
  <2> QED BY <1>6, <2>3, <2>4, <2>5 DEF Configure
<1>7. CASE Launch
  <2>1. flags \in Flags /\ Admitted(flags) /\ InitResults /\ UNCHANGED vars
    BY <1>7 DEF Launch, MInv
  <2>2. IInv' /\ InitResults'
    BY <1>1, <1>3, <2>1, IInvStutter
  <2> PICK size \in Generated(flags.rowSize) :
          IF flags.concurrency > 0 /\ (WorkloadPanics(flags) \/ ModePanics(flags, size))
          THEN phase' = "crashed" /\ UNCHANGED flags
          ELSE phase' = "run" /\ flags' = NoFlags
    BY <1>7 DEF Launch
  <2>3. CASE flags.concurrency > 0 /\ (WorkloadPanics(flags) \/ ModePanics(flags, size))
    <3>1. phase' = "crashed" /\ flags' = flags
      BY <2>3
    <3>2. Admitted(flags)' /\ Panicked(flags)
      BY <2>1, <2>3, <3>1 DEF Admitted, Panicked
    <3>3. Panicked(flags')
      BY <3>1, <3>2
    <3> QED BY <2>1, <2>2, <3>1, <3>2, <3>3 DEF MInv
  <2>4. CASE ~(flags.concurrency > 0 /\ (WorkloadPanics(flags) \/ ModePanics(flags, size)))
    <3>1. phase' = "run"
      BY <2>4
    <3> QED BY <2>2, <3>1 DEF MInv
  <2> QED BY <2>3, <2>4
<1>8. CASE phase = "run" /\ main # "exit" /\ RunNext /\ UNCHANGED mainVars
  <2>1. IInv'
    BY <1>1, <1>8, IInvStep
  <2>2. phase' = "run"
    BY <1>8 DEF mainVars
  <2> QED BY <2>1, <2>2 DEF MInv
<1>9. CASE UNCHANGED allVars
  <2>1. UNCHANGED vars /\ flags' = flags /\ phase' = phase
    BY <1>9 DEF allVars, mainVars
  <2>2. IInv' /\ (phase' # "run" => InitResults')
    BY <1>1, <1>3, <2>1, IInvStutter DEF MInv
  <2>3. Admitted(flags') <=> Admitted(flags)
    BY <2>1
  <2> QED BY <2>1, <2>2, <2>3 DEF MInv
<1> QED
  BY <1>4, <1>5, <1>6, <1>7, <1>8, <1>9 DEF MainNext, StartNext

\* The invariant holds throughout.
LEMMA Invariant == MainSpec => []MInv
BY InitMInv, MInvStep, PTL DEF MainSpec

\* The variables of the reporting have their types: above all the wait group never
\* falls below 0 (testrun.go:66, worker.go:40-44).
THEOREM TypeCorrect == MainSpec => []TypeOK
<1>1. MInv => TypeOK
  BY IInvShows DEF MInv
<1> QED BY <1>1, Invariant, PTL

\* The summary has all that the workers counted and all their samples
\* (worker.go:40-58, testrun.go:95-101).
THEOREM SummaryCompleteCorrect == MainSpec => []SummaryComplete
<1>1. MInv => SummaryComplete
  BY IInvShows DEF MInv
<1> QED BY <1>1, Invariant, PTL

\* Nothing is in two lines (testrun.go:108-117, result.go:148-173).
THEOREM ShownOnceCorrect == MainSpec => []ShownOnce
<1>1. MInv => ShownOnce
  BY IInvShows DEF MInv
<1> QED BY <1>1, Invariant, PTL

\* With the last line everything is shown but what fell between the reading of a
\* field and the reset of it (testrun.go:111-115).
THEOREM LinesCompleteCorrect == MainSpec => []LinesComplete
<1>1. MInv => LinesComplete
  BY IInvShows DEF MInv
<1> QED BY <1>1, Invariant, PTL

\* Flags as README.md describes them that pass the checks of main crash nothing,
\* whatever the numbers are (main.go:637-718 against main.go:177-292), but for counts
\* of zero, time series writes slower than one operation per second for each goroutine
\* and rows of no bytes that are to be validated.
THEOREM AcceptedRunsCorrect == MainSpec => []AcceptedRuns
BY MInvShows, Invariant, PTL

\* Whatever distribution of sizes main lets pass, the workers draw its sizes evenly,
\* for every width of the words (random.go:333-338, 418-430).
THEOREM SizesEvenlyDrawnCorrect == MainSpec => []SizesEvenlyDrawn
<1>1. MInv => SizesEvenlyDrawn
  <2> SUFFICES ASSUME MInv, phase = "launch"
               PROVE  EvenlyDrawn(flags.rowSize)
    BY DEF SizesEvenlyDrawn
  <2>1. flags.rowSize \in Distributions(RowSizes)
    BY FlagTypes DEF MInv
  <2> QED BY <2>1, RowSizeTypes, EvenlyDrawnCorrect
<1> QED BY <1>1, Invariant, PTL

\* The same of the reporting alone, from any start of the workers.
THEOREM ReportingCorrect ==
    Spec => [](TypeOK /\ SummaryComplete /\ ShownOnce /\ LinesComplete)
<1>1. IInv /\ [Next]_vars => IInv'
  BY IInvStep, IInvStutter DEF Next
<1> QED BY <1>1, InitIInv, IInvShows, PTL DEF Spec
=============================================================================
