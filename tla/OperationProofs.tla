-------------------------- MODULE OperationProofs --------------------------
(***************************************************************************)
(* Proofs about an operation and the row it is about.  First TestFunction,  *)
(* for any set of workers, any mode, handler and number of retries: when an *)
(* operation has failed, that it comes to its end, what is counted and      *)
(* recorded of it, and the rows and halves it stands for.  Then RowData, for any widths, multipliers,    *)
(* shifts, sizes and keys: what is written validates, a fault is detected,  *)
(* and random data is not zero.                                             *)
(***************************************************************************)
EXTENDS TestFunction, RowData, NumberLemmas, SequenceTheorems, FiniteSetTheorems, TLAPS

-----------------------------------------------------------------------------
(* Types *)

\* The powers of two are natural numbers, none of them 0.
LEMMA PowersPositive == \A k \in 0 .. RetryNumber : Power[k] \in Nat \ {0}
<1> DEFINE next == [k \in 1 .. RetryNumber |-> [v \in Nat |-> 2 * v]]
<1>0. RetryNumber \in Nat
  BY TestAssumption
<1>1. \A k \in 1 .. RetryNumber : \A v \in Nat : next[k][v] = 2 * v
  OBVIOUS
<1> HIDE DEF next
<1>2. PICK f : Recursive(f, RetryNumber, 1, next)
  BY <1>0, Recursion
<1>3. /\ f = [k \in 0 .. RetryNumber |-> f[k]]
      /\ f[0] = 1
      /\ \A k \in 1 .. RetryNumber : f[k] = next[k][f[k - 1]]
  BY <1>2 DEF Recursive
<1>4. \A k \in 0 .. RetryNumber : f[k] \in Nat
  <2> DEFINE S == {k \in Nat : k <= RetryNumber => f[k] \in Nat}
  <2>1. 0 \in S
    BY <1>3
  <2>2. ASSUME NEW k \in Nat, k \in S PROVE k + 1 \in S
    <3> SUFFICES ASSUME k + 1 <= RetryNumber PROVE f[k + 1] \in Nat
      OBVIOUS
    <3>1. k + 1 \in 1 .. RetryNumber /\ (k + 1) - 1 = k /\ f[k] \in Nat
      BY <1>0, <2>2
    <3>2. f[k + 1] = 2 * f[k]
      BY <1>1, <1>3, <3>1
    <3> QED BY <3>1, <3>2
  <2> HIDE DEF S
  <2>3. Nat \subseteq S
    BY <2>1, <2>2, Induction
  <2>4. ASSUME NEW k \in 0 .. RetryNumber PROVE f[k] \in Nat
    <3>1. k \in S
      BY <2>3
    <3> QED BY <3>1 DEF S
  <2> QED BY <2>4
<1>5. ASSUME NEW k \in 0 .. RetryNumber
      PROVE  f[k] = IF k = 0 THEN 1 ELSE 2 * f[k - 1]
  <2>1. k # 0 => k \in 1 .. RetryNumber /\ f[k - 1] \in Nat
    BY <1>0, <1>4
  <2> QED BY <1>1, <1>3, <2>1
<1>6. f = [k \in 0 .. RetryNumber |-> IF k = 0 THEN 1 ELSE 2 * f[k - 1]]
  BY <1>3, <1>5
<1>7. Power = [k \in 0 .. RetryNumber |-> IF k = 0 THEN 1 ELSE 2 * Power[k - 1]]
  <2>1. \E g : g = [k \in 0 .. RetryNumber |-> IF k = 0 THEN 1 ELSE 2 * g[k - 1]]
    BY <1>6
  <2> QED BY <2>1 DEF Power
<1>8. /\ Power[0] = 1
      /\ \A k \in 1 .. RetryNumber : Power[k] = 2 * Power[k - 1]
  BY <1>0, <1>7
<1> HIDE DEF Power
<1> DEFINE S == {k \in Nat : k <= RetryNumber => Power[k] \in Nat \ {0}}
<1>9. 0 \in S
  BY <1>8
<1>10. ASSUME NEW k \in Nat, k \in S PROVE k + 1 \in S
  <2> SUFFICES ASSUME k + 1 <= RetryNumber PROVE Power[k + 1] \in Nat \ {0}
    OBVIOUS
  <2>1. k + 1 \in 1 .. RetryNumber /\ (k + 1) - 1 = k /\ Power[k] \in Nat \ {0}
    BY <1>0, <1>10
  <2>2. Power[k + 1] = 2 * Power[k]
    BY <1>8, <2>1
  <2> QED BY <2>1, <2>2
<1> HIDE DEF S
<1>11. Nat \subseteq S
  BY <1>9, <1>10, Induction
<1>12. ASSUME NEW k \in 0 .. RetryNumber PROVE Power[k] \in Nat \ {0}
  <2>1. k \in S
    BY <1>11
  <2> QED BY <2>1 DEF S
<1> QED BY <1>12

\* A sleep is neither negative nor longer than the maximum.
LEMMA NapsBounded ==
    ASSUME TypeOK, NEW w \in Workers
    PROVE  Naps(w) \subseteq 0 .. MaxInterval
<1> SUFFICES ASSUME NEW jitter \in -HalfMin .. HalfMin - 1
             PROVE  LET n == HalfMin * Power[attempts[w]] + jitter
                    IN  (IF n > MaxInterval THEN MaxInterval ELSE n) \in 0 .. MaxInterval
  BY DEF Naps
<1>1. HalfMin \in Nat \ {0} /\ MaxInterval \in Nat
  BY TestAssumption
<1>2. attempts[w] \in 0 .. RetryNumber
  BY DEF TypeOK
<1>3. PICK p \in Nat \ {0} : p = Power[attempts[w]]
  BY <1>2, PowersPositive
<1>4. HalfMin * p >= HalfMin /\ HalfMin * p \in Nat
  <2>1. PICK q \in Nat : p = q + 1
    <3>1. p - 1 \in Nat /\ p = (p - 1) + 1
      OBVIOUS
    <3> QED BY <3>1
  <2>2. HalfMin * (q + 1) = HalfMin * q + HalfMin /\ HalfMin * q \in Nat
    BY <1>1
  <2> QED BY <1>1, <2>1, <2>2
<1>5. jitter \in Int /\ jitter >= -HalfMin
  BY <1>1
<1> QED BY <1>1, <1>3, <1>4, <1>5

\* Retries are scylla-bench's own, a worker sleeps only before one, an operation that
\* fails has none left and reports no latency, and a failed request, but for a read
\* of read mode, leads to a retry or to an error.
LocalsOK ==
    \A w \in Workers :
        /\ attempts[w] # 0 => retryHandler = "sb"
        /\ pc[w] = "sleep" => Retries(w)
        /\ pc[w] = "retry" => failed[w]
        /\ pc[w] = "return" /\ result[w].err = "error" =>
              failed[w] /\ ~Retries(w) /\ result[w].latency = 0
        /\ pc[w] \in {"idle", "build"} => ~failed[w]
        /\ pc[w] = "succeed" => ~failed[w] \/ mode = "read"
        /\ pc[w] = "return" /\ failed[w] /\ mode # "read" => result[w].err = "error"

\* Every step keeps the types: a retry is counted only while some are left.
LEMMA TypeStep == TypeOK /\ LocalsOK /\ [Next]_vars => TypeOK'
<1> SUFFICES ASSUME TypeOK, LocalsOK, [Next]_vars PROVE TypeOK'
  OBVIOUS
<1> USE TestAssumption
<1>1. ASSUME NEW w \in Workers, Begin(w) PROVE TypeOK'
  <2>1. KindOf(NewCount) \in Kinds
    BY DEF KindOf, Kinds
  <2>2. begun' \in [Kinds -> Nat]
    <3>1. begun[KindOf(NewCount)] + 1 \in Nat
      BY <2>1 DEF TypeOK
    <3> QED BY <1>1, <2>1, <3>1 DEF Begin, TypeOK
  <2>3. batchSize' \in [Workers -> 0 .. RowsPerRequest]
    BY <1>1 DEF Begin, TypeOK
  <2>4. kind' \in [Workers -> Kinds]
    BY <1>1, <2>1 DEF Begin, TypeOK
  <2> QED BY <1>1, <2>2, <2>3, <2>4 DEF Begin, NewCount, At, flags, PcValues, TypeOK
<1>2. ASSUME NEW w \in Workers, AddToBatch(w) PROVE TypeOK'
  <2>1. batchSize' \in [Workers -> 0 .. RowsPerRequest]
    BY <1>2 DEF AddToBatch, TypeOK
  <2> QED BY <1>2, <2>1 DEF AddToBatch, At, flags, counters, PcValues, TypeOK
<1>3. ASSUME NEW w \in Workers, BatchBuilt(w) \/ CloseIter(w) \/ ScanAgain(w) PROVE TypeOK'
  BY <1>3 DEF BatchBuilt, CloseIter, ScanAgain, At, flags, operation, counters, PcValues, TypeOK
<1>4. ASSUME NEW w \in Workers, NEW err \in {"nil", "skip", "error"},
             NEW latency \in Durations \cup {0}, Return(w, err, latency)
      PROVE  /\ result' \in [Workers -> [err : {"nil", "skip", "error"},
                                         latency : Durations \cup {0}]]
             /\ nap' \in [Workers -> 0 .. MaxInterval]
  BY <1>4 DEF Return, TypeOK
<1>5. ASSUME NEW w \in Workers, DropBatch(w) \/ Fail(w) PROVE TypeOK'
  <2>1. \/ Return(w, "skip", 0) \/ Return(w, "error", 0)
    BY <1>5 DEF DropBatch, Fail
  <2> QED BY <1>4, <1>5, <2>1 DEF DropBatch, Fail, At, flags, counters, PcValues, TypeOK
<1>6. ASSUME NEW w \in Workers, Send(w) PROVE TypeOK'
  <2>1. failed' \in [Workers -> BOOLEAN] /\ took' \in [Workers -> Durations \cup {0}]
    BY <1>6 DEF Send, TypeOK
  <2>2. pc' \in [Workers -> PcValues]
    BY <1>6 DEF Send, PcValues, TypeOK
  <2> QED BY <1>6, <2>1, <2>2 DEF Send, flags, counters, TypeOK
<1>7. ASSUME NEW w \in Workers, ScanRow(w) PROVE TypeOK'
  <2>1. rows' \in Nat /\ errors' \in Nat
    BY <1>7 DEF ScanRow, TypeOK
  <2> QED BY <1>7, <2>1 DEF ScanRow, At, flags, operation, PcValues, TypeOK
<1>8. ASSUME NEW w \in Workers, Sleep(w) PROVE TypeOK'
  <2>1. nap' \in [Workers -> 0 .. MaxInterval]
    BY <1>8, NapsBounded DEF Sleep, TypeOK
  <2> QED BY <1>8, <2>1 DEF Sleep, At, flags, counters, PcValues, TypeOK
<1>9. ASSUME NEW w \in Workers, TryAgain(w) PROVE TypeOK'
  <2>1. attempts[w] < RetryNumber
    BY <1>9 DEF TryAgain, At, LocalsOK, Retries
  <2>2. attempts' \in [Workers -> 0 .. RetryNumber] /\ nap' \in [Workers -> 0 .. MaxInterval]
    BY <1>9, <2>1 DEF TryAgain, TypeOK
  <2> QED BY <1>9, <2>2 DEF TryAgain, At, flags, counters, PcValues, TypeOK
<1>10. ASSUME NEW w \in Workers, NEW stacks, RecordIn(stacks)
       PROVE  samples' \in [Stacks -> Nat]
  BY <1>10 DEF RecordIn, TypeOK
<1>11. ASSUME NEW w \in Workers, Succeed(w) PROVE TypeOK'
  <2>1. samples' \in [Stacks -> Nat]
    BY <1>10, <1>11 DEF Succeed
  <2>2. Return(w, "nil", took[w]) /\ took[w] \in Durations \cup {0}
    BY <1>11 DEF Succeed, TypeOK
  <2>3. WrittenRows(w) \in Nat
    BY DEF WrittenRows, TypeOK
  <2>4. rows' \in Nat /\ ops' \in Nat
    BY <1>11, <2>3 DEF Succeed, TypeOK
  <2> QED BY <1>4, <1>11, <2>1, <2>2, <2>4 DEF Succeed, At, flags, PcValues, TypeOK
<1>12. ASSUME NEW w \in Workers, Register(w) PROVE TypeOK'
  <2>1. result[w].err \in {"nil", "skip", "error"}
    BY DEF TypeOK
  <2>2. samples' \in [Stacks -> Nat]
    BY <1>10, <1>12, <2>1 DEF Register, TypeOK
  <2>3. skipped' \in Nat /\ errors' \in Nat /\ totalErrors' \in Nat
    <3>1. skipped \in Nat /\ errors \in Nat /\ totalErrors \in Nat
      BY DEF TypeOK
    <3>2. CASE result[w].err = "nil"
      BY <1>12, <3>1, <3>2 DEF Register
    <3>3. CASE result[w].err = "skip"
      BY <1>12, <3>1, <3>3 DEF Register
    <3>4. CASE result[w].err = "error"
      BY <1>12, <3>1, <3>4 DEF Register
    <3> QED BY <2>1, <3>2, <3>3, <3>4
  <2>4. NoResult \in [err : {"nil", "skip", "error"}, latency : Durations \cup {0}]
    BY DEF NoResult
  <2>5. /\ kind' \in [Workers -> Kinds] /\ batchSize' \in [Workers -> 0 .. RowsPerRequest]
        /\ attempts' \in [Workers -> 0 .. RetryNumber] /\ failed' \in [Workers -> BOOLEAN]
        /\ took' \in [Workers -> Durations \cup {0}]
        /\ result' \in [Workers -> [err : {"nil", "skip", "error"},
                                    latency : Durations \cup {0}]]
    BY <1>12, <2>4 DEF Register, Kinds, TypeOK
  <2> QED BY <1>12, <2>2, <2>3, <2>5 DEF Register, At, flags, PcValues, TypeOK
<1>13. ASSUME Stop \/ UNCHANGED vars PROVE TypeOK'
  BY <1>13 DEF Stop, vars, flags, operation, counters, TypeOK
<1> QED BY <1>1, <1>2, <1>3, <1>5, <1>6, <1>7, <1>8, <1>9, <1>11, <1>12, <1>13
        DEF Next, WorkerNext

\* Every step keeps the facts about the locals.
LEMMA LocalsStep == TypeOK /\ LocalsOK /\ [Next]_vars => LocalsOK'
<1> SUFFICES ASSUME TypeOK, LocalsOK, [Next]_vars, NEW w \in Workers
             PROVE  /\ attempts'[w] # 0 => retryHandler' = "sb"
                    /\ pc'[w] = "sleep" => Retries(w)'
                    /\ pc'[w] = "retry" => failed'[w]
                    /\ pc'[w] = "return" /\ result'[w].err = "error" =>
                          failed'[w] /\ ~Retries(w)' /\ result'[w].latency = 0
                    /\ pc'[w] \in {"idle", "build"} => ~failed'[w]
                    /\ pc'[w] = "succeed" => ~failed'[w] \/ mode' = "read"
                    /\ pc'[w] = "return" /\ failed'[w] /\ mode' # "read" =>
                          result'[w].err = "error"
  BY DEF LocalsOK
<1> USE DEF LocalsOK, Retries
<1>1. ASSUME NEW v \in Workers, WorkerNext(v), v # w
      PROVE  /\ UNCHANGED <<flags, attempts[w], pc[w], failed[w], result[w]>>
  BY <1>1 DEF WorkerNext, Begin, AddToBatch, BatchBuilt, DropBatch, Send, ScanRow,
     CloseIter, Sleep, TryAgain, ScanAgain, Fail, Succeed, Register, Return, At, flags,
     operation, counters, TypeOK
<1>2. CASE Begin(w) \/ AddToBatch(w) \/ BatchBuilt(w) \/ ScanRow(w) \/ Sleep(w)
           \/ ScanAgain(w)
  BY <1>2 DEF Begin, AddToBatch, BatchBuilt, ScanRow, Sleep, ScanAgain, At, flags,
     operation, counters, TypeOK
<1>3. CASE CloseIter(w)
  BY <1>3 DEF CloseIter, At, flags, operation, counters, TypeOK
<1>9. CASE Send(w)
  <2>1. PICK f \in BOOLEAN :
          /\ failed' = [failed EXCEPT ![w] = f]
          /\ pc' = [pc EXCEPT ![w] = CASE kind[w] = "read" -> "scan"
                                       [] kind[w] = "write" /\ f -> "retry"
                                       [] OTHER -> "succeed"]
    BY <1>9 DEF Send
  <2>2. failed'[w] = f /\ kind[w] \in {"read", "write"}
    BY <2>1 DEF Kinds, TypeOK
  <2>3. /\ kind[w] = "read" => pc'[w] = "scan"
        /\ kind[w] = "write" /\ f => pc'[w] = "retry"
        /\ kind[w] = "write" /\ ~f => pc'[w] = "succeed"
    BY <2>1 DEF TypeOK
  <2> QED BY <1>9, <2>2, <2>3 DEF Send, flags, counters
<1>4. CASE DropBatch(w) \/ Succeed(w)
  BY <1>4 DEF DropBatch, Succeed, Return, At, flags, counters, TypeOK
<1>5. CASE Fail(w)
  BY <1>5 DEF Fail, Return, Retries, At, flags, counters, TypeOK
<1>6. CASE TryAgain(w)
  BY <1>6, TestAssumption DEF TryAgain, At, flags, counters, TypeOK
<1>7. CASE Register(w)
  BY <1>7 DEF Register, At, flags, TypeOK
<1>8. CASE Stop \/ UNCHANGED vars
  BY <1>8 DEF Stop, vars, flags, operation, counters
<1>10. CASE \E v \in Workers : v # w /\ WorkerNext(v)
  BY <1>1, <1>10 DEF flags
<1> QED BY <1>2, <1>3, <1>4, <1>5, <1>6, <1>7, <1>8, <1>9, <1>10 DEF Next, WorkerNext

\* The types and the facts about the locals hold in every state.
LEMMA LocalsCorrect == Spec => [](TypeOK /\ LocalsOK)
<1>1. Init => TypeOK /\ LocalsOK
  <2> SUFFICES ASSUME Init PROVE TypeOK /\ LocalsOK
    OBVIOUS
  <2>1. NoResult \in [err : {"nil", "skip", "error"}, latency : Durations \cup {0}]
    BY DEF NoResult
  <2>2. TypeOK
    <3>1. 0 \in 0 .. RowsPerRequest /\ 0 \in 0 .. RetryNumber /\ 0 \in 0 .. MaxInterval
      BY TestAssumption
    <3>2. "write" \in Kinds /\ "idle" \in PcValues /\ 0 \in Nat /\ 0 \in Durations \cup {0}
      BY DEF Kinds, PcValues
    <3> QED BY <2>1, <3>1, <3>2 DEF Init, TypeOK
  <2>3. LocalsOK
    BY DEF Init, LocalsOK
  <2> QED BY <2>2, <2>3
<1>2. TypeOK /\ LocalsOK /\ [Next]_vars => (TypeOK /\ LocalsOK)'
  BY TypeStep, LocalsStep
<1> QED BY <1>1, <1>2, PTL DEF Spec

\* The types are as declared, the sleeps within their bounds (modes.go:175-194).
THEOREM TypeCorrect == Spec => []TypeOK
BY LocalsCorrect, PTL

\* An operation is reported as failed only when its last request failed and its
\* retries are used up, and a failed request of any mode but read is never taken for
\* a success (modes.go:437-454).
THEOREM ErrorsAreFinalCorrect == Spec => []ErrorsAreFinal
<1>1. TypeOK /\ LocalsOK => ErrorsAreFinal
  <2> SUFFICES ASSUME TypeOK, LocalsOK, NEW w \in Workers, pc[w] = "return"
               PROVE  /\ result[w].err = "error" =>
                            /\ failed[w]
                            /\ attempts[w] = IF retryHandler = "sb" THEN RetryNumber ELSE 0
                      /\ failed[w] /\ mode # "read" => result[w].err = "error"
    BY DEF ErrorsAreFinal
  <2>1. attempts[w] \in 0 .. RetryNumber /\ RetryNumber \in Nat
    BY TestAssumption DEF TypeOK
  <2>2. result[w].err = "error" =>
            failed[w] /\ ~Retries(w) /\ (attempts[w] # 0 => retryHandler = "sb")
    BY DEF LocalsOK
  <2>3. failed[w] /\ mode # "read" => result[w].err = "error"
    BY DEF LocalsOK
  <2> QED BY <2>1, <2>2, <2>3 DEF Retries
<1> QED BY <1>1, LocalsCorrect, PTL

-----------------------------------------------------------------------------
(* The end of an operation *)

\* A scan that leaves the retries to the driver goes on while its requests fail.
Endless == mode = "scan" /\ retryHandler # "sb"

\* How much of its operation is left to a worker: its retries, the rows of its batch
\* and the steps of one attempt.
RetriesLeft(w) == IF retryHandler = "sb" THEN RetryNumber - attempts[w] ELSE 0
RowsLeft(w) == IF pc[w] = "build" THEN RowsPerRequest - batchSize[w] ELSE 0
Stage(w) ==
    CASE pc[w] = "build" -> 6
      [] pc[w] = "send" -> 5
      [] pc[w] = "scan" -> 4
      [] pc[w] = "retry" -> 3
      [] pc[w] \in {"sleep", "succeed"} -> 2
      [] OTHER -> 1
Left(w) ==
    IF pc[w] = "idle" THEN 0 ELSE 5 * RetriesLeft(w) + Stage(w) + RowsLeft(w)

\* What is left is a natural number that nobody makes larger and that the worker's own
\* steps make smaller, the rows of an answer excepted.
OperationShrinks ==
    \A w \in Workers : pc[w] # "idle" /\ ~Endless =>
        /\ Left(w)' \in Nat /\ Left(w)' <= Left(w)
        /\ WorkerNext(w) /\ ~ScanRow(w) => Left(w)' < Left(w)

LeftOK ==
    \A w \in Workers : /\ RetriesLeft(w) \in Nat /\ RowsLeft(w) \in Nat
                       /\ Stage(w) \in 1 .. 6 /\ Left(w) \in Nat

\* What is left of an operation is a natural number.
LEMMA LeftIsNat == TypeOK => LeftOK
<1> SUFFICES ASSUME TypeOK, NEW w \in Workers
             PROVE  /\ RetriesLeft(w) \in Nat /\ RowsLeft(w) \in Nat
                    /\ Stage(w) \in 1 .. 6 /\ Left(w) \in Nat
  BY DEF LeftOK
<1>1. attempts[w] \in 0 .. RetryNumber /\ batchSize[w] \in 0 .. RowsPerRequest
  BY DEF TypeOK
<1>2. RetriesLeft(w) \in Nat /\ RowsLeft(w) \in Nat
  BY <1>1, TestAssumption DEF RetriesLeft, RowsLeft
<1>3. Stage(w) \in 1 .. 6
  BY DEF Stage
<1> QED BY <1>2, <1>3 DEF Left

\* The step of another worker, or of nobody, leaves as much.
LEMMA LeftToOthers ==
    ASSUME TypeOK, NEW w \in Workers, [Next]_vars, ~WorkerNext(w)
    PROVE  Left(w)' = Left(w)
<1>1. UNCHANGED <<pc[w], attempts[w], batchSize[w], retryHandler>>
  <2>1. ASSUME NEW v \in Workers, WorkerNext(v), v # w
        PROVE  UNCHANGED <<pc[w], attempts[w], batchSize[w], retryHandler>>
    BY <2>1 DEF WorkerNext, Begin, AddToBatch, BatchBuilt, DropBatch, Send, ScanRow,
       CloseIter, Sleep, TryAgain, ScanAgain, Fail, Succeed, Register, Return, At, flags,
       operation, counters, TypeOK
  <2>2. CASE Stop \/ UNCHANGED vars
    BY <2>2 DEF Stop, vars, flags, operation
  <2> QED BY <2>1, <2>2 DEF Next
<1> QED BY <1>1 DEF Left, RetriesLeft, RowsLeft, Stage

\* A step of an operation leaves less of it.
LEMMA StepShrinks ==
    ASSUME TypeOK, LocalsOK, LeftOK, LeftOK', NEW w \in Workers, WorkerNext(w),
           pc[w] # "idle", ~Endless
    PROVE  Left(w)' <= Left(w) /\ (~ScanRow(w) => Left(w)' < Left(w))
<1>1. /\ RetriesLeft(w) \in Nat /\ RowsLeft(w) \in Nat /\ Stage(w) \in 1 .. 6
      /\ RetriesLeft(w)' \in Nat /\ RowsLeft(w)' \in Nat /\ Stage(w)' \in 1 .. 6
      /\ Left(w) = 5 * RetriesLeft(w) + Stage(w) + RowsLeft(w) /\ Left(w) \in Nat
      /\ Left(w)' = IF pc'[w] = "idle" THEN 0
                    ELSE 5 * RetriesLeft(w)' + Stage(w)' + RowsLeft(w)'
  BY DEF LeftOK, Left
<1>2. /\ attempts[w] \in 0 .. RetryNumber /\ batchSize[w] \in 0 .. RowsPerRequest
      /\ RetryNumber \in Nat /\ RowsPerRequest \in Nat /\ pc \in [Workers -> PcValues]
      /\ attempts \in [Workers -> 0 .. RetryNumber]
      /\ batchSize \in [Workers -> 0 .. RowsPerRequest]
  BY TestAssumption DEF TypeOK
<1>3. CASE AddToBatch(w)
  <2>1. /\ pc[w] = "build" /\ pc'[w] = "build" /\ batchSize[w] < RowsPerRequest
        /\ batchSize'[w] = batchSize[w] + 1 /\ UNCHANGED <<attempts, retryHandler>>
    BY <1>2, <1>3 DEF AddToBatch, At, flags
  <2>2. RowsLeft(w)' < RowsLeft(w) /\ RetriesLeft(w)' = RetriesLeft(w) /\ Stage(w)' = Stage(w)
    BY <1>2, <2>1 DEF RowsLeft, RetriesLeft, Stage
  <2> QED BY <1>1, <2>1, <2>2
<1>4. ASSUME UNCHANGED <<attempts[w], retryHandler>>, pc'[w] # "build",
             pc'[w] = "idle" \/ Stage(w)' < Stage(w)
      PROVE  Left(w)' < Left(w)
  <2>1. RetriesLeft(w)' = RetriesLeft(w) /\ RowsLeft(w)' = 0
    BY <1>4 DEF RetriesLeft, RowsLeft
  <2> QED BY <1>1, <1>4, <2>1
<1>5. CASE BatchBuilt(w) \/ DropBatch(w) \/ CloseIter(w) \/ Sleep(w) \/ Fail(w) \/ Succeed(w)
  <2>1. UNCHANGED <<attempts, retryHandler>>
    BY <1>5 DEF BatchBuilt, DropBatch, CloseIter, Sleep, Fail, Succeed, flags, operation
  <2>2. /\ pc'[w] # "build"
        /\ \/ pc[w] = "build" /\ pc'[w] \in {"send", "return"}
           \/ pc[w] = "scan" /\ pc'[w] \in {"retry", "succeed"}
           \/ pc[w] = "retry" /\ pc'[w] \in {"sleep", "return"}
           \/ pc[w] = "succeed" /\ pc'[w] = "return"
    BY <1>2, <1>5 DEF BatchBuilt, DropBatch, CloseIter, Sleep, Fail, Succeed, At
  <2>3. Stage(w)' < Stage(w)
    BY <2>2 DEF Stage
  <2> QED BY <1>1, <1>4, <2>1, <2>2, <2>3
<1>6. CASE Send(w)
  <2>1. /\ UNCHANGED <<attempts, retryHandler>> /\ pc[w] = "send"
        /\ pc'[w] \in {"scan", "retry", "succeed"}
    BY <1>2, <1>6 DEF Send, flags
  <2>2. Stage(w)' < Stage(w)
    BY <2>1 DEF Stage
  <2> QED BY <1>1, <1>4, <2>1, <2>2
<1>7. CASE TryAgain(w)
  <2>1. /\ pc[w] = "sleep" /\ pc'[w] = "send" /\ attempts'[w] = attempts[w] + 1
        /\ retryHandler' = retryHandler
    BY <1>2, <1>7 DEF TryAgain, At, flags
  <2>2. retryHandler = "sb"
    BY <2>1 DEF LocalsOK, Retries
  <2>3. RetriesLeft(w)' = RetriesLeft(w) - 1 /\ RowsLeft(w)' = 0
    BY <1>2, <2>1, <2>2 DEF RetriesLeft, RowsLeft
  <2>4. Stage(w) = 2 /\ Stage(w)' = 5
    BY <2>1 DEF Stage
  <2> QED BY <1>1, <2>1, <2>3, <2>4
<1>8. CASE Register(w)
  <2>1. pc'[w] = "idle" /\ pc[w] = "return"
    BY <1>2, <1>8 DEF Register, At
  <2> QED BY <1>1, <2>1
<1>9. CASE ScanRow(w)
  <2>1. UNCHANGED <<attempts, retryHandler, batchSize>> /\ pc[w] = "scan" /\ pc'[w] = "scan"
    BY <1>2, <1>9 DEF ScanRow, At, flags, operation
  <2>2. Left(w)' = Left(w)
    BY <2>1 DEF Left, RetriesLeft, RowsLeft, Stage
  <2> QED BY <1>1, <1>9, <2>2
<1>10. ~Begin(w) /\ ~ScanAgain(w)
  BY DEF Begin, ScanAgain, At, Endless
<1> QED BY <1>3, <1>5, <1>6, <1>7, <1>8, <1>9, <1>10, <1>1 DEF WorkerNext

\* An operation makes a bounded number of steps besides the rows it reads, whatever the
\* number of retries, the size of a batch and the failures (modes.go:437-454): the
\* retry loop ends without any help of the model's bounds.
THEOREM OperationShrinksCorrect == Spec => [][OperationShrinks]_vars
<1>1. TypeOK /\ LocalsOK /\ LeftOK /\ LeftOK' /\ [Next]_vars => [OperationShrinks]_vars
  <2> SUFFICES ASSUME TypeOK, LocalsOK, LeftOK, LeftOK', [Next]_vars, NEW w \in Workers,
                      pc[w] # "idle", ~Endless
               PROVE  /\ Left(w)' \in Nat /\ Left(w)' <= Left(w)
                      /\ WorkerNext(w) /\ ~ScanRow(w) => Left(w)' < Left(w)
    BY DEF OperationShrinks
  <2>1. Left(w) \in Nat /\ Left(w)' \in Nat
    BY DEF LeftOK
  <2>2. CASE WorkerNext(w)
    BY <2>1, <2>2, StepShrinks
  <2>3. CASE ~WorkerNext(w)
    BY <2>1, <2>3, LeftToOthers
  <2> QED BY <2>2, <2>3
<1> QED BY <1>1, LeftIsNat, LocalsCorrect, PTL DEF Spec

-----------------------------------------------------------------------------
(* What is counted and recorded *)

Done == {w \in Workers : Returned(w)}

\* Both sets of workers are finite, and so are theirs with one worker more or less.
LEMMA Counts ==
    /\ IsFiniteSet(Done) /\ Cardinality(Done) \in Nat
    /\ IsFiniteSet(Unaccounted) /\ Cardinality(Unaccounted) \in Nat
    /\ \A w : /\ Cardinality(Done \cup {w})
                     = Cardinality(Done) + (IF w \in Done THEN 0 ELSE 1)
              /\ Cardinality(Done \ {w})
                     = Cardinality(Done) - (IF w \in Done THEN 1 ELSE 0)
              /\ Cardinality(Unaccounted \cup {w})
                     = Cardinality(Unaccounted) + (IF w \in Unaccounted THEN 0 ELSE 1)
              /\ Cardinality(Unaccounted \ {w})
                     = Cardinality(Unaccounted) - (IF w \in Unaccounted THEN 1 ELSE 0)
<1>1. Done \subseteq Workers /\ Unaccounted \subseteq Workers
  BY DEF Done, Unaccounted
<1>2. IsFiniteSet(Done) /\ IsFiniteSet(Unaccounted)
  BY <1>1, TestAssumption, FS_Subset
<1>3. Cardinality(Done) \in Nat /\ Cardinality(Unaccounted) \in Nat
  BY <1>2, FS_CardinalityType
<1>4. ASSUME NEW S, IsFiniteSet(S), NEW w
      PROVE  /\ Cardinality(S \cup {w}) = Cardinality(S) + (IF w \in S THEN 0 ELSE 1)
             /\ Cardinality(S \ {w}) = Cardinality(S) - (IF w \in S THEN 1 ELSE 0)
  <2>1. Cardinality(S) \in Nat
    BY <1>4, FS_CardinalityType
  <2>2. Cardinality(S \cup {w}) = IF w \in S THEN Cardinality(S) ELSE Cardinality(S) + 1
    BY <1>4, FS_AddElement
  <2>3. Cardinality(S \ {w}) = IF w \in S THEN Cardinality(S) - 1 ELSE Cardinality(S)
    BY <1>4, FS_RemoveElement
  <2> QED BY <2>1, <2>2, <2>3
<1> QED BY <1>2, <1>3, <1>4

\* The steps within an operation, up to its result or its failure, change neither set.
LEMMA InnerSteps ==
    ASSUME TypeOK,
           \/ Stop \/ UNCHANGED vars
           \/ \E w \in Workers :
                 \/ AddToBatch(w) \/ BatchBuilt(w) \/ DropBatch(w) \/ Send(w)
                 \/ ScanRow(w) \/ CloseIter(w) \/ Sleep(w) \/ TryAgain(w)
                 \/ ScanAgain(w) \/ Fail(w)
    PROVE  /\ Done' = Done /\ Unaccounted' = Unaccounted
           /\ UNCHANGED <<mode, begun, skipped, ops, totalErrors, samples>>
<1> USE DEF Done, Unaccounted, Returned
<1>1. CASE Stop \/ UNCHANGED vars
  BY <1>1 DEF Stop, vars, flags, operation, counters
<1>2. ASSUME NEW w \in Workers,
             \/ AddToBatch(w) \/ BatchBuilt(w) \/ DropBatch(w) \/ Send(w)
             \/ ScanRow(w) \/ CloseIter(w) \/ Sleep(w) \/ TryAgain(w)
             \/ ScanAgain(w) \/ Fail(w)
      PROVE  /\ Done' = Done /\ Unaccounted' = Unaccounted
             /\ UNCHANGED <<mode, begun, skipped, ops, totalErrors, samples>>
  <2>1. UNCHANGED <<mode, begun, skipped, ops, totalErrors, samples>>
    BY <1>2 DEF AddToBatch, BatchBuilt, DropBatch, Send, ScanRow, CloseIter, Sleep,
       TryAgain, ScanAgain, Fail, flags, counters
  <2>2. /\ pc[w] \in PcValues \ {"idle", "return"}
        /\ pc'[w] # "idle" /\ (pc'[w] = "return" => result'[w].err # "nil")
    BY <1>2 DEF AddToBatch, BatchBuilt, DropBatch, Send, ScanRow, CloseIter, Sleep,
       TryAgain, ScanAgain, Fail, Return, At, PcValues, TypeOK
  <2>3. ASSUME NEW v \in Workers, v # w PROVE pc'[v] = pc[v] /\ result'[v] = result[v]
    BY <1>2, <2>3 DEF AddToBatch, BatchBuilt, DropBatch, Send, ScanRow, CloseIter, Sleep,
       TryAgain, ScanAgain, Fail, Return, At, operation, TypeOK
  <2> QED BY <2>1, <2>2, <2>3
<1> QED BY <1>1, <1>2

\* What the three other steps do to the sets.
LEMMA OuterSteps ==
    ASSUME TypeOK, NEW w \in Workers
    PROVE  /\ Begin(w) => /\ w \notin Unaccounted /\ Unaccounted' = Unaccounted \cup {w}
                          /\ Done' = Done
           /\ Succeed(w) => /\ w \in Unaccounted /\ Unaccounted' = Unaccounted \ {w}
                            /\ w \notin Done /\ Done' = Done \cup {w}
           /\ Register(w) =>
                  /\ Unaccounted' = Unaccounted \ {w} /\ Done' = Done \ {w}
                  /\ w \in Done <=> result[w].err = "nil"
                  /\ w \in Unaccounted <=> result[w].err # "nil"
<1> USE DEF Done, Unaccounted, Returned
<1>1. ASSUME Begin(w) \/ Succeed(w) \/ Register(w), NEW v \in Workers, v # w
      PROVE  pc'[v] = pc[v] /\ result'[v] = result[v]
  BY <1>1 DEF Begin, Succeed, Register, Return, At, TypeOK
<1>2. CASE Begin(w)
  <2>1. pc[w] = "idle" /\ pc'[w] \in {"build", "send"}
    BY <1>2 DEF Begin, At, TypeOK
  <2>2. ~Succeed(w) /\ ~Register(w)
    BY <2>1 DEF Succeed, Register, At
  <2> QED BY <1>1, <1>2, <2>1, <2>2
<1>3. CASE Succeed(w)
  <2>1. pc[w] = "succeed" /\ pc'[w] = "return" /\ result'[w].err = "nil"
    BY <1>3 DEF Succeed, Return, At, TypeOK
  <2>2. ~Begin(w) /\ ~Register(w)
    BY <2>1 DEF Begin, Register, At
  <2> QED BY <1>1, <1>3, <2>1, <2>2
<1>4. CASE Register(w)
  <2>1. pc[w] = "return" /\ pc'[w] = "idle"
    BY <1>4 DEF Register, At, TypeOK
  <2>2. ~Begin(w) /\ ~Succeed(w)
    BY <2>1 DEF Begin, Succeed, At
  <2> QED BY <1>1, <1>4, <2>1, <2>2
<1> QED BY <1>2, <1>3, <1>4

\* Every operation is counted once (modes.go:217-234).
THEOREM CountedOnceCorrect == Spec => []CountedOnce
<1>1. Init => CountedOnce
  <2> SUFFICES ASSUME Init PROVE CountedOnce
    OBVIOUS
  <2>1. Unaccounted = {}
    BY DEF Init, Unaccounted
  <2>2. begun["write"] = 0 /\ begun["read"] = 0 /\ ops = 0 /\ totalErrors = 0 /\ skipped = 0
    BY DEF Init, Kinds
  <2> QED BY <2>1, <2>2, FS_EmptySet DEF CountedOnce
<1>2. TypeOK /\ CountedOnce /\ [Next]_vars => CountedOnce'
  <2> SUFFICES ASSUME TypeOK, CountedOnce, [Next]_vars PROVE CountedOnce'
    OBVIOUS
  <2>0. /\ begun["write"] \in Nat /\ begun["read"] \in Nat
        /\ ops \in Nat /\ totalErrors \in Nat /\ skipped \in Nat
    BY DEF TypeOK, Kinds
  <2>1. ASSUME NEW w \in Workers, Begin(w) PROVE CountedOnce'
    <3>1. begun'["write"] + begun'["read"] = begun["write"] + begun["read"] + 1
      <4>1. KindOf(NewCount) \in {"write", "read"}
        BY DEF KindOf
      <4> QED BY <2>0, <2>1, <4>1 DEF Begin, Kinds, TypeOK
    <3>2. Cardinality(Unaccounted') = Cardinality(Unaccounted) + 1
      BY <2>1, Counts, OuterSteps
    <3> QED BY <2>0, <2>1, <3>1, <3>2, Counts DEF Begin, CountedOnce
  <2>2. ASSUME NEW w \in Workers, Succeed(w) PROVE CountedOnce'
    <3>1. Cardinality(Unaccounted') = Cardinality(Unaccounted) - 1
      BY <2>2, Counts, OuterSteps
    <3> QED BY <2>0, <2>2, <3>1, Counts DEF Succeed, CountedOnce
  <2>3. ASSUME NEW w \in Workers, Register(w) PROVE CountedOnce'
    <3>1. UNCHANGED <<begun, ops>>
      BY <2>3 DEF Register
    <3>2. Unaccounted' = Unaccounted \ {w} /\ (w \in Unaccounted <=> result[w].err # "nil")
      BY <2>3, OuterSteps
    <3>3. CASE result[w].err = "nil"
      <4>1. UNCHANGED <<totalErrors, skipped>>
        BY <2>3, <3>3 DEF Register
      <4>2. Cardinality(Unaccounted') = Cardinality(Unaccounted)
        BY <3>2, <3>3, Counts
      <4> QED BY <3>1, <4>1, <4>2 DEF CountedOnce
    <3>4. CASE result[w].err # "nil"
      <4>1. result[w].err \in {"skip", "error"}
        <5>1. result[w].err \in {"nil", "skip", "error"}
          BY DEF TypeOK
        <5> QED BY <3>4, <5>1
      <4>2. \/ totalErrors' = totalErrors + 1 /\ skipped' = skipped
            \/ totalErrors' = totalErrors /\ skipped' = skipped + 1
        <5>1. CASE result[w].err = "skip"
          BY <2>3, <5>1 DEF Register
        <5>2. CASE result[w].err = "error"
          BY <2>3, <5>2 DEF Register
        <5> QED BY <4>1, <5>1, <5>2
      <4>3. Cardinality(Unaccounted') = Cardinality(Unaccounted) - 1
        BY <3>2, <3>4, Counts
      <4> QED BY <2>0, <3>1, <4>2, <4>3, Counts DEF CountedOnce
    <3> QED BY <3>3, <3>4
  <2>4. ASSUME \/ Stop \/ UNCHANGED vars
               \/ \E w \in Workers :
                     \/ AddToBatch(w) \/ BatchBuilt(w) \/ DropBatch(w) \/ Send(w)
                     \/ ScanRow(w) \/ CloseIter(w) \/ Sleep(w) \/ TryAgain(w)
                     \/ ScanAgain(w) \/ Fail(w)
        PROVE  CountedOnce'
    BY <2>4, InnerSteps DEF CountedOnce
  <2> QED BY <2>1, <2>2, <2>3, <2>4 DEF Next, WorkerNext
<1>3. Spec => []TypeOK
  BY TypeCorrect
<1> QED BY <1>1, <1>2, <1>3, PTL DEF Spec

\* The samples that there are of the operations done, d of them not registered yet.
SamplesFor(d) ==
    /\ samples["coFixed"] = IF MeasureLatency THEN ops - d ELSE 0
    /\ samples["raw"] = samples["coFixed"]
                          + IF MeasureLatency /\ mode = "mixed" THEN ops ELSE 0
    /\ samples["readRaw"] + samples["writeRaw"]
          = IF MeasureLatency /\ mode = "mixed" THEN ops ELSE 0
    /\ samples["readRaw"] = samples["readCoFixed"]
    /\ samples["writeRaw"] = samples["writeCoFixed"]

\* A sample is recorded of each operation done, in mixed mode two in the raw
\* histogram, and none of an operation that failed (modes.go:219-229, 999-1020).
THEOREM SamplesPerOperationCorrect == Spec => []SamplesPerOperation
<1>0. /\ SamplesPerOperation <=> SamplesFor(Cardinality(Done))
      /\ SamplesPerOperation' <=> SamplesFor(Cardinality(Done))'
  BY DEF SamplesPerOperation, SamplesFor, Done
<1>1. Init => SamplesPerOperation
  <2> SUFFICES ASSUME Init PROVE SamplesFor(Cardinality(Done))
    BY <1>0
  <2>1. Done = {}
    BY DEF Init, Done, Returned
  <2>2. ops = 0 /\ samples = [s \in Stacks |-> 0]
    BY DEF Init
  <2> QED BY <2>1, <2>2, FS_EmptySet DEF SamplesFor, Stacks
<1>2. TypeOK /\ LocalsOK /\ SamplesPerOperation /\ [Next]_vars => SamplesPerOperation'
  <2> SUFFICES ASSUME TypeOK, LocalsOK, SamplesFor(Cardinality(Done)), [Next]_vars
               PROVE  SamplesFor(Cardinality(Done))'
    BY <1>0
  <2>0. /\ samples \in [Stacks -> Nat] /\ ops \in Nat /\ Cardinality(Done) \in Nat
        /\ MeasureLatency \in BOOLEAN
    BY Counts, TestAssumption DEF TypeOK
  <2>b. /\ {"coFixed", "raw", "readRaw", "readCoFixed", "writeRaw", "writeCoFixed"} \subseteq Stacks
        /\ \A s \in Stacks : samples[s] \in Nat
    BY DEF Stacks, TypeOK
  <2>a. ASSUME NEW stacks, RecordIn(stacks), NEW s \in Stacks
        PROVE  samples'[s] = IF MeasureLatency /\ s \in stacks
                             THEN samples[s] + 1 ELSE samples[s]
    BY <2>a DEF RecordIn
  <2>1. ASSUME NEW w \in Workers, Begin(w) PROVE SamplesFor(Cardinality(Done))'
    <3>1. Done' = Done /\ UNCHANGED <<samples, ops, mode>>
      BY <2>1, OuterSteps DEF Begin, flags
    <3> QED BY <3>1 DEF SamplesFor
  <2>2. ASSUME NEW w \in Workers, Succeed(w) PROVE SamplesFor(Cardinality(Done))'
    <3>1. Cardinality(Done') = Cardinality(Done) + 1 /\ ops' = ops + 1 /\ mode' = mode
      BY <2>2, OuterSteps, Counts DEF Succeed, flags
    <3>2. kind[w] \in {"read", "write"}
      BY DEF TypeOK, Kinds
    <3>3. CASE mode # "mixed"
      <4>1. RecordIn({})
        BY <2>2, <3>3 DEF Succeed
      <4>2. \A s \in Stacks : samples'[s] = samples[s]
        BY <2>a, <4>1
      <4> QED BY <2>0, <3>1, <3>3, <4>2, <2>b, SMTT(30) DEF SamplesFor
    <3>4. CASE mode = "mixed" /\ kind[w] = "write"
      <4>1. RecordIn({"raw", "writeRaw", "writeCoFixed"})
        BY <2>2, <3>4 DEF Succeed
      <4>2. \A s \in Stacks :
                samples'[s] = IF MeasureLatency /\ s \in {"raw", "writeRaw", "writeCoFixed"}
                              THEN samples[s] + 1 ELSE samples[s]
        BY <2>a, <4>1
      <4> QED BY <2>0, <3>1, <3>4, <4>2, <2>b, SMTT(30) DEF SamplesFor
    <3>5. CASE mode = "mixed" /\ kind[w] = "read"
      <4>1. RecordIn({"raw", "readRaw", "readCoFixed"})
        BY <2>2, <3>5 DEF Succeed
      <4>2. \A s \in Stacks :
                samples'[s] = IF MeasureLatency /\ s \in {"raw", "readRaw", "readCoFixed"}
                              THEN samples[s] + 1 ELSE samples[s]
        BY <2>a, <4>1
      <4> QED BY <2>0, <3>1, <3>5, <4>2, <2>b, SMTT(30) DEF SamplesFor
    <3> QED BY <3>2, <3>3, <3>4, <3>5
  <2>3. ASSUME NEW w \in Workers, Register(w) PROVE SamplesFor(Cardinality(Done))'
    <3>1. /\ ops' = ops /\ mode' = mode
          /\ Cardinality(Done') = Cardinality(Done) - (IF result[w].err = "nil" THEN 1 ELSE 0)
      BY <2>3, OuterSteps, Counts DEF Register, flags
    <3>2. CASE result[w].err = "nil"
      <4>1. RecordIn({"raw", "coFixed"})
        BY <2>3, <3>2 DEF Register
      <4>2. \A s \in Stacks : samples'[s] = IF MeasureLatency /\ s \in {"raw", "coFixed"}
                                            THEN samples[s] + 1 ELSE samples[s]
        BY <2>a, <4>1
      <4>3. /\ UNCHANGED <<samples["readRaw"], samples["writeRaw"]>>
            /\ UNCHANGED <<samples["readCoFixed"], samples["writeCoFixed"]>>
            /\ MeasureLatency => /\ samples'["coFixed"] = samples["coFixed"] + 1
                                 /\ samples'["raw"] = samples["raw"] + 1
            /\ ~MeasureLatency => UNCHANGED <<samples["coFixed"], samples["raw"]>>
        BY <2>b, <4>2
      <4>4. Cardinality(Done') = Cardinality(Done) - 1
        BY <3>1, <3>2
      <4>5. samples["coFixed"] \in Nat /\ samples["raw"] \in Nat
        BY <2>b
      <4> QED BY <2>0, <3>1, <4>3, <4>4, <4>5 DEF SamplesFor
    <3>3. CASE result[w].err # "nil"
      <4>1. result[w].err \in {"skip", "error"}
        <5>1. result[w].err \in {"nil", "skip", "error"}
          BY DEF TypeOK
        <5> QED BY <3>3, <5>1
      <4>2. \A s \in Stacks : samples'[s] = samples[s]
        <5>1. CASE result[w].err = "skip"
          BY <2>3, <5>1 DEF Register
        <5>2. CASE result[w].err = "error"
          <6>1. result[w].latency = 0
            BY <2>3, <5>2 DEF LocalsOK, Register, At
          <6>2. ~(result[w].latency > CutoffTime)
            BY <6>1, TestAssumption
          <6>3. RecordIn({})
            BY <2>3, <5>2, <6>2 DEF Register
          <6> QED BY <2>a, <6>3
        <5> QED BY <4>1, <5>1, <5>2
      <4> QED BY <2>0, <3>1, <3>3, <4>2, <2>b, SMTT(30) DEF SamplesFor
    <3> QED BY <3>2, <3>3
  <2>4. ASSUME \/ Stop \/ UNCHANGED vars
               \/ \E w \in Workers :
                     \/ AddToBatch(w) \/ BatchBuilt(w) \/ DropBatch(w) \/ Send(w)
                     \/ ScanRow(w) \/ CloseIter(w) \/ Sleep(w) \/ TryAgain(w)
                     \/ ScanAgain(w) \/ Fail(w)
        PROVE  SamplesFor(Cardinality(Done))'
    BY <2>4, InnerSteps DEF SamplesFor
  <2> QED BY <2>1, <2>2, <2>3, <2>4 DEF Next, WorkerNext
<1> QED BY <1>1, <1>2, LocalsCorrect, PTL DEF Spec

-----------------------------------------------------------------------------
(* Halves and rows *)

\* The reads are ahead of the writes when the counter is odd.
HalvesOK ==
    mode = "mixed" =>
        begun["read"] - begun["write"] = opCount % 2

\* Mixed mode's halves differ by one operation at most (modes.go:995-1004).
THEOREM MixedHalvesCorrect == Spec => []MixedHalves
<1>1. Init => HalvesOK
  BY DEF Init, HalvesOK, Kinds
<1>2. TypeOK /\ HalvesOK /\ [Next]_vars => HalvesOK'
  <2> SUFFICES ASSUME TypeOK, HalvesOK, [Next]_vars, mode' = "mixed"
               PROVE  begun'["read"] - begun'["write"] = opCount' % 2
    BY DEF HalvesOK
  <2>0. begun["read"] \in Nat /\ begun["write"] \in Nat /\ opCount \in Nat
    BY DEF TypeOK, Kinds
  <2>1. ASSUME NEW w \in Workers, Begin(w)
        PROVE  begun'["read"] - begun'["write"] = opCount' % 2
    <3>1. /\ mode = "mixed" /\ opCount' = opCount + 1
          /\ begun["read"] - begun["write"] = opCount % 2
          /\ begun' = [begun EXCEPT ![IF (opCount + 1) % 2 = 0 THEN "write" ELSE "read"] = @ + 1]
      BY <2>1 DEF Begin, KindOf, NewCount, HalvesOK, flags
    <3>2. \/ opCount % 2 = 0 /\ (opCount + 1) % 2 = 1
          \/ opCount % 2 = 1 /\ (opCount + 1) % 2 = 0
      BY <2>0
    <3>3. CASE opCount % 2 = 0 /\ (opCount + 1) % 2 = 1
      <4>1. begun'["read"] = begun["read"] + 1 /\ begun'["write"] = begun["write"]
        BY <3>1, <3>3 DEF TypeOK, Kinds
      <4> QED BY <2>0, <3>1, <3>3, <4>1
    <3>4. CASE opCount % 2 = 1 /\ (opCount + 1) % 2 = 0
      <4>1. begun'["write"] = begun["write"] + 1 /\ begun'["read"] = begun["read"]
        BY <3>1, <3>4 DEF TypeOK, Kinds
      <4> QED BY <2>0, <3>1, <3>4, <4>1
    <3> QED BY <3>2, <3>3, <3>4
  <2>2. ASSUME UNCHANGED <<mode, begun, opCount>>
        PROVE  begun'["read"] - begun'["write"] = opCount' % 2
    BY <2>2 DEF HalvesOK
  <2>3. ASSUME NEW w \in Workers,
               \/ AddToBatch(w) \/ BatchBuilt(w) \/ DropBatch(w) \/ Send(w)
               \/ ScanRow(w) \/ CloseIter(w) \/ Sleep(w) \/ TryAgain(w)
               \/ ScanAgain(w) \/ Fail(w) \/ Succeed(w) \/ Register(w)
        PROVE  UNCHANGED <<mode, begun, opCount>>
    BY <2>3 DEF AddToBatch, BatchBuilt, DropBatch, Send, ScanRow, CloseIter, Sleep,
       TryAgain, ScanAgain, Fail, Succeed, Register, flags, counters
  <2>4. ASSUME Stop \/ UNCHANGED vars PROVE UNCHANGED <<mode, begun, opCount>>
    BY <2>4 DEF Stop, vars, flags, counters
  <2> QED BY <2>1, <2>2, <2>3, <2>4 DEF Next, WorkerNext
<1>3. TypeOK /\ HalvesOK => MixedHalves
  <2> SUFFICES ASSUME TypeOK, HalvesOK, mode = "mixed"
               PROVE  begun["read"] - begun["write"] \in {0, 1}
    BY DEF MixedHalves
  <2>1. opCount \in Nat
    BY DEF TypeOK
  <2>2. opCount % 2 \in {0, 1}
    BY <2>1
  <2> QED BY <2>2 DEF HalvesOK
<1> QED BY <1>1, <1>2, <1>3, TypeCorrect, PTL DEF Spec

WriteModes == {"write", "batch", "counter_update"}

\* In the modes that write, every operation is a write of at least a row, and of one
\* row outside a batch.
WritesOK ==
    mode \in WriteModes =>
        \A w \in Workers :
            /\ kind[w] = "write" /\ pc[w] # "scan"
            /\ pc[w] = "build" => mode = "batch"
            /\ pc[w] \in {"send", "retry", "sleep", "succeed"} =>
                  batchSize[w] > 0 /\ (mode # "batch" => batchSize[w] = 1)

\* Every step keeps it.
LEMMA WritesStep == TypeOK /\ WritesOK /\ [Next]_vars => WritesOK'
<1>a. [Next]_vars => mode' = mode
  BY DEF Next, WorkerNext, Begin, AddToBatch, BatchBuilt, DropBatch, Send, ScanRow,
     CloseIter, Sleep, TryAgain, ScanAgain, Fail, Succeed, Register, Stop, vars, flags
<1> SUFFICES ASSUME TypeOK, WritesOK, [Next]_vars, mode \in WriteModes, NEW w \in Workers
             PROVE  /\ kind'[w] = "write" /\ pc'[w] # "scan"
                    /\ pc'[w] = "build" => mode = "batch"
                    /\ pc'[w] \in {"send", "retry", "sleep", "succeed"} =>
                          batchSize'[w] > 0 /\ (mode # "batch" => batchSize'[w] = 1)
  BY <1>a DEF WritesOK
<1>0. /\ kind[w] = "write" /\ pc[w] # "scan"
      /\ pc[w] = "build" => mode = "batch"
      /\ pc[w] \in {"send", "retry", "sleep", "succeed"} =>
            batchSize[w] > 0 /\ (mode # "batch" => batchSize[w] = 1)
  BY DEF WritesOK
<1>1. ASSUME NEW v \in Workers, WorkerNext(v), v # w
      PROVE  UNCHANGED <<kind[w], pc[w], batchSize[w]>>
  BY <1>1 DEF WorkerNext, Begin, AddToBatch, BatchBuilt, DropBatch, Send, ScanRow,
     CloseIter, Sleep, TryAgain, ScanAgain, Fail, Succeed, Register, At, operation, TypeOK
<1>2. CASE Begin(w)
  BY <1>2 DEF Begin, KindOf, WriteModes, At, TypeOK
<1>3. CASE AddToBatch(w)
  BY <1>0, <1>3 DEF AddToBatch, At, TypeOK
<1>4. CASE BatchBuilt(w)
  BY <1>0, <1>4 DEF BatchBuilt, At, operation, TypeOK
<1>5. CASE Send(w)
  BY <1>0, <1>5 DEF Send, TypeOK
<1>6. CASE ScanRow(w) \/ CloseIter(w)
  BY <1>0, <1>6 DEF ScanRow, CloseIter, At
<1>7. CASE Sleep(w) \/ TryAgain(w) \/ ScanAgain(w)
  BY <1>0, <1>7 DEF Sleep, TryAgain, ScanAgain, At, operation, TypeOK
<1>8. CASE DropBatch(w) \/ Fail(w) \/ Succeed(w)
  BY <1>0, <1>8 DEF DropBatch, Fail, Succeed, At, operation, TypeOK
<1>9. CASE Register(w)
  BY <1>9 DEF Register, At, TypeOK
<1>10. CASE Stop \/ UNCHANGED vars
  BY <1>0, <1>10 DEF Stop, vars, operation
<1>11. CASE WorkerNext(w)
  BY <1>2, <1>3, <1>4, <1>5, <1>6, <1>7, <1>8, <1>9, <1>11 DEF WorkerNext
<1> QED BY <1>0, <1>1, <1>10, <1>11 DEF Next

\* A write counts its rows once, however often it is tried (modes.go:489-490, 616-617).
THEOREM RowsWrittenCorrect == Spec => []RowsWritten
<1>1. Init => WritesOK /\ RowsWritten
  <2> SUFFICES ASSUME Init PROVE WritesOK /\ RowsWritten
    OBVIOUS
  <2>1. WritesOK
    BY DEF Init, WritesOK
  <2>2. ops = 0 /\ rows = 0 /\ RowsPerRequest \in Nat
    BY TestAssumption DEF Init
  <2> QED BY <2>1, <2>2 DEF RowsWritten
<1>2. TypeOK /\ WritesOK /\ RowsWritten /\ [Next]_vars => RowsWritten'
  <2> SUFFICES ASSUME TypeOK, WritesOK, RowsWritten, [Next]_vars, mode' \in WriteModes
               PROVE  /\ ops' <= rows' /\ rows' <= ops' * RowsPerRequest
                      /\ mode' # "batch" => rows' = ops'
    BY DEF RowsWritten, WriteModes
  <2>0. ops \in Nat /\ rows \in Nat /\ RowsPerRequest \in Nat
    BY TestAssumption DEF TypeOK
  <2>1. mode' = mode
    BY DEF Next, WorkerNext, Begin, AddToBatch, BatchBuilt, DropBatch, Send, ScanRow,
       CloseIter, Sleep, TryAgain, ScanAgain, Fail, Succeed, Register, Stop, vars, flags
  <2>2. /\ ops <= rows /\ rows <= ops * RowsPerRequest
        /\ mode # "batch" => rows = ops
    BY <2>1 DEF RowsWritten, WriteModes
  <2>3. ASSUME NEW w \in Workers, Succeed(w)
        PROVE  /\ ops' <= rows' /\ rows' <= ops' * RowsPerRequest
               /\ mode' # "batch" => rows' = ops'
    <3>1. /\ kind[w] = "write" /\ batchSize[w] > 0
          /\ mode # "batch" => batchSize[w] = 1
      BY <2>1, <2>3 DEF WritesOK, Succeed, At
    <3>2. ops' = ops + 1 /\ rows' = rows + batchSize[w]
      BY <2>3, <3>1 DEF Succeed, WrittenRows
    <3>3. batchSize[w] \in Nat /\ batchSize[w] <= RowsPerRequest
      BY <2>0 DEF TypeOK
    <3>4. (ops + 1) * RowsPerRequest = ops * RowsPerRequest + RowsPerRequest
      BY <2>0
    <3>5. ops * RowsPerRequest \in Nat
      BY <2>0
    <3> QED BY <2>0, <2>1, <2>2, <3>1, <3>2, <3>3, <3>4, <3>5
  <2>4. ASSUME UNCHANGED <<ops, rows>>
        PROVE  /\ ops' <= rows' /\ rows' <= ops' * RowsPerRequest
               /\ mode' # "batch" => rows' = ops'
    BY <2>1, <2>2, <2>4
  <2>5. ASSUME NEW w \in Workers,
               \/ Begin(w) \/ AddToBatch(w) \/ BatchBuilt(w) \/ DropBatch(w) \/ Send(w)
               \/ CloseIter(w) \/ Sleep(w) \/ TryAgain(w) \/ ScanAgain(w) \/ Fail(w)
               \/ Register(w)
        PROVE  UNCHANGED <<ops, rows>>
    BY <2>5 DEF Begin, AddToBatch, BatchBuilt, DropBatch, Send, CloseIter, Sleep,
       TryAgain, ScanAgain, Fail, Register, counters
  <2>6. ASSUME NEW w \in Workers, ScanRow(w) PROVE FALSE
    BY <2>1, <2>6 DEF ScanRow, At, WritesOK
  <2>7. ASSUME Stop \/ UNCHANGED vars PROVE UNCHANGED <<ops, rows>>
    BY <2>7 DEF Stop, vars, counters
  <2> QED BY <2>3, <2>4, <2>5, <2>6, <2>7 DEF Next, WorkerNext
<1> QED BY <1>1, <1>2, WritesStep, TypeCorrect, PTL DEF Spec

-----------------------------------------------------------------------------
(* Words and their cells *)

\* The powers of two are powers of two.
LEMMA PowersOfTwo == Doubles(TwoTo, WordBits)
<1>1. WordBits \in Nat
  BY FormatAssumption, ProductNat DEF WordBits
<1>2. \E P : P = [k \in 0 .. WordBits |-> IF k = 0 THEN 1 ELSE 2 * P[k - 1]]
  BY <1>1, DoublesExist
<1>3. TwoTo = [k \in 0 .. WordBits |-> IF k = 0 THEN 1 ELSE 2 * TwoTo[k - 1]]
  BY <1>2 DEF TwoTo
<1> HIDE DEF TwoTo
<1> QED BY <1>1, <1>3, DoublesByDefinition

\* Words and cells have two values at least.
LEMMA Widths ==
    /\ WordBits \in Nat /\ CellBits \in 1 .. WordBits
    /\ WordCells \in Nat \ {0} /\ HeaderSize \in Nat
    /\ CellValues \in Nat /\ CellValues >= 2 /\ Word \in Nat /\ Word >= 2
<1>1. WordCells \in Nat \ {0} /\ CellBits \in Nat \ {0} /\ HeaderSize \in Nat
  BY FormatAssumption DEF HeaderSize
<1>2. WordBits \in Nat /\ CellBits <= WordBits
  <2>1. WordBits = WordCells * CellBits /\ WordBits \in Nat
    BY <1>1, ProductNat DEF WordBits
  <2>2. 1 * CellBits <= WordCells * CellBits
    BY <1>1, ProductMonotonic
  <2> QED BY <1>1, <2>1, <2>2
<1>3. ASSUME NEW k \in 1 .. WordBits PROVE TwoTo[k] \in Nat /\ TwoTo[k] >= 2
  <2>1. TwoTo[k] = 2 * TwoTo[k - 1] /\ k - 1 \in 0 .. WordBits
    BY <1>2, PowersOfTwo DEF Doubles
  <2>2. TwoTo[k - 1] \in Nat \ {0}
    BY <2>1, PowersOfTwo DEF Doubles
  <2> QED BY <2>1, <2>2
<1>4. CellBits \in 1 .. WordBits /\ WordBits \in 1 .. WordBits
  BY <1>1, <1>2
<1> QED BY <1>1, <1>2, <1>3, <1>4 DEF CellValues, Word

\* The weight of the cells of a word.
LEMMA Weights ==
    /\ \A j \in 0 .. WordCells : CellBits * j \in 0 .. WordBits
    /\ \A j \in 0 .. WordCells : TwoTo[CellBits * j] \in Nat \ {0}
    /\ CellBits * 0 = 0 /\ TwoTo[0] = 1
    /\ \A j \in 0 .. WordCells - 1 : TwoTo[CellBits * (j + 1)] = TwoTo[CellBits * j] * CellValues
    /\ TwoTo[CellBits * WordCells] = Word
<1>1. WordCells \in Nat \ {0} /\ CellBits \in Nat \ {0}
  BY FormatAssumption
<1>2. ASSUME NEW j \in 0 .. WordCells PROVE CellBits * j \in 0 .. WordBits
  <2>1. j * CellBits <= WordCells * CellBits /\ j * CellBits \in Nat
    BY <1>1, ProductMonotonic
  <2>2. WordBits = WordCells * CellBits /\ CellBits * j = j * CellBits /\ WordBits \in Nat
    BY <1>1, ProductNat DEF WordBits
  <2> QED BY <2>1, <2>2
<1>3. ASSUME NEW j \in 0 .. WordCells - 1
      PROVE  TwoTo[CellBits * (j + 1)] = TwoTo[CellBits * j] * CellValues
  <2>1. CellBits * (j + 1) = CellBits * j + CellBits
    BY <1>1
  <2>2. CellBits * j \in Nat /\ CellBits * j + CellBits <= WordBits
    <3>1. j + 1 \in 0 .. WordCells /\ j \in 0 .. WordCells
      BY <1>1
    <3>2. CellBits * (j + 1) <= WordBits /\ CellBits * j \in Nat
      BY <1>2, <3>1
    <3> QED BY <2>1, <3>2
  <2>3. PICK a \in Nat : a = CellBits * j
    BY <2>2
  <2>4. TwoTo[a + CellBits] = TwoTo[a] * TwoTo[CellBits]
    BY <1>1, <2>2, <2>3, Widths, PowersOfTwo, PowerOfSum
  <2> QED BY <2>1, <2>3, <2>4 DEF CellValues
<1>4. \A j \in 0 .. WordCells : TwoTo[CellBits * j] \in Nat \ {0}
  BY <1>2, PowersOfTwo DEF Doubles
<1>5. CellBits * 0 = 0 /\ TwoTo[0] = 1
  BY <1>1, PowersOfTwo DEF Doubles
<1> QED BY <1>2, <1>3, <1>4, <1>5 DEF Word, WordBits

\* The cells of a number are cells.
LEMMA CellsType ==
    ASSUME NEW x \in Int, NEW n \in 0 .. WordCells
    PROVE  Cells(x, n) \in [1 .. n -> 0 .. CellValues - 1]
<1> SUFFICES ASSUME NEW i \in 1 .. n
             PROVE  (x \div TwoTo[CellBits * (i - 1)]) % CellValues \in 0 .. CellValues - 1
  BY DEF Cells
<1>1. i - 1 \in 0 .. WordCells
  BY Widths
<1>2. PICK p \in Nat \ {0} : p = TwoTo[CellBits * (i - 1)]
  BY <1>1, Weights
<1>3. x \div p \in Int
  BY Division
<1>4. CellValues \in Nat \ {0}
  BY Widths
<1>5. PICK q \in Int : q = x \div p
  BY <1>3
<1>6. q % CellValues \in 0 .. CellValues - 1
  BY <1>4, Division
<1> QED BY <1>2, <1>5, <1>6

\* The first of them is the rest of the number.
LEMMA FirstCell ==
    ASSUME NEW x \in Int, NEW n \in Nat \ {0}
    PROVE  Cells(x, n)[1] = x % CellValues
<1>1. CellBits * (1 - 1) = 0 /\ TwoTo[0] = 1
  BY Weights, Widths
<1>2. x \div 1 = x
  OBVIOUS
<1>3. Cells(x, n)[1] = (x \div TwoTo[CellBits * (1 - 1)]) % CellValues
  BY DEF Cells
<1> QED BY <1>1, <1>2, <1>3

\* The cells of a word determine it.
LEMMA CellsDetermine ==
    ASSUME NEW x \in Int, NEW y \in Int,
           \A i \in 1 .. WordCells : Cells(x, WordCells)[i] = Cells(y, WordCells)[i]
    PROVE  x % Word = y % Word
<1> DEFINE P == [j \in 0 .. WordCells |-> TwoTo[CellBits * j]]
<1>1. /\ WordCells \in Nat /\ CellValues \in Nat \ {0}
      /\ P[0] = 1 /\ P[WordCells] = Word
      /\ \A j \in 0 .. WordCells : P[j] \in Nat \ {0}
  BY Widths, Weights
<1>2. ASSUME NEW j \in 0 .. WordCells - 1
      PROVE  P[j + 1] = P[j] * CellValues
  <2>1. j \in 0 .. WordCells /\ j + 1 \in 0 .. WordCells
    BY <1>1
  <2>2. P[j] = TwoTo[CellBits * j] /\ P[j + 1] = TwoTo[CellBits * (j + 1)]
    BY <2>1
  <2> QED BY <2>2, Weights
<1>3. ASSUME NEW j \in 0 .. WordCells - 1
      PROVE  (x \div P[j]) % CellValues = (y \div P[j]) % CellValues
  <2>1. PICK i \in 1 .. WordCells : i = j + 1 /\ i - 1 = j
    BY <1>1
  <2>2. Cells(x, WordCells)[i] = Cells(y, WordCells)[i]
    OBVIOUS
  <2>3. P[j] = TwoTo[CellBits * (i - 1)]
    BY <1>1, <2>1
  <2> HIDE DEF P
  <2> QED BY <2>2, <2>3 DEF Cells
<1> HIDE DEF P
<1>4. PICK m \in Nat, c \in Nat \ {0} : m = WordCells /\ c = CellValues
  BY <1>1
<1>5. IsScale(P, m, c)
  BY <1>1, <1>2, <1>4 DEF IsScale
<1>6. SameDigits(P, m, c, x, y)
  BY <1>3, <1>4 DEF SameDigits
<1>7. x % P[m] = y % P[m]
  BY <1>5, <1>6, DigitsEqual
<1> QED BY <1>1, <1>4, <1>7

Int64s == -(Word \div 2) .. (Word \div 2) - 1

\* Different keys have different cells.
LEMMA Int64sDetermined ==
    ASSUME NEW x \in Int64s, NEW y \in Int64s,
           \A i \in 1 .. WordCells : Cells(x, WordCells)[i] = Cells(y, WordCells)[i]
    PROVE  x = y
<1>1. PICK h \in Nat : h = Word \div 2 /\ 2 * h <= Word
  BY Widths
<1>2. x \in Int /\ y \in Int /\ x - y < Word /\ y - x < Word
  BY <1>1, Widths DEF Int64s
<1>3. x % Word = y % Word
  BY <1>2, CellsDetermine
<1>4. PICK j \in Int, k \in Int, r \in Int : x = Word * j + r /\ y = Word * k + r
  <2>1. Word \in Nat \ {0}
    BY Widths
  <2>2. /\ x \div Word \in Int /\ x % Word \in Int /\ x = Word * (x \div Word) + (x % Word)
        /\ y \div Word \in Int /\ y = Word * (y \div Word) + (y % Word)
    BY <1>2, <2>1, Division
  <2> QED BY <1>3, <2>2
<1>5. ~(j > k) /\ ~(k > j)
  <2>1. PICK w \in Nat \ {0} : w = Word
    BY Widths
  <2>2. w * j \in Int /\ w * k \in Int
    OBVIOUS
  <2>3. ASSUME j > k PROVE w * j >= w * k + w
    BY <2>3, LargerProduct
  <2>4. ASSUME k > j PROVE w * k >= w * j + w
    BY <2>4, LargerProduct
  <2> QED BY <1>2, <1>4, <2>1, <2>2, <2>3, <2>4
<1> QED BY <1>4, <1>5
-----------------------------------------------------------------------------
(* The generator of the payload *)

Differs(x, y) == [t \in 0 .. WordBits - 1 |-> TwoTo[t] * ((Bit(x, t) + Bit(y, t)) % 2)]

\* A bit is 0 or 1, and what they add to the exclusive or at most their weight.
LEMMA BitType ==
    ASSUME NEW x \in Int, NEW t \in 0 .. WordBits PROVE Bit(x, t) \in {0, 1}
<1>1. PICK p \in Nat \ {0} : p = TwoTo[t]
  BY PowersOfTwo DEF Doubles
<1>2. PICK q \in Int : q = x \div p
  BY Division
<1>3. q % 2 \in 0 .. 1
  BY Division
<1> QED BY <1>1, <1>2, <1>3 DEF Bit

\* The terms of WordXor are its bits, at their weights.
LEMMA DiffersType ==
    ASSUME NEW x \in Int, NEW y \in Int
    PROVE  /\ Differs(x, y) \in [0 .. WordBits - 1 -> Nat]
           /\ \A t \in 0 .. WordBits - 1 :
                 /\ Differs(x, y)[t] <= TwoTo[t]
                 /\ Differs(x, y)[t] = 0 => Bit(x, t) = Bit(y, t)
<1> SUFFICES ASSUME NEW t \in 0 .. WordBits - 1
             PROVE  LET d == TwoTo[t] * ((Bit(x, t) + Bit(y, t)) % 2)
                    IN  d \in Nat /\ d <= TwoTo[t] /\ (d = 0 => Bit(x, t) = Bit(y, t))
  BY DEF Differs
<1>1. t \in 0 .. WordBits
  BY Widths
<1>2. PICK p \in Nat \ {0} : p = TwoTo[t]
  BY <1>1, PowersOfTwo DEF Doubles
<1>3. PICK a \in {0, 1}, b \in {0, 1} : a = Bit(x, t) /\ b = Bit(y, t)
  BY <1>1, BitType
<1>4. /\ (a + b) % 2 \in {0, 1}
      /\ (a + b) % 2 = 0 => a = b
  OBVIOUS
<1>5. PICK c \in {0, 1} : c = (a + b) % 2
  BY <1>4
<1>6. p * c \in Nat /\ p * c <= p /\ (p * c = 0 => a = b)
  <2>1. CASE c = 0
    BY <1>4, <1>5, <2>1
  <2>2. CASE c = 1
    BY <2>2
  <2> QED BY <2>1, <2>2
<1> QED BY <1>2, <1>3, <1>5, <1>6

\* The exclusive or of two words is a word, and 0 only if all their bits are equal.
LEMMA XorType ==
    ASSUME NEW x \in Int, NEW y \in Int
    PROVE  /\ WordXor(x, y) \in 0 .. Word - 1
           /\ WordXor(x, y) = 0 => \A t \in 0 .. WordBits - 1 : Bit(x, t) = Bit(y, t)
<1> DEFINE term == Differs(x, y)
           Low == CHOOSE Low : Low = [n \in 0 .. WordBits |->
                      IF n = 0 THEN 0
                      ELSE Low[n - 1] + TwoTo[n - 1] * ((Bit(x, n - 1) + Bit(y, n - 1)) % 2)]
<1>1. term \in [0 .. WordBits - 1 -> Nat] /\ term \in [0 .. WordBits - 1 -> Int]
  <2>1. term \in [0 .. WordBits - 1 -> Nat]
    BY DiffersType
  <2> HIDE DEF term
  <2> QED BY <2>1
<1>2. ASSUME NEW n \in 0 .. WordBits, n # 0
      PROVE  TwoTo[n - 1] * ((Bit(x, n - 1) + Bit(y, n - 1)) % 2) = term[n - 1]
  <2>1. PICK t \in 0 .. WordBits - 1 : t = n - 1
    BY <1>2, Widths
  <2> QED BY <2>1 DEF Differs
<1>0. WordBits \in Nat
  BY Widths
<1> HIDE DEF term
<1>3. PICK f : f = [n \in 0 .. WordBits |-> IF n = 0 THEN 0 ELSE f[n - 1] + term[n - 1]]
  BY <1>0, <1>1, SumExists
<1>4. f = [n \in 0 .. WordBits |->
              IF n = 0 THEN 0
              ELSE f[n - 1] + TwoTo[n - 1] * ((Bit(x, n - 1) + Bit(y, n - 1)) % 2)]
  BY <1>2, <1>3, Zenon
<1>5. Low = [n \in 0 .. WordBits |->
              IF n = 0 THEN 0
              ELSE Low[n - 1] + TwoTo[n - 1] * ((Bit(x, n - 1) + Bit(y, n - 1)) % 2)]
  BY <1>4, Zenon
<1>6. WordXor(x, y) = Low[WordBits]
  BY DEF WordXor
<1> HIDE DEF Low
<1>7. Low = [n \in 0 .. WordBits |-> IF n = 0 THEN 0 ELSE Low[n - 1] + term[n - 1]]
  BY <1>2, <1>5, Zenon
<1>8. IsSum(Low, WordBits, term)
  BY <1>0, <1>1, <1>7, SumByDefinition
<1>9. Low[WordBits] \in 0 .. TwoTo[WordBits] - 1
  <2>1. \A t \in 0 .. WordBits - 1 : term[t] <= TwoTo[t]
    BY DiffersType DEF term
  <2> QED BY <1>0, <1>1, <1>8, <2>1, PowersOfTwo, SumOfPowers
<1>10. ASSUME Low[WordBits] = 0, NEW t \in 0 .. WordBits - 1
       PROVE  Bit(x, t) = Bit(y, t)
  <2>1. term[t] = 0
    BY <1>0, <1>1, <1>8, <1>10, SumOfNothing
  <2> QED BY <2>1, DiffersType DEF term
<1> QED BY <1>6, <1>9, <1>10 DEF Word

\* The bits of a word determine it, too.
LEMMA BitsDetermine ==
    ASSUME NEW x \in Int, NEW y \in Int,
           \A t \in 0 .. WordBits - 1 : Bit(x, t) = Bit(y, t)
    PROVE  x % Word = y % Word
<1>1. PICK c \in Nat \ {0} : c = 2
  OBVIOUS
<1>2. PICK P, m : P = TwoTo /\ m = WordBits
  OBVIOUS
<1>3. m \in Nat /\ P[0] = 1 /\ \A t \in 0 .. m : P[t] \in Nat \ {0}
  BY <1>2, Widths, PowersOfTwo DEF Doubles
<1>4. ASSUME NEW t \in 0 .. m - 1 PROVE P[t + 1] = P[t] * c
  <2>1. t + 1 \in 1 .. m /\ (t + 1) - 1 = t /\ t \in 0 .. m
    BY <1>3
  <2>2. P[t + 1] = 2 * P[t] /\ P[t] \in Nat
    BY <1>2, <2>1, PowersOfTwo DEF Doubles
  <2> QED BY <1>1, <2>2
<1>5. SameDigits(P, m, c, x, y)
  BY <1>1, <1>2 DEF Bit, SameDigits
<1>6. IsScale(P, m, c)
  BY <1>3, <1>4 DEF IsScale
<1>7. m \in Nat
  BY <1>3
<1>8. x % P[m] = y % P[m]
  BY <1>5, <1>6, <1>7, DigitsEqual
<1> QED BY <1>2, <1>8 DEF Word

\* A word differs from itself shifted to the left, unless it is 0.
LEMMA LeftShift ==
    ASSUME NEW x \in 1 .. Word - 1, NEW k \in 1 .. WordBits
    PROVE  /\ x * TwoTo[k] \in Int
           /\ WordXor(x, x * TwoTo[k]) \in 1 .. Word - 1
<1>1. PICK p \in Nat : TwoTo[k] = 2 * p
  BY Widths, PowersOfTwo DEF Doubles
<1>2. PICK y \in Nat : y = x * TwoTo[k] /\ y = x * (2 * p) /\ x \in Nat
  <2>1. x \in Nat /\ x * (2 * p) \in Nat
    BY ProductNat
  <2> QED BY <1>1, <2>1
<1>5. x \in Int /\ y \in Int
  BY <1>2
<1>3. WordXor(x, y) \in 0 .. Word - 1
  BY <1>5, XorType
<1>4. ASSUME WordXor(x, y) = 0 PROVE FALSE
  <2> DEFINE S == {t \in Nat : t <= WordBits => \E q \in Nat : x = TwoTo[t] * q}
  <2>1. 0 \in S
    <3>1. x = 1 * x /\ TwoTo[0] = 1
      BY <1>2, PowersOfTwo DEF Doubles
    <3> QED BY <1>2, <3>1
  <2>2. ASSUME NEW t \in Nat, t \in S PROVE t + 1 \in S
    <3> SUFFICES ASSUME t + 1 <= WordBits PROVE \E q \in Nat : x = TwoTo[t + 1] * q
      OBVIOUS
    <3>1. t \in 0 .. WordBits - 1 /\ t + 1 \in 1 .. WordBits /\ (t + 1) - 1 = t
          /\ t \in 0 .. WordBits
      BY Widths
    <3>2. PICK q \in Nat : x = TwoTo[t] * q
      BY <2>2, <3>1
    <3> HIDE DEF S
    <3>3. PICK d \in Nat \ {0} : d = TwoTo[t]
      BY <3>1, PowersOfTwo DEF Doubles
    <3>4. TwoTo[t + 1] = 2 * d
      BY <3>1, <3>3, PowersOfTwo DEF Doubles
    <3>5. Bit(x, t) = Bit(y, t)
      BY <1>4, <1>5, <3>1, XorType
    <3>6. x \div d = q
      <4>1. x = d * q + 0
        BY <3>2, <3>3
      <4> QED BY <3>3, <4>1, ExactQuotient
    <3>7. y \div d = 2 * (q * p)
      <4>1. (d * q) * (2 * p) = d * (2 * (q * p))
        OBVIOUS
      <4>2. PICK z \in Int : z = 2 * (q * p)
        OBVIOUS
      <4>3. y = d * z
        BY <1>2, <3>2, <3>3, <4>1, <4>2
      <4>4. (d * z) \div d = z
        BY ExactQuotient
      <4> QED BY <4>2, <4>3, <4>4
    <3>8. q % 2 = (2 * (q * p)) % 2
      BY <3>3, <3>5, <3>6, <3>7 DEF Bit
    <3>9. (2 * (q * p)) % 2 = 0
      <4>1. q * p \in Int
        OBVIOUS
      <4>2. (2 * (q * p) + 0) % 2 = 0
        BY <4>1, Remainder
      <4> QED BY <4>1, <4>2
    <3>10. PICK r \in Nat : q = 2 * r
      <4>1. q % 2 = 0
        BY <3>8, <3>9
      <4> QED BY <4>1
    <3>11. x = TwoTo[t + 1] * r
      <4>1. d * (2 * r) = (2 * d) * r
        OBVIOUS
      <4> QED BY <3>2, <3>3, <3>4, <3>10, <4>1
    <3> QED BY <3>11
  <2> HIDE DEF S
  <2>3. Nat \subseteq S
    BY <2>1, <2>2, Induction
  <2>4. PICK q \in Nat : x = Word * q
    BY <2>3, Widths DEF S, Word
  <2>5. q # 0
    BY <2>4, Widths
  <2>6. Word * q >= Word
    <3>1. 1 * Word <= q * Word
      BY <2>5, Widths, ProductMonotonic
    <3> QED BY <3>1, Widths, ProductNat
  <2> QED BY <2>4, <2>6, Widths
<1> QED BY <1>2, <1>3, <1>4

\* Nor does it equal itself shifted to the right.
LEMMA RightShift ==
    ASSUME NEW x \in 1 .. Word - 1, NEW k \in 1 .. WordBits
    PROVE  /\ x \div TwoTo[k] \in Int
           /\ WordXor(x, x \div TwoTo[k]) \in 1 .. Word - 1
<1>0. k \in 0 .. WordBits /\ k - 1 \in 0 .. WordBits /\ x \in Nat
  BY Widths
<1>1. PICK p \in Nat \ {0} : TwoTo[k] = p /\ p >= 2
  <2>1. TwoTo[k] = 2 * TwoTo[k - 1] /\ TwoTo[k - 1] \in Nat \ {0}
    BY <1>0, PowersOfTwo DEF Doubles
  <2> QED BY <2>1
<1>2. PICK y \in Nat, r \in Nat : y = x \div p /\ x = p * y + r
  <2>1. PICK z \in Nat : z = x
    BY <1>0
  <2>2. PICK y \in Nat, r \in 0 .. p - 1 : y = z \div p /\ z = p * y + r
    BY DivMod
  <2> QED BY <2>1, <2>2
<1>3. y < x
  <2>1. CASE y = 0
    BY <2>1
  <2>2. CASE y # 0
    <3>1. 2 * y <= p * y
      BY <1>1, ProductMonotonic
    <3>2. p * y \in Nat
      BY ProductNat
    <3> QED BY <1>2, <2>2, <3>1, <3>2
  <2> QED BY <2>1, <2>2
<1>6. x \in Int /\ y \in Int
  BY <1>0
<1>4. WordXor(x, y) \in 0 .. Word - 1
  BY <1>6, XorType
<1>5. ASSUME WordXor(x, y) = 0 PROVE FALSE
  <2>5. x % Word = y % Word
    <3>1. \A t \in 0 .. WordBits - 1 : Bit(x, t) = Bit(y, t)
      BY <1>5, <1>6, XorType
    <3> QED BY <1>6, <3>1, BitsDetermine
  <2>6. PICK w \in Nat \ {0} : w = Word
    BY Widths
  <2>7. x % w = x /\ y % w = y
    BY <1>3, <2>6
  <2> QED BY <1>3, <2>5, <2>6, <2>7
<1> QED BY <1>1, <1>2, <1>4, <1>5

\* The generator never gets from a word that is not 0 to 0 (modes.go:298-300).
LEMMA NextWordNonZero ==
    ASSUME NEW x \in 1 .. Word - 1 PROVE NextWord(x) \in 1 .. Word - 1
<1>1. Shift1 \in 1 .. WordBits /\ Shift2 \in 1 .. WordBits /\ Shift3 \in 1 .. WordBits
  BY FormatAssumption DEF WordBits
<1>2. PICK a \in 1 .. Word - 1 : a = WordXor(x, x * TwoTo[Shift1])
  BY <1>1, LeftShift
<1>3. PICK b \in 1 .. Word - 1 : b = WordXor(a, a \div TwoTo[Shift2])
  BY <1>1, RightShift
<1>4. WordXor(b, b * TwoTo[Shift3]) \in 1 .. Word - 1
  BY <1>1, LeftShift
<1> QED BY <1>2, <1>3, <1>4 DEF NextWord
\* fillPayload fills the buffer with cells, and not with zeros if a word fits into it.
LEMMA PayloadFilled ==
    ASSUME NEW p \in Int, NEW c \in Int, NEW size \in Nat
    PROVE  /\ FillPayload(p, c, size) \in [1 .. size -> 0 .. CellValues - 1]
           /\ size >= WordCells => \E i \in 1 .. size : FillPayload(p, c, size)[i] # 0
<1> DEFINE mixed == WordXor(p * PkFactor, c * CkFactor)
           seed == IF mixed = 0 THEN 1 ELSE mixed
           Words == CHOOSE Words : Words = [i \in 0 .. size |->
                        IF i = 0 THEN seed ELSE NextWord(Words[i - 1])]
           States == 1 .. Word - 1
           next == [i \in 1 .. size |-> [v \in States |-> NextWord(v)]]
<1>1. seed \in States
  <2>1. p * PkFactor \in Int /\ c * CkFactor \in Int
    BY FormatAssumption
  <2>2. mixed \in 0 .. Word - 1
    BY <2>1, XorType
  <2> HIDE DEF mixed
  <2> QED BY <2>2, Widths
<1>2. FillPayload(p, c, size) =
        [i \in 1 .. size |->
            Cells(Words[(i - 1) \div WordCells + 1], WordCells)[((i - 1) % WordCells) + 1]]
  BY DEF FillPayload
<1>3. \A i \in 1 .. size : \A v \in States : next[i][v] = NextWord(v)
  OBVIOUS
<1> HIDE DEF next, seed
<1>4. PICK f : Recursive(f, size, seed, next)
  BY Recursion
<1>5. /\ f = [i \in 0 .. size |-> f[i]]
      /\ f[0] = seed
      /\ \A i \in 1 .. size : f[i] = next[i][f[i - 1]]
  BY <1>4 DEF Recursive
<1>6. ASSUME NEW g, g[0] = seed,
             \A i \in 1 .. size : g[i - 1] \in States => g[i] = NextWord(g[i - 1])
      PROVE  \A i \in 0 .. size : g[i] \in States
  <2> DEFINE S == {i \in Nat : i <= size => g[i] \in States}
  <2>1. 0 \in S
    BY <1>1, <1>6
  <2>2. ASSUME NEW i \in Nat, i \in S PROVE i + 1 \in S
    <3> SUFFICES ASSUME i + 1 <= size PROVE g[i + 1] \in States
      OBVIOUS
    <3>1. i + 1 \in 1 .. size /\ (i + 1) - 1 = i /\ g[i] \in States
      BY <2>2
    <3> HIDE DEF States
    <3>2. g[i + 1] = NextWord(g[i])
      BY <1>6, <3>1
    <3>3. NextWord(g[i]) \in States
      BY <3>1, NextWordNonZero DEF States
    <3> QED BY <3>2, <3>3
  <2> HIDE DEF S
  <2>3. Nat \subseteq S
    BY <2>1, <2>2, Induction
  <2>4. ASSUME NEW i \in 0 .. size PROVE g[i] \in States
    <3>1. i \in S
      BY <2>3
    <3> QED BY <3>1 DEF S
  <2> QED BY <2>4
<1> HIDE DEF States
<1>7. \A i \in 0 .. size : f[i] \in States
  <2>1. ASSUME NEW i \in 1 .. size, f[i - 1] \in States PROVE f[i] = NextWord(f[i - 1])
    BY <1>3, <1>5, <2>1
  <2> QED BY <1>5, <1>6, <2>1
<1>8. f = [i \in 0 .. size |-> IF i = 0 THEN seed ELSE NextWord(f[i - 1])]
  <2>1. ASSUME NEW i \in 0 .. size PROVE f[i] = IF i = 0 THEN seed ELSE NextWord(f[i - 1])
    <3>1. CASE i # 0
      <4>1. i \in 1 .. size /\ i - 1 \in 0 .. size
        BY <3>1
      <4>2. f[i - 1] \in States
        BY <1>7, <4>1
      <4> QED BY <1>3, <1>5, <3>1, <4>1, <4>2
    <3> QED BY <1>5, <3>1
  <2> QED BY <1>5, <2>1
<1>9. Words = [i \in 0 .. size |-> IF i = 0 THEN seed ELSE NextWord(Words[i - 1])]
  BY <1>8, Zenon
<1> HIDE DEF Words
<1>10. \A i \in 0 .. size : Words[i] \in States
  <2>1. Words[0] = seed
    BY <1>9
  <2>2. ASSUME NEW i \in 1 .. size PROVE Words[i] = NextWord(Words[i - 1])
    BY <1>9
  <2> QED BY <1>6, <2>1, <2>2
<1>11. ASSUME NEW i \in 1 .. size
       PROVE  FillPayload(p, c, size)[i] \in 0 .. CellValues - 1
  <2>1. PICK w \in Nat, r \in 0 .. WordCells - 1 :
           w = (i - 1) \div WordCells /\ r = (i - 1) % WordCells /\ i - 1 = WordCells * w + r
    <3>1. PICK j \in Nat : j = i - 1
      OBVIOUS
    <3>2. j \div WordCells \in Nat /\ j % WordCells \in 0 .. WordCells - 1
          /\ j = WordCells * (j \div WordCells) + (j % WordCells)
      BY Widths, DivMod
    <3> QED BY <3>1, <3>2
  <2>2. w + 1 \in 0 .. size
    <3>1. 1 * w <= WordCells * w /\ WordCells * w \in Nat
      BY Widths, ProductMonotonic
    <3>2. w <= WordCells * w
      BY <3>1
    <3>3. w <= i - 1
      BY <2>1, <3>1, <3>2
    <3> QED BY <3>3
  <2>3. Words[w + 1] \in Int
    BY <1>10, <2>2 DEF States
  <2>4. Cells(Words[w + 1], WordCells) \in [1 .. WordCells -> 0 .. CellValues - 1]
    <3>1. PICK x \in Int : x = Words[w + 1]
      BY <2>3
    <3>2. WordCells \in 0 .. WordCells
      BY Widths
    <3>3. Cells(x, WordCells) \in [1 .. WordCells -> 0 .. CellValues - 1]
      BY <3>2, CellsType
    <3> QED BY <3>1, <3>3
  <2>5. r + 1 \in 1 .. WordCells
    BY Widths
  <2>6. FillPayload(p, c, size)[i] = Cells(Words[w + 1], WordCells)[r + 1]
    BY <1>2, <2>1
  <2> QED BY <2>4, <2>5, <2>6
<1>12. ASSUME size >= WordCells PROVE \E i \in 1 .. size : FillPayload(p, c, size)[i] # 0
  <2>1. PICK w \in 1 .. Word - 1 : w = Words[1]
    BY <1>10, <1>12, Widths DEF States
  <2>2. PICK i \in 1 .. WordCells : Cells(w, WordCells)[i] # Cells(0, WordCells)[i]
    <3>1. w % Word # 0 % Word
      <4>1. PICK m \in Nat \ {0} : m = Word /\ w \in 1 .. m - 1
        BY Widths
      <4>2. w % m = w /\ 0 % m = 0
        BY <4>1
      <4> QED BY <4>1, <4>2
    <3> QED BY <3>1, CellsDetermine
  <2>3. Cells(0, WordCells)[i] = 0
    <3>1. i - 1 \in 0 .. WordCells
      BY Widths
    <3>2. PICK q \in Nat \ {0} : q = TwoTo[CellBits * (i - 1)]
      BY <3>1, Weights
    <3>3. PICK m \in Nat \ {0} : m = CellValues
      BY Widths
    <3>4. 0 \div q = 0 /\ 0 % m = 0
      OBVIOUS
    <3>5. Cells(0, WordCells)[i] = (0 \div q) % m
      BY <3>2, <3>3 DEF Cells
    <3> QED BY <3>4, <3>5
  <2>4. i \in 1 .. size
    BY <1>12, Widths
  <2>5. (i - 1) \div WordCells = 0 /\ (i - 1) % WordCells = i - 1
    <3>1. PICK n \in Nat \ {0} : n = WordCells /\ i - 1 \in 0 .. n - 1
      BY Widths
    <3>2. PICK j \in 0 .. n - 1 : j = i - 1
      BY <3>1
    <3>3. j \div n = 0 /\ j % n = j
      OBVIOUS
    <3> QED BY <3>1, <3>2, <3>3
  <2>6. FillPayload(p, c, size)[i] = Cells(w, WordCells)[i]
    <3>1. 0 + 1 = 1 /\ (i - 1) + 1 = i
      OBVIOUS
    <3> QED BY <1>2, <2>1, <2>4, <2>5, <3>1
  <2> QED BY <2>2, <2>3, <2>4, <2>6
<1>13. FillPayload(p, c, size) = [i \in 1 .. size |-> FillPayload(p, c, size)[i]]
  BY <1>2
<1> QED BY <1>11, <1>12, <1>13
-----------------------------------------------------------------------------
(* The formats *)

Cell == 0 .. CellValues - 1
Data == Seq(Cell)

\* The sizes of the parts.
LEMMA Sizing ==
    /\ WordCells \in Nat \ {0} /\ ChecksumCells \in 1 .. WordCells
    /\ HeaderSize = WordCells + WordCells + WordCells /\ HeaderSize \in Nat
    /\ MinSize \in Nat /\ MinSize > HeaderSize + ChecksumCells
    /\ 2 * HeaderSize <= CellValues /\ CellValues \in Nat
    /\ 0 \in Cell
<1>1. 3 * WordCells <= CellValues \div 2 /\ CellValues \in Nat /\ CellValues >= 2
  BY RangeAssumption, Widths
<1>2. 2 * (3 * WordCells) <= CellValues
  <2>1. 2 * (CellValues \div 2) <= CellValues
    BY <1>1
  <2> QED BY <1>1, <2>1, Widths
<1> QED BY <1>1, <1>2, FormatAssumption DEF HeaderSize, Cell

\* The cells of a number are data.
LEMMA CellsData ==
    ASSUME NEW x \in Int, NEW n \in 0 .. WordCells
    PROVE  Cells(x, n) \in Data /\ Len(Cells(x, n)) = n
<1>1. Cells(x, n) \in [1 .. n -> Cell] /\ n \in Nat
  BY CellsType, Widths DEF Cell
<1>2. Cells(x, n) \in Data
  BY <1>1 DEF Data
<1> QED BY <1>1, <1>2 DEF Data

\* Zeros are cells, all of them 0.
LEMMA ZerosData ==
    ASSUME NEW n \in Nat
    PROVE  Zeros(n) \in Data /\ Len(Zeros(n)) = n /\ \A i \in 1 .. n : Zeros(n)[i] = 0
<1>1. Zeros(n) \in [1 .. n -> Cell] /\ \A i \in 1 .. n : Zeros(n)[i] = 0
  BY Sizing DEF Zeros
<1>2. Zeros(n) \in Data
  BY <1>1 DEF Data
<1> QED BY <1>1, <1>2 DEF Data

\* A payload is cells, as many as asked for.
LEMMA PayloadData ==
    ASSUME NEW p \in Int, NEW c \in Int, NEW n \in Nat
    PROVE  FillPayload(p, c, n) \in Data /\ Len(FillPayload(p, c, n)) = n
<1>1. FillPayload(p, c, n) \in [1 .. n -> Cell]
  BY PayloadFilled DEF Cell
<1>2. FillPayload(p, c, n) \in Data
  BY <1>1 DEF Data
<1> QED BY <1>1, <1>2 DEF Data

\* What is put in front of other cells can be read there, and they behind it.
LEMMA Joined ==
    ASSUME NEW s \in Data, NEW t \in Data
    PROVE  /\ s \o t \in Data /\ Len(s \o t) = Len(s) + Len(t)
           /\ Len(s) \in Nat /\ Len(t) \in Nat
           /\ \A m \in 1 .. Len(s), n \in 1 .. Len(s) : SubSeq(s \o t, m, n) = SubSeq(s, m, n)
           /\ t # << >> => SubSeq(s \o t, Len(s) + 1, Len(s) + Len(t)) = t
<1>1. /\ s \o t \in Data /\ Len(s \o t) = Len(s) + Len(t)
      /\ Len(s) \in Nat /\ Len(t) \in Nat
  BY ConcatProperties, LenProperties DEF Data
<1>2. ASSUME t # << >>
      PROVE  SubSeq(s \o t, Len(s) + 1, Len(s) + Len(t)) = t
  <2>1. Len(t) >= 1
    BY <1>2, EmptySeq DEF Data
  <2>2. SubSeq(s \o t, Len(s) + 1, Len(s) + Len(t))
          = SubSeq(t, (Len(s) + 1) - Len(s), (Len(s) + Len(t)) - Len(s))
    BY <1>1, <2>1, SubSeqOfConcat2 DEF Data
  <2>3. (Len(s) + 1) - Len(s) = 1 /\ (Len(s) + Len(t)) - Len(s) = Len(t)
    BY <1>1
  <2> QED BY <2>2, <2>3, SubSeqFull DEF Data
<1>3. \A m \in 1 .. Len(s), n \in 1 .. Len(s) : SubSeq(s \o t, m, n) = SubSeq(s, m, n)
  BY SubSeqOfConcat1 DEF Data
<1> QED BY <1>1, <1>2, <1>3

\* A header has the size first and then the keys.
IsHeader(p, c, n, h) ==
    /\ h \in Data /\ Len(h) = HeaderSize
    /\ SubSeq(h, 1, WordCells) = Cells(n, WordCells)
    /\ SubSeq(h, WordCells + 1, HeaderSize) = Cells(p, WordCells) \o Cells(c, WordCells)

\* The header is the size and the two keys, of a word each.
LEMMA HeaderData ==
    ASSUME NEW p \in Int, NEW c \in Int, NEW n \in Int
    PROVE  IsHeader(p, c, n, Header(p, c, n))
<1>1. PICK w \in Nat \ {0} : w = WordCells /\ HeaderSize = w + w + w /\ w \in 0 .. WordCells
  BY Sizing
<1>2. PICK s \in Data, k \in Data, l \in Data :
         /\ s = Cells(n, w) /\ k = Cells(p, w) /\ l = Cells(c, w)
         /\ Len(s) = w /\ Len(k) = w /\ Len(l) = w
  BY <1>1, CellsData
<1>3. Header(p, c, n) = (s \o k) \o l
  BY <1>1, <1>2 DEF Header
<1>4. (s \o k) \o l = s \o (k \o l)
  <2>1. s \in Seq(Cell) /\ k \in Seq(Cell) /\ l \in Seq(Cell)
    BY DEF Data
  <2> QED BY <2>1, ConcatAssociative
<1>5. PICK h \in Data : h = k \o l /\ Len(h) = w + w
  <2>1. k \o l \in Data /\ Len(k \o l) = Len(k) + Len(l)
    BY Joined
  <2> QED BY <1>2, <2>1
<1>6. s \o h \in Data /\ Len(s \o h) = w + (w + w)
  <2>1. s \o h \in Data /\ Len(s \o h) = Len(s) + Len(h)
    BY Joined
  <2> QED BY <1>2, <1>5, <2>1
<1>7. SubSeq(s \o h, 1, w) = s
  <2>1. SubSeq(s \o h, 1, w) = SubSeq(s, 1, w)
    BY <1>2, SubSeqOfConcat1 DEF Data
  <2>2. SubSeq(s, 1, Len(s)) = s
    BY SubSeqFull DEF Data
  <2> QED BY <1>2, <2>1, <2>2
<1>8. SubSeq(s \o h, w + 1, w + (w + w)) = h
  <2>1. SubSeq(s \o h, w + 1, w + (w + w)) = SubSeq(h, (w + 1) - w, (w + (w + w)) - w)
    <3>1. s \in Seq(Cell) /\ h \in Seq(Cell)
      BY DEF Data
    <3>2. /\ w + 1 \in Len(s) + 1 .. Len(s) + Len(h)
          /\ w + (w + w) \in Len(s) + 1 .. Len(s) + Len(h)
      BY <1>2, <1>5
    <3>3. SubSeq(s \o h, w + 1, w + (w + w))
            = SubSeq(h, (w + 1) - Len(s), (w + (w + w)) - Len(s))
      BY <3>1, <3>2, SubSeqOfConcat2
    <3> QED BY <1>2, <3>3
  <2>2. (w + 1) - w = 1 /\ (w + (w + w)) - w = Len(h)
    BY <1>5
  <2> QED BY <2>1, <2>2, SubSeqFull DEF Data
<1>9. w + w + w = w + (w + w)
  OBVIOUS
<1> QED BY <1>1, <1>2, <1>3, <1>4, <1>5, <1>6, <1>7, <1>8, <1>9 DEF IsHeader

\* The terms of a checksum.
CrcTerms(cells) == [t \in 0 .. Len(cells) - 1 |-> cells[t + 1]]

\* A checksum has the first cells of the sum of the cells.
LEMMA CrcIsSum ==
    ASSUME NEW cells \in Data
    PROVE  /\ CrcTerms(cells) \in [0 .. Len(cells) - 1 -> Int]
           /\ \E f : /\ IsSum(f, Len(cells), CrcTerms(cells)) /\ f[Len(cells)] \in Int
                     /\ Crc(cells) = Cells(f[Len(cells)], ChecksumCells)
<1> DEFINE Sum == CHOOSE Sum : Sum = [n \in 0 .. Len(cells) |->
                                        IF n = 0 THEN 0 ELSE Sum[n - 1] + cells[n]]
           term == CrcTerms(cells)
<1>1. PICK len \in Nat : len = Len(cells) /\ cells \in [1 .. len -> Cell]
  BY LenProperties DEF Data
<1>2. term \in [0 .. len - 1 -> Int]
  <2>1. \A t \in 0 .. len - 1 : t + 1 \in 1 .. len
    OBVIOUS
  <2>2. Cell \subseteq Int
    BY DEF Cell
  <2> QED BY <1>1, <2>1, <2>2 DEF CrcTerms
<1>3. \A n \in 0 .. len : n # 0 => term[n - 1] = cells[n]
  <2>1. \A n \in 0 .. len : n # 0 => n - 1 \in 0 .. len - 1 /\ (n - 1) + 1 = n
    OBVIOUS
  <2> QED BY <1>1, <2>1 DEF CrcTerms
<1> HIDE DEF term
<1>4. PICK f : f = [n \in 0 .. len |-> IF n = 0 THEN 0 ELSE f[n - 1] + term[n - 1]]
  BY <1>2, SumExists
<1>5. f = [n \in 0 .. len |-> IF n = 0 THEN 0 ELSE f[n - 1] + cells[n]]
  BY <1>3, <1>4, Zenon
<1>6. Sum = [n \in 0 .. len |-> IF n = 0 THEN 0 ELSE Sum[n - 1] + cells[n]]
  BY <1>1, <1>5, Zenon
<1>7. Crc(cells) = Cells(Sum[Len(cells)], ChecksumCells)
  BY DEF Crc
<1> HIDE DEF Sum
<1>8. Sum = [n \in 0 .. len |-> IF n = 0 THEN 0 ELSE Sum[n - 1] + term[n - 1]]
  BY <1>3, <1>6, Zenon
<1>9. IsSum(Sum, len, term)
  BY <1>2, <1>8, SumByDefinition
<1>10. Sum[len] \in Int
  BY <1>9 DEF IsSum
<1> QED BY <1>1, <1>2, <1>7, <1>9, <1>10 DEF term

\* A checksum is as long as it should be.
LEMMA CrcData ==
    ASSUME NEW cells \in Data
    PROVE  Crc(cells) \in Data /\ Len(Crc(cells)) = ChecksumCells
<1>1. PICK x \in Int : Crc(cells) = Cells(x, ChecksumCells)
  BY CrcIsSum
<1>2. ChecksumCells \in 0 .. WordCells
  BY Sizing
<1> QED BY <1>1, <1>2, CellsData

\* The checksum detects a change of one cell, as CRC32C does.
LEMMA CrcDetects ==
    ASSUME NEW len \in Nat, NEW cells \in [1 .. len -> Cell],
           NEW i \in 1 .. len, NEW e \in Cell, e # cells[i]
    PROVE  Crc([cells EXCEPT ![i] = e]) # Crc(cells)
<1> DEFINE changed == [cells EXCEPT ![i] = e]
<1>1. cells \in Data /\ len = Len(cells)
  <2>1. cells \in Data
    BY DEF Data
  <2> QED BY <2>1 DEF Data
<1>2. changed \in Data /\ Len(changed) = len
      /\ \A j \in 1 .. len : changed[j] = IF j = i THEN e ELSE cells[j]
  BY <1>1, ExceptSeq DEF Data
<1>3. PICK d \in Int : /\ d = e - cells[i] /\ e = cells[i] + d
                       /\ d # 0 /\ d < CellValues /\ -d < CellValues
  BY <1>1, Sizing DEF Cell
<1> HIDE DEF changed
<1>4. PICK t \in 0 .. len - 1 : t + 1 = i
  BY <1>1
<1>5. ASSUME NEW j \in 0 .. len - 1
      PROVE  CrcTerms(changed)[j] = IF j = t THEN CrcTerms(cells)[j] + d ELSE CrcTerms(cells)[j]
  <2>1. j + 1 \in 1 .. len /\ (j + 1 = i <=> j = t)
    BY <1>4
  <2> QED BY <1>1, <1>2, <1>3, <2>1 DEF CrcTerms
<1>6. PICK f : IsSum(f, len, CrcTerms(cells)) /\ f[len] \in Int
               /\ Crc(cells) = Cells(f[len], ChecksumCells)
  BY <1>1, CrcIsSum
<1>7. PICK g : IsSum(g, len, CrcTerms(changed)) /\ g[len] \in Int
               /\ Crc(changed) = Cells(g[len], ChecksumCells)
  BY <1>2, CrcIsSum
<1>8. g[len] = f[len] + d
  <2>1. PICK term \in [0 .. len - 1 -> Int] : term = CrcTerms(cells)
    BY <1>1, CrcIsSum
  <2>2. PICK raised : raised = CrcTerms(changed)
    OBVIOUS
  <2>3. Raised(raised, term, len, t, d)
    BY <1>5, <2>1, <2>2 DEF Raised
  <2>4. IsSum(f, len, term)
    BY <1>6, <2>1
  <2>5. IsSum(g, len, raised)
    BY <1>7, <2>2
  <2> QED BY <2>3, <2>4, <2>5, SumRaised
<1>9. f[len] % CellValues # g[len] % CellValues
  <2>1. PICK n \in Nat \ {0} : n = CellValues
    BY Widths
  <2>2. PICK x \in Int, y \in Int : x = f[len] /\ y = g[len] /\ y = x + d
    BY <1>6, <1>7, <1>8
  <2>3. d # 0 /\ d < n /\ -d < n
    BY <1>3, <2>1
  <2>4. x # y /\ x < y + n /\ y < x + n
    BY <2>2, <2>3
  <2>5. x % n # y % n
    BY <2>4, RestsDiffer
  <2> QED BY <2>1, <2>2, <2>5
<1>10. Crc(cells)[1] # Crc(changed)[1]
  <2>1. PICK x \in Int, y \in Int : x = f[len] /\ y = g[len]
    BY <1>6, <1>7
  <2>2. PICK n \in Nat \ {0} : n = ChecksumCells
    BY Sizing
  <2>3. Cells(x, n)[1] = x % CellValues /\ Cells(y, n)[1] = y % CellValues
    BY FirstCell
  <2> QED BY <1>6, <1>7, <1>9, <2>1, <2>2, <2>3
<1> QED BY <1>10 DEF changed
-----------------------------------------------------------------------------
(* What is written *)

\* A small value has its size in its first cell.
LEMMA SmallWritten ==
    ASSUME NEW p \in Int, NEW c \in Int, NEW size \in 1 .. HeaderSize - 1
    PROVE  \A v : v = SmallValue(p, c, size) =>
              v \in Data /\ Len(v) = size /\ Int8(v[1]) = size
<1>1. PICK n \in Nat, w \in Nat, h \in Nat, b \in Nat \ {0} :
         /\ n = size /\ w = WordCells /\ h = HeaderSize /\ b = CellValues
         /\ n >= 1 /\ n < h /\ 2 * h <= b /\ 1 \in 0 .. WordCells /\ w \in 0 .. WordCells
  BY Sizing
<1>2. PICK s \in Data : s = Cells(n, 1) /\ Len(s) = 1 /\ s[1] = n % b
  <2>1. Cells(n, 1) \in Data /\ Len(Cells(n, 1)) = 1
    <3>1. PICK one \in 0 .. WordCells : one = 1
      BY <1>1
    <3>2. Cells(n, one) \in Data /\ Len(Cells(n, one)) = one
      BY CellsData
    <3> QED BY <3>1, <3>2
  <2>2. Cells(n, 1)[1] = n % b
    BY <1>1, FirstCell
  <2> QED BY <2>1, <2>2
<1>3. PICK x \in Data : x = Cells(WordXor(p, c), WordCells) /\ Len(x) = w
  <2>1. PICK y \in Int : y = WordXor(p, c)
    BY XorType
  <2>2. Cells(y, w) \in Data /\ Len(Cells(y, w)) = w
    BY <1>1, CellsData
  <2> QED BY <1>1, <2>1, <2>2
<1>4. PICK z \in Data : z = Zeros(HeaderSize) /\ Len(z) = h
  BY <1>1, ZerosData
<1>5. PICK u \in Data : u = s \o x /\ Len(u) = 1 + w /\ u[1] = s[1]
  <2>1. s \o x \in Data /\ Len(s \o x) = Len(s) + Len(x)
        /\ \A i \in 1 .. Len(s) + Len(x) : (s \o x)[i] = IF i <= Len(s) THEN s[i] ELSE x[i - Len(s)]
    BY ConcatProperties DEF Data
  <2>2. 1 \in 1 .. Len(s) + Len(x) /\ 1 <= Len(s)
    BY <1>2, <1>3
  <2>3. (s \o x)[1] = s[1]
    BY <2>1, <2>2
  <2> QED BY <1>2, <1>3, <2>1, <2>3
<1>6. PICK t \in Data : t = u \o z /\ Len(t) = 1 + w + h /\ t[1] = u[1]
  <2>1. u \o z \in Data /\ Len(u \o z) = Len(u) + Len(z)
        /\ \A i \in 1 .. Len(u) + Len(z) : (u \o z)[i] = IF i <= Len(u) THEN u[i] ELSE z[i - Len(u)]
    BY ConcatProperties DEF Data
  <2>2. 1 \in 1 .. Len(u) + Len(z) /\ 1 <= Len(u)
    BY <1>4, <1>5
  <2>3. (u \o z)[1] = u[1]
    BY <2>1, <2>2
  <2> QED BY <1>4, <1>5, <2>1, <2>3
<1>7. SmallValue(p, c, size) = SubSeq(t, 1, n)
  BY <1>1, <1>2, <1>3, <1>4, <1>5, <1>6 DEF SmallValue
<1>8. /\ SubSeq(t, 1, n) \in Data
      /\ Len(SubSeq(t, 1, n)) = n
      /\ SubSeq(t, 1, n)[1] = t[1]
  <2>1. \A i \in 1 .. n : t[i] \in Cell
    <3>1. \A i \in 1 .. Len(t) : t[i] \in Cell
      BY ElementOfSeq DEF Data
    <3> QED BY <1>1, <1>6, <3>1
  <2>2. /\ SubSeq(t, 1, n) \in Data
        /\ Len(SubSeq(t, 1, n)) = IF 1 <= n THEN n - 1 + 1 ELSE 0
        /\ \A i \in 1 .. n - 1 + 1 : SubSeq(t, 1, n)[i] = t[1 + i - 1]
    BY <2>1, SubSeqProperties DEF Data
  <2>3. n - 1 + 1 = n /\ 1 \in 1 .. n - 1 + 1 /\ 1 + 1 - 1 = 1
    BY <1>1
  <2> QED BY <1>1, <2>2, <2>3
<1>9. Int8(n % b) = n
  <2>1. n < b /\ n < b \div 2
    BY <1>1
  <2>2. n % b = n
    BY <2>1
  <2> QED BY <1>1, <2>1, <2>2 DEF Int8
<1> QED BY <1>1, <1>2, <1>5, <1>6, <1>7, <1>8, <1>9

\* A value of n cells begins with a header.
Headed(p, c, n, v) ==
    /\ v \in Data /\ Len(v) = n
    /\ SubSeq(v, 1, WordCells) = Cells(n, WordCells)
    /\ KeysStored(p, c, v)

\* A header can be read in front of whatever follows it.
LEMMA HeaderWritten ==
    ASSUME NEW p \in Int, NEW c \in Int, NEW n \in Int, NEW t \in Data,
           HeaderSize + Len(t) = n
    PROVE  Headed(p, c, n, Header(p, c, n) \o t)
<1>1. PICK h \in Data : /\ h = Header(p, c, n) /\ Len(h) = HeaderSize
                        /\ SubSeq(h, 1, WordCells) = Cells(n, WordCells)
                        /\ SubSeq(h, WordCells + 1, HeaderSize)
                             = Cells(p, WordCells) \o Cells(c, WordCells)
  <2>1. IsHeader(p, c, n, Header(p, c, n))
    BY HeaderData
  <2> QED BY <2>1 DEF IsHeader
<1>2. h \o t \in Data /\ Len(h \o t) = Len(h) + Len(t)
      /\ \A m \in 1 .. Len(h), k \in 1 .. Len(h) : SubSeq(h \o t, m, k) = SubSeq(h, m, k)
  BY Joined
<1>3. 1 \in 1 .. Len(h) /\ WordCells \in 1 .. Len(h) /\ WordCells + 1 \in 1 .. Len(h)
      /\ HeaderSize \in 1 .. Len(h)
  BY <1>1, Sizing
<1>4. Len(h \o t) = n
  BY <1>1, <1>2
<1>5. SubSeq(h \o t, 1, WordCells) = Cells(n, WordCells)
  BY <1>1, <1>2, <1>3
<1>6. KeysStored(p, c, h \o t)
  BY <1>1, <1>2, <1>3 DEF KeysStored
<1> QED BY <1>1, <1>2, <1>4, <1>5, <1>6 DEF Headed

\* A value with a header but no payload has its header.
LEMMA MediumWritten ==
    ASSUME NEW p \in Int, NEW c \in Int, NEW size \in HeaderSize .. MinSize - 1
    PROVE  Headed(p, c, size, Header(p, c, size) \o Zeros(size - HeaderSize))
<1>1. size \in Int /\ size - HeaderSize \in Nat /\ HeaderSize + (size - HeaderSize) = size
  BY Sizing
<1>2. PICK t \in Data : t = Zeros(size - HeaderSize) /\ Len(t) = size - HeaderSize
  BY <1>1, ZerosData
<1>3. HeaderSize + Len(t) = size
  BY <1>1, <1>2
<1>4. Headed(p, c, size, Header(p, c, size) \o t)
  BY <1>1, <1>3, HeaderWritten
<1> QED BY <1>2, <1>4

\* The last cells of a full value are the checksum of the payload.
LEMMA FullWritten ==
    ASSUME NEW p \in Int, NEW c \in Int, NEW size \in Nat, size >= MinSize
    PROVE  \A v : v = FullValue(p, c, size) =>
              /\ Headed(p, c, size, v)
              /\ SubSeq(v, Len(v) - ChecksumCells + 1, Len(v)) = Crc(Payload(v))
<1>1. PICK h \in Nat, k \in Nat, n \in Nat, m \in Nat :
         /\ h = HeaderSize /\ k = ChecksumCells /\ n = size - HeaderSize - ChecksumCells
         /\ m = size - k /\ m = h + n /\ h + 1 \in 1 .. m /\ m \in 1 .. m
         /\ n >= 1 /\ k >= 1 /\ size = m + k
  BY Sizing
<1>2. PICK f \in Data : f = FillPayload(p, c, n) /\ Len(f) = n
  BY PayloadData
<1>3. PICK u \in Data : /\ u = Header(p, c, size) \o f /\ Len(u) = m
                        /\ SubSeq(u, h + 1, m) = f
  <2>1. PICK g \in Data : g = Header(p, c, size) /\ Len(g) = h
    <3>1. PICK z \in Int : z = size
      OBVIOUS
    <3>2. IsHeader(p, c, z, Header(p, c, z))
      BY HeaderData
    <3>3. Header(p, c, z) \in Data /\ Len(Header(p, c, z)) = HeaderSize
      BY <3>2 DEF IsHeader
    <3> QED BY <1>1, <3>1, <3>3
  <2>2. g \o f \in Data /\ Len(g \o f) = Len(g) + Len(f)
        /\ (f # << >> => SubSeq(g \o f, Len(g) + 1, Len(g) + Len(f)) = f)
    BY Joined
  <2>3. f # << >>
    BY <1>1, <1>2, EmptySeq
  <2> QED BY <1>1, <1>2, <2>1, <2>2, <2>3
<1>4. ASSUME NEW t \in Data, Len(t) = k
      PROVE  /\ u \o t \in Data /\ Len(u \o t) = size
             /\ Payload(u \o t) = f
             /\ SubSeq(u \o t, m + 1, size) = t
  <2>1. /\ u \o t \in Data /\ Len(u \o t) = Len(u) + Len(t)
        /\ \A i \in 1 .. Len(u), j \in 1 .. Len(u) : SubSeq(u \o t, i, j) = SubSeq(u, i, j)
        /\ (t # << >> => SubSeq(u \o t, Len(u) + 1, Len(u) + Len(t)) = t)
    BY Joined
  <2>2. t # << >>
    BY <1>1, <1>4, EmptySeq
  <2>3. Len(u \o t) = size /\ Len(u \o t) - k = m
    BY <1>1, <1>3, <1>4, <2>1
  <2>4. SubSeq(u \o t, h + 1, m) = f
    BY <1>1, <1>3, <2>1
  <2>5. Payload(u \o t) = f
    BY <1>1, <2>3, <2>4 DEF Payload
  <2> QED BY <1>1, <1>3, <1>4, <2>1, <2>2, <2>3, <2>5
<1>5. Payload(u \o Zeros(ChecksumCells)) = f
  BY <1>1, <1>4, ZerosData
<1>6. PICK t \in Data : t = Crc(f) /\ Len(t) = k
  BY <1>1, CrcData
<1>7. FullValue(p, c, size) = u \o t
  BY <1>1, <1>2, <1>3, <1>5, <1>6 DEF FullValue
<1>8. Headed(p, c, size, u \o t)
  <2>1. PICK g \in Data : g = Header(p, c, size)
    <3>1. size \in Int
      OBVIOUS
    <3>2. IsHeader(p, c, size, Header(p, c, size))
      BY <3>1, HeaderData
    <3> QED BY <3>2 DEF IsHeader
  <2>2. PICK r \in Data : r = f \o t /\ Len(r) = n + k
    <3>1. f \o t \in Data /\ Len(f \o t) = Len(f) + Len(t)
      BY Joined
    <3> QED BY <1>2, <1>6, <3>1
  <2>3. (g \o f) \o t = g \o (f \o t)
    <3>1. g \in Seq(Cell) /\ f \in Seq(Cell) /\ t \in Seq(Cell)
      BY DEF Data
    <3> QED BY <3>1, ConcatAssociative
  <2>4. u \o t = Header(p, c, size) \o r
    BY <1>3, <2>1, <2>2, <2>3
  <2>5. HeaderSize + Len(r) = size
    BY <1>1, <2>2
  <2>6. Headed(p, c, size, Header(p, c, size) \o r)
    BY <2>5, HeaderWritten
  <2> QED BY <2>4, <2>6
<1>9. Len(u \o t) - ChecksumCells + 1 = m + 1
  BY <1>1, <1>4, <1>6
<1> QED BY <1>4, <1>6, <1>7, <1>8, <1>9

\* What GenerateData writes for validation passes it.
LEMMA WrittenValid ==
    ASSUME NEW p \in Int, NEW c \in Int, NEW size \in Nat \ {0},
           NEW v, v = ValidatedValue(p, c, size)
    PROVE  /\ v \in Data /\ Len(v) = size
           /\ ValidData(p, c, v)
           /\ size >= HeaderSize => KeysStored(p, c, v)
<1>0. size \in Nat /\ HeaderSize \in Nat /\ MinSize \in Nat /\ MinSize > HeaderSize
  BY Sizing
<1>1. CASE size < HeaderSize
  <2>1. v = SmallValue(p, c, size) /\ size \in 1 .. HeaderSize - 1
    BY <1>0, <1>1 DEF ValidatedValue
  <2>2. v \in Data /\ Len(v) = size /\ Int8(v[1]) = size
    BY <2>1, SmallWritten
  <2>3. SizeStored(v)
    BY <1>0, <1>1, <2>2 DEF SizeStored
  <2> QED BY <1>0, <1>1, <2>2, <2>3 DEF ValidData
<1>2. CASE size >= HeaderSize /\ size < MinSize
  <2>1. v = Header(p, c, size) \o Zeros(size - HeaderSize) /\ size \in HeaderSize .. MinSize - 1
    BY <1>0, <1>2 DEF ValidatedValue
  <2>2. Headed(p, c, size, v)
    BY <2>1, MediumWritten
  <2>3. SizeStored(v) /\ v \in Data /\ Len(v) = size /\ KeysStored(p, c, v)
    BY <1>0, <1>2, <2>2 DEF SizeStored, Headed
  <2> QED BY <1>2, <2>3 DEF ValidData
<1>3. CASE size >= MinSize
  <2>1. v = FullValue(p, c, size)
    BY <1>0, <1>3 DEF ValidatedValue
  <2>2. /\ Headed(p, c, size, v)
        /\ SubSeq(v, Len(v) - ChecksumCells + 1, Len(v)) = Crc(Payload(v))
    BY <1>0, <1>3, <2>1, FullWritten
  <2>3. SizeStored(v) /\ v \in Data /\ Len(v) = size /\ KeysStored(p, c, v)
    BY <1>0, <1>3, <2>2 DEF SizeStored, Headed
  <2> QED BY <1>0, <1>3, <2>2, <2>3 DEF ValidData
<1> QED BY <1>0, <1>1, <1>2, <1>3
-----------------------------------------------------------------------------
(* Faults of a value *)

\* The size that is stored shows in the first cell.
LEMMA SizeCell ==
    ASSUME NEW v \in Data, SizeStored(v)
    PROVE  /\ Len(v) \in Nat \ {0}
           /\ v[1] = Len(v) % CellValues
<1>1. PICK n \in Nat, b \in Nat \ {0} : n = Len(v) /\ b = CellValues /\ 2 * HeaderSize <= b
  BY Sizing, LenProperties DEF Data
<1>2. \A i \in 1 .. n : v[i] \in 0 .. b - 1
  BY <1>1, ElementOfSeq DEF Data, Cell
<1>3. CASE n < HeaderSize
  <2>1. n >= 1 /\ Int8(v[1]) = n
    BY <1>1, <1>3 DEF SizeStored
  <2>2. v[1] \in 0 .. b - 1
    BY <1>2, <2>1
  <2>3. n < b
    BY <1>1, <1>3, Sizing
  <2>4. v[1] = n
    <3>1. CASE v[1] < b \div 2
      BY <1>1, <2>1, <3>1 DEF Int8
    <3>2. CASE ~(v[1] < b \div 2)
      <4>1. n = v[1] - b
        BY <1>1, <2>1, <3>2 DEF Int8
      <4> QED BY <2>1, <2>2, <4>1
    <3> QED BY <3>1, <3>2
  <2>5. n % b = n
    BY <2>3
  <2> QED BY <1>1, <2>1, <2>4, <2>5
<1>4. CASE n >= HeaderSize
  <2>1. SubSeq(v, 1, WordCells) = Cells(n, WordCells)
    BY <1>1, <1>4, Sizing DEF SizeStored
  <2>2. PICK w \in Nat \ {0} : w = WordCells /\ w <= n
    BY <1>4, Sizing
  <2>3. SubSeq(v, 1, w)[1] = v[1]
    <3>1. \A i \in 1 .. w : v[i] \in Cell
      BY <1>1, <2>2, ElementOfSeq DEF Data
    <3>2. \A i \in 1 .. w - 1 + 1 : SubSeq(v, 1, w)[i] = v[1 + i - 1]
      BY <3>1, SubSeqProperties
    <3>3. 1 \in 1 .. w - 1 + 1 /\ 1 + 1 - 1 = 1
      OBVIOUS
    <3> QED BY <3>2, <3>3
  <2>4. Cells(n, w)[1] = n % CellValues
    BY FirstCell
  <2> QED BY <1>1, <2>1, <2>2, <2>3, <2>4
<1> QED BY <1>1, <1>3, <1>4, Sizing

\* Consecutive numbers have different rests.
LEMMA NextRest ==
    ASSUME NEW n \in Int, NEW m \in Int, NEW b \in Nat \ {0}, b >= 2, m = n + 1
    PROVE  n % b # m % b
<1>1. n # m /\ n < m + b /\ m < n + b
  OBVIOUS
<1> QED BY <1>1, RestsDiffer

\* A value that has lost its last cell, or got one more, does not have its size.
LEMMA LengthDetected ==
    ASSUME NEW v \in Data, NEW u \in Data, SizeStored(v), SizeStored(u),
           Len(u) = Len(v) + 1, u[1] = v[1]
    PROVE  FALSE
<1>1. PICK n \in Int, m \in Int, b \in Nat \ {0} :
         n = Len(v) /\ m = Len(u) /\ b = CellValues /\ b >= 2 /\ m = n + 1
  BY SizeCell, Widths
<1>2. n % b = m % b
  BY <1>1, SizeCell
<1> QED BY <1>1, <1>2, NextRest

\* The cells of a part of a value.
LEMMA Part ==
    ASSUME NEW v \in Data, NEW lo \in 1 .. Len(v), NEW hi \in 0 .. Len(v)
    PROVE  /\ SubSeq(v, lo, hi) \in Data
           /\ hi >= lo => Len(SubSeq(v, lo, hi)) = hi - lo + 1
           /\ \A i \in lo .. hi : SubSeq(v, lo, hi)[i - lo + 1] = v[i]
<1>0. Len(v) \in Nat
  BY LenProperties DEF Data
<1>1. \A i \in lo .. hi : v[i] \in Cell
  BY <1>0, ElementOfSeq DEF Data
<1>2. /\ SubSeq(v, lo, hi) \in Data
      /\ Len(SubSeq(v, lo, hi)) = IF lo <= hi THEN hi - lo + 1 ELSE 0
      /\ \A i \in 1 .. hi - lo + 1 : SubSeq(v, lo, hi)[i] = v[lo + i - 1]
  BY <1>0, <1>1, SubSeqProperties DEF Data
<1>3. ASSUME NEW i \in lo .. hi PROVE SubSeq(v, lo, hi)[i - lo + 1] = v[i]
  <2>1. i - lo + 1 \in 1 .. hi - lo + 1 /\ lo + (i - lo + 1) - 1 = i
    OBVIOUS
  <2> QED BY <1>2, <2>1
<1> QED BY <1>2, <1>3

\* A value and one with another i-th cell.
Altered(v, u, len, i) ==
    /\ v \in Data /\ u \in Data /\ Len(v) = len /\ Len(u) = len
    /\ i \in 1 .. len /\ u[i] # v[i]
    /\ \A j \in 1 .. len : j # i => u[j] = v[j]

\* A part that is equal does not have the cell in it, and one without it is equal.
LEMMA PartAltered ==
    ASSUME NEW v, NEW u, NEW len \in Nat, NEW i, Altered(v, u, len, i),
           NEW lo \in 1 .. len, NEW hi \in Nat, hi <= len
    PROVE  /\ i \in lo .. hi => SubSeq(u, lo, hi) # SubSeq(v, lo, hi)
           /\ i \notin lo .. hi => SubSeq(u, lo, hi) = SubSeq(v, lo, hi)
<1>1. /\ v \in Data /\ lo \in 1 .. Len(v) /\ hi \in 0 .. Len(v)
      /\ u \in Data /\ lo \in 1 .. Len(u) /\ hi \in 0 .. Len(u)
  BY DEF Altered
<1>4. PICK s \in Data, t \in Data :
         /\ s = SubSeq(u, lo, hi) /\ t = SubSeq(v, lo, hi)
         /\ hi >= lo => Len(s) = hi - lo + 1 /\ Len(t) = hi - lo + 1
         /\ \A j \in lo .. hi : s[j - lo + 1] = u[j] /\ t[j - lo + 1] = v[j]
  <2>1. /\ SubSeq(v, lo, hi) \in Data
        /\ hi >= lo => Len(SubSeq(v, lo, hi)) = hi - lo + 1
        /\ \A j \in lo .. hi : SubSeq(v, lo, hi)[j - lo + 1] = v[j]
    BY <1>1, Part
  <2>2. /\ SubSeq(u, lo, hi) \in Data
        /\ hi >= lo => Len(SubSeq(u, lo, hi)) = hi - lo + 1
        /\ \A j \in lo .. hi : SubSeq(u, lo, hi)[j - lo + 1] = u[j]
    BY <1>1, Part
  <2> QED BY <2>1, <2>2
<1>2. ASSUME i \in lo .. hi PROVE SubSeq(u, lo, hi) # SubSeq(v, lo, hi)
  BY <1>2, <1>4 DEF Altered
<1>3. ASSUME i \notin lo .. hi PROVE SubSeq(u, lo, hi) = SubSeq(v, lo, hi)
  <2>1. CASE hi < lo
    <3>1. SubSeq(u, lo, hi) = << >>
      BY <2>1, SubSeqEmpty
    <3>2. SubSeq(v, lo, hi) = << >>
      BY <2>1, SubSeqEmpty
    <3> QED BY <3>1, <3>2
  <2>2. CASE hi >= lo
    <3>1. PICK k \in Nat : k = hi - lo + 1
      BY <2>2
    <3>2. s \in Seq(Cell) /\ t \in Seq(Cell) /\ Len(s) = k /\ Len(t) = k
      BY <1>4, <2>2, <3>1 DEF Data
    <3>3. ASSUME NEW j \in 1 .. k PROVE s[j] = t[j]
      <4>1. PICK n \in lo .. hi : n - lo + 1 = j
        <5>1. j + lo - 1 \in lo .. hi /\ (j + lo - 1) - lo + 1 = j
          BY <3>1
        <5> QED BY <5>1
      <4>2. s[j] = u[n] /\ t[j] = v[n]
        BY <1>4, <4>1
      <4>3. u[n] = v[n]
        BY <1>3 DEF Altered
      <4> QED BY <4>2, <4>3
    <3>4. s = t
      BY <3>2, <3>3, SeqEqual
    <3> QED BY <1>4, <3>4
  <2> QED BY <2>1, <2>2
<1> QED BY <1>2, <1>3

\* A wrong cell is detected wherever it is, if the value was valid.
LEMMA CellDetected ==
    ASSUME validateData, NEW p \in Int, NEW c \in Int,
           NEW v, NEW u, NEW len \in Nat, NEW i, Altered(v, u, len, i),
           ValidData(p, c, v), ValidData(p, c, u)
    PROVE  FALSE
<1>1. /\ len = Len(v) /\ len = Len(u) /\ v \in Data /\ u \in Data
      /\ SizeStored(v) /\ SizeStored(u) /\ i \in 1 .. len /\ u[i] # v[i]
  BY DEF ValidData, Altered
<1>2. CASE len < MinSize
  <2>1. v = ValidatedValue(p, c, len) /\ u = ValidatedValue(p, c, len)
    BY <1>1, <1>2 DEF ValidData
  <2> QED BY <1>1, <2>1
<1>3. CASE len >= MinSize
  <2>1. PICK w \in Nat, h \in Nat, k \in Nat :
           /\ w = WordCells /\ h = HeaderSize /\ k = ChecksumCells
           /\ w >= 1 /\ w < h /\ k >= 1 /\ h + k < len
    BY <1>3, Sizing
  <2>2. /\ KeysStored(p, c, v) /\ KeysStored(p, c, u)
        /\ SubSeq(v, len - k + 1, len) = Crc(Payload(v))
        /\ SubSeq(u, len - k + 1, len) = Crc(Payload(u))
    <3>1. ~(Len(v) < MinSize) /\ ~(Len(u) < MinSize)
      BY <1>1, <1>3, Sizing
    <3> QED BY <1>1, <2>1, <3>1 DEF ValidData
  <2>3. CASE i \in 1 .. w
    <3>1. SubSeq(v, 1, w) = SubSeq(u, 1, w)
      BY <1>1, <2>1, <1>3, Sizing DEF SizeStored
    <3> QED BY <2>1, <2>3, <3>1, PartAltered
  <2>4. CASE i \in w + 1 .. h
    <3>1. SubSeq(v, w + 1, h) = SubSeq(u, w + 1, h)
      BY <2>1, <2>2 DEF KeysStored
    <3>2. w + 1 \in 1 .. len /\ h <= len
      BY <2>1
    <3> QED BY <2>4, <3>1, <3>2, PartAltered
  <2>5. CASE i \in h + 1 .. len - k
    <3>1. PICK n \in Nat : n = len - k - h
      BY <2>1
    <3>2. h + 1 \in 1 .. len /\ len - k \in Nat /\ len - k <= len /\ len - k >= h + 1
      BY <2>1, <2>5
    <3>3. Payload(v) = SubSeq(v, h + 1, len - k) /\ Payload(u) = SubSeq(u, h + 1, len - k)
      BY <1>1, <2>1 DEF Payload
    <3>4. SubSeq(v, len - k + 1, len) = SubSeq(u, len - k + 1, len)
      <4>1. len - k + 1 \in 1 .. len /\ i \notin len - k + 1 .. len
        BY <2>1, <2>5
      <4> QED BY <4>1, PartAltered
    <3>5. PICK lo \in 1 .. len, hi \in Nat :
             /\ lo = h + 1 /\ hi = len - k /\ hi <= len /\ hi >= lo /\ hi - lo + 1 = n
             /\ \A j \in lo .. hi : j - lo + 1 = j - h
      BY <3>1, <3>2
    <3>11. PICK s \in Data : /\ s = Payload(v) /\ Len(s) = n
                             /\ \A j \in lo .. hi : s[j - lo + 1] = v[j]
      <4>1. /\ SubSeq(v, lo, hi) \in Data
            /\ hi >= lo => Len(SubSeq(v, lo, hi)) = hi - lo + 1
            /\ \A j \in lo .. hi : SubSeq(v, lo, hi)[j - lo + 1] = v[j]
        <5>1. v \in Data /\ lo \in 1 .. Len(v) /\ hi \in 0 .. Len(v)
          BY <1>1, <3>5
        <5> QED BY <5>1, Part
      <4>2. Payload(v) = SubSeq(v, lo, hi)
        BY <3>3, <3>5
      <4> QED BY <3>5, <4>1, <4>2
    <3>12. PICK t \in Data : /\ t = Payload(u) /\ Len(t) = n
                             /\ \A j \in lo .. hi : t[j - lo + 1] = u[j]
      <4>1. /\ SubSeq(u, lo, hi) \in Data
            /\ hi >= lo => Len(SubSeq(u, lo, hi)) = hi - lo + 1
            /\ \A j \in lo .. hi : SubSeq(u, lo, hi)[j - lo + 1] = u[j]
        <5>1. u \in Data /\ lo \in 1 .. Len(u) /\ hi \in 0 .. Len(u)
          BY <1>1, <3>5
        <5> QED BY <5>1, Part
      <4>2. Payload(u) = SubSeq(u, lo, hi)
        BY <3>3, <3>5
      <4> QED BY <3>5, <4>1, <4>2
    <3>13. \A j \in h + 1 .. len - k : s[j - h] = v[j] /\ t[j - h] = u[j]
      BY <3>5, <3>11, <3>12
    <3>6. s \in [1 .. n -> Cell] /\ t \in [1 .. n -> Cell]
      BY <3>11, <3>12, LenProperties DEF Data
    <3>7. PICK j \in 1 .. n : j = i - h /\ i \in h + 1 .. len - k
      BY <2>5, <3>1
    <3>8. t[j] # s[j] /\ t[j] \in Cell
      BY <1>1, <3>6, <3>7, <3>13
    <3>9. t = [s EXCEPT ![j] = t[j]]
      <4>1. ASSUME NEW l \in 1 .. n, l # j PROVE t[l] = s[l]
        <5>1. PICK m \in h + 1 .. len - k : m - h = l /\ m \in 1 .. len /\ m # i
          <6>1. l + h \in h + 1 .. len - k /\ (l + h) - h = l /\ l + h \in 1 .. len /\ l + h # i
            BY <3>1, <3>7, <4>1, <2>1
          <6> QED BY <6>1
        <5>2. u[m] = v[m]
          BY <5>1 DEF Altered
        <5> QED BY <3>13, <5>1, <5>2
      <4> QED BY <3>6, <4>1
    <3>10. Crc([s EXCEPT ![j] = t[j]]) # Crc(s)
      BY <3>6, <3>8, CrcDetects
    <3> QED BY <2>2, <3>4, <3>9, <3>10, <3>11, <3>12
  <2>6. CASE i \in len - k + 1 .. len
    <3>1. h + 1 \in 1 .. len /\ len - k \in Nat /\ len - k <= len /\ i \notin h + 1 .. len - k
      BY <2>1, <2>6
    <3>2. Payload(v) = SubSeq(v, h + 1, len - k) /\ Payload(u) = SubSeq(u, h + 1, len - k)
      BY <1>1, <2>1 DEF Payload
    <3>3. Payload(v) = Payload(u)
      BY <3>1, <3>2, PartAltered
    <3>4. len - k + 1 \in 1 .. len
      BY <2>1
    <3> QED BY <2>2, <2>6, <3>3, <3>4, PartAltered
  <2>7. \/ i \in 1 .. w \/ i \in w + 1 .. h \/ i \in h + 1 .. len - k \/ i \in len - k + 1 .. len
    BY <1>1, <2>1
  <2> QED BY <2>3, <2>4, <2>5, <2>6, <2>7
<1> QED BY <1>2, <1>3, Sizing
\* The cells of two keys determine them.
LEMMA KeysDetermined ==
    ASSUME NEW p \in Int64s, NEW c \in Int64s, NEW q \in Int64s, NEW d \in Int64s,
           Cells(p, WordCells) \o Cells(c, WordCells) = Cells(q, WordCells) \o Cells(d, WordCells)
    PROVE  p = q /\ c = d
<1>1. PICK w \in Nat : w = WordCells /\ w \in 0 .. WordCells
  BY Sizing
<1>0. p \in Int /\ c \in Int /\ q \in Int /\ d \in Int
  BY Widths DEF Int64s
<1>2. PICK s \in Data, t \in Data : s = Cells(p, w) /\ t = Cells(c, w) /\ Len(s) = w /\ Len(t) = w
  BY <1>0, <1>1, CellsData
<1>3. PICK x \in Data, y \in Data : x = Cells(q, w) /\ y = Cells(d, w) /\ Len(x) = w /\ Len(y) = w
  BY <1>0, <1>1, CellsData
<1>4. /\ \A i \in 1 .. w + w : (s \o t)[i] = IF i <= w THEN s[i] ELSE t[i - w]
      /\ \A i \in 1 .. w + w : (x \o y)[i] = IF i <= w THEN x[i] ELSE y[i - w]
  BY <1>2, <1>3, ConcatProperties DEF Data
<1>5. s \o t = x \o y
  BY <1>1, <1>2, <1>3
<1>6. ASSUME NEW i \in 1 .. w PROVE s[i] = x[i] /\ t[i] = y[i]
  <2>1. i \in 1 .. w + w /\ i + w \in 1 .. w + w /\ i <= w /\ ~(i + w <= w) /\ (i + w) - w = i
    OBVIOUS
  <2> QED BY <1>4, <1>5, <2>1
<1> QED BY <1>1, <1>2, <1>3, <1>6, Int64sDetermined

\* A header with the keys of another row is detected, at every size that has one.
LEMMA KeyDetected ==
    ASSUME validateData, NEW p \in Int64s, NEW c \in Int64s, NEW q \in Int64s, NEW d \in Int64s,
           p # q \/ c # d,
           NEW size \in Nat \ {0}, size >= HeaderSize,
           NEW v, v = ValidatedValue(q, d, size), ValidData(p, c, v)
    PROVE  FALSE
<1>0. p \in Int /\ c \in Int /\ q \in Int /\ d \in Int
  BY Widths DEF Int64s
<1>1. KeysStored(q, d, v) /\ Len(v) = size
  BY <1>0, WrittenValid
<1>2. KeysStored(p, c, v)
  <2>1. CASE size < MinSize
    <3>1. v = ValidatedValue(p, c, size)
      BY <1>1, <2>1 DEF ValidData
    <3> QED BY <1>0, <3>1, WrittenValid
  <2>2. CASE ~(size < MinSize)
    BY <1>1, <2>2 DEF ValidData
  <2> QED BY <2>1, <2>2
<1>3. Cells(p, WordCells) \o Cells(c, WordCells) = Cells(q, WordCells) \o Cells(d, WordCells)
  BY <1>1, <1>2 DEF KeysStored
<1> QED BY <1>3, KeysDetermined

-----------------------------------------------------------------------------
(* Counters *)

\* The counters after n updates.
Counted(c, n) == [i \in 1 .. 5 |-> n * (c + i - 1)]

\* Dividing the counter c1 by the clustering key gives the number of the updates.
LEMMA ExactDivision ==
    ASSUME NEW c \in Int, c # 0, NEW n \in Nat PROVE Quotient(n * c, c) = n
<1>1. CASE n = 0
  <2>1. n * c = 0
    BY <1>1
  <2>2. PICK b \in Nat \ {0} : b = IF c < 0 THEN -c ELSE c
    OBVIOUS
  <2>3. 0 \div b = 0
    OBVIOUS
  <2> QED BY <1>1, <2>1, <2>2, <2>3 DEF Quotient
<1>2. CASE n # 0 /\ c > 0
  <2>1. PICK a \in Nat : a = n * c /\ a = c * n
    BY <1>2, ProductNat
  <2>2. (c * n) \div c = n
    BY <1>2, ExactQuotient
  <2> QED BY <1>2, <2>1, <2>2 DEF Quotient
<1>3. CASE n # 0 /\ c < 0
  <2>1. PICK b \in Nat \ {0} : b = -c
    BY <1>3
  <2>2. PICK a \in Nat : a = b * n
    BY ProductNat
  <2>3. n * c = -a
    BY <2>1, <2>2
  <2>4. a > 0
    <3>1. 0 * n < b * n /\ 0 * n = 0
      BY <1>3, ProductMonotonic
    <3> QED BY <2>2, <3>1
  <2>5. a \div b = n
    BY <2>2, ExactQuotient
  <2> QED BY <1>3, <2>1, <2>3, <2>4, <2>5 DEF Quotient
<1> QED BY <1>1, <1>2, <1>3

\* Counters that have had every update are accepted ...
LEMMA CountsValid ==
    ASSUME NEW c \in Int, NEW n \in Nat \ {0} PROVE ValidCounters(c, Counted(c, n))
<1> DEFINE v == Counted(c, n)
<1>1. PICK a \in Int : a = n * c
  OBVIOUS
<1>2. \A i \in 1 .. 5 : v[i] = a + n * (i - 1)
  BY <1>1 DEF Counted
<1>3. v[1] = a /\ v[1] = n * c
  BY <1>1, <1>2
<1> HIDE DEF v
<1>4. UpdateNum(c, v) = n
  <2>1. CASE c = 0
    <3>1. a = 0 /\ v[2] = n
      BY <1>1, <1>2, <2>1
    <3> QED BY <2>1, <3>1 DEF UpdateNum
  <2>2. CASE c # 0
    BY <1>3, <2>2, ExactDivision DEF UpdateNum
  <2> QED BY <2>1, <2>2
<1>5. c * n = a
  BY <1>1
<1> QED BY <1>2, <1>3, <1>4, <1>5 DEF ValidCounters, v

\* ... and those with one update of one counter too few or too many are not.
LEMMA CountDetected ==
    ASSUME validateData, NEW c \in Int, NEW n \in Nat \ {0}, NEW k \in 1 .. 5,
           NEW sign \in {-1, 1}, c + k - 1 # 0,
           NEW v, \A i \in 1 .. 5 : v[i] = (IF i = k THEN n + sign ELSE n) * (c + i - 1),
           ValidCounters(c, v)
    PROVE  FALSE
<1>1. /\ v[1] = c * UpdateNum(c, v)
      /\ \A i \in 2 .. 5 : v[i] = v[1] + UpdateNum(c, v) * (i - 1)
  BY DEF ValidCounters
<1>2. CASE c = 0
  <2>1. k # 1 /\ v[1] = 0 /\ UpdateNum(c, v) = v[2]
    BY <1>2 DEF UpdateNum
  <2>2. v[3] = v[1] + v[2] * 2 /\ v[4] = v[1] + v[2] * 3 /\ v[5] = v[1] + v[2] * 4
    BY <1>1, <2>1
  <2>3. /\ v[2] = IF k = 2 THEN n + sign ELSE n
        /\ v[3] = (IF k = 3 THEN n + sign ELSE n) * 2
        /\ v[4] = (IF k = 4 THEN n + sign ELSE n) * 3
        /\ v[5] = (IF k = 5 THEN n + sign ELSE n) * 4
    BY <1>2
  <2>4. k \in {2, 3, 4, 5}
    BY <2>1
  <2> QED BY <2>1, <2>2, <2>3, <2>4
<1>3. CASE c # 0 /\ k # 1
  <2>1. v[1] = n * c
    BY <1>3
  <2>2. UpdateNum(c, v) = n
    BY <1>3, <2>1, ExactDivision DEF UpdateNum
  <2>3. v[k] = n * c + n * (k - 1)
    BY <1>1, <1>3, <2>1, <2>2
  <2>4. PICK x \in Int : x = c + k - 1 /\ x # 0
    OBVIOUS
  <2>5. v[k] = (n + sign) * x
    BY <2>4
  <2>6. n * c + n * (k - 1) = n * x
    BY <2>4
  <2>7. (n + sign) * x = n * x + sign * x
    OBVIOUS
  <2>8. sign * x # 0
    BY <2>4
  <2>9. n * x \in Int /\ sign * x \in Int
    OBVIOUS
  <2> QED BY <2>3, <2>5, <2>6, <2>7, <2>8, <2>9
<1>4. CASE c # 0 /\ k = 1
  <2>1. PICK m \in Nat : m = n + sign /\ m # n
    OBVIOUS
  <2>2. v[1] = m * c
    BY <1>4, <2>1
  <2>3. UpdateNum(c, v) = m
    BY <1>4, <2>2, ExactDivision DEF UpdateNum
  <2>4. PICK x \in Int, y \in Int : x = n * c /\ y = m * c
    OBVIOUS
  <2>5. v[2] = y + m /\ v[3] = y + m * 2
    BY <1>1, <2>2, <2>3, <2>4
  <2>6. v[2] = x + n /\ v[3] = x + n * 2
    <3>1. v[2] = n * (c + 1) /\ v[3] = n * (c + 2)
      BY <1>4
    <3>2. n * (c + 1) = n * c + n /\ n * (c + 2) = n * c + n * 2
      OBVIOUS
    <3> QED BY <2>4, <3>1, <3>2
  <2> QED BY <2>1, <2>5, <2>6
<1> QED BY <1>2, <1>3, <1>4
-----------------------------------------------------------------------------
(* The row *)

\* What a row in the table of values holds, by what has happened to it.
ValueWritten == \E size \in Nat \ {0} : value = GenerateData(pk, ck, size)
CellWrong ==
    \E size \in Nat \ {0} : \E i, v :
        v = ValidatedValue(pk, ck, size) /\ Altered(v, value, size, i)
LengthWrong ==
    \E v \in Data :
        /\ SizeStored(v) /\ value \in Data
        /\ \/ Len(value) = Len(v) + 1 /\ value[1] = v[1]
           \/ Len(v) = Len(value) + 1 /\ (value # << >> => v[1] = value[1])
KeyWrong ==
    \E other \in Keys \ {<<pk, ck>>}, size \in Nat \ {0} :
        value = ValidatedValue(other[1], other[2], size)

\* Likewise for a row of counters.
CountsWritten == \E n \in Nat \ {0} : value = Counted(ck, n)
CountWrong ==
    \E n \in Nat \ {0}, k \in 1 .. 5, sign \in {-1, 1} :
        /\ ck + k - 1 # 0
        /\ \A i \in 1 .. 5 : value[i] = (IF i = k THEN n + sign ELSE n) * (ck + i - 1)

BlobInv ==
    /\ fault \in {"absent", "none", "cell", "length", "key"}
    /\ fault = "none" => ValueWritten
    /\ validateData /\ fault = "cell" => CellWrong
    /\ validateData /\ fault = "length" => LengthWrong
    /\ validateData /\ fault = "key" => KeyWrong

CountersInv ==
    /\ fault \in {"absent", "none", "count"}
    /\ fault = "none" => CountsWritten
    /\ fault = "count" => CountWrong

\* A verdict is that on the value as it is.
VerdictInv ==
    LET accepted == IF table = "blob" THEN ValidData(pk, ck, value)
                                      ELSE ValidCounters(ck, value)
    IN  /\ fault = "absent" => verdict = "none"
        /\ verdict = "valid" => accepted
        /\ verdict = "corrupt" => ~accepted

RowInv ==
    /\ <<pk, ck>> \in Keys
    /\ table \in {"blob", "counters"}
    /\ fault = "absent" => sizeDist \in Distributions(Sizes)
    /\ table = "blob" => BlobInv
    /\ table = "counters" => CountersInv
    /\ VerdictInv

\* Keys are int64s.
LEMMA KeysAreInt64s == Keys \subseteq Int64s \X Int64s
<1>1. PICK h \in Nat : h = Word \div 2
  BY Widths
<1>2. PartitionKeys \subseteq Int64s
  BY RangeAssumption DEF Int64s
<1>3. ASSUME NEW c \in ClusteringKeys PROVE c \in Int64s /\ -c \in Int64s
  <2>1. c \in 0 .. h - 1
    BY <1>1, RangeAssumption
  <2> QED BY <1>1, <2>1 DEF Int64s
<1> QED BY <1>2, <1>3 DEF Keys

\* So are those of a row.
LEMMA KeyTypes ==
    ASSUME NEW p, NEW c, <<p, c>> \in Keys
    PROVE  p \in Int64s /\ c \in Int64s /\ p \in Int /\ c \in Int
<1>1. p \in Int64s /\ c \in Int64s
  BY KeysAreInt64s
<1> QED BY <1>1, Widths DEF Int64s

\* A size that is drawn is not 0.
LEMMA SizesDrawn ==
    ASSUME sizeDist \in Distributions(Sizes), NEW size \in Generated(sizeDist)
    PROVE  size \in Nat \ {0}
<1>1. /\ sizeDist.min \in Nat \ {0} /\ sizeDist.max \in Nat
      /\ sizeDist.min <= sizeDist.max
  BY SizeAssumption DEF Distributions
<1>2. PICK lo \in Nat \ {0}, n \in Nat : lo = sizeDist.min /\ n = sizeDist.max - sizeDist.min
  BY <1>1
<1>3. CASE n = 0
  BY <1>2, <1>3 DEF Generated
<1>4. CASE n # 0
  <2>1. PICK v \in {u \in RandomWords : Accepted(u, n)} : size = lo + (v % n)
    BY <1>2, <1>4 DEF Generated
  <2>2. v \in Int /\ n \in Nat \ {0}
    BY <1>4 DEF RandomWords
  <2>3. v % n \in 0 .. n - 1
    BY <2>2, Division
  <2> QED BY <2>1, <2>3
<1> QED BY <1>3, <1>4

\* It holds before the row is written.
LEMMA InitRowInv == RowInit => RowInv
<1> SUFFICES ASSUME RowInit PROVE RowInv
  OBVIOUS
<1>1. <<pk, ck>> \in Keys
  <2>1. PICK key \in Keys : pk = key[1] /\ ck = key[2]
    BY DEF RowInit
  <2>2. key = <<key[1], key[2]>>
    BY <2>1 DEF Keys
  <2> QED BY <2>1, <2>2
<1> QED BY <1>1 DEF RowInit, RowInv, BlobInv, CountersInv, VerdictInv

\* What GenerateData writes is data of the size asked for.
LEMMA GeneratedData ==
    ASSUME NEW p \in Int, NEW c \in Int, NEW size \in Nat \ {0}
    PROVE  GenerateData(p, c, size) \in Data /\ Len(GenerateData(p, c, size)) = size
<1>1. CASE validateData
  BY <1>1, WrittenValid DEF GenerateData
<1>2. CASE ~validateData /\ randomData
  <2>1. PICK f \in Data : f = FillPayload(p, c, size) /\ Len(f) = size
    <3>1. PICK n \in Nat : n = size
      OBVIOUS
    <3> QED BY <3>1, PayloadData
  <2>2. 1 \in 1 .. Len(f) /\ 1 \in Cell
    BY <2>1, Widths DEF Cell
  <2>3. [f EXCEPT ![1] = 1] \in Data /\ Len([f EXCEPT ![1] = 1]) = Len(f)
    BY <2>2, ExceptSeq DEF Data
  <2> QED BY <1>2, <2>1, <2>3 DEF GenerateData, EnsureNonZero
<1>3. CASE ~validateData /\ ~randomData
  <2>1. PICK n \in Nat : n = size
    OBVIOUS
  <2> QED BY <1>3, <2>1, ZerosData DEF GenerateData
<1> QED BY <1>1, <1>2, <1>3

\* Every step keeps the invariant.
LEMMA RowInvStep == RowInv /\ [RowNext]_rowVars => RowInv'
<1> SUFFICES ASSUME RowInv, [RowNext]_rowVars PROVE RowInv'
  OBVIOUS
<1>0. /\ <<pk, ck>> \in Keys /\ pk \in Int /\ ck \in Int
      /\ table \in {"blob", "counters"}
  BY KeyTypes DEF RowInv
<1>1. ASSUME NEW data, NEW how \in {"none", "cell", "length", "key", "count"}, Becomes(data, how),
             table = "blob" => BlobInv', table = "counters" => CountersInv'
      PROVE  RowInv'
  BY <1>0, <1>1 DEF Becomes, RowInv, VerdictInv
<1>2. CASE Insert
  <2>1. PICK size \in Generated(sizeDist) : Becomes(GenerateData(pk, ck, size), "none")
    BY <1>2 DEF Insert
  <2>2. table = "blob" /\ size \in Nat \ {0}
    BY <1>2, <2>1, SizesDrawn DEF Insert, RowInv
  <2>3. ValueWritten'
    BY <2>1, <2>2 DEF ValueWritten, Becomes, GenerateData
  <2>4. BlobInv'
    BY <2>1, <2>3 DEF BlobInv, Becomes
  <2> QED BY <1>1, <2>1, <2>2, <2>4
<1>3. CASE Update
  <2>1. table = "counters" /\ CountersInv
    BY <1>3 DEF Update, RowInv
  <2>2. PICK n \in Nat : Becomes(Counted(ck, n + 1), "none")
    <3>1. CASE Becomes(Increments, "none")
      <4>1. Increments = Counted(ck, 0 + 1)
        <5>1. ASSUME NEW i \in 1 .. 5 PROVE ck + i - 1 = (0 + 1) * (ck + i - 1)
          BY <1>0
        <5> QED BY <5>1 DEF Increments, Counted
      <4> QED BY <3>1, <4>1
    <3>2. CASE /\ fault = "none"
               /\ Becomes([i \in 1 .. 5 |-> value[i] + Increments[i]], "none")
      <4>1. PICK n \in Nat \ {0} : value = Counted(ck, n)
        BY <2>1, <3>2 DEF CountersInv, CountsWritten
      <4>2. [i \in 1 .. 5 |-> value[i] + Increments[i]] = Counted(ck, n + 1)
        <5>1. ASSUME NEW i \in 1 .. 5
              PROVE  value[i] + Increments[i] = (n + 1) * (ck + i - 1)
          <6>1. PICK x \in Int : x = ck + i - 1
            BY <1>0
          <6>2. value[i] = n * x /\ Increments[i] = x
            BY <4>1, <6>1 DEF Counted, Increments
          <6>3. n * x + x = (n + 1) * x
            OBVIOUS
          <6> QED BY <6>1, <6>2, <6>3
        <5> QED BY <5>1 DEF Counted
      <4> QED BY <3>2, <4>1, <4>2
    <3> QED BY <1>3, <3>1, <3>2 DEF Update
  <2>3. n + 1 \in Nat \ {0}
    OBVIOUS
  <2>4. CountsWritten'
    BY <2>2, <2>3 DEF CountsWritten, Becomes
  <2>5. CountersInv'
    BY <2>2, <2>4 DEF CountersInv, Becomes
  <2> QED BY <1>1, <2>1, <2>2, <2>5
<1>4. ASSUME table = "blob", fault = "none"
      PROVE  \E size \in Nat \ {0} :
                /\ value = GenerateData(pk, ck, size)
                /\ value \in Data /\ Len(value) = size /\ value \in [1 .. size -> Cell]
  <2>1. PICK size \in Nat \ {0} : value = GenerateData(pk, ck, size)
    BY <1>4 DEF RowInv, BlobInv, ValueWritten
  <2>2. value \in Data /\ Len(value) = size
    BY <1>0, <2>1, GeneratedData
  <2> QED BY <2>1, <2>2, LenProperties DEF Data
<1>5. CASE Damage
  <2>1. PICK i \in DOMAIN value, cell \in 0 .. CellValues - 1 :
           cell # value[i] /\ Becomes([value EXCEPT ![i] = cell], "cell")
    BY <1>5 DEF Damage
  <2>2. table = "blob" /\ fault = "none"
    BY <1>5 DEF Damage
  <2>3. PICK size \in Nat \ {0} :
           /\ value = GenerateData(pk, ck, size)
           /\ value \in Data /\ Len(value) = size /\ value \in [1 .. size -> Cell]
    BY <1>4, <2>2
  <2>4. ASSUME validateData' PROVE CellWrong'
    <3>1. validateData /\ value = ValidatedValue(pk, ck, size)
      BY <2>1, <2>3, <2>4 DEF Becomes, GenerateData
    <3>2. i \in 1 .. size /\ cell \in Cell
      BY <2>3 DEF Cell
    <3>3. Altered(value, value', size, i)
      <4>1. value' = [value EXCEPT ![i] = cell] /\ cell # value[i]
        BY <2>1 DEF Becomes
      <4>2. i \in 1 .. Len(value)
        BY <2>3, <3>2
      <4>3. /\ [value EXCEPT ![i] = cell] \in Seq(Cell)
            /\ Len([value EXCEPT ![i] = cell]) = Len(value)
            /\ \A j \in 1 .. Len(value) :
                  [value EXCEPT ![i] = cell][j] = IF j = i THEN cell ELSE value[j]
        BY <2>3, <3>2, <4>2, ExceptSeq DEF Data
      <4> QED BY <2>3, <3>2, <4>1, <4>3 DEF Altered, Data
    <3>4. pk' = pk /\ ck' = ck
      BY <2>1 DEF Becomes
    <3> QED BY <3>1, <3>3, <3>4 DEF CellWrong
  <2>5. BlobInv'
    BY <2>1, <2>4 DEF BlobInv, Becomes
  <2> QED BY <1>1, <2>1, <2>2, <2>5
<1>6. CASE Resize
  <2>1. table = "blob" /\ fault = "none"
    BY <1>6 DEF Resize
  <2>2. PICK size \in Nat \ {0} :
           /\ value = GenerateData(pk, ck, size)
           /\ value \in Data /\ Len(value) = size /\ value \in [1 .. size -> Cell]
    BY <1>4, <2>1
  <2>3. PICK data : /\ Becomes(data, "length")
                    /\ data = SubSeq(value, 1, Len(value) - 1) \/ data = Append(value, 0)
    BY <1>6 DEF Resize
  <2>4. /\ data \in Data
        /\ \/ Len(data) = Len(value) + 1 /\ data[1] = value[1]
           \/ Len(value) = Len(data) + 1 /\ (data # << >> => value[1] = data[1])
    <3>1. CASE data = Append(value, 0)
      <4>1. /\ Append(value, 0) \in Data /\ Len(Append(value, 0)) = Len(value) + 1
            /\ \A i \in 1 .. Len(value) : Append(value, 0)[i] = value[i]
        BY <2>2, Sizing, AppendProperties DEF Data
      <4>2. 1 \in 1 .. Len(value)
        BY <2>2
      <4> QED BY <3>1, <4>1, <4>2
    <3>2. CASE data = SubSeq(value, 1, Len(value) - 1)
      <4>1. PICK n \in Nat : n = Len(value) - 1 /\ Len(value) = n + 1
        BY <2>2
      <4>2. \A i \in 1 .. n : value[i] \in Cell
        BY <2>2, <4>1
      <4>3. /\ SubSeq(value, 1, n) \in Data
            /\ Len(SubSeq(value, 1, n)) = IF 1 <= n THEN n - 1 + 1 ELSE 0
            /\ \A i \in 1 .. n - 1 + 1 : SubSeq(value, 1, n)[i] = value[1 + i - 1]
        BY <4>2, SubSeqProperties DEF Data
      <4>4. Len(data) = n /\ data \in Data
        BY <3>2, <4>1, <4>3
      <4>5. ASSUME data # << >> PROVE value[1] = data[1]
        <5>1. n >= 1
          BY <4>4, <4>5, EmptySeq DEF Data
        <5>2. 1 \in 1 .. n - 1 + 1 /\ 1 + 1 - 1 = 1
          BY <5>1
        <5> QED BY <3>2, <4>1, <4>3, <5>2
      <4> QED BY <4>1, <4>4, <4>5
    <3> QED BY <2>3, <3>1, <3>2
  <2>5. ASSUME validateData' PROVE LengthWrong'
    <3>1. value = ValidatedValue(pk, ck, size) /\ validateData
      BY <2>2, <2>3, <2>5 DEF Becomes, GenerateData
    <3>2. SizeStored(value)
      BY <1>0, <3>1, WrittenValid DEF ValidData
    <3>3. value' = data
      BY <2>3 DEF Becomes
    <3> QED BY <2>2, <2>4, <3>2, <3>3 DEF LengthWrong
  <2>6. BlobInv'
    BY <2>3, <2>5 DEF BlobInv, Becomes
  <2> QED BY <1>1, <2>1, <2>3, <2>6
<1>7. CASE Misplace
  <2>1. table = "blob" /\ fault = "none"
    BY <1>7 DEF Misplace
  <2>2. PICK other \in Keys \ {<<pk, ck>>} :
           Becomes(GenerateData(other[1], other[2], Len(value)), "key")
    BY <1>7 DEF Misplace
  <2>3. Len(value) \in Nat \ {0}
    BY <1>4, <2>1
  <2>4. ASSUME validateData' PROVE KeyWrong'
    <3>1. value' = ValidatedValue(other[1], other[2], Len(value)) /\ pk' = pk /\ ck' = ck
      BY <2>2, <2>4 DEF Becomes, GenerateData
    <3> QED BY <2>3, <3>1 DEF KeyWrong
  <2>5. BlobInv'
    BY <2>2, <2>4 DEF BlobInv, Becomes
  <2> QED BY <1>1, <2>1, <2>2, <2>5
<1>8. CASE Miscount
  <2>1. table = "counters" /\ fault = "none"
    BY <1>8 DEF Miscount
  <2>2. PICK k \in 1 .. 5, sign \in {-1, 1} :
           /\ Increments[k] # 0
           /\ Becomes([value EXCEPT ![k] = @ + sign * Increments[k]], "count")
    BY <1>8 DEF Miscount
  <2>3. PICK n \in Nat \ {0} : value = Counted(ck, n)
    BY <2>1 DEF RowInv, CountersInv, CountsWritten
  <2>4. value' = [value EXCEPT ![k] = value[k] + sign * Increments[k]] /\ ck' = ck
    BY <2>2 DEF Becomes
  <2>5. ASSUME NEW i \in 1 .. 5
        PROVE  value'[i] = (IF i = k THEN n + sign ELSE n) * (ck + i - 1)
    <3>1. PICK x \in Int : x = ck + i - 1
      BY <1>0
    <3>2. value[i] = n * x /\ Increments[i] = x
      BY <2>3, <3>1 DEF Counted, Increments
    <3>3. value'[i] = IF i = k THEN value[i] + sign * Increments[i] ELSE value[i]
      BY <2>3, <2>4 DEF Counted
    <3>4. n * x + sign * x = (n + sign) * x
      OBVIOUS
    <3> QED BY <3>1, <3>2, <3>3, <3>4
  <2>6. ck + k - 1 # 0
    BY <2>2 DEF Increments
  <2>7. CountWrong'
    BY <2>4, <2>5, <2>6 DEF CountWrong
  <2>8. CountersInv'
    BY <2>2, <2>7 DEF CountersInv, Becomes
  <2> QED BY <1>1, <2>1, <2>2, <2>8
<1>9. ASSUME UNCHANGED <<sizeDist, validateData, randomData, table, pk, ck, value, fault>>,
             VerdictInv'
      PROVE  RowInv'
  <2>1. (Keys' = Keys) /\ (table = "blob" => BlobInv') /\ (table = "counters" => CountersInv')
    BY <1>9 DEF RowInv, BlobInv, CountersInv, ValueWritten, CellWrong, LengthWrong, KeyWrong,
                CountsWritten, CountWrong, GenerateData
  <2> QED BY <1>9, <2>1 DEF RowInv
<1>10. CASE Read
  <2>1. VerdictInv'
    BY <1>10 DEF Read, VerdictInv, ValidData, ValidCounters
  <2> QED BY <1>9, <1>10, <2>1 DEF Read
<1>11. CASE UNCHANGED rowVars
  <2>1. VerdictInv'
    BY <1>11 DEF rowVars, RowInv, VerdictInv, ValidData, ValidCounters
  <2> QED BY <1>9, <1>11, <2>1 DEF rowVars
<1> QED BY <1>2, <1>3, <1>5, <1>6, <1>7, <1>8, <1>10, <1>11 DEF RowNext
-----------------------------------------------------------------------------
(* Theorems *)

\* In every behaviour the row holds what was written, or that with the one fault
\* that has happened to it, and a verdict is that of ValidateData on what it holds.
THEOREM RowInvCorrect == RowSpec => []RowInv
<1> QED BY InitRowInv, RowInvStep, PTL DEF RowSpec

\* What the writers store is accepted by the readers that validate: of every size, and
\* counters after any number of updates (modes.go:330-357, 371-387, 837-844).
THEOREM IntactCorrect == RowSpec => []Intact
<1>1. RowInv => Intact
  <2> SUFFICES ASSUME RowInv, fault = "none", verdict = "corrupt" PROVE FALSE
    BY DEF Intact
  <2>1. pk \in Int /\ ck \in Int
    BY KeyTypes DEF RowInv
  <2>2. CASE table = "blob"
    <3>1. validateData /\ ~ValidData(pk, ck, value)
      BY <2>2 DEF RowInv, VerdictInv, ValidData
    <3>2. PICK size \in Nat \ {0} : value = ValidatedValue(pk, ck, size)
      BY <2>2, <3>1 DEF RowInv, BlobInv, ValueWritten, GenerateData
    <3> QED BY <2>1, <3>1, <3>2, WrittenValid
  <2>3. CASE table = "counters"
    <3>1. ~ValidCounters(ck, value)
      BY <2>3 DEF RowInv, VerdictInv
    <3>2. PICK n \in Nat \ {0} : value = Counted(ck, n)
      BY <2>3 DEF RowInv, CountersInv, CountsWritten
    <3> QED BY <2>1, <3>1, <3>2, CountsValid
  <2> QED BY <2>2, <2>3 DEF RowInv
<1> QED BY <1>1, RowInvCorrect, PTL

\* A read that validates does not accept a row with a fault, whatever the widths and
\* the sizes: ValidateData looks at every cell of a value, at its length and at the
\* key in its header, and executeReadsQuery at each counter (modes.go:362-435, 830-849).
THEOREM FaultsDetectedCorrect == RowSpec => []FaultsDetected
<1>1. RowInv => FaultsDetected
  <2> SUFFICES ASSUME RowInv, validateData, verdict = "valid",
                      \/ fault \in {"cell", "length", "count"}
                      \/ fault = "key" /\ Len(value) >= HeaderSize
               PROVE  FALSE
    BY DEF FaultsDetected
  <2>1. pk \in Int64s /\ ck \in Int64s /\ pk \in Int /\ ck \in Int
    BY KeyTypes DEF RowInv
  <2>2. CASE table = "blob"
    <3>1. BlobInv /\ ValidData(pk, ck, value)
      BY <2>2 DEF RowInv, VerdictInv
    <3>2. CASE fault = "cell"
      <4>3. PICK size \in Nat \ {0} :
               \E i, v : v = ValidatedValue(pk, ck, size) /\ Altered(v, value, size, i)
        BY <3>1, <3>2 DEF BlobInv, CellWrong
      <4>1. PICK i, v : v = ValidatedValue(pk, ck, size) /\ Altered(v, value, size, i)
        BY <4>3
      <4>2. ValidData(pk, ck, v)
        BY <2>1, <4>1, WrittenValid
      <4> QED BY <2>1, <3>1, <4>1, <4>2, CellDetected
    <3>3. CASE fault = "length"
      <4>1. PICK v \in Data :
               /\ SizeStored(v) /\ value \in Data
               /\ \/ Len(value) = Len(v) + 1 /\ value[1] = v[1]
                  \/ Len(v) = Len(value) + 1 /\ (value # << >> => v[1] = value[1])
        BY <3>1, <3>3 DEF BlobInv, LengthWrong
      <4>2. SizeStored(value)
        BY <3>1 DEF ValidData
      <4>3. value # << >>
        BY <4>1, <4>2, SizeCell, EmptySeq
      <4> QED BY <4>1, <4>2, <4>3, LengthDetected
    <3>4. CASE fault = "key"
      <4>1. PICK other \in Keys \ {<<pk, ck>>}, size \in Nat \ {0} :
               value = ValidatedValue(other[1], other[2], size)
        BY <3>1, <3>4 DEF BlobInv, KeyWrong
      <4>2. other = <<other[1], other[2]>>
        BY <4>1 DEF Keys
      <4>3. PICK q \in Int64s, d \in Int64s :
               q = other[1] /\ d = other[2] /\ q \in Int /\ d \in Int /\ (pk # q \/ ck # d)
        BY <4>2, KeyTypes
      <4>4. value = ValidatedValue(q, d, size)
        BY <4>1, <4>3
      <4>5. Len(value) = size
        BY <4>3, <4>4, WrittenValid
      <4>6. size >= HeaderSize
        BY <3>4, <4>5
      <4> QED BY <2>1, <3>1, <4>3, <4>4, <4>6, KeyDetected
    <3> QED BY <3>1, <3>2, <3>3, <3>4 DEF BlobInv
  <2>3. CASE table = "counters"
    <3>1. fault = "count" /\ CountWrong /\ ValidCounters(ck, value)
      BY <2>3 DEF RowInv, CountersInv, VerdictInv
    <3>2. PICK n \in Nat \ {0}, k \in 1 .. 5, sign \in {-1, 1} :
             /\ ck + k - 1 # 0
             /\ \A i \in 1 .. 5 : value[i] = (IF i = k THEN n + sign ELSE n) * (ck + i - 1)
      BY <3>1 DEF CountWrong
    <3> QED BY <2>1, <3>1, <3>2, CountDetected
  <2> QED BY <2>2, <2>3 DEF RowInv
<1> QED BY <1>1, RowInvCorrect, PTL

\* Without -validate-data and -no-random-data a value of any size has a cell that is
\* not zero: the generator never reaches the word 0, and a value too short for a whole
\* word has 1 in place of its first byte if it is all zero (modes.go:297-314, 316-328).
THEOREM RandomDataNonZeroCorrect == RowSpec => []RandomDataNonZero
<1>1. RowInv => RandomDataNonZero
  <2> SUFFICES ASSUME RowInv, table = "blob", fault = "none", ~validateData, randomData
               PROVE  \E i \in DOMAIN value : value[i] # 0
    BY DEF RandomDataNonZero
  <2>1. pk \in Int /\ ck \in Int
    BY KeyTypes DEF RowInv
  <2>2. PICK size \in Nat \ {0} : value = EnsureNonZero(FillPayload(pk, ck, size))
    BY DEF RowInv, BlobInv, ValueWritten, GenerateData
  <2>3. PICK n \in Nat : n = size /\ n >= 1
    OBVIOUS
  <2>4. PICK f \in Data : /\ f = FillPayload(pk, ck, n) /\ Len(f) = n /\ f \in [1 .. n -> Cell]
                          /\ n >= WordCells => \E i \in 1 .. n : f[i] # 0
    <3>1. FillPayload(pk, ck, n) \in Data /\ Len(FillPayload(pk, ck, n)) = n
      BY <2>1, PayloadData
    <3>2. /\ FillPayload(pk, ck, n) \in [1 .. n -> Cell]
          /\ n >= WordCells => \E i \in 1 .. n : FillPayload(pk, ck, n)[i] # 0
      BY <2>1, PayloadFilled DEF Cell
    <3> QED BY <3>1, <3>2
  <2>5. CASE Len(f) < WordCells /\ f = Zeros(Len(f))
    <3>1. value = [f EXCEPT ![1] = 1]
      BY <2>2, <2>3, <2>4, <2>5 DEF EnsureNonZero
    <3>2. 1 \in DOMAIN f
      BY <2>3, <2>4
    <3> QED BY <3>1, <3>2
  <2>6. CASE ~(Len(f) < WordCells /\ f = Zeros(Len(f)))
    <3>1. value = f
      BY <2>2, <2>3, <2>4, <2>6 DEF EnsureNonZero
    <3>2. CASE n >= WordCells
      BY <2>4, <3>1, <3>2
    <3>3. CASE n < WordCells
      <4>1. f # Zeros(n)
        BY <2>4, <2>6, <3>3
      <4>2. Zeros(n) = [i \in 1 .. n |-> 0]
        BY DEF Zeros
      <4>3. \E i \in 1 .. n : f[i] # 0
        BY <2>4, <4>1, <4>2
      <4> QED BY <2>4, <3>1, <4>3
    <3> QED BY <3>2, <3>3, Sizing
  <2> QED BY <2>5, <2>6
<1> QED BY <1>1, RowInvCorrect, PTL
=============================================================================
