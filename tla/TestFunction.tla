---------------------------- MODULE TestFunction ----------------------------
(***************************************************************************)
(* One operation of a worker: the functions that modes.go gives to RunTest  *)
(* (single and batched writes, counter updates, reads, scans, the mixed     *)
(* mode), their retry loops with handleSbRetryError, and what RunTest then  *)
(* counts and records (modes.go, pkg/worker).  A request is one call of the *)
(* driver; with -retry-handler gocql the driver retries inside it.          *)
(*                                                                         *)
(* Module BenchRun models the run around it, LatencyStack the histograms.   *)
(***************************************************************************)
EXTENDS Integers, FiniteSets

CONSTANTS
    Workers,         \* the goroutines
    Modes,           \* the values of -mode considered
    RetryHandlers,   \* the values of -retry-handler considered
    RetryNumber,     \* -retry-number
    HalfMin,         \* half of -retry-interval's minimum, the unit of the jitter
    MaxInterval,     \* its maximum
    RowsPerRequest,  \* -rows-per-request
    MeasureLatency,  \* -measure-latency
    Durations,       \* how long a request may take
    CutoffTime,      \* errorToTimeoutCutoffTime
    MaxOps,          \* bound: operations of all workers
    MaxRows          \* bound: rows that reads and scans return in all

AllModes == {"write", "batch", "counter_update", "read", "scan", "mixed"}

ASSUME TestAssumption ==
    /\ IsFiniteSet(Workers)
    /\ Modes \subseteq AllModes /\ RetryHandlers \subseteq {"sb", "gocql"}
    /\ RetryNumber \in Nat
    /\ HalfMin \in Nat \ {0} /\ MaxInterval \in Nat /\ 2 * HalfMin <= MaxInterval
    /\ RowsPerRequest \in Nat \ {0}
    /\ MeasureLatency \in BOOLEAN
    /\ Durations \subseteq Nat \ {0} /\ Durations # {} /\ CutoffTime \in Nat
    /\ MaxOps \in Nat /\ MaxRows \in Nat

VARIABLES
    mode, retryHandler,   \* flags, chosen once
    stopAll,              \* the global stopAll
    opCount,              \* config.MixedOperationCounter
    pc,                   \* where each worker is
    kind,                 \* a mixed operation's half: "write" or "read"
    batchSize,            \* rows in the batch being built
    attempts,             \* currentAttempts
    failed,               \* the last request ended with an error
    took,                 \* how long it took
    nap,                  \* the sleep before the next attempt
    result,               \* what test(w) returns: its error and its latency
    begun,                \* operations begun, by kind
    skipped,              \* operations that returned errDoNotRegister
    ops, rows, errors,    \* Operations, ClusteringRows and Errors of the results
    totalErrors,          \* config.TotalErrors
    samples               \* samples pushed, by stack

flags == <<mode, retryHandler>>
operation == <<kind, batchSize, attempts, failed, took, nap, result>>
counters == <<begun, skipped, ops, rows, errors, totalErrors, samples>>
vars == <<flags, stopAll, opCount, pc, operation, counters>>

Stacks == {"raw", "coFixed", "readRaw", "readCoFixed", "writeRaw", "writeCoFixed"}
Kinds == {"write", "read"}
NoResult == [err |-> "nil", latency |-> 0]

Init ==
    /\ mode \in Modes /\ retryHandler \in RetryHandlers
    /\ stopAll = FALSE
    /\ opCount = 0
    /\ pc = [w \in Workers |-> "idle"]
    /\ kind = [w \in Workers |-> "write"]
    /\ batchSize = [w \in Workers |-> 0]
    /\ attempts = [w \in Workers |-> 0]
    /\ failed = [w \in Workers |-> FALSE]
    /\ took = [w \in Workers |-> 0]
    /\ nap = [w \in Workers |-> 0]
    /\ result = [w \in Workers |-> NoResult]
    /\ begun = [k \in Kinds |-> 0]
    /\ skipped = 0
    /\ ops = 0 /\ rows = 0 /\ errors = 0 /\ totalErrors = 0
    /\ samples = [s \in Stacks |-> 0]

At(w, here, there) == pc[w] = here /\ pc' = [pc EXCEPT ![w] = there]

\* One sample in each of the given stacks; all of them check measureLatency.
RecordIn(stacks) ==
    samples' = [s \in Stacks |->
                  IF MeasureLatency /\ s \in stacks THEN samples[s] + 1 ELSE samples[s]]

\* test(w) returns; the locals of its retry loop go out of scope.
Return(w, err, latency) ==
    /\ result' = [result EXCEPT ![w] = [err |-> err, latency |-> latency]]
    /\ nap' = [nap EXCEPT ![w] = 0]

-----------------------------------------------------------------------------
(* Up to the first request *)

\* Mutant of KindOf: odd operations are the writes only in every other pair.
KindEveryFourth(count) ==
    IF mode = "mixed"
    THEN IF count % 4 < 2 THEN "write" ELSE "read"
    ELSE IF mode \in {"read", "scan"} THEN "read" ELSE "write"

\* Mixed mode writes on even operation counts and reads on odd ones.
KindOf(count) ==
    IF mode = "mixed"
    THEN IF count % 2 = 0 THEN "write" ELSE "read"
    ELSE IF mode \in {"read", "scan"} THEN "read" ELSE "write"

NewCount == IF mode = "mixed" THEN opCount + 1 ELSE opCount

\* RunTest calls test(w), which chooses the row, the batch or the token range.
Begin(w) ==
    /\ begun["write"] + begun["read"] < MaxOps
    /\ ~stopAll
    /\ At(w, "idle", IF mode = "batch" THEN "build" ELSE "send")
    /\ opCount' = NewCount
    /\ kind' = [kind EXCEPT ![w] = KindOf(NewCount)]
    /\ begun' = [begun EXCEPT ![KindOf(NewCount)] = @ + 1]
    /\ batchSize' = [batchSize EXCEPT ![w] = IF mode = "batch" THEN 0 ELSE 1]
    /\ UNCHANGED <<flags, stopAll, attempts, failed, took, nap, result, skipped,
                   ops, rows, errors, totalErrors, samples>>

AddToBatch(w) ==
    /\ At(w, "build", "build")
    /\ ~stopAll /\ batchSize[w] < RowsPerRequest
    /\ batchSize' = [batchSize EXCEPT ![w] = @ + 1]
    /\ UNCHANGED <<flags, stopAll, opCount, kind, attempts, failed, took, nap,
                   result, counters>>

\* The batch is full or its partition is: the second may be so at any size.
BatchBuilt(w) ==
    /\ batchSize[w] > 0
    /\ At(w, "build", "send")
    /\ UNCHANGED <<flags, stopAll, opCount, operation, counters>>

\* Mutant of DropBatch: an interrupted batch returns no error.
DropBatchSilently(w) ==
    /\ At(w, "build", "return")
    /\ stopAll /\ batchSize[w] < RowsPerRequest
    /\ Return(w, "nil", 0)
    /\ UNCHANGED <<flags, stopAll, opCount, kind, batchSize, attempts, failed, took,
                   counters>>

\* errDoNotRegister: stopped while building.  (A batch is never empty otherwise: no
\* workload's partition is done right after NextPartitionKey.)
DropBatch(w) ==
    /\ At(w, "build", "return")
    /\ stopAll /\ batchSize[w] < RowsPerRequest
    /\ Return(w, "skip", 0)
    /\ UNCHANGED <<flags, stopAll, opCount, kind, batchSize, attempts, failed, took,
                   counters>>

-----------------------------------------------------------------------------
(* One attempt *)

\* Mutant of Send: the rows of a write count when it is sent.
SendCounting(w) ==
    /\ pc[w] = "send"
    /\ \E f \in BOOLEAN, d \in Durations :
        /\ failed' = [failed EXCEPT ![w] = f]
        /\ took' = [took EXCEPT ![w] = d]
        /\ pc' = [pc EXCEPT ![w] = CASE kind[w] = "read" -> "scan"
                                     [] kind[w] = "write" /\ f -> "retry"
                                     [] OTHER -> "succeed"]
    /\ rows' = rows + IF kind[w] = "write" THEN batchSize[w] ELSE 0
    /\ UNCHANGED <<flags, stopAll, opCount, kind, batchSize, attempts, nap, result,
                   begun, skipped, ops, errors, totalErrors, samples>>

\* Exec of a write, which answers at once; Iter of a read or a scan.
Send(w) ==
    /\ pc[w] = "send"
    /\ \E f \in BOOLEAN, d \in Durations :
        /\ failed' = [failed EXCEPT ![w] = f]
        /\ took' = [took EXCEPT ![w] = d]
        /\ pc' = [pc EXCEPT ![w] = CASE kind[w] = "read" -> "scan"
                                     [] kind[w] = "write" /\ f -> "retry"
                                     [] OTHER -> "succeed"]
    /\ UNCHANGED <<flags, stopAll, opCount, kind, batchSize, attempts, nap, result,
                   counters>>

\* iter.Scan returns a row, which counts even if the request fails later; with
\* -validate-data a corrupt one counts as an error.
ScanRow(w) ==
    /\ At(w, "scan", "scan")
    /\ rows < MaxRows
    /\ rows' = rows + 1
    /\ \E corrupt \in IF mode = "scan" THEN {0} ELSE {0, 1} : errors' = errors + corrupt
    /\ UNCHANGED <<flags, stopAll, opCount, operation, begun, skipped, ops,
                   totalErrors, samples>>

\* iter.Close.  In read mode executeReadsQuery assigns its error to a variable
\* that it has returned already.
CloseIter(w) ==
    /\ At(w, "scan", IF failed[w] /\ mode # "read" THEN "retry" ELSE "succeed")
    /\ UNCHANGED <<flags, stopAll, opCount, operation, counters>>

\* Mutant of Retries: the first attempt counts as a retry.
RetriesOnceLess(w) == retryHandler = "sb" /\ attempts[w] + 1 < RetryNumber

\* handleSbRetryError does not give up yet.
Retries(w) == retryHandler = "sb" /\ attempts[w] < RetryNumber

\* math.Pow(2, k).
Power[k \in 0 .. RetryNumber] == IF k = 0 THEN 1 ELSE 2 * Power[k - 1]

\* getExponentialTime(attempts): min*2^(attempts-1) with a jitter of half the
\* minimum to either side, and not more than the maximum.
Naps(w) ==
    LET drawn == {HalfMin * Power[attempts[w]] + jitter : jitter \in -HalfMin .. HalfMin - 1}
    IN  {IF n > MaxInterval THEN MaxInterval ELSE n : n \in drawn}

Sleep(w) ==
    /\ Retries(w)
    /\ At(w, "retry", "sleep")
    /\ \E n \in Naps(w) : nap' = [nap EXCEPT ![w] = n]
    /\ UNCHANGED <<flags, stopAll, opCount, kind, batchSize, attempts, failed, took,
                   result, counters>>

\* Mutant of TryAgain: currentAttempts is not incremented.
TryAgainUncounted(w) ==
    /\ At(w, "sleep", "send")
    /\ nap' = [nap EXCEPT ![w] = 0]
    /\ UNCHANGED <<flags, stopAll, opCount, kind, batchSize, attempts, failed, took,
                   result, counters>>

TryAgain(w) ==
    /\ At(w, "sleep", "send")
    /\ nap' = [nap EXCEPT ![w] = 0]
    /\ attempts' = [attempts EXCEPT ![w] = @ + 1]
    /\ UNCHANGED <<flags, stopAll, opCount, kind, batchSize, failed, took, result,
                   counters>>

\* Without scylla-bench's handler a scan goes round its loop whatever the error;
\* its currentAttempts then plays no part and is not counted here.
ScanAgain(w) ==
    /\ mode = "scan" /\ retryHandler # "sb"
    /\ At(w, "retry", "send")
    /\ UNCHANGED <<flags, stopAll, opCount, operation, counters>>

\* All other functions return a duration of 0 with their error.
Fail(w) ==
    /\ ~Retries(w) /\ ~(mode = "scan" /\ retryHandler # "sb")
    /\ At(w, "retry", "return")
    /\ Return(w, "error", 0)
    /\ UNCHANGED <<flags, stopAll, opCount, kind, batchSize, attempts, failed, took,
                   counters>>

WrittenRows(w) == IF kind[w] = "write" THEN batchSize[w] ELSE 0

\* IncOps, IncRows or AddRows; in mixed mode the latencies of the half and a first
\* sample of the general raw histogram.
Succeed(w) ==
    /\ At(w, "succeed", "return")
    /\ ops' = ops + 1
    /\ rows' = rows + WrittenRows(w)
    /\ RecordIn(IF mode # "mixed" THEN {}
                ELSE IF kind[w] = "write" THEN {"raw", "writeRaw", "writeCoFixed"}
                ELSE {"raw", "readRaw", "readCoFixed"})
    /\ Return(w, "nil", took[w])
    /\ UNCHANGED <<flags, stopAll, opCount, kind, batchSize, attempts, failed, took,
                   begun, skipped, errors, totalErrors>>

-----------------------------------------------------------------------------
(* Back in RunTest *)

\* The switch on the error of test(w).
Register(w) ==
    /\ At(w, "return", "idle")
    /\ CASE result[w].err = "nil" ->
              /\ RecordIn({"raw", "coFixed"})
              /\ UNCHANGED <<errors, totalErrors, skipped>>
         [] result[w].err = "skip" ->
              /\ skipped' = skipped + 1
              /\ UNCHANGED <<errors, totalErrors, samples>>
         [] result[w].err = "error" ->
              /\ errors' = errors + 1
              /\ totalErrors' = totalErrors + 1
              /\ RecordIn(IF result[w].latency > CutoffTime THEN {"raw", "coFixed"} ELSE {})
              /\ UNCHANGED skipped
    /\ kind' = [kind EXCEPT ![w] = "write"]
    /\ batchSize' = [batchSize EXCEPT ![w] = 0]
    /\ attempts' = [attempts EXCEPT ![w] = 0]
    /\ failed' = [failed EXCEPT ![w] = FALSE]
    /\ took' = [took EXCEPT ![w] = 0]
    /\ result' = [result EXCEPT ![w] = NoResult]
    /\ UNCHANGED <<flags, stopAll, opCount, nap, begun, ops, rows>>

\* The timer or a signal.
Stop ==
    /\ ~stopAll
    /\ stopAll' = TRUE
    /\ UNCHANGED <<flags, opCount, pc, operation, counters>>

-----------------------------------------------------------------------------

WorkerNext(w) ==
    \/ Begin(w) \/ AddToBatch(w) \/ BatchBuilt(w) \/ DropBatch(w)
    \/ Send(w) \/ ScanRow(w) \/ CloseIter(w)
    \/ Sleep(w) \/ TryAgain(w) \/ ScanAgain(w) \/ Fail(w)
    \/ Succeed(w) \/ Register(w)

AllStopped == stopAll /\ \A w \in Workers : pc[w] = "idle"

Next ==
    \/ \E w \in Workers : WorkerNext(w)
    \/ Stop
    \/ AllStopped /\ UNCHANGED vars

Spec == Init /\ [][Next]_vars

\* Goroutines run, requests are answered or time out, and sleeps end.  How often a
\* request fails is open.
FairSpec == Spec /\ \A w \in Workers : WF_vars(WorkerNext(w))

-----------------------------------------------------------------------------
(* Properties *)

PcValues == {"idle", "build", "send", "scan", "retry", "sleep", "succeed", "return"}

\* The type of every variable.
TypeOK ==
    /\ mode \in Modes /\ retryHandler \in RetryHandlers
    /\ stopAll \in BOOLEAN
    /\ opCount \in Nat
    /\ pc \in [Workers -> PcValues]
    /\ kind \in [Workers -> Kinds]
    /\ batchSize \in [Workers -> 0 .. RowsPerRequest]
    /\ attempts \in [Workers -> 0 .. RetryNumber]
    /\ failed \in [Workers -> BOOLEAN]
    /\ took \in [Workers -> Durations \cup {0}]
    /\ nap \in [Workers -> 0 .. MaxInterval]
    /\ result \in [Workers -> [err : {"nil", "skip", "error"}, latency : Durations \cup {0}]]
    /\ begun \in [Kinds -> Nat]
    /\ skipped \in Nat
    /\ ops \in Nat /\ rows \in Nat /\ errors \in Nat /\ totalErrors \in Nat
    /\ samples \in [Stacks -> Nat]

\* An operation is reported as failed only when its last request failed and its
\* retries are used up (modes.go:437-454): none was left with "sb", and with "gocql"
\* there was one request.  Whenever its last request failed it is reported as failed,
\* but for the reads of read mode, whose error is lost (FailuresAreSeen).
ErrorsAreFinal ==
    \A w \in Workers : pc[w] = "return" =>
        /\ result[w].err = "error" =>
              failed[w] /\ attempts[w] = IF retryHandler = "sb" THEN RetryNumber ELSE 0
        /\ failed[w] /\ mode # "read" => result[w].err = "error"

Returned(w) == pc[w] = "return" /\ result[w].err = "nil"
Unaccounted == {w \in Workers : pc[w] # "idle" /\ ~Returned(w)}

\* Every operation is counted once (modes.go:217-234 and the IncOps of each
\* function): as an operation done, as an error or not at all.
CountedOnce ==
    begun["write"] + begun["read"]
        = ops + totalErrors + skipped + Cardinality(Unaccounted)

\* The histograms hold a sample of each operation done and of no other
\* (modes.go:219-222); in mixed mode the raw one a second (modes.go:1079, 1186),
\* and each half's raw and fixed ones agree (modes.go:999-1020).
SamplesPerOperation ==
    LET registered == ops - Cardinality({w \in Workers : Returned(w)})
    IN  /\ samples["coFixed"] = IF MeasureLatency THEN registered ELSE 0
        /\ samples["raw"] = samples["coFixed"]
                              + IF MeasureLatency /\ mode = "mixed" THEN ops ELSE 0
        /\ samples["readRaw"] + samples["writeRaw"]
              = IF MeasureLatency /\ mode = "mixed" THEN ops ELSE 0
        /\ samples["readRaw"] = samples["readCoFixed"]
        /\ samples["writeRaw"] = samples["writeCoFixed"]

\* Mixed mode's halves differ by one operation at most, however the workers
\* interleave and whatever fails (modes.go:995-1004).
MixedHalves ==
    mode = "mixed" =>
        begun["read"] - begun["write"] \in {0, 1}

\* A write that was retried counts its rows once (modes.go:489-490, 616-617).
RowsWritten ==
    mode \in {"write", "batch", "counter_update"} =>
        /\ ops <= rows /\ rows <= ops * RowsPerRequest
        /\ mode # "batch" => rows = ops

\* Every operation comes back to RunTest, however often its requests fail, but for
\* the scans that leave the retries to the driver.
OperationsReturn ==
    \A w \in Workers :
        pc[w] # "idle" /\ ~(mode = "scan" /\ retryHandler = "gocql") ~> pc[w] = "idle"

\* What main.go:389 and 393-396 say of retries, for reads: a request that failed
\* is tried again or reported, and does not pass for a success.
FailuresAreSeen == \A w \in Workers : Returned(w) => ~failed[w]
=============================================================================
