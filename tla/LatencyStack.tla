---------------------------- MODULE LatencyStack ----------------------------
(***************************************************************************)
(* pkg/stack/stack.go: the double-buffered stack into which the workers    *)
(* push latency samples and from which a callback moves them into an HDR   *)
(* histogram.  Push reserves a slot with an atomic add and writes it with  *)
(* no lock held; Swap, and a Push that finds the buffer full, exchange the *)
(* two buffers and hand the retired one to the callback.                   *)
(*                                                                         *)
(* Every access to shared memory is a step of its own: Push and swapData   *)
(* are marked go:norace, and s.current and s.data are read and written     *)
(* there without a common lock.                                            *)
(***************************************************************************)
EXTENDS Integers, FiniteSets

CONSTANTS
    Pushers,         \* worker goroutines, callers of Push
    Reporters,       \* goroutines that call Swap(false)
    FinalReporters,  \* the reporters that swap only after waitGroup.Wait()
    Limit,           \* upperLimit
    MaxPush,         \* bound: samples one worker pushes
    MaxSwaps,        \* bound: swaps one reporter makes
    Zero,            \* what a slot of make([]int64, n) holds
    Free             \* no goroutine holds the mutex

Samples == Pushers \X (1 .. MaxPush)
Procs == Pushers \cup Reporters

Slots == 0 .. Limit
Buffers == {"first", "second"}

ASSUME StackAssumption ==
    /\ IsFiniteSet(Pushers)
    /\ Pushers \cap Reporters = {}
    /\ FinalReporters \subseteq Reporters
    /\ Limit \in Nat \ {0}
    /\ MaxPush \in Nat
    /\ MaxSwaps \in Nat
    /\ Zero \notin Samples
    /\ Free \notin Procs

VARIABLES
    data, swap,      \* the buffers the two pointers refer to
    cells,           \* the content of both buffers
    current,         \* s.current, the number of slots reserved in data
    swapLock,        \* holder of the mutex swapLock
    cbInProgress,    \* who locked cbInProgress (its callback unlocks it)
    pc,              \* where each goroutine is in Push or Swap
    idx,             \* the local idx of a Push
    dst,             \* the buffer a Push loaded from s.data
    count,           \* the argument `current` of a swapData call
    stores,          \* the stores of swapData's assignment still to be made
    callback,        \* the callback a goroutine has started and not finished
    histogram,       \* how often each value was given to RecordValue
    pushed, swapped, \* the calls of Push and of Swap made so far
    panicked         \* an index was out of range: the process is gone

stack == <<data, swap, cells, current>>
locks == <<swapLock, cbInProgress>>
vars == <<stack, locks, pc, idx, dst, count, stores, callback,
          histogram, pushed, swapped, panicked>>

NoCallback == [buf |-> "none", items |-> 0, next |-> 0]
Running(x) == callback[x].buf # "none"

Init ==
    /\ data = "first"
    /\ swap = "second"
    /\ cells = [b \in Buffers |-> [i \in Slots |-> Zero]]
    /\ current = 0
    /\ swapLock = Free
    /\ cbInProgress = Free
    /\ pc = [x \in Procs |-> "idle"]
    /\ idx = [p \in Pushers |-> 0]
    /\ dst = [p \in Pushers |-> "first"]
    /\ count = [x \in Procs |-> 0]
    /\ stores = {}
    /\ callback = [x \in Procs |-> NoCallback]
    /\ histogram = [v \in Samples \cup {Zero} |-> 0]
    /\ pushed = [p \in Pushers |-> 0]
    /\ swapped = [r \in Reporters |-> 0]
    /\ panicked = FALSE

At(x, here, there) == pc[x] = here /\ pc' = [pc EXCEPT ![x] = there]

-----------------------------------------------------------------------------
(* Push *)

\* idx := atomic.AddUint64(&s.current, 1) and the comparison with upperLimit.
Reserve(p) ==
    /\ pushed[p] < MaxPush
    /\ At(p, "idle", IF current + 1 >= Limit THEN "lock" ELSE "load")
    /\ pushed' = [pushed EXCEPT ![p] = @ + 1]
    /\ current' = current + 1
    /\ idx' = [idx EXCEPT ![p] = current + 1]
    /\ UNCHANGED <<data, swap, cells, locks, dst, count, stores, callback,
                   histogram, swapped, panicked>>

LockSwap(p) ==
    /\ At(p, "lock", "check")
    /\ swapLock = Free
    /\ swapLock' = p
    /\ UNCHANGED <<stack, cbInProgress, idx, dst, count, stores, callback,
                   histogram, pushed, swapped, panicked>>

\* Mutant of CheckFull: the comparison with the limit is strict.
CheckFullStrictly(p) ==
    /\ At(p, "check", IF current > Limit THEN "cbLock" ELSE "again")
    /\ count' = [count EXCEPT ![p] = IF current > Limit THEN idx[p] - 1 ELSE 0]
    /\ idx' = [idx EXCEPT ![p] = 0]
    /\ UNCHANGED <<stack, locks, dst, stores, callback,
                   histogram, pushed, swapped, panicked>>

\* Mutant of CheckFull: idx items are flushed, the reserved slot among them.
CheckFullOneMore(p) ==
    /\ At(p, "check", IF current >= Limit THEN "cbLock" ELSE "again")
    /\ count' = [count EXCEPT ![p] = IF current >= Limit THEN idx[p] ELSE 0]
    /\ idx' = [idx EXCEPT ![p] = 0]
    /\ UNCHANGED <<stack, locks, dst, stores, callback,
                   histogram, pushed, swapped, panicked>>

\* With the lock held: flush idx-1 items if the buffer is (still) full.
CheckFull(p) ==
    /\ At(p, "check", IF current >= Limit THEN "cbLock" ELSE "again")
    /\ count' = [count EXCEPT ![p] = IF current >= Limit THEN idx[p] - 1 ELSE 0]
    /\ idx' = [idx EXCEPT ![p] = 0]
    /\ UNCHANGED <<stack, locks, dst, stores, callback,
                   histogram, pushed, swapped, panicked>>

\* The second atomic add, then swapLock.Unlock().
ReserveAgain(p) ==
    /\ At(p, "again", "load")
    /\ current' = current + 1
    /\ idx' = [idx EXCEPT ![p] = current + 1]
    /\ swapLock' = Free
    /\ UNCHANGED <<data, swap, cells, cbInProgress, dst, count, stores,
                   callback, histogram, pushed, swapped, panicked>>

LoadPointer(p) ==
    /\ At(p, "load", "write")
    /\ dst' = [dst EXCEPT ![p] = data]
    /\ UNCHANGED <<stack, locks, idx, count, stores, callback,
                   histogram, pushed, swapped, panicked>>

\* (*s.data)[idx-1] = value, which panics when idx-1 is not an index.
WriteSlot(p) ==
    /\ At(p, "write", "idle")
    /\ \/ /\ idx[p] - 1 \in Slots
          /\ cells' = [cells EXCEPT ![dst[p]][idx[p] - 1] = <<p, pushed[p]>>]
          /\ UNCHANGED panicked
       \/ /\ idx[p] - 1 \notin Slots
          /\ panicked' = TRUE
          /\ UNCHANGED cells
    /\ idx' = [idx EXCEPT ![p] = 0]          \* the locals go out of scope
    /\ dst' = [dst EXCEPT ![p] = "first"]
    /\ UNCHANGED <<data, swap, current, locks, count, stores,
                   callback, histogram, pushed, swapped>>

\* The worker leaves RunTest and calls waitGroup.Done().
Stop(p) ==
    /\ At(p, "idle", "stopped")
    /\ UNCHANGED <<stack, locks, idx, dst, count, stores, callback,
                   histogram, pushed, swapped, panicked>>

-----------------------------------------------------------------------------
(* Swap(false) *)

\* Mutant of BeginSwap: the last swap does not wait for the workers.
BeginSwapEarly(r) ==
    /\ swapped[r] < MaxSwaps
    /\ At(r, "idle", "read")
    /\ swapLock = Free
    /\ swapLock' = r
    /\ swapped' = [swapped EXCEPT ![r] = @ + 1]
    /\ UNCHANGED <<stack, cbInProgress, idx, dst, count, stores, callback,
                   histogram, pushed, panicked>>

BeginSwap(r) ==
    /\ swapped[r] < MaxSwaps
    /\ r \in FinalReporters => \A p \in Pushers : pc[p] = "stopped"
    /\ At(r, "idle", "read")
    /\ swapLock = Free
    /\ swapLock' = r
    /\ swapped' = [swapped EXCEPT ![r] = @ + 1]
    /\ UNCHANGED <<stack, cbInProgress, idx, dst, count, stores, callback,
                   histogram, pushed, panicked>>

ReadCurrent(r) ==
    /\ At(r, "read", "cbLock")
    /\ count' = [count EXCEPT ![r] = current]
    /\ UNCHANGED <<stack, locks, idx, dst, stores, callback,
                   histogram, pushed, swapped, panicked>>

-----------------------------------------------------------------------------
(* swapData and runCb, on behalf of a Push or of a Swap *)

\* Mutant of LockCallback: swapData does not lock cbInProgress.
SwapWithoutLock(x) ==
    /\ At(x, "cbLock", "swap")
    /\ cbInProgress' = x
    /\ stores' = {"pointers", "current"}
    /\ UNCHANGED <<stack, swapLock, idx, dst, count, callback,
                   histogram, pushed, swapped, panicked>>

LockCallback(x) ==
    /\ At(x, "cbLock", "swap")
    /\ cbInProgress = Free
    /\ cbInProgress' = x
    /\ stores' = {"pointers", "current"}
    /\ UNCHANGED <<stack, swapLock, idx, dst, count, callback,
                   histogram, pushed, swapped, panicked>>

\* s.data, s.swap, s.current = s.swap, s.data, 0 is not one atomic store, and
\* nothing orders its stores for a concurrent Push: either becomes visible first.
StorePointers(x) ==
    /\ pc[x] = "swap"
    /\ "pointers" \in stores
    /\ stores' = stores \ {"pointers"}
    /\ data' = swap
    /\ swap' = data
    /\ UNCHANGED <<cells, current, locks, pc, idx, dst, count, callback,
                   histogram, pushed, swapped, panicked>>

\* Mutant of StoreCurrent: the flushed items are subtracted, where 0 is stored.
SubtractFlushed(x) ==
    /\ pc[x] = "swap"
    /\ "current" \in stores
    /\ stores' = stores \ {"current"}
    /\ current' = current - Limit
    /\ UNCHANGED <<data, swap, cells, locks, pc, idx, dst, count, callback,
                   histogram, pushed, swapped, panicked>>

\* Mutant of StoreCurrent: the counter goes on.
StoreNothing(x) ==
    /\ pc[x] = "swap"
    /\ "current" \in stores
    /\ stores' = stores \ {"current"}
    /\ UNCHANGED <<stack, locks, pc, idx, dst, count, callback,
                   histogram, pushed, swapped, panicked>>

StoreCurrent(x) ==
    /\ pc[x] = "swap"
    /\ "current" \in stores
    /\ stores' = stores \ {"current"}
    /\ current' = 0
    /\ UNCHANGED <<data, swap, cells, locks, pc, idx, dst, count, callback,
                   histogram, pushed, swapped, panicked>>

\* runCb: on a goroutine of its own for a Push, inline for Swap(false).
StartCallback(x) ==
    /\ stores = {}
    /\ At(x, "swap", IF x \in Pushers THEN "again" ELSE "flush")
    /\ callback' = [callback EXCEPT
                      ![x] = [buf |-> swap, items |-> count[x], next |-> 0]]
    /\ count' = [count EXCEPT ![x] = 0]
    /\ UNCHANGED <<stack, locks, idx, dst, stores,
                   histogram, pushed, swapped, panicked>>

\* One iteration of the callback's loop, h.RecordValue(d[i]).
RecordNext(x) ==
    /\ Running(x)
    /\ LET cb == callback[x] IN
        /\ cb.next < cb.items
        /\ \/ /\ cb.next \in Slots
              /\ histogram' = [histogram EXCEPT ![cells[cb.buf][cb.next]] = @ + 1]
              /\ callback' = [callback EXCEPT ![x].next = @ + 1]
              /\ UNCHANGED panicked
           \/ /\ cb.next \notin Slots
              /\ panicked' = TRUE
              /\ UNCHANGED <<histogram, callback>>
    /\ UNCHANGED <<stack, locks, pc, idx, dst, count, stores, pushed, swapped>>

\* Mutant of FinishCallback: cbInProgress stays locked.
FinishWithoutUnlock(x) ==
    /\ Running(x)
    /\ callback[x].next = callback[x].items
    /\ callback' = [callback EXCEPT ![x] = NoCallback]
    /\ IF x \in Pushers
       THEN UNCHANGED <<pc, swapLock>>
       ELSE At(x, "flush", "idle") /\ swapLock' = Free
    /\ UNCHANGED <<stack, cbInProgress, idx, dst, count, stores, histogram,
                   pushed, swapped, panicked>>

\* The deferred cbInProgress.Unlock(); Swap then releases swapLock as well.
FinishCallback(x) ==
    /\ Running(x)
    /\ callback[x].next = callback[x].items
    /\ callback' = [callback EXCEPT ![x] = NoCallback]
    /\ cbInProgress' = Free
    /\ IF x \in Pushers
       THEN UNCHANGED <<pc, swapLock>>
       ELSE At(x, "flush", "idle") /\ swapLock' = Free
    /\ UNCHANGED <<stack, idx, dst, count, stores, histogram, pushed, swapped,
                   panicked>>

-----------------------------------------------------------------------------

PusherNext(p) ==
    \/ Reserve(p) \/ LockSwap(p) \/ CheckFull(p) \/ ReserveAgain(p)
    \/ LoadPointer(p) \/ WriteSlot(p) \/ Stop(p)

ReporterNext(r) == BeginSwap(r) \/ ReadCurrent(r)

SwapDataNext(x) ==
    \/ LockCallback(x) \/ StorePointers(x) \/ StoreCurrent(x)
    \/ StartCallback(x) \/ RecordNext(x) \/ FinishCallback(x)

AllStopped ==
    /\ \A p \in Pushers : pc[p] = "stopped"
    /\ \A r \in Reporters : pc[r] = "idle" /\ swapped[r] = MaxSwaps
    /\ \A x \in Procs : ~Running(x)

\* Nothing is left to do, or the panic has ended the process.
Terminated == (AllStopped \/ panicked) /\ UNCHANGED vars

Next ==
    \/ /\ ~panicked
       /\ \/ \E p \in Pushers : PusherNext(p)
          \/ \E r \in Reporters : ReporterNext(r)
          \/ \E x \in Procs : SwapDataNext(x)
    \/ Terminated

Spec == Init /\ [][Next]_vars

\* A goroutine that can run does run, and so does the callback's goroutine.  A
\* sync.Mutex hands itself to a goroutine that has waited for 1ms (its starvation
\* mode), so a waiter is not overtaken for ever: strong fairness for the locks.
Acquire(x) ==
    \/ x \in Pushers /\ LockSwap(x)
    \/ x \in Reporters /\ BeginSwap(x)
    \/ LockCallback(x)

Advance(x) ==
    \/ /\ x \in Pushers
       /\ \/ Reserve(x) \/ CheckFull(x) \/ ReserveAgain(x)
          \/ LoadPointer(x) \/ WriteSlot(x) \/ Stop(x)
    \/ x \in Reporters /\ ReadCurrent(x)
    \/ StorePointers(x) \/ StoreCurrent(x) \/ StartCallback(x)

RunCallback(x) == RecordNext(x) \/ FinishCallback(x)

Fairness ==
    \A x \in Procs :
        /\ SF_vars(~panicked /\ Acquire(x))
        /\ WF_vars(~panicked /\ Advance(x))
        /\ WF_vars(~panicked /\ RunCallback(x))

FairSpec == Spec /\ Fairness

-----------------------------------------------------------------------------
(* Properties *)

PcValues == {"idle", "lock", "check", "cbLock", "swap", "again", "load",
             "write", "stopped", "read", "flush"}

\* The type of every variable.
TypeOK ==
    /\ data \in Buffers
    /\ swap \in Buffers
    /\ cells \in [Buffers -> [Slots -> Samples \cup {Zero}]]
    /\ current \in Nat
    /\ swapLock \in Procs \cup {Free}
    /\ cbInProgress \in Procs \cup {Free}
    /\ pc \in [Procs -> PcValues]
    /\ idx \in [Pushers -> Nat]
    /\ dst \in [Pushers -> Buffers]
    /\ count \in [Procs -> Int]
    /\ stores \subseteq {"pointers", "current"}
    /\ callback \in [Procs -> [buf : Buffers \cup {"none"}, items : Int, next : Nat]]
    /\ histogram \in [Samples \cup {Zero} -> Nat]
    /\ pushed \in [Pushers -> 0 .. MaxPush]
    /\ swapped \in [Reporters -> 0 .. MaxSwaps]
    /\ panicked \in BOOLEAN

\* While a callback reads a buffer (stack.go:53-55), that buffer is the retired
\* one and no second callback runs: two flushes never overlap, whoever started
\* them, although a Push starts its callback on another goroutine and releases
\* swapLock before the callback has ended.
RetiredBuffer ==
    /\ data # swap
    /\ \A x \in Procs : Running(x) =>
           /\ callback[x].buf = swap
           /\ \A y \in Procs : Running(y) => y = x

\* The pushers that have reserved a slot beyond the limit and not yet given it up.
Overflowing ==
    {p \in Pushers : pc[p] \in {"lock", "check", "cbLock", "swap", "again"}}

\* How far the reservations run past the limit before somebody flushes
\* (stack.go:69-76): by at most one slot per worker.  The buffers have room for
\* one (stack.go:24-25).
Overshoot == current <= Limit + Cardinality(Pushers)

\* The concurrency at which one spare slot is enough: one worker, or two when
\* nobody swaps while they run (the total result without the printer's one).
SafeConcurrency ==
    \/ Cardinality(Pushers) <= 1
    \/ Cardinality(Pushers) <= 2 /\ Reporters = FinalReporters

\* At those concurrencies no Push and no callback indexes a buffer out of range.
NoPanicWhenSafe == SafeConcurrency => ~panicked

\* The total result of -concurrency 1: nobody swaps while the worker runs.
OneWorker == Cardinality(Pushers) = 1 /\ Reporters = FinalReporters

\* Nothing is missing in the end: when the one worker has stopped and the swap made
\* after waitGroup.Wait() (testrun.go:96) has returned, all it has pushed is in the
\* histogram, once each, and no slot that was never written is.
Complete ==
    OneWorker /\ AllStopped /\ Reporters # {} /\ MaxSwaps >= 1 =>
        /\ \A s \in Samples : histogram[s] = IF s[2] <= pushed[s[1]] THEN 1 ELSE 0
        /\ histogram[Zero] = 0

\* Whatever is pushed while a flush goes on (stack.go:11-12) is in the histogram when
\* all workers have stopped and the swap after waitGroup.Wait() has returned.
NothingLost ==
    AllStopped /\ FinalReporters # {} /\ MaxSwaps >= 1 =>
        \A s \in Samples : s[2] <= pushed[s[1]] => histogram[s] >= 1

\* Every call of Push and of Swap returns, and so does every callback: the two
\* locks are always taken in one order and each is released on every path.
CallsReturn ==
    \A x \in Procs :
        (pc[x] \notin {"idle", "stopped"} \/ Running(x))
            ~> (panicked \/ (pc[x] \in {"idle", "stopped"} /\ ~Running(x)))

\* What the stack promises (SampleRecorder): the accepted samples are those whose
\* Push has begun, and a histogram entry is a sample recorded.
Recorder == INSTANCE SampleRecorder WITH
    accepted <- {s \in Samples : s[2] <= pushed[s[1]]},
    recorded <- histogram,
    Values <- Samples \cup {Zero}

\* With one worker and a swap at the end the stack implements a recorder: every
\* sample is recorded exactly once and nothing else is.
RecordsEverySample == Recorder!Spec
=============================================================================
