------------------------- MODULE LatencyStackProofs -------------------------
(***************************************************************************)
(* Proofs about LatencyStack, for any set of workers, any reporters and any *)
(* limit: the types, the exclusion between callbacks, the overshoot, the    *)
(* concurrency up to which no index is out of range, and for one worker the *)
(* steps of SampleRecorder and that nothing is missing in the end.          *)
(***************************************************************************)
EXTENDS LatencyStack, FiniteSetTheorems, TLAPS

-----------------------------------------------------------------------------
(* Types *)

\* A worker inside Push has counted the call: its sample has a number.
Begun == \A p \in Pushers : pc[p] \notin {"idle", "stopped"} => pushed[p] >= 1

\* Begun is inductive given the types.
LEMMA BegunStep == TypeOK /\ Begun /\ [Next]_vars => Begun'
<1> SUFFICES ASSUME TypeOK, Begun, [Next]_vars, NEW q \in Pushers,
                    pc'[q] \notin {"idle", "stopped"}
             PROVE  pushed'[q] >= 1
  BY DEF Begun
<1> USE DEF TypeOK, Procs
<1>1. ASSUME NEW p \in Pushers, PusherNext(p) PROVE pushed'[q] >= 1
  <2>1. CASE Reserve(p)
    BY <2>1 DEF Reserve, Begun, At
  <2>2. CASE ~Reserve(p)
    <3>1. pushed' = pushed /\ pc[q] \notin {"idle", "stopped"}
      BY <1>1, <2>2 DEF PusherNext, LockSwap, CheckFull, ReserveAgain,
         LoadPointer, WriteSlot, Stop, At
    <3> QED BY <3>1 DEF Begun
  <2> QED BY <2>1, <2>2
<1>2. ASSUME NEW r \in Reporters, ReporterNext(r) PROVE pushed'[q] >= 1
  <2>1. pushed' = pushed /\ pc[q] = pc'[q]
    BY <1>2, StackAssumption DEF ReporterNext, BeginSwap, ReadCurrent, At
  <2> QED BY <2>1 DEF Begun
<1>3. ASSUME NEW x \in Procs, SwapDataNext(x) PROVE pushed'[q] >= 1
  <2>1. pushed' = pushed /\ pc[q] \notin {"idle", "stopped"}
    BY <1>3 DEF SwapDataNext, LockCallback, StorePointers, StoreCurrent,
       StartCallback, RecordNext, FinishCallback, At
  <2> QED BY <2>1 DEF Begun
<1>4. CASE UNCHANGED vars
  BY <1>4 DEF vars, Begun
<1> QED BY <1>1, <1>2, <1>3, <1>4 DEF Next, Terminated

\* Every action preserves the types.
LEMMA TypeStep == TypeOK /\ Begun /\ [Next]_vars => TypeOK'
<1> USE DEF TypeOK, Procs, PcValues
<1>1. ASSUME TypeOK, Begun, [Next]_vars PROVE TypeOK'
  <2> USE <1>1
  <2>1. ASSUME NEW p \in Pushers, Reserve(p) PROVE TypeOK'
    BY <2>1, StackAssumption DEF Reserve, At, locks
  <2>2. ASSUME NEW p \in Pushers, LockSwap(p) PROVE TypeOK'
    BY <2>2 DEF LockSwap, At, stack
  <2>3. ASSUME NEW p \in Pushers, CheckFull(p) PROVE TypeOK'
    BY <2>3 DEF CheckFull, At, stack, locks
  <2>4. ASSUME NEW p \in Pushers, ReserveAgain(p) PROVE TypeOK'
    BY <2>4, StackAssumption DEF ReserveAgain, At
  <2>5. ASSUME NEW p \in Pushers, LoadPointer(p) PROVE TypeOK'
    BY <2>5 DEF LoadPointer, At, Buffers, stack, locks
  <2>6. ASSUME NEW p \in Pushers, WriteSlot(p) PROVE TypeOK'
    <3>1. cells' \in [Buffers -> [Slots -> Samples \cup {Zero}]]
      <4> DEFINE s == <<p, pushed[p]>>
                 c == cells[dst[p]]
      <4>1. CASE UNCHANGED cells
        BY <4>1
      <4>2. CASE /\ idx[p] - 1 \in Slots
                 /\ cells' = [cells EXCEPT ![dst[p]] = [c EXCEPT ![idx[p] - 1] = s]]
        <5>1. s \in Samples
          <6>1. pushed[p] \in 1 .. MaxPush
            BY <1>1, <2>6, StackAssumption DEF WriteSlot, At, Begun
          <6> QED BY <6>1, Zenon DEF Samples
        <5>2. c \in [Slots -> Samples \cup {Zero}] /\ dst[p] \in Buffers
          OBVIOUS
        <5>3. [c EXCEPT ![idx[p] - 1] = s] \in [Slots -> Samples \cup {Zero}]
          BY <5>1, <5>2
        <5> HIDE DEF c, s
        <5> QED BY <4>2, <5>2, <5>3
      <4> QED BY <2>6, <4>1, <4>2 DEF WriteSlot
    <3> QED BY <2>6, <3>1 DEF WriteSlot, At, locks, Buffers
  <2>7. ASSUME NEW p \in Pushers, Stop(p) PROVE TypeOK'
    BY <2>7 DEF Stop, At, stack, locks
  <2>8. ASSUME NEW r \in Reporters, BeginSwap(r) PROVE TypeOK'
    BY <2>8, StackAssumption DEF BeginSwap, At, stack
  <2>9. ASSUME NEW r \in Reporters, ReadCurrent(r) PROVE TypeOK'
    BY <2>9 DEF ReadCurrent, At, stack, locks
  <2>10. ASSUME NEW x \in Procs, LockCallback(x) PROVE TypeOK'
    BY <2>10 DEF LockCallback, At, stack
  <2>11. ASSUME NEW x \in Procs, StorePointers(x) PROVE TypeOK'
    BY <2>11 DEF StorePointers, locks
  <2>12. ASSUME NEW x \in Procs, StoreCurrent(x) PROVE TypeOK'
    BY <2>12 DEF StoreCurrent, locks
  <2>13. ASSUME NEW x \in Procs, StartCallback(x) PROVE TypeOK'
    BY <2>13 DEF StartCallback, At, stack, locks
  <2>14. ASSUME NEW x \in Procs, RecordNext(x) PROVE TypeOK'
    <3>1. ASSUME NEW v,
                 histogram' = [histogram EXCEPT ![v] = histogram[v] + 1]
          PROVE  histogram' \in [Samples \cup {Zero} -> Nat]
      <4>1. CASE v \in Samples \cup {Zero}
        BY <3>1, <4>1
      <4>2. CASE v \notin Samples \cup {Zero}
        BY <3>1, <4>2
      <4> QED BY <4>1, <4>2
    <3>3. histogram' \in [Samples \cup {Zero} -> Nat]
      <4>1. CASE UNCHANGED histogram
        BY <4>1
      <4>2. CASE ~UNCHANGED histogram
        <5> DEFINE v == cells[callback[x].buf][callback[x].next]
        <5>1. histogram' = [histogram EXCEPT ![v] = histogram[v] + 1]
          BY <2>14, <4>2 DEF RecordNext
        <5> QED BY <3>1, <5>1
      <4> QED BY <4>1, <4>2
    <3>2. callback' \in [Procs -> [buf : Buffers \cup {"none"}, items : Int, next : Nat]]
      <4>1. CASE UNCHANGED callback
        BY <4>1
      <4>2. CASE callback' = [callback EXCEPT ![x].next = callback[x].next + 1]
        <5> DEFINE n == [buf |-> callback[x].buf, items |-> callback[x].items,
                           next |-> callback[x].next + 1]
        <5>1. callback[x] \in [buf : Buffers \cup {"none"}, items : Int, next : Nat]
          OBVIOUS
        <5>2. n \in [buf : Buffers \cup {"none"}, items : Int, next : Nat]
          BY <5>1
        <5>3. callback' = [callback EXCEPT ![x] = n]
          <6>1. [callback[x] EXCEPT !.next = callback[x].next + 1] = n
            BY <5>1
          <6>2. callback' = [callback EXCEPT
                    ![x] = [callback[x] EXCEPT !.next = callback[x].next + 1]]
            BY <4>2, Zenon
          <6> QED BY <6>1, <6>2, Zenon
        <5> HIDE DEF n
        <5> QED BY <5>2, <5>3
      <4> QED BY <2>14, <4>1, <4>2 DEF RecordNext
    <3>4. UNCHANGED <<data, swap, cells, current, swapLock, cbInProgress, pc,
                      idx, dst, count, stores, pushed, swapped>>
      BY <2>14 DEF RecordNext, stack, locks
    <3>5. panicked' \in BOOLEAN
      BY <2>14 DEF RecordNext
    <3> QED BY <3>2, <3>3, <3>4, <3>5
  <2>15. ASSUME NEW x \in Procs, FinishCallback(x) PROVE TypeOK'
    <3>1. NoCallback \in [buf : Buffers \cup {"none"}, items : Int, next : Nat]
      BY DEF NoCallback
    <3>2. callback' \in [Procs -> [buf : Buffers \cup {"none"}, items : Int, next : Nat]]
      BY <2>15, <3>1 DEF FinishCallback
    <3>3. pc' \in [Procs -> PcValues] /\ swapLock' \in Procs \cup {Free}
      BY <2>15 DEF FinishCallback, At
    <3> QED BY <2>15, <3>2, <3>3 DEF FinishCallback, stack
  <2>16. CASE UNCHANGED vars
    BY <2>16 DEF vars, stack, locks
  <2> QED
    BY <1>1, <2>1, <2>2, <2>3, <2>4, <2>5, <2>6, <2>7, <2>8, <2>9, <2>10,
       <2>11, <2>12, <2>13, <2>14, <2>15, <2>16
    DEF Next, PusherNext, ReporterNext, SwapDataNext, Terminated
<1> QED BY <1>1

\* TypeOK holds in every reachable state, whatever the instance.
THEOREM TypeCorrect == Spec => []TypeOK
<1>1. Init => TypeOK
  <2> SUFFICES ASSUME Init PROVE TypeOK
    OBVIOUS
  <2>1. /\ data \in Buffers /\ swap \in Buffers /\ current \in Nat
        /\ pc \in [Procs -> PcValues]
        /\ dst \in [Pushers -> Buffers]
    BY DEF Init, Buffers, PcValues
  <2>2. /\ idx \in [Pushers -> Nat] /\ count \in [Procs -> Int]
        /\ pushed \in [Pushers -> 0 .. MaxPush]
        /\ swapped \in [Reporters -> 0 .. MaxSwaps]
    BY StackAssumption DEF Init
  <2>3. /\ cells \in [Buffers -> [Slots -> Samples \cup {Zero}]]
        /\ histogram \in [Samples \cup {Zero} -> Nat]
    BY DEF Init
  <2>4. callback \in [Procs -> [buf : Buffers \cup {"none"}, items : Int, next : Nat]]
    BY DEF Init, NoCallback
  <2> QED BY <2>1, <2>2, <2>3, <2>4 DEF Init, TypeOK
<1>2. Init => Begun
  BY DEF Init, Begun, Procs
<1> QED BY <1>1, <1>2, BegunStep, TypeStep, PTL DEF Spec

-----------------------------------------------------------------------------
(* The locks *)

\* Inside the critical section of swapLock.
Critical == {"check", "cbLock", "swap", "again", "read", "flush"}

\* Who holds which lock, and which buffer a running callback has.
Locks ==
    /\ data # swap
    /\ \A x \in Procs : (swapLock = x) <=> (pc[x] \in Critical)
    /\ \A x \in Procs : (cbInProgress = x) <=> (pc[x] = "swap" \/ Running(x))
    /\ \A x \in Procs : Running(x) => pc[x] # "swap" /\ callback[x].buf = swap

\* The inductive step of Locks.
LEMMA LocksStep == TypeOK /\ Locks /\ [Next]_vars => Locks'
<1> SUFFICES ASSUME TypeOK, Locks, [Next]_vars PROVE Locks'
  OBVIOUS
<1> USE DEF Locks, Critical, Running
<1>0. /\ pc \in [Procs -> PcValues]
      /\ data \in Buffers /\ swap \in Buffers
      /\ callback \in [Procs -> [buf : Buffers \cup {"none"}, items : Int, next : Nat]]
      /\ Free \notin Procs
      /\ Pushers \subseteq Procs /\ Reporters \subseteq Procs
      /\ Pushers \cap Reporters = {}
  BY StackAssumption DEF TypeOK, Procs
<1>1. ASSUME NEW p \in Pushers, Reserve(p) PROVE Locks'
  BY <1>0, <1>1 DEF Reserve, At, locks
<1>2. ASSUME NEW p \in Pushers, LockSwap(p) PROVE Locks'
  BY <1>0, <1>2 DEF LockSwap, At, stack
<1>3. ASSUME NEW p \in Pushers, CheckFull(p) PROVE Locks'
  BY <1>0, <1>3 DEF CheckFull, At, stack, locks
<1>4. ASSUME NEW p \in Pushers, ReserveAgain(p) PROVE Locks'
  BY <1>0, <1>4 DEF ReserveAgain, At
<1>5. ASSUME NEW p \in Pushers, LoadPointer(p) PROVE Locks'
  BY <1>0, <1>5 DEF LoadPointer, At, stack, locks
<1>6. ASSUME NEW p \in Pushers, WriteSlot(p) PROVE Locks'
  BY <1>0, <1>6 DEF WriteSlot, At, locks
<1>7. ASSUME NEW p \in Pushers, Stop(p) PROVE Locks'
  BY <1>0, <1>7 DEF Stop, At, stack, locks
<1>8. ASSUME NEW r \in Reporters, BeginSwap(r) PROVE Locks'
  BY <1>0, <1>8 DEF BeginSwap, At, stack
<1>9. ASSUME NEW r \in Reporters, ReadCurrent(r) PROVE Locks'
  BY <1>0, <1>9 DEF ReadCurrent, At, stack, locks
<1>10. ASSUME NEW x \in Procs, LockCallback(x) PROVE Locks'
  BY <1>0, <1>10 DEF LockCallback, At, stack
<1>11. ASSUME NEW x \in Procs, StorePointers(x) PROVE Locks'
  <2>1. \A y \in Procs : ~Running(y)
    BY <1>0, <1>11 DEF StorePointers
  <2> QED BY <1>0, <1>11, <2>1 DEF StorePointers, locks
<1>12. ASSUME NEW x \in Procs, StoreCurrent(x) PROVE Locks'
  BY <1>0, <1>12 DEF StoreCurrent, locks
<1>13. ASSUME NEW x \in Procs, StartCallback(x) PROVE Locks'
  <2>1. /\ cbInProgress = x
        /\ callback'[x].buf = swap /\ swap # "none"
        /\ \A y \in Procs \ {x} : callback'[y] = callback[y] /\ pc'[y] = pc[y]
        /\ pc[x] = "swap" /\ pc'[x] \in {"again", "flush"}
    BY <1>0, <1>13 DEF StartCallback, At, Buffers
  <2> QED BY <1>0, <1>13, <2>1 DEF StartCallback, stack, locks
<1>14. ASSUME NEW x \in Procs, RecordNext(x) PROVE Locks'
  <2>1. \A y \in Procs : callback'[y].buf = callback[y].buf
    BY <1>0, <1>14 DEF RecordNext
  <2>2. UNCHANGED <<data, swap, swapLock, cbInProgress, pc>>
    BY <1>14 DEF RecordNext, stack, locks
  <2> QED BY <2>1, <2>2
<1>15. ASSUME NEW x \in Procs, FinishCallback(x) PROVE Locks'
  <2>1. /\ cbInProgress = x /\ pc[x] # "swap"
        /\ cbInProgress' = Free
        /\ callback'[x].buf = "none"
        /\ \A y \in Procs \ {x} : callback'[y] = callback[y] /\ pc'[y] = pc[y]
    BY <1>0, <1>15 DEF FinishCallback, NoCallback, At
  <2>2. CASE x \in Pushers
    BY <1>0, <1>15, <2>1, <2>2 DEF FinishCallback, stack
  <2>3. CASE x \notin Pushers
    BY <1>0, <1>15, <2>1, <2>3 DEF FinishCallback, At, stack
  <2> QED BY <2>2, <2>3
<1>16. CASE UNCHANGED vars
  BY <1>16 DEF vars, stack, locks
<1> QED
  BY <1>1, <1>2, <1>3, <1>4, <1>5, <1>6, <1>7, <1>8, <1>9, <1>10,
     <1>11, <1>12, <1>13, <1>14, <1>15, <1>16
  DEF Next, PusherNext, ReporterNext, SwapDataNext, Terminated

\* A running callback always has the retired buffer to itself.
THEOREM RetiredBufferCorrect == Spec => []RetiredBuffer
<1>1. Init => Locks
  BY StackAssumption DEF Init, Locks, Critical, Running, NoCallback, Procs
<1>2. Locks => RetiredBuffer
  BY DEF Locks, RetiredBuffer
<1> QED BY <1>1, <1>2, TypeCorrect, LocksStep, PTL DEF Spec

-----------------------------------------------------------------------------
(* How far the reservations run past the limit *)

Workers == Cardinality(Pushers)
Waiting == Cardinality(Overflowing)

\* The most items a flush on behalf of x asks its callback to read.
MostItems(x) ==
    IF x \in Pushers THEN Limit + Workers - 1
    ELSE IF x \in FinalReporters THEN Limit ELSE Limit + Workers

\* Whoever waits for swapLock, or holds it as a pusher, accounts for one
\* reservation past the limit; a holder about to reserve again has made room
\* for two, its first reservation and the one to come.
Reservations ==
    /\ current <= Limit + Waiting
    /\ \A p \in Pushers :
        /\ pc[p] = "again" \/ (pc[p] = "swap" /\ "current" \notin stores) =>
               current <= Limit - 2 + Waiting
        /\ pc[p] \in {"lock", "check"} => idx[p] <= Limit + Workers
        /\ pc[p] \in {"load", "write"} => idx[p] \in 1 .. Limit + Workers - 1

Flushes ==
    /\ \A x \in Procs :
        /\ pc[x] \in {"cbLock", "swap"} => count[x] <= MostItems(x)
        /\ Running(x) => callback[x].items <= MostItems(x)
    /\ \A r \in FinalReporters :
           pc[r] # "idle" => \A p \in Pushers : pc[p] = "stopped"

Counts == Reservations /\ Flushes

\* The pushers past the limit are finitely many, one at least if p is one.
LEMMA WaitingBounds ==
    /\ Workers \in Nat /\ Waiting \in 0 .. Workers
    /\ \A p \in Overflowing : Waiting >= 1
<1>1. IsFiniteSet(Pushers) /\ Overflowing \subseteq Pushers
  BY StackAssumption DEF Overflowing
<1>2. /\ Cardinality(Pushers) \in Nat /\ IsFiniteSet(Overflowing)
      /\ Cardinality(Overflowing) \in Nat
      /\ Cardinality(Overflowing) <= Cardinality(Pushers)
  BY <1>1, FS_Subset, FS_CardinalityType
<1>3. ASSUME NEW p \in Overflowing PROVE Waiting >= 1
  BY <1>2, FS_EmptySet DEF Waiting
<1> QED BY <1>2, <1>3 DEF Workers, Waiting

\* Reservations is preserved by every action.
LEMMA ReservationsStep ==
    TypeOK /\ Locks /\ Reservations /\ [Next]_vars => Reservations'
<1> SUFFICES ASSUME TypeOK, Locks, Reservations, [Next]_vars
             PROVE  Reservations'
  OBVIOUS
<1>0. /\ pc \in [Procs -> PcValues] /\ idx \in [Pushers -> Nat] /\ current \in Nat
      /\ Pushers \subseteq Procs /\ Reporters \subseteq Procs
      /\ Pushers \cap Reporters = {} /\ Limit \in Nat /\ Limit >= 1
      /\ Workers \in Nat /\ Waiting \in 0 .. Workers
      /\ \A p \in Overflowing : Waiting >= 1
      /\ IsFiniteSet(Overflowing)
  BY StackAssumption, WaitingBounds, FS_Subset DEF TypeOK, Procs, Overflowing
<1>a. ASSUME Overflowing' = Overflowing PROVE Waiting' = Waiting /\ Workers' = Workers
  BY <1>a DEF Waiting, Workers
<1>1. ASSUME NEW p \in Pushers, Reserve(p) PROVE Reservations'
  <2>0. /\ \A q \in Pushers \ {p} : pc'[q] = pc[q] /\ idx'[q] = idx[q]
        /\ current' = current + 1 /\ idx'[p] = current + 1 /\ stores' = stores
        /\ pc[p] = "idle" /\ Workers' = Workers
    BY <1>0, <1>1 DEF Reserve, At, Workers
  <2>1. CASE current + 1 >= Limit
    <3>1. pc'[p] = "lock"
      BY <1>0, <1>1, <2>1 DEF Reserve, At
    <3>2. Overflowing' = Overflowing \cup {p} /\ p \notin Overflowing
      BY <2>0, <3>1 DEF Overflowing
    <3>3. Waiting' = Waiting + 1
      BY <1>0, <3>2, FS_AddElement DEF Waiting
    <3>4. Waiting' <= Workers
      <4>1. (Overflowing \cup {p}) \subseteq Pushers
        BY DEF Overflowing
      <4>2. Cardinality(Overflowing \cup {p}) <= Cardinality(Pushers)
        BY <4>1, FS_Subset, StackAssumption
      <4> QED BY <3>2, <4>2 DEF Waiting, Workers
    <3> QED BY <1>0, <2>0, <3>1, <3>3, <3>4 DEF Reservations
  <2>2. CASE current + 1 < Limit
    <3>1. pc'[p] = "load"
      BY <1>0, <1>1, <2>2 DEF Reserve, At
    <3>2. Overflowing' = Overflowing
      BY <2>0, <3>1 DEF Overflowing
    <3>3. Waiting' = Waiting
      BY <3>2, <1>a
    <3>4. \A q \in Pushers : pc[q] = "again" \/ (pc[q] = "swap" /\ "current" \notin stores)
                                => Waiting >= 1
      BY <1>0 DEF Overflowing
    <3>5. Workers >= 1
      BY StackAssumption, <1>0, FS_EmptySet DEF Workers
    <3> QED BY <1>0, <2>0, <2>2, <3>1, <3>3, <3>4, <3>5 DEF Reservations
  <2> QED BY <1>0, <2>1, <2>2
<1>2. ASSUME NEW p \in Pushers, LockSwap(p) PROVE Reservations'
  <2>1. Overflowing' = Overflowing
    BY <1>0, <1>2 DEF LockSwap, At, Overflowing
  <2> QED BY <1>0, <1>2, <1>a, <2>1 DEF LockSwap, At, stack, Reservations
<1>3. ASSUME NEW p \in Pushers, CheckFull(p) PROVE Reservations'
  <2>1. Overflowing' = Overflowing
    BY <1>0, <1>3 DEF CheckFull, At, Overflowing
  <2>2. /\ \A q \in Pushers \ {p} : pc'[q] = pc[q] /\ idx'[q] = idx[q]
        /\ current' = current /\ stores' = stores
        /\ pc'[p] = IF current >= Limit THEN "cbLock" ELSE "again"
    BY <1>0, <1>3 DEF CheckFull, At, stack
  <2>3. p \in Overflowing
    BY <1>3 DEF CheckFull, At, Overflowing
  <2> QED BY <1>0, <1>a, <2>1, <2>2, <2>3 DEF Reservations
<1>4. ASSUME NEW p \in Pushers, ReserveAgain(p) PROVE Reservations'
  <2>0. /\ \A q \in Pushers \ {p} : pc'[q] = pc[q] /\ idx'[q] = idx[q]
        /\ current' = current + 1 /\ idx'[p] = current + 1 /\ stores' = stores
        /\ pc[p] = "again" /\ pc'[p] = "load" /\ Workers' = Workers
    BY <1>0, <1>4 DEF ReserveAgain, At, Workers
  <2>1. Overflowing' = Overflowing \ {p} /\ p \in Overflowing
    BY <2>0 DEF Overflowing
  <2>2. Waiting' = Waiting - 1
    BY <1>0, <2>1, FS_RemoveElement DEF Waiting
  <2>3. \A q \in Pushers \ {p} : pc[q] \notin {"again", "swap"}
    BY <1>0, <2>0 DEF Locks, Critical
  <2> QED BY <1>0, <2>0, <2>2, <2>3 DEF Reservations
<1>5. ASSUME NEW p \in Pushers, LoadPointer(p) PROVE Reservations'
  <2>1. Overflowing' = Overflowing
    BY <1>0, <1>5 DEF LoadPointer, At, Overflowing
  <2> QED BY <1>0, <1>5, <1>a, <2>1 DEF LoadPointer, At, stack, Reservations
<1>6. ASSUME NEW p \in Pushers, WriteSlot(p) PROVE Reservations'
  <2>1. Overflowing' = Overflowing
    BY <1>0, <1>6 DEF WriteSlot, At, Overflowing
  <2>2. /\ \A q \in Pushers \ {p} : pc'[q] = pc[q] /\ idx'[q] = idx[q]
        /\ current' = current /\ stores' = stores /\ pc'[p] = "idle"
    BY <1>0, <1>6 DEF WriteSlot, At
  <2> QED BY <1>0, <1>a, <2>1, <2>2 DEF Reservations
<1>7. ASSUME NEW p \in Pushers, Stop(p) PROVE Reservations'
  <2>1. Overflowing' = Overflowing
    BY <1>0, <1>7 DEF Stop, At, Overflowing
  <2> QED BY <1>0, <1>7, <1>a, <2>1 DEF Stop, At, stack, Reservations
<1>8. ASSUME NEW r \in Reporters, ReporterNext(r) PROVE Reservations'
  <2>1. /\ \A q \in Pushers : pc'[q] = pc[q]
        /\ UNCHANGED <<current, stores, idx>>
    BY <1>0, <1>8 DEF ReporterNext, BeginSwap, ReadCurrent, At, stack
  <2>2. Overflowing' = Overflowing
    BY <2>1 DEF Overflowing
  <2> QED BY <1>0, <1>a, <2>1, <2>2 DEF Reservations
<1>9. ASSUME NEW x \in Procs, LockCallback(x) PROVE Reservations'
  <2>1. Overflowing' = Overflowing
    BY <1>0, <1>9 DEF LockCallback, At, Overflowing
  <2>2. /\ \A q \in Pushers \ {x} : pc'[q] = pc[q]
        /\ \A q \in Pushers : pc[q] # "swap"
        /\ stores' = {"pointers", "current"} /\ pc'[x] = "swap"
        /\ UNCHANGED <<current, idx>>
    BY <1>0, <1>9, StackAssumption DEF LockCallback, At, stack, Locks
  <2> QED BY <1>0, <1>a, <2>1, <2>2 DEF Reservations
<1>10. ASSUME NEW x \in Procs, StorePointers(x) \/ StoreCurrent(x) PROVE Reservations'
  <2>1. Overflowing' = Overflowing /\ idx' = idx /\ pc' = pc
    BY <1>10 DEF StorePointers, StoreCurrent, Overflowing
  <2>2. CASE StorePointers(x)
    BY <1>0, <1>a, <2>1, <2>2 DEF StorePointers, Reservations
  <2>3. CASE StoreCurrent(x)
    <3>1. \A p \in Pushers : pc[p] \in {"again", "swap"} => Waiting >= 1
      BY <1>0 DEF Overflowing
    <3>2. current' = 0
      BY <2>3 DEF StoreCurrent
    <3> QED BY <1>0, <1>a, <2>1, <3>1, <3>2 DEF Reservations
  <2> QED BY <1>10, <2>2, <2>3
<1>11. ASSUME NEW x \in Procs, StartCallback(x) PROVE Reservations'
  <2>1. /\ \A q \in Pushers \ {x} : pc'[q] = pc[q]
        /\ pc[x] = "swap" /\ stores = {} /\ stores' = stores
        /\ x \in Pushers => pc'[x] = "again"
        /\ UNCHANGED <<current, idx>>
    BY <1>0, <1>11 DEF StartCallback, At, stack
  <2>2. Overflowing' = Overflowing
    BY <2>1 DEF Overflowing
  <2> QED BY <1>0, <1>a, <2>1, <2>2 DEF Reservations
<1>12. ASSUME NEW x \in Procs, RecordNext(x) \/ FinishCallback(x) PROVE Reservations'
  <2>1. /\ \A q \in Pushers : pc'[q] = pc[q]
        /\ UNCHANGED <<current, stores, idx>>
    BY <1>0, <1>12 DEF RecordNext, FinishCallback, At, stack
  <2>2. Overflowing' = Overflowing
    BY <2>1 DEF Overflowing
  <2> QED BY <1>0, <1>a, <2>1, <2>2 DEF Reservations
<1>13. CASE UNCHANGED vars
  <2>1. Overflowing' = Overflowing
    BY <1>13 DEF vars, Overflowing
  <2> QED BY <1>13, <1>a, <2>1 DEF vars, stack, Reservations
<1> QED
  BY <1>1, <1>2, <1>3, <1>4, <1>5, <1>6, <1>7, <1>8, <1>9, <1>10, <1>11,
     <1>12, <1>13
  DEF Next, PusherNext, ReporterNext, SwapDataNext, Terminated

\* Flushes is preserved by every action.
LEMMA FlushesStep ==
    TypeOK /\ Locks /\ Reservations /\ Flushes /\ [Next]_vars => Flushes'
<1> SUFFICES ASSUME TypeOK, Locks, Reservations, Flushes, [Next]_vars
             PROVE  Flushes'
  OBVIOUS
<1>0. /\ pc \in [Procs -> PcValues] /\ count \in [Procs -> Int] /\ current \in Nat
      /\ callback \in [Procs -> [buf : Buffers \cup {"none"}, items : Int, next : Nat]]
      /\ idx \in [Pushers -> Nat]
      /\ Pushers \subseteq Procs /\ Reporters \subseteq Procs
      /\ FinalReporters \subseteq Reporters
      /\ Pushers \cap Reporters = {} /\ Limit \in Nat /\ Limit >= 1
      /\ Workers \in Nat /\ Waiting \in 0 .. Workers
  BY StackAssumption, WaitingBounds DEF TypeOK, Procs
<1>a. Workers' = Workers /\ \A x : MostItems(x)' = MostItems(x)
  BY DEF Workers, MostItems
<1> USE DEF Running
<1>1. ASSUME NEW p \in Pushers, PusherNext(p) PROVE Flushes'
  <2>1. /\ callback' = callback
        /\ \A x \in Procs \ {p} : pc'[x] = pc[x] /\ count'[x] = count[x]
        /\ pc[p] # "stopped"
    BY <1>0, <1>1 DEF PusherNext, Reserve, LockSwap, CheckFull, ReserveAgain,
       LoadPointer, WriteSlot, Stop, At
  <2>2. pc'[p] \in {"cbLock", "swap"} => count'[p] <= MostItems(p)
    <3>1. CASE CheckFull(p)
      BY <1>0, <3>1 DEF CheckFull, At, Reservations, MostItems
    <3>2. CASE ~CheckFull(p)
      BY <1>0, <1>1, <3>2 DEF PusherNext, Reserve, LockSwap, ReserveAgain,
         LoadPointer, WriteSlot, Stop, At
    <3> QED BY <3>1, <3>2
  <2>3. \A r \in FinalReporters : pc[r] = "idle" /\ pc'[r] = "idle"
    BY <1>0, <2>1 DEF Flushes
  <2> QED BY <1>0, <1>a, <2>1, <2>2, <2>3 DEF Flushes
<1>2. ASSUME NEW r \in Reporters, BeginSwap(r) PROVE Flushes'
  <2>1. /\ callback' = callback /\ count' = count
        /\ \A x \in Procs \ {r} : pc'[x] = pc[x]
        /\ pc'[r] = "read"
        /\ r \in FinalReporters => \A p \in Pushers : pc[p] = "stopped"
    BY <1>0, <1>2 DEF BeginSwap, At
  <2> QED BY <1>0, <1>a, <2>1 DEF Flushes
<1>3. ASSUME NEW r \in Reporters, ReadCurrent(r) PROVE Flushes'
  <2>1. /\ callback' = callback /\ count'[r] = current
        /\ \A x \in Procs \ {r} : pc'[x] = pc[x] /\ count'[x] = count[x]
        /\ pc[r] = "read"
    BY <1>0, <1>3 DEF ReadCurrent, At
  <2>2. current <= MostItems(r)
    <3>1. CASE r \in FinalReporters
      <4>1. Overflowing = {}
        BY <1>0, <2>1, <3>1 DEF Flushes, Overflowing
      <4>2. Waiting = 0
        BY <4>1, FS_EmptySet DEF Waiting
      <4> QED BY <1>0, <3>1, <4>2 DEF Reservations, MostItems
    <3>2. CASE r \notin FinalReporters
      BY <1>0, <3>2 DEF Reservations, MostItems
    <3> QED BY <3>1, <3>2
  <2> QED BY <1>0, <1>a, <2>1, <2>2 DEF Flushes
<1>4. ASSUME NEW x \in Procs, LockCallback(x) PROVE Flushes'
  <2>1. /\ callback' = callback /\ count' = count
        /\ \A y \in Procs \ {x} : pc'[y] = pc[y]
        /\ pc[x] = "cbLock"
    BY <1>0, <1>4 DEF LockCallback, At
  <2> QED BY <1>0, <1>a, <2>1 DEF Flushes
<1>5. ASSUME NEW x \in Procs, StorePointers(x) \/ StoreCurrent(x) PROVE Flushes'
  BY <1>0, <1>a, <1>5 DEF StorePointers, StoreCurrent, Flushes
<1>6. ASSUME NEW x \in Procs, StartCallback(x) PROVE Flushes'
  <2>1. /\ \A y \in Procs \ {x} : /\ pc'[y] = pc[y] /\ callback'[y] = callback[y]
                                  /\ count'[y] = count[y]
        /\ pc[x] = "swap" /\ pc'[x] \in {"again", "flush"}
        /\ callback'[x].items = count[x]
    BY <1>0, <1>6 DEF StartCallback, At
  <2> QED BY <1>0, <1>a, <2>1 DEF Flushes
<1>7. ASSUME NEW x \in Procs, RecordNext(x) PROVE Flushes'
  <2>1. /\ \A y \in Procs : /\ callback'[y].items = callback[y].items
                            /\ callback'[y].buf = callback[y].buf
        /\ pc' = pc /\ count' = count
    BY <1>0, <1>7 DEF RecordNext
  <2> QED BY <1>0, <1>a, <2>1 DEF Flushes
<1>8. ASSUME NEW x \in Procs, FinishCallback(x) PROVE Flushes'
  <2>1. /\ \A y \in Procs \ {x} : pc'[y] = pc[y] /\ callback'[y] = callback[y]
        /\ count' = count /\ callback'[x].buf = "none"
        /\ pc'[x] = IF x \in Pushers THEN pc[x] ELSE "idle"
        /\ \A p \in Pushers : pc'[p] = pc[p]
    BY <1>0, <1>8 DEF FinishCallback, At, NoCallback
  <2> QED BY <1>0, <1>a, <2>1 DEF Flushes
<1>9. CASE UNCHANGED vars
  BY <1>9, <1>a DEF vars, Flushes
<1> QED
  BY <1>1, <1>2, <1>3, <1>4, <1>5, <1>6, <1>7, <1>8, <1>9
  DEF Next, ReporterNext, SwapDataNext, Terminated

\* Counts is an invariant.
LEMMA CountsCorrect == Spec => []Counts
<1>1. Init => Locks
  BY StackAssumption DEF Init, Locks, Critical, Running, NoCallback, Procs
<1>2. Init => Counts
  BY StackAssumption, WaitingBounds
  DEF Init, Counts, Reservations, Flushes, Running, NoCallback, Procs
<1>3. TypeOK /\ Locks /\ Counts /\ [Next]_vars => Counts'
  BY ReservationsStep, FlushesStep DEF Counts
<1> QED BY <1>1, <1>2, <1>3, TypeCorrect, LocksStep, PTL DEF Spec

\* The reservations never run past the limit by more than the workers there are.
THEOREM OvershootCorrect == Spec => []Overshoot
<1>1. TypeOK /\ Counts => Overshoot
  <2> SUFFICES ASSUME TypeOK, Counts PROVE Overshoot
    OBVIOUS
  <2>1. current \in Nat /\ Limit \in Nat
    BY StackAssumption DEF TypeOK
  <2> QED BY <2>1, WaitingBounds DEF Counts, Reservations, Overshoot, Waiting, Workers
<1> QED BY <1>1, TypeCorrect, CountsCorrect, PTL

\* One worker, or two that nobody but themselves and the final swap flush, never
\* index a buffer out of range: the one spare slot of stack.New is enough.
THEOREM NoPanicWhenSafeCorrect == Spec => []NoPanicWhenSafe
<1>1. Init => NoPanicWhenSafe
  BY DEF Init, NoPanicWhenSafe
<1>2. TypeOK /\ Counts /\ NoPanicWhenSafe /\ [Next]_vars => NoPanicWhenSafe'
  <2> SUFFICES ASSUME TypeOK, Counts, ~panicked, [Next]_vars, SafeConcurrency
               PROVE  ~panicked'
    BY DEF NoPanicWhenSafe, SafeConcurrency
  <2>0. /\ Workers \in Nat /\ Limit \in Nat /\ Slots = 0 .. Limit
        /\ Workers <= 2 /\ (Workers <= 1 \/ Reporters = FinalReporters)
        /\ pc \in [Procs -> PcValues] /\ idx \in [Pushers -> Nat]
        /\ callback \in [Procs -> [buf : Buffers \cup {"none"}, items : Int, next : Nat]]
        /\ Procs = Pushers \cup Reporters
    BY StackAssumption, WaitingBounds
    DEF TypeOK, SafeConcurrency, Workers, Slots, Procs
  <2>1. ASSUME NEW p \in Pushers, WriteSlot(p) PROVE ~panicked'
    <3>1. idx[p] \in 1 .. Limit + Workers - 1
      BY <2>1 DEF WriteSlot, At, Counts, Reservations
    <3>2. idx[p] - 1 \in Slots
      BY <2>0, <3>1
    <3> QED BY <2>1, <3>2 DEF WriteSlot
  <2>2. ASSUME NEW x \in Procs, RecordNext(x) PROVE ~panicked'
    <3>1. callback[x].next < callback[x].items /\ callback[x].items <= MostItems(x)
      BY <2>2 DEF RecordNext, Counts, Flushes
    <3>2. MostItems(x) <= Limit + 1 /\ MostItems(x) \in Int
      BY <2>0 DEF MostItems
    <3>3. callback[x].next \in Slots
      BY <2>0, <3>1, <3>2
    <3> QED BY <2>2, <3>3 DEF RecordNext
  <2>3. CASE UNCHANGED vars
    BY <2>3 DEF vars
  <2>4. ASSUME NEW p \in Pushers, PusherNext(p), ~WriteSlot(p) PROVE ~panicked'
    BY <2>4 DEF PusherNext, Reserve, LockSwap, CheckFull, ReserveAgain,
       LoadPointer, Stop
  <2>5. ASSUME NEW r \in Reporters, ReporterNext(r) PROVE ~panicked'
    BY <2>5 DEF ReporterNext, BeginSwap, ReadCurrent
  <2>6. ASSUME NEW x \in Procs, SwapDataNext(x), ~RecordNext(x) PROVE ~panicked'
    BY <2>6 DEF SwapDataNext, LockCallback, StorePointers, StoreCurrent,
       StartCallback, FinishCallback
  <2> QED BY <2>1, <2>2, <2>3, <2>4, <2>5, <2>6 DEF Next, Terminated
<1> QED BY <1>1, <1>2, TypeCorrect, CountsCorrect, PTL DEF Spec
-----------------------------------------------------------------------------
(* One worker *)

\* The samples of worker w that have been written, and are not only begun.
Written(w) == IF pc[w] \in {"idle", "stopped"} THEN pushed[w] ELSE pushed[w] - 1

\* The buffer that was filled last: between the stores of line 50 it may be either.
Swapped == \E x \in Procs : pc[x] = "swap" /\ "pointers" \notin stores
Filling == IF Swapped THEN swap ELSE data

\* Slots of a buffer hold samples of w in the order of their numbers, from last + 1 on.
InOrder(w, buf, first, n, last) ==
    \A i \in 0 .. n - 1 : cells[buf][first + i] = <<w, last + 1 + i>>

\* The first r samples of w have been recorded, once, and nothing else has.
RecordedUpTo(w, r) ==
    /\ histogram[Zero] = 0
    /\ \A k \in 1 .. MaxPush : histogram[<<w, k>>] = IF k <= r THEN 1 ELSE 0

\* The next m are what a callback has still to record.
FlushingOf(w, r, m) ==
    /\ \A x \in Procs : Running(x) =>
          callback[x].items = callback[x].next + m /\ InOrder(w, swap, callback[x].next, m, r)
    /\ (\A x \in Procs : ~Running(x)) => m = 0

\* Another n are in the slots before the reserved one.
FilledBy(w, last, n) ==
    /\ InOrder(w, Filling, 0, n, last)
    /\ pc[w] \in {"lock", "check", "load", "write"} => idx[w] = n + 1 /\ current = n + 1
    /\ pc[w] \in {"lock", "check"} => idx[w] >= Limit
    /\ pc[w] = "write" => dst[w] = data
    /\ pc[w] = "again" => current = 0 /\ n = 0
    /\ \A x \in Procs : /\ pc[x] \in {"cbLock", "swap"} => count[x] = n
                        /\ pc[x] = "swap" /\ "current" \notin stores => current = 0
    /\ pc[w] \in {"idle", "stopped"} /\ (\A x \in Procs : pc[x] \notin {"cbLock", "swap"})
          => current = n

HandedBy(w, r, m, n) ==
    /\ r + m + n = Written(w)
    /\ RecordedUpTo(w, r) /\ FlushingOf(w, r, m) /\ FilledBy(w, r + m, n)

\* Each sample that has been written is recorded, with the callback or in the buffer.
Handed ==
    \A w \in Pushers : \E r, m, n \in Nat : HandedBy(w, r, m, n)

\* Once a swap has begun nobody pushes, and when it has read the buffer nothing is left.
Emptied ==
    \A r \in Reporters : swapped[r] >= 1 =>
        /\ \A p \in Pushers : pc[p] = "stopped"
        /\ pc[r] \in {"idle", "flush"} => current = 0

\* What the other invariants say of one worker w: a reporter swaps when it has stopped.
Alone(w) ==
    /\ Pushers = {w} /\ Procs = {w} \cup Reporters /\ w \notin Reporters
    /\ \A q \in Reporters : pc[q] # "idle" => pc[w] = "stopped"
    /\ Limit \in Nat /\ Limit >= 1 /\ MaxPush \in Nat
    /\ pc \in [Procs -> PcValues] /\ idx \in [Pushers -> Nat] /\ current \in Nat
    /\ dst \in [Pushers -> Buffers] /\ count \in [Procs -> Int]
    /\ pushed \in [Pushers -> 0 .. MaxPush]
    /\ callback \in [Procs -> [buf : Buffers \cup {"none"}, items : Int, next : Nat]]
    /\ data \in Buffers /\ swap \in Buffers
    /\ cells \in [Buffers -> [Slots -> Samples \cup {Zero}]] /\ Slots = 0 .. Limit
    /\ \A x \in Procs : x = w \/ x \in Reporters

LEMMA OnlyWorker == OneWorker => \E w : Pushers = {w}
<1> SUFFICES ASSUME OneWorker PROVE \E w : Pushers = {w}
  OBVIOUS
<1>1. IsFiniteSet(Pushers) /\ Cardinality(Pushers) = 1
  BY StackAssumption DEF OneWorker
<1> QED BY <1>1, FS_Singleton

LEMMA AloneHolds ==
    ASSUME OneWorker, TypeOK, Counts, NEW w, Pushers = {w} PROVE Alone(w)
<1>1. FinalReporters = Reporters
  BY DEF OneWorker
<1>2. \A q \in Reporters : pc[q] # "idle" => pc[w] = "stopped"
  BY <1>1 DEF Counts, Flushes
<1> QED BY <1>2, StackAssumption DEF Alone, TypeOK, Procs, Slots

\* At the beginning nothing has been written.
LEMMA InitHanded == Init => Handed /\ Emptied
<1> SUFFICES ASSUME Init PROVE Handed /\ Emptied
  OBVIOUS
<1>1. ASSUME NEW w \in Pushers PROVE HandedBy(w, 0, 0, 0)
  <2>1. Written(w) = 0
    BY DEF Init, Written, Procs
  <2>2. RecordedUpTo(w, 0)
    BY DEF Init, RecordedUpTo, Samples
  <2>3. FlushingOf(w, 0, 0)
    BY DEF Init, FlushingOf, Running, NoCallback
  <2>4. FilledBy(w, 0 + 0, 0)
    BY DEF Init, FilledBy, InOrder, Procs
  <2> QED BY <2>1, <2>2, <2>3, <2>4 DEF HandedBy
<1>2. Handed
  BY <1>1 DEF Handed
<1> QED BY <1>2 DEF Init, Emptied

\* A new content of the buffers changes nothing of w's but one slot.
LEMMA SameOrder ==
    ASSUME NEW w, NEW buf, NEW first, NEW n \in Nat, NEW last,
           InOrder(w, buf, first, n, last), cells' = cells
    PROVE  InOrder(w, buf, first, n, last)'
BY DEF InOrder

\* A callback goes on unless its own step or StartCallback changes it.
LEMMA FlushingKept ==
    ASSUME NEW w, NEW r \in Nat, NEW m \in Nat, FlushingOf(w, r, m),
           callback' = callback, cells' = cells, swap' = swap
    PROVE  FlushingOf(w, r, m)'
BY DEF FlushingOf, InOrder, Running

\* The steps of a push: a sample is reserved, and written into the slot after the others.
LEMMA PushHanded ==
    ASSUME NEW w, Alone(w), Locks, NEW r \in Nat, NEW m \in Nat, NEW n \in Nat,
           HandedBy(w, r, m, n), PusherNext(w), ~panicked'
    PROVE  \E k \in Nat : HandedBy(w, r, m, k)'
<1>0. /\ Pushers = {w} /\ w \in Procs /\ w \in Pushers /\ pc[w] # "stopped"
      /\ \A x \in Procs : x # w => pc[x] = "idle"
      /\ Limit \in Nat /\ Limit >= 1
      /\ pc \in [Procs -> PcValues] /\ idx \in [Pushers -> Nat] /\ current \in Nat
      /\ count \in [Procs -> Int] /\ dst \in [Pushers -> Buffers]
      /\ pushed \in [Pushers -> 0 .. MaxPush]
  BY DEF Alone, PusherNext, Reserve, LockSwap, CheckFull, ReserveAgain, LoadPointer,
         WriteSlot, Stop, At
<1>1. /\ r + m + n = Written(w) /\ RecordedUpTo(w, r) /\ FlushingOf(w, r, m)
      /\ FilledBy(w, r + m, n) /\ InOrder(w, Filling, 0, n, r + m)
  BY DEF HandedBy, FilledBy
<1>2. /\ histogram' = histogram /\ callback' = callback /\ swap' = swap /\ data' = data
      /\ \A x \in Procs : x # w => pc'[x] = "idle"
  BY <1>0 DEF PusherNext, Reserve, LockSwap, CheckFull, ReserveAgain, LoadPointer,
         WriteSlot, Stop, At, stack
<1>3. RecordedUpTo(w, r)'
  BY <1>1, <1>2 DEF RecordedUpTo
<1>4. pc[w] # "swap" /\ pc'[w] # "swap"
  BY <1>0 DEF PusherNext, Reserve, LockSwap, CheckFull, ReserveAgain, LoadPointer,
         WriteSlot, Stop, At
<1>5. Filling = data /\ Filling' = data
  BY <1>0, <1>2, <1>4 DEF Filling, Swapped
<1>6. CASE ~WriteSlot(w)
  <2>1. cells' = cells
    BY <1>6 DEF PusherNext, Reserve, LockSwap, CheckFull, ReserveAgain, LoadPointer, Stop, stack
  <2>2. FlushingOf(w, r, m)' /\ InOrder(w, Filling, 0, n, r + m)'
    BY <1>1, <1>2, <1>5, <2>1, FlushingKept DEF InOrder
  <2>3. ASSUME Written(w)' = Written(w), FilledBy(w, r + m, n)' PROVE HandedBy(w, r, m, n)'
    BY <1>1, <1>3, <2>2, <2>3 DEF HandedBy
  <2>4. CASE Reserve(w)
    <3>1. pc[w] = "idle" /\ \A x \in Procs : pc[x] \notin {"cbLock", "swap"}
      BY <1>0, <2>4 DEF Reserve, At
    <3>2. current = n
      BY <1>1, <3>1 DEF FilledBy
    <3>3. /\ pc'[w] = (IF current + 1 >= Limit THEN "lock" ELSE "load")
          /\ current' = n + 1 /\ idx'[w] = n + 1 /\ pushed'[w] = pushed[w] + 1
      BY <1>0, <2>4, <3>2 DEF Reserve, At
    <3>4. Written(w)' = Written(w)
      BY <1>0, <3>1, <3>3 DEF Written
    <3>5. FilledBy(w, r + m, n)'
      BY <1>0, <1>2, <2>2, <3>2, <3>3 DEF FilledBy
    <3> QED BY <2>3, <3>4, <3>5
  <2>5. CASE LockSwap(w)
    <3>1. /\ pc[w] = "lock" /\ pc'[w] = "check" /\ idx' = idx /\ current' = current
          /\ pushed' = pushed
      BY <1>0, <2>5 DEF LockSwap, At, stack
    <3>2. Written(w)' = Written(w) /\ FilledBy(w, r + m, n)'
      BY <1>0, <1>1, <1>2, <2>2, <3>1 DEF Written, FilledBy
    <3> QED BY <2>3, <3>2
  <2>6. CASE CheckFull(w)
    <3>1. pc[w] = "check" /\ idx[w] = n + 1 /\ current = n + 1 /\ current >= Limit
      BY <1>1, <2>6 DEF CheckFull, At, FilledBy
    <3>2. pc'[w] = "cbLock" /\ count'[w] = n /\ pushed' = pushed
      BY <1>0, <2>6, <3>1 DEF CheckFull, At
    <3>3. Written(w)' = Written(w) /\ FilledBy(w, r + m, n)'
      BY <1>0, <1>2, <2>2, <3>1, <3>2 DEF Written, FilledBy
    <3> QED BY <2>3, <3>3
  <2>7. CASE ReserveAgain(w)
    <3>1. pc[w] = "again" /\ current = 0 /\ n = 0
      BY <1>1, <2>7 DEF ReserveAgain, At, FilledBy
    <3>2. pc'[w] = "load" /\ current' = 1 /\ idx'[w] = 1 /\ pushed' = pushed
      BY <1>0, <2>7, <3>1 DEF ReserveAgain, At
    <3>3. Written(w)' = Written(w) /\ FilledBy(w, r + m, n)'
      BY <1>0, <1>2, <2>2, <3>1, <3>2 DEF Written, FilledBy
    <3> QED BY <2>3, <3>3
  <2>8. CASE LoadPointer(w)
    <3>1. /\ pc[w] = "load" /\ pc'[w] = "write" /\ idx' = idx /\ current' = current
          /\ pushed' = pushed /\ dst'[w] = data
      BY <1>0, <2>8 DEF LoadPointer, At, stack
    <3>2. Written(w)' = Written(w) /\ FilledBy(w, r + m, n)'
      BY <1>0, <1>1, <1>2, <2>2, <3>1 DEF Written, FilledBy
    <3> QED BY <2>3, <3>2
  <2>9. CASE Stop(w)
    <3>1. /\ pc[w] = "idle" /\ pc'[w] = "stopped" /\ current' = current /\ pushed' = pushed
      BY <1>0, <2>9 DEF Stop, At, stack
    <3>2. Written(w)' = Written(w) /\ FilledBy(w, r + m, n)'
      BY <1>0, <1>1, <1>2, <2>2, <3>1 DEF Written, FilledBy
    <3> QED BY <2>3, <3>2
  <2> QED BY <1>6, <2>4, <2>5, <2>6, <2>7, <2>8, <2>9 DEF PusherNext
<1>7. CASE WriteSlot(w)
  <2>1. idx[w] = n + 1 /\ dst[w] = data /\ pc[w] = "write" /\ current = n + 1
    BY <1>0, <1>1, <1>7 DEF WriteSlot, At, FilledBy
  <2>2. /\ pc'[w] = "idle" /\ pushed' = pushed /\ current' = n + 1 /\ n \in Slots
        /\ cells' = [cells EXCEPT ![data] = [cells[data] EXCEPT ![n] = <<w, pushed[w]>>]]
    BY <1>0, <1>7, <2>1, (n + 1) - 1 = n DEF WriteSlot, At
  <2>3. data # swap /\ data \in Buffers /\ cells[data] \in [Slots -> Samples \cup {Zero}]
    BY DEF Locks, Alone
  <2>4. /\ cells'[swap] = cells[swap]
        /\ cells'[data][n] = <<w, pushed[w]>>
        /\ \A i \in 0 .. n - 1 : cells'[data][i] = cells[data][i]
    BY <2>2, <2>3 DEF Alone
  <2>5. FlushingOf(w, r, m)'
    BY <1>1, <1>2, <2>4 DEF FlushingOf, InOrder, Running
  <2>6. Written(w)' = r + m + (n + 1) /\ pushed[w] = r + m + 1 + n
    BY <1>0, <1>1, <2>1, <2>2 DEF Written
  <2>7. InOrder(w, Filling, 0, n + 1, r + m)'
    <3>1. ASSUME NEW i \in 0 .. n PROVE cells'[data][0 + i] = <<w, r + m + 1 + i>>
      <4>1. CASE i = n
        BY <2>4, <2>6, <4>1
      <4>2. CASE i # n
        BY <1>1, <1>5, <2>4, <4>2 DEF InOrder
      <4> QED BY <4>1, <4>2
    <3> QED BY <1>5, <3>1 DEF InOrder
  <2>8. FilledBy(w, r + m, n + 1)'
    BY <1>0, <1>2, <2>2, <2>7 DEF FilledBy
  <2>9. HandedBy(w, r, m, n + 1)'
    BY <1>3, <2>5, <2>6, <2>8 DEF HandedBy
  <2> QED BY <2>9
<1>8. WriteSlot(w) \/ ~WriteSlot(w)
  OBVIOUS
<1> QED BY <1>6, <1>7, <1>8
\* A Swap that has the lock reads how many samples are in the buffer.
LEMMA ReadHanded ==
    ASSUME NEW w, Alone(w), Locks, NEW r \in Nat, NEW m \in Nat, NEW n \in Nat,
           HandedBy(w, r, m, n), NEW q \in Reporters, ReporterNext(q)
    PROVE  HandedBy(w, r, m, n)'
<1>0. /\ Procs = {w} \cup Reporters /\ w \notin Reporters /\ w \in Procs /\ q \in Procs
      /\ \A x \in Reporters : pc[x] # "idle" => pc[w] = "stopped"
      /\ pc \in [Procs -> PcValues] /\ count \in [Procs -> Int]
  BY DEF Alone
<1>1. /\ r + m + n = Written(w) /\ RecordedUpTo(w, r) /\ FlushingOf(w, r, m)
      /\ FilledBy(w, r + m, n) /\ InOrder(w, Filling, 0, n, r + m)
  BY DEF HandedBy, FilledBy
<1>2. /\ UNCHANGED <<data, swap, cells, current, idx, dst, stores, callback, histogram, pushed>>
      /\ \A x \in Procs \ {q} : pc'[x] = pc[x] /\ count'[x] = count[x]
      /\ pc'[w] = pc[w]
  BY <1>0 DEF ReporterNext, BeginSwap, ReadCurrent, At, stack
<1>3. RecordedUpTo(w, r)' /\ FlushingOf(w, r, m)' /\ Written(w)' = Written(w)
  BY <1>1, <1>2, FlushingKept DEF RecordedUpTo, Written
<1>4. pc[q] # "swap" /\ pc'[q] # "swap"
  BY <1>0 DEF ReporterNext, BeginSwap, ReadCurrent, At
<1>5. Filling' = Filling
  BY <1>0, <1>2, <1>4 DEF Filling, Swapped
<1>6. InOrder(w, Filling, 0, n, r + m)'
  BY <1>1, <1>2, <1>5 DEF InOrder
<1>7. CASE BeginSwap(q)
  <2>1. pc[q] = "idle" /\ pc'[q] = "read"
    BY <1>0, <1>7 DEF BeginSwap, At
  <2>2. FilledBy(w, r + m, n)'
    BY <1>0, <1>1, <1>2, <1>6, <2>1 DEF FilledBy
  <2> QED BY <1>1, <1>3, <2>2 DEF HandedBy
<1>8. CASE ReadCurrent(q)
  <2>1. pc[q] = "read" /\ pc'[q] = "cbLock" /\ count'[q] = current
    BY <1>0, <1>8 DEF ReadCurrent, At
  <2>2. pc[w] = "stopped" /\ \A x \in Procs : pc[x] \notin {"cbLock", "swap"}
    BY <1>0, <2>1 DEF Locks, Critical
  <2>3. current = n
    BY <1>1, <2>2 DEF FilledBy
  <2>4. FilledBy(w, r + m, n)'
    BY <1>0, <1>1, <1>2, <1>6, <2>1, <2>2, <2>3 DEF FilledBy
  <2> QED BY <1>1, <1>3, <2>4 DEF HandedBy
<1> QED BY <1>7, <1>8 DEF ReporterNext

\* The exchange of the buffers, up to the start of the callback.
LEMMA SwapHanded ==
    ASSUME NEW w, Alone(w), Locks, NEW r \in Nat, NEW m \in Nat, NEW n \in Nat,
           HandedBy(w, r, m, n), NEW x \in Procs,
           LockCallback(x) \/ StorePointers(x) \/ StoreCurrent(x)
    PROVE  HandedBy(w, r, m, n)'
<1>0. /\ Procs = {w} \cup Reporters /\ w \notin Reporters /\ w \in Procs
      /\ \A q \in Reporters : pc[q] # "idle" => pc[w] = "stopped"
      /\ pc \in [Procs -> PcValues] /\ count \in [Procs -> Int]
      /\ pc[x] \in {"cbLock", "swap"}
  BY DEF Alone, LockCallback, StorePointers, StoreCurrent, At
<1>1. /\ r + m + n = Written(w) /\ RecordedUpTo(w, r) /\ FlushingOf(w, r, m)
      /\ FilledBy(w, r + m, n) /\ InOrder(w, Filling, 0, n, r + m) /\ count[x] = n
  BY <1>0 DEF HandedBy, FilledBy
<1>2. /\ UNCHANGED <<cells, idx, dst, count, callback, histogram, pushed>>
      /\ \A y \in Procs \ {x} : pc'[y] = pc[y] /\ pc[y] \notin {"cbLock", "swap"}
      /\ pc'[x] = "swap"
      /\ pc[w] \in {"cbLock", "swap", "stopped"} /\ pc'[w] \in {"swap", "stopped"}
      /\ pc[w] = "stopped" <=> pc'[w] = "stopped"
  BY <1>0 DEF LockCallback, StorePointers, StoreCurrent, At, stack, Locks, Critical
<1>3. RecordedUpTo(w, r)' /\ Written(w)' = Written(w)
  BY <1>1, <1>2 DEF RecordedUpTo, Written
<1>4. FlushingOf(w, r, m)'
  <2>1. CASE swap' = swap
    BY <1>1, <1>2, <2>1, FlushingKept
  <2>2. CASE swap' # swap
    <3>1. StorePointers(x)
      BY <2>2 DEF LockCallback, StoreCurrent, stack
    <3>2. \A y \in Procs : ~Running(y)
      BY <3>1 DEF StorePointers, Locks
    <3> QED BY <1>1, <1>2, <3>2 DEF FlushingOf, Running
  <2> QED BY <2>1, <2>2
<1>5. Filling' = Filling
  <2>1. CASE LockCallback(x)
    BY <1>0, <1>2, <2>1 DEF LockCallback, At, stack, Filling, Swapped
  <2>2. CASE StorePointers(x)
    BY <1>0, <1>2, <2>2 DEF StorePointers, Filling, Swapped
  <2>3. CASE StoreCurrent(x)
    BY <1>0, <1>2, <2>3 DEF StoreCurrent, Filling, Swapped
  <2> QED BY <2>1, <2>2, <2>3
<1>6. InOrder(w, Filling, 0, n, r + m)'
  BY <1>1, <1>2, <1>5 DEF InOrder
<1>7. "current" \notin stores' => current' = 0
  <2>1. CASE LockCallback(x)
    BY <2>1 DEF LockCallback
  <2>2. CASE StorePointers(x)
    BY <1>1, <2>2 DEF StorePointers, FilledBy
  <2>3. CASE StoreCurrent(x)
    BY <2>3 DEF StoreCurrent
  <2> QED BY <2>1, <2>2, <2>3
<1>8. FilledBy(w, r + m, n)'
  BY <1>0, <1>1, <1>2, <1>6, <1>7 DEF FilledBy
<1> QED BY <1>1, <1>3, <1>4, <1>8 DEF HandedBy

\* The callback takes over what was in the buffer; the other buffer is empty.
LEMMA StartHanded ==
    ASSUME NEW w, Alone(w), Locks, NEW r \in Nat, NEW m \in Nat, NEW n \in Nat,
           HandedBy(w, r, m, n), NEW x \in Procs, StartCallback(x)
    PROVE  HandedBy(w, r, n, 0)' /\ current' = 0
<1>0. /\ Procs = {w} \cup Reporters /\ w \notin Reporters /\ w \in Procs /\ Pushers = {w}
      /\ \A q \in Reporters : pc[q] # "idle" => pc[w] = "stopped"
      /\ pc \in [Procs -> PcValues] /\ count \in [Procs -> Int] /\ swap \in Buffers
      /\ callback \in [Procs -> [buf : Buffers \cup {"none"}, items : Int, next : Nat]]
      /\ pc[x] = "swap" /\ stores = {}
  BY DEF Alone, StartCallback, At
<1>1. /\ r + m + n = Written(w) /\ RecordedUpTo(w, r) /\ FlushingOf(w, r, m)
      /\ FilledBy(w, r + m, n) /\ InOrder(w, Filling, 0, n, r + m)
      /\ count[x] = n /\ current = 0
  BY <1>0 DEF HandedBy, FilledBy
<1>2. /\ UNCHANGED <<swap, cells, current, idx, dst, stores, histogram, pushed>>
      /\ \A y \in Procs \ {x} : /\ pc'[y] = pc[y] /\ pc[y] \notin {"cbLock", "swap"}
                                /\ callback'[y] = callback[y]
      /\ callback'[x] = [buf |-> swap, items |-> n, next |-> 0]
      /\ pc'[x] \in {"again", "flush"} /\ (x = w => pc'[w] = "again")
      /\ pc[w] \in {"swap", "stopped"} /\ pc'[w] \in {"again", "stopped"}
      /\ pc[w] = "stopped" <=> pc'[w] = "stopped"
  BY <1>0, <1>1 DEF StartCallback, At, stack, Locks, Critical
<1>3. RecordedUpTo(w, r)' /\ Written(w)' = Written(w)
  BY <1>1, <1>2 DEF RecordedUpTo, Written
<1>4. (\A y \in Procs : ~Running(y)) /\ m = 0
  BY <1>0, <1>1 DEF Locks, FlushingOf
<1>5. Filling = swap /\ InOrder(w, swap, 0, n, r)
  BY <1>0, <1>1, <1>4 DEF Filling, Swapped
<1>6. FlushingOf(w, r, n)'
  <2>1. Running(x)' /\ \A y \in Procs \ {x} : ~Running(y)'
    BY <1>0, <1>2, <1>4 DEF Running, Buffers
  <2>2. InOrder(w, swap, 0, n, r)'
    BY <1>2, <1>5 DEF InOrder
  <2>3. callback'[x].items = callback'[x].next + n /\ callback'[x].next = 0
    BY <1>2
  <2> QED BY <2>1, <2>2, <2>3 DEF FlushingOf
<1>7. FilledBy(w, r + n, 0)'
  BY <1>0, <1>1, <1>2 DEF FilledBy, InOrder
<1> QED BY <1>1, <1>2, <1>3, <1>4, <1>6, <1>7 DEF HandedBy

\* The callback records the sample it is at, the first that is not yet recorded.
LEMMA RecordHanded ==
    ASSUME NEW w, Alone(w), Locks, histogram \in [Samples \cup {Zero} -> Nat],
           Begun,
           NEW r \in Nat, NEW m \in Nat, NEW n \in Nat,
           HandedBy(w, r, m, n), NEW x \in Procs, RecordNext(x), ~panicked'
    PROVE  /\ m >= 1 /\ r + 1 \in 1 .. MaxPush /\ r + 1 <= pushed[w]
           /\ histogram[<<w, r + 1>>] = 0
           /\ histogram' = [histogram EXCEPT ![<<w, r + 1>>] = 1]
           /\ HandedBy(w, r + 1, m - 1, n)'
<1>0. /\ Pushers = {w} /\ w \in Procs /\ Limit \in Nat /\ MaxPush \in Nat
      /\ pushed \in [Pushers -> 0 .. MaxPush] /\ swap \in Buffers
      /\ cells \in [Buffers -> [Slots -> Samples \cup {Zero}]] /\ Slots = 0 .. Limit
      /\ callback \in [Procs -> [buf : Buffers \cup {"none"}, items : Int, next : Nat]]
      /\ Zero \notin Samples
  BY StackAssumption DEF Alone
<1>1. /\ r + m + n = Written(w) /\ RecordedUpTo(w, r) /\ FlushingOf(w, r, m)
      /\ FilledBy(w, r + m, n)
  BY DEF HandedBy
<1> DEFINE k == callback[x].next
<1>2. /\ Running(x) /\ k \in Slots /\ k < callback[x].items /\ callback[x].buf = swap
      /\ callback[x].items = k + m /\ InOrder(w, swap, k, m, r) /\ k \in Nat
      /\ histogram' = [histogram EXCEPT ![cells[callback[x].buf][k]] = histogram[cells[callback[x].buf][k]] + 1]
      /\ callback' = [callback EXCEPT ![x].next = k + 1]
  BY <1>0, <1>1 DEF RecordNext, FlushingOf, Locks
<1>3. m >= 1 /\ cells[swap][k] = <<w, r + 1>>
  <2>1. m >= 1
    BY <1>2
  <2>2. cells[swap][k + 0] = <<w, r + 1 + 0>>
    <3>1. InOrder(w, swap, k, m, r) /\ 0 \in 0 .. m - 1
      BY <1>2, <2>1
    <3> QED BY <3>1, Zenon DEF InOrder
  <2>3. k + 0 = k /\ r + 1 + 0 = r + 1
    BY <1>2
  <2> QED BY <2>1, <2>2, <2>3
<1>4. r + 1 <= pushed[w] /\ r + 1 \in 1 .. MaxPush /\ <<w, r + 1>> \in Samples
  <2>1. r + 1 <= pushed[w] /\ pushed[w] \in 0 .. MaxPush
    BY <1>0, <1>1, <1>3 DEF Written
  <2>2. r + 1 \in 1 .. MaxPush
    BY <1>0, <2>1
  <2>3. <<w, r + 1>> \in Samples
    BY <1>0, <2>2, Zenon DEF Samples
  <2> QED BY <2>1, <2>2, <2>3
<1>5. histogram[<<w, r + 1>>] = 0
  BY <1>1, <1>4 DEF RecordedUpTo
<1>6. histogram' = [histogram EXCEPT ![<<w, r + 1>>] = 1]
  BY <1>2, <1>3, <1>5
<1>7. RecordedUpTo(w, r + 1)'
  <2>1. histogram'[Zero] = 0
    BY <1>0, <1>1, <1>4, <1>6 DEF RecordedUpTo
  <2>2. ASSUME NEW i \in 1 .. MaxPush
        PROVE  histogram'[<<w, i>>] = IF i <= r + 1 THEN 1 ELSE 0
    <3>1. <<w, i>> \in Samples
      BY <1>0 DEF Samples
    <3>2. histogram'[<<w, i>>] = IF i = r + 1 THEN 1 ELSE histogram[<<w, i>>]
      BY <1>4, <1>6, <3>1
    <3> QED BY <1>1, <3>2 DEF RecordedUpTo
  <2> QED BY <2>1, <2>2 DEF RecordedUpTo
<1>8. /\ UNCHANGED <<stack, pc, idx, dst, count, stores, pushed>>
      /\ UNCHANGED <<data, swap, cells, current>>
  BY DEF RecordNext, stack
<1>9. FlushingOf(w, r + 1, m - 1)'
  <2>1. /\ callback'[x].items = callback[x].items /\ callback'[x].next = k + 1
        /\ \A y \in Procs \ {x} : callback'[y] = callback[y]
        /\ callback'[x].buf = callback[x].buf
    BY <1>0, <1>2
  <2>2. \A y \in Procs \ {x} : ~Running(y)
    BY <1>2 DEF Locks
  <2>3. Running(x)' /\ \A y \in Procs \ {x} : ~Running(y)'
    BY <1>2, <2>1, <2>2 DEF Running
  <2>4. ASSUME NEW i \in 0 .. (m - 1) - 1
        PROVE  cells'[swap'][callback'[x].next + i] = <<w, r + 1 + 1 + i>>
    <3>1. /\ i + 1 \in 0 .. m - 1 /\ k + (i + 1) = k + 1 + i
          /\ r + 1 + (i + 1) = r + 1 + 1 + i
      BY <1>2, <1>3
    <3>2. cells[swap][k + 1 + i] = <<w, r + 1 + 1 + i>>
      BY <1>2, <3>1 DEF InOrder
    <3> QED BY <1>8, <2>1, <3>2
  <2>5. callback'[x].items = callback'[x].next + (m - 1)
    BY <1>2, <1>3, <2>1
  <2> QED BY <2>3, <2>4, <2>5 DEF FlushingOf, InOrder
<1>10. Written(w)' = Written(w) /\ (r + 1) + (m - 1) + n = Written(w)
  BY <1>1, <1>8 DEF Written
<1>11. FilledBy(w, (r + 1) + (m - 1), n)'
  <2>1. (r + 1) + (m - 1) = r + m
    BY <1>3
  <2>2. Filling' = Filling
    BY <1>8 DEF Filling, Swapped
  <2> QED BY <1>1, <1>8, <2>1, <2>2 DEF FilledBy, InOrder
<1> QED BY <1>3, <1>4, <1>5, <1>6, <1>7, <1>9, <1>10, <1>11 DEF HandedBy

\* A callback ends when it has recorded everything it was given.
LEMMA FinishHanded ==
    ASSUME NEW w, Alone(w), Locks, NEW r \in Nat, NEW m \in Nat, NEW n \in Nat,
           HandedBy(w, r, m, n), NEW x \in Procs, FinishCallback(x)
    PROVE  HandedBy(w, r, m, n)'
<1>0. /\ Pushers = {w} /\ Procs = {w} \cup Reporters /\ w \notin Reporters
      /\ pc \in [Procs -> PcValues]
      /\ callback \in [Procs -> [buf : Buffers \cup {"none"}, items : Int, next : Nat]]
  BY DEF Alone
<1>1. /\ r + m + n = Written(w) /\ RecordedUpTo(w, r) /\ FlushingOf(w, r, m)
      /\ FilledBy(w, r + m, n)
  BY DEF HandedBy
<1>2. /\ UNCHANGED <<data, swap, cells, current, idx, dst, count, stores, histogram, pushed>>
      /\ pc'[w] = pc[w]
      /\ \A y \in Procs \ {x} : pc'[y] = pc[y] /\ callback'[y] = callback[y]
      /\ x # w => pc[x] = "flush" /\ pc'[x] = "idle"
      /\ Running(x) /\ ~Running(x)' /\ callback[x].next = callback[x].items
  BY <1>0 DEF FinishCallback, At, stack, Running, NoCallback
<1>3. m = 0 /\ \A y \in Procs \ {x} : ~Running(y)
  BY <1>0, <1>1, <1>2 DEF FlushingOf, Locks
<1>4. FlushingOf(w, r, m)'
  BY <1>2, <1>3 DEF FlushingOf, Running
<1>5. RecordedUpTo(w, r)' /\ Written(w)' = Written(w)
  BY <1>1, <1>2 DEF RecordedUpTo, Written
<1>6. Filling' = Filling
  BY <1>0, <1>2 DEF Filling, Swapped
<1>7. InOrder(w, Filling, 0, n, r + m)'
  BY <1>1, <1>2, <1>6 DEF InOrder, FilledBy
<1>8. FilledBy(w, r + m, n)'
  BY <1>0, <1>1, <1>2, <1>7 DEF FilledBy
<1> QED BY <1>1, <1>4, <1>5, <1>8 DEF HandedBy
\* Whatever is done in a step, every written sample stays accounted for.
LEMMA HandedStep ==
    ASSUME OneWorker, TypeOK, Begun, Locks, Counts, NoPanicWhenSafe', Handed, [Next]_vars
    PROVE  Handed'
<1>1. PICK w : Pushers = {w}
  BY OnlyWorker
<1>2. Alone(w)
  BY <1>1, AloneHolds
<1>3. PICK r \in Nat : \E m, n \in Nat : HandedBy(w, r, m, n)
  BY <1>1 DEF Handed
<1>4. PICK m \in Nat : \E n \in Nat : HandedBy(w, r, m, n)
  BY <1>3
<1>5. PICK n \in Nat : HandedBy(w, r, m, n)
  BY <1>4
<1>6. ~panicked'
  BY <1>1 DEF NoPanicWhenSafe, SafeConcurrency, OneWorker
<1>7. histogram \in [Samples \cup {Zero} -> Nat]
  BY DEF TypeOK
<1>8. \E i, j, k \in Nat : HandedBy(w, i, j, k)'
  <2>1. ASSUME PusherNext(w) PROVE \E i, j, k \in Nat : HandedBy(w, i, j, k)'
    BY <1>2, <1>5, <1>6, <2>1, PushHanded
  <2>2. ASSUME NEW q \in Reporters, ReporterNext(q)
        PROVE  \E i, j, k \in Nat : HandedBy(w, i, j, k)'
    BY <1>2, <1>5, <2>2, ReadHanded
  <2>3. ASSUME NEW x \in Procs, SwapDataNext(x)
        PROVE  \E i, j, k \in Nat : HandedBy(w, i, j, k)'
    <3>1. CASE LockCallback(x) \/ StorePointers(x) \/ StoreCurrent(x)
      BY <1>2, <1>5, <3>1, SwapHanded
    <3>2. CASE StartCallback(x)
      BY <1>2, <1>5, <3>2, StartHanded
    <3>3. CASE RecordNext(x)
      <4>1. m >= 1 /\ HandedBy(w, r + 1, m - 1, n)'
        BY <1>2, <1>5, <1>6, <1>7, <3>3, RecordHanded
      <4>2. r + 1 \in Nat /\ m - 1 \in Nat
        BY <4>1
      <4> QED BY <4>1, <4>2
    <3>4. CASE FinishCallback(x)
      BY <1>2, <1>5, <3>4, FinishHanded
    <3> QED BY <2>3, <3>1, <3>2, <3>3, <3>4 DEF SwapDataNext
  <2>4. CASE UNCHANGED vars
    <3>1. HandedBy(w, r, m, n)' <=> HandedBy(w, r, m, n)
      BY <2>4 DEF vars, stack, HandedBy, Written, RecordedUpTo, FlushingOf, FilledBy,
         InOrder, Filling, Swapped, Running
    <3> QED BY <1>5, <3>1
  <2> QED BY <1>1, <2>1, <2>2, <2>3, <2>4 DEF Next, Terminated
<1> QED BY <1>1, <1>8 DEF Handed

\* A reporter that is done has left the buffer empty.
LEMMA EmptiedStep ==
    ASSUME OneWorker, TypeOK, Locks, Counts, Handed, Emptied, [Next]_vars
    PROVE  Emptied'
<1>1. PICK w : Pushers = {w}
  BY OnlyWorker
<1>2. Alone(w)
  BY <1>1, AloneHolds
<1>3. /\ Procs = {w} \cup Reporters /\ w \notin Reporters /\ FinalReporters = Reporters
      /\ pc \in [Procs -> PcValues] /\ swapped \in [Reporters -> 0 .. MaxSwaps]
      /\ MaxSwaps \in Nat
  BY <1>2, StackAssumption DEF Alone, TypeOK, OneWorker
<1> SUFFICES ASSUME NEW q \in Reporters, swapped'[q] >= 1
             PROVE  /\ pc'[w] = "stopped"
                    /\ pc'[q] \in {"idle", "flush"} => current' = 0
  BY <1>1 DEF Emptied
<1>4. ASSUME PusherNext(w) PROVE FALSE
  <2>1. swapped' = swapped /\ pc[w] # "stopped"
    BY <1>4 DEF PusherNext, Reserve, LockSwap, CheckFull, ReserveAgain, LoadPointer,
       WriteSlot, Stop, At
  <2> QED BY <1>1, <2>1 DEF Emptied
<1>5. ASSUME NEW p \in Reporters, BeginSwap(p)
      PROVE  pc'[w] = "stopped" /\ (pc'[q] \in {"idle", "flush"} => current' = 0)
  <2>1. /\ pc[w] = "stopped" /\ pc'[p] = "read" /\ current' = current
        /\ \A x \in Procs \ {p} : pc'[x] = pc[x]
        /\ q # p => swapped'[q] = swapped[q]
    BY <1>1, <1>3, <1>5 DEF BeginSwap, At, stack
  <2> QED BY <1>3, <2>1 DEF Emptied
<1>6. ASSUME NEW p \in Reporters, ReadCurrent(p)
      PROVE  pc'[w] = "stopped" /\ (pc'[q] \in {"idle", "flush"} => current' = 0)
  <2>1. /\ pc'[p] = "cbLock" /\ current' = current /\ swapped' = swapped
        /\ \A x \in Procs \ {p} : pc'[x] = pc[x]
    BY <1>3, <1>6 DEF ReadCurrent, At, stack
  <2> QED BY <1>1, <1>3, <2>1 DEF Emptied
<1>7. ASSUME NEW x \in Procs, SwapDataNext(x)
      PROVE  pc'[w] = "stopped" /\ (pc'[q] \in {"idle", "flush"} => current' = 0)
  <2>1. swapped' = swapped /\ pc[w] = "stopped"
    BY <1>1, <1>7 DEF SwapDataNext, LockCallback, StorePointers, StoreCurrent,
       StartCallback, RecordNext, FinishCallback, Emptied
  <2>2. pc'[w] = pc[w]
    BY <1>1, <1>3, <1>7, <2>1 DEF SwapDataNext, LockCallback, StorePointers, StoreCurrent,
       StartCallback, RecordNext, FinishCallback, At
  <2>3. CASE StartCallback(x)
    <3>1. PICK r, m, n \in Nat : HandedBy(w, r, m, n)
      BY <1>1 DEF Handed
    <3>2. current' = 0
      BY <1>2, <2>3, <3>1, StartHanded
    <3> QED BY <2>1, <2>2, <3>2
  <2>4. CASE ~StartCallback(x)
    <3>1. /\ current' = current \/ current' = 0
          /\ pc'[q] \in {"idle", "flush"} => pc[q] \in {"idle", "flush"}
      <4>1. Running(x) => pc[x] # "swap"
        BY DEF Locks
      <4> QED BY <1>3, <1>7, <2>4, <4>1 DEF SwapDataNext, LockCallback, StorePointers,
              StoreCurrent, RecordNext, FinishCallback, At, stack
    <3> QED BY <2>1, <2>2, <3>1 DEF Emptied
  <2> QED BY <2>3, <2>4
<1>8. CASE UNCHANGED vars
  BY <1>1, <1>8 DEF vars, stack, Emptied
<1> QED BY <1>1, <1>4, <1>5, <1>6, <1>7, <1>8 DEF Next, ReporterNext, Terminated

\* With one worker Handed and Emptied are invariants.
LEMMA HandedCorrect == ASSUME OneWorker PROVE Spec => [](Handed /\ Emptied)
<1>1. Init => Locks
  BY StackAssumption DEF Init, Locks, Critical, Running, NoCallback, Procs
<1>2. Init => Begun
  BY DEF Init, Begun, Procs
<1>3. TypeOK /\ Begun /\ Locks /\ Counts /\ NoPanicWhenSafe' /\ Handed /\ [Next]_vars => Handed'
  BY HandedStep
<1>4. TypeOK /\ Locks /\ Counts /\ Handed /\ Emptied /\ [Next]_vars => Emptied'
  BY EmptiedStep
<1> QED
  BY <1>1, <1>2, <1>3, <1>4, InitHanded, TypeCorrect, BegunStep, LocksStep, CountsCorrect,
     NoPanicWhenSafeCorrect, PTL DEF Spec
\* A call of Push begins: its sample is accepted.
LEMMA ReserveAccepts ==
    ASSUME NEW w, Pushers = {w}, TypeOK, Reserve(w)
    PROVE  Recorder!Next
<1>1. /\ pushed[w] \in 0 .. MaxPush /\ MaxPush \in Nat /\ pushed[w] < MaxPush
      /\ pushed' = [pushed EXCEPT ![w] = pushed[w] + 1] /\ histogram' = histogram
      /\ pushed'[w] = pushed[w] + 1
  BY StackAssumption DEF Reserve, TypeOK
<1>2. PICK k \in 1 .. MaxPush : k = pushed[w] + 1
  BY <1>1
<1> DEFINE s == <<w, k>>
           Accepted == {v \in Samples : v[2] <= pushed[v[1]]}
<1>3. s \in Samples /\ s[1] = w /\ s[2] = k
  BY Zenon DEF Samples
<1>4. s \notin Accepted
  BY <1>1, <1>2, <1>3
<1>5. ASSUME NEW v \in Samples
      PROVE  v[2] <= pushed'[v[1]] <=> (v[2] <= pushed[v[1]] \/ v = s)
  <2>1. PICK i \in 1 .. MaxPush : v = <<w, i>>
    BY DEF Samples
  <2>2. v[1] = w /\ v[2] = i
    BY <2>1
  <2>3. i <= pushed[w] + 1 <=> (i <= pushed[w] \/ i = k)
    BY <1>1, <1>2, <2>1
  <2> QED BY <1>1, <2>1, <2>2, <2>3
<1>6. {v \in Samples : v[2] <= pushed'[v[1]]} = Accepted \cup {s}
  BY <1>3, <1>5
<1>7. Recorder!Accept(s)
  BY <1>1, <1>4, <1>6, Zenon DEF Recorder!Accept
<1> QED BY <1>3, <1>7, Zenon DEF Recorder!Next

\* The callback records a sample that was accepted and that it had not recorded.
LEMMA RecordRecords ==
    ASSUME OneWorker, TypeOK, Begun, Locks, Counts, Handed, NEW x \in Procs, RecordNext(x),
           ~panicked'
    PROVE  Recorder!Next
<1>1. PICK w : Pushers = {w}
  BY OnlyWorker
<1>2. Alone(w)
  BY <1>1, AloneHolds
<1>3. PICK r, m, n \in Nat : HandedBy(w, r, m, n)
  BY <1>1 DEF Handed
<1> DEFINE s == <<w, r + 1>>
<1>4. histogram \in [Samples \cup {Zero} -> Nat]
  BY DEF TypeOK
<1>5. /\ r + 1 \in 1 .. MaxPush /\ r + 1 <= pushed[w] /\ histogram[s] = 0
      /\ histogram' = [histogram EXCEPT ![s] = 1]
  BY <1>2, <1>3, <1>4, RecordHanded
<1>6. s \in Samples /\ s[1] = w /\ s[2] = r + 1
  BY <1>1, <1>5, Zenon DEF Samples
<1>7. pushed' = pushed
  BY DEF RecordNext
<1>8. Recorder!Record(s)
  BY <1>5, <1>6, <1>7, Zenon DEF Recorder!Record
<1> QED BY <1>6, <1>8, Zenon DEF Recorder!Next

\* With one worker the stack is a recorder: every step of the workers, of the
\* reporters and of the callbacks accepts a sample, records one that was accepted
\* and not recorded, or does nothing the user of a histogram could see.
THEOREM RecorderKept == ASSUME OneWorker PROVE Spec => Recorder!Safety
<1>1. Init => Recorder!Init
  <2> SUFFICES ASSUME Init PROVE Recorder!Init
    OBVIOUS
  <2>1. \A s \in Samples : ~(s[2] <= pushed[s[1]])
    <3> SUFFICES ASSUME NEW s \in Samples PROVE ~(s[2] <= pushed[s[1]])
      OBVIOUS
    <3>1. PICK p \in Pushers, k \in 1 .. MaxPush : s = <<p, k>>
      BY DEF Samples
    <3>2. s[1] = p /\ s[2] = k /\ pushed[p] = 0
      BY <3>1 DEF Init
    <3> QED BY <3>1, <3>2, StackAssumption
  <2>2. {s \in Samples : s[2] <= pushed[s[1]]} = {}
    BY <2>1
  <2> QED BY <2>2, Zenon DEF Init, Recorder!Init
<1>2. /\ TypeOK /\ Begun /\ Locks /\ Counts /\ NoPanicWhenSafe' /\ Handed /\ [Next]_vars
      => [Recorder!Next]_Recorder!vars
  <2> SUFFICES ASSUME TypeOK, Begun, Locks, Counts, NoPanicWhenSafe', Handed, [Next]_vars
               PROVE  Recorder!Next \/ UNCHANGED Recorder!vars
    OBVIOUS
  <2>1. PICK w : Pushers = {w}
    BY OnlyWorker
  <2>2. ~panicked'
    BY DEF NoPanicWhenSafe, SafeConcurrency, OneWorker
  <2>3. ASSUME UNCHANGED <<pushed, histogram>> PROVE UNCHANGED Recorder!vars
    BY <2>3, Zenon DEF Recorder!vars
  <2>4. ASSUME PusherNext(w) PROVE Recorder!Next \/ UNCHANGED Recorder!vars
    <3>1. CASE Reserve(w)
      BY <2>1, <3>1, ReserveAccepts
    <3>2. CASE ~Reserve(w)
      <4>1. UNCHANGED <<pushed, histogram>>
        BY <2>4, <3>2, Zenon DEF PusherNext, LockSwap, CheckFull, ReserveAgain,
           LoadPointer, WriteSlot, Stop
      <4> QED BY <2>3, <4>1
    <3> QED BY <3>1, <3>2
  <2>5. ASSUME NEW q \in Reporters, ReporterNext(q) PROVE UNCHANGED Recorder!vars
    <3>1. UNCHANGED <<pushed, histogram>>
      BY <2>5, Zenon DEF ReporterNext, BeginSwap, ReadCurrent
    <3> QED BY <2>3, <3>1
  <2>6. ASSUME NEW x \in Procs, SwapDataNext(x)
        PROVE  Recorder!Next \/ UNCHANGED Recorder!vars
    <3>1. CASE RecordNext(x)
      BY <2>2, <3>1, RecordRecords
    <3>2. CASE ~RecordNext(x)
      <4>1. UNCHANGED <<pushed, histogram>>
        BY <2>6, <3>2, Zenon DEF SwapDataNext, LockCallback, StorePointers,
           StoreCurrent, StartCallback, FinishCallback
      <4> QED BY <2>3, <4>1
    <3> QED BY <3>1, <3>2
  <2>7. CASE UNCHANGED vars
    <3>1. UNCHANGED <<pushed, histogram>>
      BY <2>7, Zenon DEF vars
    <3> QED BY <2>3, <3>1
  <2> QED BY <2>1, <2>4, <2>5, <2>6, <2>7 DEF Next, Terminated
<1>3. Init => Locks
  BY StackAssumption DEF Init, Locks, Critical, Running, NoCallback, Procs
<1>4. Init => Begun
  BY DEF Init, Begun, Procs
<1> QED
  BY <1>1, <1>2, <1>3, <1>4, HandedCorrect, TypeCorrect, BegunStep, LocksStep,
     CountsCorrect, NoPanicWhenSafeCorrect, PTL DEF Spec, Recorder!Safety

\* Complete holds in every reachable state: what Handed accounts for has nowhere to
\* be but in the histogram when no callback runs and the buffer is empty.
THEOREM CompleteCorrect == Spec => []Complete
<1>1. ASSUME OneWorker, TypeOK, Handed, Emptied PROVE Complete
  <2> SUFFICES ASSUME AllStopped, MaxSwaps >= 1, NEW q \in Reporters
               PROVE  /\ \A s \in Samples :
                             histogram[s] = IF s[2] <= pushed[s[1]] THEN 1 ELSE 0
                      /\ histogram[Zero] = 0
    BY DEF Complete
  <2>1. PICK w : Pushers = {w}
    BY <1>1, OnlyWorker
  <2>2. PICK r, m, n \in Nat : HandedBy(w, r, m, n)
    BY <1>1, <2>1 DEF Handed
  <2>3. /\ r + m + n = pushed[w] /\ RecordedUpTo(w, r) /\ FlushingOf(w, r, m)
        /\ FilledBy(w, r + m, n) /\ pc[w] = "stopped"
    BY <2>1, <2>2 DEF HandedBy, Written, AllStopped
  <2>4. m = 0
    BY <2>3 DEF AllStopped, FlushingOf
  <2>5. current = 0
    BY <1>1 DEF AllStopped, Emptied
  <2>6. n = current
    BY <2>1, <2>3 DEF AllStopped, FilledBy, Procs
  <2>7. r = pushed[w]
    BY <2>3, <2>4, <2>5, <2>6
  <2>8. ASSUME NEW s \in Samples
        PROVE  histogram[s] = IF s[2] <= pushed[s[1]] THEN 1 ELSE 0
    <3>1. PICK k \in 1 .. MaxPush : s = <<w, k>>
      BY <2>1 DEF Samples
    <3>2. s[1] = w /\ s[2] = k
      BY <3>1
    <3> QED BY <2>3, <2>7, <3>1, <3>2 DEF RecordedUpTo
  <2> QED BY <2>3, <2>8 DEF RecordedUpTo
<1>2. CASE OneWorker
  <2>1. TypeOK /\ Handed /\ Emptied => Complete
    BY <1>1, <1>2
  <2>2. Spec => [](Handed /\ Emptied)
    BY <1>2, HandedCorrect
  <2> QED BY <2>1, <2>2, TypeCorrect, PTL
<1>3. CASE ~OneWorker
  <2>1. Complete
    BY <1>3 DEF Complete
  <2> QED BY <2>1, PTL
<1> QED BY <1>2, <1>3
=============================================================================
