-------------------------- MODULE ConnQueue_proofs --------------------------
(***************************************************************************)
(* Proofs about the connection pool, for any number of workers and any     *)
(* capacity.                                                               *)
(***************************************************************************)
EXTENDS ConnQueue, FiniteSetTheorems, SequenceTheorems, TLAPS

USE DEF Threads, Slots, NoOne, ring

\* The mutex is owned by the thread, and only by the thread, whose pc is inside
\* a critical section.
Mutex == \A t \in Threads : InSection(t) <=> lock = t

\* tail is count places after head, round the ring.
RingShape == tail = head + count \/ tail + Cap = head + count

\* What a thread learnt inside its critical section still holds there.
Phase ==
  /\ pc[Main] \in {"pushStore", "pushAdvance"} => count < Cap
  /\ pc[Main] = "pushAdvance" => fds[tail] = hand[Main]
  /\ \A w \in Workers :
       /\ pc[w] \in {"popTake", "popAdvance"} => count > 0
       /\ pc[w] = "popAdvance" => hand[w] = fds[head]

IInv == TypeOK /\ Mutex /\ RingShape /\ Phase /\ OwnedOnce

-----------------------------------------------------------------------------
(* The index arithmetic of the ring.                                       *)

\* Advancing an index moves to the next slot, or from the last slot to the first.
LEMMA SuccStep ==
  ASSUME NEW i \in Slots
  PROVE  /\ Succ(i) \in Slots
         /\ \/ Succ(i) = i + 1
            \/ i + 1 = Cap /\ Succ(i) = 0
<1>1. CASE i + 1 < Cap
  <2>1. (i + 1) % Cap = i + 1
    BY <1>1, CapAssumption
  <2> QED BY <1>1, <2>1, CapAssumption DEF Succ
<1>2. CASE i + 1 = Cap
  <2>1. (i + 1) % Cap = 0
    BY <1>2, CapAssumption
  <2> QED BY <1>2, <2>1, CapAssumption DEF Succ
<1> QED BY <1>1, <1>2, CapAssumption

-----------------------------------------------------------------------------
(* The invariant is inductive.                                             *)

\* The invariant holds before the first worker is created.
LEMMA InitIInv == Init => IInv
<1> SUFFICES ASSUME Init PROVE IInv
  OBVIOUS
<1> USE CapAssumption, ThreadAssumption, FdAssumption
<1>1. TypeOK
  BY DEF Init, TypeOK, MainPC, WorkerPC
<1>2. Mutex
  BY DEF Init, Mutex, InSection
<1>3. RingShape /\ Phase
  BY DEF Init, RingShape, Phase
<1>4. OwnedOnce
  BY DEF Init, OwnedOnce, NoneLeaked, NoneStale, NoneShared, Live, Holds
<1> QED BY <1>1, <1>2, <1>3, <1>4 DEF IInv

\* Steps that only move one thread's pc, change neither the ring nor a hand, and
\* leave who holds what as it was, preserve the ownership of descriptors.
LEMMA SameOwners ==
  ASSUME TypeOK, OwnedOnce, UNCHANGED <<ring, hand, open>>,
         \A t \in Threads : Holds(t)' <=> Holds(t)
  PROVE  OwnedOnce'
<1>1. \A i \in Slots : Live(i)' <=> Live(i)
  BY DEF Live
<1> QED BY <1>1 DEF OwnedOnce, NoneLeaked, NoneStale, NoneShared

\* Whatever the main thread does, it keeps the invariant.
LEMMA MainStepIInv == IInv /\ MainStep => IInv'
<1> SUFFICES ASSUME IInv, MainStep PROVE IInv'
  OBVIOUS
<1> USE CapAssumption, ThreadAssumption, FdAssumption DEF IInv, Goto
<1>1. ASSUME StartFails \/ Listen \/ AcceptFails \/ Exit PROVE IInv'
  <2>1. TypeOK'
    BY <1>1 DEF StartFails, Listen, AcceptFails, Exit, TypeOK, MainPC
  <2>2. Mutex'
    BY <1>1 DEF StartFails, Listen, AcceptFails, Exit, TypeOK, Mutex, InSection
  <2>3. RingShape' /\ Phase'
    BY <1>1 DEF StartFails, Listen, AcceptFails, Exit, TypeOK, RingShape, Phase
  <2>4. \A t \in Threads : Holds(t)' <=> Holds(t)
    BY <1>1 DEF StartFails, Listen, AcceptFails, Exit, TypeOK, Holds
  <2>5. OwnedOnce'
    BY <1>1, <2>4, SameOwners DEF StartFails, Listen, AcceptFails, Exit
  <2> QED BY <2>1, <2>2, <2>3, <2>5
<1>2. ASSUME NEW w \in Workers, CreateWorker(w) PROVE IInv'
  <2>1. TypeOK'
    BY <1>2 DEF CreateWorker, TypeOK, WorkerPC
  <2>2. Mutex'
    BY <1>2 DEF CreateWorker, TypeOK, Mutex, InSection
  <2>3. RingShape' /\ Phase'
    BY <1>2 DEF CreateWorker, TypeOK, RingShape, Phase
  <2>4. \A t \in Threads : Holds(t)' <=> Holds(t)
    BY <1>2 DEF CreateWorker, TypeOK, Holds
  <2>5. OwnedOnce'
    BY <1>2, <2>4, SameOwners DEF CreateWorker
  <2> QED BY <2>1, <2>2, <2>3, <2>5
<1>3. ASSUME NEW fd \in Fds, Accept(fd) PROVE IInv'
  <2>1. TypeOK'
    BY <1>3 DEF Accept, TypeOK, MainPC
  <2>2. Mutex'
    BY <1>3 DEF Accept, TypeOK, Mutex, InSection
  <2>3. RingShape' /\ Phase'
    BY <1>3 DEF Accept, TypeOK, RingShape, Phase
  <2>4. /\ \A i \in Slots : Live(i)' <=> Live(i)
        /\ \A t \in Workers : (Holds(t)' <=> Holds(t)) /\ hand'[t] = hand[t]
        /\ Holds(Main)' /\ hand'[Main] = fd
        /\ ~Holds(Main)
    BY <1>3 DEF Accept, TypeOK, Live, Holds
  <2>5. NoneLeaked'
    BY <1>3, <2>4 DEF Accept, OwnedOnce, NoneLeaked
  <2>6. NoneStale'
    BY <1>3, <2>4 DEF Accept, OwnedOnce, NoneStale
  <2>7. NoneShared'
    BY <1>3, <2>4 DEF Accept, OwnedOnce, NoneStale, NoneShared
  <2> QED BY <2>1, <2>2, <2>3, <2>5, <2>6, <2>7 DEF OwnedOnce
<1>4. ASSUME PushLock PROVE IInv'
  <2>1. TypeOK'
    BY <1>4 DEF PushLock, TypeOK, MainPC
  <2>2. Mutex'
    BY <1>4 DEF PushLock, TypeOK, Mutex, InSection
  <2>3. RingShape' /\ Phase'
    BY <1>4 DEF PushLock, TypeOK, RingShape, Phase
  <2>4. \A t \in Threads : Holds(t)' <=> Holds(t)
    BY <1>4 DEF PushLock, TypeOK, Holds
  <2>5. OwnedOnce'
    BY <1>4, <2>4, SameOwners DEF PushLock
  <2> QED BY <2>1, <2>2, <2>3, <2>5
<1>5. ASSUME PushTest PROVE IInv'
  <2>1. TypeOK'
    BY <1>5 DEF PushTest, TypeOK, MainPC
  <2>2. Mutex'
    BY <1>5 DEF PushTest, TypeOK, Mutex, InSection
  <2>3. RingShape' /\ Phase'
    BY <1>5 DEF PushTest, TypeOK, RingShape, Phase, HasRoom
  <2>4. hand[Main] # NoFd
    BY <1>5 DEF PushTest, OwnedOnce, NoneStale, Holds, TypeOK
  <2>5. \A t \in Threads : Holds(t)' <=> Holds(t)
    BY <1>5, <2>4 DEF PushTest, TypeOK, Holds
  <2>6. OwnedOnce'
    BY <1>5, <2>5, SameOwners DEF PushTest
  <2> QED BY <2>1, <2>2, <2>3, <2>6
<1>6. ASSUME PushStore PROVE IInv'
  <2>1. TypeOK'
    BY <1>6 DEF PushStore, TypeOK, MainPC
  <2>2. Mutex'
    BY <1>6 DEF PushStore, TypeOK, Mutex, InSection
  <2>3. RingShape'
    BY <1>6 DEF PushStore, RingShape
  <2>4. \A w \in Workers : pc[w] \notin {"popTake", "popAdvance"}
    BY <1>6 DEF PushStore, Mutex, InSection
  <2>5. Phase'
    BY <1>6, <2>4 DEF PushStore, TypeOK, Phase
  <2>6. /\ \A i \in Slots : Live(i)' <=> Live(i)
        /\ \A i \in Slots : Live(i) => fds'[i] = fds[i]
    BY <1>6 DEF PushStore, TypeOK, RingShape, Phase, Live
  <2>7. \A t \in Threads : Holds(t)' <=> Holds(t)
    BY <1>6 DEF PushStore, TypeOK, Holds
  <2>8. OwnedOnce'
    BY <1>6, <2>6, <2>7 DEF PushStore, OwnedOnce, NoneLeaked, NoneStale, NoneShared
  <2> QED BY <2>1, <2>2, <2>3, <2>5, <2>8
<1>7. ASSUME PushAdvance PROVE IInv'
  <2>1. PICK p \in Signalled([pc EXCEPT ![Main] = "pushUnlock"]) : pc' = p
    BY <1>7 DEF PushAdvance
  <2>2. /\ pc' \in [Threads -> MainPC \cup WorkerPC]
        /\ pc'[Main] = "pushUnlock"
        /\ \A w \in Workers : pc'[w] = pc[w] \/ (pc[w] = "asleep" /\ pc'[w] = "popLock")
    BY <2>1 DEF Signalled, Asleep, TypeOK, MainPC, WorkerPC
  <2>3. Succ(tail) \in Slots /\ (Succ(tail) = tail + 1 \/ (tail + 1 = Cap /\ Succ(tail) = 0))
    BY SuccStep DEF TypeOK
  <2>4. count < Cap /\ fds[tail] = hand[Main] /\ count' = count + 1 /\ tail' = Succ(tail)
    BY <1>7 DEF PushAdvance, Phase
  <2>5. TypeOK'
    BY <1>7, <2>2, <2>3, <2>4 DEF PushAdvance, TypeOK, MainPC, WorkerPC
  <2>6. Mutex'
    BY <1>7, <2>2 DEF PushAdvance, TypeOK, Mutex, InSection
  <2>7. RingShape'
    BY <1>7, <2>3, <2>4 DEF PushAdvance, TypeOK, RingShape
  <2>8. Phase'
    BY <1>7, <2>2, <2>4 DEF PushAdvance, TypeOK, Phase
  <2>9. /\ \A i \in Slots : Live(i)' <=> Live(i) \/ i = tail
        /\ ~Live(tail)
    BY <1>7, <2>4 DEF PushAdvance, TypeOK, RingShape, Live
  <2>10. /\ Holds(Main) /\ ~Holds(Main)'
         /\ \A w \in Workers : (Holds(w)' <=> Holds(w)) /\ hand'[w] = hand[w]
    BY <1>7, <2>2 DEF PushAdvance, TypeOK, Holds
  <2>11. NoneLeaked'
    BY <1>7, <2>4, <2>9, <2>10 DEF PushAdvance, TypeOK, OwnedOnce, NoneLeaked
  <2>12. NoneStale'
    BY <1>7, <2>4, <2>9, <2>10 DEF PushAdvance, TypeOK, OwnedOnce, NoneStale
  <2>13. NoneShared'
    BY <1>7, <2>4, <2>9, <2>10 DEF PushAdvance, TypeOK, OwnedOnce, NoneShared
  <2> QED BY <2>5, <2>6, <2>7, <2>8, <2>11, <2>12, <2>13 DEF OwnedOnce
<1>8. ASSUME PushUnlock PROVE IInv'
  <2>1. TypeOK'
    BY <1>8 DEF PushUnlock, TypeOK, MainPC
  <2>2. Mutex'
    BY <1>8 DEF PushUnlock, TypeOK, Mutex, InSection
  <2>3. RingShape' /\ Phase'
    BY <1>8 DEF PushUnlock, TypeOK, RingShape, Phase
  <2>4. \A t \in Threads : Holds(t)' <=> Holds(t)
    BY <1>8 DEF PushUnlock, TypeOK, Holds
  <2>5. OwnedOnce'
    BY <1>8, <2>4, SameOwners DEF PushUnlock
  <2> QED BY <2>1, <2>2, <2>3, <2>5
<1>9. ASSUME RejectBusy PROVE IInv'
  <2>1. TypeOK'
    BY <1>9 DEF RejectBusy, TypeOK, MainPC
  <2>2. Mutex'
    BY <1>9 DEF RejectBusy, TypeOK, Mutex, InSection
  <2>3. RingShape' /\ Phase'
    BY <1>9 DEF RejectBusy, TypeOK, RingShape, Phase
  <2>4. /\ \A i \in Slots : Live(i)' <=> Live(i)
        /\ Holds(Main) /\ ~Holds(Main)'
        /\ \A w \in Workers : (Holds(w)' <=> Holds(w)) /\ hand'[w] = hand[w]
    BY <1>9 DEF RejectBusy, TypeOK, Live, Holds
  <2>5. NoneLeaked' /\ NoneStale' /\ NoneShared'
    BY <1>9, <2>4 DEF RejectBusy, OwnedOnce, NoneLeaked, NoneStale, NoneShared
  <2> QED BY <2>1, <2>2, <2>3, <2>5 DEF OwnedOnce
<1> QED
  BY <1>1, <1>2, <1>3, <1>4, <1>5, <1>6, <1>7, <1>8, <1>9 DEF MainStep

\* Whatever a worker does, it keeps the invariant.
LEMMA WorkerStepIInv ==
  ASSUME NEW w \in Workers, IInv, WorkerStep(w)
  PROVE  IInv'
<1> USE CapAssumption, ThreadAssumption, FdAssumption DEF IInv, Goto
<1> w \in Threads /\ w # Main
  OBVIOUS
<1>1. ASSUME PopLock(w) \/ PopTest(w) \/ PopWait(w) \/ SpuriousWake(w) \/ PopUnlock(w)
      PROVE  TypeOK' /\ Mutex' /\ RingShape'
  <2>1. TypeOK'
    BY <1>1 DEF PopLock, PopTest, PopWait, SpuriousWake, PopUnlock, TypeOK, WorkerPC
  <2>2. Mutex'
    BY <1>1 DEF PopLock, PopTest, PopWait, SpuriousWake, PopUnlock, TypeOK, Mutex, InSection
  <2>3. RingShape'
    BY <1>1 DEF PopLock, PopTest, PopWait, SpuriousWake, PopUnlock, RingShape
  <2> QED BY <2>1, <2>2, <2>3
<1>2. ASSUME PopLock(w) \/ PopTest(w) \/ PopWait(w) \/ SpuriousWake(w) \/ PopUnlock(w)
      PROVE  Phase' /\ OwnedOnce'
  <2>1. Phase'
    BY <1>2 DEF PopLock, PopTest, PopWait, SpuriousWake, PopUnlock, TypeOK, Phase
  <2>2. CASE PopUnlock(w)
    <3>1. \A t \in Threads : Holds(t)' <=> Holds(t)
      BY <2>2 DEF PopUnlock, TypeOK, Holds
    <3> QED BY <2>1, <2>2, <3>1, SameOwners DEF PopUnlock
  <2>3. CASE PopLock(w) \/ PopTest(w) \/ PopWait(w) \/ SpuriousWake(w)
    <3>1. \A t \in Threads : Holds(t)' <=> Holds(t)
      BY <2>3 DEF PopLock, PopTest, PopWait, SpuriousWake, TypeOK, Holds
    <3> QED
      BY <2>1, <2>3, <3>1, SameOwners DEF PopLock, PopTest, PopWait, SpuriousWake
  <2> QED BY <1>2, <2>2, <2>3
<1>3. ASSUME PopTake(w) PROVE IInv'
  <2>1. TypeOK'
    BY <1>3 DEF PopTake, TypeOK, WorkerPC
  <2>2. Mutex'
    BY <1>3 DEF PopTake, TypeOK, Mutex, InSection
  <2>3. pc[Main] # "pushAdvance"
    BY <1>3 DEF PopTake, Mutex, InSection
  <2>4. RingShape' /\ Phase'
    BY <1>3, <2>3 DEF PopTake, TypeOK, RingShape, Phase
  <2>5. /\ \A i \in Slots : Live(i)' <=> Live(i)
        /\ ~Holds(w) /\ ~Holds(w)'
        /\ \A t \in Threads \ {w} : (Holds(t)' <=> Holds(t)) /\ hand'[t] = hand[t]
    BY <1>3 DEF PopTake, TypeOK, Live, Holds
  <2>6. OwnedOnce'
    BY <1>3, <2>5 DEF PopTake, OwnedOnce, NoneLeaked, NoneStale, NoneShared
  <2> QED BY <2>1, <2>2, <2>4, <2>6
<1>4. ASSUME PopAdvance(w) PROVE IInv'
  <2>1. Succ(head) \in Slots /\ (Succ(head) = head + 1 \/ (head + 1 = Cap /\ Succ(head) = 0))
    BY SuccStep DEF TypeOK
  <2>2. count > 0 /\ hand[w] = fds[head] /\ count' = count - 1 /\ head' = Succ(head)
    BY <1>4 DEF PopAdvance, Phase
  <2>3. TypeOK'
    BY <1>4, <2>1, <2>2 DEF PopAdvance, TypeOK, WorkerPC
  <2>4. Mutex'
    BY <1>4 DEF PopAdvance, TypeOK, Mutex, InSection
  <2>5. RingShape'
    BY <1>4, <2>1, <2>2 DEF PopAdvance, TypeOK, RingShape
  <2>6. /\ pc[Main] \notin {"pushStore", "pushAdvance"}
        /\ \A u \in Workers : u # w => pc[u] \notin {"popTake", "popAdvance"}
    BY <1>4 DEF PopAdvance, Mutex, InSection
  <2>7. Phase'
    BY <1>4, <2>6 DEF PopAdvance, TypeOK, Phase
  <2>8. /\ Live(head)
        /\ \A i \in Slots : Live(i)' <=> Live(i) /\ i # head
    BY <1>4, <2>1, <2>2 DEF PopAdvance, TypeOK, Live
  <2>9. /\ ~Holds(w) /\ Holds(w)'
        /\ \A t \in Threads \ {w} : Holds(t)' <=> Holds(t)
        /\ hand' = hand /\ fds' = fds /\ open' = open
    BY <1>4 DEF PopAdvance, TypeOK, Holds
  <2>10. NoneLeaked'
    BY <2>2, <2>8, <2>9 DEF OwnedOnce, NoneLeaked, TypeOK
  <2>11. NoneStale'
    BY <2>2, <2>8, <2>9 DEF OwnedOnce, NoneStale, TypeOK
  <2>12. NoneShared'
    BY <2>2, <2>8, <2>9 DEF OwnedOnce, NoneShared, TypeOK
  <2> QED BY <2>3, <2>4, <2>5, <2>7, <2>10, <2>11, <2>12 DEF OwnedOnce
<1>5. ASSUME Handle(w) \/ Return(w) PROVE IInv'
  <2>0. pc[w] \in {"handle", "perform"} /\ Closes(w)
    BY <1>5 DEF Handle, Return
  <2>1. TypeOK'
    BY <2>0 DEF Closes, TypeOK, WorkerPC
  <2>2. Mutex'
    BY <2>0 DEF Closes, TypeOK, Mutex, InSection
  <2>3. RingShape' /\ Phase'
    BY <2>0 DEF Closes, TypeOK, RingShape, Phase
  <2>4. /\ \A i \in Slots : Live(i)' <=> Live(i)
        /\ Holds(w) /\ ~Holds(w)'
        /\ \A t \in Threads \ {w} : (Holds(t)' <=> Holds(t)) /\ hand'[t] = hand[t]
    BY <2>0 DEF Closes, TypeOK, Live, Holds
  <2>5. NoneLeaked' /\ NoneStale' /\ NoneShared'
    BY <2>0, <2>4 DEF Closes, OwnedOnce, NoneLeaked, NoneStale, NoneShared
  <2> QED BY <2>1, <2>2, <2>3, <2>5 DEF OwnedOnce
<1>6. ASSUME Forward(w) PROVE IInv'
  <2>1. TypeOK'
    BY <1>6 DEF Forward, TypeOK, WorkerPC
  <2>2. Mutex'
    BY <1>6 DEF Forward, TypeOK, Mutex, InSection
  <2>3. RingShape' /\ Phase'
    BY <1>6 DEF Forward, TypeOK, RingShape, Phase
  <2>4. \A t \in Threads : Holds(t)' <=> Holds(t)
    BY <1>6 DEF Forward, TypeOK, Holds
  <2>5. OwnedOnce'
    BY <1>6, <2>4, SameOwners DEF Forward
  <2> QED BY <2>1, <2>2, <2>3, <2>5
<1> QED
  BY <1>1, <1>2, <1>3, <1>4, <1>5, <1>6 DEF WorkerStep

\* The invariant is about the variables of the pool only.
LEMMA StutterIInv == IInv /\ UNCHANGED vars => IInv'
  BY DEF IInv, vars, TypeOK, Mutex, InSection, RingShape, Phase, OwnedOnce,
         NoneLeaked, NoneStale, NoneShared, Live, Holds

\* The invariant holds in every reachable state of the pool.
THEOREM Invariance == Spec => []IInv
<1>1. Init => IInv
  BY InitIInv
<1>2. IInv /\ [Next]_vars => IInv'
  BY MainStepIInv, WorkerStepIInv, StutterIInv DEF Next, Exited
<1> QED BY <1>1, <1>2, PTL DEF Spec

\* Types are kept: the ring is never indexed outside its array and count never
\* leaves 0..CONN_QUEUE_CAP.
THEOREM TypeCorrect == Spec => []TypeOK
<1>1. IInv => TypeOK
  BY DEF IInv
<1> QED BY <1>1, Invariance, PTL

\* Every accepted connection has exactly one owner until it is closed: none is
\* leaked, none is closed and still queued or served, none is served twice.
THEOREM OneOwner == Spec => []OwnedOnce
<1>1. IInv => OwnedOnce
  BY DEF IInv
<1> QED BY <1>1, Invariance, PTL

-----------------------------------------------------------------------------
(* No worker sleeps while a connection waits.                              *)

\* The workers on their way to the queue.
Coming == {w \in Workers : pc[w] \in {"popLock", "popTest", "popTake", "popAdvance"}}

\* Whoever is about to wait saw an empty queue, and it is empty still.
SawEmpty == \A w \in Workers : pc[w] = "popWait" => count = 0

WInv == SawEmpty /\ WorkConserving

\* There are finitely many workers, so those on their way can be counted.
LEMMA ComingFinite == IsFiniteSet(Coming) /\ Cardinality(Coming) \in Nat
<1>1. Coming \in SUBSET Workers
  BY DEF Coming
<1> QED BY <1>1, WorkersAssumption, FS_Subset, FS_CardinalityType

\* And so it is after the step.
LEMMA ComingFiniteNext == IsFiniteSet(Coming') /\ Cardinality(Coming') \in Nat
<1>1. Coming' \in SUBSET Workers
  BY DEF Coming
<1> QED BY <1>1, WorkersAssumption, FS_Subset, FS_CardinalityType

\* A step that lets workers come and takes nobody away, that wakes but puts nobody to
\* sleep, and that leaves the queue alone.
LEMMA MoreComing ==
  ASSUME TypeOK, WInv, count' = count, Coming \subseteq Coming', Asleep(pc') \subseteq Asleep(pc)
  PROVE  WorkConserving'
<1>1. Cardinality(Coming) <= Cardinality(Coming')
  BY ComingFiniteNext, FS_Subset
<1>2. Asleep(pc') # {} => count <= Cardinality(Coming)
  BY DEF WInv, WorkConserving, Coming
<1> QED BY <1>1, <1>2, ComingFinite, ComingFiniteNext DEF WorkConserving, Coming, TypeOK

\* At first nobody sleeps.
LEMMA InitWInv == Init => WInv
  BY DEF Init, WInv, SawEmpty, WorkConserving, Asleep

\* A push wakes one worker for the connection it adds.
LEMMA MainStepWInv ==
  ASSUME IInv, WInv, MainStep
  PROVE  WInv'
<1> USE CapAssumption, ThreadAssumption, FdAssumption DEF IInv, Goto
<1>1. CASE \/ StartFails \/ Listen \/ (\E w \in Workers : CreateWorker(w))
           \/ (\E fd \in Fds : Accept(fd)) \/ AcceptFails \/ Exit
           \/ PushLock \/ PushTest \/ PushStore \/ PushUnlock \/ RejectBusy
  <2>1. /\ count' = count
        /\ \A w \in Workers : pc'[w] = pc[w] \/ (pc[w] = "unborn" /\ pc'[w] = "popLock")
    BY <1>1 DEF StartFails, Listen, CreateWorker, Accept, AcceptFails, Exit, PushLock,
                PushTest, PushStore, PushUnlock, RejectBusy, TypeOK
  <2>2. Coming \subseteq Coming' /\ Asleep(pc') \subseteq Asleep(pc)
    BY <2>1 DEF Coming, Asleep
  <2>3. SawEmpty'
    BY <2>1 DEF WInv, SawEmpty
  <2> QED BY <2>1, <2>2, <2>3, MoreComing DEF WInv
<1>2. CASE PushAdvance
  <2> DEFINE p == [pc EXCEPT ![Main] = "pushUnlock"]
  <2>1. /\ count' = count + 1 /\ count \in Nat
        /\ pc' \in Signalled(p)
        /\ \A w \in Workers : p[w] = pc[w]
        /\ p \in [Threads -> MainPC \cup WorkerPC]
    BY <1>2 DEF PushAdvance, TypeOK, MainPC
  <2>2. Asleep(p) = Asleep(pc)
    BY <2>1 DEF Asleep
  <2> HIDE DEF p
  <2>3. SawEmpty'
    <3>1. \A w \in Workers : pc[w] # "popWait"
      BY <1>2 DEF PushAdvance, Mutex, InSection
    <3>2. \A w \in Workers : pc'[w] # "popWait"
      BY <2>1, <3>1 DEF Signalled, Asleep
    <3> QED BY <3>2 DEF SawEmpty
  <2>4. CASE Asleep(pc) = {}
    <3>1. Asleep(pc') = {}
      BY <2>1, <2>2, <2>4 DEF Signalled
    <3> QED BY <3>1, <2>3 DEF WInv, WorkConserving
  <2>5. CASE Asleep(pc) # {}
    <3>1. PICK w \in Asleep(pc) : pc' = [p EXCEPT ![w] = "popLock"]
      BY <2>1, <2>2, <2>5 DEF Signalled
    <3>2. w \notin Coming /\ Coming' = Coming \cup {w}
      BY <2>1, <3>1 DEF Coming, Asleep
    <3>3. Cardinality(Coming') = Cardinality(Coming) + 1
      BY <3>2, ComingFinite, FS_AddElement
    <3>4. count <= Cardinality(Coming)
      BY <2>5 DEF WInv, WorkConserving, Coming
    <3>5. count' <= Cardinality(Coming')
      BY <2>1, <3>3, <3>4, ComingFinite
    <3> QED BY <2>3, <3>5 DEF WInv, WorkConserving, Coming
  <2> QED BY <2>4, <2>5
<1> QED BY <1>1, <1>2 DEF MainStep

\* A worker that stops coming took a connection, or saw that there was none.
LEMMA WorkerStepWInv ==
  ASSUME NEW w \in Workers, IInv, WInv, WorkerStep(w)
  PROVE  WInv'
<1> USE CapAssumption, ThreadAssumption, FdAssumption DEF IInv, Goto
<1> w \in Threads /\ w # Main
  OBVIOUS
<1>1. CASE \/ PopLock(w) \/ SpuriousWake(w) \/ PopTake(w) \/ PopUnlock(w)
           \/ Handle(w) \/ Forward(w) \/ Return(w)
  <2>1. /\ count' = count
        /\ \A u \in Workers : u # w => pc'[u] = pc[u]
        /\ pc[w] # "popWait" /\ pc'[w] # "popWait" /\ pc'[w] # "asleep"
        /\ pc[w] \in {"popLock", "popTest", "popTake", "popAdvance"} =>
             pc'[w] \in {"popLock", "popTest", "popTake", "popAdvance"}
    BY <1>1 DEF PopLock, SpuriousWake, PopTake, PopUnlock, Handle, Forward, Return, Closes,
                TypeOK
  <2>2. Coming \subseteq Coming' /\ Asleep(pc') \subseteq Asleep(pc)
    BY <2>1 DEF Coming, Asleep
  <2>3. SawEmpty'
    BY <2>1 DEF WInv, SawEmpty
  <2> QED BY <2>1, <2>2, <2>3, MoreComing DEF WInv
<1>2. CASE PopTest(w)
  <2>1. /\ count' = count
        /\ \A u \in Workers : u # w => pc'[u] = pc[u]
        /\ pc'[w] = IF count = 0 THEN "popWait" ELSE "popTake"
        /\ pc[w] = "popTest"
    BY <1>2 DEF PopTest, TypeOK
  <2>2. SawEmpty'
    BY <2>1 DEF WInv, SawEmpty
  <2>3. CASE count = 0
    BY <2>1, <2>2, <2>3, ComingFiniteNext DEF WInv, WorkConserving, Coming
  <2>4. CASE count # 0
    <3>1. Coming \subseteq Coming' /\ Asleep(pc') \subseteq Asleep(pc)
      BY <2>1, <2>4 DEF Coming, Asleep
    <3> QED BY <2>1, <2>2, <3>1, MoreComing DEF WInv
  <2> QED BY <2>3, <2>4
<1>3. CASE PopWait(w)
  <2>1. count = 0 /\ count' = 0 /\ SawEmpty'
    BY <1>3 DEF PopWait, TypeOK, WInv, SawEmpty
  <2> QED BY <2>1, ComingFiniteNext DEF WInv, WorkConserving, Coming
<1>4. CASE PopAdvance(w)
  <2>1. /\ count' = count - 1 /\ count \in Nat
        /\ \A u \in Workers : u # w => pc'[u] = pc[u]
        /\ pc[w] = "popAdvance" /\ pc'[w] = "popUnlock"
    BY <1>4 DEF PopAdvance, TypeOK
  <2>2. w \in Coming /\ Coming' = Coming \ {w} /\ Asleep(pc') = Asleep(pc)
    BY <2>1 DEF Coming, Asleep
  <2>3. Cardinality(Coming') = Cardinality(Coming) - 1
    BY <2>2, ComingFinite, FS_RemoveElement
  <2>4. SawEmpty'
    BY <1>4, <2>1 DEF SawEmpty, Mutex, InSection
  <2>5. Asleep(pc') # {} => count' <= Cardinality(Coming')
    BY <2>1, <2>2, <2>3, ComingFinite DEF WInv, WorkConserving, Coming
  <2> QED BY <2>4, <2>5 DEF WInv, WorkConserving, Coming
<1> QED BY <1>1, <1>2, <1>3, <1>4 DEF WorkerStep

\* The invariant is about the variables of the pool only.
LEMMA StutterWInv == WInv /\ UNCHANGED vars => WInv'
  BY DEF WInv, vars, SawEmpty, WorkConserving, Asleep

\* While a worker sleeps there is an awake one for every waiting connection, for any
\* number of workers and any capacity (queue_push, queue_pop; main.c:32-65).
THEOREM NoneSleepsInVain == Spec => []WorkConserving
<1>1. Init => WInv
  BY InitWInv
<1>2. IInv /\ WInv /\ [Next]_vars => WInv'
  BY MainStepWInv, WorkerStepWInv, StutterWInv DEF Next, Exited
<1>3. WInv => WorkConserving
  BY DEF WInv
<1> QED BY <1>1, <1>2, <1>3, Invariance, PTL DEF Spec

-----------------------------------------------------------------------------
(* The pool implements the abstract service: every step of it is a step of *)
(* the service, or one that the service does not see.                      *)

\* The main thread has no descriptor in hand but on the way from accept to close.
HInv == pc[Main] \in {"create", "accept", "cleanup", "exited"} => hand[Main] = NoFd

\* What main has in hand was pushed or closed before it accepts again.
LEMMA HandEmpty == Spec => []HInv
<1> USE ThreadAssumption, FdAssumption DEF HInv, Goto
<1>1. Init => HInv
  BY DEF Init
<1>2. ASSUME IInv, HInv, MainStep PROVE HInv'
  <2>1. CASE PushAdvance
    <3>1. pc'[Main] = "pushUnlock"
      BY <1>2, <2>1 DEF PushAdvance, Signalled, Asleep, IInv, TypeOK
    <3> QED BY <3>1
  <2> QED
    BY <1>2, <2>1 DEF MainStep, StartFails, Listen, CreateWorker, Accept, AcceptFails, Exit,
                      PushLock, PushTest, PushStore, PushUnlock, RejectBusy, IInv, TypeOK
<1>3. ASSUME IInv, HInv, NEW w \in Workers, WorkerStep(w) PROVE HInv'
  BY <1>3 DEF WorkerStep, PopLock, PopTest, PopWait, SpuriousWake, PopTake, PopAdvance,
              PopUnlock, Handle, Forward, Return, Closes, IInv, TypeOK
<1>4. IInv /\ HInv /\ [Next]_vars => HInv'
  BY <1>2, <1>3 DEF Next, Exited, vars
<1> QED BY <1>1, <1>4, Invariance, PTL DEF Spec

\* The k-th place of the line is k - 1 slots after head, round the ring, and live.
Place(k) == (head + k - 1) % Cap

\* An index past the last slot goes on from slot 0.
LEMMA PlaceIs ==
  ASSUME NEW h \in Slots, NEW k \in 1..Cap
  PROVE  (h + k - 1) % Cap = IF h + k <= Cap THEN h + k - 1 ELSE h + k - 1 - Cap
<1> USE CapAssumption
<1> DEFINE x == h + k - 1
<1>1. x \in Nat /\ x < 2 * Cap
  OBVIOUS
<1> HIDE DEF x
<1>2. CASE x < Cap
  <2>1. x % Cap = x
    BY <1>1, <1>2
  <2> QED BY <1>2, <2>1 DEF x
<1>3. CASE Cap <= x
  <2>1. x % Cap = x - Cap
    BY <1>1, <1>3
  <2> QED BY <1>3, <2>1 DEF x
<1> QED BY <1>1, <1>2, <1>3

\* Every place of the line is in a slot of its own, and is a live one.
LEMMA PlaceLive ==
  ASSUME TypeOK, NEW k \in 1..count
  PROVE  /\ Place(k) \in Slots /\ Live(Place(k))
         /\ LineOf[k] = fds[Place(k)]
<1>1. head \in Slots /\ k \in 1..Cap /\ count \in 0..Cap
  BY CapAssumption DEF TypeOK
<1>2. Place(k) = IF head + k <= Cap THEN head + k - 1 ELSE head + k - 1 - Cap
  BY <1>1, PlaceIs DEF Place
<1> QED BY <1>1, <1>2, CapAssumption DEF Live, LineOf, Place

\* The line has as many places as the ring has live slots.
LEMMA LineType ==
  ASSUME TypeOK
  PROVE  /\ LineOf \in Seq(Fds \cup {NoFd})
         /\ Len(LineOf) = count /\ count \in 0..Cap
<1>1. \A k \in 1..count : LineOf[k] \in Fds \cup {NoFd}
  BY PlaceLive DEF TypeOK
<1> QED BY <1>1 DEF LineOf, TypeOK

\* The descriptors of the service are in use in the pool.
LEMMA BusyOpen ==
  ASSUME IInv, pc[Main] = "accept", HInv
  PROVE  Service!Busy \subseteq open
<1> USE FdAssumption, ThreadAssumption
<1> SUFFICES ASSUME NEW fd \in Fds, fd \in Service!Busy PROVE fd \in open
  BY DEF Service!Busy
<1>1. CASE fd = hand[Main]
  BY <1>1 DEF HInv
<1>2. CASE \E w \in Workers :
             (IF pc[w] \in {"popUnlock", "handle", "perform"} THEN hand[w] ELSE NoFd) = fd
  BY <1>2 DEF IInv, OwnedOnce, NoneStale, Holds
<1>3. CASE \E k \in DOMAIN LineOf : LineOf[k] = fd
  <2>1. PICK k \in 1..count : LineOf[k] = fd
    BY <1>3 DEF LineOf
  <2> QED BY <2>1, PlaceLive DEF IInv, OwnedOnce, NoneStale
<1> QED BY <1>1, <1>2, <1>3 DEF Service!Busy

\* The service begins with an empty line.
LEMMA InitService == Init => Service!Init
<1> SUFFICES ASSUME Init PROVE Service!Init
  OBVIOUS
<1>1. LineOf = <<>>
  BY DEF Init, LineOf
<1>2. Performing = {}
  BY ThreadAssumption DEF Init, Performing
<1> QED BY <1>1, <1>2, ThreadAssumption DEF Init, Service!Init, Accepting

\* What the service sees of the pool.
Refused == pc[Main] = "reject" \/ (pc[Main] = "pushUnlock" /\ hand[Main] # NoFd)
Serving == [w \in Workers |->
              IF pc[w] \in {"popUnlock", "handle", "perform"} THEN hand[w] ELSE NoFd]
Seen == <<LineOf, hand[Main], Refused, Serving, Performing, Accepting>>

\* The line is the same while the ring is.
LEMMA SameLine == UNCHANGED ring => LineOf' = LineOf
  BY DEF LineOf

\* Accepting is the service's Arrive, the test of a full queue its Refuse, the advance of tail
\* its Admit, and the busy reply its Turn; the rest of the main thread it does not see.
LEMMA MainStepService ==
  ASSUME IInv, HInv, MainStep
  PROVE  [Service!Next]_Service!vars
<1> USE CapAssumption, ThreadAssumption, FdAssumption DEF Goto
<1>t. TypeOK /\ (Holds(Main) => hand[Main] \in open /\ hand[Main] # NoFd)
  BY DEF IInv, OwnedOnce, NoneStale, TypeOK
<1>s. SUFFICES UNCHANGED Seen \/ Service!Next
  BY DEF Service!vars, Seen, Refused, Serving
<1>p. Performing' = Performing
  <2>1. \A w \in Workers : pc'[w] = pc[w] \/ (pc[w] # "perform" /\ pc'[w] # "perform")
    BY <1>t DEF MainStep, StartFails, Listen, CreateWorker, Accept, AcceptFails, Exit, PushLock,
                PushTest, PushStore, PushAdvance, Signalled, Asleep, PushUnlock, RejectBusy, TypeOK
  <2> QED BY <2>1 DEF Performing
<1>1. CASE StartFails \/ AcceptFails
  <2>1. Service!Close
    BY <1>1, <1>t, <1>p, SameLine
       DEF StartFails, AcceptFails, TypeOK, HInv, Service!Close, Accepting
  <2> QED BY <2>1 DEF Service!Next
<1>2. CASE Listen \/ (\E w \in Workers : CreateWorker(w)) \/ Exit \/ PushLock \/ PushUnlock
  <2>1. LineOf' = LineOf /\ hand' = hand
    BY <1>2, SameLine DEF Listen, CreateWorker, Exit, PushLock, PushUnlock
  <2>2. Refused' = Refused /\ Accepting' = Accepting
    BY <1>2, <1>t, <2>1
       DEF Listen, CreateWorker, Exit, PushLock, PushUnlock, TypeOK, Refused, Accepting
  <2>3. Serving' = Serving
    BY <1>2, <1>t DEF Listen, CreateWorker, Exit, PushLock, PushUnlock, TypeOK, Serving
  <2> QED BY <1>p, <2>1, <2>2, <2>3 DEF Seen
<1>3. ASSUME NEW fd \in Fds, Accept(fd) PROVE Service!Next
  <2>1. fd \notin Service!Busy
    BY <1>3, BusyOpen DEF Accept
  <2>2. LineOf' = LineOf
    BY <1>3, SameLine DEF Accept
  <2>3. Serving' = Serving
    BY <1>3, <1>t DEF Accept, TypeOK, Serving
  <2>4. Service!Arrive(fd)
    BY <1>3, <1>t, <1>p, <2>1, <2>2, <2>3
       DEF Accept, TypeOK, HInv, Service!Arrive, Accepting, Serving
  <2> QED BY <2>4 DEF Service!Next
<1>4. CASE PushTest
  <2>1. LineOf' = LineOf /\ hand' = hand /\ hand[Main] # NoFd
    BY <1>4, <1>t, SameLine DEF PushTest, Holds
  <2>2. Serving' = Serving /\ Accepting' /\ Accepting /\ ~Refused
    BY <1>4, <1>t DEF PushTest, TypeOK, Serving, Accepting, Refused
  <2>3. CASE HasRoom
    <3>1. ~Refused'
      BY <1>4, <1>t, <2>3 DEF PushTest, TypeOK, Refused
    <3>2. Refused' = Refused /\ Accepting' = Accepting
      BY <2>2, <3>1 DEF Refused, Accepting
    <3> QED BY <1>p, <2>1, <2>2, <3>2 DEF Seen
  <2>4. CASE ~HasRoom
    <3>1. Len(LineOf) = Cap
      BY <1>t, <2>4, LineType DEF HasRoom
    <3>2. Refused'
      BY <1>4, <1>t, <2>1, <2>4 DEF PushTest, TypeOK, Refused
    <3>3. Service!Refuse
      BY <1>p, <2>1, <2>2, <3>1, <3>2 DEF Service!Refuse, Refused, Serving
    <3> QED BY <3>3 DEF Service!Next
  <2> QED BY <2>3, <2>4
<1>5. CASE PushStore
  <2>1. hand' = hand
    BY <1>5 DEF PushStore
  <2>2. Refused' = Refused /\ Accepting' = Accepting /\ Serving' = Serving
    BY <1>5, <1>t DEF PushStore, TypeOK, Refused, Accepting, Serving
  <2>3. ~Live(tail)
    BY <1>5, <1>t DEF PushStore, IInv, RingShape, Phase, Live, TypeOK
  <2>4. head' = head /\ count' = count
    BY <1>5 DEF PushStore
  <2>5. ASSUME NEW k \in 1..count PROVE fds'[Place(k)] = fds[Place(k)]
    BY <1>5, <1>t, <2>3, PlaceLive DEF PushStore, TypeOK
  <2>6. LineOf' = LineOf
    BY <2>4, <2>5 DEF LineOf, Place
  <2> QED BY <1>p, <2>1, <2>2, <2>6 DEF Seen
<1>6. CASE PushAdvance
  <2>1. /\ count < Cap /\ fds[tail] = hand[Main] /\ hand[Main] # NoFd
        /\ count' = count + 1 /\ head' = head /\ fds' = fds
        /\ hand' = [hand EXCEPT ![Main] = NoFd]
    BY <1>6, <1>t DEF PushAdvance, IInv, Phase, Holds
  <2>2. /\ pc'[Main] = "pushUnlock"
        /\ \A w \in Workers : pc'[w] = pc[w] \/ (pc[w] = "asleep" /\ pc'[w] = "popLock")
    BY <1>6, <1>t DEF PushAdvance, Signalled, Asleep, TypeOK
  <2>3. ~Refused /\ ~Refused' /\ Accepting /\ Accepting' /\ hand'[Main] = NoFd
    BY <1>6, <1>t, <2>1, <2>2 DEF PushAdvance, Refused, Accepting, TypeOK
  <2>4. Serving' = Serving
    BY <1>t, <2>1, <2>2 DEF TypeOK, Serving
  <2>5. (head + (count + 1) - 1) % Cap = tail
    <3>1. (head + (count + 1) - 1) % Cap =
            IF head + (count + 1) <= Cap THEN head + (count + 1) - 1
                                         ELSE head + (count + 1) - 1 - Cap
      BY <1>t, <2>1, PlaceIs DEF TypeOK
    <3> QED BY <1>t, <3>1 DEF IInv, RingShape, TypeOK
  <2>6. LineOf' = Append(LineOf, hand[Main])
    <3>1. /\ LineOf \in Seq(Fds \cup {NoFd}) /\ Len(LineOf) = count /\ count \in Nat
          /\ hand[Main] \in Fds \cup {NoFd}
      BY <1>t, LineType DEF TypeOK
    <3>2. LineOf' \in Seq(Fds \cup {NoFd}) /\ Len(LineOf') = count + 1
      <4>1. LineOf' = [k \in 1..(count + 1) |-> fds[(head + k - 1) % Cap]]
        BY <2>1 DEF LineOf
      <4>2. \A k \in 1..(count + 1) : (head + k - 1) % Cap \in Slots
        <5> SUFFICES ASSUME NEW k \in 1..(count + 1) PROVE (head + k - 1) % Cap \in Slots
          OBVIOUS
        <5>1. k \in 1..Cap /\ head \in Slots
          BY <1>t, <2>1 DEF TypeOK
        <5> QED BY <5>1, PlaceIs
      <4> QED BY <1>t, <3>1, <4>1, <4>2 DEF TypeOK
    <3>3. \A k \in 1..count : LineOf'[k] = LineOf[k]
      BY <2>1, <3>1 DEF LineOf
    <3>4. LineOf'[count + 1] = hand[Main]
      BY <2>1, <2>5, <3>1 DEF LineOf
    <3> QED BY <3>1, <3>2, <3>3, <3>4, AppendProperties, SeqEqual
  <2>7. Service!Admit
    BY <1>t, <1>p, <2>1, <2>3, <2>4, <2>6, LineType DEF Service!Admit, Refused, Serving
  <2> QED BY <2>7 DEF Service!Next
<1>7. CASE RejectBusy
  <2>1. LineOf' = LineOf
    BY <1>7, SameLine DEF RejectBusy
  <2>2. Refused /\ ~Refused' /\ Accepting /\ Accepting' /\ hand'[Main] = NoFd
    BY <1>7, <1>t DEF RejectBusy, Refused, Accepting, TypeOK
  <2>3. Serving' = Serving
    BY <1>7, <1>t DEF RejectBusy, TypeOK, Serving
  <2>4. Service!Turn
    BY <1>p, <2>1, <2>2, <2>3 DEF Service!Turn, Refused, Serving
  <2> QED BY <2>4 DEF Service!Next
<1> QED
  BY <1>1, <1>2, <1>3, <1>4, <1>5, <1>6, <1>7 DEF MainStep

\* The advance of head is the service's Begin, the call of an upstream its Forward, and the
\* close its Finish.
LEMMA WorkerStepService ==
  ASSUME IInv, NEW w \in Workers, WorkerStep(w)
  PROVE  [Service!Next]_Service!vars
<1> USE CapAssumption, ThreadAssumption, FdAssumption DEF Goto
<1> w \in Threads /\ w # Main
  OBVIOUS
<1>t. TypeOK /\ (Holds(w) => hand[w] \in open /\ hand[w] # NoFd)
  BY DEF IInv, OwnedOnce, NoneStale, TypeOK
<1>s. SUFFICES UNCHANGED Seen \/ Service!Next
  BY DEF Service!vars, Seen, Refused, Serving
<1>m. pc'[Main] = pc[Main] /\ hand'[Main] = hand[Main]
  BY <1>t DEF WorkerStep, PopLock, PopTest, PopWait, SpuriousWake, PopTake, PopAdvance,
              PopUnlock, Handle, Forward, Return, Closes, TypeOK
<1>r. Refused' = Refused /\ Accepting' = Accepting
  BY <1>m DEF Refused, Accepting
<1>p. \A u \in Workers : u # w => pc'[u] = pc[u]
  BY <1>t DEF WorkerStep, PopLock, PopTest, PopWait, SpuriousWake, PopTake, PopAdvance,
              PopUnlock, Handle, Forward, Return, Closes, TypeOK
<1>1. CASE PopLock(w) \/ PopTest(w) \/ PopWait(w) \/ SpuriousWake(w) \/ PopTake(w) \/ PopUnlock(w)
  <2>1. LineOf' = LineOf
    BY <1>1, SameLine DEF PopLock, PopTest, PopWait, SpuriousWake, PopTake, PopUnlock
  <2>2. Serving' = Serving
    BY <1>1, <1>t DEF PopLock, PopTest, PopWait, SpuriousWake, PopTake, PopUnlock, TypeOK,
                      Serving
  <2>3. pc[w] # "perform" /\ pc'[w] # "perform"
    BY <1>1, <1>t DEF PopLock, PopTest, PopWait, SpuriousWake, PopTake, PopUnlock, TypeOK
  <2>4. Performing' = Performing
    BY <1>p, <2>3 DEF Performing
  <2> QED BY <2>1, <2>2, <2>4, <1>m, <1>r DEF Seen
<1>2. CASE PopAdvance(w)
  <2>1. /\ count > 0 /\ hand[w] = fds[head]
        /\ count' = count - 1 /\ head' = Succ(head) /\ fds' = fds /\ hand' = hand
    BY <1>2 DEF PopAdvance, IInv, Phase
  <2>2. /\ LineOf \in Seq(Fds \cup {NoFd}) /\ Len(LineOf) = count /\ count \in 0..Cap
        /\ LineOf # <<>>
    BY <1>t, <2>1, LineType
  <2>3. Head(LineOf) = hand[w]
    <3>1. (head + 1 - 1) % Cap = head
      <4>1. head \in Slots /\ 1 \in 1..Cap
        BY <1>t DEF TypeOK
      <4> QED BY <4>1, PlaceIs
    <3>2. LineOf[1] = hand[w]
      BY <2>1, <2>2, <3>1 DEF LineOf
    <3> QED BY <2>2, <3>2
  <2>4. LineOf' = Tail(LineOf)
    <3>1. LineOf' \in Seq(Fds \cup {NoFd}) /\ Len(LineOf') = count - 1
      <4>1. LineOf' = [k \in 1..(count - 1) |-> fds[(Succ(head) + k - 1) % Cap]]
        BY <2>1 DEF LineOf
      <4>2. \A k \in 1..(count - 1) : (Succ(head) + k - 1) % Cap \in Slots
        <5> SUFFICES ASSUME NEW k \in 1..(count - 1) PROVE (Succ(head) + k - 1) % Cap \in Slots
          OBVIOUS
        <5>1. k \in 1..Cap /\ Succ(head) \in Slots
          BY <1>t, <2>2, SuccStep DEF TypeOK
        <5> QED BY <5>1, PlaceIs
      <4> QED BY <1>t, <2>1, <2>2, <4>1, <4>2 DEF TypeOK
    <3>2. ASSUME NEW k \in 1..(count - 1) PROVE LineOf'[k] = LineOf[k + 1]
      <4>1. /\ head \in Slots /\ Succ(head) \in Slots /\ k \in 1..Cap /\ k + 1 \in 1..Cap
            /\ Succ(head) = head + 1 \/ (head + 1 = Cap /\ Succ(head) = 0)
        BY <1>t, <2>2, SuccStep DEF TypeOK
      <4>2. (Succ(head) + k - 1) % Cap
              = IF Succ(head) + k <= Cap THEN Succ(head) + k - 1 ELSE Succ(head) + k - 1 - Cap
        BY <4>1, PlaceIs
      <4>3. (head + (k + 1) - 1) % Cap
              = IF head + (k + 1) <= Cap THEN head + (k + 1) - 1 ELSE head + (k + 1) - 1 - Cap
        BY <4>1, PlaceIs
      <4>4. (Succ(head) + k - 1) % Cap = (head + (k + 1) - 1) % Cap
        BY <4>1, <4>2, <4>3
      <4> QED BY <2>1, <2>2, <4>4 DEF LineOf
    <3>3. /\ Tail(LineOf) \in Seq(Fds \cup {NoFd}) /\ Len(Tail(LineOf)) = count - 1
          /\ \A k \in 1..(count - 1) : Tail(LineOf)[k] = LineOf[k + 1]
      BY <2>2, HeadTailProperties
    <3> QED BY <3>1, <3>2, <3>3, SeqEqual
  <2>5. Serving[w] = NoFd /\ Serving' = [Serving EXCEPT ![w] = hand[w]]
    BY <1>2, <1>t, <2>1 DEF PopAdvance, TypeOK, Serving
  <2>6. pc[w] # "perform" /\ pc'[w] # "perform"
    BY <1>2, <1>t DEF PopAdvance, TypeOK
  <2>7. Performing' = Performing
    BY <1>p, <2>6 DEF Performing
  <2>8. Service!Begin(w)
    BY <1>m, <1>r, <2>2, <2>3, <2>4, <2>5, <2>7 DEF Service!Begin, Refused, Serving
  <2> QED BY <2>8 DEF Service!Next
<1>3. CASE Handle(w) \/ Return(w)
  <2>0. pc[w] \in {"handle", "perform"} /\ Closes(w)
    BY <1>3 DEF Handle, Return
  <2>1. LineOf' = LineOf
    BY <2>0, SameLine DEF Closes
  <2>2. Serving[w] # NoFd /\ Serving' = [Serving EXCEPT ![w] = NoFd]
    BY <2>0, <1>t DEF Closes, TypeOK, Serving, Holds
  <2>3. pc'[w] # "perform"
    BY <2>0, <1>t DEF Closes, TypeOK
  <2>4. Performing' = Performing \ {w}
    BY <1>p, <2>3 DEF Performing
  <2>5. Service!Finish(w)
    BY <1>m, <1>r, <2>1, <2>2, <2>4 DEF Service!Finish, Refused, Serving
  <2> QED BY <2>5 DEF Service!Next
<1>4. CASE Forward(w)
  <2>1. LineOf' = LineOf
    BY <1>4, SameLine DEF Forward
  <2>2. pc[w] = "handle" /\ pc'[w] = "perform"
    BY <1>4, <1>t DEF Forward, TypeOK
  <2>3. Serving[w] # NoFd /\ Serving' = Serving
    BY <1>4, <1>t, <1>p, <2>2 DEF Forward, Serving, Holds
  <2>4. w \notin Performing /\ Performing' = Performing \cup {w}
    BY <1>p, <2>2 DEF Performing
  <2>5. Service!Forward(w)
    BY <1>m, <1>r, <2>1, <2>3, <2>4 DEF Service!Forward, Refused, Serving
  <2> QED BY <2>5 DEF Service!Next
<1> QED BY <1>1, <1>2, <1>3, <1>4 DEF WorkerStep

\* A pool that does nothing is a service that does nothing.
LEMMA StutterService == UNCHANGED vars => UNCHANGED Service!vars
  BY DEF vars, Service!vars, LineOf, Performing, Accepting

\* The pool implements the service, for any number of workers and any capacity: nobody is
\* served before one who was accepted earlier, or turned away while there is room
\* (queue_push, queue_pop, main; main.c:32-65, 187-203).
THEOREM ServesInOrder == Spec => Service!Spec
<1>1. Init => Service!Init
  BY InitService
<1>2. IInv /\ HInv /\ [Next]_vars => [Service!Next]_Service!vars
  BY MainStepService, WorkerStepService, StutterService DEF Next, Exited
<1> QED BY <1>1, <1>2, Invariance, HandEmpty, PTL DEF Spec, Service!Spec
=============================================================================
