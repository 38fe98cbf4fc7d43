----------------------------- MODULE ConnQueue -----------------------------
(***************************************************************************)
(* The connection pool of src/main.c: the main thread accepts connections  *)
(* and pushes their descriptors into a ring guarded by one mutex and one   *)
(* condition variable; WORKER_COUNT detached threads pop and serve them.   *)
(*                                                                         *)
(* A thread's pc names the next step of it that other threads can tell     *)
(* apart: the two halves of each critical section are separate steps, so   *)
(* that what the mutex is for is visible.                                  *)
(***************************************************************************)
EXTENDS Naturals, Sequences, FiniteSets

CONSTANTS
  Workers,   \* the worker threads (WORKER_COUNT of them)
  Main,      \* the main thread
  Fds,       \* descriptors the kernel may hand out
  NoFd,      \* no descriptor
  Cap        \* CONN_QUEUE_CAP

ASSUME CapAssumption == Cap \in Nat \ {0}
ASSUME ThreadAssumption == Main \notin Workers
ASSUME WorkersAssumption == IsFiniteSet(Workers)
ASSUME FdAssumption == NoFd \notin Fds \cup Workers \cup {Main}

VARIABLES
  fds,                \* g_queue.fds
  head, tail, count,  \* g_queue.head, .tail, .count
  lock,               \* owner of g_queue.lock, or NoOne
  pc,                 \* where each thread is
  hand,               \* the descriptor in each thread's local variable, or NoFd
  open                \* accepted descriptors not closed yet (kernel's side)

ring == <<fds, head, tail, count>>
vars == <<ring, lock, pc, hand, open>>

Threads == Workers \cup {Main}
Slots == 0..(Cap - 1)
NoOne == NoFd

MainPC == {"create", "accept", "pushLock", "pushTest", "pushStore",
           "pushAdvance", "pushUnlock", "reject", "cleanup", "exited"}
WorkerPC == {"unborn", "popLock", "popTest", "popWait", "asleep",
             "popTake", "popAdvance", "popUnlock", "handle", "perform"}

\* mutant: the index runs off the end of the array.
Succ_NoWrap(i) == i + 1

Succ(i) == (i + 1) % Cap

\* mutant: the queue counts as full one place early.
HasRoom_OneShort == count < Cap - 1

HasRoom == count < Cap
Alive == pc[Main] # "exited"

\* Move thread t to label l.
Goto(t, l) == pc' = [pc EXCEPT ![t] = l]

Asleep(p) == {w \in Workers : p[w] = "asleep"}

\* mutant: signal only when the queue was empty.
Signalled_IfWasEmpty(p) ==
  IF Asleep(p) = {} \/ count # 0
  THEN {p}
  ELSE {[p EXCEPT ![w] = "popLock"] : w \in Asleep(p)}

\* pthread_cond_signal in a thread that is about to run with pcs p: some waiter,
\* if there is one, leaves the wait and contends for the mutex again.
Signalled(p) ==
  IF Asleep(p) = {}
  THEN {p}
  ELSE {[p EXCEPT ![w] = "popLock"] : w \in Asleep(p)}

Init ==
  /\ fds = [i \in Slots |-> NoFd]
  /\ head = 0
  /\ tail = 0
  /\ count = 0
  /\ lock = NoOne
  /\ pc = [t \in Threads |-> IF t = Main THEN "create" ELSE "unborn"]
  /\ hand = [t \in Threads |-> NoFd]
  /\ open = {}

-----------------------------------------------------------------------------
(* start_workers: threads are created one by one and run at once.          *)

CreateWorker(w) ==
  /\ pc[Main] = "create"
  /\ pc[w] = "unborn"
  /\ pc' = [pc EXCEPT ![w] = "popLock"]
  /\ UNCHANGED <<ring, lock, hand, open>>

\* A failed allocation or pthread_create, or a failed socket, bind or listen:
\* main returns and the process is gone, threads already created included.
StartFails ==
  /\ pc[Main] = "create"
  /\ Goto(Main, "exited")
  /\ UNCHANGED <<ring, lock, hand, open>>

Listen ==
  /\ pc[Main] = "create"
  /\ \A w \in Workers : pc[w] # "unborn"
  /\ Goto(Main, "accept")
  /\ UNCHANGED <<ring, lock, hand, open>>

-----------------------------------------------------------------------------
(* The main thread: accept, queue_push, reject_busy.                       *)

\* accept interrupted by a signal goes round the loop and changes nothing.
Accept(fd) ==
  /\ pc[Main] = "accept"
  /\ fd \notin open
  /\ open' = open \cup {fd}
  /\ hand' = [hand EXCEPT ![Main] = fd]
  /\ Goto(Main, "pushLock")
  /\ UNCHANGED <<ring, lock>>

\* Any other error of accept ends the loop; the workers still run while main
\* cleans up.
AcceptFails ==
  /\ pc[Main] = "accept"
  /\ Goto(Main, "cleanup")
  /\ UNCHANGED <<ring, lock, hand, open>>

Exit ==
  /\ pc[Main] = "cleanup"
  /\ Goto(Main, "exited")
  /\ UNCHANGED <<ring, lock, hand, open>>

PushLock ==
  /\ pc[Main] = "pushLock"
  /\ lock = NoOne
  /\ lock' = Main
  /\ Goto(Main, "pushTest")
  /\ UNCHANGED <<ring, hand, open>>

PushTest ==
  /\ pc[Main] = "pushTest"
  /\ Goto(Main, IF HasRoom THEN "pushStore" ELSE "pushUnlock")
  /\ UNCHANGED <<ring, lock, hand, open>>

PushStore ==
  /\ pc[Main] = "pushStore"
  /\ fds' = [fds EXCEPT ![tail] = hand[Main]]
  /\ Goto(Main, "pushAdvance")
  /\ UNCHANGED <<head, tail, count, lock, hand, open>>

\* The descriptor now belongs to the ring: rc = 0 is hand[Main] = NoFd.
PushAdvance ==
  /\ pc[Main] = "pushAdvance"
  /\ tail' = Succ(tail)
  /\ count' = count + 1
  /\ hand' = [hand EXCEPT ![Main] = NoFd]
  /\ pc' \in Signalled([pc EXCEPT ![Main] = "pushUnlock"])
  /\ UNCHANGED <<fds, head, lock, open>>

\* mutant: the result of queue_push is ignored.
PushUnlock_IgnoresRc ==
  /\ pc[Main] = "pushUnlock"
  /\ lock' = NoOne
  /\ Goto(Main, "accept")
  /\ UNCHANGED <<ring, hand, open>>

PushUnlock ==
  /\ pc[Main] = "pushUnlock"
  /\ lock' = NoOne
  /\ Goto(Main, IF hand[Main] = NoFd THEN "accept" ELSE "reject")
  /\ UNCHANGED <<ring, hand, open>>

\* reject_busy: a 503 that may not block, then close.
RejectBusy ==
  /\ pc[Main] = "reject"
  /\ open' = open \ {hand[Main]}
  /\ hand' = [hand EXCEPT ![Main] = NoFd]
  /\ Goto(Main, "accept")
  /\ UNCHANGED <<ring, lock>>

MainStep ==
  \/ StartFails \/ Listen \/ (\E w \in Workers : CreateWorker(w))
  \/ (\E fd \in Fds : Accept(fd)) \/ AcceptFails \/ Exit
  \/ PushLock \/ PushTest \/ PushStore \/ PushAdvance \/ PushUnlock
  \/ RejectBusy

-----------------------------------------------------------------------------
(* A worker: queue_pop, handle_client.                                     *)

\* mutant: queue_pop does not take the mutex.
PopLock_NoMutex(w) ==
  /\ pc[w] = "popLock"
  /\ Goto(w, "popTest")
  /\ UNCHANGED <<ring, lock, hand, open>>

PopLock(w) ==
  /\ pc[w] = "popLock"
  /\ lock = NoOne
  /\ lock' = w
  /\ Goto(w, "popTest")
  /\ UNCHANGED <<ring, hand, open>>

PopTest(w) ==
  /\ pc[w] = "popTest"
  /\ Goto(w, IF count = 0 THEN "popWait" ELSE "popTake")
  /\ UNCHANGED <<ring, lock, hand, open>>

\* pthread_cond_wait releases the mutex and sleeps in one step.
PopWait(w) ==
  /\ pc[w] = "popWait"
  /\ lock' = NoOne
  /\ Goto(w, "asleep")
  /\ UNCHANGED <<ring, hand, open>>

\* POSIX allows pthread_cond_wait to return without a signal.
SpuriousWake(w) ==
  /\ pc[w] = "asleep"
  /\ Goto(w, "popLock")
  /\ UNCHANGED <<ring, lock, hand, open>>

PopTake(w) ==
  /\ pc[w] = "popTake"
  /\ hand' = [hand EXCEPT ![w] = fds[head]]
  /\ Goto(w, "popAdvance")
  /\ UNCHANGED <<ring, lock, open>>

PopAdvance(w) ==
  /\ pc[w] = "popAdvance"
  /\ head' = Succ(head)
  /\ count' = count - 1
  /\ Goto(w, "popUnlock")
  /\ UNCHANGED <<fds, tail, lock, hand, open>>

PopUnlock(w) ==
  /\ pc[w] = "popUnlock"
  /\ lock' = NoOne
  /\ Goto(w, "handle")
  /\ UNCHANGED <<ring, hand, open>>

\* handle_client ends with close(sock), on whatever path it came there.
Closes(w) ==
  /\ open' = open \ {hand[w]}
  /\ hand' = [hand EXCEPT ![w] = NoFd]
  /\ Goto(w, "popLock")
  /\ UNCHANGED <<ring, lock>>

\* Every request that is answered without asking an upstream, and every one that
\* is refused, broken off or late.
Handle(w) ==
  /\ pc[w] = "handle"
  /\ Closes(w)

\* A request to /proxy reaches curl_easy_perform, for which no timeout is set.
Forward(w) ==
  /\ pc[w] = "handle"
  /\ Goto(w, "perform")
  /\ UNCHANGED <<ring, lock, hand, open>>

\* The upstream answered, or the transfer failed: the reply is written.
Return(w) ==
  /\ pc[w] = "perform"
  /\ Closes(w)

WorkerStep(w) ==
  /\ Alive
  /\ \/ PopLock(w) \/ PopTest(w) \/ PopWait(w) \/ SpuriousWake(w)
     \/ PopTake(w) \/ PopAdvance(w) \/ PopUnlock(w)
     \/ Handle(w) \/ Forward(w) \/ Return(w)

Exited == ~Alive /\ UNCHANGED vars

Next == MainStep \/ (\E w \in Workers : WorkerStep(w)) \/ Exited

Spec == Init /\ [][Next]_vars

(***************************************************************************)
(* Threads that can run do run.  Accepting is up to the clients, and a     *)
(* spurious wake-up to nobody.  Reading a request and writing a reply end, *)
(* because every read and write of the client's socket has a timeout       *)
(* (SOCKET_TIMEOUT_SEC) and the loops around them are bounded.  Nothing is *)
(* assumed of Return: perform_api_call sets no timeout, so an upstream     *)
(* that keeps silent holds the worker for as long as it likes.             *)
(* A thread that contends for the mutex again and again gets it in the end *)
(* (strong fairness of the two lock steps): a pthread mutex promises no    *)
(* order, but starves nobody for ever.                                     *)
(***************************************************************************)
Fairness ==
  /\ WF_vars(Listen \/ \E w \in Workers : CreateWorker(w))
  /\ SF_vars(PushLock)
  /\ WF_vars(PushTest \/ PushStore \/ PushAdvance \/ PushUnlock \/ RejectBusy)
  /\ \A w \in Workers :
       /\ SF_vars(Alive /\ PopLock(w))
       /\ WF_vars(Alive /\ (PopTest(w) \/ PopWait(w) \/ PopTake(w)
                             \/ PopAdvance(w) \/ PopUnlock(w)
                             \/ Handle(w) \/ Forward(w)))

FairSpec == Spec /\ Fairness

-----------------------------------------------------------------------------
(* Properties.                                                             *)

\* Every variable has its type, whatever the interleaving: in particular head
\* and tail stay inside the array of queue_push and queue_pop, and count within
\* its capacity.
TypeOK ==
  /\ fds \in [Slots -> Fds \cup {NoFd}]
  /\ head \in Slots
  /\ tail \in Slots
  /\ count \in 0..Cap
  /\ lock \in Threads \cup {NoOne}
  /\ pc \in [Threads -> MainPC \cup WorkerPC]
  /\ pc[Main] \in MainPC
  /\ \A w \in Workers : pc[w] \in WorkerPC
  /\ hand \in [Threads -> Fds \cup {NoFd}]
  /\ open \subseteq Fds

\* Slot i is one of the count slots from head on, round the ring.
Live(i) == \/ head <= i /\ i < head + count
           \/ i + Cap < head + count

\* Thread t is responsible for closing the descriptor in its hand.
Holds(t) ==
  IF t = Main
  THEN \/ pc[t] \in {"pushLock", "pushTest", "pushStore", "pushAdvance", "reject"}
       \/ pc[t] = "pushUnlock" /\ hand[t] # NoFd
  ELSE pc[t] \in {"popUnlock", "handle", "perform"}

\* The threads that run code the mutex protects.
InSection(t) == pc[t] \in {"pushTest", "pushStore", "pushAdvance", "pushUnlock",
                          "popTest", "popWait", "popTake", "popAdvance", "popUnlock"}

\* No accepted connection is forgotten: whoever closes it has it, be it a live
\* slot of the ring or a thread (queue_push, queue_pop, reject_busy).
NoneLeaked ==
  \A fd \in open : \/ \E i \in Slots : Live(i) /\ fds[i] = fd
                   \/ \E t \in Threads : Holds(t) /\ hand[t] = fd

\* No closed descriptor is queued or served, although the kernel hands the
\* number of a closed descriptor out again at once.
NoneStale ==
  /\ \A i \in Slots : Live(i) => fds[i] \in open
  /\ \A t \in Threads : Holds(t) => hand[t] \in open

\* No connection is served by two workers, or served and still queued, or queued
\* twice: close then hits one connection, and only one thread answers it.
NoneShared ==
  /\ \A i, j \in Slots : Live(i) /\ Live(j) /\ fds[i] = fds[j] => i = j
  /\ \A t, u \in Threads : Holds(t) /\ Holds(u) /\ hand[t] = hand[u] => t = u
  /\ \A i \in Slots, t \in Threads : Live(i) /\ Holds(t) => fds[i] # hand[t]

\* Every open connection has exactly one owner.
OwnedOnce == NoneLeaked /\ NoneStale /\ NoneShared

\* No lost wake-up and no idle worker: while a worker sleeps in
\* pthread_cond_wait, every queued connection has an awake worker of its own on
\* its way to the queue.  One signal per push (and not one per queue that turns
\* non-empty) is what makes this true.
WorkConserving ==
  Asleep(pc) # {} =>
    count <= Cardinality({w \in Workers :
                  pc[w] \in {"popLock", "popTest", "popTake", "popAdvance"}})

\* The ring as the line of the abstract service, oldest connection first.
LineOf == [k \in 1..count |-> fds[(head + k - 1) % Cap]]

Accepting == pc[Main] \notin {"cleanup", "exited"}

\* The workers inside curl_easy_perform.
Performing == {w \in Workers : pc[w] = "perform"}

Service == INSTANCE ConnService WITH
  line <- LineOf,
  arriving <- hand[Main],
  refused <- pc[Main] = "reject" \/ (pc[Main] = "pushUnlock" /\ hand[Main] # NoFd),
  serving <- [w \in Workers |->
                IF pc[w] \in {"popUnlock", "handle", "perform"} THEN hand[w] ELSE NoFd],
  away <- Performing,
  up <- Accepting

\* The pool implements ConnService: connections are served in the order they
\* were accepted, refused only when CONN_QUEUE_CAP of them wait at the moment of
\* the test, and the line moves whenever a worker is free, while other workers
\* may be held by an upstream for ever.
ImplementsService == Service!FairSpec

\* Unless upstreams hold all the workers from some moment on, every accepted
\* connection is closed in the end, served or refused, or waits for nothing but
\* its own upstream; or the server stops accepting.  One worker that comes back
\* again and again is enough for everybody in the line (main.c:49-65,
\* call_api.c:133-144).
EventuallyServed ==
  []<>(Performing # Workers) =>
    \A fd \in Fds :
      (fd \in open) ~> \/ fd \notin open
                       \/ \E w \in Performing : hand[w] = fd
                       \/ ~Accepting
=============================================================================
