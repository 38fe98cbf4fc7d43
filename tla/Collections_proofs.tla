------------------------- MODULE Collections_proofs -------------------------
(***************************************************************************)
(* Proofs about Collections, for any windows, entries, edits and reloads.  *)
(***************************************************************************)
EXTENDS Collections, SequenceTheorems, TLAPS

\* While the user was never careless: at most one save is on its way, it holds every
\* edit, and when there is none the server has them all, unless the last was lost.
InStep ==
  careless = {} =>
    /\ \A w \in Windows : flight[w] # <<>> =>
         /\ flight[w] = <<newest>>
         /\ \A v \in Windows : flight[v] # <<>> => v = w
    /\ ~lost /\ Quiet => server = newest

IInv == TypeOK /\ InStep

-----------------------------------------------------------------------------
\* An edit of a list makes a list.
LEMMA ChangedType ==
  ASSUME NEW l \in Lists, NEW es, NEW n \in 0..MaxEdits
  PROVE  Changed(l, es, n) \in Lists
  BY DEF Changed, Lists

\* What is left of the saves of a window when one of them is done with.
LEMMA RemoveAtType ==
  ASSUME NEW S, NEW s \in Seq(S), NEW k \in DOMAIN s
  PROVE  RemoveAt(s, k) \in Seq(S)
<1>1. k \in 1..Len(s) /\ Len(s) \in Nat
  OBVIOUS
<1>2. SubSeq(s, 1, k - 1) \in Seq(S)
  BY <1>1, SubSeqProperties
<1>3. SubSeq(s, k + 1, Len(s)) \in Seq(S)
  BY <1>1, SubSeqProperties
<1>. QED
  BY <1>2, <1>3, ConcatProperties DEF RemoveAt

\* When there was one, none is left.
LEMMA RemoveOnly ==
  ASSUME NEW S, NEW x \in S, NEW k \in DOMAIN <<x>>
  PROVE  RemoveAt(<<x>>, k) = <<>>
<1>1. k = 1
  OBVIOUS
<1>2. SubSeq(<<x>>, 1, 0) = <<>> /\ SubSeq(<<x>>, 2, 1) = <<>>
  OBVIOUS
<1>3. <<>> \o <<>> = <<>>
  OBVIOUS
<1>. QED
  BY <1>1, <1>2, <1>3 DEF RemoveAt

LEMMA InitOK == Init => IInv
<1>. SUFFICES ASSUME Init PROVE IInv
  OBVIOUS
<1>1. [Entries -> {Absent, 1}] \subseteq Lists /\ Empty \in Lists
  BY BoundsAssumption DEF Lists, Absent, Empty
<1>2. TypeOK
  <2>1. flight \in [Windows -> Seq(Lists)]
    BY DEF Init
  <2>2. server \in Lists \cup {NoList} /\ newest \in Lists
    BY <1>1, NoListAssumption DEF Init
  <2>3. list \in [Windows -> Lists] /\ loaded \in [Windows -> Lists \cup {NoList}]
    BY <1>1 DEF Init
  <2>. QED
    BY <2>1, <2>2, <2>3, BoundsAssumption DEF Init, TypeOK
<1>3. InStep
  BY DEF Init, InStep, Quiet
<1>. QED
  BY <1>2, <1>3 DEF IInv

-----------------------------------------------------------------------------
LEMMA EditKeeps ==
  ASSUME IInv, NEW w \in Windows, Edit(w)
  PROVE  IInv'
<1>1. PICK es, n : n \in 0..MaxEdits /\ Becomes(w, es, n)
  <2>1. Absent \in 0..MaxEdits
    BY BoundsAssumption DEF Absent
  <2>2. ASSUME NEW es, Becomes(w, es, edits + 1)
        PROVE  \E fs, n : n \in 0..MaxEdits /\ Becomes(w, fs, n)
    <3>1. edits + 1 \in 0..MaxEdits
      BY <2>2, BoundsAssumption DEF Becomes, IInv, TypeOK
    <3>. QED
      BY <2>2, <3>1
  <2>. QED
    BY <2>1, <2>2, Zenon DEF Edit, SaveEntry, AddEntries, MoveEntries, RemoveEntries
<1>t. TypeOK
  BY DEF IInv
<1>l. Changed(list[w], es, n) \in Lists /\ Changed(newest, es, n) \in Lists
  BY <1>1, <1>t, ChangedType DEF TypeOK
<1>f. flight' = [flight EXCEPT ![w] = Append(@, Changed(list[w], es, n))]
  BY <1>1 DEF Becomes, StoreSaved
<1>2. TypeOK'
  <2>1. list' \in [Windows -> Lists] /\ newest' \in Lists
    BY <1>1, <1>t, <1>l DEF Becomes, TypeOK
  <2>2. flight' \in [Windows -> Seq(Lists)]
    BY <1>t, <1>l, <1>f, AppendProperties DEF TypeOK
  <2>3. edits' \in 1..MaxEdits
    BY <1>1, <1>t, BoundsAssumption DEF Becomes, TypeOK
  <2>4. careless' \subseteq {"early", "overlap", "stale"}
    BY <1>1, <1>t DEF Becomes, TypeOK
  <2>. QED
    BY <1>1, <1>t, <2>1, <2>2, <2>3, <2>4 DEF Becomes, TypeOK
<1>3. ASSUME careless' = {} PROVE InStep'
  <2>1. Quiet /\ list[w] = newest
    BY <1>1, <1>3 DEF Becomes
  <2>2. flight[w] = <<>>
    BY <2>1 DEF Quiet
  <2>3. flight'[w] = <<newest'>> /\ \A v \in Windows : v # w => flight'[v] = <<>>
    BY <1>1, <1>t, <1>f, <2>1, <2>2 DEF TypeOK, Quiet, Becomes
  <2>4. ~Quiet'
    BY <2>3 DEF Quiet
  <2>. QED
    BY <2>3, <2>4 DEF InStep
<1>. QED
  BY <1>2, <1>3 DEF IInv, InStep

\* A save is done with, served or not.
LEMMA SaveKeeps ==
  ASSUME IInv, NEW w \in Windows, NEW k \in DOMAIN flight[w], Apply(w, k) \/ Lose(w, k)
  PROVE  IInv'
<1>t. TypeOK /\ InStep
  BY DEF IInv
<1>f. flight' = [flight EXCEPT ![w] = RemoveAt(@, k)] /\ UNCHANGED <<page, edits, reloads, newest, careless>>
  BY DEF Apply, Lose
<1>s. flight[w] \in Seq(Lists) /\ flight[w][k] \in Lists
  BY <1>t DEF TypeOK
<1>1. TypeOK'
  <2>1. flight' \in [Windows -> Seq(Lists)]
    BY <1>t, <1>f, <1>s, RemoveAtType DEF TypeOK
  <2>2. server' \in Lists \cup {NoList} /\ lost' \in BOOLEAN
    BY <1>t, <1>s DEF Apply, Lose, TypeOK
  <2>. QED
    BY <1>t, <1>f, <2>1, <2>2 DEF TypeOK, page
<1>2. ASSUME careless' = {} PROVE InStep'
  <2>1. careless = {}
    BY <1>2, <1>f
  <2>2. flight[w] = <<newest>> /\ \A v \in Windows : flight[v] # <<>> => v = w
    BY <1>t, <2>1 DEF InStep
  <2>3. newest \in Lists /\ k = 1
    BY <1>t, <2>2 DEF TypeOK
  <2>4. RemoveAt(flight[w], k) = <<>>
    BY <2>2, <2>3, RemoveOnly
  <2>5. \A v \in Windows : flight'[v] = <<>>
    BY <1>t, <1>f, <2>2, <2>4 DEF TypeOK
  <2>6. ~lost' => server' = newest'
    BY <1>f, <2>2, <2>3 DEF Apply, Lose
  <2>. QED
    BY <2>5, <2>6 DEF InStep
<1>. QED
  BY <1>1, <1>2 DEF IInv, InStep

\* loadSaved touches neither the server nor what is on its way.
LEMMA LoadKeeps ==
  ASSUME IInv, NEW w \in Windows, Reload(w) \/ LoadServed(w) \/ LoadDone(w) \/ LoadFails(w)
  PROVE  IInv'
<1>t. TypeOK /\ InStep
  BY DEF IInv
<1>e. Empty \in Lists
  BY BoundsAssumption DEF Empty, Lists, Absent
<1>1. UNCHANGED <<server, flight, edits, history>>
  BY DEF Reload, LoadServed, LoadDone, LoadFails
<1>2. InStep'
  BY <1>t, <1>1 DEF InStep, Quiet, history
<1>3. loading' \in [Windows -> {"asked", "answered", "done"}]
  BY <1>t DEF Reload, LoadServed, LoadDone, LoadFails, TypeOK
<1>4. list' \in [Windows -> Lists]
  BY <1>t, <1>e DEF Reload, LoadServed, LoadDone, LoadFails, TypeOK
<1>5. loaded' \in [Windows -> Lists \cup {NoList}]
  BY <1>t, <1>e DEF Reload, LoadServed, LoadDone, LoadFails, TypeOK
<1>6. reloads' \in 0..MaxReloads
  BY <1>t, BoundsAssumption DEF Reload, LoadServed, LoadDone, LoadFails, TypeOK
<1>. QED
  BY <1>t, <1>1, <1>2, <1>3, <1>4, <1>5, <1>6 DEF IInv, TypeOK, history

LEMMA StepKeeps == IInv /\ [Next]_vars => IInv'
<1>. SUFFICES ASSUME IInv, [Next]_vars PROVE IInv'
  OBVIOUS
<1>1. CASE Next
  BY <1>1, EditKeeps, SaveKeeps, LoadKeeps DEF Next
<1>2. CASE UNCHANGED vars
  BY <1>2 DEF vars, page, history, IInv, TypeOK, InStep, Quiet
<1>. QED
  BY <1>1, <1>2

LEMMA Invariance == Spec => []IInv
<1>. QED
  BY InitOK, StepKeeps, PTL DEF Spec

-----------------------------------------------------------------------------
\* However many windows load, edit and save: savedList is a list in each of them, also
\* when the file was none (loadSaved, app.js:122-131).
THEOREM TypeCorrect == Spec => []TypeOK
<1>1. IInv => TypeOK
  BY DEF IInv
<1>. QED
  BY <1>1, Invariance, PTL

\* A user who waits for the load and for each save finds all edits on the server, for any
\* number of windows, edits, reloads and lost saves (storeSaved, app.js:131-135).
THEOREM Followed == Spec => []ServerFollows
<1>1. IInv => ServerFollows
  BY DEF IInv, InStep, ServerFollows
<1>. QED
  BY <1>1, Invariance, PTL
=============================================================================
