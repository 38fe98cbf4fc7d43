--------------------------- MODULE Folders_proofs ---------------------------
(***************************************************************************)
(* Proofs about Folders, for any ids, names, lists of earlier sessions and *)
(* collections, whatever MaxDepth, MaxList and MaxOps are.                 *)
(***************************************************************************)
EXTENDS Folders, FunctionTheorems, FiniteSetTheorems, SequenceTheorems, TLAPS

\* The places of js up to j.
UpTo(js, j) == {i \in js : i <= j}

\* Every place has a number of its own among those of js, from 1 to their number.
LEMMA Ranks ==
  ASSUME NEW n \in Nat, NEW js \in SUBSET (1..n)
  PROVE  /\ IsFiniteSet(js) /\ Cardinality(js) \in Nat
         /\ \A j \in js : Cardinality(UpTo(js, j)) \in 1..Cardinality(js)
         /\ \A i, j \in js : Cardinality(UpTo(js, i)) = Cardinality(UpTo(js, j)) => i = j
<1>1. IsFiniteSet(1..n)
  BY FS_Interval
<1>2. IsFiniteSet(js) /\ Cardinality(js) \in Nat
  BY <1>1, FS_Subset, FS_CardinalityType
<1>3. \A j \in js : /\ UpTo(js, j) \in SUBSET js /\ IsFiniteSet(UpTo(js, j))
                    /\ Cardinality(UpTo(js, j)) \in Nat
                    /\ Cardinality(UpTo(js, j)) <= Cardinality(js)
  <2>1. \A j \in js : UpTo(js, j) \in SUBSET js
    BY DEF UpTo
  <2>. QED
    BY <1>2, <2>1, FS_Subset, FS_CardinalityType
<1>4. ASSUME NEW j \in js PROVE Cardinality(UpTo(js, j)) # 0
  <2>1. j \in UpTo(js, j)
    BY DEF UpTo
  <2>. QED
    BY <1>3, <2>1, FS_EmptySet
<1>5. ASSUME NEW i \in js, NEW j \in js, i < j
      PROVE  Cardinality(UpTo(js, i)) # Cardinality(UpTo(js, j))
  <2>1. \A x \in js : x \in Nat
    OBVIOUS
  <2>2. UpTo(js, i) \in SUBSET UpTo(js, j)
    <3>1. \A x \in js : x <= i => x <= j
      BY <1>5, <2>1
    <3>. QED
      BY <3>1 DEF UpTo
  <2>3. j \in UpTo(js, j) /\ j \notin UpTo(js, i)
    BY <1>5, <2>1 DEF UpTo
  <2>. QED
    BY <1>3, <2>2, <2>3, FS_Subset
<1>6. \A i, j \in js : Cardinality(UpTo(js, i)) = Cardinality(UpTo(js, j)) => i = j
  <2>1. SUFFICES ASSUME NEW i \in js, NEW j \in js, i # j
                 PROVE  Cardinality(UpTo(js, i)) # Cardinality(UpTo(js, j))
    OBVIOUS
  <2>2. i < j \/ j < i
    BY <2>1
  <2>. QED
    BY <1>5, <2>2
<1>. QED
  BY <1>2, <1>3, <1>4, <1>6

\* And every number is that of a place: Nth finds it.
LEMMA NthIs ==
  ASSUME NEW n \in Nat, NEW js \in SUBSET (1..n), NEW k \in 1..Cardinality(js)
  PROVE  Nth(js, k) \in js /\ Cardinality(UpTo(js, Nth(js, k))) = k
<1>. DEFINE rank == [j \in js |-> Cardinality(UpTo(js, j))]
<1>1. IsFiniteSet(js) /\ Cardinality(js) \in Nat
  BY Ranks
<1>2. rank \in Injection(js, 1..Cardinality(js))
  BY Ranks DEF Injection, IsInjective
<1>3. /\ IsFiniteSet(1..Cardinality(js))
      /\ Cardinality(1..Cardinality(js)) = Cardinality(js)
  BY <1>1, FS_Interval
<1>4. rank \in Surjection(js, 1..Cardinality(js))
  BY <1>2, <1>3, FS_Injection
<1>5. \E j \in js : rank[j] = k
  BY <1>4 DEF Surjection
<1>6. \E j \in js : Cardinality({i \in js : i <= j}) = k
  BY <1>5 DEF UpTo
<1>. QED
  BY <1>6 DEF Nth, UpTo

\* What filter keeps is a list, of the entries at those places, each of them once.
LEMMA KeptIs ==
  ASSUME NEW S, NEW l \in Seq(S), NEW js \in SUBSET (DOMAIN l)
  PROVE  /\ Cardinality(js) \in Nat
         /\ Kept(l, js) \in Seq(S) /\ DOMAIN Kept(l, js) = 1..Cardinality(js)
         /\ \A k \in 1..Cardinality(js) : Nth(js, k) \in js /\ Kept(l, js)[k] = l[Nth(js, k)]
         /\ \A a, b \in 1..Cardinality(js) : Nth(js, a) = Nth(js, b) => a = b
         /\ \A j \in js : \E k \in 1..Cardinality(js) : Nth(js, k) = j
<1>1. Len(l) \in Nat /\ DOMAIN l = 1..Len(l) /\ js \in SUBSET (1..Len(l)) /\ l \in [1..Len(l) -> S]
  OBVIOUS
<1>2. Cardinality(js) \in Nat
  BY <1>1, Ranks
<1>3. \A k \in 1..Cardinality(js) : Nth(js, k) \in js /\ Cardinality(UpTo(js, Nth(js, k))) = k
  BY <1>1, NthIs
<1>4. Kept(l, js) \in [1..Cardinality(js) -> S]
  BY <1>1, <1>3 DEF Kept
<1>5. Kept(l, js) \in Seq(S) /\ DOMAIN Kept(l, js) = 1..Cardinality(js)
  BY <1>2, <1>4, SeqDef, LenProperties
<1>6. \A j \in js : \E k \in 1..Cardinality(js) : Nth(js, k) = j
  <2>1. TAKE j \in js
  <2>2. Cardinality(UpTo(js, j)) \in 1..Cardinality(js)
    BY <1>1, Ranks
  <2>3. Nth(js, Cardinality(UpTo(js, j))) = j
    BY <1>1, <1>3, <2>2, Ranks
  <2>. QED
    BY <2>2, <2>3
<1>7. \A a, b \in 1..Cardinality(js) : Nth(js, a) = Nth(js, b) => a = b
  BY <1>3
<1>8. \A k \in 1..Cardinality(js) : Kept(l, js)[k] = l[Nth(js, k)]
  BY DEF Kept
<1>. QED
  BY <1>2, <1>3, <1>5, <1>6, <1>7, <1>8

-----------------------------------------------------------------------------
\* Each of these makes a list of entries out of one, and no two requests in it get one id.

\* Requests have ids, settings have none.
LEMMA EntryIs ==
  ASSUME NEW e \in Entry
  PROVE  /\ e.meta \in BOOLEAN /\ e.at \in Seq(Names)
         /\ e.meta => e.id = NoId
         /\ ~e.meta => e.id \in Ids
  BY DEF Entry

\* An entry is added: settings, or a request whose id is new.
LEMMA AppendKeeps ==
  ASSUME NEW l \in Seq(Entry), Distinct(l), NEW e \in Entry, e.meta \/ e.id \notin IdsOf(l)
  PROVE  Append(l, e) \in Seq(Entry) /\ Distinct(Append(l, e))
  BY DEF Distinct, IdsOf

\* An entry changes, and stays what it was, with its id.
LEMMA ReplaceKeeps ==
  ASSUME NEW l \in Seq(Entry), Distinct(l), NEW i \in DOMAIN l, NEW e \in Entry,
         e.meta = l[i].meta, e.id = l[i].id
  PROVE  [l EXCEPT ![i] = e] \in Seq(Entry) /\ Distinct([l EXCEPT ![i] = e])
<1>1. [l EXCEPT ![i] = e] \in Seq(Entry)
  OBVIOUS
<1>2. /\ DOMAIN [l EXCEPT ![i] = e] = DOMAIN l
      /\ \A j \in DOMAIN l : /\ [l EXCEPT ![i] = e][j].meta = l[j].meta
                            /\ [l EXCEPT ![i] = e][j].id = l[j].id
  OBVIOUS
<1>. QED
  BY <1>1, <1>2 DEF Distinct

\* Entries are left out.
LEMMA KeptKeeps ==
  ASSUME NEW l \in Seq(Entry), Distinct(l), NEW js \in SUBSET (DOMAIN l)
  PROVE  Kept(l, js) \in Seq(Entry) /\ Distinct(Kept(l, js))
<1>1. /\ Kept(l, js) \in Seq(Entry) /\ DOMAIN Kept(l, js) = 1..Cardinality(js)
      /\ \A k \in 1..Cardinality(js) : Nth(js, k) \in js /\ Kept(l, js)[k] = l[Nth(js, k)]
      /\ \A a, b \in 1..Cardinality(js) : Nth(js, a) = Nth(js, b) => a = b
  BY KeptIs
<1>. QED
  BY <1>1 DEF Distinct

\* A list is added, whose ids are new.
LEMMA ConcatKeeps ==
  ASSUME NEW l \in Seq(Entry), Distinct(l), NEW m \in Seq(Entry), Distinct(m),
         \A i \in IdsOf(m) : i \notin IdsOf(l)
  PROVE  (l \o m) \in Seq(Entry) /\ Distinct(l \o m)
<1>. DEFINE c == l \o m
<1>1. c \in Seq(Entry) /\ Len(c) = Len(l) + Len(m) /\ DOMAIN c = 1..(Len(l) + Len(m))
  OBVIOUS
<1>2. \A k \in DOMAIN c : \/ k \in DOMAIN l /\ c[k] = l[k]
                          \/ k > Len(l) /\ k - Len(l) \in DOMAIN m /\ c[k] = m[k - Len(l)]
  OBVIOUS
<1>3. ASSUME NEW i \in DOMAIN c, NEW j \in DOMAIN c, ~c[i].meta, ~c[j].meta, c[i].id = c[j].id
      PROVE  i = j
  <2>1. CASE i \in DOMAIN l /\ c[i] = l[i] /\ j \in DOMAIN l /\ c[j] = l[j]
    BY <1>3, <2>1 DEF Distinct
  <2>2. CASE /\ i > Len(l) /\ i - Len(l) \in DOMAIN m /\ c[i] = m[i - Len(l)]
             /\ j > Len(l) /\ j - Len(l) \in DOMAIN m /\ c[j] = m[j - Len(l)]
    <3>1. i - Len(l) = j - Len(l)
      BY <1>3, <2>2 DEF Distinct
    <3>. QED
      BY <1>1, <3>1
  <2>3. CASE /\ i \in DOMAIN l /\ c[i] = l[i]
             /\ j - Len(l) \in DOMAIN m /\ c[j] = m[j - Len(l)]
    BY <1>3, <2>3 DEF IdsOf
  <2>4. CASE /\ j \in DOMAIN l /\ c[j] = l[j]
             /\ i - Len(l) \in DOMAIN m /\ c[i] = m[i - Len(l)]
    BY <1>3, <2>4 DEF IdsOf
  <2>. QED
    BY <1>2, <2>1, <2>2, <2>3, <2>4
<1>. QED
  BY <1>1, <1>3 DEF Distinct

\* Folders are renamed, as far as that gets.
LEMMA RenamedKeeps ==
  ASSUME NEW l \in Seq(Entry), Distinct(l), NEW p, NEW n \in Seq(Names)
  PROVE  Renamed(l, p, n) \in Seq(Entry) /\ Distinct(Renamed(l, p, n))
<1>. DEFINE m == Renamed(l, p, n)
<1>1. DOMAIN m = DOMAIN l /\ DOMAIN l = 1..Len(l) /\ Len(l) \in Nat
  BY DEF Renamed
<1>2. ASSUME NEW i \in DOMAIN l
      PROVE  m[i] \in Entry /\ m[i].id = l[i].id /\ m[i].meta = l[i].meta
  <2>1. l[i] \in Entry
    OBVIOUS
  <2>2. CASE i <= BeforeMeta(l) /\ Under(l[i].at, p)
    <3>1. m[i] = [l[i] EXCEPT !.at = n \o SubSeq(@, Len(p) + 1, Len(@))]
      BY <2>2 DEF Renamed
    <3>2. Len(p) <= Len(l[i].at) /\ l[i].at \in Seq(Names)
      BY <2>1, <2>2 DEF Entry, Under, IsPrefix
    <3>3. n \o SubSeq(l[i].at, Len(p) + 1, Len(l[i].at)) \in Seq(Names)
      BY <3>2
    <3>. QED
      BY <2>1, <3>1, <3>3 DEF Entry
  <2>3. CASE ~(i <= BeforeMeta(l) /\ Under(l[i].at, p))
    BY <2>1, <2>3 DEF Renamed
  <2>. QED
    BY <2>2, <2>3
<1>3. m \in Seq(Entry)
  <2>1. m \in [1..Len(l) -> Entry]
    BY <1>1, <1>2 DEF Renamed
  <2>. QED
    BY <1>1, <2>1, SeqDef
<1>. QED
  BY <1>1, <1>2, <1>3 DEF Distinct

-----------------------------------------------------------------------------
\* First finds the smallest place, if there is one.
LEMMA FirstIs ==
  ASSUME NEW js \in SUBSET (Nat \ {0})
  PROVE  /\ js = {} => First(js) = 0
         /\ js # {} => First(js) \in js
         /\ First(js) # 0 => First(js) \in js
<1>1. CASE js = {}
  BY <1>1 DEF First
<1>2. CASE js # {}
  <2>1. \E i \in js : \A j \in js : i <= j
    <3>1. PICK x \in js : TRUE
      BY <1>2
    <3>2. PICK i \in js : \A j \in js : ~(<<j, i>> \in OpToRel(<, Nat))
      BY <1>2, NatLessThanWellFounded, WFMin
    <3>3. \A j \in js : i \in Nat /\ j \in Nat /\ ~(j < i)
      BY <3>2, Zenon DEF OpToRel
    <3>. QED
      BY <3>3
  <2>. QED
    BY <1>2, <2>1 DEF First
<1>. QED
  BY <1>1, <1>2

\* The settings of a folder are found where they are.
LEMMA FirstMetaIs ==
  ASSUME NEW l \in Seq(Entry), NEW p
  PROVE  /\ FirstMeta(l, p) \in Nat
         /\ FirstMeta(l, p) # 0 => /\ FirstMeta(l, p) \in DOMAIN l
                                  /\ l[FirstMeta(l, p)].meta /\ l[FirstMeta(l, p)].at = p
<1>. DEFINE js == {j \in DOMAIN l : l[j].meta /\ l[j].at = p}
<1>1. js \in SUBSET (Nat \ {0})
  OBVIOUS
<1>2. FirstMeta(l, p) = First(js)
  BY DEF FirstMeta
<1>3. First(js) = 0 \/ First(js) \in js
  BY <1>1, FirstIs
<1>. QED
  BY <1>1, <1>2, <1>3

\* The requests of a list are its entries that are no settings.
LEMMA RequestsAre ==
  ASSUME NEW l \in Seq(Entry)
  PROVE  /\ Requests(l) \in Seq(Entry)
         /\ Range(Requests(l)) = {l[j] : j \in {i \in DOMAIN l : ~l[i].meta}}
<1>. DEFINE js == {i \in DOMAIN l : ~l[i].meta}
<1>1. js \in SUBSET (DOMAIN l)
  OBVIOUS
<1>2. Requests(l) = Kept(l, js)
  BY DEF Requests
<1>. HIDE DEF js
<1>3. /\ Kept(l, js) \in Seq(Entry) /\ DOMAIN Kept(l, js) = 1..Cardinality(js)
      /\ \A k \in 1..Cardinality(js) : Nth(js, k) \in js /\ Kept(l, js)[k] = l[Nth(js, k)]
      /\ \A j \in js : \E k \in 1..Cardinality(js) : Nth(js, k) = j
  BY <1>1, KeptIs
<1>4. \A x \in Range(Requests(l)) : x \in {l[j] : j \in js}
  BY <1>2, <1>3 DEF Range
<1>5. \A j \in js : l[j] \in Range(Requests(l))
  BY <1>2, <1>3 DEF Range
<1>. QED
  BY <1>2, <1>3, <1>4, <1>5 DEF js

\* A list whose requests are the same entries at the same places has the same requests,
\* whatever settings it has.
LEMMA SameRequests ==
  ASSUME NEW l \in Seq(Entry), NEW m \in Seq(Entry),
         {i \in DOMAIN l : ~l[i].meta} = {i \in DOMAIN m : ~m[i].meta},
         \A i \in DOMAIN l : ~l[i].meta => l[i] = m[i]
  PROVE  Requests(l) = Requests(m)
<1>. DEFINE js == {i \in DOMAIN l : ~l[i].meta}
<1>1. js \in SUBSET (DOMAIN l)
  OBVIOUS
<1>2. Requests(l) = Kept(l, js) /\ Requests(m) = Kept(m, js)
  BY DEF Requests
<1>3. \A k \in 1..Cardinality(js) : Nth(js, k) \in js
  BY <1>1, KeptIs
<1>4. \A j \in js : l[j] = m[j]
  OBVIOUS
<1>. HIDE DEF js
<1>. QED
  BY <1>2, <1>3, <1>4 DEF Kept

\* Trimming the names of a folder gives a folder.
LEMMA NodeType ==
  ASSUME NEW f \in Seq(Names)
  PROVE  Node(f) \in Seq(Names)
<1>. DEFINE t == [i \in DOMAIN f |-> Trimmed[f[i]]]
            js == {i \in DOMAIN f : Trimmed[f[i]] # NoText}
<1>1. t \in [1..Len(f) -> Names] /\ Len(f) \in Nat
  BY NamesAssumption
<1>2. t \in Seq(Names)
  BY <1>1, SeqDef
<1>3. js \in SUBSET (DOMAIN t)
  OBVIOUS
<1>. HIDE DEF t, js
<1>4. Kept(t, js) \in Seq(Names)
  BY <1>2, <1>3, KeptIs
<1>. QED
  BY <1>4 DEF Node, t, js

\* The folders of the side bar are folders, and have a name.
LEMMA NodesType ==
  ASSUME NEW l \in Seq(Entry), NEW p \in Nodes(l)
  PROVE  p \in Seq(Names) /\ Len(p) > 0
<1>1. PICK r \in Range(Requests(l)) : \E k \in DOMAIN Node(r.at) : p = SubSeq(Node(r.at), 1, k)
  BY DEF Nodes
<1>2. r.at \in Seq(Names)
  <2>1. r \in Entry
    BY RequestsAre
  <2>. QED
    BY <2>1 DEF Entry
<1>3. Node(r.at) \in Seq(Names)
  BY <1>2, NodeType
<1>4. PICK k \in DOMAIN Node(r.at) : p = SubSeq(Node(r.at), 1, k)
  BY <1>1
<1>. QED
  BY <1>3, <1>4

\* A node of the graph that is a request has an id.
LEMMA DrawingType ==
  ASSUME NEW l \in Seq(Entry), NEW n \in Drawing(l), n[1] = "request"
  PROVE  n[2] \in Ids
<1>1. PICK r \in Range(Requests(l)) :
        n = <<"request", r.id, r.at>> \/ \E k \in DOMAIN r.at : n = <<"folder", SubSeq(r.at, 1, k)>>
  BY DEF Drawing
<1>2. n = <<"request", r.id, r.at>>
  BY <1>1
<1>3. r \in Entry /\ ~r.meta
  BY RequestsAre
<1>. QED
  BY <1>2, <1>3 DEF Entry

\* Two lists with the same requests are drawn alike.
LEMMA SameDrawing ==
  ASSUME NEW l, NEW m, Requests(l) = Requests(m)
  PROVE  Drawing(l) = Drawing(m)
  BY DEF Drawing

-----------------------------------------------------------------------------
\* What the form of a tab may have in it.
Forms == [id : Ids \cup {NoId}, at : Seq(Names), url : Urls \cup {NoText}]

TypeOK ==
  /\ list \in Seq(Entry) /\ posted \in Seq(Entry) /\ shown \in Seq(Entry)
  /\ graph = [open |-> graph.open, stale |-> graph.stale, nodes |-> graph.nodes]
  /\ graph.open \in BOOLEAN /\ graph.stale \in BOOLEAN
  /\ \A n \in graph.nodes : n[1] = "request" => n[2] \in Ids
  /\ form \in Forms
  /\ torn \in BOOLEAN

\* The inductive invariant: what was posted comes back when the page is loaded again, so its
\* ids have to differ too.
IInv == TypeOK /\ Distinct(list) /\ Distinct(posted) /\ ViewsAgree

\* The page begins with one list in all its views.
LEMMA InitIInv == Init => IInv
<1>1. SUFFICES ASSUME Init PROVE IInv
  OBVIOUS
<1>2. list \in Seq(Entry) /\ Distinct(list)
  BY <1>1, StartsAssumption DEF Init
<1>3. BlankForm \in Forms
  BY NamesAssumption DEF BlankForm, Home, Forms
<1>4. TypeOK
  BY <1>1, <1>2, <1>3 DEF Init, TypeOK
<1>. QED
  BY <1>1, <1>2, <1>4 DEF Init, IInv, ViewsAgree

\* A handler that is done with a list has it posted, shown, and the graph told.
LEMMA BecomesKeeps ==
  ASSUME TypeOK, NEW l \in Seq(Entry), Distinct(l), Becomes(l),
         form' \in Forms,
         torn' \in BOOLEAN
  PROVE  IInv'
<1>1. list' = l /\ posted' = l /\ shown' = l /\ graph' = [graph EXCEPT !.stale = TRUE]
  BY DEF Becomes, RenderSaved
<1>2. /\ graph' = [open |-> graph'.open, stale |-> graph'.stale, nodes |-> graph'.nodes]
      /\ graph'.open \in BOOLEAN /\ graph'.stale = TRUE /\ graph'.nodes = graph.nodes
  BY <1>1 DEF TypeOK
<1>3. TypeOK'
  BY <1>1, <1>2 DEF TypeOK
<1>4. ViewsAgree'
  BY <1>1, <1>2 DEF ViewsAgree
<1>5. Distinct(list)' /\ Distinct(posted)'
  BY <1>1 DEF Distinct
<1>. QED
  BY <1>3, <1>4, <1>5 DEF IInv

\* A step that only opens something in the tab keeps everything.
LEMMA FormOnly ==
  ASSUME IInv, UNCHANGED <<list, posted, shown, graph, torn>>,
         form' \in Forms
  PROVE  IInv'
<1>1. Drawing(list)' = Drawing(list) /\ Requests(list)' = Requests(list) /\ Requests(shown)' = Requests(shown)
  BY DEF Drawing, Requests
<1>. QED
  BY <1>1 DEF IInv, TypeOK, ViewsAgree, Distinct

\* The form of a request has its id.
LEMMA FormType ==
  ASSUME NEW e \in Entry, ~e.meta
  PROVE  FormOf(e) \in Forms
  BY DEF FormOf, Entry, Forms

-----------------------------------------------------------------------------
\* doSave finds a request by the id of the tab, which settings do not have, or by its URL,
\* and gives it back its id.
LEMMA DoSaveStep ==
  ASSUME IInv, NEW id \in Fresh, DoSave(id)
  PROVE  IInv'
<1>. DEFINE at == TrimEnd(form.at)
            mines == {i \in DOMAIN list : form.id # NoId /\ list[i].id = form.id}
            sames == {i \in DOMAIN list : ~list[i].meta /\ list[i].at = at /\ list[i].is = form.url}
            new == Request(id, at, form.url)
            place == IF First(mines) # 0 THEN First(mines) ELSE First(sames)
<1>1. /\ list \in Seq(Entry) /\ Distinct(list) /\ TypeOK
      /\ form \in Forms
  BY DEF IInv, TypeOK
<1>2. SavedAt(place, new) /\ UNCHANGED torn
  BY Zenon DEF DoSave
<1>3. id \in Ids /\ id \notin IdsOf(list)
  BY DEF Fresh
<1>4. at \in Seq(Names)
  <2>1. form.at \in Seq(Names)
    BY <1>1 DEF Forms
  <2>2. Len(form.at) \in Nat /\ form.at \in [1..Len(form.at) -> Names]
    BY <2>1
  <2>3. at \in [1..Len(form.at) -> Names]
    BY <2>2, NamesAssumption DEF TrimEnd
  <2>. QED
    BY <2>2, <2>3, SeqDef
<1>5. new \in Entry /\ ~new.meta /\ new.id = id
  BY <1>1, <1>3, <1>4 DEF Request, Entry, Forms
<1>6. mines \in SUBSET (Nat \ {0}) /\ sames \in SUBSET (Nat \ {0})
  BY <1>1
<1>7. place # 0 => place \in DOMAIN list /\ ~list[place].meta
  <2>1. First(mines) # 0 => First(mines) \in DOMAIN list /\ list[First(mines)].id # NoId
    BY <1>6, FirstIs
  <2>2. First(sames) # 0 => First(sames) \in DOMAIN list /\ ~list[First(sames)].meta
    BY <1>6, FirstIs
  <2>3. First(mines) # 0 => ~list[First(mines)].meta
    BY <1>1, <2>1, EntryIs
  <2>. QED
    BY <2>1, <2>2, <2>3
<1>. HIDE DEF place, new, at, mines, sames
<1>8. torn' \in BOOLEAN
  BY <1>1, <1>2 DEF TypeOK
<1>9. CASE place = 0
  <2>1. Becomes(Append(list, new)) /\ form' = [form EXCEPT !.id = id]
    BY <1>2, <1>5, <1>9 DEF SavedAt
  <2>2. Append(list, new) \in Seq(Entry) /\ Distinct(Append(list, new))
    BY <1>1, <1>3, <1>5, AppendKeeps
  <2>3. form' \in Forms
    BY <1>1, <1>3, <2>1 DEF Forms
  <2>. QED
    BY <1>1, <1>8, <2>1, <2>2, <2>3, BecomesKeeps
<1>10. CASE place # 0
  <2>. DEFINE e == [new EXCEPT !.id = list[place].id]
  <2>1. Becomes([list EXCEPT ![place] = e]) /\ form' = [form EXCEPT !.id = e.id]
    BY <1>2, <1>10 DEF SavedAt
  <2>2. list[place] \in Entry /\ ~list[place].meta /\ list[place].id \in Ids
    BY <1>1, <1>7, <1>10, EntryIs
  <2>3. e \in Entry /\ e.meta = list[place].meta /\ e.id = list[place].id
    BY <1>5, <2>2 DEF Entry
  <2>4. form' \in Forms
    BY <1>1, <2>1, <2>2, <2>3 DEF Forms
  <2>. HIDE DEF e
  <2>5. [list EXCEPT ![place] = e] \in Seq(Entry) /\ Distinct([list EXCEPT ![place] = e])
    BY <1>1, <1>7, <1>10, <2>3, ReplaceKeeps
  <2>. QED
    BY <1>1, <1>8, <2>1, <2>4, <2>5, BecomesKeeps
<1>. QED
  BY <1>9, <1>10

\* saveFolderMeta changes settings only: also when its answer does not come, the side bar and
\* the graph show the requests there are.
LEMMA SaveFolderMetaStep ==
  ASSUME IInv, NEW p \in Nodes(shown), NEW kind \in Kinds, SaveFolderMeta(p, kind)
  PROVE  IInv'
<1>. DEFINE i == FirstMeta(list, p)
            l == IF i = 0 THEN Append(list, Meta(p, kind)) ELSE [list EXCEPT ![i].is = kind]
<1>1. list \in Seq(Entry) /\ shown \in Seq(Entry) /\ Distinct(list) /\ TypeOK /\ ViewsAgree
  BY DEF IInv, TypeOK
<1>2. /\ list' = l /\ posted' = l /\ UNCHANGED <<form, torn>>
      /\ RenderSaved(l) \/ UNCHANGED <<shown, graph>>
  BY DEF SaveFolderMeta
<1>3. p \in Seq(Names)
  BY <1>1, NodesType
<1>4. Meta(p, kind) \in Entry /\ Meta(p, kind).meta
  BY <1>3 DEF Meta, Entry
<1>5. i \in Nat /\ (i # 0 => i \in DOMAIN list /\ list[i].meta)
  BY <1>1, FirstMetaIs
<1>6. /\ l \in Seq(Entry) /\ Distinct(l)
      /\ {j \in DOMAIN list : ~list[j].meta} = {j \in DOMAIN l : ~l[j].meta}
      /\ \A j \in DOMAIN list : ~list[j].meta => list[j] = l[j]
  <2>1. CASE i = 0
    <3>1. l = Append(list, Meta(p, kind))
      BY <2>1
    <3>2. l \in Seq(Entry) /\ Distinct(l)
      BY <1>1, <1>4, <3>1, AppendKeeps
    <3>. HIDE DEF l
    <3>3. /\ DOMAIN list = 1..Len(list) /\ Len(list) \in Nat
          /\ DOMAIN l = 1..(Len(list) + 1) /\ l[Len(list) + 1].meta
          /\ \A j \in DOMAIN list : l[j] = list[j]
      BY <1>1, <1>4, <3>1
    <3>4. \A j : j \in DOMAIN l <=> j \in DOMAIN list \/ j = Len(list) + 1
      BY <3>3
    <3>5. \A j : j \in DOMAIN l /\ ~l[j].meta <=> j \in DOMAIN list /\ ~list[j].meta
      BY <3>3, <3>4
    <3>. QED
      BY <3>2, <3>3, <3>5
  <2>2. CASE i # 0
    <3>. DEFINE e == [list[i] EXCEPT !.is = kind]
    <3>1. l = [list EXCEPT ![i] = e]
      BY <2>2
    <3>2. list[i] \in Entry /\ list[i].meta
      BY <1>1, <1>5, <2>2
    <3>3. e \in Entry /\ e.meta = list[i].meta /\ e.id = list[i].id
      BY <3>2 DEF Entry
    <3>. HIDE DEF e, l
    <3>4. l \in Seq(Entry) /\ Distinct(l)
      BY <1>1, <1>5, <2>2, <3>1, <3>3, ReplaceKeeps
    <3>5. DOMAIN l = DOMAIN list /\ \A j \in DOMAIN list : l[j] = IF j = i THEN e ELSE list[j]
      BY <1>1, <3>1
    <3>. QED
      BY <1>5, <2>2, <3>3, <3>4, <3>5
  <2>. QED
    BY <2>1, <2>2
<1>. HIDE DEF l, i
<1>7. Requests(l) = Requests(list)
  BY <1>1, <1>6, SameRequests
<1>8. Drawing(l) = Drawing(list)
  BY <1>7, SameDrawing
<1>9. torn' = torn /\ form' = form
  BY <1>2
<1>10. CASE RenderSaved(l)
  <2>1. shown' = l /\ graph' = [graph EXCEPT !.stale = TRUE]
    BY <1>10 DEF RenderSaved
  <2>2. TypeOK'
    BY <1>1, <1>2, <1>6, <1>9, <2>1 DEF TypeOK
  <2>3. ViewsAgree'
    BY <1>1, <1>2, <2>1 DEF ViewsAgree, TypeOK
  <2>. QED
    BY <1>2, <1>6, <2>2, <2>3 DEF IInv, Distinct
<1>11. CASE UNCHANGED <<shown, graph>>
  <2>1. TypeOK'
    BY <1>1, <1>2, <1>6, <1>9, <1>11 DEF TypeOK
  <2>2. /\ Requests(shown)' = Requests(shown) /\ Requests(list)' = Requests(l)
        /\ Drawing(list)' = Drawing(l)
    BY <1>2, <1>11 DEF Requests, Drawing
  <2>3. ViewsAgree'
    BY <1>1, <1>2, <1>7, <1>8, <1>9, <1>11, <2>2 DEF ViewsAgree
  <2>. QED
    BY <1>2, <1>6, <2>1, <2>3 DEF IInv, Distinct
<1>. QED
  BY <1>2, <1>10, <1>11

\* newFolder adds a request whose id is new.
LEMMA NewFolderStep ==
  ASSUME IInv, NEW p \in Nodes(shown) \cup {<<>>}, NEW n \in Names, NEW id \in Fresh,
         NewFolder(p, n, id)
  PROVE  IInv'
<1>. DEFINE r == Request(id, Append(p, n), NoText)
<1>1. list \in Seq(Entry) /\ shown \in Seq(Entry) /\ Distinct(list) /\ TypeOK
  BY DEF IInv, TypeOK
<1>2. Becomes(Append(list, r)) /\ form' = FormOf(r) /\ UNCHANGED torn
  BY DEF NewFolder
<1>3. p \in Seq(Names)
  <2>1. CASE p \in Nodes(shown)
    BY <1>1, <2>1, NodesType
  <2>2. CASE p = <<>>
    BY <2>2
  <2>. QED
    BY <2>1, <2>2
<1>4. id \in Ids /\ id \notin IdsOf(list)
  BY DEF Fresh
<1>5. r \in Entry /\ ~r.meta /\ r.id = id
  BY <1>3, <1>4 DEF Request, Entry
<1>. HIDE DEF r
<1>6. Append(list, r) \in Seq(Entry) /\ Distinct(Append(list, r))
  BY <1>1, <1>4, <1>5, AppendKeeps
<1>7. form' \in Forms /\ torn' \in BOOLEAN
  BY <1>1, <1>2, <1>5, FormType DEF TypeOK
<1>. QED
  BY <1>1, <1>2, <1>6, <1>7, BecomesKeeps

\* renameFolder gets through, or breaks off in the middle and says so in torn.
LEMMA RenameFolderStep ==
  ASSUME IInv, NEW p \in Nodes(shown), NEW n \in Folder, RenameFolder(p, n)
  PROVE  IInv'
<1>. DEFINE l == Renamed(list, p, n)
<1>1. list \in Seq(Entry) /\ Distinct(list) /\ TypeOK /\ ViewsAgree /\ torn \in BOOLEAN
  BY DEF IInv, TypeOK
<1>2. n \in Seq(Names)
  BY SeqDef DEF Folder
<1>3. l \in Seq(Entry) /\ Distinct(l)
  BY <1>1, <1>2, RenamedKeeps
<1>4. form' = form /\ form' \in Forms
  BY <1>1 DEF RenameFolder, TypeOK
<1>. HIDE DEF l
<1>5. CASE Becomes(l) /\ UNCHANGED torn
  BY <1>1, <1>3, <1>4, <1>5, BecomesKeeps
<1>6. CASE list' = l /\ torn' = (torn \/ l # list) /\ UNCHANGED <<posted, shown, graph>>
  <2>1. torn' \in BOOLEAN
    BY <1>1, <1>6
  <2>2. TypeOK'
    BY <1>1, <1>3, <1>4, <1>6, <2>1 DEF TypeOK
  <2>3. Distinct(list)' /\ Distinct(posted)'
    BY <1>3, <1>6 DEF IInv, Distinct
  <2>4. ViewsAgree'
    <3>1. SUFFICES ASSUME ~torn' PROVE ViewsAgree'
      BY DEF ViewsAgree
    <3>2. ~torn /\ list' = list
      BY <1>6, <3>1
    <3>3. Requests(shown)' = Requests(shown) /\ Requests(list)' = Requests(list) /\ Drawing(list)' = Drawing(list)
      BY <1>6, <3>2 DEF Requests, Drawing
    <3>. QED
      BY <1>1, <1>6, <3>2, <3>3 DEF ViewsAgree
  <2>. QED
    BY <2>2, <2>3, <2>4 DEF IInv
<1>. QED
  BY <1>5, <1>6 DEF RenameFolder, l

\* deleteFolder and delReq leave entries out.
LEMMA DeleteStep ==
  ASSUME IInv, \/ \E p \in Nodes(shown) : DeleteFolder(p)
               \/ \E i \in DOMAIN list : DelReq(i)
  PROVE  IInv'
<1>1. list \in Seq(Entry) /\ Distinct(list) /\ TypeOK /\ form \in Forms /\ torn \in BOOLEAN
  BY DEF IInv, TypeOK
<1>2. BlankForm \in Forms
  BY NamesAssumption DEF BlankForm, Home, Forms
<1>3. ASSUME NEW p, DeleteFolder(p)
      PROVE  \E js \in SUBSET (DOMAIN list) : Becomes(Kept(list, js)) /\ form' \in Forms /\ torn' = torn
  <2>1. {i \in DOMAIN list : ~Under(list[i].at, p)} \in SUBSET (DOMAIN list)
    OBVIOUS
  <2>. QED
    BY <1>1, <1>3, <2>1 DEF DeleteFolder
<1>4. ASSUME NEW i, DelReq(i)
      PROVE  \E js \in SUBSET (DOMAIN list) : Becomes(Kept(list, js)) /\ form' \in Forms /\ torn' = torn
  <2>1. {j \in DOMAIN list : list[j].id # list[i].id} \in SUBSET (DOMAIN list)
    OBVIOUS
  <2>2. form' \in Forms
    BY <1>1, <1>2, <1>4 DEF DelReq
  <2>. QED
    BY <1>4, <2>1, <2>2 DEF DelReq
<1>5. PICK js \in SUBSET (DOMAIN list) : Becomes(Kept(list, js)) /\ form' \in Forms /\ torn' = torn
  BY <1>3, <1>4
<1>6. Kept(list, js) \in Seq(Entry) /\ Distinct(Kept(list, js))
  BY <1>1, KeptKeeps
<1>. QED
  BY <1>1, <1>5, <1>6, BecomesKeeps

\* dupReq gives the copy an id of its own.
LEMMA DupReqStep ==
  ASSUME IInv, NEW i \in DOMAIN list, NEW id \in Fresh, DupReq(i, id)
  PROVE  IInv'
<1>. DEFINE e == Copy(list[i], id)
<1>1. list \in Seq(Entry) /\ Distinct(list) /\ TypeOK
  BY DEF IInv, TypeOK
<1>2. ~list[i].meta /\ Becomes(Append(list, e)) /\ form' = FormOf(e) /\ UNCHANGED torn
  BY DEF DupReq
<1>3. list[i] \in Entry /\ id \in Ids /\ id \notin IdsOf(list)
  BY <1>1 DEF Fresh
<1>4. e \in Entry /\ ~e.meta /\ e.id = id
  BY <1>2, <1>3 DEF Copy, Entry
<1>. HIDE DEF e
<1>5. Append(list, e) \in Seq(Entry) /\ Distinct(Append(list, e))
  BY <1>1, <1>3, <1>4, AppendKeeps
<1>6. form' \in Forms /\ torn' \in BOOLEAN
  BY <1>1, <1>2, <1>4, FormType DEF TypeOK
<1>. QED
  BY <1>1, <1>2, <1>5, <1>6, BecomesKeeps

\* Dropped somewhere, a request is in another folder and is the same request.
LEMMA DropStep ==
  ASSUME IInv, NEW i \in DOMAIN list, DropRoot(i) \/ \E p \in Nodes(shown) : Drop(i, p)
  PROVE  IInv'
<1>1. /\ list \in Seq(Entry) /\ shown \in Seq(Entry) /\ Distinct(list) /\ TypeOK
      /\ form \in Forms /\ torn \in BOOLEAN
  BY DEF IInv, TypeOK
<1>2. list[i] \in Entry
  BY <1>1
<1>3. PICK at \in Seq(Names) : Becomes([list EXCEPT ![i].at = at]) /\ UNCHANGED <<form, torn>>
  <2>1. Home \in Seq(Names)
    BY NamesAssumption DEF Home
  <2>2. \A p \in Nodes(shown) : <<Head(p)>> \in Seq(Names)
    <3>1. \A p \in Nodes(shown) : p \in Seq(Names) /\ Len(p) > 0
      BY <1>1, NodesType
    <3>2. \A p \in Nodes(shown) : Head(p) \in Names
      BY <3>1
    <3>. QED
      BY <3>2
  <2>. QED
    BY <2>1, <2>2 DEF Drop, DropRoot
<1>. DEFINE e == [list[i] EXCEPT !.at = at]
<1>4. [list EXCEPT ![i].at = at] = [list EXCEPT ![i] = e]
  OBVIOUS
<1>5. e \in Entry /\ e.meta = list[i].meta /\ e.id = list[i].id
  BY <1>2 DEF Entry
<1>. HIDE DEF e
<1>6. [list EXCEPT ![i] = e] \in Seq(Entry) /\ Distinct([list EXCEPT ![i] = e])
  BY <1>1, <1>5, ReplaceKeeps
<1>7. form' \in Forms /\ torn' \in BOOLEAN
  BY <1>1, <1>3
<1>. QED
  BY <1>1, <1>3, <1>4, <1>6, <1>7, BecomesKeeps

\* What opens something in the tab: open, newReq and typing.
LEMMA FormStep ==
  ASSUME IInv, \/ \E i \in DOMAIN list : Open(i)
               \/ \E p \in Nodes(shown) : NewReq(p)
               \/ \E u \in Urls : TypeUrl(u)
  PROVE  IInv'
<1>1. list \in Seq(Entry) /\ shown \in Seq(Entry) /\ form \in Forms
  BY DEF IInv, TypeOK
<1>2. UNCHANGED <<list, posted, shown, graph, torn>>
  BY DEF Open, NewReq, TypeUrl
<1>3. ASSUME NEW i \in DOMAIN list, Open(i) PROVE form' \in Forms
  BY <1>1, <1>3, FormType DEF Open
<1>4. ASSUME NEW p \in Nodes(shown), NewReq(p) PROVE form' \in Forms
  BY <1>1, <1>4, NodesType DEF NewReq, BlankForm, Forms
<1>5. ASSUME NEW u \in Urls, TypeUrl(u) PROVE form' \in Forms
  BY <1>1, <1>5 DEF TypeUrl, Forms
<1>. QED
  BY <1>2, <1>3, <1>4, <1>5, FormOnly

\* parsePostman makes requests with the ids it is given, and settings that send something.
LEMMA ParsedIs ==
  ASSUME NEW c \in Imports,
         NEW id \in [{i \in DOMAIN Items(c) : Items(c)[i].request} -> Ids], IsInjective(id)
  PROVE  /\ Parsed(c, id) \in Seq(Entry) /\ Distinct(Parsed(c, id))
         /\ \A x \in IdsOf(Parsed(c, id)) : \E i \in DOMAIN id : x = id[i]
<1>. DEFINE all == [i \in DOMAIN Items(c) |-> Item(c, Items(c)[i], id[i])]
            js == {i \in DOMAIN Items(c) : Gives(Items(c)[i])}
<1>1. /\ DOMAIN Items(c) = 1..(Len(c.items) + 1) /\ Len(c.items) \in Nat
      /\ \A i \in DOMAIN Items(c) : /\ Items(c)[i].request \in BOOLEAN
                                  /\ Items(c)[i].in \in Seq(Names)
                                  /\ Items(c)[i].url \in Urls \cup {NoText}
  <2>. DEFINE It == [request : BOOLEAN, in : Seq(Names), auth : STRING, url : Urls \cup {NoText}]
  <2>1. c.items \in Seq(It)
    BY ImportsAssumption
  <2>. HIDE DEF It
  <2>2. /\ DOMAIN Items(c) = 1..(Len(c.items) + 1) /\ Len(c.items) \in Nat
        /\ Items(c)[1] = [request |-> FALSE, in |-> <<>>, auth |-> c.auth, url |-> NoText]
        /\ \A i \in 2..(Len(c.items) + 1) : i - 1 \in DOMAIN c.items /\ Items(c)[i] = c.items[i - 1]
    BY <2>1 DEF Items
  <2>3. \A i \in DOMAIN Items(c) : i = 1 \/ i \in 2..(Len(c.items) + 1)
    BY <2>2
  <2>4. <<>> \in Seq(Names)
    OBVIOUS
  <2>5. \A it \in It : /\ it.request \in BOOLEAN /\ it.in \in Seq(Names)
                       /\ it.url \in Urls \cup {NoText}
    BY DEF It
  <2>6. ASSUME NEW i \in DOMAIN Items(c)
        PROVE  /\ Items(c)[i].request \in BOOLEAN /\ Items(c)[i].in \in Seq(Names)
               /\ Items(c)[i].url \in Urls \cup {NoText}
    <3>1. CASE i = 1
      <4>1. /\ Items(c)[i].request = FALSE /\ Items(c)[i].in = <<>>
            /\ Items(c)[i].url = NoText
        BY <2>2, <3>1
      <4>. QED
        BY <2>4, <4>1
    <3>2. CASE i \in 2..(Len(c.items) + 1)
      <4>1. Items(c)[i] \in It
        BY <2>1, <2>2, <3>2
      <4>. QED
        BY <2>5, <4>1
    <3>. QED
      BY <2>3, <3>1, <3>2
  <2>. QED
    BY <2>2, <2>6
<1>2. ASSUME NEW i \in js
      PROVE  /\ all[i] \in Entry
             /\ ~all[i].meta => i \in DOMAIN id /\ all[i].id = id[i]
  <2>. DEFINE it == Items(c)[i]
  <2>1. /\ it.request \in BOOLEAN /\ it.in \in Seq(Names) /\ it.url \in Urls \cup {NoText}
        /\ Gives(it) /\ i \in DOMAIN Items(c) /\ all[i] = Item(c, it, id[i])
    BY <1>1
  <2>. HIDE DEF it, all, js
  <2>2. <<c.name>> \o it.in \in Seq(Names)
    BY <2>1, ImportsAssumption
  <2>3. CASE it.request
    <3>1. i \in DOMAIN id /\ id[i] \in Ids
      BY <2>1, <2>3 DEF it
    <3>2. all[i] = Request(id[i], <<c.name>> \o it.in, it.url)
      BY <2>1, <2>3 DEF Item
    <3>. QED
      BY <2>1, <2>2, <3>1, <3>2 DEF Request, Entry
  <2>4. CASE ~it.request
    <3>1. all[i] = Meta(<<c.name>> \o it.in, PmAuth(it.auth)) /\ PmAuth(it.auth) \in Kinds
      BY <2>1, <2>4 DEF Item, Gives, Kinds
    <3>. QED
      BY <2>2, <3>1 DEF Meta, Entry
  <2>. QED
    BY <2>1, <2>3, <2>4
<1>. HIDE DEF all, js
<1>3. /\ Kept(all, js) \in Seq(Range(all)) /\ Cardinality(js) \in Nat
      /\ DOMAIN Kept(all, js) = 1..Cardinality(js)
      /\ \A k \in 1..Cardinality(js) : Nth(js, k) \in js /\ Kept(all, js)[k] = all[Nth(js, k)]
      /\ \A a, b \in 1..Cardinality(js) : Nth(js, a) = Nth(js, b) => a = b
  <2>1. all \in Seq(Range(all))
    <3>1. DOMAIN all = 1..(Len(c.items) + 1) /\ all = [i \in DOMAIN all |-> all[i]]
      BY <1>1 DEF all
    <3>2. \A i \in DOMAIN all : all[i] \in Range(all)
      BY DEF Range
    <3>3. all \in [1..(Len(c.items) + 1) -> Range(all)]
      BY <3>1, <3>2
    <3>. QED
      BY <1>1, <3>3, SeqDef
  <2>2. js \in SUBSET (DOMAIN all)
    BY DEF all, js
  <2>. DEFINE range == Range(all)
  <2>. HIDE DEF range
  <2>3. all \in Seq(range)
    BY <2>1 DEF range
  <2>4. /\ Cardinality(js) \in Nat
        /\ Kept(all, js) \in Seq(range) /\ DOMAIN Kept(all, js) = 1..Cardinality(js)
        /\ \A k \in 1..Cardinality(js) :
              Nth(js, k) \in js /\ Kept(all, js)[k] = all[Nth(js, k)]
        /\ \A a, b \in 1..Cardinality(js) : Nth(js, a) = Nth(js, b) => a = b
        /\ \A j \in js : \E k \in 1..Cardinality(js) : Nth(js, k) = j
    BY <2>2, <2>3, KeptIs
  <2>. QED
    BY <2>4 DEF range
<1>4. Parsed(c, id) = Kept(all, js)
  BY DEF Parsed, all, js
<1>. DEFINE es == Parsed(c, id)
<1>5. es \in Seq(Entry)
  <2>1. es \in [1..Cardinality(js) -> Entry]
    BY <1>2, <1>3, <1>4
  <2>. QED
    BY <1>3, <2>1, SeqDef
<1>6. \A k \in DOMAIN es : ~es[k].meta => Nth(js, k) \in DOMAIN id /\ es[k].id = id[Nth(js, k)]
  BY <1>2, <1>3, <1>4
<1>7. Distinct(es)
  <2>1. SUFFICES ASSUME NEW a \in DOMAIN es, NEW b \in DOMAIN es, ~es[a].meta, ~es[b].meta,
                        es[a].id = es[b].id
                 PROVE  a = b
    BY DEF Distinct
  <2>2. Nth(js, a) = Nth(js, b)
    BY <1>6, <2>1 DEF IsInjective
  <2>. QED
    BY <1>3, <1>4, <2>2
<1>8. \A x \in IdsOf(es) : \E i \in DOMAIN id : x = id[i]
  BY <1>6 DEF IdsOf
<1>. QED
  BY <1>5, <1>7, <1>8

\* Importing gives every request of the collection an id of its own that is new.
LEMMA ImportStep ==
  ASSUME IInv, NEW c \in Imports, Import(c)
  PROVE  IInv'
<1>1. list \in Seq(Entry) /\ Distinct(list) /\ TypeOK /\ form \in Forms /\ torn \in BOOLEAN
  BY DEF IInv, TypeOK
<1>2. PICK id \in [{i \in DOMAIN Items(c) : Items(c)[i].request} -> Fresh] :
        /\ IsInjective(id)
        /\ Becomes(list \o Parsed(c, id))
        /\ form' = IF Requests(Parsed(c, id)) = <<>> THEN form
                   ELSE FormOf(Head(Requests(Parsed(c, id))))
        /\ UNCHANGED torn
  BY DEF Import
<1>. DEFINE es == Parsed(c, id)
<1>3. id \in [{i \in DOMAIN Items(c) : Items(c)[i].request} -> Ids]
  BY DEF Fresh
<1>4. /\ es \in Seq(Entry) /\ Distinct(es)
      /\ \A x \in IdsOf(es) : \E i \in DOMAIN id : x = id[i]
  BY <1>2, <1>3, ParsedIs
<1>5. \A x \in IdsOf(es) : x \notin IdsOf(list)
  BY <1>4 DEF Fresh
<1>. HIDE DEF es
<1>6. list \o es \in Seq(Entry) /\ Distinct(list \o es)
  BY <1>1, <1>4, <1>5, ConcatKeeps
<1>7. form' \in Forms
  <2>1. CASE Requests(es) = <<>>
    BY <1>1, <1>2, <2>1 DEF es
  <2>2. CASE Requests(es) # <<>>
    <3>1. /\ Requests(es) \in Seq(Entry)
          /\ \A r \in Range(Requests(es)) : r \in Entry /\ ~r.meta
      BY <1>4, RequestsAre
    <3>2. Head(Requests(es)) \in Range(Requests(es))
      BY <2>2, <3>1 DEF Range
    <3>3. form' = FormOf(Head(Requests(es)))
      BY <1>2, <2>2 DEF es
    <3>. QED
      BY <3>1, <3>2, <3>3, FormType
  <2>. QED
    BY <2>1, <2>2
<1>8. Becomes(list \o es) /\ torn' \in BOOLEAN
  BY <1>1, <1>2 DEF es
<1>. QED
  BY <1>1, <1>6, <1>7, <1>8, BecomesKeeps

\* Loading the page again gets the list that was posted, in all its views.
LEMMA ReloadStep ==
  ASSUME IInv, Reload
  PROVE  IInv'
<1>1. posted \in Seq(Entry) /\ Distinct(posted)
  BY DEF IInv, TypeOK
<1>2. BlankForm \in Forms
  BY NamesAssumption DEF BlankForm, Home, Forms
<1>3. TypeOK'
  BY <1>1, <1>2 DEF Reload, TypeOK
<1>. QED
  BY <1>1, <1>3 DEF Reload, IInv, Distinct, ViewsAgree

\* The graph is drawn from the list when it is stale, and posting the list after a drag
\* posts what was posted before, unless a rename broke off.
LEMMA GraphStep ==
  ASSUME IInv, \/ OpenGraph \/ CloseGraph \/ DragNode
               \/ \E n \in graph.nodes : n[1] = "request" /\ OpenNode(n[2])
  PROVE  IInv'
<1>1. /\ list \in Seq(Entry) /\ Distinct(list) /\ TypeOK /\ ViewsAgree /\ form \in Forms
      /\ UNCHANGED <<list, shown, torn>>
  BY DEF IInv, TypeOK, OpenGraph, CloseGraph, DragNode, OpenNode
<1>2. /\ Drawing(list)' = Drawing(list) /\ Requests(list)' = Requests(list)
      /\ Requests(shown)' = Requests(shown)
  BY <1>1 DEF Drawing, Requests
<1>3. CASE OpenGraph
  <2>1. /\ graph'.open = TRUE /\ graph'.stale = FALSE
        /\ graph'.nodes = IF graph.stale THEN Drawing(list) ELSE graph.nodes
        /\ graph' = [open |-> graph'.open, stale |-> graph'.stale, nodes |-> graph'.nodes]
    BY <1>3 DEF OpenGraph
  <2>2. \A n \in graph'.nodes : n[1] = "request" => n[2] \in Ids
    BY <1>1, <2>1, DrawingType DEF TypeOK
  <2>3. UNCHANGED <<posted, form>>
    BY <1>3 DEF OpenGraph
  <2>4. TypeOK'
    BY <1>1, <2>1, <2>2, <2>3 DEF TypeOK
  <2>5. ViewsAgree'
    BY <1>1, <1>2, <2>1, <2>3 DEF ViewsAgree
  <2>. QED
    BY <1>1, <2>3, <2>4, <2>5 DEF IInv, Distinct
<1>4. CASE CloseGraph \/ \E n \in graph.nodes : n[1] = "request" /\ OpenNode(n[2])
  <2>1. graph' = [graph EXCEPT !.open = FALSE] /\ UNCHANGED posted
    BY <1>4 DEF CloseGraph, OpenNode
  <2>2. /\ graph'.open = FALSE /\ graph'.stale = graph.stale /\ graph'.nodes = graph.nodes
        /\ graph' = [open |-> graph'.open, stale |-> graph'.stale, nodes |-> graph'.nodes]
    BY <1>1, <2>1 DEF TypeOK
  <2>3. form' \in Forms
    <3>1. CASE CloseGraph
      BY <1>1, <3>1 DEF CloseGraph
    <3>2. ASSUME NEW n \in graph.nodes, n[1] = "request", OpenNode(n[2])
          PROVE  form' \in Forms
      <4>. DEFINE js == {j \in DOMAIN list : list[j].id = n[2]}
      <4>1. js \in SUBSET (Nat \ {0})
        BY <1>1
      <4>2. form' = IF First(js) = 0 THEN BlankForm ELSE FormOf(list[First(js)])
        BY <3>2, Zenon DEF OpenNode
      <4>3. n[2] \in Ids
        BY <1>1, <3>2 DEF TypeOK
      <4>4. First(js) # 0 => First(js) \in DOMAIN list /\ list[First(js)].id \in Ids
        BY <4>1, <4>3, FirstIs
      <4>. HIDE DEF js
      <4>5. First(js) # 0 => list[First(js)] \in Entry /\ ~list[First(js)].meta
        BY <1>1, <4>4, EntryIs, NamesAssumption
      <4>6. BlankForm \in Forms
        BY NamesAssumption DEF BlankForm, Home, Forms
      <4>. QED
        BY <4>2, <4>5, <4>6, FormType
    <3>. QED
      BY <1>4, <3>1, <3>2
  <2>4. TypeOK'
    BY <1>1, <2>1, <2>2, <2>3 DEF TypeOK
  <2>5. ViewsAgree'
    BY <1>1, <1>2, <2>1, <2>2 DEF ViewsAgree
  <2>. QED
    BY <1>1, <2>1, <2>4, <2>5 DEF IInv, Distinct
<1>5. CASE DragNode
  <2>1. posted' = list /\ UNCHANGED <<graph, form>>
    BY <1>5 DEF DragNode
  <2>2. TypeOK'
    BY <1>1, <2>1 DEF TypeOK
  <2>3. ViewsAgree'
    BY <1>1, <1>2, <2>1 DEF ViewsAgree
  <2>. QED
    BY <1>1, <2>1, <2>2, <2>3 DEF IInv, Distinct
<1>. QED
  BY <1>3, <1>4, <1>5

\* No step leaves the invariant.
LEMMA NextIInv == IInv /\ [Next]_vars => IInv'
<1>1. ASSUME IInv, UNCHANGED vars PROVE IInv'
  <2>1. form' \in Forms
    BY <1>1 DEF IInv, TypeOK, vars
  <2>. QED
    BY <1>1, <2>1, FormOnly DEF vars
<1>2. ASSUME IInv, Next PROVE IInv'
  <2>1. CASE \E id \in Fresh : DoSave(id)
    BY <1>2, <2>1, DoSaveStep
  <2>2. CASE \E id \in Fresh, p \in Nodes(shown) \cup {<<>>}, n \in Names : NewFolder(p, n, id)
    BY <1>2, <2>2, NewFolderStep
  <2>3. CASE \E id \in Fresh, i \in DOMAIN list : DupReq(i, id)
    BY <1>2, <2>3, DupReqStep
  <2>4. CASE \E p \in Nodes(shown), k \in Kinds : SaveFolderMeta(p, k)
    BY <1>2, <2>4, SaveFolderMetaStep
  <2>5. CASE \E p \in Nodes(shown), n \in Folder : RenameFolder(p, n)
    BY <1>2, <2>5, RenameFolderStep
  <2>6. CASE (\E p \in Nodes(shown) : DeleteFolder(p)) \/ \E i \in DOMAIN list : DelReq(i)
    BY <1>2, <2>6, DeleteStep
  <2>7. CASE \E i \in DOMAIN list : DropRoot(i) \/ \E p \in Nodes(shown) : Drop(i, p)
    BY <1>2, <2>7, DropStep
  <2>8. CASE \/ \E i \in DOMAIN list : Open(i)
             \/ \E p \in Nodes(shown) : NewReq(p)
             \/ \E u \in Urls : TypeUrl(u)
    BY <1>2, <2>8, FormStep
  <2>9. CASE \E c \in Imports : Import(c)
    BY <1>2, <2>9, ImportStep
  <2>10. CASE Reload
    BY <1>2, <2>10, ReloadStep
  <2>11. CASE \/ OpenGraph \/ CloseGraph \/ DragNode
              \/ \E n \in graph.nodes : n[1] = "request" /\ OpenNode(n[2])
    BY <1>2, <2>11, GraphStep
  <2>. QED
    BY <1>2, <2>1, <2>2, <2>3, <2>4, <2>5, <2>6, <2>7, <2>8, <2>9, <2>10, <2>11 DEF Next
<1>. QED
  BY <1>1, <1>2

\* The invariant holds always.
LEMMA Invariance == Spec => []IInv
  BY InitIInv, NextIInv, PTL DEF Spec

-----------------------------------------------------------------------------
\* Whatever is saved, copied, imported, dropped, renamed, deleted and loaded again, no two
\* requests come to have the same id (doSave, dupReq, importAny and loadSaved of app.js).
THEOREM OneIdEach == Spec => []IdsUnique
<1>1. IInv => IdsUnique
  BY DEF IInv, IdsUnique
<1>. QED
  BY <1>1, Invariance, PTL

\* The file, the side bar and the graph follow the list, unless a rename broke off:
\* renderSaved and storeSaved are called where they have to be, and where the answer that
\* renderSaved waits for does not come (saveFolderMeta) no request has changed.
THEOREM ViewsFollow == Spec => []ViewsAgree
<1>1. IInv => ViewsAgree
  BY DEF IInv
<1>. QED
  BY <1>1, Invariance, PTL

-----------------------------------------------------------------------------
(* What a request inherits.  doSend walks up from the folder of the tab, and stops at       *)
(* settings that send something: Stops are the lengths of the folders it would stop at.     *)

Stops(k) == {j \in 1..k : ~Goes(SubSeq(form.at, 1, j))}
Nearest(js) == CHOOSE i \in js : \A j \in js : j <= i

\* The walk as the function Inherited defines, and where it gets to.
Walk(up) ==
  [k \in 0..Len(form.at) |->
     IF k = 0 THEN "none"
     ELSE IF Goes(SubSeq(form.at, 1, k)) THEN up[k - 1]
     ELSE Settings(SubSeq(form.at, 1, k))]
Found == [k \in 0..Len(form.at) |->
            IF Stops(k) = {} THEN "none" ELSE Settings(SubSeq(form.at, 1, Nearest(Stops(k))))]

\* Some place is the last of those there are.
LEMMA LastIs ==
  ASSUME NEW k \in Nat, NEW js \in SUBSET (1..k), js # {}
  PROVE  Nearest(js) \in js /\ \A j \in js : j <= Nearest(js)
<1>. DEFINE far == {k - j : j \in js}
<1>1. far \in SUBSET Nat /\ far # {}
  <2>1. \A j \in js : k - j \in Nat
    OBVIOUS
  <2>. QED
    BY <2>1
<1>2. PICK d \in far : \A e \in far : ~(<<e, d>> \in OpToRel(<, Nat))
  <2>1. PICK x \in far : TRUE
    BY <1>1
  <2>. QED
    BY <1>1, <2>1, NatLessThanWellFounded, WFMin
<1>3. \A e \in far : e \in Nat /\ d \in Nat /\ ~(e < d)
  BY <1>1, <1>2, Zenon DEF OpToRel
<1>4. PICK i \in js : d = k - i
  OBVIOUS
<1>5. \A j \in js : j <= i
  <2>1. TAKE j \in js
  <2>2. k - j \in far
    OBVIOUS
  <2>. QED
    BY <1>3, <1>4, <2>2
<1>. QED
  BY <1>5 DEF Nearest

\* The walk of doSend gets to the nearest folder it stops at, and to none if there is no such.
LEMMA WalkFinds ==
  ASSUME form.at \in Seq(Names)
  PROVE  Inherited = Found[Len(form.at)]
<1>. DEFINE n == Len(form.at)
            up == CHOOSE g : g = Walk(g)
<1>1. n \in Nat
  OBVIOUS
<1>2. Found = Walk(Found)
  <2>1. \A k \in 0..n : Found[k] = Walk(Found)[k]
    <3>1. TAKE k \in 0..n
    <3>2. CASE k = 0
      <4>1. Stops(k) = {}
        BY <3>2 DEF Stops
      <4>. QED
        BY <3>2, <4>1 DEF Found, Walk
    <3>3. CASE k # 0 /\ Goes(SubSeq(form.at, 1, k))
      <4>1. k - 1 \in 0..n /\ k \in Nat /\ \A j : j \in 1..k <=> j \in 1..(k - 1) \/ j = k
        BY <1>1, <3>3
      <4>2. Stops(k) = Stops(k - 1)
        BY <3>3, <4>1 DEF Stops
      <4>3. Walk(Found)[k] = Found[k - 1]
        BY <3>3 DEF Walk
      <4>. QED
        BY <4>1, <4>2, <4>3 DEF Found
    <3>4. CASE k # 0 /\ ~Goes(SubSeq(form.at, 1, k))
      <4>1. k \in Stops(k) /\ Stops(k) \in SUBSET (1..k) /\ k \in Nat
        BY <3>4 DEF Stops
      <4>2. Nearest(Stops(k)) \in 1..k /\ k <= Nearest(Stops(k))
        BY <4>1, LastIs
      <4>3. Nearest(Stops(k)) = k
        BY <4>1, <4>2
      <4>. QED
        BY <3>4, <4>1, <4>3 DEF Found, Walk
    <3>. QED
      BY <3>2, <3>3, <3>4
  <2>. QED
    BY <2>1 DEF Found, Walk
<1>3. up = Walk(up)
  BY <1>2
<1>4. Inherited = up[n]
  BY DEF Inherited, Walk
<1>. HIDE DEF up, n
<1>5. \A k \in 0..n : up[k] = Found[k]
  <2>1. SUFFICES ASSUME NEW c \in 0..n, up[c] # Found[c] PROVE FALSE
    OBVIOUS
  <2>. DEFINE bad == {k \in 0..n : up[k] # Found[k]}
  <2>2. bad \in SUBSET Nat /\ c \in bad
    BY <1>1, <2>1
  <2>3. PICK k \in bad : \A j \in bad : ~(<<j, k>> \in OpToRel(<, Nat))
    BY <2>2, NatLessThanWellFounded, WFMin
  <2>4. \A j \in bad : j \in Nat /\ k \in Nat /\ ~(j < k)
    BY <2>2, <2>3, Zenon DEF OpToRel
  <2>5. k \in 0..n /\ up[k] # Found[k]
    OBVIOUS
  <2>6. up[k] = Walk(up)[k] /\ Found[k] = Walk(Found)[k]
    BY <1>2, <1>3
  <2>7. k # 0 /\ Goes(SubSeq(form.at, 1, k))
    BY <2>5, <2>6 DEF Walk, n
  <2>8. up[k] = up[k - 1] /\ Found[k] = Found[k - 1]
    BY <2>5, <2>6, <2>7 DEF Walk, n
  <2>9. k - 1 \in bad /\ k - 1 < k
    BY <1>1, <2>5, <2>7, <2>8
  <2>. QED
    BY <2>4, <2>9
<1>. QED
  BY <1>1, <1>4, <1>5 DEF n

\* Wherever the form is: a request that inherits, in a folder of the side bar, is sent with
\* what the gear of the nearest folder around it shows (doSend, app.js:380-389, against
\* openFolderMeta, app.js:103-108).
THEOREM InheritsWhatIsShown == Spec => []InheritsAsShown
<1>1. ASSUME IInv PROVE InheritsAsShown
  <2>. DEFINE f == form.at
              n == Len(f)
              around == {p \in Nodes(list) : IsPrefix(p, f) /\ GearShows(p) \in Own}
  <2>1. SUFFICES ASSUME f \in Nodes(list)
                 PROVE  IF around = {} THEN Inherited = "none"
                        ELSE \E p \in around : /\ Inherited = GearShows(p)
                                              /\ \A q \in around : Len(q) <= Len(p)
    BY DEF InheritsAsShown
  <2>2. list \in Seq(Entry) /\ f \in Seq(Names)
    BY <1>1 DEF IInv, TypeOK, Forms
  <2>3. n \in Nat /\ Stops(n) \in SUBSET (1..n)
    BY <2>2 DEF Stops
  <2>4. ASSUME NEW j \in Stops(n)
        PROVE  SubSeq(f, 1, j) \in around /\ Len(SubSeq(f, 1, j)) = j
    <3>1. j \in 1..n /\ Settings(SubSeq(f, 1, j)) \in Own
      BY <2>3, <2>4 DEF Stops, Goes
    <3>2. /\ Len(SubSeq(f, 1, j)) = j /\ j <= Len(f)
          /\ SubSeq(SubSeq(f, 1, j), 1, j) = SubSeq(f, 1, j)
      BY <2>2, <3>1
    <3>3. IsPrefix(SubSeq(f, 1, j), f)
      BY <3>2 DEF IsPrefix
    <3>4. SubSeq(f, 1, j) \in Nodes(list)
      <4>1. PICK r \in Range(Requests(list)) : \E k \in DOMAIN Node(r.at) : f = SubSeq(Node(r.at), 1, k)
        BY <2>1 DEF Nodes
      <4>2. PICK k \in DOMAIN Node(r.at) : f = SubSeq(Node(r.at), 1, k)
        BY <4>1
      <4>3. r \in Entry
        BY <2>2, RequestsAre
      <4>4. Node(r.at) \in Seq(Names)
        BY <4>3, EntryIs, NodeType
      <4>5. n = k /\ j \in DOMAIN Node(r.at)
        BY <3>1, <4>2, <4>4
      <4>6. SubSeq(f, 1, j) = SubSeq(Node(r.at), 1, j)
        BY <3>1, <4>2, <4>4, <4>5
      <4>7. SubSeq(f, 1, j) \in {SubSeq(Node(r.at), 1, i) : i \in DOMAIN Node(r.at)}
        BY <4>5, <4>6
      <4>. QED
        BY <4>7, Zenon DEF Nodes
    <3>. QED
      BY <3>1, <3>2, <3>3, <3>4 DEF GearShows, Settings
  <2>5. ASSUME NEW p \in around
        PROVE  Len(p) \in Stops(n) /\ p = SubSeq(f, 1, Len(p))
    <3>1. p \in Seq(Names) /\ Len(p) > 0
      BY <2>2, NodesType
    <3>2. Len(p) <= Len(f) /\ SubSeq(p, 1, Len(p)) = SubSeq(f, 1, Len(p))
      BY DEF IsPrefix
    <3>3. SubSeq(p, 1, Len(p)) = p
      BY <3>1
    <3>4. Len(p) \in 1..n
      BY <2>3, <3>1, <3>2
    <3>5. Settings(p) \in Own
      BY DEF GearShows, Settings
    <3>. QED
      BY <3>2, <3>3, <3>4, <3>5 DEF Stops, Goes
  <2>6. Inherited = Found[n]
    BY <2>2, WalkFinds
  <2>7. Found[n] = IF Stops(n) = {} THEN "none" ELSE Settings(SubSeq(f, 1, Nearest(Stops(n))))
    BY <2>3 DEF Found
  <2>8. CASE Stops(n) = {}
    <3>1. around = {}
      BY <2>5, <2>8
    <3>. QED
      BY <2>6, <2>7, <2>8, <3>1
  <2>9. CASE Stops(n) # {}
    <3>1. Nearest(Stops(n)) \in Stops(n) /\ \A j \in Stops(n) : j <= Nearest(Stops(n))
      BY <2>3, <2>9, LastIs
    <3>. DEFINE p == SubSeq(f, 1, Nearest(Stops(n)))
    <3>2. p \in around /\ Len(p) = Nearest(Stops(n))
      BY <2>4, <3>1
    <3>3. \A q \in around : Len(q) <= Len(p)
      BY <2>5, <3>1, <3>2
    <3>4. Inherited = GearShows(p)
      BY <2>6, <2>7, <2>9 DEF GearShows, Settings
    <3>. QED
      BY <3>2, <3>3, <3>4
  <2>. QED
    BY <2>8, <2>9
<1>. QED
  BY <1>1, Invariance, PTL

-----------------------------------------------------------------------------
(* Renaming and deleting folders.                                          *)

\* A place is the one with its number.
LEMMA NthAt ==
  ASSUME NEW n \in Nat, NEW js \in SUBSET (1..n), NEW j \in js
  PROVE  /\ Cardinality(UpTo(js, j)) \in 1..Cardinality(js)
         /\ Nth(js, Cardinality(UpTo(js, j))) = j
<1>. DEFINE k == Cardinality(UpTo(js, j))
<1>1. k \in 1..Cardinality(js)
  BY Ranks
<1>. HIDE DEF k
<1>2. Nth(js, k) \in js /\ Cardinality(UpTo(js, Nth(js, k))) = k
  BY <1>1, NthIs
<1>. QED
  BY <1>1, <1>2, Ranks DEF k

\* The path of a folder that buildTree leaves as it is has no name that it would trim or
\* leave out.
LEMMA TidyNames ==
  ASSUME NEW f \in Seq(Names), Node(f) = f
  PROVE  \A i \in DOMAIN f : Trimmed[f[i]] = f[i] /\ f[i] # NoText
<1>. DEFINE t == [i \in DOMAIN f |-> Trimmed[f[i]]]
            js == {i \in DOMAIN f : Trimmed[f[i]] # NoText}
            n == Len(f)
<1>1. n \in Nat /\ DOMAIN f = 1..n /\ js \in SUBSET (1..n)
  OBVIOUS
<1>2. f = Kept(t, js)
  BY DEF Node
<1>3. DOMAIN f = 1..Cardinality(js)
  BY <1>2 DEF Kept
<1>4. IsFiniteSet(1..n) /\ Cardinality(1..n) = n /\ Cardinality(js) \in Nat
  <2>1. 1 \in Int /\ n \in Int
    BY <1>1
  <2>2. IsFiniteSet(1..n) /\ Cardinality(1..n) = IF 1 > n THEN 0 ELSE n - 1 + 1
    BY <2>1, FS_Interval
  <2>3. Cardinality(js) \in Nat
    BY <1>1, Ranks
  <2>. HIDE DEF n, js
  <2>. QED
    BY <1>1, <2>2, <2>3
<1>5. Cardinality(js) = n
  BY <1>1, <1>3, <1>4
<1>6. js = 1..n
  BY <1>1, <1>4, <1>5, FS_Subset
<1>7. ASSUME NEW i \in 1..n
      PROVE  Nth(js, i) = i
  <2>1. UpTo(js, i) = 1..i
    <3>1. \A x : x \in 1..n /\ x <= i <=> x \in 1..i
      BY <1>1
    <3>. QED
      BY <1>6, <3>1 DEF UpTo
  <2>2. Cardinality(UpTo(js, i)) = i
    BY <2>1, FS_Interval
  <2>. QED
    BY <1>1, <1>6, <2>2, NthAt
<1>8. ASSUME NEW i \in 1..n
      PROVE  f[i] = Trimmed[f[i]]
  <2>1. Kept(t, js)[i] = t[Nth(js, i)]
    BY <1>5 DEF Kept
  <2>. QED
    BY <1>1, <1>2, <1>7, <2>1
<1>. QED
  BY <1>1, <1>6, <1>8

\* buildTree trims what stands before such names, and leaves them as they are.
LEMMA NodeConcat ==
  ASSUME NEW f \in Seq(Names), NEW g \in Seq(Names),
         \A i \in DOMAIN g : Trimmed[g[i]] = g[i] /\ g[i] # NoText
  PROVE  Node(f \o g) = Node(f) \o g
<1>. DEFINE h == f \o g
            a == Len(f)
            b == Len(g)
            js == {i \in DOMAIN f : Trimmed[f[i]] # NoText}
            hs == {i \in DOMAIN h : Trimmed[h[i]] # NoText}
            c == Cardinality(js)
<1>1. /\ a \in Nat /\ b \in Nat /\ DOMAIN f = 1..a /\ DOMAIN g = 1..b /\ DOMAIN h = 1..(a + b)
      /\ \A i \in 1..a : h[i] = f[i]
      /\ \A i \in 1..b : h[a + i] = g[i]
  OBVIOUS
<1>2. a + b \in Nat /\ js \in SUBSET (1..a) /\ hs \in SUBSET (1..(a + b))
  BY <1>1
<1>3. IsFiniteSet(js) /\ c \in Nat /\ c = Cardinality(js)
  BY <1>1, <1>2, Ranks
<1>. HIDE DEF h, a, b, c
<1>4. hs = js \cup ((a + 1)..(a + b))
  <2>1. \A i \in 1..(a + b) : i \in 1..a \/ (i - a \in 1..b /\ i = a + (i - a) /\ i \in (a + 1)..(a + b))
    BY <1>1
  <2>2. \A i \in (a + 1)..(a + b) : i \in 1..(a + b) /\ i \notin 1..a /\ i - a \in 1..b /\ i = a + (i - a)
    BY <1>1
  <2>3. \A i \in (a + 1)..(a + b) : h[i] = g[i - a] /\ Trimmed[h[i]] # NoText
    BY <1>1, <2>2
  <2>4. \A i \in 1..a : i \in 1..(a + b)
    BY <1>1
  <2>. QED
    BY <1>1, <2>1, <2>2, <2>3, <2>4
<1>5. ASSUME NEW d \in 0..b
      PROVE  Cardinality(js \cup ((a + 1)..(a + d))) = c + d
  <2>. DEFINE next == (a + 1)..(a + d)
  <2>1. IsFiniteSet(next) /\ Cardinality(next) = d
    <3>1. a + 1 \in Int /\ a + d \in Int /\ d \in Nat /\ d <= b
      BY <1>1
    <3>2. IsFiniteSet(next) /\ Cardinality(next) = IF a + 1 > a + d THEN 0 ELSE (a + d) - (a + 1) + 1
      BY <3>1, FS_Interval
    <3>. QED
      BY <1>1, <3>1, <3>2
  <2>2. js \cap next = {}
    BY <1>1, <1>2
  <2>. HIDE DEF next
  <2>3. Cardinality(js \cap next) = 0
    BY <2>2, FS_EmptySet
  <2>4. Cardinality(js \cup next) = Cardinality(js) + Cardinality(next) - Cardinality(js \cap next)
    BY <1>3, <2>1, FS_Union
  <2>. QED
    BY <1>3, <2>1, <2>3, <2>4 DEF next
<1>6. Cardinality(hs) = c + b
  <2>1. b \in 0..b
    BY <1>1
  <2>. HIDE DEF hs, js
  <2>. QED
    BY <1>4, <1>5, <2>1
<1>. HIDE DEF js, hs
<1>7. ASSUME NEW k \in 1..c
      PROVE  Nth(hs, k) = Nth(js, k) /\ Nth(js, k) \in 1..a
  <2>. DEFINE j == Nth(js, k)
  <2>1. j \in js /\ Cardinality(UpTo(js, j)) = k
    BY <1>1, <1>2, <1>3, NthIs
  <2>. HIDE DEF j
  <2>2. UpTo(hs, j) = UpTo(js, j)
    <3>1. j \in 1..a
      BY <1>2, <2>1
    <3>2. \A i \in (a + 1)..(a + b) : ~(i <= j)
      BY <1>1, <3>1
    <3>. QED
      BY <1>4, <3>2 DEF UpTo
  <2>3. j \in hs
    BY <1>4, <2>1
  <2>. QED
    <3>1. Nth(hs, Cardinality(UpTo(hs, j))) = j
      BY <1>2, <2>3, NthAt
    <3>. QED
      BY <1>2, <2>1, <2>2, <3>1 DEF j
<1>8. ASSUME NEW d \in 1..b
      PROVE  Nth(hs, c + d) = a + d
  <2>1. UpTo(hs, a + d) = js \cup ((a + 1)..(a + d))
    <3>1. \A i \in js : i <= a + d
      BY <1>1, <1>2
    <3>2. \A i : i \in (a + 1)..(a + b) /\ i <= a + d <=> i \in (a + 1)..(a + d)
      BY <1>1
    <3>. QED
      BY <1>4, <3>1, <3>2 DEF UpTo
  <2>2. Cardinality(UpTo(hs, a + d)) = c + d
    <3>1. d \in 0..b
      BY <1>1
    <3>. QED
      BY <1>5, <2>1, <3>1
  <2>3. a + d \in hs
    BY <1>1, <1>4
  <2>. QED
    BY <1>1, <1>2, <2>2, <2>3, NthAt
<1>. DEFINE left == Node(h)
            right == Node(f) \o g
<1>9. left = [k \in 1..(c + b) |-> Trimmed[h[Nth(hs, k)]]]
  <2>1. \A k \in 1..(c + b) : Nth(hs, k) \in DOMAIN h
    BY <1>1, <1>2, <1>6, NthIs
  <2>. QED
    BY <1>6, <2>1 DEF Node, Kept, hs
<1>10. Node(f) = [k \in 1..c |-> Trimmed[f[Nth(js, k)]]] /\ Node(f) \in Seq(Names)
  <2>1. \A k \in 1..c : Nth(js, k) \in DOMAIN f
    BY <1>1, <1>7
  <2>. QED
    BY <2>1, NodeType DEF Node, Kept, js, c
<1>11. /\ right \in Seq(Names) /\ Len(Node(f)) = c /\ DOMAIN right = 1..(c + b)
       /\ \A k \in 1..c : right[k] = Node(f)[k]
       /\ \A d \in 1..b : right[c + d] = g[d]
  <2>1. Len(Node(f)) = c
    BY <1>3, <1>10
  <2>. QED
    BY <1>1, <1>3, <1>10, <2>1 DEF b
<1>12. left = [k \in 1..(c + b) |-> left[k]] /\ right = [k \in 1..(c + b) |-> right[k]]
  <2>. HIDE DEF right
  <2>1. right = [k \in DOMAIN right |-> right[k]]
    BY <1>11
  <2>. QED
    BY <1>9, <1>11, <2>1
<1>. HIDE DEF left, right
<1>13. ASSUME NEW k \in 1..(c + b)
       PROVE  left[k] = right[k]
  <2>1. CASE k \in 1..c
    <3>1. Nth(hs, k) = Nth(js, k) /\ h[Nth(js, k)] = f[Nth(js, k)]
      BY <1>1, <1>7, <2>1
    <3>2. left[k] = Trimmed[f[Nth(js, k)]]
      BY <1>9, <3>1
    <3>3. right[k] = Trimmed[f[Nth(js, k)]]
      BY <1>10, <1>11, <2>1
    <3>. QED
      BY <3>2, <3>3
  <2>2. CASE k \notin 1..c
    <3>1. k - c \in 1..b /\ k = c + (k - c)
      BY <1>1, <1>3, <2>2
    <3>2. Nth(hs, k) = a + (k - c)
      BY <1>8, <3>1
    <3>3. h[Nth(hs, k)] = g[k - c]
      BY <1>1, <3>1, <3>2
    <3>4. left[k] = g[k - c]
      BY <1>1, <1>9, <3>1, <3>3
    <3>5. right[k] = g[k - c]
      BY <1>11, <3>1
    <3>. QED
      BY <3>4, <3>5
  <2>. QED
    BY <2>1, <2>2
<1>14. left = right
  BY <1>12, <1>13
<1>. QED
  BY <1>14 DEF left, right, h

\* Deleting a folder takes the requests in and beneath it.
LEMMA DeleteExact ==
  ASSUME IInv, NEW p, DeleteFolder(p)
  PROVE  FolderOp
<1>. DEFINE js == {i \in DOMAIN list : ~Under(list[i].at, p)}
<1>0. ~HasMeta(list)
  BY DEF DeleteFolder
<1>1. SUFFICES ASSUME Tidy(list)
               PROVE  /\ IdsOf(list') \subseteq IdsOf(list)
                      /\ \A r \in Range(list) :
                           IF ~IsPrefix(p, Node(r.at)) THEN r \in Range(list')
                           ELSE r.id \notin IdsOf(list')
  BY <1>0 DEF DeleteFolder, Did, FolderOp
<1>2. list \in Seq(Entry) /\ Distinct(list) /\ \A i \in DOMAIN list : ~list[i].meta
  BY <1>0 DEF IInv, TypeOK, HasMeta
<1>3. list' = Kept(list, js)
  BY DEF DeleteFolder, Becomes
<1>4. js \in SUBSET (DOMAIN list) /\ \A j \in DOMAIN list : j \in js <=> ~IsPrefix(p, list[j].at)
  BY DEF Under
<1>. HIDE DEF js
<1>5. /\ DOMAIN list' = 1..Cardinality(js)
      /\ \A k \in 1..Cardinality(js) : Nth(js, k) \in js /\ list'[k] = list[Nth(js, k)]
      /\ \A j \in js : \E k \in 1..Cardinality(js) : Nth(js, k) = j
  BY <1>2, <1>3, <1>4, KeptIs
<1>6. IdsOf(list') \subseteq IdsOf(list)
  BY <1>2, <1>4, <1>5 DEF IdsOf
<1>7. ASSUME NEW i \in DOMAIN list
      PROVE  IF ~IsPrefix(p, Node(list[i].at)) THEN list[i] \in Range(list')
             ELSE list[i].id \notin IdsOf(list')
  <2>1. Node(list[i].at) = list[i].at
    BY <1>1 DEF Tidy
  <2>2. ASSUME i \in js PROVE list[i] \in Range(list')
    BY <1>5, <2>2 DEF Range
  <2>3. ASSUME i \notin js PROVE list[i].id \notin IdsOf(list')
    BY <1>2, <1>4, <1>5, <2>3 DEF IdsOf, Distinct
  <2>. QED
    BY <1>4, <2>1, <2>2, <2>3
<1>. QED
  BY <1>6, <1>7 DEF Range

\* Renaming a folder gives the requests in and beneath it the new name, and keeps what
\* is beneath; those from the first entry with settings on stay as they are.
LEMMA RenameExact ==
  ASSUME IInv, NEW p \in Nodes(shown), NEW n \in Folder, RenameFolder(p, n)
  PROVE  FolderOp
<1>. DEFINE l == Renamed(list, p, n)
<1>. DEFINE Moved(e, r) ==
             /\ e.id = r.id /\ e.is = r.is
             /\ Node(e.at) = Node(n) \o SubSeq(Node(r.at), Len(p) + 1, Len(Node(r.at)))
<1>1. SUFFICES ASSUME Tidy(list)
               PROVE  /\ IdsOf(l) \subseteq IdsOf(list)
                      /\ \A r \in Range(list) :
                           IF ~IsPrefix(p, Node(r.at)) THEN r \in Range(l)
                           ELSE \/ \E e \in Range(l) : Moved(e, r)
                                \/ HasMeta(list) /\ r \in Range(l)
  <2>1. op' = [kind |-> "rename", from |-> p, to |-> n]
    BY DEF RenameFolder, Did
  <2>2. list' = l
    BY DEF RenameFolder, Becomes
  <2>3. HasMeta(list) => UNCHANGED <<posted, shown>>
    BY DEF RenameFolder
  <2>. QED
    BY <1>1, <2>1, <2>2, <2>3 DEF FolderOp
<1>2. /\ list \in Seq(Entry) /\ shown \in Seq(Entry) /\ Distinct(list)
      /\ HasMeta(list) \/ \A i \in DOMAIN list : ~list[i].meta
  BY DEF IInv, TypeOK, HasMeta
<1>3. p \in Seq(Names) /\ n \in Seq(Names)
  <2>1. p \in Seq(Names)
    BY <1>2, NodesType
  <2>2. n \in Seq(Names)
    BY SeqDef DEF Folder
  <2>. QED
    BY <2>1, <2>2
<1>4. ASSUME ~HasMeta(list) PROVE BeforeMeta(list) = Len(list)
  <2>1. {i \in DOMAIN list : list[i].meta} \cup {Len(list) + 1} = {Len(list) + 1}
    BY <1>2, <1>4
  <2>2. Len(list) + 1 \in Nat \ {0}
    BY <1>2
  <2>3. First({Len(list) + 1}) = Len(list) + 1
    BY <2>2, FirstIs
  <2>4. BeforeMeta(list) = First({Len(list) + 1}) - 1
    BY <2>1, Zenon DEF BeforeMeta
  <2>. QED
    BY <1>2, <2>3, <2>4
<1>5. /\ DOMAIN l = DOMAIN list
      /\ \A i \in DOMAIN list :
           \/ /\ Under(list[i].at, p)
              /\ l[i] = [list[i] EXCEPT !.at = n \o SubSeq(list[i].at, Len(p) + 1, Len(list[i].at))]
           \/ /\ l[i] = list[i]
              /\ HasMeta(list) \/ ~Under(list[i].at, p)
  <2>1. \A i \in DOMAIN list : HasMeta(list) \/ i <= BeforeMeta(list)
    BY <1>2, <1>4
  <2>. QED
    BY <1>2, <2>1 DEF Renamed
<1>. HIDE DEF l
<1>6. ASSUME NEW i \in DOMAIN list
      PROVE  /\ l[i].id = list[i].id /\ l[i].meta = list[i].meta
             /\ IF ~IsPrefix(p, Node(list[i].at)) THEN l[i] = list[i]
                ELSE Moved(l[i], list[i]) \/ (HasMeta(list) /\ l[i] = list[i])
  <2>. DEFINE at == list[i].at
              rest == SubSeq(at, Len(p) + 1, Len(at))
  <2>1. list[i] \in Entry /\ at \in Seq(Names) /\ Node(at) = at
    BY <1>1, <1>2, EntryIs DEF Tidy
  <2>2. CASE l[i] = list[i] /\ (HasMeta(list) \/ ~IsPrefix(p, at))
    BY <2>1, <2>2
  <2>3. CASE IsPrefix(p, at) /\ l[i] = [list[i] EXCEPT !.at = n \o rest]
    <3>2. /\ l[i].at = n \o rest
          /\ l[i].id = list[i].id /\ l[i].is = list[i].is /\ l[i].meta = list[i].meta
      BY <2>1, <2>3 DEF Entry
    <3>3. Len(p) \in Nat /\ Len(p) <= Len(at)
      BY <1>3, <2>3 DEF IsPrefix
    <3>4. /\ rest \in Seq(Names) /\ DOMAIN rest = 1..(Len(at) - Len(p))
          /\ \A k \in DOMAIN rest : Len(p) + k \in DOMAIN at /\ rest[k] = at[Len(p) + k]
      BY <2>1, <3>3
    <3>5. \A k \in DOMAIN rest : Trimmed[rest[k]] = rest[k] /\ rest[k] # NoText
      BY <2>1, <3>4, TidyNames
    <3>6. Node(n \o rest) = Node(n) \o rest
      BY <1>3, <3>4, <3>5, NodeConcat
    <3>. QED
      BY <2>1, <2>3, <3>2, <3>6
  <2>. QED
    BY <1>5, <2>2, <2>3 DEF Under
<1>7. IdsOf(l) \subseteq IdsOf(list)
  BY <1>5, <1>6 DEF IdsOf
<1>8. ASSUME NEW i \in DOMAIN list
      PROVE  IF ~IsPrefix(p, Node(list[i].at)) THEN list[i] \in Range(l)
             ELSE \/ \E e \in Range(l) : Moved(e, list[i])
                  \/ HasMeta(list) /\ list[i] \in Range(l)
  <2>1. l[i] \in Range(l)
    BY <1>5 DEF Range
  <2>. HIDE DEF Moved
  <2>. QED
    BY <1>6, <2>1
<1>. HIDE DEF Moved
<1>. QED
  BY <1>7, <1>8 DEF Range

\* As long as no name has blanks around it, the operations on folders take what the side bar
\* shows beneath one, at its place, and nothing else; and a rename that breaks off at settings
\* has brought no request anywhere but there (renameFolder and deleteFolder, app.js:648-659,
\* against buildTree, app.js:135-143).
THEOREM FoldersTakeWhatIsShown == Spec => FolderOpsExact
<1>1. ASSUME IInv, [Next]_vars PROVE [FolderOp]_vars
  <2>1. CASE \E p : DeleteFolder(p)
    BY <1>1, <2>1, DeleteExact
  <2>2. CASE \E p \in Nodes(shown), n \in Folder : RenameFolder(p, n)
    BY <1>1, <2>2, RenameExact
  <2>3. CASE op' = NoOp
    BY <2>3 DEF NoOp, FolderOp
  <2>4. \/ UNCHANGED vars \/ op' = NoOp \/ \E p : DeleteFolder(p)
        \/ \E p \in Nodes(shown), n \in Folder : RenameFolder(p, n)
    BY <1>1 DEF Next, DoSave, NewFolder, DupReq, SaveFolderMeta, NewReq, Drop, DelReq, DropRoot, Open,
                TypeUrl, Import, Reload, OpenGraph, CloseGraph, DragNode, OpenNode, DidNot
  <2>. QED
    BY <2>1, <2>2, <2>3, <2>4
<1>. QED
  BY <1>1, Invariance, PTL DEF Spec, FolderOpsExact
=============================================================================
