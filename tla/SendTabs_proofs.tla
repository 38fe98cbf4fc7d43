--------------------------- MODULE SendTabs_proofs ---------------------------
(***************************************************************************)
(* Proofs about SendTabs, for any number of tabs, entries, sends and token *)
(* requests.                                                               *)
(***************************************************************************)
EXTENDS SendTabs, TLAPS

Job == [pc : {"idle", "token", "fetch"}, home : Tabs \cup {Blank}, oauth : Tabs \cup {Blank}]

TypeOK ==
  /\ open \in SUBSET Tabs /\ active \in Tabs
  /\ data \in [Tabs -> Fields] /\ resp \in [Tabs -> Tabs \cup {Blank}]
  /\ form \in Fields
  /\ job \in [Jobs -> Job]
  /\ typed \in [{"text", "oauth"} -> SUBSET Tabs]
  /\ wandered \in BOOLEAN

\* Nobody has typed into a tab that is gone, but for the one that is still on the page.
TypedThere == \A f \in {"text", "oauth"} : typed[f] \subseteq open \cup {active}

\* While nobody has gone anywhere, the tab a send was started in is on the page, with the
\* settings a token was asked for with.
Stays ==
  ~wandered => \A j \in Jobs :
    /\ j \in Sends /\ job[j].pc # "idle" => job[j].home = active
    /\ job[j].pc = "token" => job[j].oauth = form.oauth

IInv == TypeOK /\ TypedThere /\ Stays /\ TypedKept /\ LandsHome /\ ShownIsActive

\* What a step may do to tabs in the background.
Untouched == \A t \in open \cap open' : t # active => data'[t] = data[t] /\ resp'[t] = resp[t]

-----------------------------------------------------------------------------
LEMMA InitOK == Init => IInv
<1>. SUFFICES ASSUME Init PROVE IInv
  OBVIOUS
<1>1. TypeOK
  <2>1. NoFields \in Fields /\ Idle \in Job
    BY DEF NoFields, Fields, Idle, Job
  <2>2. typed \in [{"text", "oauth"} -> SUBSET Tabs]
    <3>1. typed = [f \in {"text", "oauth"} |-> {}]
      BY DEF Init
    <3>. QED
      BY <3>1
  <2>3. job \in [Jobs -> Job]
    BY <2>1 DEF Init
  <2>. QED
    BY <2>1, <2>2, <2>3 DEF Init, TypeOK
<1>2. TypedThere /\ Stays
  BY DEF Init, TypedThere, Stays, Idle
<1>3. TypedKept
  BY DEF Init, TypedKept, Holds, NoFields
<1>4. LandsHome /\ ShownIsActive
  BY DEF Init, LandsHome, Holds, ShownIsActive, IsOpen
<1>. QED
  BY <1>1, <1>2, <1>3, <1>4 DEF IInv

-----------------------------------------------------------------------------
(* The tabs change.                                                        *)

\* What Elsewhere says, whichever tabs are left open.
LEMMA ElsewhereStep ==
  ASSUME TypeOK, Elsewhere
  PROVE  /\ job' = job /\ wandered' \in BOOLEAN
         /\ ~wandered' => ~wandered /\ \A j \in Jobs : job[j].pc = "idle"
         /\ typed' \in [{"text", "oauth"} -> SUBSET Tabs]
         /\ \A f \in {"text", "oauth"} : typed'[f] = typed[f] \cap open'
<1>1. job' = job
  BY DEF Elsewhere
<1>2. wandered' = (wandered \/ \E j \in Jobs : job[j].pc # "idle")
  BY DEF Elsewhere, Wanders, Busy
<1>3. wandered \in BOOLEAN
  BY DEF TypeOK
<1>4. wandered' \in BOOLEAN /\ (~wandered' => ~wandered /\ \A j \in Jobs : job[j].pc = "idle")
  BY <1>2, <1>3, Zenon
<1>5. typed' = [f \in {"text", "oauth"} |-> typed[f] \cap open']
  BY DEF Elsewhere
<1>. QED
  BY <1>1, <1>4, <1>5 DEF TypeOK

\* The tabs of ts stay, and one of them comes to the page.
LEMMA ShowTabKeeps ==
  ASSUME IInv, NEW ts \in SUBSET open, NEW t \in ts, ShowTab(ts, t), Elsewhere
  PROVE  IInv' /\ Untouched
<1>t. TypeOK /\ TypedThere /\ TypedKept /\ LandsHome /\ ShownIsActive
  BY DEF IInv
<1>e. /\ job' = job /\ wandered' \in BOOLEAN
      /\ ~wandered' => ~wandered /\ \A j \in Jobs : job[j].pc = "idle"
      /\ typed' \in [{"text", "oauth"} -> SUBSET Tabs]
      /\ \A f \in {"text", "oauth"} : typed'[f] = typed[f] \cap open'
  BY <1>t, ElsewhereStep
<1>1. open' = ts /\ active' = t /\ ts \subseteq Tabs /\ t \in Tabs
  BY <1>t DEF ShowTab, Leaves, TypeOK
<1>2. /\ data' \in [Tabs -> Fields] /\ resp' \in [Tabs -> Tabs \cup {Blank}]
      /\ \A u \in ts : data'[u] = Holds(u) /\ resp'[u] = resp[u]
  <2>1. NoFields \in Fields
    BY DEF NoFields, Fields
  <2>. QED
    BY <1>t, <1>1, <2>1 DEF ShowTab, Leaves, Kept, Holds, TypeOK
<1>3. form' = data'[t] /\ shown' = resp[t]
  BY DEF ShowTab
<1>4. \A u \in ts : Holds(u)' = Holds(u)
  BY <1>1, <1>2, <1>3 DEF Holds
<1>5. TypeOK'
  BY <1>t, <1>e, <1>1, <1>2, <1>3 DEF TypeOK
<1>6. TypedThere'
  BY <1>e, <1>1 DEF TypedThere
<1>7. Stays'
  BY <1>e, Zenon DEF Stays
<1>8. TypedKept'
  BY <1>t, <1>e, <1>1, <1>4 DEF TypedKept
<1>9. LandsHome'
  BY <1>t, <1>e, <1>1, <1>2, <1>4 DEF LandsHome
<1>10. ShownIsActive'
  BY <1>1, <1>2, <1>3 DEF ShownIsActive
<1>11. Untouched
  BY <1>1, <1>2 DEF Untouched, Holds
<1>. QED
  BY <1>5, <1>6, <1>7, <1>8, <1>9, <1>10, <1>11 DEF IInv

\* The tabs of ts stay, and a new one comes to the page.
LEMMA NewTabKeeps ==
  ASSUME IInv, NEW ts \in SUBSET open, NEW n \in Tabs, NEW e, NewTab(ts, n, e), Elsewhere
  PROVE  IInv' /\ Untouched
<1>t. TypeOK /\ TypedThere /\ TypedKept /\ LandsHome
  BY DEF IInv
<1>e. /\ job' = job /\ wandered' \in BOOLEAN
      /\ ~wandered' => ~wandered /\ \A j \in Jobs : job[j].pc = "idle"
      /\ typed' \in [{"text", "oauth"} -> SUBSET Tabs]
      /\ \A f \in {"text", "oauth"} : typed'[f] = typed[f] \cap open'
  BY <1>t, ElsewhereStep
<1>1. open' = ts \cup {n} /\ active' = n /\ n \notin open \cup {active} /\ ts \subseteq Tabs
  BY <1>t DEF NewTab, TypeOK
<1>2. form' \in Fields /\ form'.text \in {Blank, Opened}
  BY DEF NewTab, NoFields, Fields
<1>3. /\ data' \in [Tabs -> Fields] /\ resp' \in [Tabs -> Tabs \cup {Blank}]
      /\ \A u \in ts : data'[u] = Holds(u) /\ resp'[u] = resp[u]
      /\ resp'[n] = Blank
  <2>1. NoFields \in Fields
    BY DEF NoFields, Fields
  <2>2. data' = [Kept(ts) EXCEPT ![n] = form']
    BY DEF NewTab
  <2>3. Kept(ts) \in [Tabs -> Fields] /\ \A u \in ts : Kept(ts)[u] = Holds(u)
    BY <1>t, <1>1, <2>1 DEF Kept, Holds, TypeOK
  <2>4. data' \in [Tabs -> Fields] /\ \A u \in ts : data'[u] = Holds(u)
    BY <1>1, <1>2, <2>2, <2>3
  <2>5. resp' = [u \in Tabs |-> IF u \in ts THEN resp[u] ELSE Blank]
    BY DEF NewTab
  <2>. QED
    BY <1>t, <1>1, <2>4, <2>5 DEF TypeOK
<1>4. \A u \in ts : Holds(u)' = Holds(u)
  BY <1>1, <1>3 DEF Holds
<1>5. \A f \in {"text", "oauth"} : n \notin typed'[f]
  BY <1>t, <1>e, <1>1 DEF TypedThere
<1>6. TypeOK'
  BY <1>t, <1>e, <1>1, <1>2, <1>3 DEF TypeOK
<1>7. TypedThere'
  BY <1>e, <1>1 DEF TypedThere
<1>8. Stays'
  BY <1>e, Zenon DEF Stays
<1>9. TypedKept'
  <2>1. Holds(n)' = form'
    BY <1>1 DEF Holds
  <2>. QED
    BY <1>t, <1>e, <1>1, <1>2, <1>4, <1>5, <2>1 DEF TypedKept
<1>10. LandsHome'
  BY <1>t, <1>e, <1>1, <1>3, <1>4, <1>5 DEF LandsHome
<1>11. ShownIsActive'
  BY <1>1, <1>3 DEF ShownIsActive, NewTab
<1>12. Untouched
  BY <1>1, <1>3 DEF Untouched, Holds
<1>. QED
  BY <1>6, <1>7, <1>8, <1>9, <1>10, <1>11, <1>12 DEF IInv

\* The tabs of ts stay, behind the form.
LEMMA DropKeeps ==
  ASSUME IInv, NEW ts \in SUBSET open, Drop(ts), Elsewhere
  PROVE  IInv' /\ Untouched
<1>t. TypeOK /\ TypedThere /\ TypedKept /\ LandsHome /\ ShownIsActive
  BY DEF IInv
<1>e. /\ job' = job /\ wandered' \in BOOLEAN
      /\ ~wandered' => ~wandered /\ \A j \in Jobs : job[j].pc = "idle"
      /\ typed' \in [{"text", "oauth"} -> SUBSET Tabs]
      /\ \A f \in {"text", "oauth"} : typed'[f] = typed[f] \cap open'
  BY <1>t, ElsewhereStep
<1>1. open' = ts /\ ts \subseteq Tabs /\ active' = active /\ form' = form /\ shown' = shown
  BY <1>t DEF Drop, Leaves, page, TypeOK
<1>2. /\ data' \in [Tabs -> Fields] /\ resp' \in [Tabs -> Tabs \cup {Blank}]
      /\ \A u \in ts : data'[u] = data[u] /\ resp'[u] = resp[u]
  <2>1. NoFields \in Fields
    BY DEF NoFields, Fields
  <2>. QED
    BY <1>t, <1>1, <2>1 DEF Drop, Leaves, TypeOK
<1>3. \A u \in ts : Holds(u)' = Holds(u)
  BY <1>1, <1>2 DEF Holds
<1>4. TypeOK'
  BY <1>t, <1>e, <1>1, <1>2 DEF TypeOK
<1>5. TypedThere'
  BY <1>e, <1>1 DEF TypedThere
<1>6. Stays'
  BY <1>e, Zenon DEF Stays
<1>7. TypedKept'
  BY <1>t, <1>e, <1>1, <1>3 DEF TypedKept
<1>8. LandsHome'
  BY <1>t, <1>e, <1>1, <1>2, <1>3 DEF LandsHome
<1>9. ShownIsActive'
  BY <1>t, <1>1, <1>2 DEF ShownIsActive, IsOpen
<1>10. Untouched
  BY <1>1, <1>2 DEF Untouched
<1>. QED
  BY <1>4, <1>5, <1>6, <1>7, <1>8, <1>9, <1>10 DEF IInv

LEMMA TabsKeep ==
  ASSUME IInv,
         CreateTab \/ (\E t \in Tabs : SwitchTab(t) \/ CloseTab(t)) \/ (\E e \in Entries : DeleteEntry(e))
  PROVE  IInv' /\ Untouched
<1>1. CASE CreateTab
  BY <1>1, NewTabKeeps DEF CreateTab
<1>2. ASSUME NEW t \in Tabs, SwitchTab(t) PROVE IInv' /\ Untouched
  BY <1>2, ShowTabKeeps DEF SwitchTab, IsOpen
<1>3. ASSUME NEW t \in Tabs, CloseTab(t) PROVE IInv' /\ Untouched
  <2>1. open \ {t} \in SUBSET open /\ Elsewhere
    BY <1>3 DEF CloseTab
  <2>2. CASE Drop(open \ {t})
    BY <2>1, <2>2, DropKeeps
  <2>3. ASSUME NEW u \in open \ {t}, ShowTab(open \ {t}, u) PROVE IInv' /\ Untouched
    BY <2>1, <2>3, ShowTabKeeps
  <2>4. ASSUME NEW n \in Tabs, NewTab(open \ {t}, n, Blank) PROVE IInv' /\ Untouched
    BY <2>1, <2>4, NewTabKeeps
  <2>. QED
    BY <1>3, <2>2, <2>3, <2>4 DEF CloseTab
<1>4. ASSUME NEW e \in Entries, DeleteEntry(e) PROVE IInv' /\ Untouched
  <2> DEFINE left == {t \in open : id[t] # e}
  <2>1. left \in SUBSET open /\ Elsewhere
    BY <1>4 DEF DeleteEntry
  <2>2. CASE Drop(left)
    BY <2>1, <2>2, DropKeeps
  <2>3. ASSUME NEW n \in Tabs, NewTab(left, n, Blank) PROVE IInv' /\ Untouched
    BY <2>1, <2>3, NewTabKeeps
  <2>. QED
    BY <1>4, <2>2, <2>3 DEF DeleteEntry
<1>. QED
  BY <1>1, <1>2, <1>3, <1>4

-----------------------------------------------------------------------------
(* The user stays in the tab.                                              *)

\* What stays when neither a tab nor a response changes: what the tabs hold is all that
\* is left to look at.
LEMMA BarStays ==
  ASSUME IInv, UNCHANGED <<bar, active, resp, typed, shown>>, TypeOK', Stays',
         \A t \in open : Holds(t)'.text = Holds(t).text,
         ~wandered' => ~wandered /\ \A t \in open : Holds(t)'.oauth = Holds(t).oauth
  PROVE  TypedThere' /\ TypedKept' /\ LandsHome' /\ ShownIsActive'
<1>t. TypeOK /\ TypedThere /\ TypedKept /\ LandsHome /\ ShownIsActive
  BY DEF IInv
<1>1. UNCHANGED <<open, active, resp, typed, shown>>
  BY DEF bar
<1>2. TypedThere' /\ ShownIsActive'
  BY <1>t, <1>1 DEF TypedThere, ShownIsActive, IsOpen
<1>3. TypedKept'
  BY <1>t, <1>1 DEF TypedKept
<1>4. LandsHome'
  BY <1>t, <1>1 DEF LandsHome
<1>. QED
  BY <1>2, <1>3, <1>4

LEMMA SaveEntryKeeps ==
  ASSUME IInv, NEW e \in Entries, SaveEntry(e)
  PROVE  IInv' /\ Untouched
<1>1. UNCHANGED <<open, active, data, resp, form, shown, job, typed, wandered>>
  BY DEF SaveEntry, bar, page
<1>. QED
  BY <1>1 DEF IInv, TypeOK, TypedThere, Stays, TypedKept, Holds, LandsHome, ShownIsActive, IsOpen, Untouched

LEMMA TypeKeeps ==
  ASSUME IInv, NEW f \in {"text", "oauth"}, Type(f)
  PROVE  IInv' /\ Untouched
<1>t. TypeOK /\ TypedThere /\ Stays /\ TypedKept /\ LandsHome /\ ShownIsActive
  BY DEF IInv
<1>1. /\ UNCHANGED <<open, active, data, resp, shown, job>>
      /\ form' = [form EXCEPT ![f] = active] /\ typed' = [typed EXCEPT ![f] = @ \cup {active}]
  BY DEF Type, tabs, bar
<1>2. /\ wandered' \in BOOLEAN /\ (~wandered' => ~wandered)
      /\ f = "oauth" /\ ~wandered' => \A j \in Jobs : job[j].pc = "idle"
  <2>1. wandered \in BOOLEAN
    BY <1>t DEF TypeOK
  <2>2. CASE f = "oauth"
    <3>1. wandered' = (wandered \/ \E j \in Jobs : job[j].pc # "idle")
      BY <2>2 DEF Type, Wanders, Busy
    <3>. QED
      BY <2>1, <2>2, <3>1, Zenon
  <2>3. CASE f = "text"
    BY <2>1, <2>3 DEF Type
  <2>. QED
    BY <2>2, <2>3
<1>3. /\ form' \in Fields
      /\ f = "oauth" => form'.text = form.text /\ form'.oauth = active
      /\ f = "text" => form'.oauth = form.oauth /\ form'.text = active
  BY <1>t, <1>1 DEF Fields, TypeOK
<1>4. TypeOK'
  BY <1>t, <1>1, <1>2, <1>3 DEF TypeOK
<1>5. TypedThere'
  BY <1>t, <1>1 DEF TypedThere, TypeOK
<1>6. Stays'
  <2>1. CASE f = "oauth"
    BY <1>1, <1>2, <2>1 DEF Stays
  <2>2. CASE f = "text"
    BY <1>t, <1>1, <1>2, <1>3, <2>2 DEF Stays
  <2>. QED
    BY <2>1, <2>2
<1>7. TypedKept'
  BY <1>t, <1>1, <1>3 DEF TypedKept, Holds, TypeOK
<1>8. LandsHome'
  BY <1>t, <1>1, <1>2, <1>3 DEF LandsHome, Holds, TypeOK
<1>9. ShownIsActive' /\ Untouched
  BY <1>t, <1>1 DEF ShownIsActive, IsOpen, Untouched
<1>. QED
  BY <1>4, <1>5, <1>6, <1>7, <1>8, <1>9 DEF IInv

LEMMA AsksKeep ==
  ASSUME IInv, (\E j \in Sends : Send(j)) \/ (\E j \in Gets : GetToken(j))
  PROVE  IInv' /\ Untouched
<1>t. TypeOK /\ Stays
  BY DEF IInv
<1>1. UNCHANGED <<open, active, data, resp, form, shown, typed, wandered>>
  BY DEF Send, GetToken, tabs, bar, page
<1>2. form.oauth \in Tabs \cup {Blank} /\ active \in Tabs
  BY <1>t DEF TypeOK, Fields
<1>3. PICK j \in Jobs, k \in Job :
        /\ job' = [job EXCEPT ![j] = k]
        /\ j \in Sends => k.home = active
        /\ k.pc = "token" => k.oauth = form.oauth
  <2>1. ASSUME NEW j \in Sends, NEW pc \in {"fetch", "token"},
               job' = [job EXCEPT ![j] = [pc |-> pc, home |-> active,
                                          oauth |-> IF pc = "token" THEN form.oauth ELSE Blank]]
        PROVE  \E i \in Jobs, k \in Job :
                 /\ job' = [job EXCEPT ![i] = k]
                 /\ i \in Sends => k.home = active
                 /\ k.pc = "token" => k.oauth = form.oauth
    <3> DEFINE k == [pc |-> pc, home |-> active, oauth |-> IF pc = "token" THEN form.oauth ELSE Blank]
    <3>1. k \in Job /\ k.home = active /\ (k.pc = "token" => k.oauth = form.oauth)
      BY <1>2 DEF Job
    <3>. QED
      BY <2>1, <3>1 DEF Jobs
  <2>2. ASSUME NEW j \in Gets,
               job' = [job EXCEPT ![j] = [pc |-> "token", home |-> Blank, oauth |-> form.oauth]]
        PROVE  \E i \in Jobs, k \in Job :
                 /\ job' = [job EXCEPT ![i] = k]
                 /\ i \in Sends => k.home = active
                 /\ k.pc = "token" => k.oauth = form.oauth
    <3> DEFINE k == [pc |-> "token", home |-> Blank, oauth |-> form.oauth]
    <3>1. k \in Job /\ k.oauth = form.oauth
      BY <1>2 DEF Job
    <3>2. j \in Jobs /\ j \notin Sends
      BY JobsAssumption DEF Jobs
    <3>. QED
      BY <2>2, <3>1, <3>2
  <2>. QED
    BY <2>1, <2>2 DEF Send, GetToken
<1>4. TypeOK'
  BY <1>t, <1>1, <1>3 DEF TypeOK
<1>5. Stays'
  BY <1>t, <1>1, <1>3 DEF Stays, TypeOK
<1>. QED
  BY <1>1, <1>4, <1>5 DEF IInv, TypedThere, TypedKept, Holds, LandsHome, ShownIsActive, IsOpen, Untouched

-----------------------------------------------------------------------------
(* Answers.                                                                *)

LEMMA TokenKeeps ==
  ASSUME IInv, NEW j \in Jobs, TokenArrives(j)
  PROVE  IInv' /\ Untouched
<1>t. TypeOK /\ Stays
  BY DEF IInv
<1>1. UNCHANGED <<open, active, resp, shown, typed, wandered>> /\ job[j].pc = "token"
  BY DEF TokenArrives, bar
<1>2. job[j] \in Job
  BY <1>t DEF TypeOK
<1>3. PICK k \in Job :
        /\ job' = [job EXCEPT ![j] = k] /\ k.pc # "token"
        /\ k.pc # "idle" /\ j \in Sends => k.home = job[j].home
  <2>1. CASE j \in Gets
    <3>1. Idle \in Job /\ Idle.pc = "idle"
      BY DEF Idle, Job
    <3>. QED
      BY <2>1, <3>1 DEF TokenArrives
  <2>2. CASE j \notin Gets
    <3> DEFINE k == [job[j] EXCEPT !.pc = "fetch", !.oauth = Blank]
    <3>1. k \in Job /\ k.pc = "fetch" /\ k.home = job[j].home
      BY <1>2 DEF Job
    <3>2. job' = [job EXCEPT ![j] = k]
      BY <2>2 DEF TokenArrives
    <3>. QED
      BY <3>1, <3>2
  <2>. QED
    BY <2>1, <2>2
<1>4. /\ form' \in Fields /\ data' \in [Tabs -> Fields]
      /\ form'.text = form.text
      /\ ~wandered => form'.oauth = form.oauth
      /\ \A t \in Tabs : t # active => data'[t] = data[t]
  <2>1. CASE OauthStored(j)
    <3>1. form' = [form EXCEPT !.oauth = job[j].oauth]
      BY <2>1 DEF OauthStored
    <3>2. form' \in Fields /\ form'.text = form.text /\ form'.oauth = job[j].oauth
      BY <1>t, <1>2, <3>1 DEF Fields, Job, TypeOK
    <3>3. data' \in [Tabs -> Fields] /\ \A t \in Tabs : t # active => data'[t] = data[t]
      BY <1>t, <2>1, <3>2 DEF OauthStored, TypeOK
    <3>. QED
      BY <1>t, <1>1, <3>2, <3>3 DEF Stays
  <2>2. CASE UNCHANGED <<form, data>>
    BY <1>t, <2>2 DEF TypeOK
  <2>. QED
    BY <2>1, <2>2 DEF TokenArrives
<1>5. TypeOK'
  BY <1>t, <1>1, <1>3, <1>4 DEF TypeOK
<1>6. Stays'
  <2>. SUFFICES ASSUME ~wandered, NEW i \in Jobs
                PROVE  /\ i \in Sends /\ job'[i].pc # "idle" => job'[i].home = active
                       /\ job'[i].pc = "token" => job'[i].oauth = form'.oauth
    BY <1>1 DEF Stays
  <2>1. CASE i = j
    BY <1>t, <1>1, <1>3, <2>1 DEF Stays, TypeOK
  <2>2. CASE i # j
    BY <1>t, <1>1, <1>3, <1>4, <2>2 DEF Stays, TypeOK
  <2>. QED
    BY <2>1, <2>2
<1>7. \A t \in open :
        Holds(t)'.text = Holds(t).text /\ (~wandered' => Holds(t)'.oauth = Holds(t).oauth)
  BY <1>t, <1>1, <1>4 DEF Holds, TypeOK
<1>8. TypedThere' /\ TypedKept' /\ LandsHome' /\ ShownIsActive'
  <2>1. UNCHANGED <<bar, active, resp, typed, shown>>
    BY <1>1 DEF TokenArrives
  <2>2. ~wandered' => ~wandered
    BY <1>1
  <2>. QED
    BY <1>5, <1>6, <1>7, <2>1, <2>2, BarStays
<1>9. Untouched
  BY <1>t, <1>1, <1>4 DEF Untouched, TypeOK
<1>. QED
  BY <1>5, <1>6, <1>8, <1>9 DEF IInv

\* A send or token request is over.
LEMMA DoneStays ==
  ASSUME TypeOK, Stays, NEW j \in Jobs, job' = [job EXCEPT ![j] = Idle],
         UNCHANGED <<active, form, wandered>>
  PROVE  job' \in [Jobs -> Job] /\ Stays'
<1>1. Idle \in Job /\ Idle.pc = "idle"
  BY DEF Idle, Job
<1>. QED
  BY <1>1 DEF Stays, TypeOK

LEMMA AnswerKeeps ==
  ASSUME IInv, NEW j \in Sends, Answer(j)
  PROVE  IInv' /\ Untouched
<1>t. TypeOK /\ TypedThere /\ Stays /\ TypedKept /\ LandsHome
  BY DEF IInv
<1>1. /\ UNCHANGED <<open, active, data, form, typed, wandered>> /\ j \in Jobs
      /\ job' = [job EXCEPT ![j] = Idle] /\ shown' = job[j].home
      /\ resp' = IF active \in open THEN [resp EXCEPT ![active] = job[j].home] ELSE resp
  BY DEF Answer, Stores, IsOpen, bar, Jobs
<1>2. job[j].home \in Tabs \cup {Blank} /\ (~wandered => job[j].home = active)
  BY <1>t, <1>1 DEF Answer, Stays, TypeOK, Job
<1>3. job' \in [Jobs -> Job] /\ Stays'
  BY <1>t, <1>1, DoneStays
<1>4. TypeOK'
  BY <1>t, <1>1, <1>2, <1>3 DEF TypeOK
<1>5. TypedThere' /\ TypedKept'
  BY <1>t, <1>1 DEF TypedThere, TypedKept, Holds
<1>6. LandsHome'
  BY <1>t, <1>1, <1>2 DEF LandsHome, Holds, TypeOK
<1>7. ShownIsActive' /\ Untouched
  BY <1>t, <1>1 DEF ShownIsActive, IsOpen, Untouched, TypeOK
<1>. QED
  BY <1>3, <1>4, <1>5, <1>6, <1>7 DEF IInv

LEMMA FailKeeps ==
  ASSUME IInv, NEW j \in Jobs, Fail(j)
  PROVE  IInv' /\ Untouched
<1>t. TypeOK /\ TypedThere /\ Stays /\ TypedKept /\ LandsHome /\ ShownIsActive
  BY DEF IInv
<1>1. /\ UNCHANGED <<open, active, data, resp, form, typed, wandered>>
      /\ job' = [job EXCEPT ![j] = Idle] /\ shown' \in {shown, Failed}
  BY DEF Fail, tabs, bar
<1>2. job' \in [Jobs -> Job] /\ Stays'
  BY <1>t, <1>1, DoneStays
<1>3. TypeOK'
  BY <1>t, <1>1, <1>2 DEF TypeOK
<1>4. TypedThere' /\ TypedKept' /\ LandsHome'
  BY <1>t, <1>1 DEF TypedThere, TypedKept, Holds, LandsHome
<1>5. ShownIsActive' /\ Untouched
  BY <1>t, <1>1 DEF ShownIsActive, IsOpen, Untouched
<1>. QED
  BY <1>2, <1>3, <1>4, <1>5 DEF IInv

-----------------------------------------------------------------------------
LEMMA StepKeeps == IInv /\ [Next]_vars => IInv' /\ (Next => Untouched)
<1>. SUFFICES ASSUME IInv, [Next]_vars PROVE IInv' /\ (Next => Untouched)
  OBVIOUS
<1>1. CASE Next
  BY <1>1, TabsKeep, SaveEntryKeeps, TypeKeeps, AsksKeep, TokenKeeps, AnswerKeeps, FailKeeps DEF Next
<1>2. ASSUME UNCHANGED vars PROVE IInv' /\ Untouched
  <2>1. UNCHANGED <<open, active, data, resp, form, shown, job, typed, wandered>>
    BY <1>2 DEF vars, tabs, bar, page
  <2>. QED
    BY <2>1 DEF IInv, TypeOK, TypedThere, Stays, TypedKept, Holds, LandsHome, ShownIsActive, IsOpen, Untouched
<1>. QED
  BY <1>1, <1>2

LEMMA Invariance == Spec => []IInv
<1>1. IInv /\ [Next]_vars => IInv'
  BY StepKeeps
<1>. QED
  BY InitOK, <1>1, PTL DEF Spec

-----------------------------------------------------------------------------
\* For any number of tabs, sends and token requests: what somebody typed into a tab stays
\* in it and comes into no other (saveCurrentTabState, loadTabState, oauthStored;
\* app.js:241-264, 347).
THEOREM TypedStays == Spec => []TypedKept
<1>1. IInv => TypedKept
  BY DEF IInv
<1>. QED
  BY <1>1, Invariance, PTL

\* Who stays in the tab, and leaves its OAuth settings alone, finds the response and the
\* token in the tab they were asked for in (doSend, app.js:397-423).
THEOREM AnswersLand == Spec => []LandsHome
<1>1. IInv => LandsHome
  BY DEF IInv
<1>. QED
  BY <1>1, Invariance, PTL

\* The page shows the response of the tab it is on, or a failure (loadResponseState,
\* app.js:228-233, 423).
THEOREM ShowsActive == Spec => []ShownIsActive
<1>1. IInv => ShownIsActive
  BY DEF IInv
<1>. QED
  BY <1>1, Invariance, PTL

\* No answer, token, edit or click changes a tab in the background (app.js:348, 423).
THEOREM BackgroundUntouched == Spec => InactiveKept
<1>1. IInv /\ [Next]_vars => [Untouched]_vars
  BY StepKeeps
<1>. QED
  BY <1>1, Invariance, PTL DEF Spec, InactiveKept, Untouched
=============================================================================
