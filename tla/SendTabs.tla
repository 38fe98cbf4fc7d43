------------------------------ MODULE SendTabs ------------------------------
(***************************************************************************)
(* Tabs and sending in web/js/app.js.  There is one form; the tabs keep    *)
(* what it held when they were last left.  doSend and the Get Token button *)
(* wait for answers, and the user goes on meanwhile: types, switches,      *)
(* opens, closes and deletes, and sends again with Ctrl+Enter, which does  *)
(* not look at the disabled button.                                        *)
(*                                                                         *)
(* What a form field holds is known by the tab it was typed in.  Left out: *)
(* the texts, the choice of fetch or proxy, the test lines, the history.   *)
(***************************************************************************)
EXTENDS Naturals, FiniteSets

CONSTANTS
  Tabs,     \* ids of tabs: as many as are needed for a fresh one
  MaxOpen,  \* bound of the model: tabs open at once
  Sends,    \* sends that may be on their way at once
  Gets,     \* uses of Get Token that may be
  Entries,  \* saved requests tabs are opened from
  Blank,    \* an empty field, no settings, no response, no entry
  Opened,   \* a field as it is in the entry the tab was opened from
  Failed    \* the message of a failed send

ASSUME BoundAssumption == MaxOpen \in Nat \ {0}
ASSUME NamesAssumption ==
  /\ {Blank, Opened, Failed} \cap Tabs = {} /\ Blank # Opened /\ Blank # Failed
  /\ Blank \notin Entries
ASSUME JobsAssumption == Sends \cap Gets = {}

Jobs == Sends \cup Gets

\* The fields: text for the request, oauth for the OAuth settings and tokens.
Fields == [text : Tabs \cup {Blank, Opened}, oauth : Tabs \cup {Blank}]

VARIABLES
  open, active,  \* tabs and activeTabId
  ahead,         \* the tabs to the left of an open one
  data, id,      \* tab.data: the fields, and the entry it is
  resp,          \* tab.respState: the tab whose request it answers
  form, shown,   \* the form, and the response on the page
  job,           \* sends and token requests: pc, the tab a send was started in, the
                 \* settings a token was asked for with
  typed,         \* history: tabs somebody typed a request, or OAuth settings, into
  wandered       \* history: tabs, or OAuth settings, changed while a job was
                 \* on its way

bar == <<open, ahead>>
tabs == <<bar, active, data, id, resp>>
page == <<form, shown>>
vars == <<tabs, page, job, typed, wandered>>

IsOpen(t) == t \in open
IsLast(ts, t) == t \in ts /\ ts \ {t} \subseteq ahead[t]
Busy(j) == job[j].pc # "idle"
Wanders == wandered' = (wandered \/ \E j \in Jobs : Busy(j))

NoFields == [text |-> Blank, oauth |-> Blank]
Idle == [pc |-> "idle", home |-> Blank, oauth |-> Blank]

\* init creates the first tab.
Init ==
  /\ active \in Tabs /\ open = {active} /\ ahead = [t \in Tabs |-> {}]
  /\ data = [t \in Tabs |-> NoFields] /\ id = [t \in Tabs |-> Blank]
  /\ resp = [t \in Tabs |-> Blank]
  /\ form = NoFields /\ shown = Blank
  /\ job = [j \in Jobs |-> Idle]
  /\ typed = [text |-> {}, oauth |-> {}]
  /\ wandered = FALSE

-----------------------------------------------------------------------------
\* mutant: switchTab does not save the tab that is left.
Kept_Forgets(ts) == [t \in Tabs |-> IF t \in ts THEN data[t] ELSE NoFields]

\* saveCurrentTabState, with the tabs ts: it finds no tab once the active one is gone.
Kept(ts) ==
  [t \in Tabs |-> IF t \notin ts THEN NoFields
                  ELSE IF t = active THEN form ELSE data[t]]

\* The tabs are now ts; what the others held is gone.
Leaves(ts) ==
  /\ open' = ts
  /\ ahead' = [t \in Tabs |-> IF t \in ts THEN ahead[t] \cap ts ELSE {}]
  /\ id' = [t \in Tabs |-> IF t \in ts THEN id[t] ELSE Blank]
  /\ resp' = [t \in Tabs |-> IF t \in ts THEN resp[t] ELSE Blank]

\* switchTab, with the tabs ts.
ShowTab(ts, t) ==
  /\ Leaves(ts)
  /\ active' = t
  /\ data' = Kept(ts)
  /\ form' = data'[t]
  /\ shown' = resp[t]

\* createTab, with the tabs ts: from entry e, or empty, with the new id n.
NewTab(ts, n, e) ==
  /\ Cardinality(ts) < MaxOpen
  /\ n \notin open \cup {active}
  /\ open' = ts \cup {n} /\ active' = n
  /\ ahead' = [t \in Tabs |-> IF t = n THEN ts ELSE IF t \in ts THEN ahead[t] ELSE {}]
  /\ form' = [NoFields EXCEPT !.text = IF e = Blank THEN Blank ELSE Opened]
  /\ data' = [Kept(ts) EXCEPT ![n] = form']
  /\ id' = [t \in Tabs |-> IF t = n THEN e ELSE IF t \in ts THEN id[t] ELSE Blank]
  /\ resp' = [t \in Tabs |-> IF t \in ts THEN resp[t] ELSE Blank]
  /\ shown' = Blank

\* Tabs ts are closed behind the active one, which stays on the page.
Drop(ts) ==
  /\ Leaves(ts)
  /\ data' = [t \in Tabs |-> IF t \in ts THEN data[t] ELSE NoFields]
  /\ UNCHANGED <<active, page>>

Elsewhere ==
  /\ typed' = [f \in {"text", "oauth"} |-> typed[f] \cap open']
  /\ UNCHANGED job
  /\ Wanders

CreateTab == /\ \E n \in Tabs, e \in Entries \cup {Blank} : NewTab(open, n, e)
             /\ Elsewhere

SwitchTab(t) == IsOpen(t) /\ ShowTab(open, t) /\ Elsewhere

CloseTab(t) ==
  /\ IsOpen(t)
  /\ LET left == open \ {t} IN
       \/ active # t /\ Drop(left)
       \/ active = t /\ \E u \in left : IsLast(left, u) /\ ShowTab(left, u)
       \/ active = t /\ left = {} /\ \E n \in Tabs : NewTab(left, n, Blank)
  /\ Elsewhere

\* delReq closes every tab of the entry; when others are left it shows none of them.
DeleteEntry(e) ==
  /\ LET left == {t \in open : id[t] # e} IN
       \/ left # {} /\ Drop(left)
       \/ left = {} /\ \E n \in Tabs : NewTab(left, n, Blank)
  /\ Elsewhere

\* doSave gives the tab the id of the entry that was saved: its own as long as that is in
\* the list, and else one with the same request, or a new one.  Which entries a folder that
\* was deleted took with it is left out, so that e may be any of them.
SaveEntry(e) ==
  /\ form.text # Blank
  /\ id' = IF IsOpen(active) THEN [id EXCEPT ![active] = e] ELSE id
  /\ UNCHANGED <<bar, active, data, resp, page, job, typed, wandered>>

\* The user types into the form.
Type(field) ==
  /\ form' = [form EXCEPT ![field] = active]
  /\ typed' = [typed EXCEPT ![field] = @ \cup {active}]
  /\ IF field = "oauth" THEN Wanders ELSE UNCHANGED wandered
  /\ UNCHANGED <<tabs, shown, job>>

-----------------------------------------------------------------------------
\* doSend up to its first await.  A token that is fresh needs no answer.
Send(j) ==
  /\ ~Busy(j) /\ form.text # Blank
  /\ \E pc \in {"fetch"} \cup {p \in {"token"} : form.oauth # Blank} :
       job' = [job EXCEPT ![j] = [pc |-> pc, home |-> active,
                                  oauth |-> IF pc = "token" THEN form.oauth ELSE Blank]]
  /\ UNCHANGED <<tabs, page, typed, wandered>>

GetToken(j) ==
  /\ ~Busy(j) /\ form.oauth # Blank
  /\ job' = [job EXCEPT ![j] = [pc |-> "token", home |-> Blank, oauth |-> form.oauth]]
  /\ UNCHANGED <<tabs, page, typed, wandered>>

\* mutant: the form is saved into the newest tab.
OauthStored_IntoLast(j) ==
  /\ form' = [form EXCEPT !.oauth = job[j].oauth]
  /\ data' = [t \in Tabs |-> IF IsLast(open, t) THEN form' ELSE data[t]]

\* oauthStored: the settings read at the start, with the token, go into the form
\* that is on the page now, and with all of the form into the tab that is active now.
OauthStored(j) ==
  /\ form' = [form EXCEPT !.oauth = job[j].oauth]
  /\ data' = IF IsOpen(active) THEN [data EXCEPT ![active] = form'] ELSE data

\* oauthEnsure returns; doSend keeps a token only when it is a new one.
TokenArrives(j) ==
  /\ job[j].pc = "token"
  /\ \/ OauthStored(j)
     \/ j \in Sends /\ UNCHANGED <<form, data>>
  /\ job' = [job EXCEPT ![j] = IF j \in Gets THEN Idle ELSE [@ EXCEPT !.pc = "fetch", !.oauth = Blank]]
  /\ UNCHANGED <<bar, active, id, resp, shown, typed, wandered>>

\* mutant: the response is shown without being stored in a tab.
Stores_Nowhere(j) == resp' = resp

\* mutant: the response is stored in the newest tab.
Stores_Last(j) ==
  resp' = [t \in Tabs |-> IF IsLast(open, t) THEN job[j].home ELSE resp[t]]

\* The response is stored in the tab that is active now.
Stores(j) == resp' = IF IsOpen(active) THEN [resp EXCEPT ![active] = job[j].home] ELSE resp

Answer(j) ==
  /\ job[j].pc = "fetch"
  /\ shown' = job[j].home
  /\ Stores(j)
  /\ job' = [job EXCEPT ![j] = Idle]
  /\ UNCHANGED <<bar, active, data, id, form, typed, wandered>>

\* The catch of doSend shows the failure and stores it nowhere; Get Token puts it
\* into its status line.
Fail(j) ==
  /\ Busy(j)
  /\ shown' = IF j \in Sends THEN Failed ELSE shown
  /\ job' = [job EXCEPT ![j] = Idle]
  /\ UNCHANGED <<tabs, form, typed, wandered>>

Next ==
  \/ CreateTab
  \/ \E t \in Tabs : SwitchTab(t) \/ CloseTab(t)
  \/ \E e \in Entries : DeleteEntry(e) \/ SaveEntry(e)
  \/ \E f \in {"text", "oauth"} : Type(f)
  \/ \E j \in Sends : Send(j) \/ Answer(j)
  \/ \E j \in Gets : GetToken(j)
  \/ \E j \in Jobs : TokenArrives(j) \/ Fail(j)

Spec == Init /\ [][Next]_vars

-----------------------------------------------------------------------------
\* What a tab holds: the form, when it is the active one.
Holds(t) == IF t = active THEN form ELSE data[t]

\* The request somebody typed into a tab stays in it as long as it is open, and comes
\* into no other, whatever answers and tokens arrive and whatever tabs come and go.
TypedKept ==
  \A t \in open :
    IF t \in typed.text THEN Holds(t).text = t ELSE Holds(t).text \in {Blank, Opened}

\* As long as the user stays in the tab, and leaves its OAuth settings alone, while
\* something is on its way, its response and its token come to the tab it was started
\* in.
LandsHome ==
  ~wandered => \A t \in open :
    /\ resp[t] \in {Blank, t}
    /\ t \in typed.oauth => Holds(t).oauth = t

\* The page shows the response of the active tab, or that a send failed.
ShownIsActive == IsOpen(active) => shown \in {resp[active], Failed}

\* What arrives late changes no tab but the active one.
InactiveKept ==
  [][\A t \in open \cap open' :
       t # active => data'[t] = data[t] /\ resp'[t] = resp[t]]_vars
=============================================================================
