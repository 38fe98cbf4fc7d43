---------------------------- MODULE Collections ----------------------------
(***************************************************************************)
(* The saved requests as browser windows see them: savedList in            *)
(* web/js/app.js, every handler that changes it and posts it to /save, and *)
(* loadSaved.  The server is the register of SavedList; what lies between  *)
(* is modelled here: requests in flight, which different workers serve in  *)
(* any order, and answers nobody looks at.  A list maps each entry to the  *)
(* number of the edit that wrote it, so that no two edits give equal       *)
(* lists.                                                                  *)
(***************************************************************************)
EXTENDS Naturals, Sequences, SequencesExt

CONSTANTS
  Windows, Entries,
  NoList,     \* a file that is JSON but no array
  MaxEdits,   \* bound of the model: edits in a behaviour
  MaxReloads  \* bound of the model: pages loaded again

Absent == 0
Lists == [Entries -> 0..MaxEdits]

ASSUME BoundsAssumption == MaxEdits \in Nat \ {0} /\ MaxReloads \in Nat
ASSUME NoListAssumption == NoList \notin Lists

VARIABLES
  server,   \* what GET /requests.json answers
  list,     \* savedList of each window
  loading,  \* where loadSaved of each window is
  loaded,   \* the answer on its way to it
  flight,   \* the saves of each window on their way, in the order they were made
  edits, reloads,
  newest,   \* history: the list with every edit there was, in their order
  lost,     \* history: the last save to be served failed
  careless  \* history: an edit was made before the load was done ("early"), while
            \* a save was on its way ("overlap"), or in a window that did not show
            \* the newest list ("stale")

page == <<list, loading, loaded>>
history == <<newest, lost, careless>>
vars == <<server, page, flight, edits, reloads, history>>

Empty == [e \in Entries |-> Absent]
In(l) == {e \in Entries : l[e] # Absent}

\* The file holds what earlier sessions saved, all of it counted as edit 1, and the
\* pages are being loaded.
Init ==
  /\ server \in [Entries -> {Absent, 1}] \cup {NoList}
  /\ list = [w \in Windows |-> Empty]
  /\ loading = [w \in Windows |-> "asked"]
  /\ loaded = [w \in Windows |-> Empty]
  /\ flight = [w \in Windows |-> <<>>]
  /\ edits = 1 /\ reloads = 0
  /\ newest = (IF server = NoList THEN Empty ELSE server)
  /\ lost = (server = NoList) /\ careless = {}

Quiet == \A w \in Windows : flight[w] = <<>>

\* mutant: the list is posted as it was before the edit.
StoreSaved_Before(w, l) == flight' = [flight EXCEPT ![w] = Append(@, list[w])]

\* storeSaved posts the whole list, and nobody waits for it.
StoreSaved(w, l) == flight' = [flight EXCEPT ![w] = Append(@, l)]

\* The entries es of l become n, the number of an edit, or Absent.
Changed(l, es, n) == [e \in Entries |-> IF e \in es THEN n ELSE l[e]]

\* A handler does that to the list of window w, and posts it.
Becomes(w, es, n) ==
  /\ edits < MaxEdits /\ edits' = edits + 1
  /\ list' = [list EXCEPT ![w] = Changed(@, es, n)]
  /\ StoreSaved(w, Changed(list[w], es, n))
  /\ newest' = Changed(newest, es, n)
  /\ careless' = careless
       \cup {r \in {"early"} : loading[w] # "done"}
       \cup {r \in {"overlap"} : ~Quiet}
       \cup {r \in {"stale"} : loading[w] = "done" /\ list[w] # newest}
  /\ UNCHANGED <<server, loading, loaded, reloads, lost>>

\* doSave and saveFolderMeta: the entry is replaced, or added when there is none.
SaveEntry(w, e) == Becomes(w, {e}, edits + 1)

\* Import, duplicate, new folder: entries with new ids.
AddEntries(w, es) == es \cap In(list[w]) = {} /\ Becomes(w, es, edits + 1)

\* Rename a folder, drop on a folder: some entries get another folder.
MoveEntries(w, es) == es \subseteq In(list[w]) /\ Becomes(w, es, edits + 1)

\* Delete a request or a folder.
RemoveEntries(w, es) == es \subseteq In(list[w]) /\ Becomes(w, es, Absent)

Edit(w) ==
  \/ \E e \in Entries : SaveEntry(w, e)
  \/ \E es \in SUBSET Entries \ {{}} :
       AddEntries(w, es) \/ MoveEntries(w, es) \/ RemoveEntries(w, es)

-----------------------------------------------------------------------------
\* handle_save_route serves the k-th of the saves that are on their way.
Apply(w, k) ==
  /\ server' = flight[w][k]
  /\ flight' = [flight EXCEPT ![w] = RemoveAt(@, k)]
  /\ lost' = FALSE
  /\ UNCHANGED <<page, edits, reloads, newest, careless>>

\* The save is refused or never arrives; storeSaved logs it at most.
Lose(w, k) ==
  /\ flight' = [flight EXCEPT ![w] = RemoveAt(@, k)]
  /\ lost' = TRUE
  /\ UNCHANGED <<server, page, edits, reloads, newest, careless>>

-----------------------------------------------------------------------------
(* loadSaved.                                                              *)

\* The page is loaded again; what it posted before may still arrive.
Reload(w) ==
  /\ reloads < MaxReloads /\ reloads' = reloads + 1
  /\ list' = [list EXCEPT ![w] = Empty]
  /\ loading' = [loading EXCEPT ![w] = "asked"]
  /\ loaded' = [loaded EXCEPT ![w] = Empty]
  /\ UNCHANGED <<server, flight, edits, history>>

\* The server answers GET /requests.json.
LoadServed(w) ==
  /\ loading[w] = "asked"
  /\ loading' = [loading EXCEPT ![w] = "answered"]
  /\ loaded' = [loaded EXCEPT ![w] = server]
  /\ UNCHANGED <<server, list, flight, edits, reloads, history>>

\* mutant: any JSON is taken for the list.
LoadDone_Unchecked(w) ==
  /\ loading[w] = "answered"
  /\ list' = [list EXCEPT ![w] = loaded[w]]
  /\ loading' = [loading EXCEPT ![w] = "done"]
  /\ UNCHANGED <<server, loaded, flight, edits, reloads, history>>

\* The answer replaces the list, whatever was done to it meanwhile.
LoadDone(w) ==
  /\ loading[w] = "answered"
  /\ list' = [list EXCEPT ![w] = IF loaded[w] = NoList THEN Empty ELSE loaded[w]]
  /\ loading' = [loading EXCEPT ![w] = "done"]
  /\ UNCHANGED <<server, loaded, flight, edits, reloads, history>>

\* The fetch fails, is not ok or is no JSON: the list stays as it is.
LoadFails(w) ==
  /\ loading[w] \in {"asked", "answered"}
  /\ loading' = [loading EXCEPT ![w] = "done"]
  /\ UNCHANGED <<server, list, loaded, flight, edits, reloads, history>>

Next ==
  \E w \in Windows :
    \/ Edit(w)
    \/ \E k \in DOMAIN flight[w] : Apply(w, k) \/ Lose(w, k)
    \/ Reload(w) \/ LoadServed(w) \/ LoadDone(w) \/ LoadFails(w)

Spec == Init /\ [][Next]_vars

-----------------------------------------------------------------------------
\* Every variable has its type.
TypeOK ==
  /\ server \in Lists \cup {NoList} /\ newest \in Lists
  /\ list \in [Windows -> Lists] /\ loaded \in [Windows -> Lists \cup {NoList}]
  /\ loading \in [Windows -> {"asked", "answered", "done"}]
  /\ flight \in [Windows -> Seq(Lists)]
  /\ edits \in 1..MaxEdits /\ reloads \in 0..MaxReloads
  /\ lost \in BOOLEAN
  /\ careless \subseteq {"early", "overlap", "stale"}

\* A user who waits for the load and for each save, and edits in a window that is
\* up to date, finds all edits on the server, and one save that is served makes up
\* for those that failed before it, in any number of windows and reloads.
ServerFollows == careless = {} /\ ~lost /\ Quiet => server = newest

\* README.md:19: all saved requests are stored in data/requests.json.  So also for
\* a user who makes an edit while the save of the last one is on its way.
SavesKeepOrder ==
  careless \subseteq {"overlap"} /\ ~lost /\ Quiet => server = newest
=============================================================================
