------------------------------- MODULE Folders -------------------------------
(***************************************************************************)
(* The tree of saved requests in one window, of web/js/app.js, import.js   *)
(* and graph.js: the folders a request names, the auth settings a folder   *)
(* has (an entry of its own in savedList, with a path and no folder), what *)
(* a request inherits, the side bar, the graph, and the operations of the  *)
(* context menu, of dragging, saving and importing.                        *)
(*                                                                         *)
(* A folder is a sequence of names, as '/' parts its text.  A name may have*)
(* blanks around it: some code trims them and some does not.  Of a request *)
(* the model keeps its id, folder and URL, of settings their kind.  There  *)
(* is one tab; SendTabs has several.                                       *)
(***************************************************************************)
EXTENDS Naturals, Sequences, FiniteSets, SequencesExt

CONSTANTS
  Ids, Urls, Names,
  Trimmed,       \* Trimmed[n]: the name n without the blanks around it
  NoText,        \* an empty URL, an empty name
  NoId,          \* no id, or one that nothing asks for
  Uncategorized, \* the name of the folder of those that have none
  Own,           \* kinds of auth settings that send something
  Starts,        \* lists of earlier sessions
  Imports,       \* Postman collections, see Parsed
  MaxDepth,      \* bound of the model: names in a folder
  MaxList,       \* bound of the model: entries in the list
  MaxOps         \* bound of the model: operations in a behaviour

VARIABLES
  list,    \* savedList
  posted,  \* the list as it was last posted to /save
  shown,   \* the list the side bar was drawn from
  graph,   \* graphActive, graphNeedsRebuild, and the nodes on it
  form,    \* the request in the tab: its id, its folder, its URL
  torn,    \* history: a rename broke off after it had changed something
  op,      \* history: the last operation on folders
  ops

vars == <<list, posted, shown, graph, form, torn, op, ops>>

Home == <<Uncategorized>>
Kinds == Own \cup {"none", "inherit"}
Folder == UNION {[1..k -> Names] : k \in 1..MaxDepth}

\* An entry of savedList is a request, or the settings of a folder, whose random id nothing
\* asks for.
Entry == [meta : {FALSE}, id : Ids, at : Seq(Names), is : Urls \cup {NoText}]
           \cup [meta : {TRUE}, id : {NoId}, at : Seq(Names), is : Kinds]

\* No two requests of the list l have the same id.
Distinct(l) ==
  \A i, j \in DOMAIN l : ~l[i].meta /\ ~l[j].meta /\ l[i].id = l[j].id => i = j

\* Trimming a name gives a name, and NoId is told from the ids of requests.
ASSUME NamesAssumption ==
  Trimmed \in [Names -> Names] /\ Uncategorized \in Names /\ NoId \notin Ids

\* A list of an earlier session is one this page posted.
ASSUME StartsAssumption == \A l \in Starts : l \in Seq(Entry) /\ Distinct(l)

\* A collection has a name; its items are in folders, and are requests or folders.
ASSUME ImportsAssumption ==
  \A c \in Imports :
    /\ c.name \in Names
    /\ c.items \in Seq([request : BOOLEAN, in : Seq(Names), auth : STRING, url : Urls \cup {NoText}])

Request(id, at, url) == [meta |-> FALSE, id |-> id, at |-> at, is |-> url]
Meta(at, kind) == [meta |-> TRUE, id |-> NoId, at |-> at, is |-> kind]
BlankForm == [id |-> NoId, at |-> Home, url |-> NoText]
FormOf(e) == [id |-> e.id, at |-> e.at, url |-> e.is]

\* filter: the entries of l at the places js, in their order.
Nth(js, k) == CHOOSE j \in js : Cardinality({i \in js : i <= j}) = k
Kept(l, js) == [k \in 1..Cardinality(js) |-> l[Nth(js, k)]]

Requests(l) == Kept(l, {i \in DOMAIN l : ~l[i].meta})
IdsOf(l) == {l[i].id : i \in {j \in DOMAIN l : ~l[j].meta}}
HasMeta(l) == \E i \in DOMAIN l : l[i].meta

\* New ids are random.
Fresh == Ids \ (IdsOf(list) \cup {form.id})

\* findIndex: the first place in l of those in js; 0 when there is none.
First(js) == IF js = {} THEN 0 ELSE CHOOSE i \in js : \A j \in js : i <= j

\* The settings of a folder: the first entry with its path.
FirstMeta(l, p) == First({j \in DOMAIN l : l[j].meta /\ l[j].at = p})

\* buildTree trims the names of a folder and leaves out the empty ones.
Node(f) ==
  Kept([i \in DOMAIN f |-> Trimmed[f[i]]], {i \in DOMAIN f : Trimmed[f[i]] # NoText})

\* The folders of the side bar: a title for each, with its path.
Nodes(l) ==
  UNION {{SubSeq(Node(r.at), 1, k) : k \in DOMAIN Node(r.at)} : r \in Range(Requests(l))}

\* mutant: the folders below are left alone.
Under_Itself(f, p) == f = p

\* f is the folder p, or begins with its text and a '/'.
Under(f, p) == IsPrefix(p, f)

\* doSave trims the text of the folder: the blanks at its end.
TrimEnd(f) == [f EXCEPT ![Len(f)] = Trimmed[@]]

-----------------------------------------------------------------------------
\* The settings doSend finds for a folder.
Settings(p) == IF FirstMeta(list, p) = 0 THEN "inherit" ELSE list[FirstMeta(list, p)].is

\* mutant: the walk ends at the first folder that has settings.
Goes_ToAnySettings(p) == Settings(p) = "inherit"

\* doSend goes on to the folder around p: "none" does not end the walk.
Goes(p) == Settings(p) \notin Own

\* What doSend sends for the request in the tab when it inherits.
Inherited ==
  LET up[k \in 0..Len(form.at)] ==
        IF k = 0 THEN "none"
        ELSE IF Goes(SubSeq(form.at, 1, k)) THEN up[k - 1]
        ELSE Settings(SubSeq(form.at, 1, k))
  IN up[Len(form.at)]

\* openFolderMeta: what the gear of a folder shows.
GearShows(p) == IF FirstMeta(list, p) = 0 THEN "inherit" ELSE list[FirstMeta(list, p)].is

\* buildGraph: a node for each folder that some request names, blanks and all, and one
\* for each request, beneath its folder.
Drawing(l) ==
  UNION {{<<"request", r.id, r.at>>} \cup {<<"folder", SubSeq(r.at, 1, k)>> : k \in DOMAIN r.at}
           : r \in Range(Requests(l))}

\* mutant: the graph is not told.
RenderSaved_Alone(l) == shown' = l /\ UNCHANGED graph

\* renderSaved draws the side bar, and has the graph drawn anew when it is opened next.
RenderSaved(l) == shown' = l /\ graph' = [graph EXCEPT !.stale = TRUE]

\* A handler is done with the list l: it posts it and shows it.
Becomes(l) ==
  /\ Len(l) <= MaxList
  /\ list' = l /\ posted' = l
  /\ RenderSaved(l)

Counts == ops < MaxOps /\ ops' = ops + 1
NoOp == [kind |-> "other", from |-> <<>>, to |-> <<>>]
Did(kind, p, n) == op' = [kind |-> kind, from |-> p, to |-> n]
DidNot == op' = NoOp

\* The side bar and its menus can be reached: the open graph lies over the page.
Sidebar == ~graph.open

Init ==
  /\ list \in Starts /\ posted = list /\ shown = list
  /\ graph = [open |-> FALSE, stale |-> TRUE, nodes |-> {}]
  /\ form = BlankForm
  /\ torn = FALSE /\ ops = 0
  /\ op = NoOp

-----------------------------------------------------------------------------
\* The entry at i is replaced and keeps its id; when there is none the new one is added.
SavedAt(i, new) ==
  LET e == IF i = 0 THEN new ELSE [new EXCEPT !.id = list[i].id] IN
  /\ Becomes(IF i = 0 THEN Append(list, e) ELSE [list EXCEPT ![i] = e])
  /\ form' = [form EXCEPT !.id = e.id]

\* doSave, also by Ctrl+S over the graph.  It looks for the entry of the tab, then for
\* one with the same URL (and method) in the same folder.
DoSave(id) ==
  LET at == TrimEnd(form.at)
      mine == First({i \in DOMAIN list : form.id # NoId /\ list[i].id = form.id})
      same == First({i \in DOMAIN list : ~list[i].meta /\ list[i].at = at
                                           /\ list[i].is = form.url})
  IN /\ form.url # NoText
     /\ SavedAt(IF mine # 0 THEN mine ELSE same, Request(id, at, form.url))
     /\ DidNot
     /\ UNCHANGED torn

\* saveFolderMeta: the list is shown when the answer has come, and not if none comes.
SaveFolderMeta(p, kind) ==
  LET i == FirstMeta(list, p)
      l == IF i = 0 THEN Append(list, Meta(p, kind)) ELSE [list EXCEPT ![i].is = kind]
  IN /\ Sidebar /\ Len(l) <= MaxList
     /\ list' = l /\ posted' = l
     /\ RenderSaved(l) \/ UNCHANGED <<shown, graph>>
     /\ DidNot
     /\ UNCHANGED <<form, torn>>

\* newFolder makes a request in it, and a tab for that; newFolderRoot has p = <<>>.
NewFolder(p, n, id) ==
  LET r == Request(id, Append(p, n), NoText) IN
  /\ Sidebar /\ Len(r.at) <= MaxDepth
  /\ Becomes(Append(list, r))
  /\ form' = FormOf(r)
  /\ DidNot
  /\ UNCHANGED torn

\* The entries of l until the first with settings, which has no folder to look at.
BeforeMeta(l) == First({i \in DOMAIN l : l[i].meta} \cup {Len(l) + 1}) - 1

Renamed(l, p, n) ==
  [i \in DOMAIN l |->
     IF i <= BeforeMeta(l) /\ Under(l[i].at, p)
     THEN [l[i] EXCEPT !.at = n \o SubSeq(@, Len(p) + 1, Len(@))]
     ELSE l[i]]

\* renameFolder: an entry with settings makes it throw, with those before it renamed.
RenameFolder(p, n) ==
  LET l == Renamed(list, p, n) IN
  /\ Sidebar /\ n # p
  /\ \A i \in DOMAIN l : Len(l[i].at) <= MaxDepth
  /\ \/ ~HasMeta(list) /\ Becomes(l) /\ UNCHANGED torn
     \/ /\ HasMeta(list)
        /\ list' = l /\ torn' = (torn \/ l # list)
        /\ UNCHANGED <<posted, shown, graph>>
  /\ Did("rename", p, n)
  /\ UNCHANGED form

\* deleteFolder: an entry with settings makes it throw, with nothing done.
DeleteFolder(p) ==
  /\ Sidebar /\ ~HasMeta(list)
  /\ Becomes(Kept(list, {i \in DOMAIN list : ~Under(list[i].at, p)}))
  /\ Did("delete", p, <<>>)
  /\ UNCHANGED <<form, torn>>

\* mutant: the copy is an entry with the same id.
Copy_SameId(e, id) == e

\* dupReq gives the copy an id of its own.
Copy(e, id) == [e EXCEPT !.id = id]

DupReq(i, id) ==
  /\ Sidebar /\ ~list[i].meta
  /\ Becomes(Append(list, Copy(list[i], id)))
  /\ form' = FormOf(Copy(list[i], id))
  /\ DidNot
  /\ UNCHANGED torn

\* delReq closes the tab of the request, and a blank one takes its place.
DelReq(i) ==
  /\ Sidebar /\ ~list[i].meta
  /\ Becomes(Kept(list, {j \in DOMAIN list : list[j].id # list[i].id}))
  /\ form' = IF form.id = list[i].id THEN BlankForm ELSE form
  /\ DidNot
  /\ UNCHANGED torn

\* A request is dropped on the title of the folder p.  The drop is handled by the group
\* of p and then, as the event bubbles, by the groups around it: the last one is that
\* of the first name.  The form of the tab keeps the folder it had.
Drop(i, p) ==
  /\ Sidebar /\ ~list[i].meta
  /\ Becomes([list EXCEPT ![i].at = <<Head(p)>>])
  /\ DidNot
  /\ UNCHANGED <<form, torn>>

\* Beside the folders: only when it is in another one.
DropRoot(i) ==
  /\ Sidebar /\ ~list[i].meta /\ list[i].at # Home
  /\ Becomes([list EXCEPT ![i].at = Home])
  /\ DidNot
  /\ UNCHANGED <<form, torn>>

\* A click on a request opens it.
Open(i) ==
  /\ Sidebar /\ ~list[i].meta
  /\ form' = FormOf(list[i])
  /\ DidNot
  /\ UNCHANGED <<list, posted, shown, graph, torn>>

\* newReq: a tab for a new request in the folder.
NewReq(p) ==
  /\ Sidebar
  /\ form' = [BlankForm EXCEPT !.at = p]
  /\ DidNot
  /\ UNCHANGED <<list, posted, shown, graph, torn>>

TypeUrl(url) ==
  /\ Sidebar
  /\ form' = [form EXCEPT !.url = url]
  /\ DidNot
  /\ UNCHANGED <<list, posted, shown, graph, torn>>

-----------------------------------------------------------------------------
(* Import of a Postman collection: its items in the order of the walk, a   *)
(* folder before what is in it.  in is the path of a folder, the folder of *)
(* a request; auth is the type of an auth object, "absent" without one.    *)

\* pmAuth: what an auth object of a type is read as; other types are read as none at all.
PmAuth(type) ==
  IF type \in Own THEN type ELSE IF type = "noauth" THEN "none" ELSE "absent"

\* The collection's own folder, and its items.
Items(c) == <<[request |-> FALSE, in |-> <<>>, auth |-> c.auth, url |-> NoText]>> \o c.items

\* What parsePostman makes of an item: settings that send something become an entry.
Gives(it) == it.request \/ PmAuth(it.auth) \in Own
Item(c, it, id) ==
  IF it.request THEN Request(id, <<c.name>> \o it.in, it.url)
  ELSE Meta(<<c.name>> \o it.in, PmAuth(it.auth))

\* parsePostman, with the ids of its requests.
Parsed(c, id) ==
  Kept([i \in DOMAIN Items(c) |-> Item(c, Items(c)[i], id[i])],
       {i \in DOMAIN Items(c) : Gives(Items(c)[i])})

\* importAny: the list grows, and the first request is opened.  A collection with
\* nothing in it is refused.
Import(c) ==
  \E id \in [{i \in DOMAIN Items(c) : Items(c)[i].request} -> Fresh] :
    /\ IsInjective(id)
    /\ LET es == Parsed(c, id) IN
         /\ Sidebar /\ es # <<>>
         /\ Becomes(list \o es)
         /\ form' = IF Requests(es) = <<>> THEN form ELSE FormOf(Head(Requests(es)))
    /\ DidNot
    /\ UNCHANGED torn

\* The page is loaded again: loadSaved gets what was posted last.
Reload ==
  /\ list' = posted /\ shown' = posted
  /\ graph' = [open |-> FALSE, stale |-> TRUE, nodes |-> {}]
  /\ form' = BlankForm /\ torn' = FALSE
  /\ DidNot
  /\ UNCHANGED posted

-----------------------------------------------------------------------------
(* The graph.                                                              *)

OpenGraph ==
  /\ ~graph.open
  /\ graph' = [open |-> TRUE, stale |-> FALSE,
               nodes |-> IF graph.stale THEN Drawing(list) ELSE graph.nodes]
  /\ DidNot
  /\ UNCHANGED <<list, posted, shown, form, torn, ops>>

CloseGraph ==
  /\ graph.open
  /\ graph' = [graph EXCEPT !.open = FALSE]
  /\ DidNot
  /\ UNCHANGED <<list, posted, shown, form, torn, ops>>

\* A double click on a request opens it; one that is not in the list any more opens a
\* blank tab.
OpenNode(id) ==
  LET i == First({j \in DOMAIN list : list[j].id = id}) IN
  /\ graph.open
  /\ graph' = [graph EXCEPT !.open = FALSE]
  /\ form' = IF i = 0 THEN BlankForm ELSE FormOf(list[i])
  /\ DidNot
  /\ UNCHANGED <<list, posted, shown, torn, ops>>

\* A node is dragged: when it is let go the list is posted as it is.
DragNode ==
  /\ graph.open /\ graph.nodes # {}
  /\ posted' = list
  /\ DidNot
  /\ UNCHANGED <<list, shown, graph, form, torn, ops>>

Next ==
  \/ /\ Counts
     /\ \/ \E id \in Fresh :
             \/ DoSave(id)
             \/ \E p \in Nodes(shown) \cup {<<>>}, n \in Names : NewFolder(p, n, id)
             \/ \E i \in DOMAIN list : DupReq(i, id)
        \/ \E p \in Nodes(shown) :
             \/ \E k \in Kinds : SaveFolderMeta(p, k)
             \/ \E n \in Folder : RenameFolder(p, n)
             \/ DeleteFolder(p) \/ NewReq(p)
             \/ \E i \in DOMAIN list : Drop(i, p)
        \/ \E i \in DOMAIN list : DelReq(i) \/ DropRoot(i) \/ Open(i)
        \/ \E u \in Urls : TypeUrl(u)
        \/ \E c \in Imports : Import(c)
        \/ Reload
  \/ OpenGraph \/ CloseGraph \/ DragNode
  \/ \E n \in graph.nodes : n[1] = "request" /\ OpenNode(n[2])

Spec == Init /\ [][Next]_vars

-----------------------------------------------------------------------------
Tidy(l) == \A i \in DOMAIN l : Node(l[i].at) = l[i].at

\* No two requests have the same id, whatever is saved, copied, imported and opened: by
\* the id a tab finds its request, and dragging and deleting take the one they are meant
\* for.
IdsUnique == Distinct(list)

\* Unless a rename broke off: what was posted last is the list, the side bar shows its
\* requests, and so does the graph, or it will be drawn anew when it is opened.
ViewsAgree ==
  ~torn =>
    /\ posted = list
    /\ Requests(shown) = Requests(list)
    /\ graph.stale \/ graph.nodes = Drawing(list)

\* A request that inherits, in a folder of the side bar, is sent with the settings that the
\* gear of the nearest folder around it shows, of those that send something.
InheritsAsShown ==
  LET around == {p \in Nodes(list) : IsPrefix(p, form.at) /\ GearShows(p) \in Own} IN
  form.at \in Nodes(list) =>
    IF around = {} THEN Inherited = "none"
    ELSE \E p \in around : Inherited = GearShows(p) /\ \A q \in around : Len(q) <= Len(p)

\* A step that renames or deletes a folder of a list without blanks around its names.
FolderOp ==
  op'.kind \in {"rename", "delete"} /\ Tidy(list) =>
    /\ IdsOf(list') \subseteq IdsOf(list)
    /\ \A r \in Range(list) :
         IF ~IsPrefix(op'.from, Node(r.at)) THEN r \in Range(list')
         ELSE IF op'.kind = "delete" THEN r.id \notin IdsOf(list')
         ELSE \/ \E q \in Range(list') :
                   /\ q.id = r.id /\ q.is = r.is
                   /\ Node(q.at) = Node(op'.to) \o SubSeq(Node(r.at), Len(op'.from) + 1, Len(Node(r.at)))
              \/ HasMeta(list) /\ r \in Range(list')
    /\ HasMeta(list) => UNCHANGED <<posted, shown>>

\* While no name has blanks around it: deleting a folder of the side bar takes all requests
\* shown in and beneath it, renaming it shows them at the same places in and beneath the new
\* one, and no other request is touched.  A rename that breaks off at the settings of a folder
\* (app.js:652) leaves each request where it was or takes it where the whole rename would, so
\* that none is lost or goes astray, and posts and shows nothing.
FolderOpsExact == [][FolderOp]_vars
=============================================================================
