----------------------------- MODULE SaveStore -----------------------------
(***************************************************************************)
(* POST /save and GET /requests.json: handle_save_route and the route of   *)
(* data/requests.json in src/router.c, and serve_file in                   *)
(* src/http_response.c, run by several workers over one file system.  A    *)
(* file is an inode, so that a worker that serves the old file goes on     *)
(* serving it when another renames a new one over it.  A body is a list of *)
(* the browser cut into blocks; file contents are sequences of blocks, a   *)
(* block being known by the list it is from.                               *)
(***************************************************************************)
EXTENDS Naturals, Sequences

CONSTANTS
  Workers, Inodes, None,
  Bodies,      \* the lists browsers save
  Blocks,      \* length of a list, in blocks
  CutUploads   \* whether a connection may break in the middle of an upload

ASSUME NoneAssumption == None \notin Workers \cup Inodes \cup Bodies
ASSUME BlocksAssumption == Blocks \in Nat \ {0} /\ CutUploads \in BOOLEAN

VARIABLES
  tmp, final,  \* the inodes named data/.requests.json.tmp and requests.json
  data,        \* contents of the inodes
  lock,        \* holder of g_save_lock
  pc,          \* where a worker is
  body,        \* the body read_full_request left it
  fd,          \* the inode it has open
  pos,         \* blocks of the body it wrote
  size,        \* st.st_size, announced as Content-Length
  out,         \* blocks of the file it sent
  status       \* what it answers

names == <<tmp, final>>
request == <<body, fd, pos, size, out>>
vars == <<names, data, lock, pc, request, status>>

\* What can be in a file that is written by one save.
Contents == {[j \in 1..k |-> b] : k \in 1..Blocks, b \in Bodies}

Init ==
  /\ tmp = None /\ final = None /\ lock = None
  /\ data = [i \in Inodes |-> <<>>]
  /\ pc = [w \in Workers |-> "idle"]
  /\ body = [w \in Workers |-> <<>>]
  /\ fd = [w \in Workers |-> None]
  /\ pos = [w \in Workers |-> 0]
  /\ size = [w \in Workers |-> 0]
  /\ out = [w \in Workers |-> <<>>]
  /\ status = [w \in Workers |-> "none"]

Goto(w, l) == pc' = [pc EXCEPT ![w] = l]
Step(w, from, to) == pc[w] = from /\ Goto(w, to)
Status(w, s) == status' = [status EXCEPT ![w] = s]

\* The worker leaves for l with the answer s.
Ends(w, l, s) == Goto(w, l) /\ Status(w, s)

-----------------------------------------------------------------------------
(* handle_save_route.                                                      *)

\* read_full_request hands over what arrived, which is not always what
\* Content-Length announced; an empty body is answered with 400.
ReceiveSave(w) ==
  /\ pc[w] = "idle"
  /\ \E b \in Bodies, k \in 0..Blocks :
       /\ k = Blocks \/ CutUploads
       /\ body' = [body EXCEPT ![w] = [j \in 1..k |-> b]]
       /\ IF k = 0 THEN Ends(w, "answer", "refused")
                   ELSE Goto(w, "lock") /\ UNCHANGED status
  /\ UNCHANGED <<names, data, lock, fd, pos, size, out>>

\* mutant: saves are not serialised.
Lock_Open(w) ==
  /\ Step(w, "lock", "fopen")
  /\ UNCHANGED <<names, data, lock, request, status>>

Lock(w) ==
  /\ Step(w, "lock", "fopen")
  /\ lock = None /\ lock' = w
  /\ UNCHANGED <<names, data, request, status>>

Opened == {fd[w] : w \in Workers}
Free == Inodes \ (Opened \cup {tmp, final})

\* fopen(tmp_path, "w") truncates the file or creates one.
Truncates(w, i) ==
  /\ tmp' = i
  /\ data' = [data EXCEPT ![i] = <<>>]
  /\ fd' = [fd EXCEPT ![w] = i]
  /\ pos' = [pos EXCEPT ![w] = 0]
  /\ UNCHANGED final

\* mutant: the list is written in place.
Fopen_InPlace(w) ==
  /\ Step(w, "fopen", "write")
  /\ \E i \in IF final = None THEN Free ELSE {final} : Truncates(w, i)
  /\ UNCHANGED <<lock, body, size, out, status>>

Fopen(w) ==
  /\ Step(w, "fopen", "write")
  /\ \E i \in IF tmp = None THEN Free ELSE {tmp} : Truncates(w, i)
  /\ UNCHANGED <<lock, body, size, out, status>>

FopenFails(w) ==
  /\ pc[w] = "fopen"
  /\ Ends(w, "unlock", "refused")
  /\ UNCHANGED <<names, data, lock, request>>

\* fwrite and fflush bring a block into the file.
Write(w) ==
  /\ pc[w] = "write" /\ pos[w] < Len(body[w])
  /\ data' = [data EXCEPT ![fd[w]] = Append(@, body[w][pos[w] + 1])]
  /\ pos' = [pos EXCEPT ![w] = @ + 1]
  /\ UNCHANGED <<names, lock, pc, body, fd, size, out, status>>

\* fclose; a short write, or a flush or close that fails, gives the file up.
WriteEnds(w) ==
  /\ pc[w] = "write"
  /\ \/ pos[w] = Len(body[w]) /\ Goto(w, "rename")
     \/ Goto(w, "discard")
  /\ fd' = [fd EXCEPT ![w] = None]
  /\ UNCHANGED <<names, data, lock, body, pos, size, out, status>>

Rename(w) ==
  /\ pc[w] = "rename" /\ tmp # None
  /\ final' = tmp /\ tmp' = None
  /\ Ends(w, "unlock", "saved")
  /\ UNCHANGED <<data, lock, request>>

\* mutant: no unlock when rename fails.
RenameFails_KeepsLock(w) ==
  /\ pc[w] = "rename"
  /\ tmp' = None
  /\ Ends(w, "answer", "refused")
  /\ UNCHANGED <<final, data, lock, request>>

RenameFails(w) ==
  /\ Step(w, "rename", "discard")
  /\ UNCHANGED <<names, data, lock, request, status>>

\* remove(tmp_path), which may fail and leave the file.
Discard(w) ==
  /\ pc[w] = "discard"
  /\ tmp' \in {None, tmp}
  /\ Ends(w, "unlock", "refused")
  /\ UNCHANGED <<final, data, lock, request>>

Unlock(w) ==
  /\ Step(w, "unlock", "answer")
  /\ lock' = None
  /\ UNCHANGED <<names, data, request, status>>

-----------------------------------------------------------------------------
(* GET /requests.json.                                                     *)

ReceiveGet(w) ==
  /\ Step(w, "idle", "access")
  /\ UNCHANGED <<names, data, lock, request, status>>

\* access(): "[]" until there is a file.
Access(w) ==
  /\ pc[w] = "access"
  /\ IF final = None THEN Ends(w, "answer", "[]")
                     ELSE Goto(w, "open") /\ UNCHANGED status
  /\ UNCHANGED <<names, data, lock, request>>

Open(w) ==
  /\ Step(w, "open", "stat") /\ final # None
  /\ fd' = [fd EXCEPT ![w] = final]
  /\ UNCHANGED <<names, data, lock, body, pos, size, out, status>>

\* open fails and the answer is 404.
OpenFails(w) ==
  /\ pc[w] = "open"
  /\ Ends(w, "answer", "refused")
  /\ UNCHANGED <<names, data, lock, request>>

Stat(w) ==
  /\ Step(w, "stat", "read")
  /\ size' = [size EXCEPT ![w] = Len(data[fd[w]])]
  /\ UNCHANGED <<names, data, lock, body, fd, pos, out, status>>

\* read and send a block.
Read(w) ==
  /\ pc[w] = "read" /\ Len(out[w]) < Len(data[fd[w]])
  /\ out' = [out EXCEPT ![w] = Append(@, data[fd[w]][Len(@) + 1])]
  /\ UNCHANGED <<names, data, lock, pc, body, fd, pos, size, status>>

ReadEnds(w) ==
  /\ pc[w] = "read" /\ Len(out[w]) >= Len(data[fd[w]])
  /\ Ends(w, "answer", "list")
  /\ fd' = [fd EXCEPT ![w] = None]
  /\ UNCHANGED <<names, data, lock, body, pos, size, out>>

\* fstat, read or the client's socket fails.
ServeFails(w) ==
  /\ pc[w] \in {"stat", "read"}
  /\ Ends(w, "answer", "refused")
  /\ fd' = [fd EXCEPT ![w] = None]
  /\ UNCHANGED <<names, data, lock, body, pos, size, out>>

-----------------------------------------------------------------------------
\* The end of handle_client.
Answer(w) ==
  /\ Step(w, "answer", "idle")
  /\ status' = [status EXCEPT ![w] = "none"]
  /\ body' = [body EXCEPT ![w] = <<>>]
  /\ pos' = [pos EXCEPT ![w] = 0]
  /\ size' = [size EXCEPT ![w] = 0]
  /\ out' = [out EXCEPT ![w] = <<>>]
  /\ UNCHANGED <<names, data, lock, fd>>

\* The container stops at any point; the volume keeps ./data.
Restart ==
  /\ lock' = None
  /\ pc' = [w \in Workers |-> "idle"]
  /\ body' = [w \in Workers |-> <<>>]
  /\ fd' = [w \in Workers |-> None]
  /\ pos' = [w \in Workers |-> 0]
  /\ size' = [w \in Workers |-> 0]
  /\ out' = [w \in Workers |-> <<>>]
  /\ status' = [w \in Workers |-> "none"]
  /\ UNCHANGED <<names, data>>

\* What a worker does with a request once it has it.
Serve(w) ==
  \/ Lock(w) \/ Fopen(w) \/ FopenFails(w) \/ Write(w) \/ WriteEnds(w)
  \/ Rename(w) \/ RenameFails(w) \/ Discard(w) \/ Unlock(w)
  \/ Access(w) \/ Open(w) \/ OpenFails(w) \/ Stat(w) \/ Read(w)
  \/ ReadEnds(w) \/ ServeFails(w) \/ Answer(w)

Next ==
  \/ \E w \in Workers : ReceiveSave(w) \/ ReceiveGet(w) \/ Serve(w)
  \/ Restart

Spec == Init /\ [][Next]_vars

\* Every worker is a thread the scheduler does not starve, and a mutex that is
\* freed again and again is had in the end.
FairSpec == Spec /\ \A w \in Workers : WF_vars(Serve(w)) /\ SF_vars(Lock(w))

-----------------------------------------------------------------------------
\* Every variable has its type.
TypeOK ==
  /\ tmp \in Inodes \cup {None} /\ final \in Inodes \cup {None}
  /\ lock \in Workers \cup {None}
  /\ data \in [Inodes -> Seq(Bodies)]
  /\ pc \in [Workers -> {"idle", "lock", "fopen", "write", "rename", "discard",
                         "unlock", "access", "open", "stat", "read", "answer"}]
  /\ body \in [Workers -> Contents \cup {<<>>}]
  /\ fd \in [Workers -> Inodes \cup {None}]
  /\ pos \in [Workers -> 0..Blocks] /\ size \in [Workers -> 0..Blocks]
  /\ out \in [Workers -> Seq(Bodies)]
  /\ status \in [Workers -> {"none", "refused", "saved", "[]", "list"}]

\* A get that is answered to its end has sent as much as it announced, and all of
\* it from one save: other saves and failures between open and the last read
\* neither mix into the answer nor change its length.
ServedWhole ==
  \A w \in Workers : status[w] = "list" =>
    /\ Len(out[w]) = size[w]
    /\ out[w] \in Contents

\* Every request a worker takes is answered, whatever fails: no error path keeps
\* g_save_lock.
CallsEnd == \A w \in Workers : pc[w] # "idle" ~> pc[w] = "idle"

\* README.md:19: saved requests are stored in data/requests.json and survive
\* restarts.  So the file that is served holds a list to its end.
ListsKept == final # None => Len(data[final]) = Blocks

-----------------------------------------------------------------------------
\* The list of the register, and the call of a worker as the register sees it: a
\* save is done at rename, a get at open (or at access, when there is no file).
Held == IF final = None THEN None ELSE data[final]

CallOf(w) ==
  CASE pc[w] = "idle" -> <<"idle">>
    [] status[w] = "saved" -> <<"saved">>
    [] status[w] = "refused" -> <<"refused">>
    [] status[w] = "[]" -> <<"got", None>>
    [] status[w] = "list" -> <<"got", out[w]>>
    [] pc[w] \in {"access", "open"} -> <<"getting">>
    [] pc[w] \in {"stat", "read"} -> <<"got", data[fd[w]]>>
    [] OTHER -> <<"saving", body[w]>>

Register == INSTANCE SavedList
  WITH Lists <- Contents, NoList <- None,
       value <- Held, call <- [w \in Workers |-> CallOf(w)]

\* Saves and gets together are an atomic register that survives restarts.
ImplementsRegister == Register!Spec
=============================================================================
