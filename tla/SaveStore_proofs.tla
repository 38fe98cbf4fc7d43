-------------------------- MODULE SaveStore_proofs --------------------------
(***************************************************************************)
(* Proofs about the saved list, for any workers, lists and inodes: a get   *)
(* is answered with one save, and saves and gets are an atomic register.   *)
(***************************************************************************)
EXTENDS SaveStore, SequenceTheorems, TLAPS

USE NoneAssumption, BlocksAssumption DEF NoneAssumption, BlocksAssumption

Locked == {"fopen", "write", "rename", "discard", "unlock"}

\* Who is between pthread_mutex_lock and unlock of handle_save_route has the lock.
Mutex == \A w \in Workers : pc[w] \in Locked => lock = w

\* What is served is a list from one save, and nobody writes to it.
Whole == final # None => final # tmp /\ data[final] \in Contents

\* s begins with p.
Begins(s, p) == Len(p) <= Len(s) /\ \A j \in 1..Len(p) : p[j] = s[j]

\* A worker that saves: the temporary file holds what it wrote of its body.
Writer(w) ==
  /\ pc[w] \in {"lock", "fopen", "write", "rename"} => body[w] \in Contents
  /\ pc[w] = "write" =>
       /\ fd[w] = tmp /\ tmp # None
       /\ pos[w] = Len(data[tmp]) /\ Begins(body[w], data[tmp])
  /\ pc[w] = "rename" => tmp # None /\ data[tmp] = body[w]

\* A worker that serves: its file is a list from one save, nobody writes to it, and
\* what it sent is the beginning of it.
Reader(w) ==
  /\ pc[w] \in {"stat", "read"} =>
       fd[w] # None /\ fd[w] # tmp /\ data[fd[w]] \in Contents
  /\ pc[w] \in {"idle", "access", "open", "stat"} => out[w] = <<>>
  /\ pc[w] = "read" => size[w] = Len(data[fd[w]]) /\ Begins(data[fd[w]], out[w])

\* A worker that answers knows what.
Answers(w) ==
  /\ pc[w] \notin {"unlock", "answer"} => status[w] = "none"
  /\ pc[w] = "unlock" => status[w] \in {"refused", "saved"}
  /\ pc[w] = "answer" => status[w] # "none"
  /\ status[w] = "list" => Len(out[w]) = size[w] /\ out[w] \in Contents

Calls == \A w \in Workers : Writer(w) /\ Reader(w) /\ Answers(w)

IInv == TypeOK /\ Mutex /\ Whole /\ Calls

\* The contents of a file that one save wrote.
LEMMA ContentsAreLists ==
  ASSUME NEW c \in Contents
  PROVE  c \in Seq(Bodies) /\ c # <<>> /\ Len(c) \in 1..Blocks
<1>1. PICK k \in 1..Blocks, b \in Bodies : c = [j \in 1..k |-> b]
  BY DEF Contents
<1> QED BY <1>1

LEMMA InitIInv == Init => IInv
<1> SUFFICES ASSUME Init PROVE IInv
  OBVIOUS
<1> USE DEF Init
<1>1. TypeOK
  BY DEF TypeOK
<1>2. Mutex /\ Whole
  BY DEF Mutex, Locked, Whole
<1>3. Calls
  BY DEF Calls, Writer, Reader, Answers
<1> QED BY <1>1, <1>2, <1>3 DEF IInv

\* Steps that leave the files and what is known of them alone.
LEMMA QuietIInv ==
  ASSUME IInv, NEW w \in Workers,
         \/ Lock(w) \/ FopenFails(w) \/ RenameFails(w) \/ Unlock(w) \/ ReceiveGet(w)
         \/ Access(w) \/ OpenFails(w) \/ ServeFails(w) \/ Answer(w)
  PROVE  IInv'
<1> USE DEF IInv, Lock, FopenFails, RenameFails, Unlock, ReceiveGet, Access, OpenFails,
            ServeFails, Answer, Step, Ends, Goto, Status, names, request
<1>1. TypeOK'
  <2>1. CASE Answer(w)
    BY <2>1 DEF TypeOK
  <2>2. CASE ServeFails(w)
    BY <2>2 DEF TypeOK
  <2>3. CASE ~Answer(w) /\ ~ServeFails(w)
    BY <2>3 DEF TypeOK
  <2> QED BY <2>1, <2>2, <2>3
<1>2. Mutex' /\ Whole'
  BY DEF TypeOK, Mutex, Locked, Whole
<1>3. ASSUME NEW v \in Workers PROVE Writer(v)'
  BY <1>3 DEF TypeOK, Calls, Writer
<1>4. ASSUME NEW v \in Workers PROVE Reader(v)'
  BY <1>4 DEF TypeOK, Calls, Reader
<1>5. ASSUME NEW v \in Workers PROVE Answers(v)'
  BY <1>5 DEF TypeOK, Calls, Answers
<1> QED BY <1>1, <1>2, <1>3, <1>4, <1>5 DEF Calls

\* Somebody sends a list, or the part of it that arrives.
LEMMA ReceiveSaveIInv ==
  ASSUME IInv, NEW w \in Workers, ReceiveSave(w)
  PROVE  IInv'
<1> USE DEF IInv, ReceiveSave, Ends, Goto, Status, names
<1>1. PICK l : /\ body' = [body EXCEPT ![w] = l]
               /\ \/ l \in Contents /\ pc' = [pc EXCEPT ![w] = "lock"] /\ UNCHANGED status
                  \/ /\ l = <<>> /\ pc' = [pc EXCEPT ![w] = "answer"]
                     /\ status' = [status EXCEPT ![w] = "refused"]
  <2>1. PICK b \in Bodies, k \in 0..Blocks :
          /\ body' = [body EXCEPT ![w] = [j \in 1..k |-> b]]
          /\ IF k = 0 THEN Ends(w, "answer", "refused")
                      ELSE Goto(w, "lock") /\ UNCHANGED status
    OBVIOUS
  <2>2. CASE k = 0
    <3>1. [j \in 1..k |-> b] = <<>>
      BY <2>2
    <3> QED BY <2>1, <2>2, <3>1
  <2>3. CASE k # 0
    <3>1. [j \in 1..k |-> b] \in Contents
      BY <2>3 DEF Contents
    <3> QED BY <2>1, <2>3, <3>1
  <2> QED BY <2>2, <2>3
<1> HIDE DEF ReceiveSave
<1>2. UNCHANGED <<tmp, final, data, lock, fd, pos, size, out>> /\ pc[w] = "idle"
  BY DEF ReceiveSave
<1>3. TypeOK'
  BY <1>1, <1>2 DEF TypeOK
<1>4. Mutex' /\ Whole'
  BY <1>1, <1>2 DEF TypeOK, Mutex, Locked, Whole
<1>5. ASSUME NEW v \in Workers PROVE Writer(v)'
  BY <1>1, <1>2, <1>5 DEF TypeOK, Calls, Writer
<1>6. ASSUME NEW v \in Workers PROVE Reader(v)'
  BY <1>1, <1>2, <1>6 DEF TypeOK, Calls, Reader
<1>7. ASSUME NEW v \in Workers PROVE Answers(v)'
  BY <1>1, <1>2, <1>7 DEF TypeOK, Calls, Answers
<1> QED BY <1>3, <1>4, <1>5, <1>6, <1>7 DEF Calls

\* fopen makes an empty file that nobody has open and that is not the one served.
LEMMA FopenIInv ==
  ASSUME IInv, NEW w \in Workers, Fopen(w)
  PROVE  IInv'
<1> USE DEF IInv
<1>1. PICK i \in Inodes : /\ tmp = None => i \in Free
                          /\ tmp # None => i = tmp
                          /\ tmp' = i /\ data' = [data EXCEPT ![i] = <<>>]
                          /\ fd' = [fd EXCEPT ![w] = i] /\ pos' = [pos EXCEPT ![w] = 0]
  BY DEF Fopen, Truncates, Free, TypeOK
<1>2. /\ pc[w] = "fopen" /\ pc' = [pc EXCEPT ![w] = "write"]
      /\ UNCHANGED <<final, lock, body, size, out, status>>
  BY DEF Fopen, Truncates, Step, Goto
<1>3. i # None /\ i # final
  BY <1>1 DEF TypeOK, Free, Whole
<1>4. TypeOK'
  BY <1>1, <1>2 DEF TypeOK
<1>5. Mutex'
  BY <1>2 DEF TypeOK, Mutex, Locked
<1>6. Whole'
  BY <1>1, <1>2, <1>3 DEF TypeOK, Whole
<1>7. ASSUME NEW v \in Workers PROVE Writer(v)'
  <2>1. CASE v = w
    <3>1. data'[tmp'] = <<>> /\ fd'[w] = tmp' /\ pos'[w] = 0 /\ pc'[w] = "write"
      BY <1>1, <1>2 DEF TypeOK
    <3>2. body'[w] \in Contents
      BY <1>2 DEF Calls, Writer
    <3>3. Begins(body'[w], data'[tmp'])
      BY <3>1, <3>2, ContentsAreLists DEF Begins
    <3> QED BY <1>1, <1>3, <2>1, <3>1, <3>2, <3>3 DEF Writer
  <2>2. CASE v # w
    <3>1. pc'[v] \notin Locked /\ pc'[v] = pc[v]
      BY <1>2, <2>2, <1>5 DEF TypeOK, Mutex, Locked
    <3> QED BY <1>2, <3>1 DEF Calls, Writer, Locked
  <2> QED BY <2>1, <2>2
<1>8. ASSUME NEW v \in Workers PROVE Reader(v)'
  <2>1. pc[v] \in {"stat", "read"} => v # w /\ fd[v] # i /\ fd[v] \in Inodes
    BY <1>1, <1>2 DEF TypeOK, Calls, Reader, Free, Opened
  <2> QED BY <1>1, <1>2, <2>1 DEF TypeOK, Calls, Reader
<1>9. ASSUME NEW v \in Workers PROVE Answers(v)'
  BY <1>2 DEF TypeOK, Calls, Answers
<1> QED BY <1>4, <1>5, <1>6, <1>7, <1>8, <1>9 DEF Calls

\* One more block: nobody but the writer looks at the temporary file.
LEMMA WriteIInv ==
  ASSUME IInv, NEW w \in Workers, Write(w)
  PROVE  IInv'
<1> USE DEF IInv
<1> DEFINE b == body[w][pos[w] + 1]
           d == Append(data[tmp], b)
<1>1. /\ pc[w] = "write" /\ pos[w] < Len(body[w])
      /\ data' = [data EXCEPT ![fd[w]] = Append(@, b)]
      /\ pos' = [pos EXCEPT ![w] = @ + 1]
      /\ UNCHANGED <<tmp, final, lock, pc, body, fd, size, out, status>>
  BY DEF Write, names
<1>2. /\ body[w] \in Contents /\ fd[w] = tmp /\ tmp \in Inodes /\ tmp # None
      /\ pos[w] = Len(data[tmp]) /\ Begins(body[w], data[tmp])
  BY <1>1 DEF TypeOK, Calls, Writer
<1>3. body[w] \in Seq(Bodies) /\ Len(body[w]) \in 1..Blocks /\ data[tmp] \in Seq(Bodies)
  BY <1>2, ContentsAreLists DEF TypeOK
<1>4. pos[w] \in 0..Blocks /\ b \in Bodies
  <2>1. pos[w] + 1 \in 1..Len(body[w])
    BY <1>1, <1>2, <1>3 DEF TypeOK
  <2> QED BY <1>3, <2>1, ElementOfSeq DEF TypeOK
<1>5. /\ d \in Seq(Bodies) /\ Len(d) = pos[w] + 1
      /\ \A j \in 1..Len(d) : d[j] = body[w][j]
  <2> HIDE DEF b
  <2>1. /\ d \in Seq(Bodies) /\ Len(d) = pos[w] + 1 /\ d[pos[w] + 1] = b
        /\ \A j \in 1..pos[w] : d[j] = data[tmp][j]
    BY <1>2, <1>3, <1>4, AppendProperties
  <2>2. \A j \in 1..pos[w] : d[j] = body[w][j]
    BY <1>2, <2>1 DEF Begins
  <2>3. d[pos[w] + 1] = body[w][pos[w] + 1]
    BY <2>1 DEF b
  <2> HIDE DEF d
  <2> QED BY <1>4, <2>1, <2>2, <2>3
<1>6. Begins(body[w], d)
  BY <1>1, <1>3, <1>4, <1>5 DEF Begins
<1>7. data' = [data EXCEPT ![tmp] = d]
  BY <1>1, <1>2 DEF TypeOK
<1> HIDE DEF b, d
<1>8. TypeOK'
  <2>1. data' \in [Inodes -> Seq(Bodies)]
    BY <1>5, <1>7 DEF TypeOK
  <2>2. pos' \in [Workers -> 0..Blocks]
    BY <1>1, <1>3, <1>4 DEF TypeOK
  <2> QED BY <1>1, <2>1, <2>2 DEF TypeOK
<1>9. Mutex' /\ Whole'
  BY <1>1, <1>7 DEF TypeOK, Mutex, Locked, Whole
<1>10. ASSUME NEW v \in Workers PROVE Writer(v)'
  <2>1. CASE v = w
    BY <1>1, <1>2, <1>4, <1>5, <1>6, <1>7, <2>1 DEF TypeOK, Writer
  <2>2. CASE v # w
    <3>1. pc'[v] \notin Locked
      BY <1>1, <2>2 DEF Mutex, Locked
    <3> QED BY <1>1, <3>1 DEF Calls, Writer, Locked
  <2> QED BY <2>1, <2>2
<1>11. ASSUME NEW v \in Workers PROVE Reader(v)'
  <2>1. pc[v] \in {"stat", "read"} => data'[fd[v]] = data[fd[v]]
    BY <1>7 DEF TypeOK, Calls, Reader
  <2> QED BY <1>1, <2>1 DEF Calls, Reader
<1>12. ASSUME NEW v \in Workers PROVE Answers(v)'
  BY <1>1 DEF Calls, Answers
<1> QED BY <1>8, <1>9, <1>10, <1>11, <1>12 DEF Calls

LEMMA WriteEndsIInv ==
  ASSUME IInv, NEW w \in Workers, WriteEnds(w)
  PROVE  IInv'
<1> USE DEF IInv
<1>1. /\ pc[w] = "write" /\ fd' = [fd EXCEPT ![w] = None]
      /\ \/ pos[w] = Len(body[w]) /\ pc' = [pc EXCEPT ![w] = "rename"]
         \/ pc' = [pc EXCEPT ![w] = "discard"]
      /\ UNCHANGED <<tmp, final, data, lock, body, pos, size, out, status>>
  BY DEF WriteEnds, Goto, names
<1>2. TypeOK' /\ Mutex' /\ Whole'
  BY <1>1 DEF TypeOK, Mutex, Locked, Whole
<1>3. pos[w] = Len(body[w]) => data[tmp] = body[w]
  <2>1. /\ body[w] \in Contents /\ pos[w] = Len(data[tmp]) /\ Begins(body[w], data[tmp])
        /\ data[tmp] \in Seq(Bodies)
    BY <1>1 DEF TypeOK, Calls, Writer
  <2>2. body[w] \in Seq(Bodies)
    BY <2>1, ContentsAreLists
  <2>3. ASSUME pos[w] = Len(body[w]) PROVE data[tmp] = body[w]
    <3>1. Len(data[tmp]) = Len(body[w]) /\ \A j \in 1..Len(data[tmp]) : data[tmp][j] = body[w][j]
      BY <2>1, <2>3 DEF Begins
    <3> QED BY <2>1, <2>2, <3>1, SeqEqual
  <2> QED BY <2>3
<1>4. ASSUME NEW v \in Workers PROVE Writer(v)'
  BY <1>1, <1>3 DEF TypeOK, Calls, Writer
<1>5. ASSUME NEW v \in Workers PROVE Reader(v)' /\ Answers(v)'
  BY <1>1 DEF TypeOK, Calls, Reader, Answers
<1> QED BY <1>2, <1>4, <1>5 DEF Calls

LEMMA RenameIInv ==
  ASSUME IInv, NEW w \in Workers, Rename(w)
  PROVE  IInv'
<1> USE DEF IInv
<1>1. /\ pc[w] = "rename" /\ tmp # None /\ final' = tmp /\ tmp' = None
      /\ pc' = [pc EXCEPT ![w] = "unlock"] /\ status' = [status EXCEPT ![w] = "saved"]
      /\ UNCHANGED <<data, lock, body, fd, pos, size, out>>
  BY DEF Rename, Ends, Goto, Status, request
<1>2. TypeOK' /\ Mutex'
  BY <1>1 DEF TypeOK, Mutex, Locked
<1>3. Whole'
  BY <1>1 DEF Calls, Writer, Whole
<1>4. ASSUME NEW v \in Workers PROVE Writer(v)'
  <2>1. v = w \/ pc[v] \notin Locked
    BY <1>1 DEF Mutex, Locked
  <2> QED BY <1>1, <2>1 DEF TypeOK, Calls, Writer, Locked
<1>5. ASSUME NEW v \in Workers PROVE Reader(v)' /\ Answers(v)'
  BY <1>1 DEF TypeOK, Calls, Reader, Answers
<1> QED BY <1>2, <1>3, <1>4, <1>5 DEF Calls

LEMMA DiscardIInv ==
  ASSUME IInv, NEW w \in Workers, Discard(w)
  PROVE  IInv'
<1> USE DEF IInv
<1>1. /\ pc[w] = "discard" /\ tmp' \in {None, tmp}
      /\ pc' = [pc EXCEPT ![w] = "unlock"] /\ status' = [status EXCEPT ![w] = "refused"]
      /\ UNCHANGED <<final, data, lock, body, fd, pos, size, out>>
  BY DEF Discard, Ends, Goto, Status, request
<1>2. TypeOK' /\ Mutex' /\ Whole'
  BY <1>1 DEF TypeOK, Mutex, Locked, Whole
<1>3. ASSUME NEW v \in Workers PROVE Writer(v)'
  <2>1. v = w \/ pc[v] \notin Locked
    BY <1>1 DEF Mutex, Locked
  <2> QED BY <1>1, <2>1 DEF TypeOK, Calls, Writer, Locked
<1>4. ASSUME NEW v \in Workers PROVE Reader(v)' /\ Answers(v)'
  BY <1>1 DEF TypeOK, Calls, Reader, Answers
<1> QED BY <1>2, <1>3, <1>4 DEF Calls

-----------------------------------------------------------------------------
LEMMA OpenIInv ==
  ASSUME IInv, NEW w \in Workers, Open(w)
  PROVE  IInv'
<1> USE DEF IInv
<1>1. /\ pc[w] = "open" /\ final # None /\ fd' = [fd EXCEPT ![w] = final]
      /\ pc' = [pc EXCEPT ![w] = "stat"]
      /\ UNCHANGED <<tmp, final, data, lock, body, pos, size, out, status>>
  BY DEF Open, Step, Goto, names
<1>2. TypeOK' /\ Mutex' /\ Whole'
  BY <1>1 DEF TypeOK, Mutex, Locked, Whole
<1>3. ASSUME NEW v \in Workers PROVE Reader(v)'
  BY <1>1 DEF TypeOK, Calls, Reader, Whole
<1>4. ASSUME NEW v \in Workers PROVE Writer(v)' /\ Answers(v)'
  BY <1>1 DEF TypeOK, Calls, Writer, Answers
<1> QED BY <1>2, <1>3, <1>4 DEF Calls

LEMMA StatIInv ==
  ASSUME IInv, NEW w \in Workers, Stat(w)
  PROVE  IInv'
<1> USE DEF IInv
<1>1. /\ pc[w] = "stat" /\ size' = [size EXCEPT ![w] = Len(data[fd[w]])]
      /\ pc' = [pc EXCEPT ![w] = "read"]
      /\ UNCHANGED <<tmp, final, data, lock, body, fd, pos, out, status>>
  BY DEF Stat, Step, Goto, names
<1>2. data[fd[w]] \in Contents /\ out[w] = <<>>
  BY <1>1 DEF Calls, Reader
<1>3. Len(data[fd[w]]) \in 1..Blocks
  BY <1>2, ContentsAreLists
<1>4. TypeOK' /\ Mutex' /\ Whole'
  BY <1>1, <1>3 DEF TypeOK, Mutex, Locked, Whole
<1>5. Begins(data[fd[w]], out[w])
  BY <1>2, <1>3 DEF Begins
<1>6. ASSUME NEW v \in Workers PROVE Reader(v)'
  BY <1>1, <1>5 DEF TypeOK, Calls, Reader
<1>7. ASSUME NEW v \in Workers PROVE Writer(v)' /\ Answers(v)'
  BY <1>1 DEF TypeOK, Calls, Writer, Answers
<1> QED BY <1>4, <1>6, <1>7 DEF Calls

LEMMA ReadIInv ==
  ASSUME IInv, NEW w \in Workers, Read(w)
  PROVE  IInv'
<1> USE DEF IInv
<1> DEFINE d == data[fd[w]]
           o == Append(out[w], d[Len(out[w]) + 1])
<1>1. /\ pc[w] = "read" /\ Len(out[w]) < Len(d) /\ out' = [out EXCEPT ![w] = o]
      /\ UNCHANGED <<tmp, final, data, lock, pc, body, fd, pos, size, status>>
  <2>1. out' = [out EXCEPT ![w] = o]
    BY DEF Read, TypeOK
  <2> QED BY <2>1 DEF Read, names
<1>2. d \in Contents /\ size[w] = Len(d) /\ Begins(d, out[w])
  BY <1>1 DEF Calls, Reader
<1>3. d \in Seq(Bodies) /\ out[w] \in Seq(Bodies)
  BY <1>2, ContentsAreLists DEF TypeOK
<1> HIDE DEF d
<1>4. /\ o \in Seq(Bodies) /\ Begins(d, o)
  <2>1. Len(out[w]) \in Nat /\ Len(out[w]) + 1 \in 1..Len(d)
    BY <1>1, <1>3, LenProperties
  <2>2. d[Len(out[w]) + 1] \in Bodies
    BY <1>3, <2>1, ElementOfSeq
  <2>3. /\ o \in Seq(Bodies) /\ Len(o) = Len(out[w]) + 1
        /\ o[Len(out[w]) + 1] = d[Len(out[w]) + 1]
        /\ \A j \in 1..Len(out[w]) : o[j] = out[w][j]
    BY <1>3, <2>2, AppendProperties
  <2> HIDE DEF o
  <2>4. \A j \in 1..Len(out[w]) : o[j] = d[j]
    BY <1>2, <2>3 DEF Begins
  <2> QED BY <2>1, <2>3, <2>4 DEF Begins
<1> HIDE DEF o
<1>5. TypeOK' /\ Mutex' /\ Whole'
  BY <1>1, <1>4 DEF TypeOK, Mutex, Locked, Whole
<1>6. ASSUME NEW v \in Workers PROVE Reader(v)'
  BY <1>1, <1>4 DEF TypeOK, Calls, Reader, d
<1>7. ASSUME NEW v \in Workers PROVE Writer(v)' /\ Answers(v)'
  BY <1>1 DEF TypeOK, Calls, Writer, Answers
<1> QED BY <1>5, <1>6, <1>7 DEF Calls

\* A file that was served to its end.
LEMMA ServedToEnd ==
  ASSUME IInv, NEW w \in Workers, ReadEnds(w)
  PROVE  out[w] = data[fd[w]] /\ data[fd[w]] \in Contents /\ size[w] = Len(data[fd[w]])
<1> USE DEF IInv
<1> DEFINE d == data[fd[w]]
<1>1. d \in Contents /\ size[w] = Len(d) /\ Begins(d, out[w]) /\ Len(out[w]) >= Len(d)
  BY DEF ReadEnds, Calls, Reader
<1>2. d \in Seq(Bodies) /\ out[w] \in Seq(Bodies)
  BY <1>1, ContentsAreLists DEF TypeOK
<1> HIDE DEF d
<1>3. Len(out[w]) = Len(d) /\ \A j \in 1..Len(out[w]) : out[w][j] = d[j]
  BY <1>1, <1>2, LenProperties DEF Begins
<1>4. out[w] = d
  BY <1>2, <1>3, SeqEqual
<1> QED BY <1>1, <1>4 DEF d

LEMMA ReadEndsIInv ==
  ASSUME IInv, NEW w \in Workers, ReadEnds(w)
  PROVE  IInv'
<1> USE DEF IInv
<1>1. /\ pc[w] = "read" /\ fd' = [fd EXCEPT ![w] = None]
      /\ pc' = [pc EXCEPT ![w] = "answer"] /\ status' = [status EXCEPT ![w] = "list"]
      /\ UNCHANGED <<tmp, final, data, lock, body, pos, size, out>>
  BY DEF ReadEnds, Ends, Goto, Status, names
<1>2. TypeOK' /\ Mutex' /\ Whole'
  BY <1>1 DEF TypeOK, Mutex, Locked, Whole
<1>3. ASSUME NEW v \in Workers PROVE Writer(v)' /\ Reader(v)'
  BY <1>1 DEF TypeOK, Calls, Writer, Reader
<1>4. ASSUME NEW v \in Workers PROVE Answers(v)'
  <2>1. Len(out[w]) = size[w] /\ out[w] \in Contents
    BY ServedToEnd
  <2> QED BY <1>1, <2>1 DEF TypeOK, Calls, Answers
<1> QED BY <1>2, <1>3, <1>4 DEF Calls

LEMMA RestartIInv ==
  ASSUME IInv, Restart
  PROVE  IInv'
<1> USE DEF IInv, Restart, names
<1>1. TypeOK'
  BY DEF TypeOK
<1>2. Mutex' /\ Whole'
  BY DEF Mutex, Locked, Whole
<1>3. Calls'
  BY DEF Calls, Writer, Reader, Answers
<1> QED BY <1>1, <1>2, <1>3

LEMMA NextIInv ==
  ASSUME IInv, [Next]_vars
  PROVE  IInv'
<1>1. CASE Next
  <2>1. ASSUME NEW w \in Workers, ReceiveSave(w) \/ ReceiveGet(w) \/ Serve(w) PROVE IInv'
    BY <2>1, QuietIInv, ReceiveSaveIInv, FopenIInv, WriteIInv, WriteEndsIInv, RenameIInv,
       DiscardIInv, OpenIInv, StatIInv, ReadIInv, ReadEndsIInv
       DEF Serve
  <2> QED BY <1>1, <2>1, RestartIInv DEF Next
<1>2. CASE UNCHANGED vars
  BY <1>2 DEF vars, names, request, IInv, TypeOK, Mutex, Whole, Calls, Writer, Reader, Answers
<1> QED BY <1>1, <1>2

\* The temporary file, the served one and every worker are as IInv says, always.
THEOREM Invariance == Spec => []IInv
<1>1. Init => IInv
  BY InitIInv
<1>2. IInv /\ [Next]_vars => IInv'
  BY NextIInv
<1> QED BY <1>1, <1>2, PTL DEF Spec

\* Every variable has its type: handle_save_route writes, and serve_file announces, no
\* more than a list.
THEOREM TypeCorrect == Spec => []TypeOK
<1>1. IInv => TypeOK
  BY DEF IInv
<1> QED BY <1>1, Invariance, PTL

\* A get that is answered to its end has sent as much as serve_file announced, and all
\* of it from one save.
THEOREM WholeAnswers == Spec => []ServedWhole
<1>1. IInv => ServedWhole
  BY DEF IInv, Calls, Answers, ServedWhole
<1> QED BY <1>1, Invariance, PTL

-----------------------------------------------------------------------------
(* SaveStore implements SavedList.                                         *)

\* The call of a worker by the place where it is.
LEMMA CallValues ==
  IInv => \A w \in Workers :
    /\ pc[w] = "idle" => CallOf(w) = <<"idle">>
    /\ pc[w] \in {"lock", "fopen", "write", "rename", "discard"} => CallOf(w) = <<"saving", body[w]>>
    /\ pc[w] \in {"access", "open"} => CallOf(w) = <<"getting">>
    /\ pc[w] \in {"stat", "read"} => CallOf(w) = <<"got", data[fd[w]]>>
    /\ pc[w] \in {"unlock", "answer"} =>
         /\ status[w] = "refused" => CallOf(w) = <<"refused">>
         /\ status[w] = "saved" => CallOf(w) = <<"saved">>
         /\ status[w] = "[]" => CallOf(w) = <<"got", None>>
         /\ status[w] = "list" => CallOf(w) = <<"got", out[w]>>
<1> SUFFICES ASSUME IInv, NEW w \in Workers
    PROVE  /\ pc[w] = "idle" => CallOf(w) = <<"idle">>
           /\ pc[w] \in {"lock", "fopen", "write", "rename", "discard"} => CallOf(w) = <<"saving", body[w]>>
           /\ pc[w] \in {"access", "open"} => CallOf(w) = <<"getting">>
           /\ pc[w] \in {"stat", "read"} => CallOf(w) = <<"got", data[fd[w]]>>
           /\ pc[w] \in {"unlock", "answer"} =>
                /\ status[w] = "refused" => CallOf(w) = <<"refused">>
                /\ status[w] = "saved" => CallOf(w) = <<"saved">>
                /\ status[w] = "[]" => CallOf(w) = <<"got", None>>
                /\ status[w] = "list" => CallOf(w) = <<"got", out[w]>>
  OBVIOUS
<1>1. pc[w] \notin {"unlock", "answer"} => status[w] = "none"
  BY DEF IInv, Calls, Answers
<1> QED BY <1>1 DEF CallOf

\* The call of a worker that does nothing stays as it is: a file it serves is not
\* written to.
LEMMA OthersStay ==
  ASSUME IInv, NEW v \in Workers,
         pc'[v] = pc[v], status'[v] = status[v], body'[v] = body[v], fd'[v] = fd[v],
         out'[v] = out[v],
         \A i \in Inodes : i # tmp /\ i \notin Free => data'[i] = data[i]
  PROVE  CallOf(v)' = CallOf(v)
<1>1. pc[v] \in {"stat", "read"} => data'[fd[v]] = data[fd[v]]
  BY DEF IInv, TypeOK, Calls, Reader, Free, Opened
<1>2. CASE pc[v] \in {"stat", "read"}
  BY <1>1, <1>2 DEF CallOf
<1>3. CASE pc[v] \notin {"stat", "read"}
  BY <1>3 DEF CallOf
<1> QED BY <1>2, <1>3

\* All workers but w do nothing, and no file that is open or has a name changes but
\* the temporary one.
OthersIdle(w) ==
  /\ \A v \in Workers \ {w} :
       /\ pc'[v] = pc[v] /\ status'[v] = status[v] /\ body'[v] = body[v]
       /\ fd'[v] = fd[v] /\ out'[v] = out[v]
  /\ \A i \in Inodes : i # tmp /\ i \notin Free => data'[i] = data[i]

LEMMA StepGoes ==
  ASSUME IInv, NEW w \in Workers, OthersIdle(w), NEW c, CallOf(w)' = c
  PROVE  Register!Goes(w, c)
<1>1. \A v \in Workers \ {w} : CallOf(v)' = CallOf(v)
  BY OthersStay DEF OthersIdle
<1> QED BY <1>1 DEF Register!Goes

LEMMA StepStays ==
  ASSUME IInv, NEW w \in Workers, OthersIdle(w), CallOf(w)' = CallOf(w), Held' = Held
  PROVE  UNCHANGED Register!vars
<1>1. \A v \in Workers : CallOf(v)' = CallOf(v)
  BY OthersStay DEF OthersIdle
<1> QED BY <1>1 DEF Register!vars

\* Each step of a worker leaves the others alone.
LEMMA StepsAreApart ==
  ASSUME IInv, NEW w \in Workers, ReceiveSave(w) \/ ReceiveGet(w) \/ Serve(w)
  PROVE  OthersIdle(w)
<1> USE DEF IInv, OthersIdle, Step, Ends, Goto, Status, names, request
<1>1. CASE Fopen(w)
  <2>1. PICK i \in IF tmp = None THEN Free ELSE {tmp} : Truncates(w, i)
    BY <1>1 DEF Fopen
  <2> QED BY <1>1, <2>1 DEF Fopen, Truncates, TypeOK
<1>2. CASE Write(w)
  <2>1. fd[w] = tmp
    BY <1>2 DEF Write, Calls, Writer
  <2> QED BY <1>2, <2>1 DEF Write, TypeOK
<1>3. CASE ReceiveSave(w) \/ ReceiveGet(w) \/ Answer(w)
  BY <1>3 DEF ReceiveSave, ReceiveGet, Answer, TypeOK
<1>4. CASE \/ Lock(w) \/ FopenFails(w) \/ WriteEnds(w) \/ Rename(w) \/ RenameFails(w)
           \/ Discard(w) \/ Unlock(w)
  BY <1>4 DEF Lock, FopenFails, WriteEnds, Rename, RenameFails, Discard, Unlock, TypeOK
<1>5. CASE \/ Access(w) \/ Open(w) \/ OpenFails(w) \/ Stat(w) \/ Read(w) \/ ReadEnds(w)
           \/ ServeFails(w)
  BY <1>5 DEF Access, Open, OpenFails, Stat, Read, ReadEnds, ServeFails, TypeOK
<1> QED BY <1>1, <1>2, <1>3, <1>4, <1>5 DEF Serve

\* Steps that the register does not see.
LEMMA StutterSteps ==
  ASSUME IInv, NEW w \in Workers,
         \/ Lock(w) \/ Fopen(w) \/ Write(w) \/ WriteEnds(w) \/ RenameFails(w) \/ Unlock(w)
         \/ Stat(w) \/ Read(w) \/ ReadEnds(w) \/ (Access(w) /\ final # None)
  PROVE  UNCHANGED Register!vars
<1> USE DEF IInv, Step, Ends, Goto, Status, names, request
<1>1. OthersIdle(w)
  BY StepsAreApart DEF Serve
<1>2. pc[w] \notin {"unlock", "answer"} => status[w] = "none"
  BY DEF Calls, Answers
<1>3. Held' = Held
  <2>1. final' = final
    BY DEF Lock, Fopen, Truncates, Write, WriteEnds, RenameFails, Unlock, Stat, Read, ReadEnds, Access
  <2>2. final # None => final \in Inodes /\ final # tmp /\ final \notin Free
    BY DEF TypeOK, Whole, Free
  <2> QED BY <1>1, <2>1, <2>2 DEF Held, OthersIdle
<1>4. CallOf(w)' = CallOf(w)
  <2>1. CASE Lock(w)
    BY <1>2, <2>1 DEF Lock, TypeOK, CallOf
  <2>2. CASE Fopen(w)
    BY <1>2, <2>2 DEF Fopen, TypeOK, CallOf
  <2>3. CASE Write(w)
    BY <1>2, <2>3 DEF Write, TypeOK, CallOf
  <2>4. CASE WriteEnds(w)
    BY <1>2, <2>4 DEF WriteEnds, TypeOK, CallOf
  <2>5. CASE RenameFails(w)
    BY <1>2, <2>5 DEF RenameFails, TypeOK, CallOf
  <2>6. CASE Unlock(w)
    <3>1. status[w] \in {"refused", "saved"}
      BY <2>6 DEF Unlock, Calls, Answers
    <3> QED BY <2>6, <3>1 DEF Unlock, TypeOK, CallOf
  <2>7. CASE Stat(w)
    BY <1>2, <2>7 DEF Stat, TypeOK, CallOf
  <2>8. CASE Read(w)
    BY <1>2, <2>8 DEF Read, TypeOK, CallOf
  <2>9. CASE ReadEnds(w)
    BY <1>2, <2>9, ServedToEnd DEF ReadEnds, TypeOK, CallOf
  <2>10. CASE Access(w) /\ final # None
    BY <1>2, <2>10 DEF Access, TypeOK, CallOf
  <2> QED BY <2>1, <2>2, <2>3, <2>4, <2>5, <2>6, <2>7, <2>8, <2>9, <2>10
<1> QED BY <1>1, <1>3, <1>4, StepStays

\* Steps that begin and end a call.
LEMMA RequestSteps ==
  ASSUME IInv, NEW w \in Workers, ReceiveSave(w) \/ ReceiveGet(w) \/ Answer(w)
  PROVE  Register!Next
<1> USE DEF IInv, Step, Ends, Goto, Status, names, request
<1>1. OthersIdle(w)
  BY StepsAreApart DEF Serve
<1>2. Held' = Held
  BY DEF ReceiveSave, ReceiveGet, Answer, Held
<1>3. pc[w] \notin {"unlock", "answer"} => status[w] = "none"
  BY DEF Calls, Answers
<1>4. pc[w] = "idle" => CallOf(w) = <<"idle">>
  BY CallValues
<1>5. CASE ReceiveSave(w)
  <2>1. PICK b \in Bodies, k \in 0..Blocks :
          /\ body' = [body EXCEPT ![w] = [j \in 1..k |-> b]]
          /\ IF k = 0 THEN Ends(w, "answer", "refused")
                      ELSE Goto(w, "lock") /\ UNCHANGED status
    BY <1>5 DEF ReceiveSave
  <2>2. pc[w] = "idle"
    BY <1>5 DEF ReceiveSave
  <2>3. CASE k = 0
    <3>1. CallOf(w)' = <<"refused">>
      BY <2>1, <2>3 DEF TypeOK, CallOf
    <3>2. Register!Goes(w, <<"refused">>)
      BY <1>1, <3>1, StepGoes
    <3>3. Register!Refuse(w)
      BY <1>2, <1>4, <2>2, <3>2 DEF Register!Refuse
    <3> QED BY <3>3 DEF Register!Next
  <2>4. CASE k # 0
    <3> DEFINE l == [j \in 1..k |-> b]
    <3>1. l \in Contents /\ body'[w] = l
      <4>1. l \in Contents
        BY <2>4 DEF Contents
      <4> HIDE DEF l
      <4>2. body' = [body EXCEPT ![w] = l]
        BY <2>1 DEF l
      <4> QED BY <4>1, <4>2 DEF TypeOK
    <3> HIDE DEF l
    <3>2. CallOf(w)' = <<"saving", l>>
      BY <1>3, <2>1, <2>2, <2>4, <3>1 DEF TypeOK, CallOf
    <3>3. Register!Goes(w, <<"saving", l>>)
      BY <1>1, <3>2, StepGoes
    <3>4. Register!Save(w, l)
      BY <1>2, <1>4, <2>2, <3>3 DEF Register!Save, Register!Idle
    <3> QED BY <3>1, <3>4 DEF Register!Next
  <2> QED BY <2>3, <2>4
<1>6. CASE ReceiveGet(w)
  <2>1. CallOf(w)' = <<"getting">> /\ pc[w] = "idle"
    BY <1>3, <1>6 DEF ReceiveGet, TypeOK, CallOf
  <2>2. Register!Goes(w, <<"getting">>)
    BY <1>1, <2>1, StepGoes
  <2>3. Register!Get(w)
    BY <1>2, <1>4, <2>1, <2>2 DEF Register!Get, Register!Idle
  <2> QED BY <2>3 DEF Register!Next
<1>7. CASE Answer(w)
  <2>1. CallOf(w)' = <<"idle">> /\ pc[w] = "answer"
    BY <1>7 DEF Answer, TypeOK, CallOf
  <2>2. Register!Goes(w, <<"idle">>)
    BY <1>1, <2>1, StepGoes
  <2>3. status[w] \in {"refused", "saved", "[]", "list"}
    BY <2>1 DEF Calls, Answers, TypeOK
  <2>4. CallOf(w)[1] \in {"saved", "refused", "got"}
    BY <2>1, <2>3, CallValues
  <2>5. Register!Answer(w)
    BY <1>2, <2>2, <2>4 DEF Register!Answer, Register!Idle
  <2> QED BY <2>5 DEF Register!Next
<1> QED BY <1>5, <1>6, <1>7

\* Every failure is an answer that refuses.
LEMMA FailureSteps ==
  ASSUME IInv, NEW w \in Workers,
         FopenFails(w) \/ Discard(w) \/ OpenFails(w) \/ ServeFails(w)
  PROVE  Register!Next
<1> USE DEF IInv, Step, Ends, Goto, Status, names, request
<1>1. OthersIdle(w)
  BY StepsAreApart DEF Serve
<1>2. Held' = Held
  BY DEF FopenFails, Discard, OpenFails, ServeFails, Held
<1>3. CallOf(w)' = <<"refused">>
  <2>1. status'[w] = "refused" /\ pc'[w] \in {"unlock", "answer"}
    BY DEF FopenFails, Discard, OpenFails, ServeFails, TypeOK
  <2> QED BY <2>1 DEF CallOf
<1>4. CallOf(w)[1] \in {"saving", "getting", "got"}
  <2>1. pc[w] \in {"fopen", "discard", "open", "stat", "read"}
    BY DEF FopenFails, Discard, OpenFails, ServeFails
  <2> QED BY <2>1, CallValues
<1>5. Register!Goes(w, <<"refused">>)
  BY <1>1, <1>3, StepGoes
<1>6. Register!Refuse(w)
  BY <1>2, <1>4, <1>5 DEF Register!Refuse
<1> QED BY <1>6 DEF Register!Next

\* The instant of a save is rename, the instant of a get is open, or access when
\* there is no file.
LEMMA InstantSteps ==
  ASSUME IInv, NEW w \in Workers, Rename(w) \/ Open(w) \/ (Access(w) /\ final = None)
  PROVE  Register!Next
<1> USE DEF IInv, Step, Ends, Goto, Status, names, request
<1>1. OthersIdle(w)
  BY StepsAreApart DEF Serve
<1>2. pc[w] \notin {"unlock", "answer"} => status[w] = "none"
  BY DEF Calls, Answers
<1>3. CASE Rename(w)
  <2>1. pc[w] = "rename" /\ Held' = body[w]
    BY <1>3 DEF Rename, Held, Calls, Writer
  <2>2. CallOf(w)' = <<"saved">>
    BY <1>3 DEF Rename, TypeOK, CallOf
  <2>3. Register!Goes(w, <<"saved">>)
    BY <1>1, <2>2, StepGoes
  <2>4. CallOf(w) = <<"saving", body[w]>>
    BY <2>1, CallValues
  <2>5. Register!Apply(w)
    BY <2>1, <2>3, <2>4 DEF Register!Apply
  <2> QED BY <2>5 DEF Register!Next
<1>4. CASE Open(w) \/ (Access(w) /\ final = None)
  <2>1. pc[w] \in {"open", "access"} /\ Held' = Held
    BY <1>4 DEF Open, Access, Held
  <2>2. CallOf(w)' = <<"got", Held>>
    BY <1>2, <1>4 DEF Open, Access, Held, TypeOK, CallOf
  <2>3. Register!Goes(w, <<"got", Held>>)
    BY <1>1, <2>2, StepGoes
  <2>4. CallOf(w) = <<"getting">>
    BY <2>1, CallValues
  <2>5. Register!Read(w)
    BY <2>1, <2>3, <2>4 DEF Register!Read
  <2> QED BY <2>5 DEF Register!Next
<1> QED BY <1>3, <1>4

\* Each step of handle_save_route and serve_file is a step of the register or none.
LEMMA StepMaps ==
  ASSUME IInv, [Next]_vars
  PROVE  [Register!Next]_(Register!vars)
<1>1. ASSUME NEW w \in Workers, ReceiveSave(w) \/ ReceiveGet(w) \/ Serve(w)
      PROVE  [Register!Next]_(Register!vars)
  BY <1>1, StutterSteps, RequestSteps, FailureSteps, InstantSteps DEF Serve
<1>2. CASE Restart
  <2>1. Held' = Held
    BY <1>2 DEF Restart, names, Held
  <2>2. \A v \in Workers : CallOf(v)' = <<"idle">>
    BY <1>2 DEF Restart, CallOf
  <2>3. Register!Restart
    BY <2>1, <2>2 DEF Register!Restart, Register!Idle
  <2> QED BY <2>3 DEF Register!Next
<1>3. CASE UNCHANGED vars
  BY <1>3 DEF vars, names, request, Held, CallOf, Register!vars
<1> QED BY <1>1, <1>2, <1>3 DEF Next

\* Saves and gets are an atomic register that survives restarts, whatever fails on the
\* way of handle_save_route and serve_file, for any number of workers and lists.
THEOREM AtomicRegister == Spec => ImplementsRegister
<1>1. Init => Register!Init
  BY DEF Init, Register!Init, Register!Idle, Held, CallOf
<1>2. IInv /\ [Next]_vars => [Register!Next]_(Register!vars)
  BY StepMaps
<1> QED BY <1>1, <1>2, Invariance, PTL DEF Spec, ImplementsRegister, Register!Spec
=============================================================================
