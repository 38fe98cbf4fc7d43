---------------------------- MODULE ConnService ----------------------------
(***************************************************************************)
(* What the connection pool of src/main.c promises its clients, with no    *)
(* lock, no ring and no condition variable: a connection that arrives is   *)
(* either admitted at the end of a FIFO line of at most Cap places, or     *)
(* refused because the line was full at that moment; an idle worker takes  *)
(* the head of the line, serves it and closes it, unless an upstream that  *)
(* it is forwarded to keeps silent for ever.                               *)
(***************************************************************************)
EXTENDS Naturals, Sequences

CONSTANTS Workers, Fds, NoFd, Cap

VARIABLES
  line,       \* connections admitted and not yet taken, oldest first
  arriving,   \* the connection the acceptor holds, or NoFd
  refused,    \* the acceptor found the line full for `arriving`
  serving,    \* serving[w]: the connection worker w serves, or NoFd
  away,       \* the workers whose connection waits for an upstream
  up          \* the process accepts connections

vars == <<line, arriving, refused, serving, away, up>>

Busy == {fd \in Fds : \/ fd = arriving
                      \/ \E w \in Workers : serving[w] = fd
                      \/ \E k \in DOMAIN line : line[k] = fd}

Init ==
  /\ line = <<>>
  /\ arriving = NoFd
  /\ refused = FALSE
  /\ serving = [w \in Workers |-> NoFd]
  /\ away = {}
  /\ up = TRUE

Arrive(fd) ==
  /\ up
  /\ arriving = NoFd
  /\ fd \notin Busy
  /\ arriving' = fd
  /\ UNCHANGED <<line, refused, serving, away, up>>

Admit ==
  /\ arriving # NoFd
  /\ ~refused
  /\ Len(line) < Cap
  /\ line' = Append(line, arriving)
  /\ arriving' = NoFd
  /\ UNCHANGED <<refused, serving, away, up>>

Refuse ==
  /\ arriving # NoFd
  /\ ~refused
  /\ Len(line) = Cap
  /\ refused' = TRUE
  /\ UNCHANGED <<line, arriving, serving, away, up>>

Turn ==
  /\ refused
  /\ arriving' = NoFd
  /\ refused' = FALSE
  /\ UNCHANGED <<line, serving, away, up>>

Begin(w) ==
  /\ serving[w] = NoFd
  /\ line # <<>>
  /\ serving' = [serving EXCEPT ![w] = Head(line)]
  /\ line' = Tail(line)
  /\ UNCHANGED <<arriving, refused, away, up>>

\* The client asked for something an upstream must answer.
Forward(w) ==
  /\ serving[w] # NoFd
  /\ w \notin away
  /\ away' = away \cup {w}
  /\ UNCHANGED <<line, arriving, refused, serving, up>>

Finish(w) ==
  /\ serving[w] # NoFd
  /\ serving' = [serving EXCEPT ![w] = NoFd]
  /\ away' = away \ {w}
  /\ UNCHANGED <<line, arriving, refused, up>>

Close ==
  /\ up
  /\ arriving = NoFd
  /\ up' = FALSE
  /\ UNCHANGED <<line, arriving, refused, serving, away>>

Next ==
  \/ \E fd \in Fds : Arrive(fd)
  \/ Admit
  \/ Refuse
  \/ Turn
  \/ \E w \in Workers : Begin(w) \/ Forward(w) \/ Finish(w)
  \/ Close

Spec == Init /\ [][Next]_vars

(***************************************************************************)
(* While the pool accepts connections, the line moves whenever a worker is *)
(* free, a served connection is closed or forwarded, and an arrival is     *)
(* decided.  Whether an upstream answers is not the pool's to promise: a   *)
(* connection that is away need never be finished.                         *)
(***************************************************************************)
FairSpec ==
  /\ Spec
  /\ WF_vars(up /\ \E w \in Workers : Begin(w))
  /\ \A w \in Workers : WF_vars(up /\ w \notin away /\ Finish(w))
  /\ WF_vars(Admit \/ Refuse)
  /\ WF_vars(Turn)
=============================================================================
