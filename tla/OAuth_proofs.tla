---------------------------- MODULE OAuth_proofs ----------------------------
(***************************************************************************)
(* Proofs about OAuth, for any number of sends and sign-ins, any grants    *)
(* and tokens, however long it runs.                                       *)
(***************************************************************************)
EXTENDS OAuth, TLAPS

AllGrants == Grants \cup {Code}

Settings ==
  [grant : AllGrants,
   token : {None, Typed} \cup [grant : AllGrants, serial : Serials],
   refresh : {None} \cup AllGrants,
   expires : {None} \cup Nat]

Call ==
  [pc : {"idle", "asking", "opening", "waiting", "closing", "done"},
   force : BOOLEAN, o : Settings,
   with : {"nothing", "grant", "refresh", "code"},
   code : {None} \cup Calls,
   end : {"none", "token", "failed", "cancelled"}, posted : BOOLEAN]

Message == [state : Calls, error : BOOLEAN, to : SUBSET Calls]

TypeOK ==
  /\ form \in Settings
  /\ call \in [Calls -> Call]
  /\ window \in [on : SUBSET Calls, shows : {None} \cup Calls]
  /\ mail \in Seq(Message)
  /\ time \in Nat

\* The tokens of settings were given out under their grant.
Matched(o) ==
  /\ o.token \in {None, Typed} \/ o.token.grant = o.grant
  /\ o.refresh \in {None, o.grant}

\* Sign-ins the popup was opened for wait, or went on: it is closed when one gives up.
WindowOwned ==
  /\ window.shows = None \/ window.shows \in window.on
  /\ \A c \in window.on :
       call[c].pc \notin {"idle", "opening", "closing"} /\ call[c].end # "cancelled"

\* The answer of a sign-in is on its way as long as that listens.
AnswerComes ==
  \A c \in Calls : call[c].posted =>
    /\ call[c].pc \notin {"idle", "opening"} /\ call[c].end # "cancelled"
    /\ Listening(c) => \E i \in DOMAIN mail : c \in mail[i].to

\* Get Token never sends the refresh token.
NoForcedRefresh == \A c \in Calls : call[c].with = "refresh" => ~call[c].force

\* A call that has not ended yet has no end.
EndsOnce == \A c \in Calls : call[c].end # "none" => call[c].pc = "done"

IInv ==
  /\ TypeOK
  /\ Matched(form) /\ \A c \in Calls : Matched(call[c].o)
  /\ OwnCodeOnly
  /\ WindowOwned
  /\ AnswerComes
  /\ NoForcedRefresh
  /\ EndsOnce

-----------------------------------------------------------------------------
\* What a call asks for next without a usable token.
LEMMA AnewStep ==
  ASSUME NEW k \in Call, k.end = "none"
  PROVE  /\ Anew(k) \in Call /\ Anew(k).o = k.o /\ Anew(k).force = k.force
         /\ Anew(k).with \in {"grant", k.with} /\ Anew(k).code = k.code
         /\ Anew(k).posted = k.posted /\ Anew(k).end \in {"none", "failed"}
         /\ Anew(k).end # "none" => Anew(k).pc = "done"
         /\ Anew(k).pc \in {"asking", "opening", "done"}
         /\ Anew(k).pc = "opening" => k.force
  BY DEF Anew, Asks, Ends, Call

\* What a call does when it has read the form.
LEMMA EnsuredStep ==
  ASSUME NEW k \in Call, k.end = "none", ~k.posted, k.with = "nothing"
  PROVE  /\ Ensured(k) \in Call /\ Ensured(k).o = k.o /\ Ensured(k).force = k.force
         /\ Ensured(k).with \in {"nothing", "grant", "refresh"}
         /\ Ensured(k).with = "refresh" => ~k.force
         /\ ~Ensured(k).posted
         /\ Ensured(k).end # "none" => Ensured(k).pc = "done"
         /\ Ensured(k).pc \in {"asking", "opening", "done"}
<1>1. /\ Anew(k) \in Call /\ Anew(k).o = k.o /\ Anew(k).force = k.force
      /\ Anew(k).with \in {"grant", "nothing"} /\ ~Anew(k).posted
      /\ Anew(k).end # "none" => Anew(k).pc = "done"
      /\ Anew(k).pc \in {"asking", "opening", "done"}
  BY AnewStep
<1>2. \/ Ensured(k) = Anew(k)
      \/ Ensured(k) = [k EXCEPT !.pc = "done", !.end = "token"]
      \/ ~k.force /\ Ensured(k) = [k EXCEPT !.pc = "asking", !.with = "refresh"]
  BY DEF Ensured, Asks, Ends
<1>3. CASE Ensured(k) = Anew(k)
  BY <1>1, <1>3
<1>4. CASE Ensured(k) = [k EXCEPT !.pc = "done", !.end = "token"]
  BY <1>4 DEF Call
<1>5. CASE ~k.force /\ Ensured(k) = [k EXCEPT !.pc = "asking", !.with = "refresh"]
  BY <1>5 DEF Call
<1>. QED
  BY <1>2, <1>3, <1>4, <1>5

LEMMA InitOK == Init => IInv
<1>. SUFFICES ASSUME Init PROVE IInv
  OBVIOUS
<1>1. \A g \in AllGrants : Empty(g) \in Settings /\ Matched(Empty(g))
  BY DEF Empty, Settings, Matched, AllGrants
<1>2. NoCall \in Call
  BY <1>1 DEF NoCall, Call, AllGrants
<1>3. TypeOK
  BY <1>1, <1>2 DEF Init, TypeOK, AllGrants, Closed
<1>4. Matched(form) /\ \A c \in Calls : Matched(call[c].o)
  BY <1>1 DEF Init, NoCall, AllGrants
<1>. QED
  BY <1>3, <1>4 DEF Init, IInv, OwnCodeOnly, WindowOwned, AnswerComes, NoForcedRefresh, EndsOnce, NoCall, Closed

\* The step of one call that leaves the window and the messages alone.
LEMMA OneCallMoves ==
  ASSUME IInv, NEW c \in Calls, NEW k \in Call,
         call' = [call EXCEPT ![c] = k], UNCHANGED <<window, mail>>, time' \in Nat,
         form' \in Settings, Matched(form'), Matched(k.o),
         k.with = "code" => k.code = c,
         k.with = "refresh" => ~k.force,
         k.end # "none" => k.pc = "done",
         c \in window.on => k.pc \notin {"idle", "opening", "closing"} /\ k.end # "cancelled",
         k.posted => /\ k.pc \notin {"idle", "opening"} /\ k.end # "cancelled"
                     /\ k.pc \in {"waiting", "closing"} => \E i \in DOMAIN mail : c \in mail[i].to
  PROVE  IInv'
<1>1. TypeOK'
  BY DEF IInv, TypeOK
<1>2. call'[c] = k /\ \A d \in Calls : d # c => call'[d] = call[d]
  BY DEF IInv, TypeOK
<1>3. OwnCodeOnly' /\ NoForcedRefresh' /\ EndsOnce' /\ \A d \in Calls : Matched(call'[d].o)
  BY <1>2 DEF IInv, OwnCodeOnly, NoForcedRefresh, EndsOnce
<1>4. WindowOwned'
  <2>1. \A d \in window.on : call'[d].pc \notin {"idle", "opening", "closing"} /\ call'[d].end # "cancelled"
    BY <1>2 DEF IInv, TypeOK, WindowOwned
  <2>. QED
    BY <2>1 DEF IInv, WindowOwned
<1>5. AnswerComes'
  BY <1>2 DEF IInv, AnswerComes, Listening
<1>6. Matched(form)' /\ (\A d \in Calls : Matched(call[d].o))'
  BY <1>3 DEF Matched
<1>. QED
  BY <1>1, <1>3, <1>4, <1>5, <1>6 DEF IInv
LEMMA StepKeeps == IInv /\ [Next]_vars => IInv'
<1>. SUFFICES ASSUME IInv, [Next]_vars PROVE IInv'
  OBVIOUS
<1>. USE DEF IInv
<1>1. CASE \E c \in Calls, force \in BOOLEAN : Start(c, force)
  <2>1. PICK c \in Calls, force \in BOOLEAN : Start(c, force)
    BY <1>1
  <2>. DEFINE k0 == [NoCall EXCEPT !.force = force, !.o = form]
  <2>2. /\ k0 \in Call /\ k0.o = form /\ k0.with = "nothing" /\ k0.pc = "idle"
        /\ k0.end = "none" /\ ~k0.posted
    BY DEF TypeOK, NoCall, Call
  <2>3. /\ Ensured(k0) \in Call /\ Ensured(k0).o = form
        /\ Ensured(k0).with \in {"nothing", "grant", "refresh"}
        /\ Ensured(k0).with = "refresh" => ~Ensured(k0).force
        /\ ~Ensured(k0).posted
        /\ Ensured(k0).end # "none" => Ensured(k0).pc = "done"
    BY <2>2, EnsuredStep
  <2>4. c \notin window.on
    BY <2>1 DEF Start, WindowOwned
  <2>5. call' = [call EXCEPT ![c] = Ensured(k0)] /\ UNCHANGED <<form, window, mail, time>>
    BY <2>1 DEF Start
  <2>. HIDE DEF k0
  <2>. QED
    BY <2>3, <2>4, <2>5, OneCallMoves DEF TypeOK
<1>2. CASE \E c \in Calls : TokenAnswer(c)
  <2>1. PICK c \in Calls : TokenAnswer(c)
    BY <1>2
  <2>2. PICK n \in Serials, refresh, expires \in BOOLEAN :
          LET o == WithToken(call[c].o, n, refresh, expires) IN
          /\ form' = IF call[c].force \/ o.token # call[c].o.token THEN Written(o) ELSE form
          /\ call' = [call EXCEPT ![c] = [Ends(@, "token") EXCEPT !.o = o]]
    BY <2>1 DEF TokenAnswer
  <2>. DEFINE o == WithToken(call[c].o, n, refresh, expires)
              k == [Ends(call[c], "token") EXCEPT !.o = o]
  <2>3. o \in Settings /\ Matched(o)
    <3>1. call[c].o \in Settings /\ Matched(call[c].o)
      BY DEF TypeOK, Call
    <3>2. [grant |-> call[c].o.grant, serial |-> n] \in [grant : AllGrants, serial : Serials]
      BY <3>1 DEF Settings
    <3>3. (IF expires THEN time + 1 ELSE None) \in {None} \cup Nat
      BY DEF TypeOK
    <3>. QED
      BY <3>1, <3>2, <3>3 DEF Settings, WithToken, Matched
  <2>4. /\ k \in Call /\ k.o = o /\ k.pc = "done" /\ k.end = "token" /\ k.with = call[c].with
        /\ k.code = call[c].code /\ k.force = call[c].force
    <3>1. call[c] \in Call
      BY DEF TypeOK
    <3>. HIDE DEF o
    <3>. QED
      BY <2>3, <3>1 DEF Call, Ends
  <2>5. form' \in Settings /\ Matched(form')
    BY <2>2, <2>3 DEF Written, TypeOK
  <2>6. call' = [call EXCEPT ![c] = k] /\ UNCHANGED <<window, mail, time>>
    BY <2>1, <2>2 DEF TokenAnswer
  <2>. HIDE DEF o, k
  <2>. QED
    BY <2>3, <2>4, <2>5, <2>6, OneCallMoves DEF TypeOK, OwnCodeOnly, NoForcedRefresh
<1>3. CASE \E c \in Calls : TokenFails(c)
  <2>1. PICK c \in Calls : TokenFails(c)
    BY <1>3
  <2>. DEFINE k == IF call[c].with = "refresh" THEN Anew(call[c]) ELSE Ends(call[c], "failed")
  <2>2. call[c] \in Call /\ call[c].pc = "asking"
    BY <2>1 DEF TokenFails, TypeOK
  <2>3. CASE call[c].with = "refresh"
    <3>1. ~call[c].force /\ call[c].end = "none"
      BY <2>2, <2>3 DEF NoForcedRefresh, EndsOnce
    <3>2. /\ k \in Call /\ k.o = call[c].o /\ ~k.force /\ k.with \in {"grant", "refresh"}
          /\ k.end \in {"none", "failed"} /\ k.pc \in {"asking", "done"}
          /\ k.end # "none" => k.pc = "done"
      BY <2>2, <2>3, <3>1, AnewStep
    <3>3. call' = [call EXCEPT ![c] = k] /\ UNCHANGED <<form, window, mail, time>>
      BY <2>1 DEF TokenFails
    <3>. HIDE DEF k
    <3>. QED
      BY <3>2, <3>3, OneCallMoves DEF TypeOK
  <2>4. CASE call[c].with # "refresh"
    <3>1. /\ k \in Call /\ k.o = call[c].o /\ k.pc = "done" /\ k.end = "failed"
          /\ k.with = call[c].with /\ k.code = call[c].code /\ k.posted = call[c].posted
      BY <2>2, <2>4 DEF Call, Ends
    <3>2. call' = [call EXCEPT ![c] = k] /\ UNCHANGED <<form, window, mail, time>>
      BY <2>1 DEF TokenFails
    <3>. HIDE DEF k
    <3>. QED
      BY <2>4, <3>1, <3>2, OneCallMoves DEF TypeOK, OwnCodeOnly
  <2>. QED
    BY <2>3, <2>4
<1>4. CASE \E c \in Calls : OpenWindow(c)
  <2>1. PICK c \in Calls : OpenWindow(c)
    BY <1>4
  <2>2. call'[c] = [call[c] EXCEPT !.pc = "waiting"] /\ \A d \in Calls : d # c => call'[d] = call[d]
    BY <2>1 DEF OpenWindow, TypeOK
  <2>3. call[c] \in Call /\ call[c].pc = "opening" /\ call[c].end = "none" /\ ~call[c].posted
    BY <2>1 DEF OpenWindow, TypeOK, EndsOnce, AnswerComes
  <2>4. /\ call'[c] \in Call /\ call'[c].pc = "waiting" /\ call'[c].end = "none" /\ ~call'[c].posted
        /\ call'[c].o = call[c].o /\ call'[c].with = call[c].with /\ call'[c].code = call[c].code
        /\ call'[c].force = call[c].force
    BY <2>2, <2>3 DEF Call
  <2>5. TypeOK'
    BY <2>1, <2>4 DEF OpenWindow, TypeOK
  <2>6. OwnCodeOnly' /\ NoForcedRefresh' /\ EndsOnce' /\ AnswerComes'
    BY <2>1, <2>2, <2>4 DEF OpenWindow, OwnCodeOnly, NoForcedRefresh, EndsOnce, AnswerComes, Listening
  <2>7. WindowOwned'
    BY <2>1, <2>2, <2>4 DEF OpenWindow, WindowOwned, TypeOK
  <2>8. Matched(form)' /\ (\A d \in Calls : Matched(call[d].o))'
    BY <2>1, <2>2, <2>4 DEF OpenWindow, Matched
  <2>. QED
    BY <2>5, <2>6, <2>7, <2>8
<1>5. CASE \E c \in Calls : PopupBlocked(c) \/ Poll(c) \/ GraceEnds(c)
  <2>1. PICK c \in Calls : PopupBlocked(c) \/ Poll(c) \/ GraceEnds(c)
    BY <1>5
  <2>2. call[c] \in Call /\ Matched(call[c].o)
    BY DEF TypeOK
  <2>3. CASE PopupBlocked(c)
    <3>. DEFINE k == Ends(call[c], "failed")
    <3>1. /\ k \in Call /\ k.o = call[c].o /\ k.pc = "done" /\ k.end = "failed"
          /\ k.with = call[c].with /\ k.code = call[c].code /\ k.force = call[c].force
      BY <2>2 DEF Call, Ends
    <3>2. call' = [call EXCEPT ![c] = k] /\ UNCHANGED <<form, window, mail, time>>
      BY <2>3 DEF PopupBlocked
    <3>. HIDE DEF k
    <3>. QED
      BY <2>2, <3>1, <3>2, OneCallMoves DEF TypeOK, OwnCodeOnly, NoForcedRefresh
  <2>4. CASE Poll(c)
    <3>. DEFINE k == [call[c] EXCEPT !.pc = "closing"]
    <3>1. /\ k \in Call /\ k.o = call[c].o /\ k.pc = "closing" /\ k.end = call[c].end
          /\ k.with = call[c].with /\ k.code = call[c].code /\ k.force = call[c].force
          /\ k.posted = call[c].posted
      BY <2>2 DEF Call
    <3>2. /\ call' = [call EXCEPT ![c] = k] /\ UNCHANGED <<form, window, mail, time>>
          /\ call[c].pc = "waiting" /\ c \notin window.on
      BY <2>4, <2>2 DEF Poll
    <3>3. call[c].end = "none"
      BY <3>2 DEF EndsOnce
    <3>. HIDE DEF k
    <3>. QED
      BY <2>2, <3>1, <3>2, <3>3, OneCallMoves DEF TypeOK, OwnCodeOnly, NoForcedRefresh, AnswerComes, Listening
  <2>5. CASE GraceEnds(c)
    <3>. DEFINE k == Ends(call[c], "cancelled")
    <3>1. /\ k \in Call /\ k.o = call[c].o /\ k.pc = "done" /\ k.end = "cancelled"
          /\ k.with = call[c].with /\ k.code = call[c].code /\ k.force = call[c].force
          /\ k.posted = call[c].posted
      BY <2>2 DEF Call, Ends
    <3>2. /\ call' = [call EXCEPT ![c] = k] /\ UNCHANGED <<form, window, mail, time>>
          /\ call[c].pc = "closing" /\ \A i \in DOMAIN mail : c \notin mail[i].to
      BY <2>5 DEF GraceEnds
    <3>3. c \notin window.on
      BY <3>2 DEF WindowOwned
    <3>4. ~call[c].posted
      BY <3>2 DEF AnswerComes, Listening
    <3>. HIDE DEF k
    <3>. QED
      BY <2>2, <3>1, <3>2, <3>3, <3>4, OneCallMoves DEF TypeOK, OwnCodeOnly, NoForcedRefresh
  <2>. QED
    BY <2>1, <2>3, <2>4, <2>5
<1>6. CASE \E error \in BOOLEAN : Callback(error)
  <2>1. PICK error \in BOOLEAN : Callback(error)
    BY <1>6
  <2>. DEFINE c == window.shows
              msg == [state |-> c, error |-> error, to |-> window.on]
  <2>2. c \in Calls /\ c \in window.on /\ window.on \subseteq Calls
    BY <2>1 DEF Callback, WindowOwned, TypeOK
  <2>3. /\ mail' = Append(mail, msg) /\ window' = Closed /\ UNCHANGED <<form, time>>
        /\ call' = [call EXCEPT ![c].posted = TRUE]
    BY <2>1 DEF Callback
  <2>4. msg \in Message
    BY <2>2 DEF Message
  <2>5. /\ mail' \in Seq(Message) /\ \A i \in DOMAIN mail : i \in DOMAIN mail' /\ mail'[i] = mail[i]
        /\ Len(mail) + 1 \in DOMAIN mail' /\ mail'[Len(mail) + 1] = msg
    <3>. HIDE DEF msg
    <3>. QED
      BY <2>3, <2>4 DEF TypeOK
  <2>6. call'[c] = [call[c] EXCEPT !.posted = TRUE] /\ \A d \in Calls : d # c => call'[d] = call[d]
    BY <2>2, <2>3 DEF TypeOK
  <2>7. /\ call'[c] \in Call /\ call'[c].pc = call[c].pc /\ call'[c].end = call[c].end
        /\ call'[c].o = call[c].o /\ call'[c].with = call[c].with /\ call'[c].code = call[c].code
        /\ call'[c].force = call[c].force
    <3>1. call[c] \in Call
      BY <2>2 DEF TypeOK
    <3>. QED
      BY <2>6, <3>1 DEF Call
  <2>8. TypeOK'
    BY <2>2, <2>3, <2>5, <2>7 DEF TypeOK, Closed
  <2>9. OwnCodeOnly' /\ NoForcedRefresh' /\ EndsOnce' /\ WindowOwned'
    BY <2>3, <2>6, <2>7 DEF OwnCodeOnly, NoForcedRefresh, EndsOnce, WindowOwned, Closed
  <2>10. AnswerComes'
    <3>1. SUFFICES ASSUME NEW d \in Calls, call'[d].posted
          PROVE  /\ call'[d].pc \notin {"idle", "opening"} /\ call'[d].end # "cancelled"
                 /\ call'[d].pc \in {"waiting", "closing"} => \E i \in DOMAIN mail' : d \in mail'[i].to
      BY DEF AnswerComes, Listening
    <3>2. CASE d = c
      BY <2>2, <2>5, <2>7, <3>2 DEF WindowOwned
    <3>3. CASE d # c
      BY <2>5, <2>6, <3>1, <3>3 DEF AnswerComes, Listening
    <3>. QED
      BY <3>2, <3>3
  <2>11. Matched(form)' /\ (\A d \in Calls : Matched(call[d].o))'
    BY <2>3, <2>6, <2>7 DEF Matched
  <2>. QED
    BY <2>8, <2>9, <2>10, <2>11
<1>7. CASE CloseWindow
  BY <1>7 DEF CloseWindow, TypeOK, Matched, OwnCodeOnly, WindowOwned, AnswerComes, NoForcedRefresh,
     EndsOnce, Listening, Closed
<1>8. CASE Deliver
  <2>. DEFINE m == Head(mail)
  <2>1. mail # <<>> /\ mail' = Tail(mail) /\ UNCHANGED <<form, window, time>>
    BY <1>8 DEF Deliver
  <2>2. m \in Message /\ mail' \in Seq(Message)
    BY <2>1 DEF TypeOK
  <2>3. ASSUME NEW d \in Calls
        PROVE  /\ Listening(d) => call'[d] = Taken(d, m)
               /\ ~Listening(d) => call'[d] = call[d]
    BY <1>8 DEF Deliver
  <2>4. ASSUME NEW d \in Calls, Listening(d)
        PROVE  LET k == Taken(d, m) IN
               /\ k \in Call /\ k.o = call[d].o /\ k.force = call[d].force
               /\ k.pc \in {"asking", "done"} /\ k.end \in {"none", "failed"}
               /\ k.end # "none" => k.pc = "done"
               /\ k.with \in {"code", call[d].with}
               /\ k.with = "code" => k.code = d
               /\ k.posted = call[d].posted
    <3>1. call[d] \in Call /\ call[d].end = "none" /\ (call[d].with = "code" => call[d].code = d)
      BY <2>4 DEF TypeOK, Listening, EndsOnce, OwnCodeOnly
    <3>2. m.state \in Calls
      BY <2>2 DEF Message
    <3>. HIDE DEF m
    <3>3. CASE m.error \/ m.state # d
      BY <3>1, <3>3 DEF Taken, Ends, Call
    <3>4. CASE ~m.error /\ m.state = d
      BY <3>1, <3>2, <3>4 DEF Taken, Asks, Call
    <3>. QED
      BY <3>3, <3>4
  <2>. HIDE DEF m
  <2>5. TypeOK'
    <3>1. DOMAIN call' = Calls /\ \A d \in Calls : call'[d] \in Call
      BY <1>8, <2>3, <2>4 DEF Deliver, TypeOK
    <3>2. call' = [d \in Calls |-> call'[d]]
      BY <1>8 DEF Deliver
    <3>. QED
      BY <2>1, <2>2, <3>1, <3>2 DEF TypeOK
  <2>6. OwnCodeOnly' /\ NoForcedRefresh' /\ EndsOnce'
    BY <2>3, <2>4 DEF OwnCodeOnly, NoForcedRefresh, EndsOnce
  <2>7. WindowOwned'
    BY <2>1, <2>3, <2>4 DEF WindowOwned, TypeOK
  <2>8. AnswerComes'
    <3>1. \A d \in Calls : call'[d].pc \notin {"waiting", "closing"}
      BY <2>3, <2>4 DEF Listening
    <3>. QED
      BY <2>3, <2>4, <3>1 DEF AnswerComes, Listening
  <2>9. Matched(form)' /\ (\A d \in Calls : Matched(call[d].o))'
    BY <2>1, <2>3, <2>4 DEF Matched
  <2>. QED
    BY <2>5, <2>6, <2>7, <2>8, <2>9
<1>9. CASE \/ \E g \in AllGrants : ChangeGrant(g)
           \/ \E token \in {None, Typed} : TypeToken(token)
           \/ Tick
  <2>1. form' \in Settings /\ Matched(form') /\ time' \in Nat /\ UNCHANGED <<call, window, mail>>
    <3>1. \A g \in AllGrants : Empty(g) \in Settings /\ Matched(Empty(g))
      BY DEF Empty, Settings, Matched
    <3>2. ASSUME NEW g \in AllGrants, ChangeGrant(g)
          PROVE  form' \in Settings /\ Matched(form') /\ time' \in Nat /\ UNCHANGED <<call, window, mail>>
      BY <3>1, <3>2 DEF ChangeGrant, TypeOK
    <3>3. ASSUME NEW token \in {None, Typed}, TypeToken(token)
          PROVE  form' \in Settings /\ Matched(form') /\ time' \in Nat /\ UNCHANGED <<call, window, mail>>
      <4>1. form.grant \in AllGrants
        BY DEF TypeOK, Settings
      <4>2. [form EXCEPT !.token = token] \in Settings /\ Matched([form EXCEPT !.token = token])
        BY DEF TypeOK, Settings, Matched
      <4>. QED
        BY <3>1, <3>3, <4>1, <4>2 DEF TypeToken, TypeOK
    <3>4. CASE Tick
      BY <3>4 DEF Tick, TypeOK
    <3>. QED
      BY <1>9, <3>2, <3>3, <3>4
  <2>. QED
    BY <2>1 DEF TypeOK, Matched, OwnCodeOnly, WindowOwned, AnswerComes, NoForcedRefresh, EndsOnce, Listening
<1>10. CASE UNCHANGED vars
  BY <1>10 DEF vars, TypeOK, Matched, OwnCodeOnly, WindowOwned, AnswerComes, NoForcedRefresh, EndsOnce, Listening
<1>. QED
  BY <1>1, <1>2, <1>3, <1>4, <1>5, <1>6, <1>7, <1>8, <1>9, <1>10 DEF Next, AllGrants

LEMMA Invariance == Spec => []IInv
<1>. QED
  BY InitOK, StepKeeps, PTL DEF Spec

-----------------------------------------------------------------------------
\* However many sign-ins listen for the one popup, a code is only redeemed by the sign-in
\* it was given to (the test of the state, app.js:337).
THEOREM CodesKeptApart == Spec => []OwnCodeOnly
<1>1. IInv => OwnCodeOnly
  BY DEF IInv
<1>. QED
  BY <1>1, Invariance, PTL

\* However many sign-ins share the popup, one whose answer was posted before it closed is
\* not taken for cancelled (the half second of app.js:334).
THEOREM AnswersCount == Spec => []AnswerBeatsClose
<1>1. IInv => AnswerBeatsClose
  BY DEF IInv, AnswerComes, AnswerBeatsClose
<1>. QED
  BY <1>1, Invariance, PTL

\* However many calls write tokens late, the tokens in the form were given out under the
\* grant type beside them (writeOauth, app.js:301; the change of the grant, app.js:308).
THEOREM TokensKeptApart == Spec => []TokensMatchGrant
<1>1. IInv => TokensMatchGrant
  BY DEF IInv, Matched, TokensMatchGrant
<1>. QED
  BY <1>1, Invariance, PTL

=============================================================================
