-------------------------------- MODULE OAuth --------------------------------
(***************************************************************************)
(* OAuth tokens of web/js/app.js: the OAuth fields of the form, the sends  *)
(* and uses of Get Token that read them, wait for the token endpoint and   *)
(* write them, and the sign-in with an authorization code.  All sign-ins   *)
(* share one popup (window.open with a fixed name), each polls it to see   *)
(* it closed, and each listens for the message that the page               *)
(* /oauth/callback (oauth.html) posts before it closes itself.             *)
(*                                                                         *)
(* There is one tab; SendTabs tells where a token lands when there are     *)
(* several.  The user acts, and the server answers, at any time.           *)
(***************************************************************************)
EXTENDS Naturals, Sequences

CONSTANTS
  Calls,    \* sends and uses of Get Token: as many as the model allows
  Grants,   \* grant types besides Code
  Code,     \* the grant type authorization_code
  Serials,  \* tokens the server may give out under a grant
  None,     \* no token, no window, never expires
  Typed,    \* a token typed by hand
  MaxTime   \* bound of the model: how often tokens expire

VARIABLES
  form,    \* oaGrant, oaToken, oaRefresh, oaExpires
  call,    \* per call: where it waits, and the settings it began with
  window,  \* the popup: the sign-ins it belongs to, and the one whose page it shows
  mail,    \* messages posted to the page, to be delivered
  time

vars == <<form, call, window, mail, time>>

Empty(grant) == [grant |-> grant, token |-> None, refresh |-> None, expires |-> None]
Closed == [on |-> {}, shows |-> None]

NoCall == [pc |-> "idle", force |-> FALSE, o |-> Empty(Code), with |-> "nothing",
           code |-> None, end |-> "none", posted |-> FALSE]

Listening(c) == call[c].pc \in {"waiting", "closing"}
Ends(k, how) == [k EXCEPT !.pc = "done", !.end = how]
Asks(k, with) == [k EXCEPT !.pc = "asking", !.with = with]

Init ==
  /\ form \in {Empty(g) : g \in Grants \cup {Code}}
  /\ call = [c \in Calls |-> NoCall]
  /\ window = Closed /\ mail = <<>> /\ time = 0

-----------------------------------------------------------------------------
Fresh(o) == o.token # None /\ (o.expires = None \/ time < o.expires)

\* oauthEnsure without a usable token: only Get Token signs in.
Anew(k) ==
  IF k.o.grant # Code THEN Asks(k, "grant")
  ELSE IF k.force THEN [k EXCEPT !.pc = "opening"]
  ELSE Ends(k, "failed")

\* oauthEnsure, until it waits.
Ensured(k) ==
  IF k.force THEN Anew(k)
  ELSE IF Fresh(k.o) THEN Ends(k, "token")
  ELSE IF k.o.refresh # None THEN Asks(k, "refresh")
  ELSE Anew(k)

\* A send, or Get Token (force), reads the form.
Start(c, force) ==
  /\ call[c].pc = "idle"
  /\ call' = [call EXCEPT ![c] = Ensured([NoCall EXCEPT !.force = force, !.o = form])]
  /\ UNCHANGED <<form, window, mail, time>>

\* oauthToken's settings with a token of the answer; the old refresh token stays
\* when the answer has none.
WithToken(o, n, refresh, expires) ==
  [o EXCEPT !.token = [grant |-> o.grant, serial |-> n],
            !.refresh = IF refresh THEN o.grant ELSE @,
            !.expires = IF expires THEN time + 1 ELSE None]

\* mutant: only the tokens are written.
Written_TokensOnly(o) == [o EXCEPT !.grant = form.grant]

\* writeOauth writes all fields as the call has them.
Written(o) == o

\* The token endpoint answers.  A send keeps what it got when the token is a new one.
TokenAnswer(c) ==
  /\ call[c].pc = "asking"
  /\ \E n \in Serials, refresh, expires \in BOOLEAN :
       LET o == WithToken(call[c].o, n, refresh, expires) IN
       /\ form' = IF call[c].force \/ o.token # call[c].o.token THEN Written(o) ELSE form
       /\ call' = [call EXCEPT ![c] = [Ends(@, "token") EXCEPT !.o = o]]
  /\ UNCHANGED <<window, mail, time>>

\* No token comes back.  When a refresh token was sent, the call goes on without it.
TokenFails(c) ==
  /\ call[c].pc = "asking"
  /\ call' = [call EXCEPT ![c] = IF @.with = "refresh" THEN Anew(@) ELSE Ends(@, "failed")]
  /\ UNCHANGED <<form, window, mail, time>>

-----------------------------------------------------------------------------
(* Sign-in.                                                                *)

\* window.open takes the window that is open; its closed flag is the same for all.
OpenWindow(c) ==
  /\ call[c].pc = "opening"
  /\ call' = [call EXCEPT ![c].pc = "waiting"]
  /\ window' = [on |-> window.on \cup {c}, shows |-> c]
  /\ UNCHANGED <<form, mail, time>>

PopupBlocked(c) ==
  /\ call[c].pc = "opening"
  /\ call' = [call EXCEPT ![c] = Ends(@, "failed")]
  /\ UNCHANGED <<form, window, mail, time>>

\* oauth.html: the server sent the window back with a code, or an error, and the state of
\* the sign-in whose page it was.  The page posts that and closes itself.
Callback(error) ==
  LET c == window.shows IN
  /\ c # None
  /\ mail' = Append(mail, [state |-> c, error |-> error, to |-> window.on])
  /\ window' = Closed
  /\ call' = [call EXCEPT ![c].posted = TRUE]
  /\ UNCHANGED <<form, time>>

CloseWindow ==
  /\ window # Closed
  /\ window' = Closed
  /\ UNCHANGED <<form, call, mail, time>>

\* mutant: the state is not looked at.
Taken_AnyState(c, m) ==
  IF m.error THEN Ends(call[c], "failed")
  ELSE [Asks(call[c], "code") EXCEPT !.code = m.state]

\* What sign-in c makes of message m: its code is redeemed if the state is its own.
Taken(c, m) ==
  IF m.error \/ m.state # c THEN Ends(call[c], "failed")
  ELSE [Asks(call[c], "code") EXCEPT !.code = m.state]

\* All sign-ins that listen get the message.
Deliver ==
  /\ mail # <<>> /\ mail' = Tail(mail)
  /\ call' = [c \in Calls |-> IF Listening(c) THEN Taken(c, Head(mail)) ELSE call[c]]
  /\ UNCHANGED <<form, window, time>>

\* mutant: a closed window is taken for a cancelled sign-in at once.
Poll_NoGrace(c) ==
  /\ call[c].pc = "waiting" /\ c \notin window.on
  /\ call' = [call EXCEPT ![c] = Ends(@, "cancelled")]
  /\ UNCHANGED <<form, window, mail, time>>

\* The timer finds the window closed, and the sign-in has half a second left.
Poll(c) ==
  /\ call[c].pc = "waiting" /\ c \notin window.on
  /\ call' = [call EXCEPT ![c].pc = "closing"]
  /\ UNCHANGED <<form, window, mail, time>>

\* mutant: the second timer only looks again.
GraceEnds_Again(c) ==
  /\ call[c].pc = "closing"
  /\ \A i \in DOMAIN mail : c \notin mail[i].to
  /\ call' = [call EXCEPT ![c].pc = "waiting"]
  /\ UNCHANGED <<form, window, mail, time>>

\* It is over: a message posted before the window closed has arrived in that time.
GraceEnds(c) ==
  /\ call[c].pc = "closing"
  /\ \A i \in DOMAIN mail : c \notin mail[i].to
  /\ call' = [call EXCEPT ![c] = Ends(@, "cancelled")]
  /\ UNCHANGED <<form, window, mail, time>>

-----------------------------------------------------------------------------
(* The user, and time.                                                     *)

ChangeGrant(g) ==
  /\ form.grant # g
  /\ form' = Empty(g)
  /\ UNCHANGED <<call, window, mail, time>>

\* Without a token there is nothing to refresh; typing another leaves the rest.
TypeToken(token) ==
  /\ form.token # token
  /\ form' = IF token = None THEN Empty(form.grant) ELSE [form EXCEPT !.token = token]
  /\ UNCHANGED <<call, window, mail, time>>

Tick ==
  /\ time < MaxTime /\ time' = time + 1
  /\ UNCHANGED <<form, call, window, mail>>

Next ==
  \/ \E c \in Calls :
       \/ \E force \in BOOLEAN : Start(c, force)
       \/ TokenAnswer(c) \/ TokenFails(c)
       \/ OpenWindow(c) \/ PopupBlocked(c) \/ Poll(c) \/ GraceEnds(c)
  \/ \E error \in BOOLEAN : Callback(error)
  \/ CloseWindow \/ Deliver
  \/ \E g \in Grants \cup {Code} : ChangeGrant(g)
  \/ \E token \in {None, Typed} : TypeToken(token)
  \/ Tick

\* Timers fire and messages are delivered.
Fairness == WF_vars(Deliver) /\ \A c \in Calls : WF_vars(Poll(c)) /\ WF_vars(GraceEnds(c))

Spec == Init /\ [][Next]_vars /\ Fairness

-----------------------------------------------------------------------------
\* A code is redeemed, with its own verifier, only by the sign-in it was given to, also
\* when several listen for the one popup.
OwnCodeOnly == \A c \in Calls : call[c].with = "code" => call[c].code = c

\* A sign-in whose answer was posted before the window closed is not taken for cancelled.
AnswerBeatsClose == \A c \in Calls : call[c].posted => call[c].end # "cancelled"

\* Whatever answers late, and whatever the user changes meanwhile: the tokens in the form
\* were given out under the grant type that stands beside them, so that a refresh token
\* is never sent to refresh something else.
TokensMatchGrant ==
  /\ form.token \in {None, Typed} \/ form.token.grant = form.grant
  /\ form.refresh \in {None, form.grant}

\* A sign-in whose window is closed does not wait forever, also when the window was taken
\* over by another one, or closed before its page was reached.
SignInsEnd ==
  \A c \in Calls : (call[c].pc = "waiting" /\ c \notin window.on) ~> ~Listening(c)
=============================================================================
