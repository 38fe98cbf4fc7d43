----------------------------- MODULE SavedList -----------------------------
(***************************************************************************)
(* What POST /save and GET /requests.json promise together: one atomic     *)
(* register.  A save takes effect at one instant between its request and   *)
(* its answer or not at all, a get answers with the list of one instant    *)
(* between its request and its answer, and a restart keeps the list.       *)
(* SaveStore implements it with a temporary file and a rename.             *)
(***************************************************************************)
CONSTANTS Workers, Lists, NoList

VARIABLES
  value,  \* the list, NoList until the first save
  call    \* the call each worker serves, and how far it got

vars == <<value, call>>

Idle == <<"idle">>
Calls ==
  {Idle, <<"getting">>, <<"saved">>, <<"refused">>}
    \cup ({"saving"} \X Lists) \cup ({"got"} \X (Lists \cup {NoList}))

Init == value = NoList /\ call = [w \in Workers |-> Idle]

Goes(w, c) == call' = [call EXCEPT ![w] = c]

Save(w, list) == call[w] = Idle /\ Goes(w, <<"saving", list>>) /\ UNCHANGED value

\* The instant of a save.
Apply(w) ==
  /\ call[w][1] = "saving"
  /\ value' = call[w][2]
  /\ Goes(w, <<"saved">>)

Get(w) == call[w] = Idle /\ Goes(w, <<"getting">>) /\ UNCHANGED value

\* The instant of a get.
Read(w) == call[w][1] = "getting" /\ Goes(w, <<"got", value>>) /\ UNCHANGED value

\* A request without a body, or the file system or the client's socket fails.
Refuse(w) ==
  /\ call[w][1] \in {"idle", "saving", "getting", "got"}
  /\ Goes(w, <<"refused">>)
  /\ UNCHANGED value

Answer(w) ==
  /\ call[w][1] \in {"saved", "refused", "got"}
  /\ Goes(w, Idle)
  /\ UNCHANGED value

\* The process is killed and started again.
Restart == call' = [w \in Workers |-> Idle] /\ UNCHANGED value

Next ==
  \/ \E w \in Workers :
       \/ \E list \in Lists : Save(w, list)
       \/ Apply(w) \/ Get(w) \/ Read(w) \/ Refuse(w) \/ Answer(w)
  \/ Restart

Spec == Init /\ [][Next]_vars
=============================================================================
