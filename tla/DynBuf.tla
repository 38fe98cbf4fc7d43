------------------------------- MODULE DynBuf -------------------------------
(***************************************************************************)
(* The growable buffer of src/dynbuf.c, which holds a request on the       *)
(* server, the response of a proxied call and the response of a load test  *)
(* step.  Bytes are counted, not represented.  The doubling loop of        *)
(* dynbuf_reserve is a step per iteration: nobody else sees a buffer, but  *)
(* the invariants of the loop are what keeps cap within max.               *)
(***************************************************************************)
EXTENDS Naturals

CONSTANTS
  Limit,     \* the max given to dynbuf_init
  MinChunk,  \* DYNBUF_MIN_CHUNK
  Sizes,     \* lengths callers append and reserve
  MaxGiven   \* bound of the model: bytes appended between two resets

SizesAllowed ==
  /\ Limit \in Nat /\ MinChunk \in Nat \ {0} /\ MinChunk <= Limit
  /\ Sizes \subseteq Nat \ {0} /\ MaxGiven \in Nat

VARIABLES
  len, cap, truncated,  \* the DynBuf; data is NULL exactly when cap = 0
  pc,                   \* "idle", or where in dynbuf_reserve / dynbuf_append
  need, newcap,         \* locals of dynbuf_reserve
  n,                    \* bytes dynbuf_append was given, 0 in a plain reserve
  given, clipped        \* history: bytes appended since the last reset, and
                        \* whether a plain reserve asked for more than Limit

buf == <<len, cap, truncated>>
local == <<pc, need, newcap, n>>
history == <<given, clipped>>
vars == <<buf, local, history>>

Init ==
  /\ len = 0 /\ cap = 0 /\ truncated = FALSE
  /\ pc = "idle" /\ need = 0 /\ newcap = 0 /\ n = 0
  /\ given = 0 /\ clipped = FALSE

Min2(a, b) == IF a <= b THEN a ELSE b

\* mutant: the doubling starts from the capacity, even when there is none.
Base_FromCap == cap

\* Where the doubling starts.
Base == IF cap # 0 THEN cap ELSE MinChunk

\* The head of dynbuf_reserve(want), called with k bytes to append (or none).
Enter(want, k) ==
  /\ pc = "idle"
  /\ n' = k
  /\ need' = Min2(want, Limit)
  /\ truncated' = (truncated \/ want > Limit)
  /\ IF need' <= cap
     THEN pc' = (IF k > 0 THEN "write" ELSE "idle") /\ UNCHANGED newcap
     ELSE pc' = "grow" /\ newcap' = Base
  /\ UNCHANGED <<len, cap>>

Append(k) ==
  /\ given + k <= MaxGiven
  /\ Enter(len + k, k)
  /\ given' = given + k
  /\ UNCHANGED clipped

Reserve(want) ==
  /\ Enter(want, 0)
  /\ clipped' = (clipped \/ want > Limit)
  /\ UNCHANGED given

\* Doubling newcap would pass max.
NearMax == newcap > Limit \div 2

\* One iteration of the loop, or its exit.
Grow ==
  /\ pc = "grow"
  /\ \/ newcap < need /\ ~NearMax /\ newcap' = 2 * newcap /\ UNCHANGED pc
     \/ newcap < need /\ NearMax /\ newcap' = Limit /\ pc' = "alloc"
     \/ newcap >= need /\ pc' = "alloc" /\ UNCHANGED newcap
  /\ UNCHANGED <<buf, need, n, history>>

\* realloc succeeds or fails; dynbuf_append marks the failure and goes on with
\* the room there is.
Alloc ==
  /\ pc = "alloc"
  /\ \/ cap' = (IF newcap < need THEN need ELSE newcap) /\ UNCHANGED truncated
     \/ truncated' = (truncated \/ n > 0) /\ UNCHANGED cap
  /\ pc' = (IF n > 0 THEN "write" ELSE "idle")
  /\ UNCHANGED <<len, need, newcap, n, history>>

\* mutant: the copy is bounded by max and not by what is allocated.
Room_OfMax == Limit - len

Room == cap - len

\* The copy of dynbuf_append.
Write ==
  /\ pc = "write"
  /\ len' = len + Min2(n, Room)
  /\ truncated' = (truncated \/ Min2(n, Room) < n)
  /\ pc' = "idle"
  /\ UNCHANGED <<cap, need, newcap, n, history>>

\* dynbuf_reset.
Reset ==
  /\ pc = "idle"
  /\ len' = 0 /\ cap' = 0 /\ truncated' = FALSE
  /\ given' = 0 /\ clipped' = FALSE
  /\ UNCHANGED local

\* mutant: the mark of the last call survives.
Rewind_KeepsMark ==
  /\ pc = "idle"
  /\ len' = 0
  /\ given' = 0 /\ clipped' = FALSE
  /\ UNCHANGED <<cap, truncated, local>>

\* perform_api_call empties the buffer of the last call and keeps its memory.
Rewind ==
  /\ pc = "idle"
  /\ len' = 0 /\ truncated' = FALSE
  /\ given' = 0 /\ clipped' = FALSE
  /\ UNCHANGED <<cap, local>>

Next ==
  \/ \E k \in Sizes : Append(k) \/ Reserve(k)
  \/ Grow \/ Alloc \/ Write
  \/ Reset \/ Rewind

Spec == Init /\ [][Next]_vars

\* A call that was made runs to its end.
Fairness == WF_vars(Grow \/ Alloc \/ Write)

FairSpec == Spec /\ Fairness

-----------------------------------------------------------------------------
\* Every variable has its type.
TypeOK ==
  /\ len \in Nat /\ cap \in Nat /\ n \in Nat /\ given \in Nat
  /\ need \in 0..Limit /\ newcap \in 0..Limit
  /\ truncated \in BOOLEAN /\ clipped \in BOOLEAN
  /\ pc \in {"idle", "grow", "alloc", "write"}

\* What is written stays in what is allocated, and what is allocated within the
\* limit of this buffer.
WithinBounds == len <= cap /\ cap <= Limit

\* `truncated`, which perform_api_call sends as X-Resp-Truncated, is 0 exactly
\* when the buffer holds every byte appended to it (or a caller reserved more
\* than max, which only read_full_request does, and it does not send it).
TruncatedIsHonest ==
  pc = "idle" => (truncated <=> len # given \/ clipped)

\* dynbuf_reserve's doubling ends, and so does every call.
CallsEnd == pc # "idle" ~> pc = "idle"
=============================================================================
