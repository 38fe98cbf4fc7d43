--------------------------- MODULE RequestReader ---------------------------
(***************************************************************************)
(* How a worker gets a request off its socket: read_full_request and       *)
(* handle_client in src/router.c, over the buffer of src/dynbuf.c.  Bytes   *)
(* are counted.  http_parse_request is modelled by what it tells this      *)
(* code: it needs more bytes until the header part is there, and then      *)
(* points into the buffer.  dynbuf_reserve is modelled by what DynBuf      *)
(* shows of it: it fails, or leaves room for what was asked, clipped to    *)
(* Limit.                                                                  *)
(***************************************************************************)
EXTENDS Integers

CONSTANTS
  Limit,    \* WORKER_REQ_MAX
  Chunk,    \* REQ_READ_CHUNK
  Headers,  \* lengths of header parts
  Lengths,  \* what Content-Length can say; -1 when there is none
  Extra     \* most bytes a client sends after what it announced

SizesAllowed ==
  /\ Limit \in Nat /\ Chunk \in Nat \ {0, 1} /\ Chunk <= Limit
  /\ Headers \subseteq Nat \ {0}
  /\ Lengths \subseteq Nat \cup {-1} /\ Extra \in Nat

VARIABLES
  head,        \* bytes of the request line and the headers
  length,      \* content_length
  sent,        \* bytes the client sends before it stops
  malformed,   \* whether http_parse_request refuses it
  len, cap,    \* the DynBuf
  pc,
  ptr,         \* req.body: "none", "fresh", or "dangling" after a realloc moved
  verdict,     \* "none", "closed" (-1 or 0), "413" (-2) or "route"
  stalled,     \* history: a read failed or timed out before the client was done
  failed       \* history: a realloc failed

request == <<head, length, sent, malformed>>
buffer == <<len, cap>>
history == <<stalled, failed>>
vars == <<request, buffer, pc, ptr, verdict, history>>

Min2(a, b) == IF a <= b THEN a ELSE b

\* What the parser made of the bytes: the header part is complete.
Parsed == len >= head
Total == head + length

Init ==
  /\ head = 0 /\ length = -1 /\ sent = 0 /\ malformed = FALSE
  /\ len = 0 /\ cap = 0
  /\ pc = "end" /\ ptr = "none" /\ verdict = "none"
  /\ stalled = FALSE /\ failed = FALSE

\* handle_client answers, closes the socket and frees the buffer, and the worker
\* takes the next connection: a client that will send less than a request, all of
\* it, or more.
NextClient ==
  /\ pc = "end"
  /\ head' \in Headers /\ length' \in Lengths
  /\ sent' \in 0..(head' + (IF length' > 0 THEN length' ELSE 0) + Extra)
  /\ malformed' \in BOOLEAN
  /\ len' = 0 /\ cap' = 0
  /\ pc' = "room" /\ ptr' = "none" /\ verdict' = "none"
  /\ stalled' = FALSE /\ failed' = FALSE

\* dynbuf_reserve(rb, want) succeeds.  Growing may move the buffer, and what
\* points into it then dangles.
Reserved(want) ==
  /\ cap' \in (IF Min2(want, Limit) <= cap THEN {cap} ELSE Min2(want, Limit)..Limit)
  /\ ptr' \in (IF cap' > cap /\ ptr = "fresh" THEN {"fresh", "dangling"} ELSE {ptr})
  /\ UNCHANGED <<len, failed>>

\* realloc was needed and failed.
ReserveFails(want) ==
  /\ Min2(want, Limit) > cap
  /\ failed' = TRUE
  /\ UNCHANGED <<buffer, ptr>>

Ends(v) == pc' = "end" /\ verdict' = v

-----------------------------------------------------------------------------
(* The loop over the header part.                                          *)

Full == cap - len < 2

Room ==
  /\ pc = "room" /\ ~Full
  /\ pc' = "read"
  /\ UNCHANGED <<request, buffer, ptr, verdict, history>>

MakeRoom ==
  /\ pc = "room" /\ Full
  /\ \/ Reserved(cap + Chunk) /\ pc' = (IF cap' - len < 2 THEN "judge" ELSE "read")
     \/ ReserveFails(cap + Chunk) /\ pc' = "judge"
  /\ UNCHANGED <<request, verdict, stalled>>

\* One byte is kept for the terminating NUL.
Space == cap - len - 1

\* read() gives some bytes, and a NUL is put after them.
Receives == len' \in (len + 1)..Min2(len + Space, sent)

\* read() gives 0 because the client is done, or fails or times out; or there is no
\* space to read into.
ReadsNothing == stalled' = (stalled \/ (Space > 0 /\ len < sent)) /\ UNCHANGED buffer

Read ==
  /\ pc = "read" /\ Receives
  /\ \/ malformed /\ Ends("closed") /\ UNCHANGED ptr
     \/ len' < head /\ pc' = "room" /\ UNCHANGED <<ptr, verdict>>
     \/ ~malformed /\ len' >= head /\ pc' = "judge" /\ ptr' = "fresh" /\ UNCHANGED verdict
  /\ UNCHANGED <<request, cap, history>>

ReadEnds ==
  /\ pc = "read" /\ ReadsNothing
  /\ IF len = 0 THEN Ends("closed") ELSE pc' = "judge" /\ UNCHANGED verdict
  /\ UNCHANGED <<request, ptr, failed>>

-----------------------------------------------------------------------------
(* What is left to read, and whether it fits.                              *)

Incomplete ==
  /\ pc = "judge" /\ ~Parsed
  /\ Ends("closed")
  /\ UNCHANGED <<request, buffer, ptr, history>>

\* mutant: the body may fill the buffer to its last byte.
TooLarge_NoNul == length > Limit \/ (length > 0 /\ Total > Limit)

TooLarge == length > Limit \/ (length > 0 /\ Total + 1 > Limit)

Refuse ==
  /\ pc = "judge" /\ Parsed /\ TooLarge
  /\ Ends("413")
  /\ UNCHANGED <<request, buffer, ptr, history>>

\* Without Content-Length the body is what came with the headers.
NoBody ==
  /\ pc = "judge" /\ Parsed /\ ~TooLarge /\ length <= 0
  /\ Ends("route")
  /\ UNCHANGED <<request, buffer, ptr, history>>

MakeBodyRoom ==
  /\ pc = "judge" /\ Parsed /\ ~TooLarge /\ length > 0
  /\ \/ Reserved(Total + 1) /\ pc' = "body" /\ UNCHANGED verdict
     \/ ReserveFails(Total + 1) /\ Ends("413")
  /\ UNCHANGED <<request, stalled>>

ReadBody ==
  /\ pc = "body" /\ len < Total /\ Receives
  /\ UNCHANGED <<request, cap, pc, ptr, verdict, history>>

\* mutant: the loop goes on when read gives nothing.
ReadBodyEnds_GoesOn ==
  /\ pc = "body" /\ len < Total /\ ReadsNothing
  /\ UNCHANGED <<request, pc, ptr, verdict, failed>>

ReadBodyEnds ==
  /\ pc = "body" /\ len < Total /\ ReadsNothing
  /\ pc' = "reparse"
  /\ UNCHANGED <<request, ptr, verdict, failed>>

\* mutant: what came with the headers is not parsed again.
BodyThere_NoReparse ==
  /\ pc = "body" /\ len >= Total
  /\ Ends("route")
  /\ UNCHANGED <<request, buffer, ptr, history>>

BodyThere ==
  /\ pc = "body" /\ len >= Total
  /\ pc' = "reparse"
  /\ UNCHANGED <<request, buffer, ptr, verdict, history>>

Reparse ==
  /\ pc = "reparse"
  /\ ptr' = "fresh"
  /\ Ends("route")
  /\ UNCHANGED <<request, buffer, history>>

Step ==
  \/ Room \/ MakeRoom \/ Read \/ ReadEnds
  \/ Incomplete \/ Refuse \/ NoBody \/ MakeBodyRoom
  \/ ReadBody \/ ReadBodyEnds \/ BodyThere \/ Reparse

Next == Step \/ NextClient

Spec == Init /\ [][Next]_vars

\* read returns within SOCKET_TIMEOUT_SEC, so a worker always takes a step.
Fairness == WF_vars(Step)

FairSpec == Spec /\ Fairness

-----------------------------------------------------------------------------
\* The bytes of the body, from req.body to the end of the buffer.
BodyLen == len - head

\* rb->data[rb->len] = '\0' stays in the buffer.
Terminated == cap > 0 => len < cap

\* A request is routed with pointers into the buffer as it is, however often
\* reading it moved the buffer.
PointersFresh == verdict = "route" => ptr = "fresh" /\ Parsed

\* A client that sends a well-formed request to its end and not too slowly gets
\* it routed, unless it does not fit or memory is short; 413 is sent for no other
\* reason; and what is routed has all of its body.
Whole == ~malformed /\ ~stalled /\ ~failed /\ sent >= head /\ sent >= Total
Fits == Total + 1 <= Limit /\ head + 1 <= Limit

RightVerdict ==
  /\ verdict = "413" => failed \/ ~Fits
  /\ verdict # "none" /\ Whole /\ Fits => verdict = "route"
  /\ verdict = "route" /\ Whole /\ length > 0 => BodyLen >= length

\* Every connection is done with in the end, however the client behaves.
ConnectionEnds == pc # "end" ~> pc = "end"
=============================================================================
