----------------------------- MODULE Sequential -----------------------------
(***************************************************************************)
(* The parts on which nobody else acts while they run.  Three are how a    *)
(* request gets into the server: the growable buffer (DynBuf), the reader  *)
(* that fills one from the socket (RequestReader) and the parser it calls  *)
(* on what is there (HttpParser).  The reader knows of the other two only  *)
(* what its module says.  Of dynbuf_reserve that is Reserved and           *)
(* ReserveFails, and ReserveContract is the other side of it; of the       *)
(* parser, that the verdict on a header part stays when the body comes in  *)
(* behind it, and PiecesDoNotMatter is the other side of that.  The fourth *)
(* is the cURL commands of the page (Curl).                                *)
(***************************************************************************)
EXTENDS HttpParser, Integers

CONSTANTS
  BufMax, BufChunk, BufSizes, BufGiven,               \* of DynBuf
  ReqMax, ReqChunk, ReqHeaders, ReqLengths, ReqExtra, \* of RequestReader
  CmdForms, CmdCommands, CmdCode                      \* of Curl

VARIABLES
  used, cap, truncated, pc, need, newcap, appended, given, clipped,  \* DynBuf
  head, length, sent, malformed, filled, size, at, ptr, verdict,     \* RequestReader
  stalled, failed,
  form, clip, origin                                                 \* Curl

Buf == INSTANCE DynBuf
  WITH len <- used, n <- appended, Limit <- BufMax, MinChunk <- BufChunk, Sizes <- BufSizes,
       MaxGiven <- BufGiven

Reader == INSTANCE RequestReader
  WITH len <- filled, cap <- size, pc <- at, Limit <- ReqMax, Chunk <- ReqChunk,
       Headers <- ReqHeaders, Lengths <- ReqLengths, Extra <- ReqExtra

Commands == INSTANCE Curl
  WITH Forms <- CmdForms, Commands <- CmdCommands, Code <- CmdCode

ASSUME BufferAssumption == Buf!SizesAllowed
ASSUME ReaderAssumption == Reader!SizesAllowed
ASSUME ParserAssumption == LimitsAllowed /\ InputsAllowed
ASSUME CommandsAssumption == Commands!CommandsAllowed

bufferVars == <<used, cap, truncated, pc, need, newcap, appended, given, clipped>>
readerVars == <<head, length, sent, malformed, filled, size, at, ptr, verdict, stalled, failed>>
commandVars == <<form, clip, origin>>

-----------------------------------------------------------------------------
\* What is written to a buffer stays in what is allocated, and that within its limit.
WithinBounds == Buf!WithinBounds

\* `truncated` is set exactly when the buffer does not hold all that was appended to it.
TruncatedIsHonest == Buf!TruncatedIsHonest

\* Every call of dynbuf_append and dynbuf_reserve ends.
CallsEnd == Buf!CallsEnd

\* read_full_request ends what it holds within the buffer, and a request is routed with
\* pointers into the buffer as it is.
PointersHold == Reader!Terminated /\ Reader!PointersFresh

\* A client that sends a whole request gets it routed, unless it does not fit or memory is
\* short, and 413 is sent for no other reason.
RightVerdict == Reader!RightVerdict

\* Every connection is done with in the end, however the client behaves.
ConnectionEnds == Reader!ConnectionEnds

\* What http_parse_request takes for a request is one, and it takes it as soon as its
\* header part is there; the length is that of its first Content-Length.
ParserMatchesGrammar == MatchesGrammar /\ FirstLengthCounts

\* A word of a command is read back however it is quoted.
WordsReadBack == Commands!WordsReadBack

\* A request copied as a command and pasted sends the same again.
SentAgain == Commands!SentAgain

\* What the reader counts on when it asks for room: dynbuf_reserve, once it has to grow the
\* buffer, returns with nothing done, or with the room that was asked for, clipped to max.
ReserveContract ==
  [][pc = "alloc" =>
       used' = used /\ (cap' = cap \/ (need > cap /\ cap' \in need..BufMax))]_bufferVars
=============================================================================
