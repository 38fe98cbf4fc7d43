----------------------------- MODULE HttpParser -----------------------------
(***************************************************************************)
(* http_parse_request in src/http_parser.c, called again and again on a    *)
(* buffer that fills as read_full_request receives it.  Bytes are classes: *)
(*   "t"   a token character             "L"  the name Content-Length      *)
(*   "x"   a character that is no token  "d"  a token character, a number  *)
(*   ":" "SP" "CR" "LF"                  "V"  HTTP/1.0 or HTTP/1.1         *)
(* "L" and "V" stand for several bytes: a part of one ends the buffer, and *)
(* the verdict on the buffer is then that on the buffer without it.        *)
(***************************************************************************)
EXTENDS Naturals, Sequences, FiniteSetsExt, SequencesExt

CONSTANTS
  MaxMethod,   \* HTTP_MAX_METHOD
  MaxPath,     \* HTTP_MAX_PATH
  MaxHeaders,  \* HTTP_MAX_HEADERS
  MaxLines,    \* line_limit
  MaxDigits,   \* the longest Content-Length that is looked at
  Starts,      \* request lines
  HeaderLines, \* header lines, right and wrong, and what may stand between them
  LinesSent,   \* bound of the model: lines after the request line
  Pieces       \* how many bytes a read gives

Bytes == {"t", "L", "d", "x", ":", "SP", "CR", "LF", "V"}

LimitsAllowed ==
  {MaxMethod, MaxPath, MaxHeaders, MaxLines, MaxDigits, LinesSent} \cup Pieces \subseteq Nat \ {0}
InputsAllowed == Starts \cup HeaderLines \subseteq Seq(Bytes)

VARIABLES
  input,  \* what the client sends
  len,    \* bytes of it in the buffer
  req     \* what http_parse_request made of them

vars == <<input, len, req>>

Token == {"t", "L", "d"}
EndsLine == {"CR", "LF"}
Ows == {"SP"}

\* The first place from i on where s does not go on with bytes of cs.
After(s, i, cs) == Min({j \in i..(Len(s) + 1) : j = Len(s) + 1 \/ s[j] \notin cs})

At(s, i, c) == i <= Len(s) /\ s[i] = c

\* mutant: a lone LF ends a line.
ExpectCrlf_LoneLf(s, i) == At(s, i, "LF") \/ (At(s, i, "CR") /\ At(s, i + 1, "LF"))

\* expect_crlf
ExpectCrlf(s, i) == At(s, i, "CR") /\ At(s, i + 1, "LF")

\* Verdicts.  body is where the body begins, length the value of Content-Length.
Verdict(r) == [result |-> r, body |-> 0, headers |-> <<>>, length |-> <<>>]
NeedMore == Verdict("need_more")
Error == Verdict("error")

-----------------------------------------------------------------------------
\* parse_request_line: the place behind it, 0 when it is wrong.
RequestLine(s) ==
  LET method == After(s, 1, Token)
      path == After(s, method + 1, Bytes \ ({"SP"} \cup EndsLine))
  IN IF /\ method - 1 \in 1..(MaxMethod - 1)
        /\ At(s, method, "SP")
        /\ path - method - 1 \in 1..(MaxPath - 1)
        /\ At(s, path, "SP")
        /\ At(s, path + 1, "V")
        /\ ExpectCrlf(s, path + 2)
     THEN path + 4
     ELSE 0

\* The value from i to j without the blanks behind it.
Trimmed(s, i, j) ==
  LET ends == {k \in i..j : s[k] \notin Ows}
  IN IF ends = {} THEN <<>> ELSE SubSeq(s, i, Max(ends))

\* Headers beyond the array are dropped.
Stored(headers, header) ==
  IF Len(headers) < MaxHeaders THEN Append(headers, header) ELSE headers

\* parse_headers, the line that begins at h.pos.
HeaderLine(s, h) ==
  LET name == After(s, h.pos, Bytes \ ({":"} \cup EndsLine))
      value == After(s, name + 1, Ows)
      end == After(s, value, Bytes \ EndsLine)
      header == [name |-> SubSeq(s, h.pos, name - 1), value |-> Trimmed(s, value, end - 1)]
  IN CASE ExpectCrlf(s, h.pos) -> [h EXCEPT !.pos = @ + 2, !.at = "end"]
       [] /\ ~ExpectCrlf(s, h.pos)
          /\ \/ name = h.pos \/ ~At(s, name, ":")
             \/ \E k \in h.pos..(name - 1) : s[k] \notin Token
             \/ ~ExpectCrlf(s, end) -> [h EXCEPT !.at = "error"]
       [] OTHER -> [h EXCEPT !.pos = end + 2, !.headers = Stored(@, header)]

\* The loop over the lines: at most MaxLines of them.
ParseHeaders(s, start) ==
  LET walk[k \in 0..MaxLines] ==
        IF k = 0 THEN [pos |-> start, at |-> "line", headers |-> <<>>]
        ELSE IF walk[k - 1].at = "line" THEN HeaderLine(s, walk[k - 1]) ELSE walk[k - 1]
  IN walk[MaxLines]

\* http_find_header for Content-Length: the first of that name.
FindHeader(headers) == Min({k \in DOMAIN headers : headers[k].name = <<"L">>})

ContentLength(headers) ==
  IF \E k \in DOMAIN headers : headers[k].name = <<"L">>
  THEN LET v == headers[FindHeader(headers)].value
       IN IF Len(v) \in 1..MaxDigits THEN v ELSE <<>>
  ELSE <<>>

\* mutant: the header part is not waited for.
BlankLineAhead_Always(s, p) == TRUE

\* CR LF CR LF is somewhere behind the request line.
BlankLineAhead(s, p) == \E i \in p..Len(s) : ExpectCrlf(s, i) /\ ExpectCrlf(s, i + 2)

\* A request line that is not right is an error once the line is over.
Judged(s) == IF "LF" \in Range(s) THEN Error ELSE NeedMore

\* http_parse_request
Parse(s) ==
  LET p == RequestLine(s)
      h == ParseHeaders(s, p)
  IN CASE s = <<>> -> Error
       [] s # <<>> /\ p = 0 -> Judged(s)
       [] p # 0 /\ ~BlankLineAhead(s, p) -> NeedMore
       [] p # 0 /\ BlankLineAhead(s, p) /\ h.at = "end" ->
            [result |-> "ok", body |-> h.pos, headers |-> h.headers,
             length |-> ContentLength(h.headers)]
       [] OTHER -> Error

-----------------------------------------------------------------------------
Init ==
  /\ \E start \in Starts, n \in 0..LinesSent :
       \E lines \in [1..n -> HeaderLines] : input = start \o FlattenSeq(lines)
  /\ len = 0
  /\ req = NeedMore

\* read_full_request receives some bytes and parses all it has; after "ok" it goes
\* on with the body and parses again, after an error it stops.
Receive ==
  /\ req.result # "error" /\ len < Len(input)
  /\ \E n \in Pieces : len' = Min({len + n, Len(input)})
  /\ req' = Parse(SubSeq(input, 1, len'))
  /\ UNCHANGED input

Next == Receive

Spec == Init /\ [][Next]_vars

-----------------------------------------------------------------------------
(* What a request is, said without a parser: some lines, the first a       *)
(* request line, the next ones headers, then an empty line, with nothing   *)
(* of it over the limits.                                                  *)

IsRequestLine(l) ==
  \E m \in 1..(MaxMethod - 1), p \in 1..(MaxPath - 1) :
    /\ Len(l) = m + p + 3
    /\ \A k \in 1..m : l[k] \in Token
    /\ \A k \in (m + 2)..(m + p + 1) : l[k] \notin {"SP"} \cup EndsLine
    /\ l[m + 1] = "SP" /\ l[m + p + 2] = "SP" /\ l[m + p + 3] = "V"

IsHeader(l) ==
  \E k \in 2..Len(l) : l[k] = ":" /\ \A i \in 1..(k - 1) : l[i] \in Token

\* The places where a line begins: behind each CR LF.
LineStarts(s) == {1} \cup {i \in 3..(Len(s) + 1) : s[i - 2] = "CR" /\ s[i - 1] = "LF"}

\* The line from i to the next CR LF, without it.
LineAt(s, i) == SubSeq(s, i, Min({j \in LineStarts(s) : j > i}) - 3)

\* A header part of s that ends before b.
IsHead(s, b) ==
  LET starts == {i \in LineStarts(s) : i < b} IN
  /\ b \in LineStarts(s) /\ Cardinality(starts) \in 2..(MaxLines + 1)
  /\ IsRequestLine(LineAt(s, 1))
  /\ \A i \in starts \ {1} :
       IF i = Max(starts) THEN LineAt(s, i) = <<>>
       ELSE IsHeader(LineAt(s, i)) /\ \A c \in Range(LineAt(s, i)) : c \notin EndsLine

\* What a header line says: the name before its first colon, and what is behind that
\* without the blanks around it.
IsPair(l, header) ==
  \E n \in 2..Len(l) : \E i \in (n + 1)..(Len(l) + 1) : \E j \in (i - 1)..Len(l) :
    /\ l[n] = ":" /\ \A k \in 1..(n - 1) : l[k] # ":"
    /\ \A k \in ((n + 1)..(i - 1)) \cup ((j + 1)..Len(l)) : l[k] \in Ows
    /\ i <= j => l[i] \notin Ows /\ l[j] \notin Ows
    /\ header = [name |-> SubSeq(l, 1, n - 1), value |-> SubSeq(l, i, j)]

\* The headers of the header part that ends before b, as many as there is room for.
AreHeaders(s, b, headers) ==
  LET starts == {i \in LineStarts(s) : i < b}
      number(i) == Cardinality({j \in LineStarts(s) : j < i})
  IN /\ Len(headers) = Min({MaxHeaders, Cardinality(starts) - 2})
     /\ \A i \in starts : number(i) \in DOMAIN headers => IsPair(LineAt(s, i), headers[number(i)])

Received == SubSeq(input, 1, len)

\* What is taken for a request is one, its headers are those of its lines, its body begins
\* behind its first empty line, and a request with a header is taken as soon as its header
\* part is there.
MatchesGrammar ==
  /\ req.result = "ok" => IsHead(Received, req.body) /\ AreHeaders(Received, req.body, req.headers)
  /\ \A b \in 1..(len + 1) :
       IsHead(Received, b) /\ Cardinality({i \in LineStarts(Received) : i < b}) > 2 =>
         req.result = "ok" /\ req.body = b

\* The length is that of the first Content-Length among them.
FirstLengthCounts ==
  req.result = "ok" =>
    \A k \in DOMAIN req.headers :
      (\A i \in 1..k : req.headers[i].name = <<"L">> <=> i = k) =>
        req.length = IF Len(req.headers[k].value) \in 1..MaxDigits
                     THEN req.headers[k].value ELSE <<>>

\* How a request is cut into pieces does not matter: what a part of it was taken for,
\* all of it is taken for, with the same headers and the same body.
PiecesDoNotMatter ==
  [][/\ req.result = "ok" => req' = req
     /\ req'.result = "error" => Parse(input) = Error]_vars
=============================================================================
