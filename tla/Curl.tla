-------------------------------- MODULE Curl --------------------------------
(***************************************************************************)
(* cURL commands in web/js/app.js: generateCurl makes one of the request   *)
(* in the form, importCurl opens a tab with what it reads in one, and      *)
(* doSend sends what is in the form.                                       *)
(*                                                                         *)
(* A text is a sequence of atoms.  Blanks, quotes, backslashes, ':', '=',  *)
(* '&' and '?' are atoms; a name, an option or a word like Bearer is one.  *)
(* Encoded text (base64 or percent) has a coded atom for each of it.  An   *)
(* option goes by one of its names.  Left out: environments and the        *)
(* parameters of the query, which have a grid of their own.                *)
(***************************************************************************)
EXTENDS Naturals, Sequences, FiniteSets, SequencesExt

CONSTANTS
  Forms,      \* requests in the form
  Commands,   \* commands written by hand: how their words are written, and words without
              \* shorthands for them
  Code        \* Code[a]: the coded atom for an atom that is not sent as it is

VARIABLES
  form,
  clip,    \* a command, to be pasted
  origin   \* history: the form, or the words, that command was made of

vars == <<form, clip, origin>>

Blanks == {" ", "\n"}
Quotes == {"'", "\""}
NoText == <<>>

\* The first place of atom c in s, one past its end when there is none.
Find(s, c) ==
  CHOOSE i \in 1..(Len(s) + 1) :
    (i = Len(s) + 1 \/ s[i] = c) /\ \A j \in 1..(i - 1) : s[j] # c
Before(s, c) == SubSeq(s, 1, Find(s, c) - 1)
Behind(s, c) == SubSeq(s, Find(s, c) + 1, Len(s))

\* split
Parts(s, c) ==
  FoldLeft(LAMBDA ps, a : IF a = c THEN Append(ps, NoText)
                          ELSE [ps EXCEPT ![Len(ps)] = Append(@, a)],
           <<NoText>>, s)

Trim(s) ==
  LET ink == {i \in DOMAIN s : s[i] \notin Blanks} IN
  IF ink = {} THEN NoText
  ELSE SubSeq(s, CHOOSE i \in ink : \A j \in ink : i <= j, CHOOSE i \in ink : \A j \in ink : i >= j)

Encode(s) == [i \in DOMAIN s |-> IF s[i] \in DOMAIN Code THEN Code[s[i]] ELSE s[i]]
Decode(s) == [i \in DOMAIN s |-> IF \E a \in DOMAIN Code : Code[a] = s[i]
                                  THEN CHOOSE a \in DOMAIN Code : Code[a] = s[i] ELSE s[i]]

Field(type, a, b) == [type |-> type, a |-> a, b |-> b]
NoAuth == Field("none", NoText, NoText)

-----------------------------------------------------------------------------
(* curlTokens: the words of a command.                                     *)

\* A line that ends in a backslash goes on in the next.
GoesOn(s, k) == k \in 1..(Len(s) - 1) /\ s[k] = "\\" /\ s[k + 1] = "\n"

WordEnds(t) == [t EXCEPT !.out = Append(@, t.word), !.word = NoText, !.at = "gap"]
Adds(t, a) == [t EXCEPT !.word = Append(@, a), !.escaped = FALSE]

\* mutant: also in single quotes.
Escapes_InAny(t, a) == a = "\\" /\ t.at \in Quotes

\* In double quotes a backslash is dropped and what follows it is kept.
Escapes(t, a) == a = "\\" /\ t.at = "\""

\* The loops of curlTokens, atom by atom: outside a word, in a bare part of one, or in a
\* quoted part.  A word that begins with a quote (whole) ends with it.
Scan(t, a) ==
  CASE t.escaped -> Adds(t, a)
    [] ~t.escaped /\ t.at \in {"gap", "bare"} /\ a \in Quotes ->
         [t EXCEPT !.at = a, !.whole = (t.at = "gap")]
    [] ~t.escaped /\ t.at = "gap" /\ a \notin Quotes ->
         IF a \in Blanks THEN t ELSE [Adds(t, a) EXCEPT !.at = "bare"]
    [] ~t.escaped /\ t.at = "bare" /\ a \notin Quotes -> IF a \in Blanks THEN WordEnds(t) ELSE Adds(t, a)
    [] ~t.escaped /\ t.at \in Quotes /\ t.at = a -> IF t.whole THEN WordEnds(t) ELSE [t EXCEPT !.at = "bare"]
    [] OTHER -> IF Escapes(t, a) THEN [t EXCEPT !.escaped = TRUE] ELSE Adds(t, a)

\* Place k of a command, where a backslash at the end of a line is a blank and the line end
\* is nothing.
Reads(s, t, k) ==
  IF GoesOn(s, k) THEN Scan(t, " ") ELSE IF GoesOn(s, k - 1) THEN t ELSE Scan(t, s[k])

\* A backslash with nothing behind it stays.
CurlTokens(s) ==
  LET scan[k \in 0..Len(s)] ==
        IF k = 0 THEN [out |-> <<>>, word |-> NoText, at |-> "gap", whole |-> FALSE, escaped |-> FALSE]
        ELSE Reads(s, scan[k - 1], k)
      t == scan[Len(s)]
  IN IF t.at = "gap" THEN t.out
     ELSE WordEnds(IF t.escaped THEN Adds(t, "\\") ELSE t).out

-----------------------------------------------------------------------------
(* parseCurl.                                                              *)

\* Options with a value, and what it is; other words with a '-' say nothing.
Valued == [a \in {"-X", "-H", "-d", "-u", "-A", "--url", "-o"} |->
             CASE a = "-X" -> "method" [] a = "-H" -> "header" [] a = "-d" -> "body"
               [] a = "-u" -> "user" [] a = "-A" -> "agent" [] a = "--url" -> "url"
               [] a = "-o" -> "skipped"]
Flags == {"-G", "-s"}

\* The value v of an option.
Value(r, of, v) ==
  CASE of = "header" -> [r EXCEPT !.headers = Append(@, v)]
    [] of = "agent" -> [r EXCEPT !.headers = Append(@, <<"User-Agent", ":", " ">> \o v)]
    [] of = "body" -> [r EXCEPT !.body = @ \o (IF @ = NoText THEN <<>> ELSE <<"&">>) \o v]
    [] of \in {"method", "user", "url"} -> [r EXCEPT ![of] = v]
    [] OTHER -> r

Argument(r, w) ==
  IF r.next # "none" THEN [Value(r, r.next, w) EXCEPT !.next = "none"]
  ELSE IF Len(w) = 1 /\ w[1] \in DOMAIN Valued THEN [r EXCEPT !.next = Valued[w[1]]]
  ELSE IF Len(w) = 1 /\ w[1] \in Flags THEN [r EXCEPT !.get = @ \/ w = <<"-G">>]
  ELSE IF r.url = NoText THEN [r EXCEPT !.url = w] ELSE r

Arguments(ws) ==
  LET r == FoldLeft(Argument, [method |-> NoText, url |-> NoText, headers |-> <<>>, body |-> NoText,
                               user |-> NoText, get |-> FALSE, next |-> "none"],
                    IF ws # <<>> /\ ws[1] = <<"curl">> THEN Tail(ws) ELSE ws)
  IN Value(r, r.next, NoText)

\* User and password, parted at the first ':'.
Basic(s) == Field("basic", Before(s, ":"), Behind(s, ":"))

\* What an Authorization header says; "none" when it stays a header.
AuthOf(v) ==
  CASE Len(v) > 2 /\ v[1] = "Bearer" -> Field("bearer", SubSeq(v, 3, Len(v)), NoText)
    [] Len(v) > 2 /\ v[1] = "Basic" -> Basic(Decode(SubSeq(v, 3, Len(v))))
    [] OTHER -> NoAuth

\* A header sets the content type, or the auth fields, or stays a header.
ReadHeader(f, h) ==
  LET v == Trim(Behind(h, ":")) IN
  CASE ":" \notin Range(h) -> f
    [] h[1] = "Content-Type" -> [f EXCEPT !.ct = v]
    [] h[1] = "Authorization" /\ AuthOf(v) # NoAuth -> [f EXCEPT !.auth = AuthOf(v)]
    [] OTHER -> [f EXCEPT !.headers = Append(@, <<h[1], v>>)]

LooksLikeForm(s) ==
  \A i \in DOMAIN Parts(s, "&") :
    LET k == Before(Parts(s, "&")[i], "=") IN
    k # NoText /\ k # Parts(s, "&")[i] /\ Range(k) \cap Blanks = {}

BodyTypeOf(ct, body) ==
  CASE body = NoText -> "none"
    [] body # NoText /\ ct # NoText ->
         IF ct[1] = "application/json" THEN "json" ELSE IF ct[1] = "application/xml" THEN "xml"
         ELSE IF ct[1] = "application/x-www-form-urlencoded" THEN "form" ELSE "text"
    [] body # NoText /\ ct = NoText ->
         IF LooksLikeForm(body) THEN "form" ELSE IF Trim(body) # NoText /\ Trim(body)[1] \in {"{", "["} THEN "json" ELSE "text"

Grid(s) == [i \in DOMAIN Parts(s, "&") |->
              <<Decode(Before(Parts(s, "&")[i], "=")), Decode(Behind(Parts(s, "&")[i], "="))>>]

ParseCurl(ws) ==
  LET r == Arguments(ws)
      asked == r.get /\ r.body # NoText
      url == IF asked THEN r.url \o <<IF "?" \in Range(r.url) THEN "&" ELSE "?">> \o r.body ELSE r.url
      body == IF asked THEN NoText ELSE r.body
      f == FoldLeft(ReadHeader, [ct |-> NoText, auth |-> NoAuth, headers |-> <<>>], r.headers)
      type == BodyTypeOf(f.ct, body)
  IN [method |-> IF r.method # NoText THEN r.method[1] ELSE IF body # NoText THEN "POST" ELSE "GET",
      url |-> url,
      headers |-> IF f.ct # NoText /\ type = "none" THEN Append(f.headers, <<"Content-Type", f.ct>>) ELSE f.headers,
      auth |-> IF r.user # NoText THEN Basic(r.user) ELSE f.auth,
      type |-> type,
      body |-> IF type = "form" THEN NoText ELSE body,
      grid |-> IF type = "form" THEN Grid(body) ELSE <<>>]

-----------------------------------------------------------------------------
(* generateCurl, and what doSend makes of the form.                        *)

Ct(f) ==
  <<CASE f.type \in {"json", "graphql"} -> "application/json" [] f.type = "xml" -> "application/xml"
      [] f.type = "form" -> "application/x-www-form-urlencoded" [] f.type = "toon" -> "text/toon"
      [] OTHER -> "text/plain",
    "; charset=utf-8">>

Joined(g) ==
  FlattenSeq([i \in DOMAIN g |-> (IF i = 1 THEN <<>> ELSE <<"&">>) \o Encode(g[i][1]) \o <<"=">> \o Encode(g[i][2])])

BodyText(f) ==
  CASE f.type = "none" -> NoText
    [] f.type = "form" -> Joined(f.grid)
    [] f.type = "graphql" -> <<"{", "\"", "query", "\"", ":", " ">> \o f.body \o <<"}">>
    [] OTHER -> f.body

\* The header that the auth settings give, where both functions agree on it.
AuthHeader(a) ==
  CASE a.type \in {"bearer", "oauth2"} -> {<<"Authorization", <<"Bearer", " ">> \o a.a>>}
    [] a.type = "basic" -> {<<"Authorization", <<"Basic", " ">> \o Encode(a.a \o <<":">> \o a.b)>>}
    [] a.type = "apikey" -> {<<a.a[1], a.b>>}
    [] OTHER -> {}

Quoted(s) == <<"'">> \o s \o <<"'">>
Header(h) == <<"-H", " ">> \o Quoted(<<h[1], ":", " ">> \o h[2])

\* mutant: the header of the content type goes with a body only.
Kinded_WithBody(f) == BodyText(f) # NoText

\* The content type is given whenever there is a body type.
Kinded(f) == f.type # "none"

GenerateCurl(f) ==
  LET body == FlattenSeq([i \in DOMAIN BodyText(f) |->
                            IF BodyText(f)[i] = "'" THEN <<"'", "\\", "'", "'">> ELSE <<BodyText(f)[i]>>])
      parts == <<<<"curl", " ", "-X", " ", f.method>>, Quoted(f.url)>>
                 \o [i \in DOMAIN f.headers |-> Header(f.headers[i])]
                 \o [i \in 1..Cardinality(AuthHeader(f.auth)) |-> Header(CHOOSE h \in AuthHeader(f.auth) : TRUE)]
                 \o (IF Kinded(f) THEN <<Header(<<"Content-Type", Ct(f)>>)>> ELSE <<>>)
                 \o (IF body # NoText THEN <<<<"-d", " ">> \o Quoted(body)>> ELSE <<>>)
  IN FlattenSeq([i \in DOMAIN parts |-> (IF i = 1 THEN <<>> ELSE <<" ", "\\", "\n">>) \o parts[i]])

\* doSend: a key for the query goes to the URL, and a request that inherits sends what its
\* folder says, here a header of its own.
Sent(f) ==
  [method |-> f.method,
   url |-> IF f.auth.type = "queryKey" THEN f.url \o <<"?">> \o f.auth.a \o <<"=">> \o f.auth.b ELSE f.url,
   headers |-> Range(f.headers) \cup AuthHeader(f.auth)
                 \cup (IF f.type # "none" THEN {<<"Content-Type", Ct(f)>>} ELSE {})
                 \cup (IF f.auth.type = "inherit" THEN {<<"inherited", NoText>>} ELSE {}),
   body |-> BodyText(f)]

-----------------------------------------------------------------------------
(* Commands written by hand.  A word is written behind some blanks, in     *)
(* parts: bare, or in quotes of one kind.                                  *)

Gaps == {<<" ">>, <<"\n">>, <<"\\", "\n">>}

InQuotes(q, a) == IF q = "\"" /\ a \in {"\"", "\\"} THEN <<"\\", a>> ELSE <<a>>

PartText(p) ==
  IF p.as = "bare" THEN p.says
  ELSE <<p.as>> \o FlattenSeq([i \in DOMAIN p.says |-> InQuotes(p.as, p.says[i])]) \o <<p.as>>

WordText(w) == FlattenSeq(w.gap) \o FlattenSeq([i \in DOMAIN w.parts |-> PartText(w.parts[i])])
WordSays(w) == FlattenSeq([i \in DOMAIN w.parts |-> w.parts[i].says])

CommandText(c) == FlattenSeq([i \in DOMAIN c.written |-> WordText(c.written[i])])
CommandWords(c) == [i \in DOMAIN c.written |-> WordSays(c.written[i])]

\* Single quotes are not in single quotes, and no line that goes on is quoted.
IsPart(p) ==
  /\ \A k \in DOMAIN p.says : ~GoesOn(p.says, k)
  /\ \/ p.as = "bare" /\ Range(p.says) \cap (Blanks \cup Quotes \cup {"\\"}) = {}
     \/ p.as = "'" /\ "'" \notin Range(p.says)
     \/ p.as = "\""

\* What begins in quotes ends with them.
IsWord(w) ==
  /\ \A i \in DOMAIN w.parts : IsPart(w.parts[i])
  /\ \/ Len(w.parts) = 1 /\ w.parts[1].as \in Quotes
     \/ Len(w.parts) > 0 /\ w.parts[1].as = "bare" /\ w.parts[1].says # NoText

CommandsAllowed ==
  \A c \in Commands :
    /\ c.written \in Seq([gap : Seq(Gaps), parts : Seq([as : STRING, says : Seq(STRING)])])
    /\ \A i \in DOMAIN c.written : IsWord(c.written[i]) /\ (i > 1 => c.written[i].gap # <<>>)

-----------------------------------------------------------------------------
Init ==
  \/ form \in Forms /\ clip = NoText /\ origin = NoText
  \/ \E c \in Commands, f \in {CHOOSE g \in Forms : TRUE} :
       form = f /\ clip = CommandText(c) /\ origin = [words |-> CommandWords(c), longhand |-> c.longhand]

\* The button puts the command on the clipboard; without a URL there is none.
Copy ==
  /\ clip = NoText /\ form.url # NoText
  /\ clip' = GenerateCurl(form) /\ origin' = [form |-> form]
  /\ UNCHANGED form

\* importCurl: the command is pasted, into a new tab.
Paste ==
  /\ clip # NoText /\ form' = ParseCurl(CurlTokens(clip))
  /\ UNCHANGED <<clip, origin>>

Next == Copy \/ Paste

Spec == Init /\ [][Next]_vars

-----------------------------------------------------------------------------
\* However a word is quoted, in single or double quotes or in part, curlTokens reads the
\* word that the shell would.
WordsReadBack == "words" \in DOMAIN origin => CurlTokens(clip) = origin.words

\* No header is given twice, nothing holds a single quote, the auth settings are none that
\* generateCurl leaves out, and the body type is one that parseCurl tells.
Exports(f) ==
  /\ f.type # "toon" /\ f.auth.type \notin {"inherit", "queryKey"}
  /\ \A t \in {f.url, BodyText(f)} \cup {h[2] : h \in Sent(f).headers} : "'" \notin Range(t)
  /\ Cardinality({h[1] : h \in Sent(f).headers})
       = Len(f.headers) + Cardinality(AuthHeader(f.auth)) + (IF f.type = "none" THEN 0 ELSE 1)

\* A request that is copied as a cURL command and pasted sends the same again, whatever
\* fields of the form it comes back in; a command with shorthands sends what it stands for.
SentAgain ==
  [][clip # NoText =>
       IF "form" \in DOMAIN origin
       THEN Exports(origin.form) => Sent(form') = Sent(origin.form)
       ELSE Sent(form') = Sent(ParseCurl(origin.longhand))]_vars
=============================================================================
