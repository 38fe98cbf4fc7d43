-------------------------- MODULE Sequential_proofs --------------------------
(***************************************************************************)
(* Proofs about the parser, for any input, any cut of it into pieces and   *)
(* any limits, about the request reader, for any limit, any chunk, and any *)
(* lengths of header parts and bodies, about the growable buffer, for any  *)
(* limit and any first chunk, and about the words of cURL commands, for    *)
(* any command that is written in gaps and parts, of any atoms.            *)
(***************************************************************************)
EXTENDS Sequential, FiniteSetTheorems, SequenceTheorems, WellFoundedInduction, TLAPS

-----------------------------------------------------------------------------
(* Numbers.                                                                *)

\* What holds at 0 and goes on from each number to the next holds up to n: otherwise there
\* were a smallest number it fails for.
LEMMA UpTo ==
  ASSUME NEW n \in Nat, NEW S, 0 \in S, \A k \in 0..(n - 1) : k \in S => k + 1 \in S
  PROVE  \A k \in 0..n : k \in S
<1>. DEFINE bad == {k \in 0..n : k \notin S}
<1>1. SUFFICES ASSUME bad # {} PROVE FALSE
  OBVIOUS
<1>2. bad \in SUBSET Nat
  OBVIOUS
<1>3. PICK k \in bad : \A j \in bad : ~(<<j, k>> \in OpToRel(<, Nat))
  <2>. HIDE DEF bad
  <2>. QED
    BY <1>1, <1>2, NatLessThanWellFounded, WFMin
<1>4. \A j \in bad : j \in Nat /\ k \in Nat /\ ~(j < k)
  BY <1>2, <1>3, Zenon DEF OpToRel
<1>5. k # 0 /\ k \in 0..n
  OBVIOUS
<1>6. k - 1 \in 0..(n - 1) /\ k - 1 < k /\ (k - 1) + 1 = k
  BY <1>5
<1>7. k - 1 \in S
  BY <1>4, <1>6
<1>. QED
  BY <1>6, <1>7

\* Some number of a set is the least.
LEMMA LeastIs ==
  ASSUME NEW js \in SUBSET Nat, js # {}
  PROVE  Min(js) \in js /\ \A j \in js : Min(js) <= j
<1>1. PICK i \in js : \A j \in js : ~(<<j, i>> \in OpToRel(<, Nat))
  BY NatLessThanWellFounded, WFMin
<1>2. \A j \in js : j \in Nat /\ i \in Nat /\ ~(j < i)
  BY <1>1, Zenon DEF OpToRel
<1>3. \A j \in js : i <= j
  BY <1>2
<1>. QED
  BY <1>3 DEF Min

\* And of those up to a number, one is the most.
LEMMA MostIs ==
  ASSUME NEW n \in Nat, NEW js \in SUBSET (0..n), js # {}
  PROVE  Max(js) \in js /\ \A j \in js : Max(js) >= j
<1>. DEFINE far == {n - j : j \in js}
<1>1. far \in SUBSET Nat /\ far # {}
  <2>1. \A j \in js : n - j \in Nat
    OBVIOUS
  <2>. QED
    BY <2>1
<1>2. Min(far) \in far /\ \A d \in far : Min(far) <= d
  <2>. HIDE DEF far
  <2>. QED
    BY <1>1, LeastIs, Zenon
<1>3. PICK i \in js : Min(far) = n - i
  BY <1>2
<1>4. \A j \in js : i >= j
  <2>1. TAKE j \in js
  <2>2. n - j \in far /\ i \in Nat /\ j \in Nat
    OBVIOUS
  <2>3. n - i <= n - j
    <3>. HIDE DEF far
    <3>. QED
      BY <1>2, <1>3, <2>2
  <2>. QED
    BY <2>2, <2>3
<1>. QED
  BY <1>4 DEF Max

LEMMA LeastOfTwo ==
  ASSUME NEW a \in Nat, NEW b \in Nat
  PROVE  Min({a, b}) = IF a <= b THEN a ELSE b
<1>. DEFINE js == {a, b}
<1>1. js \in SUBSET Nat /\ js # {} /\ a \in js /\ b \in js
  OBVIOUS
<1>2. Min(js) \in js /\ Min(js) <= a /\ Min(js) <= b
  <2>. HIDE DEF js
  <2>. QED
    BY <1>1, LeastIs
<1>3. Min(js) = a \/ Min(js) = b
  BY <1>2
<1>. QED
  BY <1>2, <1>3

-----------------------------------------------------------------------------
(* Where bytes of a kind end.                                              *)

\* From i to before j the bytes of s are of cs, and no further.
Reaches(s, i, j, cs) ==
  /\ j \in i..(Len(s) + 1)
  /\ \A k \in i..(j - 1) : s[k] \in cs
  /\ j = Len(s) + 1 \/ s[j] \notin cs

LEMMA AfterReaches ==
  ASSUME NEW s \in Seq(Bytes), NEW i \in 1..(Len(s) + 1), NEW cs
  PROVE  Reaches(s, i, After(s, i, cs), cs)
<1>. DEFINE js == {j \in i..(Len(s) + 1) : j = Len(s) + 1 \/ s[j] \notin cs}
<1>1. Len(s) \in Nat /\ i \in Nat
  OBVIOUS
<1>2. js \in SUBSET Nat /\ Len(s) + 1 \in js
  BY <1>1
<1>3. Min(js) \in js /\ \A j \in js : Min(js) <= j
  <2>. HIDE DEF js
  <2>. QED
    BY <1>2, LeastIs
<1>4. After(s, i, cs) = Min(js)
  BY DEF After
<1>5. ASSUME NEW k \in i..(Min(js) - 1) PROVE s[k] \in cs
  <2>1. k \in i..(Len(s) + 1) /\ k < Min(js) /\ k # Len(s) + 1
    BY <1>1, <1>2, <1>3
  <2>2. k \notin js
    <3>1. Min(js) \in Nat
      BY <1>2, <1>3
    <3>. HIDE DEF js
    <3>. QED
      BY <1>1, <1>3, <2>1, <3>1
  <2>. QED
    BY <2>1, <2>2
<1>6. Min(js) \in i..(Len(s) + 1) /\ (Min(js) = Len(s) + 1 \/ s[Min(js)] \notin cs)
  BY <1>3
<1>. QED
  BY <1>4, <1>5, <1>6 DEF Reaches

LEMMA OnlyReach ==
  ASSUME NEW s \in Seq(Bytes), NEW i \in 1..(Len(s) + 1), NEW cs, NEW j, Reaches(s, i, j, cs)
  PROVE  After(s, i, cs) = j
<1>1. Reaches(s, i, After(s, i, cs), cs)
  BY AfterReaches
<1>2. Len(s) \in Nat
  OBVIOUS
<1>. DEFINE a == After(s, i, cs)
<1>3. Reaches(s, i, a, cs)
  BY <1>1
<1>. HIDE DEF a
<1>4. a \in i..(Len(s) + 1) /\ j \in i..(Len(s) + 1)
  BY <1>3 DEF Reaches
<1>5. ~(a < j)
  <2>1. SUFFICES ASSUME a < j PROVE FALSE
    OBVIOUS
  <2>2. a \in i..(j - 1) /\ a # Len(s) + 1
    BY <1>2, <1>4, <2>1
  <2>. QED
    BY <1>3, <2>2 DEF Reaches
<1>6. ~(j < a)
  <2>1. SUFFICES ASSUME j < a PROVE FALSE
    OBVIOUS
  <2>2. j \in i..(a - 1) /\ j # Len(s) + 1
    BY <1>2, <1>4, <2>1
  <2>. QED
    BY <1>3, <2>2 DEF Reaches
<1>. QED
  BY <1>2, <1>4, <1>5, <1>6 DEF a

-----------------------------------------------------------------------------
(* The request line.                                                       *)

\* A method of m bytes and a path of q, and what belongs around them.
Fits(s, m, q) ==
  /\ m \in 1..(MaxMethod - 1) /\ q \in 1..(MaxPath - 1) /\ m + q + 5 <= Len(s)
  /\ \A k \in 1..m : s[k] \in Token
  /\ \A k \in (m + 2)..(m + q + 1) : s[k] \notin {"SP"} \cup EndsLine
  /\ s[m + 1] = "SP" /\ s[m + q + 2] = "SP" /\ s[m + q + 3] = "V"
  /\ s[m + q + 4] = "CR" /\ s[m + q + 5] = "LF"

LEMMA BytesOf ==
  ASSUME NEW s \in Seq(Bytes)
  PROVE  Len(s) \in Nat /\ DOMAIN s = 1..Len(s) /\ \A k \in 1..Len(s) : s[k] \in Bytes
  OBVIOUS

\* parse_request_line accepts such a line,
LEMMA FitsIsTaken ==
  ASSUME NEW s \in Seq(Bytes), NEW m, NEW q, Fits(s, m, q), LimitsAllowed
  PROVE  RequestLine(s) = m + q + 6
<1>1. Len(s) \in Nat /\ MaxMethod \in Nat /\ MaxPath \in Nat
  BY DEF LimitsAllowed
<1>2. m \in Nat /\ q \in Nat /\ m > 0 /\ q > 0 /\ m < MaxMethod /\ q < MaxPath /\ m + q + 5 <= Len(s)
  BY <1>1 DEF Fits
<1>3. After(s, 1, Token) = m + 1
  <2>1. Reaches(s, 1, m + 1, Token)
    BY <1>1, <1>2 DEF Reaches, Fits, Token
  <2>. QED
    BY <1>1, <2>1, OnlyReach
<1>. DEFINE cs == Bytes \ ({"SP"} \cup EndsLine)
<1>4. After(s, m + 2, cs) = m + q + 2
  <2>1. m + q + 2 \in (m + 2)..(Len(s) + 1) /\ m + 2 \in 1..(Len(s) + 1)
    BY <1>1, <1>2
  <2>2. \A k \in (m + 2)..(m + q + 2 - 1) : s[k] \in cs
    BY <1>1, <1>2, BytesOf DEF Fits
  <2>3. s[m + q + 2] \notin cs
    BY DEF Fits
  <2>. HIDE DEF cs
  <2>4. Reaches(s, m + 2, m + q + 2, cs)
    BY <1>1, <1>2, <2>1, <2>2, <2>3, SMTT(20) DEF Reaches
  <2>. QED
    BY <2>1, <2>4, OnlyReach
<1>5. m + 1 + 1 = m + 2 /\ m + 1 - 1 = m /\ m + q + 2 - (m + 1) - 1 = q
      /\ m + q + 2 + 1 = m + q + 3 /\ m + q + 2 + 2 = m + q + 4 /\ m + q + 2 + 4 = m + q + 6
      /\ m + q + 4 + 1 = m + q + 5
  BY <1>2
<1>6. /\ At(s, m + 1, "SP") /\ At(s, m + q + 2, "SP") /\ At(s, m + q + 3, "V")
      /\ ExpectCrlf(s, m + q + 4)
  BY <1>1, <1>2, <1>5 DEF At, ExpectCrlf, Fits
<1>. DEFINE end == After(s, 1, Token)
            path == After(s, end + 1, cs)
<1>7. end = m + 1 /\ path = m + q + 2
  BY <1>3, <1>4, <1>5
<1>8. /\ end - 1 \in 1..(MaxMethod - 1) /\ At(s, end, "SP")
      /\ path - end - 1 \in 1..(MaxPath - 1) /\ At(s, path, "SP") /\ At(s, path + 1, "V")
      /\ ExpectCrlf(s, path + 2) /\ path + 4 = m + q + 6
  <2>. HIDE DEF end, path
  <2>1. m \in 1..(MaxMethod - 1) /\ q \in 1..(MaxPath - 1)
    BY DEF Fits
  <2>. QED
    BY <1>5, <1>6, <1>7, <2>1
<1>. QED
  BY <1>8, Zenon DEF RequestLine

\* and nothing else.
LEMMA TakenFits ==
  ASSUME NEW s \in Seq(Bytes), RequestLine(s) # 0, LimitsAllowed
  PROVE  \E m, q : Fits(s, m, q) /\ RequestLine(s) = m + q + 6
<1>. DEFINE end == After(s, 1, Token)
            path == After(s, end + 1, Bytes \ ({"SP"} \cup EndsLine))
<1>1. Len(s) \in Nat /\ MaxMethod \in Nat /\ MaxPath \in Nat
  BY DEF LimitsAllowed
<1>2. /\ end - 1 \in 1..(MaxMethod - 1) /\ At(s, end, "SP")
      /\ path - end - 1 \in 1..(MaxPath - 1) /\ At(s, path, "SP") /\ At(s, path + 1, "V")
      /\ ExpectCrlf(s, path + 2) /\ RequestLine(s) = path + 4
  BY Zenon DEF RequestLine
<1>3. Reaches(s, 1, end, Token)
  BY <1>1, AfterReaches
<1>4. end \in Nat /\ end + 1 \in 1..(Len(s) + 1)
  <2>. HIDE DEF end, path
  <2>. QED
    BY <1>1, <1>2, <1>3 DEF Reaches, At
<1>5. Reaches(s, end + 1, path, Bytes \ ({"SP"} \cup EndsLine))
  BY <1>4, AfterReaches
<1>. HIDE DEF end, path
<1>6. path \in Nat
  BY <1>1, <1>4, <1>5 DEF Reaches
<1>. DEFINE m == end - 1
            q == path - end - 1
<1>7. /\ m + 1 = end /\ m + 2 = end + 1 /\ m + q + 1 = path - 1 /\ m + q + 2 = path
      /\ m + q + 3 = path + 1 /\ m + q + 4 = path + 2 /\ m + q + 5 = path + 3
      /\ path + 2 + 1 = path + 3 /\ m + q + 6 = path + 4
  BY <1>4, <1>6
<1>8. m + q + 5 <= Len(s) /\ path <= Len(s) /\ end <= Len(s)
  BY <1>1, <1>2, <1>6, <1>7 DEF At, ExpectCrlf
<1>9. \A k \in 1..m : s[k] \in Token
  BY <1>3 DEF Reaches
<1>10. \A k \in (end + 1)..(path - 1) : s[k] \notin {"SP"} \cup EndsLine
  BY <1>5 DEF Reaches
<1>11. s[end] = "SP" /\ s[path] = "SP" /\ s[path + 1] = "V" /\ s[path + 2] = "CR" /\ s[path + 3] = "LF"
  BY <1>2, <1>7 DEF At, ExpectCrlf
<1>12. m \in 1..(MaxMethod - 1) /\ q \in 1..(MaxPath - 1)
  BY <1>2
<1>. HIDE DEF m, q
<1>13. Fits(s, m, q)
  BY <1>7, <1>8, <1>9, <1>10, <1>11, <1>12 DEF Fits
<1>. QED
  BY <1>2, <1>7, <1>13

\* A part that has one line end has the request line, if there is one.
LEMMA FitsInPart ==
  ASSUME NEW s \in Seq(Bytes), NEW t \in Seq(Bytes), NEW n \in 0..Len(s), n <= Len(t),
         \A k \in 1..n : s[k] = t[k],
         NEW m, NEW q, Fits(s, m, q), m + q + 5 <= n, LimitsAllowed
  PROVE  Fits(t, m, q)
<1>1. Len(s) \in Nat /\ Len(t) \in Nat /\ n \in Nat
  OBVIOUS
<1>2. m \in Nat /\ q \in Nat /\ MaxMethod \in Nat /\ MaxPath \in Nat
  BY DEF Fits, LimitsAllowed
<1>3. \A k \in 1..(m + q + 5) : s[k] = t[k]
  BY <1>1, <1>2
<1>4. /\ \A k \in 1..m : k \in 1..(m + q + 5)
      /\ \A k \in (m + 2)..(m + q + 1) : k \in 1..(m + q + 5)
      /\ {m + 1, m + q + 2, m + q + 3, m + q + 4, m + q + 5} \subseteq 1..(m + q + 5)
  BY <1>2
<1>5. m + q + 5 <= Len(t)
  BY <1>1, <1>2
<1>. QED
  BY <1>3, <1>4, <1>5 DEF Fits

-----------------------------------------------------------------------------
(* A header line.                                                          *)

\* A header from i on, its colon at n, its line end at e.
HeaderAt(s, i, n, e) ==
  /\ i \in Nat \ {0} /\ n \in Nat /\ e \in Nat /\ i < n /\ n < e /\ e < Len(s)
  /\ \A k \in i..(n - 1) : s[k] \in Token
  /\ s[n] = ":"
  /\ \A k \in n..(e - 1) : s[k] \notin EndsLine
  /\ s[e] = "CR" /\ s[e + 1] = "LF"

Pair(s, i, n, e) ==
  [name |-> SubSeq(s, i, n - 1), value |-> Trimmed(s, After(s, n + 1, Ows), e - 1)]

\* What a pass of the loop over the lines makes of h, a record of pos, at and headers.
Passes == [pos : Nat, at : {"line", "end", "error"}, headers : Seq([name : Seq(Bytes), value : Seq(Bytes)])]

\* What becomes of it: the line is the empty one, a header, or wrong.
Ended(h) == [h EXCEPT !.pos = @ + 2, !.at = "end"]
Kept(s, h, n, e) == [h EXCEPT !.pos = e + 2, !.headers = Stored(@, Pair(s, h.pos, n, e))]
Refused(h) == [h EXCEPT !.at = "error"]

\* The three ends of a name, a value's blanks and a line.
NameEnd(s, i) == After(s, i, Bytes \ ({":"} \cup EndsLine))
ValueAt(s, i) == After(s, NameEnd(s, i) + 1, Ows)
LineEnd(s, i) == After(s, ValueAt(s, i), Bytes \ EndsLine)

\* The definition of HeaderLine, with these.
LEMMA HeaderLineIs ==
  ASSUME NEW s, NEW h
  PROVE  HeaderLine(s, h) =
           CASE ExpectCrlf(s, h.pos) -> Ended(h)
             [] /\ ~ExpectCrlf(s, h.pos)
                /\ \/ NameEnd(s, h.pos) = h.pos \/ ~At(s, NameEnd(s, h.pos), ":")
                   \/ \E k \in h.pos..(NameEnd(s, h.pos) - 1) : s[k] \notin Token
                   \/ ~ExpectCrlf(s, LineEnd(s, h.pos)) -> Refused(h)
             [] OTHER -> Kept(s, h, NameEnd(s, h.pos), LineEnd(s, h.pos))
  BY DEF HeaderLine, NameEnd, ValueAt, LineEnd, Pair, Ended, Kept, Refused

\* The ends of a header.
LEMMA HeaderEnds ==
  ASSUME NEW s \in Seq(Bytes), NEW i, NEW n, NEW e, HeaderAt(s, i, n, e)
  PROVE  NameEnd(s, i) = n /\ ValueAt(s, i) \in (n + 1)..e /\ LineEnd(s, i) = e
<1>1. /\ Len(s) \in Nat /\ i \in Nat \ {0} /\ n \in Nat /\ e \in Nat
      /\ i < n /\ n < e /\ e < Len(s) /\ i \in 1..(Len(s) + 1) /\ n + 1 \in 1..(Len(s) + 1)
  BY DEF HeaderAt
<1>2. NameEnd(s, i) = n
  <2>. DEFINE cs == Bytes \ ({":"} \cup EndsLine)
  <2>1. Token \subseteq cs /\ s[n] \notin cs
    BY DEF Token, EndsLine, Bytes, HeaderAt
  <2>2. \A k \in i..(n - 1) : s[k] \in Token
    BY DEF HeaderAt
  <2>. HIDE DEF cs
  <2>3. Reaches(s, i, n, cs)
    BY <1>1, <2>1, <2>2 DEF Reaches
  <2>4. After(s, i, cs) = n
    BY <1>1, <2>3, OnlyReach
  <2>. QED
    BY <2>4 DEF NameEnd, cs
<1>3. Reaches(s, n + 1, ValueAt(s, i), Ows)
  BY <1>1, <1>2, AfterReaches DEF ValueAt
<1>4. ValueAt(s, i) \in (n + 1)..e
  <2>1. s[e] \notin Ows
    BY DEF HeaderAt, Ows
  <2>. DEFINE v == ValueAt(s, i)
  <2>. HIDE DEF v
  <2>2. v \in (n + 1)..(Len(s) + 1) /\ \A k \in (n + 1)..(v - 1) : s[k] \in Ows
    BY <1>3 DEF Reaches, v
  <2>3. v <= e
    <3>1. SUFFICES ASSUME e < v PROVE FALSE
      BY <1>1, <2>2
    <3>2. e \in (n + 1)..(v - 1)
      BY <1>1, <2>2, <3>1
    <3>. QED
      BY <2>1, <2>2, <3>2
  <2>. QED
    BY <1>1, <2>2, <2>3 DEF v
<1>5. LineEnd(s, i) = e
  <2>. DEFINE cs == Bytes \ EndsLine
              v == ValueAt(s, i)
  <2>1. \A k \in n..(e - 1) : s[k] \in cs
    BY <1>1, BytesOf DEF HeaderAt
  <2>2. s[e] \notin cs
    BY DEF HeaderAt, EndsLine
  <2>. HIDE DEF cs, v
  <2>3. v \in (n + 1)..e /\ v \in 1..(Len(s) + 1)
    BY <1>1, <1>4 DEF v
  <2>4. Reaches(s, v, e, cs)
    BY <1>1, <2>1, <2>2, <2>3 DEF Reaches
  <2>5. After(s, v, cs) = e
    BY <2>3, <2>4, OnlyReach
  <2>. QED
    BY <2>5 DEF LineEnd, cs, v
<1>. QED
  BY <1>2, <1>4, <1>5

\* parse_headers goes past a header,
LEMMA HeaderIsTaken ==
  ASSUME NEW s \in Seq(Bytes), NEW h, NEW n, NEW e, HeaderAt(s, h.pos, n, e)
  PROVE  HeaderLine(s, h) = Kept(s, h, n, e)
<1>1. NameEnd(s, h.pos) = n /\ LineEnd(s, h.pos) = e
  BY HeaderEnds
<1>2. n # h.pos /\ At(s, n, ":") /\ ExpectCrlf(s, e)
      /\ \A k \in h.pos..(n - 1) : s[k] \in Token
  BY DEF HeaderAt, At, ExpectCrlf
<1>3. ~ExpectCrlf(s, h.pos)
  <2>1. s[h.pos] \in Token
    BY DEF HeaderAt
  <2>. QED
    BY <2>1 DEF ExpectCrlf, At, Token
<1>. QED
  BY <1>1, <1>2, <1>3, HeaderLineIs, Zenon

\* and past nothing else.
LEMMA TakenIsHeader ==
  ASSUME NEW s \in Seq(Bytes), NEW i \in 1..(Len(s) + 1),
         NameEnd(s, i) # i, At(s, NameEnd(s, i), ":"),
         \A k \in i..(NameEnd(s, i) - 1) : s[k] \in Token,
         ExpectCrlf(s, LineEnd(s, i))
  PROVE  HeaderAt(s, i, NameEnd(s, i), LineEnd(s, i))
<1>. DEFINE n == NameEnd(s, i)
            v == ValueAt(s, i)
            e == LineEnd(s, i)
<1>1. Len(s) \in Nat /\ i \in Nat \ {0}
  OBVIOUS
<1>2. Reaches(s, i, n, Bytes \ ({":"} \cup EndsLine))
  BY AfterReaches DEF NameEnd
<1>3. n \in Nat /\ i < n /\ n <= Len(s) /\ s[n] = ":"
  <2>. HIDE DEF n
  <2>1. n # i /\ At(s, n, ":")
    BY DEF n
  <2>. QED
    BY <1>1, <1>2, <2>1 DEF Reaches, At
<1>4. Reaches(s, n + 1, v, Ows)
  BY <1>1, <1>3, AfterReaches DEF ValueAt
<1>5. v \in Nat /\ n < v /\ v <= Len(s) + 1
  <2>. HIDE DEF n, v
  <2>. QED
    BY <1>1, <1>3, <1>4 DEF Reaches
<1>6. Reaches(s, v, e, Bytes \ EndsLine)
  <2>1. v \in 1..(Len(s) + 1)
    <3>. HIDE DEF v
    <3>. QED
      BY <1>1, <1>3, <1>5
  <2>. QED
    BY <2>1, AfterReaches DEF LineEnd
<1>7. e \in Nat /\ v <= e /\ e < Len(s) /\ s[e] = "CR" /\ s[e + 1] = "LF"
  <2>. HIDE DEF v, e
  <2>1. ExpectCrlf(s, e)
    BY DEF e
  <2>. QED
    BY <1>1, <1>5, <1>6, <2>1 DEF Reaches, ExpectCrlf, At
<1>8. ASSUME NEW k \in n..(e - 1) PROVE s[k] \notin EndsLine
  <2>. HIDE DEF n, v, e
  <2>1. CASE k = n
    BY <1>3, <2>1 DEF EndsLine
  <2>2. CASE k \in (n + 1)..(v - 1)
    BY <1>4, <2>2 DEF Reaches, Ows, EndsLine
  <2>3. CASE k \in v..(e - 1)
    BY <1>6, <2>3 DEF Reaches
  <2>. QED
    BY <1>3, <1>5, <1>7, <2>1, <2>2, <2>3
<1>9. \A k \in i..(n - 1) : s[k] \in Token
  OBVIOUS
<1>10. n < e
  <2>. HIDE DEF n, v, e
  <2>. QED
    BY <1>3, <1>5, <1>7
<1>. QED
  BY <1>1, <1>3, <1>7, <1>8, <1>9, <1>10 DEF HeaderAt


\* The three things a pass can do.
LEMMA PassIsOneOf ==
  ASSUME NEW s \in Seq(Bytes), NEW h, h.pos \in 1..(Len(s) + 1)
  PROVE  \/ ExpectCrlf(s, h.pos) /\ HeaderLine(s, h) = Ended(h)
         \/ \E n, e : /\ HeaderAt(s, h.pos, n, e)
                      /\ HeaderLine(s, h) = Kept(s, h, n, e)
         \/ /\ ~ExpectCrlf(s, h.pos) /\ ~\E n, e : HeaderAt(s, h.pos, n, e)
            /\ HeaderLine(s, h) = Refused(h)
<1>. DEFINE n == NameEnd(s, h.pos)
            e == LineEnd(s, h.pos)
            right == /\ n # h.pos /\ At(s, n, ":")
                     /\ \A k \in h.pos..(n - 1) : s[k] \in Token
                     /\ ExpectCrlf(s, e)
<1>1. CASE ExpectCrlf(s, h.pos)
  <2>1. HeaderLine(s, h) = Ended(h)
    BY <1>1, HeaderLineIs, Zenon
  <2>. QED
    BY <1>1, <2>1
<1>2. CASE ~ExpectCrlf(s, h.pos) /\ right
  <2>1. HeaderAt(s, h.pos, n, e)
    BY <1>2, TakenIsHeader
  <2>2. HeaderLine(s, h) = Kept(s, h, n, e)
    <3>. HIDE DEF n, e
    <3>. QED
      BY <2>1, HeaderIsTaken, Zenon
  <2>. HIDE DEF n, e
  <2>. QED
    BY <2>1, <2>2
<1>3. CASE ~ExpectCrlf(s, h.pos) /\ ~right
  <2>1. ASSUME NEW m, NEW f, HeaderAt(s, h.pos, m, f) PROVE FALSE
    <3>1. n = m /\ e = f
      BY <2>1, HeaderEnds
    <3>2. right
      BY <2>1, <3>1 DEF HeaderAt, At, ExpectCrlf
    <3>. QED
      BY <1>3, <3>2
  <2>2. HeaderLine(s, h) = Refused(h)
    BY <1>3, HeaderLineIs, Zenon
  <2>. QED
    BY <1>3, <2>1, <2>2
<1>. QED
  BY <1>1, <1>2, <1>3

\* A name and a value are parts of the buffer.
LEMMA PairType ==
  ASSUME NEW s \in Seq(Bytes), NEW i, NEW n, NEW e, HeaderAt(s, i, n, e)
  PROVE  Pair(s, i, n, e) \in [name : Seq(Bytes), value : Seq(Bytes)]
<1>1. /\ Len(s) \in Nat /\ i \in Nat \ {0} /\ n \in Nat /\ e \in Nat
      /\ i < n /\ n < e /\ e < Len(s)
  BY DEF HeaderAt
<1>2. SubSeq(s, i, n - 1) \in Seq(Bytes)
  BY <1>1, SubSeqProperties
<1>. DEFINE v == After(s, n + 1, Ows)
            ends == {k \in v..(e - 1) : s[k] \notin Ows}
<1>3. v \in (n + 1)..e
  BY HeaderEnds DEF ValueAt
<1>4. Trimmed(s, v, e - 1) \in Seq(Bytes)
  <2>. HIDE DEF v
  <2>1. CASE ends = {}
    BY <2>1 DEF Trimmed
  <2>2. CASE ends # {}
    <3>1. ends \in SUBSET (0..e)
      BY <1>1, <1>3
    <3>2. Max(ends) \in ends
      <4>. HIDE DEF ends
      <4>. QED
        BY <1>1, <2>2, <3>1, MostIs
    <3>. DEFINE m == Max(ends)
    <3>3. m \in v..(e - 1)
      BY <3>2
    <3>. HIDE DEF m
    <3>4. SubSeq(s, v, m) \in Seq(Bytes)
      BY <1>1, <1>3, <3>3, SubSeqProperties
    <3>. QED
      BY <2>2, <3>4 DEF Trimmed, m
  <2>. QED
    BY <2>1, <2>2
<1>. QED
  BY <1>2, <1>4 DEF Pair

\* A pass stays in the buffer, and in the array of headers.
InBuffer(s, h) == h \in Passes /\ h.pos \in 1..(Len(s) + 1) /\ Len(h.headers) <= MaxHeaders

LEMMA StoredType ==
  ASSUME NEW S, NEW l \in Seq(S), NEW x \in S, Len(l) <= MaxHeaders, MaxHeaders \in Nat
  PROVE  Stored(l, x) \in Seq(S) /\ Len(Stored(l, x)) <= MaxHeaders
<1>1. Append(l, x) \in Seq(S) /\ Len(Append(l, x)) = Len(l) + 1 /\ Len(l) \in Nat
  BY AppendProperties
<1>. QED
  BY <1>1 DEF Stored

LEMMA PassType ==
  ASSUME NEW s \in Seq(Bytes), NEW h, InBuffer(s, h), MaxHeaders \in Nat
  PROVE  InBuffer(s, HeaderLine(s, h))
<1>1. h \in Passes /\ h.pos \in 1..(Len(s) + 1) /\ Len(h.headers) <= MaxHeaders /\ Len(s) \in Nat
  BY DEF InBuffer
<1>2. CASE ExpectCrlf(s, h.pos) /\ HeaderLine(s, h) = Ended(h)
  <2>1. h.pos + 2 \in 1..(Len(s) + 1)
    BY <1>1, <1>2 DEF ExpectCrlf, At
  <2>2. HeaderLine(s, h) = [pos |-> h.pos + 2, at |-> "end", headers |-> h.headers]
    BY <1>1, <1>2 DEF Passes, Ended
  <2>. QED
    BY <1>1, <2>1, <2>2 DEF InBuffer, Passes
<1>3. ASSUME NEW n, NEW e, HeaderAt(s, h.pos, n, e),
             HeaderLine(s, h) = Kept(s, h, n, e)
      PROVE  InBuffer(s, HeaderLine(s, h))
  <2>1. e + 2 \in 1..(Len(s) + 1)
    BY <1>1, <1>3 DEF HeaderAt
  <2>. DEFINE l == Stored(h.headers, Pair(s, h.pos, n, e))
  <2>2. l \in Seq([name : Seq(Bytes), value : Seq(Bytes)]) /\ Len(l) <= MaxHeaders
    BY <1>1, <1>3, PairType, StoredType DEF Passes
  <2>3. HeaderLine(s, h) = [pos |-> e + 2, at |-> h.at, headers |-> l]
    BY <1>1, <1>3 DEF Passes, Kept
  <2>. HIDE DEF l
  <2>. QED
    BY <1>1, <2>1, <2>2, <2>3 DEF InBuffer, Passes
<1>4. CASE HeaderLine(s, h) = Refused(h)
  <2>1. HeaderLine(s, h) = [pos |-> h.pos, at |-> "error", headers |-> h.headers]
    BY <1>1, <1>4 DEF Passes, Refused
  <2>. QED
    BY <1>1, <2>1 DEF InBuffer, Passes
<1>. QED
  BY <1>1, <1>2, <1>3, <1>4, PassIsOneOf

-----------------------------------------------------------------------------
(* The loop over the lines.                                                *)

\* A pass, when the loop goes on.
Line(s, h) == IF h.at = "line" THEN HeaderLine(s, h) ELSE h
Before(p) == [pos |-> p, at |-> "line", headers |-> <<>>]

\* w is what the first n passes make, one after the other.
Walks(s, p, w, n) == w = [k \in 0..n |-> IF k = 0 THEN Before(p) ELSE Line(s, w[k - 1])]

\* There are such for any number of passes: from those of n - 1 come those of n.
LEMMA WalkIs ==
  ASSUME NEW s, NEW p, MaxLines \in Nat
  PROVE  \E w : Walks(s, p, w, MaxLines) /\ ParseHeaders(s, p) = w[MaxLines]
<1>. DEFINE S == {n \in 0..MaxLines : \E w : Walks(s, p, w, n)}
<1>1. 0 \in S
  <2>1. Walks(s, p, [k \in 0..0 |-> Before(p)], 0)
    BY DEF Walks
  <2>. QED
    BY <2>1
<1>2. ASSUME NEW n \in 0..(MaxLines - 1), n \in S PROVE n + 1 \in S
  <2>1. PICK v : Walks(s, p, v, n)
    BY <1>2
  <2>. DEFINE w == [k \in 0..(n + 1) |-> IF k = n + 1 THEN Line(s, v[n]) ELSE v[k]]
  <2>2. v = [k \in 0..n |-> IF k = 0 THEN Before(p) ELSE Line(s, v[k - 1])]
    BY <2>1 DEF Walks
  <2>3. \A k \in 0..(n + 1) : w[k] = IF k = 0 THEN Before(p) ELSE Line(s, w[k - 1])
    <3>1. TAKE k \in 0..(n + 1)
    <3>2. CASE k = 0
      <4>1. w[k] = v[k] /\ k \in 0..n
        BY <3>2
      <4>. QED
        BY <2>2, <3>2, <4>1
    <3>3. CASE k \in 1..n
      <4>1. w[k] = v[k] /\ w[k - 1] = v[k - 1] /\ k \in 0..n /\ k # 0
        BY <3>3
      <4>. QED
        BY <2>2, <4>1
    <3>4. CASE k = n + 1
      <4>1. w[k] = Line(s, v[n]) /\ w[k - 1] = v[n] /\ k # 0
        BY <3>4
      <4>. QED
        BY <4>1
    <3>. QED
      BY <3>2, <3>3, <3>4
  <2>4. Walks(s, p, w, n + 1)
    BY <2>3 DEF Walks
  <2>5. n + 1 \in 0..MaxLines
    OBVIOUS
  <2>. QED
    BY <2>4, <2>5
<1>3. MaxLines \in S
  <2>. HIDE DEF S
  <2>1. \A k \in 0..MaxLines : k \in S
    BY <1>1, <1>2, UpTo
  <2>. QED
    BY <2>1
<1>. DEFINE Body(w) == [k \in 0..MaxLines |->
                          IF k = 0 THEN [pos |-> p, at |-> "line", headers |-> <<>>]
                          ELSE IF w[k - 1].at = "line" THEN HeaderLine(s, w[k - 1]) ELSE w[k - 1]]
            walk == CHOOSE w : w = Body(w)
<1>4. \A w : Walks(s, p, w, MaxLines) <=> w = Body(w)
  BY DEF Walks, Line, Before
<1>5. walk = Body(walk)
  <2>. HIDE DEF Body
  <2>. QED
    BY <1>3, <1>4
<1>6. ParseHeaders(s, p) = walk[MaxLines]
  BY DEF ParseHeaders
<1>. QED
  BY <1>4, <1>5, <1>6


\* What the passes make stays in the buffer.
LEMMA WalkInBuffer ==
  ASSUME NEW s \in Seq(Bytes), NEW p \in 1..(Len(s) + 1), NEW w, Walks(s, p, w, MaxLines), LimitsAllowed
  PROVE  \A k \in 0..MaxLines : InBuffer(s, w[k])
<1>. DEFINE S == {k \in 0..MaxLines : InBuffer(s, w[k])}
<1>1. MaxLines \in Nat /\ MaxHeaders \in Nat
  BY DEF LimitsAllowed
<1>2. \A k \in 0..MaxLines : w[k] = IF k = 0 THEN Before(p) ELSE Line(s, w[k - 1])
  BY DEF Walks
<1>3. 0 \in S
  <2>1. <<>> \in Seq([name : Seq(Bytes), value : Seq(Bytes)]) /\ Len(<<>>) = 0
    OBVIOUS
  <2>2. InBuffer(s, Before(p))
    BY <1>1, <2>1 DEF InBuffer, Before, Passes
  <2>. QED
    BY <1>1, <1>2, <2>2
<1>4. ASSUME NEW k \in 0..(MaxLines - 1), k \in S PROVE k + 1 \in S
  <2>1. k + 1 \in 0..MaxLines /\ k + 1 # 0 /\ k + 1 - 1 = k
    BY <1>1
  <2>2. w[k + 1] = Line(s, w[k])
    BY <1>2, <2>1
  <2>3. InBuffer(s, w[k])
    BY <1>4
  <2>4. InBuffer(s, Line(s, w[k]))
    BY <1>1, <2>3, PassType DEF Line
  <2>. QED
    BY <2>1, <2>2, <2>4
<1>. HIDE DEF S
<1>5. \A k \in 0..MaxLines : k \in S
  BY <1>1, <1>3, <1>4, UpTo
<1>. QED
  BY <1>5 DEF S

-----------------------------------------------------------------------------
(* More bytes behind a header part make no difference.                     *)

\* s and t have the first n bytes in common.
Agree(s, t, n) == n \in Nat /\ n <= Len(s) /\ n <= Len(t) /\ \A k \in 1..n : s[k] = t[k]

LEMMA SameParts ==
  ASSUME NEW s \in Seq(Bytes), NEW t \in Seq(Bytes), NEW n, Agree(s, t, n)
  PROVE  \A c \in 1..n, d \in 0..n : SubSeq(s, c, d) = SubSeq(t, c, d)
<1>. SUFFICES ASSUME NEW c \in 1..n, NEW d \in 0..n PROVE SubSeq(s, c, d) = SubSeq(t, c, d)
  OBVIOUS
<1>1. n \in Nat /\ Len(s) \in Nat /\ Len(t) \in Nat /\ n <= Len(s) /\ n <= Len(t)
  BY DEF Agree
<1>2. \A k \in c..d : k \in 1..n /\ s[k] \in Bytes /\ t[k] \in Bytes /\ s[k] = t[k]
  <2>1. \A k \in c..d : k \in 1..n /\ k \in 1..Len(s) /\ k \in 1..Len(t)
    BY <1>1
  <2>. QED
    BY <2>1, BytesOf DEF Agree
<1>. DEFINE x == SubSeq(s, c, d)
            y == SubSeq(t, c, d)
<1>3. /\ x \in Seq(Bytes) /\ Len(x) = (IF c <= d THEN d - c + 1 ELSE 0)
      /\ \A k \in 1..(d - c + 1) : x[k] = s[c + k - 1]
  BY <1>1, <1>2, SubSeqProperties
<1>4. /\ y \in Seq(Bytes) /\ Len(y) = (IF c <= d THEN d - c + 1 ELSE 0)
      /\ \A k \in 1..(d - c + 1) : y[k] = t[c + k - 1]
  BY <1>1, <1>2, SubSeqProperties
<1>. HIDE DEF x, y
<1>5. \A k \in 1..Len(x) : x[k] = y[k]
  <2>1. TAKE k \in 1..Len(x)
  <2>2. k \in 1..(d - c + 1) /\ c + k - 1 \in c..d
    BY <1>1, <1>3
  <2>. QED
    BY <1>2, <1>3, <1>4, <2>2
<1>. QED
  BY <1>3, <1>4, <1>5, SeqEqual DEF x, y

\* A header stays one, with the same name and value.
LEMMA SameHeader ==
  ASSUME NEW s \in Seq(Bytes), NEW t \in Seq(Bytes), NEW b, Agree(s, t, b),
         NEW i, NEW n, NEW e, HeaderAt(s, i, n, e), e < b
  PROVE  HeaderAt(t, i, n, e) /\ Pair(t, i, n, e) = Pair(s, i, n, e)
<1>1. /\ Len(s) \in Nat /\ Len(t) \in Nat /\ i \in Nat \ {0} /\ n \in Nat /\ e \in Nat
      /\ i < n /\ n < e /\ e < Len(s) /\ b \in Nat /\ b <= Len(s) /\ b <= Len(t)
  BY DEF HeaderAt, Agree
<1>2. \A k \in 1..(e + 1) : s[k] = t[k]
  BY <1>1 DEF Agree
<1>3. HeaderAt(t, i, n, e)
  <2>1. \A k \in i..(n - 1) : k \in 1..(e + 1) /\ s[k] \in Token
    BY <1>1 DEF HeaderAt
  <2>2. \A k \in n..(e - 1) : k \in 1..(e + 1) /\ s[k] \notin EndsLine
    BY <1>1 DEF HeaderAt
  <2>3. n \in 1..(e + 1) /\ e \in 1..(e + 1) /\ e + 1 \in 1..(e + 1)
    BY <1>1
  <2>4. s[n] = ":" /\ s[e] = "CR" /\ s[e + 1] = "LF"
    BY DEF HeaderAt
  <2>5. e < Len(t)
    BY <1>1
  <2>6. \A k \in i..(n - 1) : t[k] \in Token
    BY <1>2, <2>1
  <2>7. \A k \in n..(e - 1) : t[k] \notin EndsLine
    BY <1>2, <2>2
  <2>8. t[n] = ":" /\ t[e] = "CR" /\ t[e + 1] = "LF"
    BY <1>2, <2>3, <2>4
  <2>. QED
    BY <1>1, <2>5, <2>6, <2>7, <2>8 DEF HeaderAt
<1>4. \A c \in 1..(e + 1), d \in 0..e : SubSeq(s, c, d) = SubSeq(t, c, d)
  <2>1. Agree(s, t, e + 1)
    BY <1>1, <1>2 DEF Agree
  <2>. QED
    BY <1>1, <2>1, SameParts
<1>. DEFINE v == After(s, n + 1, Ows)
            u == After(t, n + 1, Ows)
<1>5. v \in (n + 1)..e /\ u = v
  <2>1. v \in (n + 1)..e
    BY HeaderEnds DEF ValueAt
  <2>2. n + 1 \in 1..(Len(s) + 1) /\ n + 1 \in 1..(Len(t) + 1)
    BY <1>1
  <2>3. Reaches(s, n + 1, v, Ows)
    BY <2>2, AfterReaches
  <2>. HIDE DEF v
  <2>4. \A k \in (n + 1)..v : k \in 1..(e + 1)
    BY <1>1, <2>1
  <2>5. v \in 1..(e + 1) /\ v # Len(s) + 1 /\ v \in (n + 1)..(Len(t) + 1)
    BY <1>1, <2>1
  <2>6. \A k \in (n + 1)..(v - 1) : t[k] \in Ows
    <3>1. \A k \in (n + 1)..(v - 1) : k \in (n + 1)..v
      BY <1>1, <2>1
    <3>. QED
      BY <1>2, <2>3, <2>4, <3>1 DEF Reaches
  <2>7. t[v] \notin Ows
    BY <1>2, <2>3, <2>5 DEF Reaches
  <2>8. Reaches(t, n + 1, v, Ows)
    BY <2>5, <2>6, <2>7 DEF Reaches
  <2>. QED
    BY <2>1, <2>2, <2>8, OnlyReach
<1>6. Trimmed(s, v, e - 1) = Trimmed(t, v, e - 1)
  <2>. HIDE DEF v, u
  <2>. DEFINE ends == {k \in v..(e - 1) : s[k] \notin Ows}
  <2>1. \A k \in v..(e - 1) : k \in 1..(e + 1)
    BY <1>1, <1>5
  <2>2. ends = {k \in v..(e - 1) : t[k] \notin Ows}
    BY <1>2, <2>1
  <2>3. CASE ends = {}
    BY <2>2, <2>3, Zenon DEF Trimmed
  <2>4. CASE ends # {}
    <3>1. ends \in SUBSET (0..e)
      BY <1>1, <1>5
    <3>2. Max(ends) \in ends
      <4>. HIDE DEF ends
      <4>. QED
        BY <1>1, <2>4, <3>1, MostIs
    <3>. DEFINE m == Max(ends)
    <3>3. m \in v..(e - 1)
      BY <3>2
    <3>4. Trimmed(s, v, e - 1) = SubSeq(s, v, m) /\ Trimmed(t, v, e - 1) = SubSeq(t, v, m)
      BY <2>2, <2>4, Zenon DEF Trimmed
    <3>. HIDE DEF m
    <3>. QED
      <4>1. v \in 1..(e + 1) /\ m \in 0..e
        BY <1>1, <1>5, <3>3
      <4>. QED
        BY <1>4, <3>4, <4>1
  <2>. QED
    BY <2>3, <2>4
<1>7. SubSeq(s, i, n - 1) = SubSeq(t, i, n - 1)
  <2>1. i \in 1..(e + 1) /\ n - 1 \in 0..e
    BY <1>1
  <2>. QED
    BY <1>4, <2>1
<1>. QED
  BY <1>3, <1>5, <1>6, <1>7 DEF Pair

\* The first line end at or behind i is where a header from i ends.
LEMMA EndsThere ==
  ASSUME NEW s \in Seq(Bytes), NEW i, NEW n, NEW e, HeaderAt(s, i, n, e),
         NEW c \in Nat, i <= c, s[c] \in EndsLine
  PROVE  e <= c
<1>1. \A k \in i..(n - 1) : s[k] \notin EndsLine
  BY DEF HeaderAt, Token, EndsLine
<1>2. \A k \in n..(e - 1) : s[k] \notin EndsLine
  BY DEF HeaderAt
<1>3. n \in Nat /\ e \in Nat /\ i \in Nat /\ i < n
  BY DEF HeaderAt
<1>4. SUFFICES ASSUME c < e PROVE FALSE
  BY <1>3
<1>5. c \in i..(n - 1) \/ c \in n..(e - 1)
  BY <1>3, <1>4
<1>. QED
  BY <1>1, <1>2, <1>5

\* A pass over a line that ends in the common part is the same.
LEMMA SamePass ==
  ASSUME NEW s \in Seq(Bytes), NEW t \in Seq(Bytes), NEW b, Agree(s, t, b),
         NEW h, NEW c, h.pos \in Nat \ {0}, c \in Nat, h.pos <= c, c < b, s[c] \in EndsLine
  PROVE  HeaderLine(t, h) = HeaderLine(s, h)
<1>. DEFINE i == h.pos
<1>1. /\ Len(s) \in Nat /\ Len(t) \in Nat /\ b \in Nat /\ b <= Len(s) /\ b <= Len(t)
      /\ \A k \in 1..b : s[k] = t[k]
  BY DEF Agree
<1>2. i \in 1..(Len(s) + 1) /\ i \in 1..(Len(t) + 1)
  BY <1>1
<1>3. ExpectCrlf(s, i) <=> ExpectCrlf(t, i)
  <2>1. i \in 1..b /\ i + 1 \in 1..b
    BY <1>1
  <2>. QED
    BY <1>1, <2>1 DEF ExpectCrlf, At
<1>4. ASSUME NEW x \in Seq(Bytes), NEW n, NEW e, HeaderAt(x, i, n, e), x[c] \in EndsLine
      PROVE  e <= c
  BY <1>4, EndsThere
<1>5. t[c] \in EndsLine /\ Agree(t, s, b)
  BY <1>1 DEF Agree
<1>6. CASE ExpectCrlf(s, i)
  <2>1. HeaderLine(s, h) = Ended(h)
    BY <1>6, HeaderLineIs, Zenon
  <2>2. HeaderLine(t, h) = Ended(h)
    BY <1>3, <1>6, HeaderLineIs, Zenon
  <2>. QED
    BY <2>1, <2>2
<1>7. ASSUME NEW n, NEW e, HeaderAt(s, i, n, e) PROVE HeaderLine(t, h) = HeaderLine(s, h)
  <2>1. e <= c
    BY <1>4, <1>7
  <2>2. e < b
    BY <1>1, <1>7, <2>1 DEF HeaderAt
  <2>3. HeaderAt(t, i, n, e) /\ Pair(t, i, n, e) = Pair(s, i, n, e)
    BY <1>7, <2>2, SameHeader
  <2>4. HeaderLine(s, h) = Kept(s, h, n, e)
    BY <1>7, HeaderIsTaken, Zenon
  <2>5. HeaderLine(t, h) = Kept(t, h, n, e)
    BY <2>3, HeaderIsTaken, Zenon
  <2>. QED
    BY <2>3, <2>4, <2>5 DEF Kept
<1>8. CASE ~ExpectCrlf(s, i) /\ ~\E n, e : HeaderAt(s, i, n, e)
  <2>1. ASSUME NEW n, NEW e, HeaderAt(t, i, n, e) PROVE FALSE
    <3>1. e <= c
      BY <1>4, <1>5, <2>1
    <3>2. e < b
      BY <1>1, <2>1, <3>1 DEF HeaderAt
    <3>3. HeaderAt(s, i, n, e)
      BY <1>5, <2>1, <3>2, SameHeader
    <3>. QED
      BY <1>8, <3>3
  <2>2. HeaderLine(s, h) = Refused(h)
    BY <1>2, <1>8, PassIsOneOf
  <2>3. HeaderLine(t, h) = Refused(h)
    BY <1>2, <1>3, <1>8, <2>1, PassIsOneOf
  <2>. QED
    BY <2>2, <2>3
<1>. QED
  BY <1>6, <1>7, <1>8


\* There is one way to walk.
LEMMA OneWalk ==
  ASSUME NEW s, NEW p, NEW v, NEW w, MaxLines \in Nat,
         Walks(s, p, v, MaxLines), Walks(s, p, w, MaxLines)
  PROVE  v = w
<1>. DEFINE S == {k \in 0..MaxLines : v[k] = w[k]}
<1>1. /\ v = [k \in 0..MaxLines |-> IF k = 0 THEN Before(p) ELSE Line(s, v[k - 1])]
      /\ w = [k \in 0..MaxLines |-> IF k = 0 THEN Before(p) ELSE Line(s, w[k - 1])]
  BY DEF Walks
<1>2. 0 \in S
  BY <1>1
<1>3. ASSUME NEW k \in 0..(MaxLines - 1), k \in S PROVE k + 1 \in S
  <2>. HIDE DEF S
  <2>1. k + 1 \in 0..MaxLines /\ k + 1 # 0 /\ k + 1 - 1 = k
    OBVIOUS
  <2>2. \A j \in 0..MaxLines : /\ v[j] = IF j = 0 THEN Before(p) ELSE Line(s, v[j - 1])
                              /\ w[j] = IF j = 0 THEN Before(p) ELSE Line(s, w[j - 1])
    BY <1>1
  <2>3. v[k + 1] = Line(s, v[k]) /\ w[k + 1] = Line(s, w[k])
    BY <2>1, <2>2
  <2>. QED
    BY <1>3, <2>1, <2>3 DEF S
<1>. HIDE DEF S
<1>4. \A k \in 0..MaxLines : k \in S
  BY <1>2, <1>3, UpTo
<1>. QED
  BY <1>1, <1>4 DEF S

\* Up to a blank line the walk is the same, and it does not get past it.
LEMMA SameWalk ==
  ASSUME NEW s \in Seq(Bytes), NEW t \in Seq(Bytes), NEW b, Agree(s, t, b), LimitsAllowed,
         NEW c \in Nat, c + 3 <= b, ExpectCrlf(s, c), ExpectCrlf(s, c + 2),
         NEW p \in 1..c
  PROVE  ParseHeaders(t, p) = ParseHeaders(s, p)
<1>1. MaxLines \in Nat /\ Len(s) \in Nat /\ b \in Nat /\ b <= Len(s) /\ p \in 1..(Len(s) + 1)
  BY DEF LimitsAllowed, Agree
<1>2. s[c] = "CR" /\ s[c + 2] = "CR"
  BY DEF ExpectCrlf, At
<1>3. PICK w : Walks(s, p, w, MaxLines) /\ ParseHeaders(s, p) = w[MaxLines]
  BY <1>1, WalkIs
<1>4. PICK v : Walks(t, p, v, MaxLines) /\ ParseHeaders(t, p) = v[MaxLines]
  BY <1>1, WalkIs
<1>5. \A k \in 0..MaxLines : w[k] = IF k = 0 THEN Before(p) ELSE Line(s, w[k - 1])
  BY <1>3 DEF Walks
<1>6. \A k \in 0..MaxLines : InBuffer(s, w[k])
  BY <1>1, <1>3, WalkInBuffer
<1>. DEFINE S == {k \in 0..MaxLines : w[k].at = "line" => w[k].pos <= c \/ w[k].pos = c + 2}
<1>7. 0 \in S
  BY <1>1, <1>5 DEF Before
<1>8. ASSUME NEW k \in 0..(MaxLines - 1), k \in S PROVE k + 1 \in S
  <2>1. k + 1 \in 0..MaxLines /\ k + 1 # 0 /\ k + 1 - 1 = k /\ k \in 0..MaxLines
    BY <1>1
  <2>2. w[k + 1] = Line(s, w[k])
    BY <1>5, <2>1
  <2>3. SUFFICES ASSUME w[k + 1].at = "line" PROVE w[k + 1].pos <= c \/ w[k + 1].pos = c + 2
    BY <2>1
  <2>4. w[k] \in Passes /\ w[k].pos \in 1..(Len(s) + 1)
    BY <1>6, <2>1 DEF InBuffer
  <2>5. w[k].at = "line" /\ w[k + 1] = HeaderLine(s, w[k])
    BY <2>2, <2>3 DEF Line
  <2>6. PICK n, e : HeaderAt(s, w[k].pos, n, e) /\ HeaderLine(s, w[k]) = Kept(s, w[k], n, e)
    <3>1. HeaderLine(s, w[k]) # Ended(w[k]) /\ HeaderLine(s, w[k]) # Refused(w[k])
      <4>1. Ended(w[k]).at = "end" /\ Refused(w[k]).at = "error"
        BY <2>4 DEF Ended, Refused, Passes
      <4>. QED
        BY <2>3, <2>5, <4>1
    <3>. DEFINE h == w[k]
    <3>. HIDE DEF h
    <3>2. h.pos \in 1..(Len(s) + 1)
      BY <2>4 DEF h
    <3>. QED
      BY <3>1, <3>2, PassIsOneOf, Zenon DEF h
  <2>7. w[k + 1].pos = e + 2
    BY <2>4, <2>5, <2>6 DEF Kept, Passes
  <2>8. w[k].pos <= c
    <3>1. s[w[k].pos] \in Token
      <4>. DEFINE i == w[k].pos
      <4>1. HeaderAt(s, i, n, e)
        BY <2>6
      <4>. HIDE DEF i
      <4>2. s[i] \in Token
        BY <4>1 DEF HeaderAt
      <4>. QED
        BY <4>2 DEF i
    <3>2. w[k].pos # c + 2
      BY <1>2, <3>1 DEF Token
    <3>. QED
      BY <1>8, <2>5, <3>2
  <2>9. e <= c /\ e \in Nat /\ s[e + 1] = "LF"
    <3>1. s[c] \in EndsLine
      BY <1>2 DEF EndsLine
    <3>. QED
      BY <2>6, <2>8, <3>1, EndsThere DEF HeaderAt
  <2>10. e + 1 # c
    BY <1>2, <2>9
  <2>. QED
    BY <2>7, <2>9, <2>10
<1>9. \A k \in 0..MaxLines : k \in S
  <2>. HIDE DEF S
  <2>. QED
    BY <1>1, <1>7, <1>8, UpTo
<1>10. ASSUME NEW k \in 0..MaxLines PROVE Line(t, w[k]) = Line(s, w[k])
  <2>1. SUFFICES ASSUME w[k].at = "line" PROVE HeaderLine(t, w[k]) = HeaderLine(s, w[k])
    BY DEF Line
  <2>2. w[k].pos \in Nat \ {0}
    BY <1>1, <1>6 DEF InBuffer
  <2>3. w[k].pos <= c \/ w[k].pos = c + 2
    BY <1>9, <2>1
  <2>4. PICK d \in {c, c + 2} : w[k].pos <= d
    BY <2>2, <2>3
  <2>5. d \in Nat /\ d < b /\ s[d] \in EndsLine
    BY <1>1, <1>2 DEF EndsLine
  <2>. QED
    BY <2>2, <2>4, <2>5, SamePass
<1>11. Walks(t, p, w, MaxLines)
  <2>1. w = [k \in 0..MaxLines |-> IF k = 0 THEN Before(p) ELSE Line(s, w[k - 1])]
    BY <1>3 DEF Walks
  <2>2. \A k \in 0..MaxLines : k # 0 => Line(s, w[k - 1]) = Line(t, w[k - 1])
    <3>1. \A k \in 0..MaxLines : k # 0 => k - 1 \in 0..MaxLines
      BY <1>1
    <3>. QED
      BY <1>10, <3>1
  <2>3. w = [k \in 0..MaxLines |-> IF k = 0 THEN Before(p) ELSE Line(t, w[k - 1])]
    BY <2>1, <2>2
  <2>. QED
    BY <2>3 DEF Walks
<1>12. v = w
  BY <1>1, <1>4, <1>11, OneWalk
<1>. QED
  BY <1>3, <1>4, <1>12

-----------------------------------------------------------------------------
(* http_parse_request.                                                     *)

LEMMA LineInBuffer ==
  ASSUME NEW s \in Seq(Bytes), RequestLine(s) # 0, LimitsAllowed
  PROVE  RequestLine(s) \in 7..(Len(s) + 1) /\ s # <<>>
<1>1. PICK m, q : Fits(s, m, q) /\ RequestLine(s) = m + q + 6
  BY TakenFits
<1>2. m \in Nat /\ q \in Nat /\ MaxMethod \in Nat /\ MaxPath \in Nat /\ Len(s) \in Nat
  BY <1>1 DEF Fits, LimitsAllowed
<1>3. m > 0 /\ q > 0 /\ m + q + 5 <= Len(s)
  BY <1>1, <1>2 DEF Fits
<1>4. Len(s) # 0
  BY <1>2, <1>3
<1>. QED
  BY <1>1, <1>2, <1>3, <1>4

\* Its four answers.
Passed(s) == ParseHeaders(s, RequestLine(s))
Accepts(s) == [result |-> "ok", body |-> Passed(s).pos, headers |-> Passed(s).headers,
               length |-> ContentLength(Passed(s).headers)]

LEMMA ParseIs ==
  ASSUME NEW s \in Seq(Bytes), s # <<>>, LimitsAllowed
  PROVE  /\ RequestLine(s) = 0 => Parse(s) = Judged(s)
         /\ RequestLine(s) # 0 /\ ~BlankLineAhead(s, RequestLine(s)) => Parse(s) = NeedMore
         /\ RequestLine(s) # 0 /\ BlankLineAhead(s, RequestLine(s)) =>
              Parse(s) = IF Passed(s).at = "end" THEN Accepts(s) ELSE Error
<1>1. ASSUME RequestLine(s) = 0 PROVE Parse(s) = Judged(s)
  BY <1>1, Zenon DEF Parse
<1>2. ASSUME RequestLine(s) # 0, ~BlankLineAhead(s, RequestLine(s)) PROVE Parse(s) = NeedMore
  BY <1>2, Zenon DEF Parse
<1>3. ASSUME RequestLine(s) # 0, BlankLineAhead(s, RequestLine(s)), Passed(s).at = "end"
      PROVE  Parse(s) = Accepts(s)
  BY <1>3, Zenon DEF Parse, Accepts, Passed
<1>4. ASSUME RequestLine(s) # 0, BlankLineAhead(s, RequestLine(s)), Passed(s).at # "end"
      PROVE  Parse(s) = Error
  BY <1>4, Zenon DEF Parse, Passed
<1>. QED
  BY <1>1, <1>2, <1>3, <1>4

\* A verdict on a part is the verdict on all of it.
LEMMA MoreIsSame ==
  ASSUME NEW s \in Seq(Bytes), NEW t \in Seq(Bytes), s # <<>>, Agree(s, t, Len(s)),
         Parse(s).result # "need_more", LimitsAllowed
  PROVE  Parse(t) = Parse(s)
<1>1. Len(s) \in Nat /\ Len(t) \in Nat /\ Len(s) > 0 /\ Len(s) <= Len(t) /\ t # <<>>
      /\ \A k \in 1..Len(s) : s[k] = t[k]
  BY DEF Agree
<1>2. Agree(t, s, Len(s))
  BY <1>1 DEF Agree
<1>3. CASE RequestLine(s) = 0
  <2>1. "LF" \in Range(s) /\ Parse(s) = Error
    BY <1>3, ParseIs DEF Judged, NeedMore, Verdict
  <2>2. PICK j \in 1..Len(s) : s[j] = "LF"
    BY <2>1 DEF Range
  <2>3. "LF" \in Range(t)
    <3>1. j \in DOMAIN t /\ t[j] = "LF"
      BY <1>1, <2>2
    <3>. QED
      BY <3>1 DEF Range
  <2>4. ASSUME RequestLine(t) # 0 PROVE FALSE
    <3>1. PICK m, q : Fits(t, m, q)
      BY <2>4, TakenFits
    <3>2. m \in Nat /\ q \in Nat /\ MaxMethod \in Nat /\ MaxPath \in Nat
      BY <3>1 DEF Fits, LimitsAllowed
    <3>3. \A k \in 1..(m + q + 4) : t[k] # "LF"
      <4>1. ASSUME NEW k \in 1..(m + q + 4), t[k] = "LF" PROVE FALSE
        <5>1. k \in 1..m \/ k = m + 1 \/ k \in (m + 2)..(m + q + 1) \/ k = m + q + 2
              \/ k = m + q + 3 \/ k = m + q + 4
          BY <3>2
        <5>. QED
          BY <3>1, <4>1, <5>1 DEF Fits, Token, EndsLine
      <4>. QED
        BY <4>1
    <3>4. m + q + 5 <= Len(s)
      <4>1. j \notin 1..(m + q + 4)
        BY <1>1, <2>2, <3>3
      <4>. QED
        BY <1>1, <3>2, <4>1
    <3>5. Fits(s, m, q)
      <4>1. Len(s) \in 0..Len(t) /\ \A k \in 1..Len(s) : t[k] = s[k]
        BY <1>1
      <4>. QED
        BY <1>1, <3>1, <3>4, <4>1, FitsInPart
    <3>6. RequestLine(s) = m + q + 6
      BY <3>5, FitsIsTaken
    <3>. QED
      BY <1>3, <3>2, <3>6
  <2>. QED
    BY <1>1, <2>1, <2>3, <2>4, ParseIs DEF Judged
<1>4. CASE RequestLine(s) # 0
  <2>. DEFINE p == RequestLine(s)
  <2>1. BlankLineAhead(s, p)
    BY <1>4, ParseIs DEF NeedMore, Verdict
  <2>2. p \in 7..(Len(s) + 1)
    BY <1>4, LineInBuffer
  <2>3. RequestLine(t) = p
    <3>1. PICK m, q : Fits(s, m, q) /\ p = m + q + 6
      BY <1>4, TakenFits
    <3>2. m + q + 5 <= Len(s) /\ Len(s) \in 0..Len(s)
      BY <1>1, <3>1 DEF Fits
    <3>3. Fits(t, m, q)
      BY <1>1, <3>1, <3>2, FitsInPart
    <3>. QED
      BY <3>1, <3>3, FitsIsTaken
  <2>. HIDE DEF p
  <2>4. PICK c \in p..Len(s) : ExpectCrlf(s, c) /\ ExpectCrlf(s, c + 2)
    BY <2>1 DEF BlankLineAhead
  <2>5. c \in Nat /\ c + 3 <= Len(s) /\ p \in 1..c
    BY <1>1, <2>2, <2>4 DEF ExpectCrlf, At
  <2>6. ParseHeaders(t, p) = ParseHeaders(s, p)
    BY <2>4, <2>5, SameWalk
  <2>7. BlankLineAhead(t, p)
    <3>1. c \in p..Len(t) /\ {c, c + 1, c + 2, c + 3} \subseteq 1..Len(s)
      BY <1>1, <2>2, <2>5
    <3>2. ExpectCrlf(t, c) /\ ExpectCrlf(t, c + 2)
      BY <1>1, <2>4, <3>1 DEF ExpectCrlf, At
    <3>. QED
      BY <3>1, <3>2 DEF BlankLineAhead
  <2>8. Passed(t) = Passed(s) /\ Accepts(t) = Accepts(s)
    BY <2>3, <2>6 DEF Passed, Accepts, p
  <2>9. Parse(s) = IF Passed(s).at = "end" THEN Accepts(s) ELSE Error
    BY <1>4, <2>1, ParseIs DEF p
  <2>10. RequestLine(t) # 0 /\ BlankLineAhead(t, RequestLine(t))
    BY <2>2, <2>3, <2>7
  <2>11. Parse(t) = IF Passed(t).at = "end" THEN Accepts(t) ELSE Error
    BY <1>1, <2>10, ParseIs
  <2>. QED
    BY <2>8, <2>9, <2>11
<1>. QED
  BY <1>3, <1>4


-----------------------------------------------------------------------------
(* The input, and a buffer that fills with it.                             *)

\* The sequences of ls one after the other, from none to all of them.
Growing(S, n, ls, p) ==
  /\ p \in [0..n -> Seq(S)] /\ p[0] = <<>>
  /\ \A i \in 0..(n - 1) : p[i + 1] = p[i] \o ls[i + 1]

LEMMA FlattenIs ==
  ASSUME NEW S, NEW n \in Nat, NEW ls \in [1..n -> Seq(S)]
  PROVE  \E p : Growing(S, n, ls, p) /\ FlattenSeq(ls) = p[n]
<1>. DEFINE Flat(f, m) == f = [i \in 1..m |-> IF i = 1 THEN ls[i] ELSE f[i - 1] \o ls[i]]
<1>1. Len(ls) = n /\ DOMAIN ls = 1..n
  OBVIOUS
<1>2. CASE n = 0
  <2>1. ls = <<>>
    BY <1>2
  <2>2. FlattenSeq(ls) = ls
    BY <1>1, <1>2, Zenon DEF FlattenSeq
  <2>. DEFINE p == [i \in 0..n |-> <<>>]
  <2>3. p \in [0..n -> Seq(S)] /\ p[0] = <<>> /\ p[n] = <<>> /\ 0..(n - 1) = {}
    BY <1>2
  <2>. HIDE DEF p
  <2>. QED
    BY <2>1, <2>2, <2>3 DEF Growing
<1>3. CASE n # 0
  <2>. DEFINE T == {m \in 0..n : \E f : Flat(f, m)}
  <2>1. 0 \in T
    <3>. DEFINE f == [i \in 1..0 |-> ls[i]]
    <3>1. Flat(f, 0)
      OBVIOUS
    <3>2. \E g : Flat(g, 0)
      <4>. HIDE DEF f, Flat
      <4>. QED
        BY <3>1
    <3>. HIDE DEF Flat
    <3>. QED
      BY <3>2
  <2>2. ASSUME NEW m \in 0..(n - 1), m \in T PROVE m + 1 \in T
    <3>1. PICK g : Flat(g, m)
      BY <2>2
    <3>. DEFINE f == [i \in 1..(m + 1) |-> IF i = m + 1 THEN (IF m = 0 THEN ls[1] ELSE g[m] \o ls[m + 1])
                                           ELSE g[i]]
    <3>2. \A i \in 1..(m + 1) : f[i] = IF i = 1 THEN ls[i] ELSE f[i - 1] \o ls[i]
      <4>1. TAKE i \in 1..(m + 1)
      <4>2. CASE i \in 1..m
        <5>1. g[i] = IF i = 1 THEN ls[i] ELSE g[i - 1] \o ls[i]
          BY <3>1, <4>2
        <5>2. f[i] = g[i] /\ (i # 1 => f[i - 1] = g[i - 1])
          BY <4>2
        <5>. QED
          BY <5>1, <5>2
      <4>3. CASE i = m + 1
        <5>1. f[i] = IF m = 0 THEN ls[1] ELSE g[m] \o ls[m + 1]
          BY <4>3
        <5>2. m # 0 => f[i - 1] = g[m]
          BY <4>3
        <5>. QED
          BY <4>3, <5>1, <5>2
      <4>. QED
        BY <4>2, <4>3
    <3>3. Flat(f, m + 1)
      BY <3>2
    <3>4. \E h : Flat(h, m + 1)
      <4>. HIDE DEF f, Flat
      <4>. QED
        BY <3>3
    <3>5. m + 1 \in 0..n
      OBVIOUS
    <3>. QED
      BY <3>4, <3>5
  <2>3. \E f : Flat(f, n)
    <3>1. n \in T
      <4>. HIDE DEF T
      <4>1. \A k \in 0..n : k \in T
        BY <2>1, <2>2, UpTo
      <4>. QED
        BY <4>1
    <3>. QED
      BY <3>1
  <2>. DEFINE flatten == CHOOSE f : Flat(f, n)
  <2>4. Flat(flatten, n)
    <3>. HIDE DEF Flat
    <3>. QED
      BY <2>3
  <2>5. FlattenSeq(ls) = flatten[n]
    BY <1>1, <1>3, Zenon DEF FlattenSeq
  <2>. HIDE DEF flatten
  <2>. DEFINE Goes(i) == flatten[i] = IF i = 1 THEN ls[i] ELSE flatten[i - 1] \o ls[i]
  <2>6. \A i \in 1..n : Goes(i)
    BY <2>4
  <2>. DEFINE p == [i \in 0..n |-> IF i = 0 THEN <<>> ELSE flatten[i]]
              U == {m \in 0..n : p[m] \in Seq(S)}
  <2>7. 0 \in U
    OBVIOUS
  <2>8. ASSUME NEW m \in 0..(n - 1) PROVE m + 1 \in 1..n /\ m + 1 - 1 = m /\ m \in Nat /\ ls[m + 1] \in Seq(S)
    <3>1. m + 1 \in 1..n
      BY <1>3
    <3>. QED
      BY <3>1
  <2>9. ASSUME NEW m \in 0..(n - 1), p[m] \in Seq(S) PROVE p[m + 1] = p[m] \o ls[m + 1]
    <3>. DEFINE x == m + 1
    <3>1. x \in 1..n /\ x - 1 = m /\ ls[x] \in Seq(S) /\ x # 0 /\ x \in 0..n
      BY <2>8
    <3>2. Goes(x)
      <4>. HIDE DEF Goes, x
      <4>. QED
        BY <2>6, <3>1
    <3>3. p[x] = flatten[x]
      <4>. HIDE DEF x
      <4>. QED
        BY <3>1
    <3>4. CASE m = 0
      <4>1. x = 1 /\ p[m] = <<>>
        BY <3>4
      <4>2. flatten[x] = ls[x]
        <5>. HIDE DEF x, p
        <5>. QED
          BY <3>2, <4>1
      <4>3. <<>> \o ls[x] = ls[x]
        <5>. HIDE DEF x
        <5>. QED
          BY <3>1, ConcatEmptySeq
      <4>. HIDE DEF p
      <4>. QED
        BY <3>3, <4>1, <4>2, <4>3
    <3>5. CASE m # 0
      <4>1. x # 1 /\ p[m] = flatten[m]
        BY <3>5
      <4>2. flatten[x] = flatten[m] \o ls[x]
        <5>. HIDE DEF x, p
        <5>. QED
          BY <3>1, <3>2, <4>1
      <4>. HIDE DEF p
      <4>. QED
        BY <3>3, <4>1, <4>2
    <3>. QED
      BY <3>4, <3>5
  <2>10. ASSUME NEW m \in 0..(n - 1), m \in U PROVE m + 1 \in U
    <3>1. p[m] \in Seq(S) /\ m + 1 \in 0..n /\ ls[m + 1] \in Seq(S)
      BY <2>8, <2>10
    <3>2. p[m + 1] = p[m] \o ls[m + 1]
      <4>. HIDE DEF p
      <4>. QED
        BY <2>9, <3>1
    <3>3. p[m] \o ls[m + 1] \in Seq(S)
      <4>. HIDE DEF p
      <4>. QED
        BY <3>1, ConcatProperties
    <3>. HIDE DEF p
    <3>. QED
      BY <3>1, <3>2, <3>3
  <2>11. \A m \in 0..n : p[m] \in Seq(S)
    <3>1. \A m \in 0..n : m \in U
      <4>. HIDE DEF U
      <4>. QED
        BY <2>7, <2>10, UpTo
    <3>. HIDE DEF p
    <3>. QED
      BY <3>1
  <2>12. p \in [0..n -> Seq(S)] /\ p[0] = <<>> /\ p[n] = flatten[n]
    BY <1>3, <2>11
  <2>13. \A m \in 0..(n - 1) : p[m + 1] = p[m] \o ls[m + 1]
    <3>1. TAKE m \in 0..(n - 1)
    <3>2. p[m] \in Seq(S)
      <4>. HIDE DEF p
      <4>. QED
        BY <2>11
    <3>. HIDE DEF p
    <3>. QED
      BY <2>9, <3>2
  <2>. HIDE DEF p
  <2>. QED
    BY <2>5, <2>12, <2>13 DEF Growing
<1>. QED
  BY <1>2, <1>3

LEMMA FlattenType ==
  ASSUME NEW S, NEW n \in Nat, NEW ls \in [1..n -> Seq(S)]
  PROVE  FlattenSeq(ls) \in Seq(S)
<1>1. PICK p : Growing(S, n, ls, p) /\ FlattenSeq(ls) = p[n]
  BY FlattenIs
<1>. QED
  BY <1>1 DEF Growing

\* What is in the buffer is the first part of the input, and the verdict is one on it.
ParserInv ==
  /\ input \in Seq(Bytes) /\ len \in 0..Len(input)
  /\ req = IF len = 0 THEN NeedMore ELSE Parse(Received)

LEMMA ParserInit == InputsAllowed /\ LimitsAllowed /\ Init => ParserInv
<1>. SUFFICES ASSUME InputsAllowed, LimitsAllowed, Init PROVE ParserInv
  OBVIOUS
<1>1. PICK start \in Starts, n \in 0..LinesSent :
        \E lines \in [1..n -> HeaderLines] : input = start \o FlattenSeq(lines)
  BY DEF Init
<1>2. PICK lines \in [1..n -> HeaderLines] : input = start \o FlattenSeq(lines)
  BY <1>1
<1>3. n \in Nat /\ lines \in [1..n -> Seq(Bytes)] /\ start \in Seq(Bytes)
  BY DEF LimitsAllowed, InputsAllowed
<1>4. input \in Seq(Bytes)
  BY <1>2, <1>3, FlattenType, ConcatProperties
<1>. QED
  BY <1>4 DEF Init, ParserInv

\* A part of the input.
LEMMA PartIs ==
  ASSUME NEW s \in Seq(Bytes), NEW n \in 1..Len(s)
  PROVE  /\ SubSeq(s, 1, n) \in Seq(Bytes) /\ Len(SubSeq(s, 1, n)) = n
         /\ \A k \in 1..n : SubSeq(s, 1, n)[k] = s[k]
<1>1. Len(s) \in Nat /\ \A k \in 1..n : s[k] \in Bytes
  OBVIOUS
<1>. QED
  BY <1>1, SubSeqProperties

LEMMA PartsAgree ==
  ASSUME NEW s \in Seq(Bytes), NEW n \in 1..Len(s), NEW m \in n..Len(s)
  PROVE  Agree(SubSeq(s, 1, n), SubSeq(s, 1, m), n)
<1>1. m \in 1..Len(s) /\ n \in Nat /\ n <= m /\ m \in Nat
  OBVIOUS
<1>2. \A k \in 1..n : k \in 1..m
  BY <1>1
<1>. QED
  BY <1>1, <1>2, PartIs DEF Agree

LEMMA ReceiveGives ==
  ASSUME ParserInv, Receive, LimitsAllowed
  PROVE  len' \in (len + 1)..Len(input) /\ req' = Parse(SubSeq(input, 1, len')) /\ input' = input
<1>1. Len(input) \in Nat /\ len \in Nat /\ len < Len(input)
  BY DEF ParserInv, Receive
<1>2. PICK n \in Pieces : len' = Min({len + n, Len(input)})
  BY DEF Receive
<1>3. n \in Nat \ {0}
  BY DEF LimitsAllowed
<1>4. len' = IF len + n <= Len(input) THEN len + n ELSE Len(input)
  BY <1>1, <1>2, <1>3, LeastOfTwo
<1>5. len' \in (len + 1)..Len(input)
  BY <1>1, <1>3, <1>4
<1>. QED
  BY <1>5 DEF Receive

LEMMA ParserStep == LimitsAllowed /\ ParserInv /\ [Next]_vars => ParserInv'
<1>. SUFFICES ASSUME LimitsAllowed, ParserInv, [Next]_vars PROVE ParserInv'
  OBVIOUS
<1>1. CASE Receive
  <2>1. len' \in 0..Len(input) /\ len' # 0
    BY <1>1, ReceiveGives DEF ParserInv
  <2>2. req' = Parse(Received') /\ input' = input
    BY <1>1, ReceiveGives DEF Received
  <2>. QED
    BY <2>1, <2>2 DEF ParserInv
<1>2. CASE UNCHANGED vars
  BY <1>2 DEF vars, ParserInv, Received
<1>. QED
  BY <1>1, <1>2 DEF Next

LEMMA ParserIs == LimitsAllowed /\ InputsAllowed /\ Spec => []ParserInv
<1>1. SUFFICES ASSUME LimitsAllowed, InputsAllowed PROVE Spec => []ParserInv
  OBVIOUS
<1>. QED
  BY <1>1, ParserInit, ParserStep, PTL DEF Spec

-----------------------------------------------------------------------------
PieceDoesNotMatter ==
  /\ req.result = "ok" => req' = req
  /\ req'.result = "error" => Parse(input) = Error

LEMMA ErrorIsOne ==
  ASSUME NEW s \in Seq(Bytes), Parse(s).result = "error", LimitsAllowed
  PROVE  Parse(s) = Error
<1>1. CASE s = <<>>
  <2>1. RequestLine(s) = 0
    BY <1>1, LineInBuffer
  <2>. QED
    BY <1>1, <2>1, Zenon DEF Parse
<1>2. CASE s # <<>>
  <2>1. Judged(s).result = "error" => Judged(s) = Error
    BY DEF Judged, NeedMore, Error, Verdict
  <2>2. NeedMore.result # "error" /\ Accepts(s).result # "error"
    BY DEF NeedMore, Verdict, Accepts
  <2>. QED
    BY <1>2, <2>1, <2>2, ParseIs
<1>. QED
  BY <1>1, <1>2

\* How a request is cut into pieces does not matter to http_parse_request, for any input
\* and any limits: what it makes of a part of it, it makes of all of it (http_parser.c:199-270,
\* called again by read_full_request, router.c).
THEOREM CutAnywhere == Spec => PiecesDoNotMatter
<1>1. LimitsAllowed /\ InputsAllowed
  BY ParserAssumption
<1>2. ASSUME ParserInv, [Next]_vars PROVE [PieceDoesNotMatter]_vars
  <2>1. SUFFICES ASSUME Receive PROVE PieceDoesNotMatter
    BY <1>2 DEF Next
  <2>2. len' \in (len + 1)..Len(input) /\ req' = Parse(SubSeq(input, 1, len')) /\ input \in Seq(Bytes)
        /\ len \in 0..Len(input) /\ Len(input) \in Nat
    BY <1>1, <1>2, <2>1, ReceiveGives DEF ParserInv
  <2>. DEFINE m == len'
              t == SubSeq(input, 1, m)
  <2>3. m \in 1..Len(input) /\ t \in Seq(Bytes) /\ Len(t) = m /\ t # <<>>
    <3>1. m \in 1..Len(input)
      BY <2>2
    <3>. HIDE DEF m
    <3>2. t \in Seq(Bytes) /\ Len(t) = m
      BY <2>2, <3>1, PartIs
    <3>3. t # <<>>
      BY <3>1, <3>2
    <3>. QED
      BY <3>1, <3>2, <3>3
  <2>4. ASSUME req.result = "ok" PROVE req' = req
    <3>1. len # 0 /\ req = Parse(Received)
      BY <1>2, <2>4 DEF ParserInv, NeedMore, Verdict
    <3>2. len \in 1..Len(input) /\ m \in len..Len(input)
      BY <2>2, <3>1
    <3>. HIDE DEF m
    <3>3. Agree(Received, t, len) /\ Len(Received) = len /\ Received \in Seq(Bytes) /\ Received # <<>>
      <4>1. Len(Received) = len /\ Received \in Seq(Bytes)
        BY <2>2, <3>2, PartIs DEF Received
      <4>2. Received # <<>>
        BY <3>1, <4>1
      <4>. QED
        BY <2>2, <3>2, <4>1, <4>2, PartsAgree DEF Received
    <3>4. Parse(t) = Parse(Received)
      BY <1>1, <2>3, <2>4, <3>1, <3>3, MoreIsSame
    <3>. QED
      BY <2>2, <3>1, <3>4 DEF m
  <2>5. ASSUME req'.result = "error" PROVE Parse(input) = Error
    <3>1. Parse(t).result = "error"
      BY <2>2, <2>5
    <3>. HIDE DEF m
    <3>2. Agree(t, input, m)
      BY <2>2, <2>3, PartIs DEF Agree
    <3>3. Parse(input) = Parse(t)
      <4>1. Agree(t, input, Len(t))
        BY <2>3, <3>2
      <4>. HIDE DEF t
      <4>. QED
        BY <1>1, <2>2, <2>3, <3>1, <4>1, MoreIsSame
    <3>4. Parse(t) = Error
      <4>. HIDE DEF t
      <4>. QED
        BY <1>1, <2>3, <3>1, ErrorIsOne
    <3>. QED
      BY <3>3, <3>4
  <2>. QED
    BY <2>4, <2>5 DEF PieceDoesNotMatter
<1>. QED
  BY <1>1, <1>2, ParserIs, PTL DEF Spec, PiecesDoNotMatter, PieceDoesNotMatter


-----------------------------------------------------------------------------
(* Lines.                                                                  *)

\* The lines that begin before b, and a line from i whose CR LF is at e.
LinesTo(s, b) == {i \in LineStarts(s) : i < b}
LineEnds(s, i, e) ==
  /\ i \in LineStarts(s) /\ e \in i..(Len(s) - 1) /\ s[e] = "CR" /\ s[e + 1] = "LF"
  /\ \A k \in i..(e - 1) : ~(s[k] = "CR" /\ s[k + 1] = "LF")

LEMMA StartsType ==
  ASSUME NEW s \in Seq(Bytes)
  PROVE  LineStarts(s) \in SUBSET (1..(Len(s) + 1)) /\ 1 \in LineStarts(s)
  BY DEF LineStarts

\* Where a line ends, the next one begins, and none in between.
LEMMA NextLine ==
  ASSUME NEW s \in Seq(Bytes), NEW i, NEW e, LineEnds(s, i, e)
  PROVE  /\ i \in 1..(Len(s) - 1) /\ e \in i..(Len(s) - 1) /\ e + 2 \in LineStarts(s)
         /\ \A j \in LineStarts(s) : j > i => j >= e + 2
         /\ LineAt(s, i) = SubSeq(s, i, e - 1)
<1>1. /\ Len(s) \in Nat /\ i \in 1..(Len(s) + 1) /\ e \in i..(Len(s) - 1)
      /\ s[e] = "CR" /\ s[e + 1] = "LF" /\ i \in LineStarts(s)
  BY StartsType DEF LineEnds
<1>2. e + 2 \in LineStarts(s)
  <2>1. e + 2 \in 3..(Len(s) + 1) /\ e + 2 - 2 = e /\ e + 2 - 1 = e + 1
    BY <1>1
  <2>. QED
    BY <1>1, <2>1 DEF LineStarts
<1>3. ASSUME NEW j \in LineStarts(s), j > i PROVE j >= e + 2
  <2>1. j \in 3..(Len(s) + 1) /\ s[j - 2] = "CR" /\ s[j - 1] = "LF"
    BY <1>1, <1>3 DEF LineStarts
  <2>2. j # i + 1
    <3>1. SUFFICES ASSUME j = i + 1 PROVE FALSE
      OBVIOUS
    <3>2. i # 1 /\ j - 2 = i - 1
      BY <1>1, <2>1, <3>1
    <3>3. s[i - 1] = "LF"
      BY <1>1, <3>2 DEF LineStarts
    <3>. QED
      BY <2>1, <3>2, <3>3
  <2>3. SUFFICES ASSUME j < e + 2 PROVE FALSE
    BY <1>1, <2>1
  <2>4. j - 2 \in i..(e - 1) /\ j - 2 + 1 = j - 1
    BY <1>1, <1>3, <2>1, <2>2, <2>3
  <2>. QED
    BY <2>1, <2>4 DEF LineEnds
<1>4. LineAt(s, i) = SubSeq(s, i, e - 1)
  <2>. DEFINE js == {j \in LineStarts(s) : j > i}
  <2>1. js \in SUBSET Nat /\ e + 2 \in js
    BY <1>1, <1>2, StartsType
  <2>2. \A j \in js : j >= e + 2
    BY <1>3
  <2>3. Min(js) = e + 2
    <3>. HIDE DEF js
    <3>1. Min(js) \in js /\ Min(js) <= e + 2
      BY <2>1, LeastIs
    <3>2. Min(js) >= e + 2 /\ Min(js) \in Nat
      BY <2>1, <2>2, <3>1
    <3>. QED
      BY <1>1, <3>1, <3>2
  <2>4. e + 2 - 3 = e - 1
    BY <1>1
  <2>5. LineAt(s, i) = SubSeq(s, i, Min(js) - 3)
    BY DEF LineAt
  <2>. HIDE DEF js
  <2>6. Min(js) - 3 = e - 1
    BY <1>1, <2>3
  <2>. QED
    BY <2>5, <2>6, Zenon
<1>. QED
  BY <1>1, <1>2, <1>3, <1>4

\* A line before another one ends.
LEMMA LineHas ==
  ASSUME NEW s \in Seq(Bytes), NEW i \in LineStarts(s), NEW b \in LineStarts(s), i < b
  PROVE  \E e : LineEnds(s, i, e) /\ e + 2 <= b
<1>. DEFINE js == {j \in LineStarts(s) : j > i}
            m == Min(js)
<1>1. Len(s) \in Nat /\ i \in 1..(Len(s) + 1) /\ b \in 1..(Len(s) + 1)
  BY StartsType
<1>2. js \in SUBSET Nat /\ b \in js
  BY <1>1, StartsType
<1>3. m \in js /\ \A j \in js : m <= j
  <2>. HIDE DEF js
  <2>. QED
    BY <1>2, LeastIs
<1>4. m \in LineStarts(s) /\ m > i /\ m <= b
  BY <1>2, <1>3
<1>5. \A j \in LineStarts(s) : j > i => m <= j
  BY <1>3
<1>. HIDE DEF m, js
<1>6. m \in 3..(Len(s) + 1) /\ s[m - 2] = "CR" /\ s[m - 1] = "LF"
  BY <1>1, <1>4 DEF LineStarts
<1>7. m # i + 1
  <2>1. SUFFICES ASSUME m = i + 1 PROVE FALSE
    OBVIOUS
  <2>2. i # 1 /\ m - 2 = i - 1
    BY <1>1, <1>6, <2>1
  <2>3. s[i - 1] = "LF"
    BY <1>1, <2>2 DEF LineStarts
  <2>. QED
    BY <1>6, <2>2, <2>3
<1>. DEFINE e == m - 2
<1>8. e \in i..(Len(s) - 1) /\ e + 1 = m - 1 /\ e + 2 = m
  BY <1>1, <1>4, <1>6, <1>7
<1>9. ASSUME NEW k \in i..(e - 1), s[k] = "CR", s[k + 1] = "LF" PROVE FALSE
  <2>1. k + 2 \in 3..(Len(s) + 1) /\ k + 2 - 2 = k /\ k + 2 - 1 = k + 1 /\ k + 2 > i /\ k + 2 < m
    BY <1>1, <1>6
  <2>2. k + 2 \in LineStarts(s)
    BY <1>9, <2>1 DEF LineStarts
  <2>. QED
    BY <1>5, <1>6, <2>1, <2>2
<1>10. LineEnds(s, i, e)
  <2>. HIDE DEF e
  <2>1. s[e] = "CR" /\ s[e + 1] = "LF"
    BY <1>6, <1>8 DEF e
  <2>. QED
    BY <1>8, <1>9, <2>1 DEF LineEnds
<1>. QED
  BY <1>4, <1>8, <1>10

\* Each line adds one to those there are.
LEMMA Finite ==
  ASSUME NEW s \in Seq(Bytes), NEW b
  PROVE  IsFiniteSet(LinesTo(s, b)) /\ Cardinality(LinesTo(s, b)) \in Nat
<1>1. LinesTo(s, b) \in SUBSET (1..(Len(s) + 1))
  BY StartsType DEF LinesTo
<1>2. IsFiniteSet(1..(Len(s) + 1))
  <2>1. 1 \in Int /\ Len(s) + 1 \in Int
    OBVIOUS
  <2>. QED
    BY <2>1, FS_Interval
<1>3. IsFiniteSet(LinesTo(s, b))
  BY <1>1, <1>2, FS_Subset
<1>. QED
  BY <1>3, FS_CardinalityType

LEMMA OneMore ==
  ASSUME NEW s \in Seq(Bytes), NEW i, NEW e, LineEnds(s, i, e)
  PROVE  /\ LinesTo(s, e + 2) = LinesTo(s, i) \cup {i}
         /\ Cardinality(LinesTo(s, e + 2)) = Cardinality(LinesTo(s, i)) + 1
<1>1. /\ i \in 1..(Len(s) - 1) /\ e \in i..(Len(s) - 1)
      /\ \A j \in LineStarts(s) : j > i => j >= e + 2
  BY NextLine
<1>2. i \in LineStarts(s) /\ \A j \in LineStarts(s) : j \in Nat
  BY StartsType DEF LineEnds
<1>3. LinesTo(s, e + 2) = LinesTo(s, i) \cup {i}
  <2>1. ASSUME NEW j \in LineStarts(s) PROVE j < e + 2 <=> j < i \/ j = i
    BY <1>1, <1>2
  <2>. QED
    BY <1>2, <2>1 DEF LinesTo
<1>4. i \notin LinesTo(s, i)
  BY <1>1 DEF LinesTo
<1>. QED
  BY <1>3, <1>4, Finite, FS_AddElement

\* There is none before the first.
LEMMA NoneYet ==
  ASSUME NEW s \in Seq(Bytes)
  PROVE  LinesTo(s, 1) = {} /\ Cardinality(LinesTo(s, 1)) = 0
<1>1. LinesTo(s, 1) = {}
  BY StartsType DEF LinesTo
<1>. QED
  BY <1>1, FS_EmptySet

\* The part of s from i to before e.
LEMMA SpanIs ==
  ASSUME NEW s \in Seq(Bytes), NEW i \in 1..Len(s), NEW e \in i..Len(s)
  PROVE  /\ SubSeq(s, i, e - 1) \in Seq(Bytes) /\ Len(SubSeq(s, i, e - 1)) = e - i
         /\ \A k \in 1..(e - i) : SubSeq(s, i, e - 1)[k] = s[i + k - 1]
<1>1. /\ Len(s) \in Nat /\ i \in Nat \ {0} /\ e - 1 \in Int /\ i <= e
      /\ \A k \in i..(e - 1) : s[k] \in Bytes
  BY BytesOf
<1>2. e - 1 - i + 1 = e - i
  BY <1>1
<1>3. /\ SubSeq(s, i, e - 1) \in Seq(Bytes)
      /\ Len(SubSeq(s, i, e - 1)) = IF i <= e - 1 THEN e - 1 - i + 1 ELSE 0
      /\ \A k \in 1..(e - 1 - i + 1) : SubSeq(s, i, e - 1)[k] = s[i + k - 1]
  BY <1>1, SubSeqProperties
<1>. DEFINE x == SubSeq(s, i, e - 1)
<1>. HIDE DEF x
<1>4. x \in Seq(Bytes) /\ Len(x) = (IF i <= e - 1 THEN e - 1 - i + 1 ELSE 0)
      /\ \A k \in 1..(e - i) : x[k] = s[i + k - 1]
  BY <1>2, <1>3 DEF x
<1>5. Len(x) = e - i
  BY <1>1, <1>2, <1>4
<1>. QED
  BY <1>4, <1>5 DEF x

LEMMA CutIs ==
  ASSUME NEW s \in Seq(Bytes), NEW c \in Nat \ {0}, NEW d \in Nat, \A k \in c..d : s[k] \in Bytes
  PROVE  /\ SubSeq(s, c, d) \in Seq(Bytes) /\ Len(SubSeq(s, c, d)) = (IF c <= d THEN d - c + 1 ELSE 0)
         /\ \A k \in 1..(d - c + 1) : SubSeq(s, c, d)[k] = s[c + k - 1]
  BY SubSeqProperties

\* A part of a part is one of the whole.
LEMMA SpanOfSpan ==
  ASSUME NEW s \in Seq(Bytes), NEW i \in 1..Len(s), NEW e \in i..Len(s)
  PROVE  LET l == SubSeq(s, i, e - 1) IN
         \A x \in 1..(Len(l) + 1), y \in 0..Len(l) : SubSeq(l, x, y) = SubSeq(s, i + x - 1, i + y - 1)
<1>. DEFINE l == SubSeq(s, i, e - 1)
<1>1. /\ l \in Seq(Bytes) /\ Len(l) = e - i /\ \A k \in 1..(e - i) : l[k] = s[i + k - 1]
      /\ Len(s) \in Nat /\ i \in Nat \ {0} /\ e \in Nat /\ i <= e /\ e <= Len(s)
  BY SpanIs
<1>. HIDE DEF l
<1>2. ASSUME NEW x \in 1..(Len(l) + 1), NEW y \in 0..Len(l)
      PROVE  SubSeq(l, x, y) = SubSeq(s, i + x - 1, i + y - 1)
  <2>. DEFINE f == SubSeq(l, x, y)
              g == SubSeq(s, i + x - 1, i + y - 1)
  <2>1. /\ x \in Nat \ {0} /\ y \in Nat /\ i + x - 1 \in Nat \ {0} /\ i + y - 1 \in Nat
        /\ (x <= y <=> i + x - 1 <= i + y - 1) /\ (i + y - 1) - (i + x - 1) + 1 = y - x + 1
    BY <1>1
  <2>2. /\ \A k \in x..y : l[k] \in Bytes
        /\ \A k \in (i + x - 1)..(i + y - 1) : s[k] \in Bytes
    <3>1. /\ \A k \in x..y : k \in 1..Len(l)
          /\ \A k \in (i + x - 1)..(i + y - 1) : k \in 1..Len(s)
      BY <1>1, <2>1
    <3>. QED
      BY <1>1, <3>1, BytesOf
  <2>3. /\ f \in Seq(Bytes) /\ Len(f) = (IF x <= y THEN y - x + 1 ELSE 0)
        /\ \A k \in 1..(y - x + 1) : f[k] = l[x + k - 1]
    <3>1. x \in Nat \ {0} /\ y \in Nat /\ \A k \in x..y : l[k] \in Bytes
      BY <2>1, <2>2
    <3>. QED
      BY <1>1, <3>1, CutIs, Zenon
  <2>4. /\ g \in Seq(Bytes) /\ Len(g) = (IF x <= y THEN y - x + 1 ELSE 0)
        /\ \A k \in 1..(y - x + 1) : g[k] = s[i + x - 1 + k - 1]
    <3>. DEFINE c == i + x - 1
                d == i + y - 1
    <3>1. c \in Nat \ {0} /\ d \in Nat /\ \A k \in c..d : s[k] \in Bytes
      BY <2>1, <2>2
    <3>2. (x <= y <=> c <= d) /\ d - c + 1 = y - x + 1
      BY <2>1
    <3>. HIDE DEF c, d
    <3>3. /\ SubSeq(s, c, d) \in Seq(Bytes) /\ Len(SubSeq(s, c, d)) = (IF c <= d THEN d - c + 1 ELSE 0)
          /\ \A k \in 1..(d - c + 1) : SubSeq(s, c, d)[k] = s[c + k - 1]
      BY <3>1, CutIs
    <3>4. /\ SubSeq(s, c, d) \in Seq(Bytes) /\ Len(SubSeq(s, c, d)) = (IF x <= y THEN y - x + 1 ELSE 0)
          /\ \A k \in 1..(y - x + 1) : SubSeq(s, c, d)[k] = s[c + k - 1]
      BY <3>2, <3>3
    <3>. QED
      BY <3>4 DEF c, d
  <2>. HIDE DEF f, g
  <2>5. \A k \in 1..Len(f) : f[k] = g[k]
    <3>1. TAKE k \in 1..Len(f)
    <3>2. k \in 1..(y - x + 1) /\ x + k - 1 \in 1..(e - i) /\ i + (x + k - 1) - 1 = i + x - 1 + k - 1
      BY <1>1, <2>1, <2>3
    <3>3. l[x + k - 1] = s[i + (x + k - 1) - 1]
      BY <1>1, <3>2
    <3>. QED
      BY <2>3, <2>4, <3>2, <3>3
  <2>. QED
    BY <2>3, <2>4, <2>5, SeqEqual DEF f, g
<1>. QED
  BY <1>2 DEF l


-----------------------------------------------------------------------------
(* What is taken for a request is one.                                     *)

IsKept(l) == IsHeader(l) /\ \A c \in Range(l) : c \notin EndsLine

\* A request line that is taken is a line, and a request line.
LEMMA FitsIsLine ==
  ASSUME NEW s \in Seq(Bytes), NEW m, NEW q, Fits(s, m, q), LimitsAllowed
  PROVE  LineEnds(s, 1, m + q + 4) /\ IsRequestLine(LineAt(s, 1))
<1>1. /\ m \in Nat \ {0} /\ q \in Nat \ {0} /\ m + q + 5 <= Len(s) /\ Len(s) \in Nat
      /\ MaxMethod \in Nat /\ MaxPath \in Nat
  <2>1. Len(s) \in Nat /\ MaxMethod \in Nat /\ MaxPath \in Nat
    BY DEF LimitsAllowed
  <2>2. m \in 1..(MaxMethod - 1) /\ q \in 1..(MaxPath - 1) /\ m + q + 5 <= Len(s)
    BY DEF Fits
  <2>. QED
    BY <2>1, <2>2
<1>. DEFINE e == m + q + 4
<1>2. e \in 1..(Len(s) - 1) /\ e \in 1..Len(s) /\ 1 \in 1..Len(s)
  BY <1>1
<1>3. ASSUME NEW k \in 1..(e - 1) PROVE s[k] # "CR"
  <2>1. k \in 1..m \/ k = m + 1 \/ k \in (m + 2)..(m + q + 1) \/ k = m + q + 2 \/ k = m + q + 3
    BY <1>1
  <2>. QED
    BY <2>1 DEF Fits, Token, EndsLine
<1>4. LineEnds(s, 1, e)
  <2>1. s[e] = "CR" /\ s[e + 1] = "LF"
    <3>1. e + 1 = m + q + 5
      BY <1>1
    <3>. QED
      BY <3>1 DEF Fits
  <2>. HIDE DEF e
  <2>. QED
    BY <1>2, <1>3, <2>1, StartsType DEF LineEnds
<1>. DEFINE l == SubSeq(s, 1, e - 1)
<1>5. LineAt(s, 1) = l /\ Len(l) = m + q + 3 /\ \A k \in 1..(m + q + 3) : l[k] = s[k]
  <2>1. e - 1 = m + q + 3 /\ \A k \in 1..(e - 1) : 1 + k - 1 = k
    BY <1>1
  <2>2. LineAt(s, 1) = l
    <3>. HIDE DEF e
    <3>. QED
      BY <1>4, NextLine
  <2>3. Len(l) = e - 1 /\ \A k \in 1..(e - 1) : l[k] = s[1 + k - 1]
    <3>. HIDE DEF e
    <3>. QED
      BY <1>2, SpanIs
  <2>. HIDE DEF l, e
  <2>. QED
    BY <2>1, <2>2, <2>3
<1>. HIDE DEF l, e
<1>6. IsRequestLine(l)
  <2>1. /\ \A k \in 1..m : k \in 1..(m + q + 3)
        /\ \A k \in (m + 2)..(m + q + 1) : k \in 1..(m + q + 3)
        /\ {m + 1, m + q + 2, m + q + 3} \subseteq 1..(m + q + 3)
    BY <1>1
  <2>2. /\ \A k \in 1..m : l[k] \in Token
        /\ \A k \in (m + 2)..(m + q + 1) : l[k] \notin {"SP"} \cup EndsLine
        /\ l[m + 1] = "SP" /\ l[m + q + 2] = "SP" /\ l[m + q + 3] = "V"
    BY <1>5, <2>1 DEF Fits
  <2>3. m \in 1..(MaxMethod - 1) /\ q \in 1..(MaxPath - 1)
    BY DEF Fits
  <2>. QED
    BY <1>5, <2>2, <2>3 DEF IsRequestLine
<1>. QED
  BY <1>4, <1>5, <1>6 DEF e

\* A header that is taken is a line, and a header.
LEMMA HeaderIsLine ==
  ASSUME NEW s \in Seq(Bytes), NEW i \in LineStarts(s), NEW n, NEW e, HeaderAt(s, i, n, e)
  PROVE  LineEnds(s, i, e) /\ IsKept(LineAt(s, i))
<1>1. /\ i \in Nat \ {0} /\ n \in Nat /\ e \in Nat /\ i < n /\ n < e /\ e < Len(s) /\ Len(s) \in Nat
  BY DEF HeaderAt
<1>2. e \in i..(Len(s) - 1) /\ i \in 1..Len(s) /\ e \in i..Len(s)
  BY <1>1
<1>3. ASSUME NEW k \in i..(e - 1) PROVE s[k] \notin EndsLine
  <2>1. k \in i..(n - 1) \/ k \in n..(e - 1)
    BY <1>1
  <2>. QED
    BY <2>1 DEF HeaderAt, Token, EndsLine
<1>4. LineEnds(s, i, e)
  <2>1. s[e] = "CR" /\ s[e + 1] = "LF"
    BY DEF HeaderAt
  <2>. QED
    BY <1>2, <1>3, <2>1 DEF LineEnds, EndsLine
<1>. DEFINE l == SubSeq(s, i, e - 1)
<1>5. LineAt(s, i) = l
  BY <1>4, NextLine
<1>6. l \in Seq(Bytes) /\ Len(l) = e - i /\ \A k \in 1..(e - i) : l[k] = s[i + k - 1]
  BY <1>2, SpanIs
<1>. HIDE DEF l
<1>7. IsHeader(l)
  <2>. DEFINE k == n - i + 1
  <2>1. k \in 2..Len(l) /\ k \in 1..(e - i) /\ i + k - 1 = n
    BY <1>1, <1>6
  <2>2. \A j \in 1..(k - 1) : j \in 1..(e - i) /\ i + j - 1 \in i..(n - 1)
    BY <1>1
  <2>. HIDE DEF k
  <2>3. l[k] = ":" /\ \A j \in 1..(k - 1) : l[j] \in Token
    BY <1>6, <2>1, <2>2 DEF HeaderAt
  <2>. QED
    BY <2>1, <2>3 DEF IsHeader
<1>8. ASSUME NEW c \in Range(l) PROVE c \notin EndsLine
  <2>1. PICK k \in DOMAIN l : c = l[k]
    BY DEF Range
  <2>2. k \in 1..(e - i) /\ i + k - 1 \in i..(e - 1)
    BY <1>1, <1>6, <2>1
  <2>. QED
    BY <1>3, <1>6, <2>1, <2>2
<1>. QED
  BY <1>4, <1>5, <1>7, <1>8 DEF IsKept

\* k lines are behind the request line when the one at i begins, all of them headers.
Behind(s, i, k) ==
  /\ i \in LineStarts(s) /\ i # 1 /\ Cardinality(LinesTo(s, i)) = k + 1
  /\ \A j \in LinesTo(s, i) \ {1} : IsKept(LineAt(s, j))

LEMMA BehindType ==
  ASSUME NEW s \in Seq(Bytes), NEW i, NEW k, Behind(s, i, k)
  PROVE  /\ i \in Nat /\ i > 1 /\ i \in LineStarts(s) /\ LinesTo(s, i) \in SUBSET LineStarts(s)
         /\ \A j \in LineStarts(s) : j \in Nat
<1>1. \A j \in LineStarts(s) : j \in Nat /\ j >= 1
  BY StartsType
<1>. QED
  BY <1>1 DEF Behind, LinesTo

LEMMA GoesOn ==
  ASSUME NEW s \in Seq(Bytes), NEW i, NEW k \in Nat, Behind(s, i, k), NEW n, NEW e, HeaderAt(s, i, n, e)
  PROVE  Behind(s, e + 2, k + 1)
<1>1. i \in LineStarts(s) /\ Cardinality(LinesTo(s, i)) = k + 1
  BY DEF Behind
<1>2. LineEnds(s, i, e) /\ IsKept(LineAt(s, i))
  BY <1>1, HeaderIsLine
<1>3. e + 2 \in LineStarts(s) /\ e + 2 # 1
  BY <1>2, NextLine
<1>4. LinesTo(s, e + 2) = LinesTo(s, i) \cup {i} /\ Cardinality(LinesTo(s, e + 2)) = (k + 1) + 1
  BY <1>1, <1>2, OneMore
<1>. QED
  BY <1>2, <1>3, <1>4 DEF Behind

\* An empty line behind them ends the header part.
LEMMA BlankEnds ==
  ASSUME NEW s \in Seq(Bytes), NEW i, NEW k \in 0..(MaxLines - 1), Behind(s, i, k), ExpectCrlf(s, i),
         IsRequestLine(LineAt(s, 1)), LimitsAllowed
  PROVE  IsHead(s, i + 2)
<1>1. i \in LineStarts(s) /\ i # 1 /\ Cardinality(LinesTo(s, i)) = k + 1 /\ i \in Nat /\ i > 1
      /\ Len(s) \in Nat /\ MaxLines \in Nat
  BY StartsType DEF Behind, LimitsAllowed
<1>2. LineEnds(s, i, i)
  BY <1>1 DEF LineEnds, ExpectCrlf, At
<1>3. i + 2 \in LineStarts(s) /\ LineAt(s, i) = SubSeq(s, i, i - 1)
  BY <1>2, NextLine
<1>4. LinesTo(s, i + 2) = LinesTo(s, i) \cup {i} /\ Cardinality(LinesTo(s, i + 2)) = (k + 1) + 1
  BY <1>1, <1>2, OneMore
<1>5. LineAt(s, i) = <<>>
  <2>1. i \in 1..Len(s) /\ i \in i..Len(s)
    BY <1>1, <1>2 DEF LineEnds
  <2>2. SubSeq(s, i, i - 1) \in Seq(Bytes) /\ Len(SubSeq(s, i, i - 1)) = i - i
    BY <2>1, SpanIs
  <2>3. i - i = 0
    BY <1>1
  <2>. QED
    BY <1>3, <2>2, <2>3, EmptySeq
<1>6. Max(LinesTo(s, i + 2)) = i
  <2>. DEFINE js == LinesTo(s, i + 2)
  <2>1. js \in SUBSET (0..i) /\ i \in js
    <3>1. ASSUME NEW j \in js PROVE j \in 0..i
      BY <1>1, <1>4, StartsType, <3>1 DEF LinesTo
    <3>. QED
      BY <1>4, <3>1
  <2>. HIDE DEF js
  <2>2. Max(js) \in js /\ Max(js) >= i
    BY <1>1, <2>1, MostIs
  <2>. QED
    BY <1>1, <2>1, <2>2 DEF js
<1>7. \A j \in LinesTo(s, i + 2) \ {1} :
        IF j = Max(LinesTo(s, i + 2)) THEN LineAt(s, j) = <<>>
        ELSE IsHeader(LineAt(s, j)) /\ \A c \in Range(LineAt(s, j)) : c \notin EndsLine
  BY <1>4, <1>5, <1>6 DEF Behind, IsKept
<1>8. Cardinality(LinesTo(s, i + 2)) \in 2..(MaxLines + 1)
  BY <1>1, <1>4
<1>. QED
  BY <1>3, <1>7, <1>8 DEF IsHead, LinesTo

\* What is kept of a header is its name and its value.
LEMMA PairIsOne ==
  ASSUME NEW s \in Seq(Bytes), NEW i \in LineStarts(s), NEW n, NEW e, HeaderAt(s, i, n, e)
  PROVE  IsPair(LineAt(s, i), Pair(s, i, n, e))
<1>. DEFINE l == LineAt(s, i)
            v == After(s, n + 1, Ows)
            ends == {k \in v..(e - 1) : s[k] \notin Ows}
<1>1. /\ i \in Nat \ {0} /\ n \in Nat /\ e \in Nat /\ i < n /\ n < e /\ e < Len(s) /\ Len(s) \in Nat
      /\ i \in 1..Len(s) /\ e \in i..Len(s) /\ n + 1 \in 1..(Len(s) + 1)
  BY DEF HeaderAt
<1>2. l = SubSeq(s, i, e - 1)
  BY HeaderIsLine, NextLine
<1>3. l \in Seq(Bytes) /\ Len(l) = e - i /\ \A k \in 1..(e - i) : l[k] = s[i + k - 1]
  <2>. HIDE DEF l
  <2>. QED
    BY <1>1, <1>2, SpanIs
<1>4. v \in (n + 1)..e /\ \A k \in (n + 1)..(v - 1) : s[k] \in Ows
  <2>1. v \in (n + 1)..e
    BY HeaderEnds DEF ValueAt
  <2>2. Reaches(s, n + 1, v, Ows)
    BY <1>1, AfterReaches
  <2>. HIDE DEF v
  <2>. QED
    BY <2>1, <2>2 DEF Reaches
<1>5. v < e => s[v] \notin Ows
  <2>2. Reaches(s, n + 1, v, Ows)
    BY <1>1, AfterReaches
  <2>. HIDE DEF v
  <2>. QED
    BY <1>1, <1>4, <2>2 DEF Reaches
\* The value is from v to m, when there is one.
<1>6. \E m \in (v - 1)..(e - 1) :
         /\ Trimmed(s, v, e - 1) = SubSeq(s, v, m)
         /\ \A k \in (m + 1)..(e - 1) : s[k] \in Ows
         /\ v <= m => s[v] \notin Ows /\ s[m] \notin Ows
  <2>1. CASE ends = {}
    <3>1. Trimmed(s, v, e - 1) = <<>>
      BY <2>1, Zenon DEF Trimmed
    <3>. HIDE DEF v
    <3>2. v - 1 \in (v - 1)..(e - 1) /\ v - 1 + 1 = v /\ ~(v <= v - 1) /\ v \in 1..Len(s) /\ v \in v..Len(s)
      BY <1>1, <1>4
    <3>3. SubSeq(s, v, v - 1) = <<>>
      <4>1. SubSeq(s, v, v - 1) \in Seq(Bytes) /\ Len(SubSeq(s, v, v - 1)) = v - v
        BY <3>2, SpanIs
      <4>2. v - v = 0
        BY <3>2
      <4>. QED
        BY <4>1, <4>2, EmptySeq
    <3>4. \A k \in v..(e - 1) : s[k] \in Ows
      BY <2>1
    <3>. QED
      BY <3>1, <3>2, <3>3, <3>4
  <2>2. CASE ends # {}
    <3>. DEFINE m == Max(ends)
    <3>1. ends \in SUBSET (0..e)
      <4>. HIDE DEF v
      <4>. QED
        BY <1>1, <1>4
    <3>2. m \in ends /\ \A k \in ends : m >= k
      <4>. HIDE DEF ends
      <4>. QED
        BY <1>1, <2>2, <3>1, MostIs
    <3>3. Trimmed(s, v, e - 1) = SubSeq(s, v, m)
      BY <2>2, Zenon DEF Trimmed
    <3>4. m \in v..(e - 1) /\ s[m] \notin Ows
      BY <3>2
    <3>5. ASSUME NEW k \in (m + 1)..(e - 1) PROVE s[k] \in Ows
      <4>. HIDE DEF v, m
      <4>1. k \in v..(e - 1) /\ ~(m >= k)
        BY <1>1, <1>4, <3>4
      <4>. QED
        BY <3>2, <4>1
    <3>. HIDE DEF v, m
    <3>6. m \in (v - 1)..(e - 1) /\ v <= m /\ v < e
      BY <1>1, <1>4, <3>4
    <3>. QED
      BY <1>5, <3>3, <3>4, <3>5, <3>6
  <2>. QED
    BY <2>1, <2>2
<1>7. PICK m \in (v - 1)..(e - 1) :
         /\ Trimmed(s, v, e - 1) = SubSeq(s, v, m)
         /\ \A k \in (m + 1)..(e - 1) : s[k] \in Ows
         /\ v <= m => s[v] \notin Ows /\ s[m] \notin Ows
  BY <1>6
<1>8. Pair(s, i, n, e) = [name |-> SubSeq(s, i, n - 1), value |-> SubSeq(s, v, m)]
  BY <1>7 DEF Pair
<1>. HIDE DEF l, v
<1>. DEFINE c == n - i + 1
            a == v - i + 1
            b == m - i + 1
<1>9. /\ c \in 2..Len(l) /\ a \in (c + 1)..(Len(l) + 1) /\ b \in (a - 1)..Len(l) /\ c \in 1..(e - i)
      /\ i + c - 1 = n /\ i + a - 1 = v /\ i + b - 1 = m /\ i + 1 - 1 = i /\ i + (c - 1) - 1 = n - 1
      /\ (a <= b <=> v <= m) /\ 1 \in 1..Len(l) /\ a \in Nat \ {0}
  BY <1>1, <1>3, <1>4
<1>10. l[c] = ":" /\ \A k \in 1..(c - 1) : l[k] # ":"
  <2>1. \A k \in 1..(c - 1) : k \in 1..(e - i) /\ i + k - 1 \in i..(n - 1)
    BY <1>1
  <2>. HIDE DEF c
  <2>. QED
    BY <1>3, <1>9, <2>1 DEF HeaderAt, Token
<1>11. \A k \in ((c + 1)..(a - 1)) \cup ((b + 1)..Len(l)) : l[k] \in Ows
  <2>1. ASSUME NEW k \in ((c + 1)..(a - 1)) \cup ((b + 1)..Len(l)) PROVE l[k] \in Ows
    <3>1. k \in 1..(e - i) /\ (i + k - 1 \in (n + 1)..(v - 1) \/ i + k - 1 \in (m + 1)..(e - 1))
      BY <1>1, <1>3, <1>4
    <3>. QED
      BY <1>3, <1>4, <1>7, <3>1
  <2>. QED
    BY <2>1
<1>12. a <= b => l[a] \notin Ows /\ l[b] \notin Ows
  <2>1. SUFFICES ASSUME a <= b PROVE l[a] \notin Ows /\ l[b] \notin Ows
    OBVIOUS
  <2>2. a \in 1..(e - i) /\ b \in 1..(e - i)
    BY <1>3, <1>9, <2>1
  <2>. HIDE DEF a, b
  <2>. QED
    BY <1>3, <1>7, <1>9, <2>1, <2>2
<1>13. SubSeq(l, 1, c - 1) = SubSeq(s, i, n - 1) /\ SubSeq(l, a, b) = SubSeq(s, v, m)
  <2>. HIDE DEF a, b, c
  <2>1. a \in 1..(Len(l) + 1) /\ b \in 0..Len(l) /\ c - 1 \in 0..Len(l) /\ 1 \in 1..(Len(l) + 1)
    BY <1>3, <1>9
  <2>2. \A x \in 1..(Len(l) + 1), y \in 0..Len(l) : SubSeq(l, x, y) = SubSeq(s, i + x - 1, i + y - 1)
    BY <1>1, <1>2, SpanOfSpan
  <2>. QED
    BY <1>9, <2>1, <2>2
<1>. HIDE DEF a, b, c
<1>. QED
  BY <1>8, <1>9, <1>10, <1>11, <1>12, <1>13, Zenon DEF IsPair, l

\* The lines before the one at i and behind the request line, k of them, are those that hs
\* lists, as far as there is room.
Number(s, j) == Cardinality(LinesTo(s, j))
Listed(s, i, k, hs) ==
  /\ Len(hs) = IF MaxHeaders <= k THEN MaxHeaders ELSE k
  /\ \A j \in LinesTo(s, i) : Number(s, j) \in DOMAIN hs => IsPair(LineAt(s, j), hs[Number(s, j)])

\* A line has a smaller number than those behind it.
LEMMA NumberGrows ==
  ASSUME NEW s \in Seq(Bytes), NEW i \in LineStarts(s), NEW j \in LinesTo(s, i)
  PROVE  Number(s, j) \in Nat /\ Number(s, i) \in Nat /\ Number(s, j) < Number(s, i)
<1>1. j \in LineStarts(s) /\ j < i /\ i \in Nat /\ j \in Nat /\ \A c \in LineStarts(s) : c \in Nat
  BY StartsType DEF LinesTo
<1>2. LinesTo(s, j) \in SUBSET LinesTo(s, i) /\ j \notin LinesTo(s, j)
  <2>1. ASSUME NEW c \in LinesTo(s, j) PROVE c \in LinesTo(s, i) /\ c # j
    <3>1. c \in LineStarts(s) /\ c < j
      BY <2>1 DEF LinesTo
    <3>2. c < i /\ c # j
      BY <1>1, <3>1
    <3>. QED
      BY <3>1, <3>2 DEF LinesTo
  <2>. QED
    BY <2>1
<1>3. LinesTo(s, j) # LinesTo(s, i)
  <2>1. j \in LinesTo(s, i)
    OBVIOUS
  <2>. QED
    BY <1>2, <2>1
<1>4. Number(s, j) \in Nat /\ Number(s, i) \in Nat
  BY Finite DEF Number
<1>5. Number(s, j) <= Number(s, i) /\ Number(s, j) # Number(s, i)
  BY <1>2, <1>3, Finite, FS_Subset DEF Number
<1>. QED
  BY <1>4, <1>5

Headers == [name : Seq(Bytes), value : Seq(Bytes)]

LEMMA ListGrows ==
  ASSUME NEW s \in Seq(Bytes), NEW i, NEW k \in Nat, Behind(s, i, k), NEW n, NEW e, HeaderAt(s, i, n, e),
         NEW hs \in Seq(Headers), Listed(s, i, k, hs), MaxHeaders \in Nat
  PROVE  Listed(s, e + 2, k + 1, Stored(hs, Pair(s, i, n, e)))
<1>. DEFINE x == Pair(s, i, n, e)
            gs == Stored(hs, x)
<1>1. i \in LineStarts(s) /\ Number(s, i) = k + 1
  BY DEF Behind, Number
<1>2. LinesTo(s, e + 2) = LinesTo(s, i) \cup {i}
  BY <1>1, HeaderIsLine, OneMore
<1>3. x \in Headers /\ IsPair(LineAt(s, i), x)
  BY <1>1, PairType, PairIsOne DEF Headers
<1>4. \A j \in LinesTo(s, i) : Number(s, j) \in Nat /\ Number(s, j) <= k
  BY <1>1, NumberGrows
<1>5. Len(hs) = (IF MaxHeaders <= k THEN MaxHeaders ELSE k) /\ DOMAIN hs = 1..Len(hs)
  BY DEF Listed
<1>6. \A j \in LinesTo(s, i) : Number(s, j) \in DOMAIN hs => IsPair(LineAt(s, j), hs[Number(s, j)])
  BY DEF Listed
<1>. HIDE DEF x
<1>7. CASE MaxHeaders <= k
  <2>1. gs = hs
    BY <1>5, <1>7 DEF Stored
  <2>2. Len(gs) = IF MaxHeaders <= k + 1 THEN MaxHeaders ELSE k + 1
    BY <1>5, <1>7, <2>1
  <2>3. Number(s, i) \notin DOMAIN gs
    BY <1>1, <1>5, <1>7, <2>1
  <2>. HIDE DEF gs
  <2>. QED
    BY <1>2, <1>6, <2>1, <2>2, <2>3 DEF Listed, gs, x
<1>8. CASE ~(MaxHeaders <= k)
  <2>1. gs = Append(hs, x) /\ Len(hs) = k
    BY <1>5, <1>8 DEF Stored
  <2>. HIDE DEF gs
  <2>2. /\ Len(gs) = k + 1 /\ DOMAIN gs = 1..(k + 1) /\ gs[k + 1] = x
        /\ \A c \in 1..k : gs[c] = hs[c]
    BY <1>3, <2>1, AppendProperties
  <2>3. Len(gs) = IF MaxHeaders <= k + 1 THEN MaxHeaders ELSE k + 1
    BY <1>8, <2>2
  <2>4. ASSUME NEW j \in LinesTo(s, i), Number(s, j) \in DOMAIN gs
        PROVE  IsPair(LineAt(s, j), gs[Number(s, j)])
    <3>1. Number(s, j) \in 1..k
      BY <1>4, <2>2, <2>4
    <3>. QED
      BY <1>5, <1>6, <2>1, <2>2, <3>1
  <2>5. IsPair(LineAt(s, i), gs[Number(s, i)])
    BY <1>1, <1>3, <2>2
  <2>. QED
    BY <1>2, <2>3, <2>4, <2>5 DEF Listed, gs, x
<1>. QED
  BY <1>7, <1>8

\* When the header part ends, those are its headers.
LEMMA ListEnds ==
  ASSUME NEW s \in Seq(Bytes), NEW i, NEW k \in Nat, Behind(s, i, k), ExpectCrlf(s, i),
         NEW hs, Listed(s, i, k, hs), hs \in Seq(Headers), MaxHeaders \in Nat
  PROVE  AreHeaders(s, i + 2, hs)
<1>1. i \in LineStarts(s) /\ Number(s, i) = k + 1 /\ i \in 1..(Len(s) + 1) /\ Len(s) \in Nat
  BY StartsType DEF Behind, Number
<1>2. LineEnds(s, i, i)
  BY <1>1 DEF LineEnds, ExpectCrlf, At
<1>3. LinesTo(s, i + 2) = LinesTo(s, i) \cup {i} /\ Cardinality(LinesTo(s, i + 2)) = k + 2
  BY <1>1, <1>2, OneMore DEF Number
<1>4. Len(hs) = Min({MaxHeaders, Cardinality(LinesTo(s, i + 2)) - 2})
  <2>1. k + 2 - 2 = k
    OBVIOUS
  <2>2. Len(hs) = IF MaxHeaders <= k THEN MaxHeaders ELSE k
    BY DEF Listed
  <2>. QED
    BY <1>3, <2>1, <2>2, LeastOfTwo
<1>5. Number(s, i) \notin DOMAIN hs
  BY <1>1 DEF Listed
<1>6. \A j \in LinesTo(s, i + 2) : Number(s, j) \in DOMAIN hs => IsPair(LineAt(s, j), hs[Number(s, j)])
  BY <1>3, <1>5 DEF Listed
<1>. QED
  BY <1>4, <1>6 DEF AreHeaders, LinesTo, Number

\* So the walk goes over headers, and ends behind an empty line.
LEMMA WalkIsHead ==
  ASSUME NEW s \in Seq(Bytes), RequestLine(s) # 0, LimitsAllowed, Passed(s).at = "end"
  PROVE  IsHead(s, Passed(s).pos) /\ AreHeaders(s, Passed(s).pos, Passed(s).headers)
<1>. DEFINE p == RequestLine(s)
<1>1. PICK m, q : Fits(s, m, q) /\ p = m + q + 6
  BY TakenFits
<1>2. LineEnds(s, 1, m + q + 4) /\ IsRequestLine(LineAt(s, 1))
  BY <1>1, FitsIsLine
<1>3. p \in 7..(Len(s) + 1) /\ p \in 1..(Len(s) + 1) /\ m + q + 4 + 2 = p
  <2>1. m \in Nat /\ q \in Nat /\ MaxMethod \in Nat /\ MaxPath \in Nat
    BY <1>1 DEF Fits, LimitsAllowed
  <2>2. m + q + 4 + 2 = p
    BY <1>1, <2>1
  <2>3. p \in 7..(Len(s) + 1)
    BY LineInBuffer
  <2>. HIDE DEF p
  <2>. QED
    BY <2>2, <2>3
<1>. HIDE DEF p
<1>4. Behind(s, p, 0)
  <2>1. LinesTo(s, p) = {1} /\ Cardinality(LinesTo(s, p)) = 1
    BY <1>2, <1>3, OneMore, NoneYet
  <2>2. p \in LineStarts(s)
    BY <1>2, <1>3, NextLine
  <2>. QED
    BY <1>3, <2>1, <2>2 DEF Behind
<1>5. MaxLines \in Nat /\ MaxHeaders \in Nat /\ MaxHeaders > 0
  BY DEF LimitsAllowed
<1>6. PICK w : Walks(s, p, w, MaxLines) /\ Passed(s) = w[MaxLines]
  BY <1>5, WalkIs DEF Passed, p
<1>7. \A k \in 0..MaxLines : InBuffer(s, w[k])
  BY <1>3, <1>6, WalkInBuffer
<1>8. \A k \in 0..MaxLines : w[k] = IF k = 0 THEN Before(p) ELSE Line(s, w[k - 1])
  BY <1>6 DEF Walks
<1>. DEFINE OnTheWay(h, k) == h.at = "line" => Behind(s, h.pos, k) /\ Listed(s, h.pos, k, h.headers)
            Over(h) == h.at = "end" => IsHead(s, h.pos) /\ AreHeaders(s, h.pos, h.headers)
            S == {k \in 0..MaxLines : OnTheWay(w[k], k) /\ Over(w[k])}
<1>9. 0 \in S
  <2>1. w[0] = Before(p) /\ 0 \in 0..MaxLines
    BY <1>5, <1>8
  <2>2. Listed(s, p, 0, <<>>)
    <3>1. DOMAIN <<>> = {} /\ Len(<<>>) = 0
      OBVIOUS
    <3>. QED
      BY <1>5, <3>1 DEF Listed
  <2>. QED
    BY <1>4, <2>1, <2>2 DEF Before
<1>10. ASSUME NEW k \in 0..(MaxLines - 1), k \in S PROVE k + 1 \in S
  <2>. DEFINE h == w[k]
  <2>1. k + 1 \in 0..MaxLines /\ k + 1 # 0 /\ k + 1 - 1 = k /\ k \in 0..MaxLines /\ k \in Nat
    BY <1>5
  <2>2. w[k + 1] = Line(s, h)
    BY <1>8, <2>1
  <2>3. h \in Passes /\ h.pos \in 1..(Len(s) + 1) /\ h.headers \in Seq(Headers)
    BY <1>7, <2>1 DEF InBuffer, Passes, Headers
  <2>. SUFFICES OnTheWay(w[k + 1], k + 1) /\ Over(w[k + 1])
    BY <2>1
  <2>t. OnTheWay(h, k) /\ Over(h)
    BY <1>10
  <2>4. CASE h.at # "line"
    <3>1. w[k + 1] = h
      BY <2>2, <2>4 DEF Line
    <3>. QED
      BY <2>t, <2>4, <3>1
  <2>5. CASE h.at = "line"
    <3>1. w[k + 1] = HeaderLine(s, h) /\ Behind(s, h.pos, k) /\ Listed(s, h.pos, k, h.headers)
      BY <2>t, <2>2, <2>5 DEF Line
    <3>. HIDE DEF h
    <3>2. CASE ExpectCrlf(s, h.pos) /\ HeaderLine(s, h) = Ended(h)
      <4>1. w[k + 1].at = "end" /\ w[k + 1].pos = h.pos + 2 /\ w[k + 1].headers = h.headers
        BY <2>3, <3>1, <3>2 DEF Ended, Passes
      <4>2. IsHead(s, h.pos + 2)
        BY <1>2, <3>1, <3>2, BlankEnds
      <4>3. AreHeaders(s, h.pos + 2, h.headers)
        BY <1>5, <2>1, <2>3, <3>1, <3>2, ListEnds
      <4>. QED
        BY <4>1, <4>2, <4>3
    <3>3. ASSUME NEW n, NEW e, HeaderAt(s, h.pos, n, e), HeaderLine(s, h) = Kept(s, h, n, e)
          PROVE  OnTheWay(w[k + 1], k + 1) /\ Over(w[k + 1])
      <4>1. /\ w[k + 1].at = "line" /\ w[k + 1].pos = e + 2
            /\ w[k + 1].headers = Stored(h.headers, Pair(s, h.pos, n, e))
        <5>1. h.at = "line"
          BY <2>5 DEF h
        <5>2. w[k + 1] = [pos |-> e + 2, at |-> "line", headers |-> Stored(h.headers, Pair(s, h.pos, n, e))]
          BY <2>3, <3>1, <3>3, <5>1 DEF Kept, Passes
        <5>. QED
          BY <5>2
      <4>2. Behind(s, e + 2, k + 1)
        BY <2>1, <3>1, <3>3, GoesOn
      <4>3. Listed(s, e + 2, k + 1, Stored(h.headers, Pair(s, h.pos, n, e)))
        BY <1>5, <2>1, <2>3, <3>1, <3>3, ListGrows
      <4>. QED
        BY <4>1, <4>2, <4>3
    <3>4. CASE HeaderLine(s, h) = Refused(h)
      <4>1. w[k + 1].at = "error"
        BY <2>3, <3>1, <3>4 DEF Refused, Passes
      <4>. QED
        BY <4>1
    <3>. HIDE DEF OnTheWay, Over
    <3>. QED
      BY <2>3, <3>2, <3>3, <3>4, PassIsOneOf
  <2>. QED
    BY <2>4, <2>5
<1>11. MaxLines \in S
  <2>. HIDE DEF S
  <2>1. \A k \in 0..MaxLines : k \in S
    BY <1>5, <1>9, <1>10, UpTo
  <2>. QED
    BY <1>5, <2>1
<1>. QED
  BY <1>6, <1>11

LEMMA OkIsHead ==
  ASSUME NEW s \in Seq(Bytes), s # <<>>, Parse(s).result = "ok", LimitsAllowed
  PROVE  /\ RequestLine(s) # 0 /\ Parse(s) = Accepts(s)
         /\ IsHead(s, Parse(s).body) /\ AreHeaders(s, Parse(s).body, Parse(s).headers)
<1>1. Judged(s).result # "ok" /\ NeedMore.result # "ok" /\ Error.result # "ok"
  BY DEF Judged, NeedMore, Error, Verdict
<1>2. RequestLine(s) # 0 /\ Parse(s) = Accepts(s) /\ Passed(s).at = "end"
  BY <1>1, ParseIs
<1>. QED
  BY <1>2, WalkIsHead DEF Accepts


-----------------------------------------------------------------------------
(* A request with a header is taken.                                       *)

\* The request line of one is taken.
LEMMA LineIsTaken ==
  ASSUME NEW s \in Seq(Bytes), NEW e, LineEnds(s, 1, e), IsRequestLine(LineAt(s, 1)), LimitsAllowed
  PROVE  RequestLine(s) = e + 2
<1>1. PICK m \in 1..(MaxMethod - 1), q \in 1..(MaxPath - 1) :
        LET l == LineAt(s, 1) IN
        /\ Len(l) = m + q + 3
        /\ \A k \in 1..m : l[k] \in Token
        /\ \A k \in (m + 2)..(m + q + 1) : l[k] \notin {"SP"} \cup EndsLine
        /\ l[m + 1] = "SP" /\ l[m + q + 2] = "SP" /\ l[m + q + 3] = "V"
  BY DEF IsRequestLine
<1>2. MaxMethod \in Nat /\ MaxPath \in Nat /\ Len(s) \in Nat
  BY DEF LimitsAllowed
<1>. DEFINE l == LineAt(s, 1)
<1>3. e \in 1..(Len(s) - 1) /\ l = SubSeq(s, 1, e - 1) /\ 1 \in 1..Len(s) /\ e \in 1..Len(s)
      /\ s[e] = "CR" /\ s[e + 1] = "LF"
  <2>1. e \in 1..(Len(s) - 1) /\ l = SubSeq(s, 1, e - 1)
    BY NextLine
  <2>2. s[e] = "CR" /\ s[e + 1] = "LF"
    BY DEF LineEnds
  <2>. HIDE DEF l
  <2>. QED
    BY <1>2, <2>1, <2>2
<1>4. Len(l) = e - 1 /\ \A k \in 1..(e - 1) : l[k] = s[1 + k - 1]
  <2>. HIDE DEF l
  <2>. QED
    BY <1>3, SpanIs
<1>5. /\ Len(l) = m + q + 3 /\ \A k \in 1..m : l[k] \in Token
      /\ \A k \in (m + 2)..(m + q + 1) : l[k] \notin {"SP"} \cup EndsLine
      /\ l[m + 1] = "SP" /\ l[m + q + 2] = "SP" /\ l[m + q + 3] = "V"
  BY <1>1
<1>. HIDE DEF l
<1>6. e - 1 = m + q + 3 /\ e = m + q + 4 /\ e + 1 = m + q + 5 /\ m + q + 5 <= Len(s)
      /\ e + 2 = m + q + 6
  BY <1>2, <1>3, <1>4, <1>5
<1>7. \A k \in 1..(m + q + 3) : l[k] = s[k]
  BY <1>2, <1>4, <1>6
<1>8. /\ \A k \in 1..m : k \in 1..(m + q + 3)
      /\ \A k \in (m + 2)..(m + q + 1) : k \in 1..(m + q + 3)
      /\ {m + 1, m + q + 2, m + q + 3} \subseteq 1..(m + q + 3)
  BY <1>2
<1>9. /\ \A k \in 1..m : s[k] \in Token
      /\ \A k \in (m + 2)..(m + q + 1) : s[k] \notin {"SP"} \cup EndsLine
      /\ s[m + 1] = "SP" /\ s[m + q + 2] = "SP" /\ s[m + q + 3] = "V"
  BY <1>5, <1>7, <1>8
<1>10. Fits(s, m, q)
  BY <1>3, <1>6, <1>9 DEF Fits
<1>. QED
  BY <1>6, <1>10, FitsIsTaken

\* A line that is a header is taken as one.
LEMMA KeptIsHeader ==
  ASSUME NEW s \in Seq(Bytes), NEW i, NEW e, LineEnds(s, i, e), IsKept(LineAt(s, i))
  PROVE  \E n : HeaderAt(s, i, n, e)
<1>. DEFINE l == LineAt(s, i)
<1>1. /\ Len(s) \in Nat /\ i \in 1..(Len(s) - 1) /\ e \in i..(Len(s) - 1)
      /\ l = SubSeq(s, i, e - 1) /\ i \in 1..Len(s) /\ e \in i..Len(s)
      /\ s[e] = "CR" /\ s[e + 1] = "LF"
  BY NextLine DEF LineEnds
<1>2. Len(l) = e - i /\ (\A j \in 1..(e - i) : l[j] = s[i + j - 1]) /\ l \in Seq(Bytes)
  <2>. HIDE DEF l
  <2>. QED
    BY <1>1, SpanIs
<1>3. PICK k \in 2..Len(l) : l[k] = ":" /\ \A j \in 1..(k - 1) : l[j] \in Token
  BY DEF IsKept, IsHeader
<1>4. \A c \in Range(l) : c \notin EndsLine
  BY DEF IsKept
<1>. HIDE DEF l
<1>. DEFINE n == i + k - 1
<1>5. n \in Nat /\ i < n /\ n < e /\ e < Len(s) /\ i \in Nat \ {0} /\ e \in Nat /\ k \in 1..(e - i)
  BY <1>1, <1>2, <1>3
<1>6. s[n] = ":"
  BY <1>2, <1>3, <1>5
<1>7. ASSUME NEW c \in i..(n - 1) PROVE s[c] \in Token
  <2>1. c - i + 1 \in 1..(k - 1) /\ c - i + 1 \in 1..(e - i) /\ i + (c - i + 1) - 1 = c
    BY <1>1, <1>3, <1>5
  <2>2. l[c - i + 1] \in Token /\ l[c - i + 1] = s[i + (c - i + 1) - 1]
    BY <1>2, <1>3, <2>1
  <2>. QED
    BY <2>1, <2>2
<1>8. ASSUME NEW c \in n..(e - 1) PROVE s[c] \notin EndsLine
  <2>1. c - i + 1 \in 1..(e - i) /\ i + (c - i + 1) - 1 = c
    BY <1>1, <1>3, <1>5
  <2>2. l[c - i + 1] = s[i + (c - i + 1) - 1] /\ l[c - i + 1] \in Range(l)
    BY <1>2, <2>1 DEF Range
  <2>. QED
    BY <1>4, <2>1, <2>2
<1>. HIDE DEF n
<1>9. HeaderAt(s, i, n, e)
  BY <1>1, <1>5, <1>6, <1>7, <1>8 DEF HeaderAt
<1>. QED
  BY <1>9

\* What is known of a head with a header: its lines, and the empty one at x.
HeadAt(s, p, x) ==
  /\ p \in LineStarts(s) /\ LinesTo(s, p) = {1} /\ p = RequestLine(s) /\ p # 0
  /\ x \in LineStarts(s) /\ p + 2 <= x /\ ExpectCrlf(s, x) /\ x + 2 \in LineStarts(s)
  /\ \A i \in LineStarts(s) : p <= i /\ i < x => IsKept(LineAt(s, i))
  /\ Cardinality(LinesTo(s, x)) <= MaxLines

LEMMA HeadIs ==
  ASSUME NEW s \in Seq(Bytes), NEW b, IsHead(s, b), Cardinality(LinesTo(s, b)) > 2, LimitsAllowed
  PROVE  \E p, x : HeadAt(s, p, x) /\ x + 2 = b
<1>. DEFINE js == LinesTo(s, b)
            x == Max(js)
<1>1. Len(s) \in Nat /\ MaxLines \in Nat
  BY DEF LimitsAllowed
<1>2. /\ b \in LineStarts(s) /\ Cardinality(js) \in 2..(MaxLines + 1)
      /\ IsRequestLine(LineAt(s, 1))
      /\ \A i \in js \ {1} : IF i = Max(js) THEN LineAt(s, i) = <<>>
                             ELSE IsHeader(LineAt(s, i)) /\ \A c \in Range(LineAt(s, i)) : c \notin EndsLine
  BY Zenon DEF IsHead, LinesTo
<1>3. b \in 1..(Len(s) + 1) /\ \A i \in LineStarts(s) : i \in 1..(Len(s) + 1)
  BY <1>2, StartsType
<1>4. b # 1 /\ 1 \in js
  <2>1. b # 1
    BY <1>1, <1>2, NoneYet
  <2>. QED
    BY <1>3, <2>1, StartsType DEF LinesTo
<1>5. PICK e : LineEnds(s, 1, e) /\ e + 2 <= b
  BY <1>2, <1>3, <1>4, StartsType, LineHas
<1>. DEFINE p == e + 2
<1>6. /\ e \in 1..(Len(s) - 1) /\ p \in LineStarts(s) /\ p = RequestLine(s) /\ p # 0 /\ p # 1
      /\ LinesTo(s, p) = {1} /\ \A j \in LineStarts(s) : j > 1 => j >= p
  <2>1. e \in 1..(Len(s) - 1) /\ p \in LineStarts(s) /\ \A j \in LineStarts(s) : j > 1 => j >= p
    BY <1>5, NextLine
  <2>2. p = RequestLine(s)
    BY <1>2, <1>5, LineIsTaken
  <2>3. LinesTo(s, p) = {1}
    BY <1>5, OneMore, NoneYet
  <2>. QED
    BY <2>1, <2>2, <2>3
<1>7. js \in SUBSET (0..b) /\ \A j \in js : j \in LineStarts(s) /\ j < b
  <2>1. ASSUME NEW j \in js PROVE j \in 0..b
    BY <1>3, <2>1 DEF LinesTo
  <2>. QED
    BY <2>1 DEF LinesTo
<1>8. x \in js /\ \A j \in js : x >= j
  <2>. HIDE DEF js
  <2>1. b \in Nat /\ js # {}
    BY <1>3, <1>4
  <2>. QED
    BY <1>7, <2>1, MostIs
<1>9. x \in LineStarts(s) /\ x < b /\ x \in 1..(Len(s) + 1)
  BY <1>3, <1>7, <1>8
<1>. HIDE DEF p
<1>10. p \in js
  <2>1. SUFFICES ASSUME p = b PROVE FALSE
    BY <1>1, <1>3, <1>5, <1>6 DEF p, LinesTo
  <2>2. Cardinality(js) = 1
    BY <1>6, <2>1, FS_Singleton
  <2>. QED
    BY <1>1, <1>2, <2>2
<1>11. x # 1 /\ p <= x
  BY <1>3, <1>6, <1>8, <1>9, <1>10
<1>12. LineAt(s, x) = <<>>
  BY <1>2, <1>8, <1>11
<1>13. PICK f : LineEnds(s, x, f) /\ f + 2 <= b
  BY <1>2, <1>9, LineHas
<1>14. f = x
  <2>1. LineAt(s, x) = SubSeq(s, x, f - 1) /\ x \in 1..Len(s) /\ f \in x..Len(s)
    BY <1>1, <1>9, <1>13, NextLine
  <2>2. Len(SubSeq(s, x, f - 1)) = f - x
    BY <2>1, SpanIs
  <2>3. Len(<<>>) = 0
    OBVIOUS
  <2>4. f - x = 0
    BY <1>12, <2>1, <2>2, <2>3
  <2>. QED
    BY <2>1, <2>4
<1>15. x + 2 \in LineStarts(s) /\ ExpectCrlf(s, x)
  BY <1>13, <1>14, NextLine DEF LineEnds, ExpectCrlf, At
<1>16. x + 2 = b
  <2>1. SUFFICES ASSUME x + 2 < b PROVE FALSE
    BY <1>3, <1>9, <1>13, <1>14
  <2>2. x + 2 \in js
    BY <1>15, <2>1 DEF LinesTo
  <2>3. x >= x + 2
    <3>. HIDE DEF x, js
    <3>. QED
      BY <1>8, <2>2
  <2>. QED
    BY <1>9, <2>3
<1>17. js = LinesTo(s, x) \cup {x} /\ Cardinality(js) = Cardinality(LinesTo(s, x)) + 1
  BY <1>13, <1>14, <1>16, OneMore
<1>18. p # x
  <2>1. SUFFICES ASSUME p = x PROVE FALSE
    OBVIOUS
  <2>2. Cardinality(LinesTo(s, x)) = 1
    BY <1>6, <2>1, FS_Singleton
  <2>. QED
    BY <1>17, <2>2
<1>19. p + 2 <= x
  <2>1. p < x
    BY <1>3, <1>6, <1>9, <1>11, <1>18
  <2>2. PICK g : LineEnds(s, p, g) /\ g + 2 <= x
    BY <1>6, <1>9, <2>1, LineHas
  <2>3. g >= p /\ g \in Nat /\ p \in Nat
    BY <1>3, <1>6, <2>2, NextLine
  <2>. QED
    BY <1>9, <2>2, <2>3
<1>20. ASSUME NEW i \in LineStarts(s), p <= i, i < x PROVE IsKept(LineAt(s, i))
  <2>1. i \in js \ {1} /\ i # Max(js)
    <3>1. i # 1 /\ i < b /\ i # x
      BY <1>3, <1>6, <1>9, <1>20
    <3>. QED
      BY <3>1 DEF LinesTo
  <2>. QED
    BY <1>2, <2>1 DEF IsKept
<1>21. Cardinality(LinesTo(s, x)) <= MaxLines
  BY <1>1, <1>2, <1>17, Finite
<1>. HIDE DEF x, js
<1>22. HeadAt(s, p, x)
  BY <1>6, <1>9, <1>15, <1>19, <1>20, <1>21 DEF HeadAt
<1>. QED
  BY <1>16, <1>22


\* The walk over one goes from line to line, and ends behind the empty one.
LEMMA HeadIsWalked ==
  ASSUME NEW s \in Seq(Bytes), NEW p, NEW x, HeadAt(s, p, x), LimitsAllowed
  PROVE  Passed(s).at = "end" /\ Passed(s).pos = x + 2
<1>1. /\ MaxLines \in Nat /\ Len(s) \in Nat /\ p \in 1..(Len(s) + 1) /\ x \in 1..(Len(s) + 1)
      /\ p \in LineStarts(s) /\ x \in LineStarts(s) /\ p = RequestLine(s) /\ p <= x
  <2>1. p \in LineStarts(s) /\ x \in LineStarts(s) /\ p = RequestLine(s) /\ p + 2 <= x
    BY DEF HeadAt
  <2>2. p \in 1..(Len(s) + 1) /\ x \in 1..(Len(s) + 1)
    BY <2>1, StartsType
  <2>3. MaxLines \in Nat /\ Len(s) \in Nat
    BY DEF LimitsAllowed
  <2>. QED
    BY <2>1, <2>2, <2>3
<1>2. PICK w : Walks(s, p, w, MaxLines) /\ Passed(s) = w[MaxLines]
  BY <1>1, WalkIs DEF Passed
<1>3. \A k \in 0..MaxLines : InBuffer(s, w[k])
  BY <1>1, <1>2, WalkInBuffer
<1>4. \A k \in 0..MaxLines : w[k] = IF k = 0 THEN Before(p) ELSE Line(s, w[k - 1])
  BY <1>2 DEF Walks
<1>. DEFINE S == {k \in 0..MaxLines :
                    \/ /\ w[k].at = "line" /\ w[k].pos \in LineStarts(s) /\ p <= w[k].pos /\ w[k].pos <= x
                       /\ Cardinality(LinesTo(s, w[k].pos)) = k + 1
                    \/ w[k].at = "end" /\ w[k].pos = x + 2}
<1>5. 0 \in S
  <2>1. Cardinality(LinesTo(s, p)) = 0 + 1
    <3>1. LinesTo(s, p) = {1}
      BY DEF HeadAt
    <3>2. Cardinality(LinesTo(s, p)) = 1
      BY <3>1, FS_Singleton
    <3>. QED
      BY <3>2
  <2>2. w[0].at = "line" /\ w[0].pos = p /\ 0 \in 0..MaxLines
    BY <1>1, <1>4 DEF Before
  <2>. QED
    BY <1>1, <2>1, <2>2
<1>6. ASSUME NEW k \in 0..(MaxLines - 1), k \in S PROVE k + 1 \in S
  <2>. DEFINE h == w[k]
  <2>1. k + 1 \in 0..MaxLines /\ k + 1 # 0 /\ k + 1 - 1 = k /\ k \in 0..MaxLines /\ k \in Nat
    BY <1>1
  <2>2. w[k + 1] = Line(s, h)
    BY <1>4, <2>1
  <2>3. h \in Passes /\ h.pos \in 1..(Len(s) + 1)
    BY <1>3, <2>1 DEF InBuffer
  <2>4. CASE h.at # "line"
    <3>1. w[k + 1] = h
      BY <2>2, <2>4 DEF Line
    <3>. QED
      BY <1>6, <2>1, <2>4, <3>1
  <2>5. CASE h.at = "line"
    <3>1. /\ w[k + 1] = HeaderLine(s, h) /\ h.pos \in LineStarts(s) /\ p <= h.pos /\ h.pos <= x
          /\ Cardinality(LinesTo(s, h.pos)) = k + 1
      BY <1>6, <2>2, <2>5 DEF Line
    <3>. HIDE DEF h
    <3>2. CASE h.pos = x
      <4>1. HeaderLine(s, h) = Ended(h)
        <5>1. ExpectCrlf(s, h.pos)
          BY <3>2 DEF HeadAt
        <5>. QED
          BY <5>1, HeaderLineIs, Zenon
      <4>2. w[k + 1].at = "end" /\ w[k + 1].pos = x + 2
        BY <2>3, <3>1, <3>2, <4>1 DEF Ended, Passes
      <4>. QED
        BY <2>1, <4>2
    <3>3. CASE h.pos < x
      <4>1. PICK e : LineEnds(s, h.pos, e) /\ e + 2 <= x
        BY <1>1, <3>1, <3>3, LineHas
      <4>2. IsKept(LineAt(s, h.pos))
        BY <3>1, <3>3 DEF HeadAt
      <4>3. PICK n : HeaderAt(s, h.pos, n, e)
        BY <4>1, <4>2, KeptIsHeader
      <4>4. HeaderLine(s, h) = Kept(s, h, n, e)
        BY <4>3, HeaderIsTaken, Zenon
      <4>5. w[k + 1].at = "line" /\ w[k + 1].pos = e + 2
        BY <2>3, <2>5, <3>1, <4>4 DEF Kept, Passes
      <4>6. e + 2 \in LineStarts(s) /\ h.pos <= e /\ e \in Nat
        BY <1>1, <2>3, <4>1, NextLine
      <4>7. Cardinality(LinesTo(s, e + 2)) = (k + 1) + 1
        BY <3>1, <4>1, OneMore
      <4>8. p <= e + 2
        BY <1>1, <2>3, <3>1, <4>6
      <4>. QED
        BY <2>1, <4>1, <4>5, <4>6, <4>7, <4>8
    <3>. HIDE DEF S
    <3>. QED
      BY <1>1, <2>3, <3>1, <3>2, <3>3
  <2>. QED
    BY <2>4, <2>5
<1>7. MaxLines \in S
  <2>. HIDE DEF S
  <2>1. \A k \in 0..MaxLines : k \in S
    BY <1>1, <1>5, <1>6, UpTo
  <2>. QED
    BY <1>1, <2>1
<1>8. ASSUME w[MaxLines].at = "line" PROVE FALSE
  <2>. DEFINE i == w[MaxLines].pos
  <2>1. i \in LineStarts(s) /\ i <= x /\ Cardinality(LinesTo(s, i)) = MaxLines + 1
    BY <1>7, <1>8
  <2>. HIDE DEF i
  <2>2. LinesTo(s, i) \in SUBSET LinesTo(s, x)
    BY <1>1, <2>1, StartsType DEF LinesTo
  <2>3. Cardinality(LinesTo(s, i)) <= Cardinality(LinesTo(s, x))
    BY <2>2, Finite, FS_Subset
  <2>4. Cardinality(LinesTo(s, x)) <= MaxLines /\ Cardinality(LinesTo(s, x)) \in Nat
    BY Finite DEF HeadAt
  <2>. QED
    BY <1>1, <2>1, <2>3, <2>4
<1>. QED
  BY <1>2, <1>7, <1>8

LEMMA HeadIsOk ==
  ASSUME NEW s \in Seq(Bytes), s # <<>>, NEW b, IsHead(s, b), Cardinality(LinesTo(s, b)) > 2, LimitsAllowed
  PROVE  Parse(s).result = "ok" /\ Parse(s).body = b
<1>1. PICK p, x : HeadAt(s, p, x) /\ x + 2 = b
  BY HeadIs
<1>2. Passed(s).at = "end" /\ Passed(s).pos = b
  BY <1>1, HeadIsWalked
<1>3. BlankLineAhead(s, RequestLine(s)) /\ RequestLine(s) # 0
  <2>1. /\ Len(s) \in Nat /\ p \in LineStarts(s) /\ x \in LineStarts(s) /\ p + 2 <= x
        /\ ExpectCrlf(s, x) /\ p = RequestLine(s) /\ p # 0
    BY <1>1 DEF HeadAt
  <2>2. p \in 1..(Len(s) + 1) /\ x \in 1..(Len(s) + 1)
    BY <2>1, StartsType
  <2>3. x # 1
    BY <2>1, <2>2
  <2>4. s[x - 2] = "CR" /\ s[x - 1] = "LF"
    BY <2>1, <2>3 DEF LineStarts
  <2>5. x - 2 \in p..Len(s) /\ x - 2 + 1 = x - 1 /\ x - 2 + 2 = x /\ x - 2 <= Len(s) /\ x - 1 <= Len(s)
    BY <2>1, <2>2
  <2>6. ExpectCrlf(s, x - 2) /\ ExpectCrlf(s, x - 2 + 2)
    BY <2>1, <2>4, <2>5 DEF ExpectCrlf, At
  <2>. QED
    BY <2>1, <2>5, <2>6 DEF BlankLineAhead
<1>4. Parse(s) = Accepts(s)
  BY <1>2, <1>3, ParseIs
<1>. QED
  BY <1>2, <1>4 DEF Accepts

-----------------------------------------------------------------------------
(* The headers that are kept.                                              *)

HeadersKept(r) ==
  /\ r.headers \in Seq([name : Seq(Bytes), value : Seq(Bytes)])
  /\ Len(r.headers) <= MaxHeaders
  /\ r.result = "ok" => r.length = ContentLength(r.headers)

LEMMA KeepsHeaders ==
  ASSUME NEW s \in Seq(Bytes), s # <<>>, LimitsAllowed
  PROVE  HeadersKept(Parse(s))
<1>1. MaxLines \in Nat /\ MaxHeaders \in Nat /\ 0 <= MaxHeaders
  BY DEF LimitsAllowed
<1>2. \A r \in {NeedMore, Error} : HeadersKept(r)
  <2>1. <<>> \in Seq([name : Seq(Bytes), value : Seq(Bytes)]) /\ Len(<<>>) = 0
    OBVIOUS
  <2>2. \A r \in {NeedMore, Error} : r.headers = <<>> /\ r.result # "ok"
    BY DEF NeedMore, Error, Verdict
  <2>. QED
    BY <1>1, <2>1, <2>2 DEF HeadersKept
<1>3. ASSUME RequestLine(s) # 0 PROVE HeadersKept(Accepts(s))
  <2>. DEFINE p == RequestLine(s)
  <2>1. p \in 1..(Len(s) + 1)
    <3>1. p \in 7..(Len(s) + 1)
      BY <1>3, LineInBuffer
    <3>. HIDE DEF p
    <3>. QED
      BY <3>1
  <2>2. PICK w : Walks(s, p, w, MaxLines) /\ Passed(s) = w[MaxLines]
    BY <1>1, WalkIs DEF Passed
  <2>3. InBuffer(s, w[MaxLines])
    BY <1>1, <2>1, <2>2, WalkInBuffer
  <2>4. /\ Passed(s).headers \in Seq([name : Seq(Bytes), value : Seq(Bytes)])
        /\ Len(Passed(s).headers) <= MaxHeaders
    BY <2>2, <2>3 DEF InBuffer, Passes
  <2>. QED
    BY <2>4 DEF HeadersKept, Accepts
<1>4. Judged(s) \in {NeedMore, Error}
  BY DEF Judged
<1>5. Parse(s) \in {NeedMore, Error} \/ (RequestLine(s) # 0 /\ Parse(s) = Accepts(s))
  BY <1>4, ParseIs
<1>. QED
  BY <1>2, <1>3, <1>5

\* The first of a name is where FindHeader looks.
LEMMA FirstIsFound ==
  ASSUME NEW hs \in Seq([name : Seq(Bytes), value : Seq(Bytes)]), NEW k \in DOMAIN hs,
         \A i \in 1..k : hs[i].name = <<"L">> <=> i = k
  PROVE  ContentLength(hs) = IF Len(hs[k].value) \in 1..MaxDigits THEN hs[k].value ELSE <<>>
<1>1. DOMAIN hs = 1..Len(hs) /\ Len(hs) \in Nat /\ k \in 1..Len(hs)
  OBVIOUS
<1>. DEFINE Named(j) == hs[j].name = <<"L">>
            ls == {j \in DOMAIN hs : Named(j)}
<1>n. \A i \in 1..k : Named(i) <=> i = k
  OBVIOUS
<1>2. k \in ls /\ ls \in SUBSET Nat
  <2>. HIDE DEF Named
  <2>1. k \in 1..k
    BY <1>1
  <2>. QED
    BY <1>1, <1>n, <2>1
<1>3. \A j \in ls : j >= k
  <2>. HIDE DEF Named
  <2>1. SUFFICES ASSUME NEW j \in ls, ~(j >= k) PROVE FALSE
    OBVIOUS
  <2>2. j \in 1..k /\ j # k
    BY <1>1, <2>1
  <2>. QED
    BY <1>n, <2>1, <2>2
<1>4. Min(ls) = k
  <2>. HIDE DEF ls
  <2>1. Min(ls) \in ls /\ Min(ls) <= k
    BY <1>2, LeastIs
  <2>2. Min(ls) >= k /\ Min(ls) \in Nat
    BY <1>2, <1>3, <2>1
  <2>. QED
    BY <1>1, <2>1, <2>2
<1>5. FindHeader(hs) = k
  BY <1>4 DEF FindHeader
<1>6. \E j \in DOMAIN hs : hs[j].name = <<"L">>
  BY <1>2
<1>. QED
  BY <1>5, <1>6, Zenon DEF ContentLength

-----------------------------------------------------------------------------
LEMMA ParserGrammar == LimitsAllowed /\ ParserInv => MatchesGrammar
<1>. SUFFICES ASSUME LimitsAllowed, ParserInv PROVE MatchesGrammar
  OBVIOUS
<1>1. len = 0 \/ len \in 1..Len(input)
  BY DEF ParserInv
<1>2. CASE len = 0
  <2>1. req = NeedMore
    BY <1>2 DEF ParserInv
  <2>2. req.result # "ok"
    BY <2>1 DEF NeedMore, Verdict
  <2>3. Received \in Seq(Bytes)
    <3>1. input \in Seq(Bytes) /\ \A k \in 1..0 : input[k] \in Bytes
      BY DEF ParserInv
    <3>. QED
      BY <1>2, <3>1, SubSeqProperties DEF Received
  <2>4. Cardinality({i \in LineStarts(Received) : i < 1}) = 0
    BY <2>3, NoneYet DEF LinesTo
  <2>. QED
    BY <1>2, <2>2, <2>4 DEF MatchesGrammar
<1>3. CASE len \in 1..Len(input)
  <2>1. Received \in Seq(Bytes) /\ Len(Received) = len /\ req = Parse(Received) /\ len # 0
    BY <1>3, PartIs DEF ParserInv, Received
  <2>2. Received # <<>>
    BY <2>1
  <2>3. req.result = "ok" => IsHead(Received, req.body) /\ AreHeaders(Received, req.body, req.headers)
    BY <2>1, <2>2, OkIsHead
  <2>4. ASSUME NEW b, IsHead(Received, b), Cardinality(LinesTo(Received, b)) > 2
        PROVE  req.result = "ok" /\ req.body = b
    BY <2>1, <2>2, <2>4, HeadIsOk
  <2>. QED
    BY <2>3, <2>4 DEF MatchesGrammar, LinesTo
<1>. QED
  BY <1>1, <1>2, <1>3

LEMMA ParserLength == LimitsAllowed /\ ParserInv => FirstLengthCounts
<1>. SUFFICES ASSUME LimitsAllowed, ParserInv PROVE FirstLengthCounts
  OBVIOUS
<1>1. HeadersKept(req)
  <2>1. CASE len = 0
    <3>1. req.headers = <<>> /\ req.result # "ok"
      BY <2>1 DEF ParserInv, NeedMore, Verdict
    <3>2. Len(<<>>) = 0 /\ <<>> \in Seq([name : Seq(Bytes), value : Seq(Bytes)])
      OBVIOUS
    <3>3. MaxHeaders \in Nat
      BY DEF LimitsAllowed
    <3>4. 0 <= MaxHeaders
      BY <3>3
    <3>. QED
      BY <3>1, <3>2, <3>4 DEF HeadersKept
  <2>2. CASE len # 0
    <3>1. len \in 1..Len(input) /\ req = Parse(Received) /\ input \in Seq(Bytes)
      BY <2>2 DEF ParserInv
    <3>2. Received \in Seq(Bytes) /\ Len(Received) = len
      BY <3>1, PartIs DEF Received
    <3>3. Received # <<>>
      BY <2>2, <3>2
    <3>. QED
      BY <3>1, <3>2, <3>3, KeepsHeaders
  <2>. QED
    BY <2>1, <2>2
<1>2. req.result = "ok" =>
        \A k \in DOMAIN req.headers :
          (\A i \in 1..k : req.headers[i].name = <<"L">> <=> i = k) =>
            req.length = IF Len(req.headers[k].value) \in 1..MaxDigits
                         THEN req.headers[k].value ELSE <<>>
  <2>. DEFINE hs == req.headers
  <2>1. hs \in Seq([name : Seq(Bytes), value : Seq(Bytes)]) /\ (req.result = "ok" => req.length = ContentLength(hs))
    BY <1>1 DEF HeadersKept
  <2>. HIDE DEF hs
  <2>2. req.result = "ok" =>
          \A k \in DOMAIN hs :
            (\A i \in 1..k : hs[i].name = <<"L">> <=> i = k) =>
              req.length = IF Len(hs[k].value) \in 1..MaxDigits THEN hs[k].value ELSE <<>>
    BY <2>1, FirstIsFound
  <2>. QED
    BY <2>2 DEF hs
<1>. QED
  BY <1>1, <1>2 DEF HeadersKept, FirstLengthCounts

\* What http_parse_request takes for a request is one, and a request with a header is taken
\* as soon as its header part is there, for any input and any limits (http_parser.c:199-270).
THEOREM Grammar == Spec => []ParserMatchesGrammar
<1>1. LimitsAllowed /\ InputsAllowed
  BY ParserAssumption
<1>2. ParserInv => ParserMatchesGrammar
  BY <1>1, ParserGrammar, ParserLength DEF ParserMatchesGrammar
<1>. QED
  BY <1>1, <1>2, ParserIs, PTL

-----------------------------------------------------------------------------
(* The request reader.                                                     *)

ReaderTypes ==
  /\ head \in Nat /\ length \in Int /\ sent \in Nat
  /\ size \in 0..ReqMax /\ filled \in 0..sent
  /\ at \in {"room", "read", "judge", "body", "reparse", "end"}
  /\ ptr \in {"none", "fresh", "dangling"}
  /\ verdict \in {"none", "closed", "413", "route"}

\* The NUL has a place behind the bytes, as soon as there is a buffer.
Placed == IF size = 0 THEN filled = 0 ELSE filled < size

\* What is known of the header part at each place.
Progress ==
  /\ at # "end" => head > 0 /\ verdict = "none"
  /\ at \in {"room", "read"} => ~Reader!Parsed
  /\ at = "read" => Reader!Space > 0
  /\ at = "judge" => /\ Reader!Parsed => ptr = "fresh"
                     /\ Reader!Whole /\ Reader!Fits => Reader!Parsed
  /\ at \in {"body", "reparse"} => Reader!Parsed /\ length > 0
  /\ at = "body" => size > Reader!Total
  /\ at = "reparse" /\ Reader!Whole => filled >= Reader!Total

ReaderInv == /\ Reader!SizesAllowed /\ ReaderTypes /\ Placed /\ Progress
             /\ Reader!PointersFresh /\ Reader!RightVerdict

-----------------------------------------------------------------------------
\* It holds before the first connection.
LEMMA ReaderInit == Reader!SizesAllowed /\ Reader!Init => ReaderInv
<1>. SUFFICES ASSUME Reader!SizesAllowed, Reader!Init PROVE ReaderInv
  OBVIOUS
<1>1. ReqMax \in Nat
  BY DEF Reader!SizesAllowed
<1>2. ReaderTypes /\ Placed
  BY <1>1 DEF Reader!Init, ReaderTypes, Placed
<1>3. Progress /\ Reader!PointersFresh /\ Reader!RightVerdict
  BY DEF Reader!Init, Progress, Reader!PointersFresh, Reader!RightVerdict
<1>. QED
  BY <1>2, <1>3 DEF ReaderInv

\* A buffer that is still full after it grew by a chunk is at its limit.
LEMMA FullAtLimit ==
  ASSUME NEW max \in Nat, NEW chunk \in Nat, chunk > 1, NEW l \in Nat, NEW c \in Nat, l <= c,
         NEW d \in Nat, d >= c + chunk \/ d = max
  PROVE  IF d - l < 2 THEN l + 1 >= max ELSE d - l - 1 > 0
  OBVIOUS

\* dynbuf_reserve(rb, want) within the limit makes room, or leaves the buffer as it is.
LEMMA RoomMade ==
  ASSUME ReaderInv, NEW want \in Nat, Reader!Reserved(want)
  PROVE  /\ size' \in 0..ReqMax /\ size' >= size /\ size' >= Reader!Min2(want, ReqMax)
         /\ ptr' \in {"none", "fresh", "dangling"} /\ (ptr # "fresh" => ptr' = ptr)
         /\ filled' = filled /\ failed' = failed
  BY DEF ReaderInv, ReaderTypes, Reader!SizesAllowed, Reader!Reserved, Reader!Min2

\* Every step of the reader keeps it.
LEMMA ReaderStep == ReaderInv /\ [Reader!Next]_Reader!vars => ReaderInv'
<1>a. SUFFICES ASSUME ReaderInv, [Reader!Next]_Reader!vars PROVE ReaderInv'
  OBVIOUS
<1>s. Reader!SizesAllowed /\ Reader!SizesAllowed'
  BY <1>a DEF ReaderInv, Reader!SizesAllowed
<1>0. ReqMax \in Nat /\ ReqChunk \in Nat /\ ReqChunk > 1 /\ ReqChunk <= ReqMax
  BY <1>s DEF Reader!SizesAllowed
<1>t. ReaderTypes /\ Placed /\ Progress /\ Reader!PointersFresh /\ Reader!RightVerdict
  BY <1>a DEF ReaderInv
<1>1. CASE Reader!NextClient
  <2>0. head' \in Nat /\ head' > 0 /\ length' \in Int /\ sent' \in Nat
    BY <1>1, <1>s DEF Reader!NextClient, Reader!SizesAllowed
  <2>1. ReaderTypes'
    BY <1>0, <1>t, <1>1, <2>0 DEF Reader!NextClient, ReaderTypes
  <2>2. Placed'
    BY <1>0, <1>t, <1>1, <2>0 DEF Reader!NextClient, Placed, ReaderTypes
  <2>3. Progress'
    BY <1>0, <1>t, <1>1, <2>0 DEF Reader!NextClient, Progress, Placed, ReaderTypes, Reader!Parsed,
       Reader!Total, Reader!Whole, Reader!Fits, Reader!Space
  <2>4. Reader!PointersFresh'
    BY <1>0, <1>t, <1>1, <2>0 DEF Reader!NextClient, Reader!PointersFresh, Progress, ReaderTypes,
       Reader!Parsed
  <2>5. Reader!RightVerdict'
    BY <1>0, <1>t, <1>1, <2>0 DEF Reader!NextClient, Reader!RightVerdict, Progress, Placed,
       ReaderTypes, Reader!Parsed, Reader!Total, Reader!Whole, Reader!Fits, Reader!Space,
       Reader!BodyLen
  <2>. QED
    BY <1>s, <2>1, <2>2, <2>3, <2>4, <2>5 DEF ReaderInv
<1>2. CASE Reader!Room
  <2>1. ReaderTypes'
    BY <1>0, <1>t, <1>2 DEF Reader!Room, Reader!Full, Reader!request, Reader!buffer,
       Reader!history, ReaderTypes
  <2>2. Placed'
    BY <1>0, <1>t, <1>2 DEF Reader!Room, Reader!Full, Reader!request, Reader!buffer,
       Reader!history, Placed, ReaderTypes
  <2>3. Progress'
    BY <1>0, <1>t, <1>2 DEF Reader!Room, Reader!Full, Reader!request, Reader!buffer,
       Reader!history, Progress, Placed, ReaderTypes, Reader!Parsed, Reader!Total, Reader!Whole,
       Reader!Fits, Reader!Space
  <2>4. Reader!PointersFresh'
    BY <1>0, <1>t, <1>2 DEF Reader!Room, Reader!Full, Reader!request, Reader!buffer,
       Reader!history, Reader!PointersFresh, Progress, ReaderTypes, Reader!Parsed
  <2>5. Reader!RightVerdict'
    BY <1>0, <1>t, <1>2 DEF Reader!Room, Reader!Full, Reader!request, Reader!buffer,
       Reader!history, Reader!RightVerdict, Progress, Placed, ReaderTypes, Reader!Parsed,
       Reader!Total, Reader!Whole, Reader!Fits, Reader!Space, Reader!BodyLen
  <2>. QED
    BY <1>s, <2>1, <2>2, <2>3, <2>4, <2>5 DEF ReaderInv
<1>3. CASE Reader!MakeRoom
  <2>1. CASE /\ Reader!Reserved(size + ReqChunk)
             /\ at' = (IF size' - filled < 2 THEN "judge" ELSE "read")
    <3>0. size + ReqChunk \in Nat
      BY <1>0, <1>t DEF ReaderTypes
    <3>1. /\ size' \in 0..ReqMax /\ size' >= size /\ size' >= Reader!Min2(size + ReqChunk, ReqMax)
          /\ ptr' \in {"none", "fresh", "dangling"} /\ filled' = filled /\ failed' = failed
      BY <2>1, <1>a, <3>0, RoomMade
    <3>2. IF size' - filled < 2 THEN filled + 1 >= ReqMax ELSE size' - filled - 1 > 0
      <4>1. size' >= size + ReqChunk \/ size' = ReqMax
        BY <1>0, <1>t, <3>1 DEF Reader!Min2, ReaderTypes
      <4>2. size \in Nat /\ filled \in Nat /\ size' \in Nat /\ filled <= size
        BY <1>0, <1>t, <3>1 DEF ReaderTypes, Placed
      <4>. QED
        BY <1>0, <4>1, <4>2, FullAtLimit
    <3>3. /\ UNCHANGED <<Reader!request, verdict, stalled>> /\ at = "room"
          /\ \/ at' = "judge" /\ filled + 1 >= ReqMax
             \/ at' = "read" /\ size' - filled - 1 > 0
      BY <1>3, <2>1, <3>2 DEF Reader!MakeRoom
    <3>4. ReaderTypes'
      BY <1>0, <1>t, <3>1, <3>3 DEF Reader!request, ReaderTypes
    <3>5. Placed'
      BY <1>0, <1>t, <3>1, <3>3 DEF Reader!request, Placed, ReaderTypes
    <3>6. Progress'
      <4>1. ~Reader!Parsed' /\ head' > 0 /\ verdict' = "none"
        BY <1>t, <3>1, <3>3 DEF Reader!request, Progress, Reader!Parsed
      <4>2. at' = "read" => Reader!Space' > 0
        BY <3>1, <3>3 DEF Reader!Space
      <4>3. at' = "judge" => ~Reader!Fits'
        BY <1>0, <1>t, <3>1, <3>3, <4>1 DEF Reader!request, ReaderTypes, Reader!Parsed, Reader!Fits
      <4>4. at' \in {"judge", "read"}
        BY <3>3
      <4>. QED
        BY <4>1, <4>2, <4>3, <4>4, Zenon DEF Progress
    <3>7. Reader!PointersFresh'
      BY <1>0, <1>t, <3>1, <3>3 DEF Reader!request, Reader!PointersFresh, Progress, ReaderTypes,
         Reader!Parsed
    <3>8. Reader!RightVerdict'
      BY <1>0, <1>t, <3>1, <3>3 DEF Reader!request, Reader!RightVerdict, Progress, Placed,
         ReaderTypes, Reader!Parsed, Reader!Total, Reader!Whole, Reader!Fits, Reader!Space,
         Reader!BodyLen
    <3>. QED
      BY <1>s, <3>4, <3>5, <3>6, <3>7, <3>8 DEF ReaderInv
  <2>2. CASE Reader!ReserveFails(size + ReqChunk) /\ at' = "judge"
    <3>1. ReaderTypes'
      BY <1>0, <1>t, <1>3, <2>2 DEF Reader!MakeRoom, Reader!ReserveFails, Reader!request,
         Reader!buffer, ReaderTypes
    <3>2. Placed'
      BY <1>0, <1>t, <1>3, <2>2 DEF Reader!MakeRoom, Reader!ReserveFails, Reader!request,
         Reader!buffer, Placed, ReaderTypes
    <3>3. Progress'
      BY <1>0, <1>t, <1>3, <2>2 DEF Reader!MakeRoom, Reader!ReserveFails, Reader!request,
         Reader!buffer, Progress, Placed, ReaderTypes, Reader!Parsed, Reader!Total, Reader!Whole,
         Reader!Fits, Reader!Space
    <3>4. Reader!PointersFresh'
      BY <1>0, <1>t, <1>3, <2>2 DEF Reader!MakeRoom, Reader!ReserveFails, Reader!request,
         Reader!buffer, Reader!PointersFresh, Progress, ReaderTypes, Reader!Parsed
    <3>5. Reader!RightVerdict'
      BY <1>0, <1>t, <1>3, <2>2 DEF Reader!MakeRoom, Reader!ReserveFails, Reader!request,
         Reader!buffer, Reader!RightVerdict, Progress, Placed, ReaderTypes, Reader!Parsed,
         Reader!Total, Reader!Whole, Reader!Fits, Reader!Space, Reader!BodyLen
    <3>. QED
      BY <1>s, <3>1, <3>2, <3>3, <3>4, <3>5 DEF ReaderInv
  <2>. QED
    BY <1>3, <2>1, <2>2 DEF Reader!MakeRoom
<1>4. CASE Reader!Read
  <2>0. /\ filled' \in Nat /\ filled' > filled /\ filled' <= sent /\ filled' < size /\ size' = size
        /\ UNCHANGED <<Reader!request, Reader!history>> /\ at = "read"
    BY <1>0, <1>t, <1>4 DEF Reader!Read, Reader!Receives, Reader!Space, Reader!Min2, ReaderTypes
  <2>1. ReaderTypes'
    BY <1>0, <1>t, <1>4, <2>0 DEF Reader!Read, Reader!Ends, Reader!request, Reader!history,
       ReaderTypes
  <2>2. Placed'
    BY <1>0, <1>t, <1>4, <2>0 DEF Reader!Read, Reader!Ends, Reader!request, Reader!history,
       Placed, ReaderTypes
  <2>r. /\ head' = head /\ head > 0 /\ head \in Nat /\ length' = length /\ length \in Int
        /\ verdict = "none"
        /\ malformed' = malformed /\ ~(filled >= head)
    BY <1>t, <2>0 DEF Reader!request, Progress, ReaderTypes, Reader!Parsed
  <2>c. \/ malformed /\ at' = "end" /\ verdict' = "closed"
        \/ ~(filled' >= head) /\ at' = "room" /\ verdict' = "none"
        \/ ~malformed /\ filled' >= head /\ at' = "judge" /\ ptr' = "fresh" /\ verdict' = "none"
    <3>1. \/ malformed /\ at' = "end" /\ verdict' = "closed"
          \/ filled' < head /\ at' = "room" /\ verdict' = verdict
          \/ ~malformed /\ filled' >= head /\ at' = "judge" /\ ptr' = "fresh" /\ verdict' = verdict
      BY <1>4 DEF Reader!Read, Reader!Ends
    <3>2. filled' < head => ~(filled' >= head)
      BY <2>0, <2>r
    <3>. QED
      BY <3>1, <3>2, <2>r, Zenon
  <2>p. Reader!Parsed' <=> filled' >= head
    BY <2>r DEF Reader!Parsed
  <2>3. Progress'
    BY <2>c, <2>p, <2>r, Zenon DEF Progress
  <2>4. Reader!PointersFresh'
    BY <1>0, <1>t, <1>4, <2>0 DEF Reader!Read, Reader!Ends, Reader!request, Reader!history,
       Reader!PointersFresh, Progress, ReaderTypes, Reader!Parsed
  <2>5. Reader!RightVerdict'
    <3>1. malformed => ~Reader!Whole'
      BY <2>r, Zenon DEF Reader!Whole
    <3>. QED
      BY <2>c, <3>1, Zenon DEF Reader!RightVerdict
  <2>. QED
    BY <1>s, <2>1, <2>2, <2>3, <2>4, <2>5 DEF ReaderInv
<1>5. CASE Reader!ReadEnds
  <2>0. ~stalled' => ~stalled /\ ~(Reader!Space > 0 /\ filled < sent)
    BY <1>5, Zenon DEF Reader!ReadEnds, Reader!ReadsNothing
  <2>00. /\ at = "read" /\ UNCHANGED <<Reader!buffer, Reader!request, ptr, failed>>
         /\ IF filled = 0 THEN at' = "end" /\ verdict' = "closed"
                          ELSE at' = "judge" /\ UNCHANGED verdict
    BY <1>5 DEF Reader!ReadEnds, Reader!ReadsNothing, Reader!Ends
  <2>1. ReaderTypes'
    BY <1>0, <1>t, <2>0, <2>00 DEF Reader!request, Reader!buffer, ReaderTypes
  <2>2. Placed'
    BY <1>0, <1>t, <2>0, <2>00 DEF Reader!request, Reader!buffer, Placed, ReaderTypes
  <2>3. Progress'
    BY <1>0, <1>t, <2>0, <2>00 DEF Reader!request, Reader!buffer, Progress, Placed, ReaderTypes,
       Reader!Parsed, Reader!Total, Reader!Whole, Reader!Fits, Reader!Space
  <2>4. Reader!PointersFresh'
    BY <1>0, <1>t, <2>0, <2>00 DEF Reader!request, Reader!buffer, Reader!PointersFresh, Progress,
       ReaderTypes, Reader!Parsed
  <2>5. Reader!RightVerdict'
    BY <1>0, <1>t, <2>0, <2>00 DEF Reader!request, Reader!buffer, Reader!RightVerdict, Progress,
       Placed, ReaderTypes, Reader!Parsed, Reader!Total, Reader!Whole, Reader!Fits, Reader!Space,
       Reader!BodyLen
  <2>. QED
    BY <1>s, <2>1, <2>2, <2>3, <2>4, <2>5 DEF ReaderInv
<1>6. CASE Reader!Incomplete \/ Reader!Refuse \/ Reader!NoBody
  <2>1. ReaderTypes'
    BY <1>0, <1>t, <1>6 DEF Reader!Incomplete, Reader!Refuse, Reader!NoBody, Reader!Ends,
       Reader!TooLarge, Reader!request, Reader!buffer, Reader!history, ReaderTypes
  <2>2. Placed'
    BY <1>0, <1>t, <1>6 DEF Reader!Incomplete, Reader!Refuse, Reader!NoBody, Reader!Ends,
       Reader!TooLarge, Reader!request, Reader!buffer, Reader!history, Placed, ReaderTypes
  <2>3. Progress'
    BY <1>0, <1>t, <1>6 DEF Reader!Incomplete, Reader!Refuse, Reader!NoBody, Reader!Ends,
       Reader!TooLarge, Reader!request, Reader!buffer, Reader!history, Progress, Placed,
       ReaderTypes, Reader!Parsed, Reader!Total, Reader!Whole, Reader!Fits, Reader!Space
  <2>4. Reader!PointersFresh'
    BY <1>0, <1>t, <1>6 DEF Reader!Incomplete, Reader!Refuse, Reader!NoBody, Reader!Ends,
       Reader!TooLarge, Reader!request, Reader!buffer, Reader!history, Reader!PointersFresh,
       Progress, ReaderTypes, Reader!Parsed
  <2>5. Reader!RightVerdict'
    BY <1>0, <1>t, <1>6 DEF Reader!Incomplete, Reader!Refuse, Reader!NoBody, Reader!Ends,
       Reader!TooLarge, Reader!request, Reader!buffer, Reader!history, Reader!RightVerdict,
       Progress, Placed, ReaderTypes, Reader!Parsed, Reader!Total, Reader!Whole, Reader!Fits,
       Reader!Space, Reader!BodyLen
  <2>. QED
    BY <1>s, <2>1, <2>2, <2>3, <2>4, <2>5 DEF ReaderInv
<1>7. CASE Reader!MakeBodyRoom
  <2>1. /\ Reader!Total + 1 \in Nat /\ Reader!Total + 1 <= ReqMax
        /\ at = "judge" /\ Reader!Parsed /\ length > 0
        /\ UNCHANGED <<Reader!request, stalled>>
    BY <1>0, <1>t, <1>7 DEF Reader!MakeBodyRoom, Reader!TooLarge, ReaderTypes, Reader!Total
  <2>2. CASE Reader!Reserved(Reader!Total + 1) /\ at' = "body" /\ UNCHANGED verdict
    <3>1. /\ size' \in 0..ReqMax /\ size' >= size /\ size' >= Reader!Min2(Reader!Total + 1, ReqMax)
          /\ ptr' \in {"none", "fresh", "dangling"} /\ filled' = filled /\ failed' = failed
      BY <1>a, <2>1, <2>2, RoomMade
    <3>2. size' > Reader!Total
      BY <1>0, <1>t, <2>1, <3>1 DEF Reader!Min2, ReaderTypes, Reader!Total
    <3>3. ReaderTypes'
      BY <1>0, <1>t, <2>1, <2>2, <3>1, <3>2 DEF Reader!request, ReaderTypes
    <3>4. Placed'
      BY <1>0, <1>t, <2>1, <2>2, <3>1, <3>2 DEF Reader!request, Placed, ReaderTypes
    <3>5. Progress'
      BY <1>0, <1>t, <2>1, <2>2, <3>1, <3>2 DEF Reader!request, Progress, Placed, ReaderTypes,
         Reader!Parsed, Reader!Total, Reader!Whole, Reader!Fits, Reader!Space
    <3>6. Reader!PointersFresh'
      BY <1>0, <1>t, <2>1, <2>2, <3>1, <3>2 DEF Reader!request, Reader!PointersFresh, Progress,
         ReaderTypes, Reader!Parsed
    <3>7. Reader!RightVerdict'
      BY <1>0, <1>t, <2>1, <2>2, <3>1, <3>2 DEF Reader!request, Reader!RightVerdict, Progress,
         Placed, ReaderTypes, Reader!Parsed, Reader!Total, Reader!Whole, Reader!Fits,
         Reader!Space, Reader!BodyLen
    <3>. QED
      BY <1>s, <3>3, <3>4, <3>5, <3>6, <3>7 DEF ReaderInv
  <2>3. CASE Reader!ReserveFails(Reader!Total + 1) /\ Reader!Ends("413")
    <3>1. ReaderTypes'
      BY <1>0, <1>t, <2>1, <2>3 DEF Reader!ReserveFails, Reader!Ends, Reader!request,
         Reader!buffer, ReaderTypes
    <3>2. Placed'
      BY <1>0, <1>t, <2>1, <2>3 DEF Reader!ReserveFails, Reader!Ends, Reader!request,
         Reader!buffer, Placed, ReaderTypes
    <3>3. Progress'
      BY <1>0, <1>t, <2>1, <2>3 DEF Reader!ReserveFails, Reader!Ends, Reader!request,
         Reader!buffer, Progress, Placed, ReaderTypes, Reader!Parsed, Reader!Total, Reader!Whole,
         Reader!Fits, Reader!Space
    <3>4. Reader!PointersFresh'
      BY <1>0, <1>t, <2>1, <2>3 DEF Reader!ReserveFails, Reader!Ends, Reader!request,
         Reader!buffer, Reader!PointersFresh, Progress, ReaderTypes, Reader!Parsed
    <3>5. Reader!RightVerdict'
      BY <1>0, <1>t, <2>1, <2>3 DEF Reader!ReserveFails, Reader!Ends, Reader!request,
         Reader!buffer, Reader!RightVerdict, Progress, Placed, ReaderTypes, Reader!Parsed,
         Reader!Total, Reader!Whole, Reader!Fits, Reader!Space, Reader!BodyLen
    <3>. QED
      BY <1>s, <3>1, <3>2, <3>3, <3>4, <3>5 DEF ReaderInv
  <2>. QED
    BY <1>7, <2>2, <2>3 DEF Reader!MakeBodyRoom
<1>8. CASE Reader!ReadBody
  <2>0. /\ filled' \in Nat /\ filled' > filled /\ filled' <= sent /\ filled' < size
        /\ at = "body" /\ UNCHANGED <<Reader!request, size, at, ptr, verdict, Reader!history>>
    BY <1>0, <1>t, <1>8 DEF Reader!ReadBody, Reader!Receives, Reader!Space, Reader!Min2, ReaderTypes
  <2>1. ReaderTypes'
    BY <1>0, <1>t, <2>0 DEF Reader!request, Reader!history, ReaderTypes
  <2>2. Placed'
    BY <1>0, <1>t, <2>0 DEF Reader!request, Reader!history, Placed, ReaderTypes
  <2>3. Progress'
    BY <1>0, <1>t, <2>0 DEF Reader!request, Reader!history, Progress, Placed, ReaderTypes,
       Reader!Parsed, Reader!Total, Reader!Whole, Reader!Fits, Reader!Space
  <2>4. Reader!PointersFresh'
    BY <1>0, <1>t, <2>0 DEF Reader!request, Reader!history, Reader!PointersFresh, Progress,
       ReaderTypes, Reader!Parsed
  <2>5. Reader!RightVerdict'
    BY <1>0, <1>t, <2>0 DEF Reader!request, Reader!history, Reader!RightVerdict, Progress, Placed,
       ReaderTypes, Reader!Parsed, Reader!Total, Reader!Whole, Reader!Fits, Reader!Space,
       Reader!BodyLen
  <2>. QED
    BY <1>s, <2>1, <2>2, <2>3, <2>4, <2>5 DEF ReaderInv
<1>9. CASE Reader!ReadBodyEnds
  <2>00. ~stalled' => ~stalled /\ ~(Reader!Space > 0 /\ filled < sent)
    BY <1>9, Zenon DEF Reader!ReadBodyEnds, Reader!ReadsNothing
  <2>01. /\ at = "body" /\ filled < Reader!Total /\ at' = "reparse"
         /\ UNCHANGED <<Reader!request, Reader!buffer, ptr, verdict, failed>>
    BY <1>9 DEF Reader!ReadBodyEnds, Reader!ReadsNothing
  <2>0. Reader!Space > 0
    BY <1>0, <1>t, <1>9 DEF Reader!ReadBodyEnds, Reader!Space, Progress, ReaderTypes, Reader!Total
  <2>1. ReaderTypes'
    BY <1>0, <1>t, <2>0, <2>00, <2>01 DEF Reader!request, Reader!buffer, ReaderTypes
  <2>2. Placed'
    BY <1>0, <1>t, <2>0, <2>00, <2>01 DEF Reader!request, Reader!buffer, Placed, ReaderTypes
  <2>3. Progress'
    BY <1>0, <1>t, <2>0, <2>00, <2>01 DEF Reader!request, Reader!buffer, Progress, Placed,
       ReaderTypes, Reader!Parsed, Reader!Total, Reader!Whole, Reader!Fits, Reader!Space
  <2>4. Reader!PointersFresh'
    BY <1>0, <1>t, <2>0, <2>00, <2>01 DEF Reader!request, Reader!buffer, Reader!PointersFresh,
       Progress, ReaderTypes, Reader!Parsed
  <2>5. Reader!RightVerdict'
    BY <1>0, <1>t, <2>0, <2>00, <2>01 DEF Reader!request, Reader!buffer, Reader!RightVerdict,
       Progress, Placed, ReaderTypes, Reader!Parsed, Reader!Total, Reader!Whole, Reader!Fits,
       Reader!Space, Reader!BodyLen
  <2>. QED
    BY <1>s, <2>1, <2>2, <2>3, <2>4, <2>5 DEF ReaderInv
<1>10. CASE Reader!BodyThere
  <2>1. ReaderTypes'
    BY <1>0, <1>t, <1>10 DEF Reader!BodyThere, Reader!request, Reader!buffer, Reader!history,
       ReaderTypes
  <2>2. Placed'
    BY <1>0, <1>t, <1>10 DEF Reader!BodyThere, Reader!request, Reader!buffer, Reader!history,
       Placed, ReaderTypes
  <2>3. Progress'
    BY <1>0, <1>t, <1>10 DEF Reader!BodyThere, Reader!request, Reader!buffer, Reader!history,
       Progress, Placed, ReaderTypes, Reader!Parsed, Reader!Total, Reader!Whole, Reader!Fits,
       Reader!Space
  <2>4. Reader!PointersFresh'
    BY <1>0, <1>t, <1>10 DEF Reader!BodyThere, Reader!request, Reader!buffer, Reader!history,
       Reader!PointersFresh, Progress, ReaderTypes, Reader!Parsed
  <2>5. Reader!RightVerdict'
    BY <1>0, <1>t, <1>10 DEF Reader!BodyThere, Reader!request, Reader!buffer, Reader!history,
       Reader!RightVerdict, Progress, Placed, ReaderTypes, Reader!Parsed, Reader!Total,
       Reader!Whole, Reader!Fits, Reader!Space, Reader!BodyLen
  <2>. QED
    BY <1>s, <2>1, <2>2, <2>3, <2>4, <2>5 DEF ReaderInv
<1>11. CASE Reader!Reparse
  <2>1. ReaderTypes'
    BY <1>0, <1>t, <1>11 DEF Reader!Reparse, Reader!Ends, Reader!request, Reader!buffer,
       Reader!history, ReaderTypes
  <2>2. Placed'
    BY <1>0, <1>t, <1>11 DEF Reader!Reparse, Reader!Ends, Reader!request, Reader!buffer,
       Reader!history, Placed, ReaderTypes
  <2>3. Progress'
    BY <1>0, <1>t, <1>11 DEF Reader!Reparse, Reader!Ends, Reader!request, Reader!buffer,
       Reader!history, Progress, Placed, ReaderTypes, Reader!Parsed, Reader!Total, Reader!Whole,
       Reader!Fits, Reader!Space
  <2>4. Reader!PointersFresh'
    BY <1>0, <1>t, <1>11 DEF Reader!Reparse, Reader!Ends, Reader!request, Reader!buffer,
       Reader!history, Reader!PointersFresh, Progress, ReaderTypes, Reader!Parsed
  <2>5. Reader!RightVerdict'
    BY <1>0, <1>t, <1>11 DEF Reader!Reparse, Reader!Ends, Reader!request, Reader!buffer,
       Reader!history, Reader!RightVerdict, Progress, Placed, ReaderTypes, Reader!Parsed,
       Reader!Total, Reader!Whole, Reader!Fits, Reader!Space, Reader!BodyLen
  <2>. QED
    BY <1>s, <2>1, <2>2, <2>3, <2>4, <2>5 DEF ReaderInv
<1>12. CASE UNCHANGED Reader!vars
  <2>1. ReaderTypes'
    BY <1>0, <1>t, <1>12 DEF Reader!vars, Reader!request, Reader!buffer, Reader!history, ReaderTypes
  <2>2. Placed'
    BY <1>0, <1>t, <1>12 DEF Reader!vars, Reader!request, Reader!buffer, Reader!history, Placed,
       ReaderTypes
  <2>3. Progress'
    BY <1>0, <1>t, <1>12 DEF Reader!vars, Reader!request, Reader!buffer, Reader!history, Progress,
       Placed, ReaderTypes, Reader!Parsed, Reader!Total, Reader!Whole, Reader!Fits, Reader!Space
  <2>4. Reader!PointersFresh'
    BY <1>0, <1>t, <1>12 DEF Reader!vars, Reader!request, Reader!buffer, Reader!history,
       Reader!PointersFresh, Progress, ReaderTypes, Reader!Parsed
  <2>5. Reader!RightVerdict'
    BY <1>0, <1>t, <1>12 DEF Reader!vars, Reader!request, Reader!buffer, Reader!history,
       Reader!RightVerdict, Progress, Placed, ReaderTypes, Reader!Parsed, Reader!Total,
       Reader!Whole, Reader!Fits, Reader!Space, Reader!BodyLen
  <2>. QED
    BY <1>s, <2>1, <2>2, <2>3, <2>4, <2>5 DEF ReaderInv
<1>. QED
  BY <1>a, <1>1, <1>2, <1>3, <1>4, <1>5, <1>6, <1>7, <1>8, <1>9, <1>10, <1>11, <1>12 DEF
     Reader!Next, Reader!Step

\* The invariant of the reader holds from the first connection on.
LEMMA ReaderInvariance == Reader!Spec => []ReaderInv
<1>1. Reader!Init => ReaderInv
  BY ReaderInit, ReaderAssumption
<1>. QED
  BY <1>1, ReaderStep, PTL DEF Reader!Spec

-----------------------------------------------------------------------------
\* Wherever the limits are and however the request comes in: a whole request that fits is
\* routed with all of its body, and 413 is sent for no other reason than size or memory
\* (read_full_request, router.c:71-151).
THEOREM VerdictRight == Reader!Spec => []RightVerdict
<1>1. ReaderInv => RightVerdict
  BY DEF ReaderInv, RightVerdict
<1>. QED
  BY <1>1, ReaderInvariance, PTL

\* However often the buffer moves while a request is read, it is routed with pointers into
\* the buffer as it is (the parse of router.c:148), and the NUL behind it stays inside
\* (router.c:102).
THEOREM PointersGood == Reader!Spec => []PointersHold
<1>1. ReaderInv => PointersHold
  BY DEF ReaderInv, PointersHold, Placed, Reader!Terminated
<1>. QED
  BY <1>1, ReaderInvariance, PTL

-----------------------------------------------------------------------------
(* curlTokens, on a command that grows.                                    *)

State(out, word, place, whole, escaped) ==
  [out |-> out, word |-> word, at |-> place, whole |-> whole, escaped |-> escaped]
On == TRUE
Off == FALSE
Unescaped(out, word, place, whole) == State(out, word, place, whole, Off)
Escaped(out, word, place, whole) == State(out, word, place, whole, On)

Start == Unescaped(<<>>, Commands!NoText, "gap", Off)

\* The operators of the community modules are the same there.
LEMMA SameThere == \A s : Commands!FlattenSeq(s) = FlattenSeq(s) /\ Commands!Range(s) = Range(s)
  BY Zenon DEF Commands!FlattenSeq, FlattenSeq, Commands!Range, Range

\* f is what the loops have after each atom of s, and t what they have after all.
Scans(s, f) == f = [k \in 0..Len(s) |-> IF k = 0 THEN Start ELSE Commands!Reads(s, f[k - 1], k)]
ScansTo(s, t) == \E f : Scans(s, f) /\ f[Len(s)] = t

\* What the end of the command makes of it.
Result(t) ==
  IF t.at = "gap" THEN t.out ELSE Commands!WordEnds(IF t.escaped THEN Commands!Adds(t, "\\") ELSE t).out

\* A backslash that the next atom may make the end of a line.
Pending(s) == s # <<>> /\ s[Len(s)] = "\\"

LEMMA ScansNothing == ScansTo(<<>>, Start)
<1>. DEFINE f == [k \in 0..0 |-> Start]
<1>1. Len(<<>>) = 0 /\ f[0] = Start
  OBVIOUS
<1>2. f = [k \in 0..0 |-> IF k = 0 THEN Start ELSE Commands!Reads(<<>>, f[k - 1], k)]
  OBVIOUS
<1>3. Scans(<<>>, f)
  <2>. HIDE DEF f
  <2>. QED
    BY <1>1, <1>2 DEF Scans
<1>. HIDE DEF f
<1>. QED
  BY <1>1, <1>3 DEF ScansTo

\* An atom more.
LEMMA ScansOne ==
  ASSUME NEW S, NEW s \in Seq(S), NEW a \in S, NEW t, ScansTo(s, t), ~(Pending(s) /\ a = "\n")
  PROVE  ScansTo(Append(s, a), Commands!Scan(t, a))
<1>. DEFINE n == Len(s)
            r == Append(s, a)
<1>1. n \in Nat /\ r \in Seq(S) /\ Len(r) = n + 1 /\ r[n + 1] = a /\ \A k \in 1..n : r[k] = s[k]
  BY AppendProperties
<1>2. n # 0 => s # <<>>
  OBVIOUS
<1>. HIDE DEF r
<1>3. PICK f : Scans(s, f) /\ f[n] = t
  BY DEF ScansTo
<1>. HIDE DEF n
<1>4. f = [k \in 0..n |-> IF k = 0 THEN Start ELSE Commands!Reads(s, f[k - 1], k)]
  BY <1>3 DEF Scans, n
<1>5. \A k \in 0..n : Commands!GoesOn(r, k) <=> Commands!GoesOn(s, k)
  <2>1. TAKE k \in 0..n
  <2>2. CASE k \in 1..(n - 1)
    <3>1. k + 1 \in 1..n /\ k \in 1..n /\ k \in 1..((n + 1) - 1)
      BY <1>1, <2>2
    <3>2. r[k] = s[k] /\ r[k + 1] = s[k + 1]
      BY <1>1, <3>1
    <3>. QED
      BY <1>1, <2>2, <3>1, <3>2 DEF Commands!GoesOn, n
  <2>3. CASE k = n /\ n # 0
    <3>1. ~Commands!GoesOn(s, k)
      BY <1>1, <2>3 DEF Commands!GoesOn, n
    <3>2. r[k] = s[n] /\ r[k + 1] = a
      BY <1>1, <2>3
    <3>3. ~Commands!GoesOn(r, k)
      BY <1>2, <2>3, <3>2 DEF Commands!GoesOn, Pending, n
    <3>. QED
      BY <3>1, <3>3
  <2>4. CASE k = 0
    BY <1>1, <2>4 DEF Commands!GoesOn, n
  <2>. QED
    BY <1>1, <2>2, <2>3, <2>4
<1>6. ~Commands!GoesOn(r, n + 1) /\ ~Commands!GoesOn(r, n)
  <2>1. ~Commands!GoesOn(r, n + 1)
    BY <1>1 DEF Commands!GoesOn
  <2>2. ~Commands!GoesOn(s, n)
    BY <1>1 DEF Commands!GoesOn, n
  <2>. QED
    BY <1>1, <1>5, <2>1, <2>2
<1>. DEFINE g == [k \in 0..(n + 1) |-> IF k = n + 1 THEN Commands!Scan(t, a) ELSE f[k]]
<1>7. \A k \in 0..(n + 1) : g[k] = IF k = 0 THEN Start ELSE Commands!Reads(r, g[k - 1], k)
  <2>1. TAKE k \in 0..(n + 1)
  <2>2. CASE k = 0
    <3>1. k \in 0..n /\ k # n + 1
      BY <1>1, <2>2
    <3>2. g[k] = f[k] /\ f[k] = Start
      BY <1>4, <2>2, <3>1
    <3>. QED
      BY <2>2, <3>2
  <2>3. CASE k \in 1..n
    <3>1. k \in 0..n /\ k - 1 \in 0..n /\ k # 0 /\ k # n + 1 /\ k - 1 # n + 1
      BY <1>1, <2>3
    <3>2. g[k] = f[k] /\ g[k - 1] = f[k - 1]
      BY <1>1, <3>1
    <3>3. f[k] = Commands!Reads(s, f[k - 1], k)
      BY <1>4, <3>1
    <3>4. Commands!Reads(r, f[k - 1], k) = Commands!Reads(s, f[k - 1], k)
      BY <1>1, <1>5, <2>3, <3>1 DEF Commands!Reads
    <3>. HIDE DEF g
    <3>. QED
      BY <3>1, <3>2, <3>3, <3>4
  <2>4. CASE k = n + 1
    <3>1. k # 0 /\ k - 1 = n /\ n \in 0..n /\ n # n + 1
      BY <1>1, <2>4
    <3>2. g[k] = Commands!Scan(t, a) /\ g[k - 1] = t
      BY <1>1, <1>3, <2>4, <3>1
    <3>3. Commands!Reads(r, t, k) = Commands!Scan(t, a)
      BY <1>1, <1>6, <2>4, <3>1 DEF Commands!Reads
    <3>. HIDE DEF g
    <3>. QED
      BY <3>1, <3>2, <3>3
  <2>. QED
    BY <1>1, <2>2, <2>3, <2>4
<1>8. Scans(r, g) /\ g[Len(r)] = Commands!Scan(t, a)
  <2>1. g = [k \in 0..(n + 1) |-> IF k = 0 THEN Start ELSE Commands!Reads(r, g[k - 1], k)]
    BY <1>7
  <2>2. g[n + 1] = Commands!Scan(t, a)
    BY <1>1
  <2>. HIDE DEF g
  <2>. QED
    BY <1>1, <2>1, <2>2 DEF Scans
<1>. HIDE DEF g
<1>. QED
  BY <1>8 DEF ScansTo, r

\* A line more.
LEMMA ScansLine ==
  ASSUME NEW S, {"\\", "\n"} \subseteq S, NEW s \in Seq(S), NEW t, ScansTo(s, t)
  PROVE  ScansTo(s \o <<"\\", "\n">>, Commands!Scan(t, " "))
<1>. DEFINE n == Len(s)
            r == s \o <<"\\", "\n">>
<1>1. /\ n \in Nat /\ Len(r) = n + 2 /\ r[n + 1] = "\\" /\ r[n + 2] = "\n"
      /\ \A k \in 1..n : r[k] = s[k]
  <2>1. <<"\\", "\n">> \in Seq(S) /\ Len(<<"\\", "\n">>) = 2
    OBVIOUS
  <2>2. \A i \in 1..(n + 2) : r[i] = IF i <= n THEN s[i] ELSE <<"\\", "\n">>[i - n]
    BY <2>1, ConcatProperties
  <2>3. n \in Nat /\ Len(r) = n + 2
    BY <2>1, ConcatProperties
  <2>. HIDE DEF r, n
  <2>4. n + 1 \in 1..(n + 2) /\ n + 2 \in 1..(n + 2) /\ (n + 1) - n = 1 /\ (n + 2) - n = 2
    BY <2>3
  <2>5. r[n + 1] = <<"\\", "\n">>[1] /\ r[n + 2] = <<"\\", "\n">>[2]
    BY <2>2, <2>3, <2>4
  <2>6. \A k \in 1..n : k \in 1..(n + 2) /\ k <= n
    BY <2>3
  <2>. QED
    BY <2>2, <2>3, <2>5, <2>6
<1>. HIDE DEF r
<1>3. PICK f : Scans(s, f) /\ f[n] = t
  BY DEF ScansTo
<1>. HIDE DEF n
<1>4. f = [k \in 0..n |-> IF k = 0 THEN Start ELSE Commands!Reads(s, f[k - 1], k)]
  BY <1>3 DEF Scans, n
<1>5. \A k \in 0..n : Commands!GoesOn(r, k) <=> Commands!GoesOn(s, k)
  <2>1. TAKE k \in 0..n
  <2>2. CASE k \in 1..(n - 1)
    <3>1. k + 1 \in 1..n /\ k \in 1..n /\ k \in 1..((n + 2) - 1)
      BY <1>1, <2>2
    <3>2. r[k] = s[k] /\ r[k + 1] = s[k + 1]
      BY <1>1, <3>1
    <3>. QED
      BY <1>1, <2>2, <3>1, <3>2 DEF Commands!GoesOn, n
  <2>3. CASE k = n
    <3>1. ~Commands!GoesOn(s, k)
      BY <1>1, <2>3 DEF Commands!GoesOn, n
    <3>2. r[k + 1] = "\\"
      BY <1>1, <2>3
    <3>3. ~Commands!GoesOn(r, k)
      BY <3>2 DEF Commands!GoesOn
    <3>. QED
      BY <3>1, <3>3
  <2>4. CASE k = 0
    BY <1>1, <2>4 DEF Commands!GoesOn, n
  <2>. QED
    BY <1>1, <2>2, <2>3, <2>4
<1>6. Commands!GoesOn(r, n + 1) /\ ~Commands!GoesOn(r, n + 2)
  <2>1. n + 1 \in 1..((n + 2) - 1) /\ (n + 1) + 1 = n + 2 /\ n + 2 \notin 1..((n + 2) - 1)
    BY <1>1
  <2>. QED
    BY <1>1, <2>1 DEF Commands!GoesOn
<1>. DEFINE g == [k \in 0..(n + 2) |-> IF k > n THEN Commands!Scan(t, " ") ELSE f[k]]
<1>7. \A k \in 0..(n + 2) : g[k] = IF k = 0 THEN Start ELSE Commands!Reads(r, g[k - 1], k)
  <2>1. TAKE k \in 0..(n + 2)
  <2>2. CASE k = 0
    <3>1. k \in 0..n /\ ~(k > n)
      BY <1>1, <2>2
    <3>2. g[k] = f[k] /\ f[k] = Start
      BY <1>4, <2>2, <3>1
    <3>. QED
      BY <2>2, <3>2
  <2>3. CASE k \in 1..n
    <3>1. /\ k \in 0..n /\ k - 1 \in 0..n /\ k # 0 /\ ~(k > n) /\ ~(k - 1 > n)
          /\ k \in 0..(n + 2) /\ k - 1 \in 0..(n + 2)
      BY <1>1, <2>3
    <3>2. g[k] = f[k] /\ g[k - 1] = f[k - 1]
      BY <3>1
    <3>3. f[k] = Commands!Reads(s, f[k - 1], k)
      BY <1>4, <3>1
    <3>4. Commands!Reads(r, f[k - 1], k) = Commands!Reads(s, f[k - 1], k)
      BY <1>1, <1>5, <2>3, <3>1 DEF Commands!Reads
    <3>. HIDE DEF g
    <3>. QED
      BY <3>1, <3>2, <3>3, <3>4
  <2>4. CASE k = n + 1
    <3>1. k # 0 /\ k - 1 = n /\ n \in 0..(n + 2) /\ ~(n > n) /\ k > n
      BY <1>1, <2>4
    <3>2. g[k] = Commands!Scan(t, " ") /\ g[k - 1] = t
      BY <1>1, <1>3, <2>4, <3>1
    <3>3. Commands!Reads(r, t, k) = Commands!Scan(t, " ")
      BY <1>6, <2>4 DEF Commands!Reads
    <3>. HIDE DEF g
    <3>. QED
      BY <3>1, <3>2, <3>3
  <2>5. CASE k = n + 2
    <3>1. k # 0 /\ k - 1 = n + 1 /\ n + 1 \in 0..(n + 2) /\ n + 1 > n /\ k > n
      BY <1>1, <2>5
    <3>2. g[k] = Commands!Scan(t, " ") /\ g[k - 1] = Commands!Scan(t, " ")
      BY <1>1, <2>5, <3>1
    <3>3. Commands!Reads(r, Commands!Scan(t, " "), k) = Commands!Scan(t, " ")
      BY <1>6, <2>5, <3>1 DEF Commands!Reads
    <3>. HIDE DEF g
    <3>. QED
      BY <3>1, <3>2, <3>3
  <2>6. k = 0 \/ k \in 1..n \/ k = n + 1 \/ k = n + 2
    <3>. HIDE DEF g
    <3>. QED
      BY <1>1
  <2>. HIDE DEF g
  <2>. QED
    BY <2>2, <2>3, <2>4, <2>5, <2>6
<1>8. Scans(r, g) /\ g[Len(r)] = Commands!Scan(t, " ")
  <2>1. g = [k \in 0..(n + 2) |-> IF k = 0 THEN Start ELSE Commands!Reads(r, g[k - 1], k)]
    BY <1>7
  <2>2. g[n + 2] = Commands!Scan(t, " ")
    <3>1. n + 2 \in 0..(n + 2) /\ n + 2 > n
      BY <1>1
    <3>. QED
      BY <3>1
  <2>. HIDE DEF g
  <2>. QED
    BY <1>1, <2>1, <2>2 DEF Scans
<1>. HIDE DEF g
<1>. QED
  BY <1>8 DEF ScansTo, r

\* The loops have one result.
LEMMA TokensAre ==
  ASSUME NEW S, NEW s \in Seq(S), NEW t, ScansTo(s, t)
  PROVE  Commands!CurlTokens(s) = Result(t)
<1>. DEFINE n == Len(s)
            Body(f) == [k \in 0..n |-> IF k = 0 THEN Start ELSE Commands!Reads(s, f[k - 1], k)]
            scan == CHOOSE f : f = Body(f)
<1>1. PICK f : Scans(s, f) /\ f[n] = t
  BY DEF ScansTo
<1>2. n \in Nat
  OBVIOUS
<1>3. f = Body(f)
  BY <1>1 DEF Scans
<1>4. scan = Body(scan)
  <2>. HIDE DEF Body
  <2>. QED
    BY <1>3
<1>. HIDE DEF scan
<1>5. \A k \in 0..n : /\ f[k] = IF k = 0 THEN Start ELSE Commands!Reads(s, f[k - 1], k)
                      /\ scan[k] = IF k = 0 THEN Start ELSE Commands!Reads(s, scan[k - 1], k)
  BY <1>3, <1>4
<1>. DEFINE T == {k \in 0..n : f[k] = scan[k]}
<1>. HIDE DEF n
<1>6. 0 \in T
  BY <1>2, <1>5
<1>7. ASSUME NEW k \in 0..(n - 1), k \in T PROVE k + 1 \in T
  <2>1. k + 1 \in 0..n /\ k + 1 # 0 /\ (k + 1) - 1 = k
    BY <1>2
  <2>. DEFINE m == k + 1
  <2>2. m \in 0..n /\ m # 0 /\ m - 1 = k
    BY <2>1
  <2>. HIDE DEF m
  <2>3. f[m] = Commands!Reads(s, f[k], m) /\ scan[m] = Commands!Reads(s, scan[k], m)
    BY <1>5, <2>2
  <2>4. m \in T
    BY <1>7, <2>2, <2>3
  <2>. QED
    BY <2>4 DEF m
<1>8. scan[n] = t
  <2>. HIDE DEF T
  <2>1. \A k \in 0..n : k \in T
    BY <1>2, <1>6, <1>7, UpTo
  <2>2. n \in T
    BY <1>2, <2>1
  <2>. QED
    BY <1>1, <2>2 DEF T
<1>9. Commands!CurlTokens(s) = Result(scan[n])
  BY Zenon DEF Commands!CurlTokens, Result, scan, n, Start, Unescaped, State, Off
<1>. QED
  BY <1>8, <1>9

\* A state is what its parts are.
Fields == {"out", "word", "at", "whole", "escaped"}

LEMMA StateIs ==
  ASSUME NEW r, DOMAIN r = Fields, r = [k \in Fields |-> r[k]],
         NEW out, NEW word, NEW place, NEW whole, NEW escaped,
         r.out = out, r.word = word, r.at = place, r.whole = whole, r.escaped = escaped
  PROVE  r = State(out, word, place, whole, escaped)
<1>. DEFINE y == State(out, word, place, whole, escaped)
<1>1. y = [k \in Fields |-> y[k]]
  BY DEF State, Fields
<1>2. y.out = out /\ y.word = word /\ y.at = place /\ y.whole = whole /\ y.escaped = escaped
  BY DEF State
<1>. HIDE DEF y
<1>3. \A k \in Fields : r[k] = y[k]
  BY <1>2 DEF Fields
<1>4. r = y
  BY <1>1, <1>3
<1>. QED
  BY <1>4 DEF y

\* The updates that Commands!Scan makes.
LEMMA AtIs ==
  ASSUME NEW out, NEW word, NEW place, NEW whole, NEW escaped, NEW p
  PROVE  [State(out, word, place, whole, escaped) EXCEPT !.at = p] = State(out, word, p, whole, escaped)
BY DEF State

LEMMA EscapedIs ==
  ASSUME NEW out, NEW word, NEW place, NEW whole, NEW escaped, NEW p
  PROVE  [State(out, word, place, whole, escaped) EXCEPT !.escaped = p] = State(out, word, place, whole, p)
BY DEF State

Opens(t, q, whole) == [t EXCEPT !.at = q, !.whole = whole]

LEMMA OpensIs ==
  ASSUME NEW out, NEW word, NEW place, NEW whole, NEW escaped, NEW p, NEW q
  PROVE  Opens(State(out, word, place, whole, escaped), p, q) = State(out, word, p, q, escaped)
<1>. DEFINE r == State(out, word, place, whole, escaped)
            x == [r EXCEPT !.at = p, !.whole = q]
<1>1. r = [k \in Fields |-> r[k]] /\ DOMAIN r = Fields
  BY DEF State, Fields
<1>2. r.out = out /\ r.word = word /\ r.escaped = escaped
  BY DEF State
<1>. HIDE DEF r
<1>3. DOMAIN x = Fields /\ x = [k \in Fields |-> x[k]]
  BY <1>1
<1>4. x.out = out /\ x.word = word /\ x.at = p /\ x.whole = q /\ x.escaped = escaped
  BY <1>1, <1>2 DEF Fields
<1>. HIDE DEF x
<1>5. x = State(out, word, p, q, escaped)
  BY <1>3, <1>4, StateIs
<1>. QED
  BY <1>5, Zenon DEF x, r, Opens

LEMMA AddsIs ==
  ASSUME NEW out, NEW word, NEW place, NEW whole, NEW escaped, NEW a
  PROVE  Commands!Adds(State(out, word, place, whole, escaped), a) = State(out, Append(word, a), place, whole, Off)
<1>. DEFINE r == State(out, word, place, whole, escaped)
            w == Append(word, a)
            x == [r EXCEPT !.word = w, !.escaped = Off]
<1>1. r = [k \in Fields |-> r[k]] /\ DOMAIN r = Fields
  BY DEF State, Fields
<1>2. r.out = out /\ r.word = word /\ r.at = place /\ r.whole = whole
  BY DEF State
<1>. HIDE DEF r
<1>3. Commands!Adds(r, a) = x
  BY <1>2 DEF Commands!Adds, Off
<1>. HIDE DEF w
<1>4. DOMAIN x = Fields /\ x = [k \in Fields |-> x[k]]
  BY <1>1
<1>5. x.out = out /\ x.word = w /\ x.at = place /\ x.whole = whole /\ x.escaped = Off
  BY <1>1, <1>2 DEF Fields
<1>. HIDE DEF x
<1>6. x = State(out, w, place, whole, Off)
  BY <1>4, <1>5, StateIs
<1>. QED
  BY <1>3, <1>6 DEF w, r

LEMMA WordEndsIs ==
  ASSUME NEW out, NEW word, NEW place, NEW whole, NEW escaped
  PROVE  Commands!WordEnds(State(out, word, place, whole, escaped)) = State(Append(out, word), Commands!NoText, "gap", whole, escaped)
<1>. DEFINE r == State(out, word, place, whole, escaped)
            w == Append(out, word)
            x == [r EXCEPT !.out = w, !.word = Commands!NoText, !.at = "gap"]
<1>1. r = [k \in Fields |-> r[k]] /\ DOMAIN r = Fields
  BY DEF State, Fields
<1>2. r.out = out /\ r.word = word /\ r.whole = whole /\ r.escaped = escaped
  BY DEF State
<1>. HIDE DEF r
<1>3. Commands!WordEnds(r) = x
  BY <1>2 DEF Commands!WordEnds
<1>. HIDE DEF w
<1>4. DOMAIN x = Fields /\ x = [k \in Fields |-> x[k]]
  BY <1>1
<1>5. x.out = w /\ x.word = Commands!NoText /\ x.at = "gap" /\ x.whole = whole /\ x.escaped = escaped
  <2>1. "out" \in Fields /\ "word" \in Fields /\ "at" \in Fields /\ "whole" \in Fields /\ "escaped" \in Fields
    BY DEF Fields
  <2>. QED
    BY <1>1, <1>2, <2>1
<1>. HIDE DEF x
<1>6. x = State(w, Commands!NoText, "gap", whole, escaped)
  BY <1>4, <1>5, StateIs
<1>. QED
  BY <1>3, <1>6 DEF w, r

\* Outside quotes.
LEMMA ScanOutside ==
  ASSUME NEW out, NEW word, NEW whole, NEW a
  PROVE  /\ a \in Commands!Blanks =>
              /\ Commands!Scan(Unescaped(out, word, "gap", whole), a) = Unescaped(out, word, "gap", whole)
              /\ Commands!Scan(Unescaped(out, word, "bare", whole), a) = Unescaped(Append(out, word), Commands!NoText, "gap", whole)
         /\ a \notin Commands!Blanks \cup Commands!Quotes =>
              /\ Commands!Scan(Unescaped(out, word, "gap", whole), a) = Unescaped(out, Append(word, a), "bare", whole)
              /\ Commands!Scan(Unescaped(out, word, "bare", whole), a) = Unescaped(out, Append(word, a), "bare", whole)
         /\ a \in Commands!Quotes =>
              /\ Commands!Scan(Unescaped(out, word, "gap", whole), a) = Unescaped(out, word, a, On)
              /\ Commands!Scan(Unescaped(out, word, "bare", whole), a) = Unescaped(out, word, a, Off)
<1>. DEFINE g == Unescaped(out, word, "gap", whole)
            b == Unescaped(out, word, "bare", whole)
            w == Append(word, a)
<1>1. g.at = "gap" /\ ~g.escaped /\ b.at = "bare" /\ ~b.escaped
  BY DEF Unescaped, State, Off
<1>2. a \in Commands!Blanks => a \notin Commands!Quotes
  BY DEF Commands!Blanks, Commands!Quotes
<1>3. [Commands!Adds(g, a) EXCEPT !.at = "bare"] = Unescaped(out, w, "bare", whole)
  <2>1. Commands!Adds(g, a) = State(out, w, "gap", whole, Off)
    BY AddsIs DEF Unescaped
  <2>2. [State(out, w, "gap", whole, Off) EXCEPT !.at = "bare"] = State(out, w, "bare", whole, Off)
    BY AtIs
  <2>. HIDE DEF g, w
  <2>. QED
    BY <2>1, <2>2, Zenon DEF Unescaped
<1>4. Opens(g, a, On) = Unescaped(out, word, a, On) /\ Opens(b, a, Off) = Unescaped(out, word, a, Off)
  <2>1. \A place, u : Opens(State(out, word, place, whole, Off), a, u) = State(out, word, a, u, Off)
    BY OpensIs
  <2>. QED
    BY <2>1, Zenon DEF Unescaped
<1>5. "gap" \notin Commands!Quotes /\ "bare" \notin Commands!Quotes /\ "gap" # "bare"
  BY DEF Commands!Quotes
<1>6. Commands!Adds(b, a) = Unescaped(out, w, "bare", whole) /\ Commands!WordEnds(b) = Unescaped(Append(out, word), Commands!NoText, "gap", whole)
  <2>1. Commands!Adds(State(out, word, "bare", whole, Off), a) = State(out, Append(word, a), "bare", whole, Off)
    BY AddsIs
  <2>2. Commands!WordEnds(State(out, word, "bare", whole, Off)) = State(Append(out, word), Commands!NoText, "gap", whole, Off)
    BY WordEndsIs
  <2>. QED
    BY <2>1, <2>2, Zenon DEF Unescaped
<1>. HIDE DEF g, b, w
<1>7. a \in Commands!Quotes => Commands!Scan(g, a) = Opens(g, a, g.at = "gap")
                      /\ Commands!Scan(b, a) = Opens(b, a, b.at = "gap")
  BY <1>1, <1>5, Zenon DEF Commands!Scan, Opens
<1>8. a \notin Commands!Quotes => Commands!Scan(g, a) = IF a \in Commands!Blanks THEN g ELSE [Commands!Adds(g, a) EXCEPT !.at = "bare"]
  BY <1>1, <1>5, Zenon DEF Commands!Scan
<1>9. a \notin Commands!Quotes => Commands!Scan(b, a) = IF a \in Commands!Blanks THEN Commands!WordEnds(b) ELSE Commands!Adds(b, a)
  BY <1>1, <1>5, Zenon DEF Commands!Scan
<1>10. a \in Commands!Quotes => Commands!Scan(g, a) = Unescaped(out, word, a, On) /\ Commands!Scan(b, a) = Unescaped(out, word, a, Off)
  <2>. DEFINE v == g.at = "gap"
              u == b.at = "gap"
  <2>1. v = On /\ u = Off
    BY <1>1, <1>5 DEF On, Off
  <2>2. a \in Commands!Quotes => Commands!Scan(g, a) = Opens(g, a, v)
                        /\ Commands!Scan(b, a) = Opens(b, a, u)
    BY <1>7, Zenon
  <2>. HIDE DEF v, u
  <2>. QED
    BY <1>4, <2>1, <2>2, Zenon
<1>11. a \in Commands!Blanks => Commands!Scan(g, a) = g /\ Commands!Scan(b, a) = Commands!WordEnds(b)
  BY <1>2, <1>8, <1>9, Zenon
<1>12. a \notin Commands!Blanks \cup Commands!Quotes =>
         Commands!Scan(g, a) = Unescaped(out, w, "bare", whole) /\ Commands!Scan(b, a) = Unescaped(out, w, "bare", whole)
  <2>1. SUFFICES ASSUME a \notin Commands!Blanks, a \notin Commands!Quotes
                 PROVE  Commands!Scan(g, a) = Unescaped(out, w, "bare", whole) /\ Commands!Scan(b, a) = Unescaped(out, w, "bare", whole)
    BY Zenon
  <2>2. Commands!Scan(g, a) = [Commands!Adds(g, a) EXCEPT !.at = "bare"] /\ Commands!Scan(b, a) = Commands!Adds(b, a)
    BY <1>8, <1>9, <2>1, Zenon
  <2>. QED
    BY <1>3, <1>6, <2>2, Zenon
<1>. QED
  BY <1>6, <1>10, <1>11, <1>12, Zenon DEF g, b, w

\* Two atoms the provers need a name for.
Double == "\""
Slash == "\\"

\* In quotes.
LEMMA ScanInside ==
  ASSUME NEW out, NEW word, NEW whole, NEW a, NEW q \in Commands!Quotes
  PROVE  /\ Commands!Scan(Unescaped(out, word, q, On), q) = Unescaped(Append(out, word), Commands!NoText, "gap", On)
         /\ Commands!Scan(Unescaped(out, word, q, Off), q) = Unescaped(out, word, "bare", Off)
         /\ a # q /\ ~(q = Double /\ a = Slash) =>
              Commands!Scan(Unescaped(out, word, q, whole), a) = Unescaped(out, Append(word, a), q, whole)
<1>. DEFINE x == Unescaped(out, word, q, whole)
            t == Unescaped(out, word, q, On)
            f == Unescaped(out, word, q, Off)
<1>1. x.at = q /\ ~x.escaped
  BY DEF Unescaped, State, Off
<1>2. q \notin {"gap", "bare"}
  BY DEF Commands!Quotes
<1>3. t.at = q /\ ~t.escaped /\ t.whole /\ f.at = q /\ ~f.escaped /\ ~f.whole
  BY DEF Unescaped, State, On, Off
<1>4. /\ Commands!WordEnds(t) = Unescaped(Append(out, word), Commands!NoText, "gap", On)
      /\ [f EXCEPT !.at = "bare"] = Unescaped(out, word, "bare", Off)
      /\ Commands!Adds(x, a) = Unescaped(out, Append(word, a), q, whole)
  <2>1. Commands!WordEnds(State(out, word, q, On, Off)) = State(Append(out, word), Commands!NoText, "gap", On, Off)
    BY WordEndsIs
  <2>2. [State(out, word, q, Off, Off) EXCEPT !.at = "bare"] = State(out, word, "bare", Off, Off)
    BY AtIs
  <2>3. Commands!Adds(State(out, word, q, whole, Off), a) = State(out, Append(word, a), q, whole, Off)
    BY AddsIs
  <2>. QED
    BY <2>1, <2>2, <2>3, Zenon DEF Unescaped
<1>. HIDE DEF x, t, f
<1>5. Commands!Scan(t, q) = (IF t.whole THEN Commands!WordEnds(t) ELSE [t EXCEPT !.at = "bare"])
      /\ Commands!Scan(f, q) = (IF f.whole THEN Commands!WordEnds(f) ELSE [f EXCEPT !.at = "bare"])
  BY <1>2, <1>3, Zenon DEF Commands!Scan
<1>6. a # q /\ ~(q = Double /\ a = Slash) => Commands!Scan(x, a) = Commands!Adds(x, a)
  BY <1>1, <1>2, Zenon DEF Commands!Scan, Commands!Escapes, Double, Slash
<1>7. Commands!Scan(t, q) = Commands!WordEnds(t) /\ Commands!Scan(f, q) = [f EXCEPT !.at = "bare"]
  BY <1>3, <1>5, Zenon
<1>8. a # q /\ ~(q = Double /\ a = Slash) => Commands!Scan(x, a) = Unescaped(out, Append(word, a), q, whole)
  BY <1>4, <1>6, Zenon
<1>9. Commands!Scan(t, q) = Unescaped(Append(out, word), Commands!NoText, "gap", On) /\ Commands!Scan(f, q) = Unescaped(out, word, "bare", Off)
  BY <1>4, <1>7, Zenon
<1>. QED
  BY <1>8, <1>9, Zenon DEF x, t, f

\* A backslash in double quotes, and what follows it.
LEMMA ScanEscape ==
  ASSUME NEW out, NEW word, NEW whole, NEW a, NEW q, q = Double
  PROVE  /\ Commands!Scan(Unescaped(out, word, q, whole), Slash) = Escaped(out, word, q, whole)
         /\ Commands!Scan(Escaped(out, word, q, whole), a) = Unescaped(out, Append(word, a), q, whole)
<1>. DEFINE d == Unescaped(out, word, q, whole)
            e == Escaped(out, word, q, whole)
<1>1. Slash # q /\ q \notin {"gap", "bare"} /\ q \in Commands!Quotes /\ Slash \notin Commands!Quotes
  BY DEF Commands!Quotes, Double, Slash
<1>2. e.escaped
  BY DEF Escaped, State, On
<1>3. d.at = q /\ ~d.escaped
  BY DEF Unescaped, State, Off
<1>4. [d EXCEPT !.escaped = On] = e /\ Commands!Adds(e, a) = Unescaped(out, Append(word, a), q, whole)
  <2>1. [State(out, word, q, whole, Off) EXCEPT !.escaped = On] = State(out, word, q, whole, On)
    BY EscapedIs
  <2>2. Commands!Adds(State(out, word, q, whole, On), a) = State(out, Append(word, a), q, whole, Off)
    BY AddsIs
  <2>. QED
    BY <2>1, <2>2, Zenon DEF Unescaped, Escaped
<1>. HIDE DEF d, e
<1>5. Commands!Scan(d, Slash) = [d EXCEPT !.escaped = On]
  BY <1>1, <1>3, Zenon DEF Commands!Scan, Commands!Escapes, On, Double, Slash
<1>6. Commands!Scan(e, a) = Commands!Adds(e, a)
  BY <1>2, Zenon DEF Commands!Scan
<1>7. Commands!Scan(d, Slash) = e /\ Commands!Scan(e, a) = Unescaped(out, Append(word, a), q, whole)
  BY <1>4, <1>5, <1>6, Zenon
<1>. QED
  BY <1>7, Zenon DEF d, e

-----------------------------------------------------------------------------
(* Texts that are added to a command.                                      *)

LEMMA JoinIs ==
  ASSUME NEW S, NEW x \in Seq(S), NEW y \in Seq(S), NEW a \in S
  PROVE  x \o Append(y, a) = Append(x \o y, a)
<1>1. Append(y, a) = y \o <<a>> /\ <<a>> \in Seq(S)
  BY AppendIsConcat
<1>2. x \o y \in Seq(S)
  BY ConcatProperties
<1>3. Append(x \o y, a) = (x \o y) \o <<a>>
  BY <1>2, AppendIsConcat
<1>4. (x \o y) \o <<a>> = x \o (y \o <<a>>)
  BY <1>1, ConcatAssociative
<1>. QED
  BY <1>1, <1>3, <1>4

LEMMA PrefixIs ==
  ASSUME NEW S, NEW s \in Seq(S)
  PROVE  /\ SubSeq(s, 1, 0) = <<>> /\ SubSeq(s, 1, Len(s)) = s
         /\ \A k \in 0..Len(s) : SubSeq(s, 1, k) \in Seq(S)
         /\ \A k \in 0..(Len(s) - 1) :
              k + 1 \in 1..Len(s) /\ s[k + 1] \in S /\ SubSeq(s, 1, k + 1) = Append(SubSeq(s, 1, k), s[k + 1])
<1>1. SubSeq(s, 1, 0) = <<>> /\ SubSeq(s, 1, Len(s)) = s
  BY SubSeqEmpty, SubSeqFull
<1>2. ASSUME NEW k \in 0..Len(s)
      PROVE  /\ SubSeq(s, 1, k) \in Seq(S) /\ Len(SubSeq(s, 1, k)) = k
             /\ \A i \in 1..k : SubSeq(s, 1, k)[i] = s[i]
  <2>1. k \in Nat /\ k <= Len(s) /\ \A i \in 1..k : s[i] \in S
    BY ElementOfSeq
  <2>. QED
    BY <2>1, SubSeqProperties
<1>3. ASSUME NEW k \in 0..(Len(s) - 1)
      PROVE  k + 1 \in 1..Len(s) /\ s[k + 1] \in S /\ SubSeq(s, 1, k + 1) = Append(SubSeq(s, 1, k), s[k + 1])
  <2>1. k + 1 \in 1..Len(s) /\ k \in 0..Len(s) /\ k + 1 \in 0..Len(s) /\ k \in Nat
    OBVIOUS
  <2>2. s[k + 1] \in S
    BY <2>1, ElementOfSeq
  <2>. DEFINE y == SubSeq(s, 1, k)
              z == SubSeq(s, 1, k + 1)
  <2>3. /\ y \in Seq(S) /\ Len(y) = k /\ \A i \in 1..k : y[i] = s[i]
        /\ z \in Seq(S) /\ Len(z) = k + 1 /\ \A i \in 1..(k + 1) : z[i] = s[i]
    BY <1>2, <2>1
  <2>. HIDE DEF y, z
  <2>4. /\ Append(y, s[k + 1]) \in Seq(S) /\ Len(Append(y, s[k + 1])) = k + 1
        /\ \A i \in 1..(k + 1) : Append(y, s[k + 1])[i] = s[i]
    <3>1. /\ Append(y, s[k + 1]) \in Seq(S) /\ Len(Append(y, s[k + 1])) = k + 1
          /\ \A i \in 1..k : Append(y, s[k + 1])[i] = y[i]
          /\ Append(y, s[k + 1])[k + 1] = s[k + 1]
      BY <2>2, <2>3, AppendProperties
    <3>. QED
      BY <2>1, <2>3, <3>1
  <2>5. z = Append(y, s[k + 1])
    BY <2>3, <2>4, SeqEqual
  <2>. QED
    BY <2>1, <2>2, <2>5 DEF y, z
<1>. QED
  BY <1>1, <1>2, <1>3

\* What texts are made of; nothing tells the provers that these are strings.
Atoms == STRING \cup Commands!Blanks \cup Commands!Quotes \cup {"\\"}

\* After text x the loops have t, and no line may go on.
ReadTo(x, t) == x \in Seq(Atoms) /\ ScansTo(x, t) /\ ~Pending(x)

LEMMA PendingIs ==
  ASSUME NEW S, NEW x \in Seq(S), NEW a \in S
  PROVE  Pending(Append(x, a)) <=> a = Slash
<1>1. Append(x, a) # <<>> /\ Append(x, a)[Len(Append(x, a))] = a
  BY AppendProperties
<1>. QED
  BY <1>1 DEF Pending, Slash

LEMMA ReadsOne ==
  ASSUME NEW x \in Seq(Atoms), NEW a \in Atoms, NEW t, ScansTo(x, t), ~(Pending(x) /\ a = "\n")
  PROVE  /\ Append(x, a) \in Seq(Atoms) /\ ScansTo(Append(x, a), Commands!Scan(t, a))
         /\ a # Slash => ReadTo(Append(x, a), Commands!Scan(t, a))
<1>1. Append(x, a) \in Seq(Atoms)
  BY AppendProperties
<1>2. ScansTo(Append(x, a), Commands!Scan(t, a))
  BY ScansOne
<1>3. Pending(Append(x, a)) <=> a = Slash
  BY PendingIs
<1>. QED
  BY <1>1, <1>2, <1>3 DEF ReadTo

\* A bare part.
LEMMA ReadsBare ==
  ASSUME NEW x, NEW w \in Seq(Atoms), NEW out, NEW word \in Seq(Atoms), NEW place \in {"gap", "bare"}, NEW whole,
         ReadTo(x, Unescaped(out, word, place, whole)), Range(w) \cap (Commands!Blanks \cup Commands!Quotes \cup {"\\"}) = {},
         place = "bare" \/ w # <<>>
  PROVE  ReadTo(x \o w, Unescaped(out, word \o w, "bare", whole))
<1>. DEFINE y(k) == SubSeq(w, 1, k)
            T == {k \in 0..Len(w) : ReadTo(x \o y(k), Unescaped(out, word \o y(k), IF k = 0 THEN place ELSE "bare", whole))}
<1>0. x \in Seq(Atoms) /\ Len(w) \in Nat
  BY DEF ReadTo
<1>1. 0 \in T
  <2>1. y(0) = <<>>
    BY PrefixIs
  <2>2. x \o y(0) = x /\ word \o y(0) = word
    <3>. HIDE DEF y
    <3>. QED
      BY <1>0, <2>1, ConcatEmptySeq
  <2>3. (IF 0 = 0 THEN place ELSE "bare") = place /\ 0 \in 0..Len(w)
    BY <1>0
  <2>4. ReadTo(x \o y(0), Unescaped(out, word \o y(0), IF 0 = 0 THEN place ELSE "bare", whole))
    <3>. HIDE DEF y
    <3>. QED
      BY <2>2, <2>3, Zenon
  <2>. HIDE DEF y
  <2>. QED
    BY <2>3, <2>4
<1>2. ASSUME NEW k \in 0..(Len(w) - 1), k \in T PROVE k + 1 \in T
  <2>. DEFINE a == w[k + 1]
  <2>1. y(k) \in Seq(Atoms) /\ a \in Atoms /\ y(k + 1) = Append(y(k), a) /\ k + 1 \in 1..Len(w)
        /\ k + 1 \in 0..Len(w) /\ k + 1 # 0
    <3>1. k \in 0..Len(w) /\ k + 1 \in 0..Len(w) /\ k + 1 # 0
      BY <1>0
    <3>. QED
      BY <3>1, PrefixIs
  <2>2. a \notin Commands!Blanks \cup Commands!Quotes /\ a # Slash /\ a # "\n"
    <3>1. a \in Range(w)
      BY <2>1 DEF Range
    <3>2. "\n" \in Commands!Blanks
      BY DEF Commands!Blanks
    <3>. HIDE DEF a
    <3>. QED
      BY <3>1, <3>2 DEF Slash
  <2>3. ReadTo(x \o y(k), Unescaped(out, word \o y(k), IF k = 0 THEN place ELSE "bare", whole))
    BY <1>2
  <2>. HIDE DEF y, T, a
  <2>. DEFINE s == x \o y(k)
              v == word \o y(k)
              p == IF k = 0 THEN place ELSE "bare"
  <2>4. x \o y(k + 1) = Append(s, a) /\ word \o y(k + 1) = Append(v, a)
    <3>. DEFINE z == y(k)
    <3>1. z \in Seq(Atoms) /\ y(k + 1) = Append(z, a)
      BY <2>1
    <3>. HIDE DEF z
    <3>2. a \in Atoms /\ x \in Seq(Atoms)
      BY <1>0, <2>1
    <3>3. x \o Append(z, a) = Append(x \o z, a)
      BY <3>1, <3>2, JoinIs
    <3>4. word \o Append(z, a) = Append(word \o z, a)
      BY <3>1, <3>2, JoinIs
    <3>. QED
      BY <3>1, <3>3, <3>4, Zenon DEF z
  <2>5. s \in Seq(Atoms) /\ ScansTo(s, Unescaped(out, v, p, whole)) /\ p \in {"gap", "bare"}
    BY <2>3 DEF ReadTo
  <2>. HIDE DEF s, v, p
  <2>6. Commands!Scan(Unescaped(out, v, p, whole), a) = Unescaped(out, Append(v, a), "bare", whole)
    BY <2>2, <2>5, ScanOutside
  <2>7. ReadTo(Append(s, a), Unescaped(out, Append(v, a), "bare", whole))
    BY <2>1, <2>2, <2>5, <2>6, ReadsOne
  <2>. QED
    BY <2>1, <2>4, <2>7 DEF T
<1>3. Len(w) \in T
  <2>. HIDE DEF T
  <2>1. \A k \in 0..Len(w) : k \in T
    BY <1>0, <1>1, <1>2, UpTo
  <2>. QED
    BY <1>0, <2>1
<1>4. y(Len(w)) = w
  BY PrefixIs
<1>5. Len(w) = 0 => w = <<>>
  OBVIOUS
<1>. HIDE DEF y
<1>6. (IF Len(w) = 0 THEN place ELSE "bare") = "bare"
  BY <1>5
<1>. QED
  BY <1>3, <1>4, <1>6

LEMMA InQuotesType ==
  ASSUME NEW q, NEW a \in Atoms
  PROVE  Commands!InQuotes(q, a) \in Seq(Atoms)
<1>1. Slash \in Atoms
  BY DEF Atoms, Slash
<1>2. <<Slash, a>> \in Seq(Atoms) /\ <<a>> \in Seq(Atoms)
  BY <1>1
<1>. QED
  BY <1>2, Zenon DEF Commands!InQuotes, Slash

\* An atom in quotes.
LEMMA ReadsInside ==
  ASSUME NEW x \in Seq(Atoms), NEW a \in Atoms, NEW q \in Commands!Quotes, NEW out, NEW word \in Seq(Atoms), NEW whole,
         ScansTo(x, Unescaped(out, word, q, whole)), ~(Pending(x) /\ a = "\n"), q = "'" => a # "'"
  PROVE  /\ Commands!InQuotes(q, a) \in Seq(Atoms)
         /\ ScansTo(x \o Commands!InQuotes(q, a), Unescaped(out, Append(word, a), q, whole))
         /\ Pending(x \o Commands!InQuotes(q, a)) <=> a = Slash
<1>0. Slash \in Atoms
  BY DEF Atoms, Slash
<1>1. CASE q = Double /\ a \in {Double, Slash}
  <2>1. Commands!InQuotes(q, a) = <<Slash, a>> /\ <<Slash, a>> \in Seq(Atoms)
    <3>1. Commands!InQuotes(q, a) = <<Slash, a>>
      BY <1>1, Zenon DEF Commands!InQuotes, Double, Slash
    <3>. QED
      BY <1>0, <3>1
  <2>. DEFINE y == Append(x, Slash)
  <2>2. ScansTo(y, Commands!Scan(Unescaped(out, word, q, whole), Slash)) /\ y \in Seq(Atoms)
    <3>1. Slash # "\n"
      BY DEF Slash
    <3>. QED
      BY <1>0, <3>1, ReadsOne
  <2>3. Commands!Scan(Unescaped(out, word, q, whole), Slash) = Escaped(out, word, q, whole)
        /\ Commands!Scan(Escaped(out, word, q, whole), a) = Unescaped(out, Append(word, a), q, whole)
    BY <1>1, ScanEscape
  <2>5. x \o <<Slash, a>> = Append(y, a)
    <3>1. <<Slash, a>> = Append(<<Slash>>, a) /\ <<Slash>> \in Seq(Atoms)
      BY <1>0
    <3>2. x \o Append(<<Slash>>, a) = Append(x \o <<Slash>>, a)
      BY <3>1, JoinIs
    <3>3. x \o <<Slash>> = y
      BY AppendIsConcat
    <3>. QED
      BY <3>1, <3>2, <3>3
  <2>. HIDE DEF y
  <2>6. ScansTo(y, Escaped(out, word, q, whole))
    BY <2>2, <2>3, Zenon
  <2>7. a # "\n"
    BY <1>1 DEF Double, Slash
  <2>8. ScansTo(Append(y, a), Commands!Scan(Escaped(out, word, q, whole), a))
    BY <2>2, <2>6, <2>7, ReadsOne
  <2>9. ScansTo(Append(y, a), Unescaped(out, Append(word, a), q, whole))
    BY <2>3, <2>8, Zenon
  <2>10. Pending(Append(y, a)) <=> a = Slash
    BY <2>2, PendingIs
  <2>. QED
    BY <2>1, <2>5, <2>9, <2>10, Zenon
<1>2. CASE ~(q = Double /\ a \in {Double, Slash})
  <2>1. Commands!InQuotes(q, a) = <<a>> /\ <<a>> \in Seq(Atoms)
    <3>1. Commands!InQuotes(q, a) = <<a>>
      BY <1>2, Zenon DEF Commands!InQuotes, Double, Slash
    <3>. QED
      BY <3>1
  <2>2. x \o <<a>> = Append(x, a)
    BY AppendIsConcat
  <2>3. a # q /\ ~(q = Double /\ a = Slash)
    BY <1>2 DEF Commands!Quotes, Double, Slash
  <2>4. Commands!Scan(Unescaped(out, word, q, whole), a) = Unescaped(out, Append(word, a), q, whole)
    BY <2>3, ScanInside
  <2>5. ScansTo(Append(x, a), Commands!Scan(Unescaped(out, word, q, whole), a))
    BY ReadsOne
  <2>6. Pending(Append(x, a)) <=> a = Slash
    BY PendingIs
  <2>. QED
    BY <2>1, <2>2, <2>4, <2>5, <2>6, Zenon
<1>. QED
  BY <1>1, <1>2

\* What is in quotes.
Inside(q, w) == FlattenSeq([i \in DOMAIN w |-> Commands!InQuotes(q, w[i])])

LEMMA ReadsAllInside ==
  ASSUME NEW x, NEW w \in Seq(Atoms), NEW q \in Commands!Quotes, NEW out, NEW word \in Seq(Atoms), NEW whole,
         ReadTo(x, Unescaped(out, word, q, whole)),
         q = "'" => "'" \notin Range(w), \A k \in DOMAIN w : ~Commands!GoesOn(w, k)
  PROVE  /\ Inside(q, w) \in Seq(Atoms)
         /\ ScansTo(x \o Inside(q, w), Unescaped(out, word \o w, q, whole))
<1>. DEFINE n == Len(w)
            ls == [i \in 1..n |-> Commands!InQuotes(q, w[i])]
            y(k) == SubSeq(w, 1, k)
<1>1. n \in Nat /\ DOMAIN w = 1..n /\ x \in Seq(Atoms) /\ ScansTo(x, Unescaped(out, word, q, whole)) /\ ~Pending(x)
  BY DEF ReadTo
<1>2. ls \in [1..n -> Seq(Atoms)] /\ Inside(q, w) = FlattenSeq(ls)
  <2>1. \A i \in 1..n : w[i] \in Atoms
    BY ElementOfSeq
  <2>2. \A a \in Atoms : Commands!InQuotes(q, a) \in Seq(Atoms)
    BY InQuotesType
  <2>. QED
    BY <1>1, <2>1, <2>2 DEF Inside
<1>. HIDE DEF ls
<1>3. PICK p : Growing(Atoms, n, ls, p) /\ FlattenSeq(ls) = p[n]
  BY <1>1, <1>2, FlattenIs
<1>4. p \in [0..n -> Seq(Atoms)] /\ p[0] = <<>> /\ \A k \in 0..(n - 1) : p[k + 1] = p[k] \o ls[k + 1]
  BY <1>3 DEF Growing
<1>. DEFINE T == {k \in 0..n : /\ ScansTo(x \o p[k], Unescaped(out, word \o y(k), q, whole))
                               /\ Pending(x \o p[k]) => k # 0 /\ w[k] = Slash}
<1>5. 0 \in T
  <2>1. y(0) = <<>>
    BY PrefixIs
  <2>. HIDE DEF y
  <2>2. x \o p[0] = x /\ word \o y(0) = word /\ 0 \in 0..n
    BY <1>1, <1>4, <2>1, ConcatEmptySeq
  <2>. HIDE DEF n
  <2>3. ScansTo(x \o p[0], Unescaped(out, word \o y(0), q, whole)) /\ ~Pending(x \o p[0])
    BY <1>1, <2>2, Zenon
  <2>. QED
    BY <2>2, <2>3
<1>6. ASSUME NEW k \in 0..(n - 1), k \in T PROVE k + 1 \in T
  <2>. DEFINE a == w[k + 1]
  <2>1. y(k) \in Seq(Atoms) /\ a \in Atoms /\ y(k + 1) = Append(y(k), a) /\ k + 1 \in 1..n
        /\ k + 1 \in 0..n /\ k + 1 # 0 /\ k \in 0..n
    <3>1. k \in 0..n /\ k + 1 \in 0..n /\ k + 1 # 0
      BY <1>1
    <3>. QED
      BY <3>1, PrefixIs
  <2>2. p[k + 1] = p[k] \o Commands!InQuotes(q, a) /\ p[k] \in Seq(Atoms)
    <3>1. ls[k + 1] = Commands!InQuotes(q, a)
      <4>. HIDE DEF y, T, n
      <4>. QED
        BY <2>1 DEF ls
    <3>. QED
      BY <1>4, <2>1, <3>1
  <2>3. ScansTo(x \o p[k], Unescaped(out, word \o y(k), q, whole)) /\ (Pending(x \o p[k]) => k # 0 /\ w[k] = Slash)
    BY <1>6
  <2>4. ~(Pending(x \o p[k]) /\ a = "\n")
    <3>1. SUFFICES ASSUME Pending(x \o p[k]), a = "\n" PROVE FALSE
      OBVIOUS
    <3>2. k # 0 /\ w[k] = Slash /\ w[k + 1] = "\n"
      BY <2>3, <3>1
    <3>3. k \in 1..n /\ k \in 1..(Len(w) - 1)
      BY <1>1, <3>2
    <3>4. Commands!GoesOn(w, k)
      BY <3>2, <3>3 DEF Commands!GoesOn, Slash
    <3>. QED
      BY <1>1, <3>3, <3>4
  <2>5. q = "'" => a # "'"
    <3>1. a \in Range(w)
      <4>. HIDE DEF n
      <4>. QED
        BY <1>1, <2>1 DEF Range
    <3>. QED
      BY <3>1
  <2>. DEFINE s == x \o p[k]
              v == word \o y(k)
              c == Commands!InQuotes(q, a)
              z == y(k)
  <2>6. z \in Seq(Atoms) /\ y(k + 1) = Append(z, a)
    BY <2>1
  <2>7. s \in Seq(Atoms)
    BY <1>1, <2>2, ConcatProperties
  <2>. HIDE DEF y, T, a, n, z
  <2>8. v \in Seq(Atoms) /\ word \o y(k + 1) = Append(v, a)
    <3>1. word \o z \in Seq(Atoms)
      BY <2>6, ConcatProperties
    <3>2. word \o Append(z, a) = Append(word \o z, a)
      BY <2>1, <2>6, JoinIs
    <3>. QED
      BY <2>6, <3>1, <3>2, Zenon DEF z
  <2>9. ScansTo(s, Unescaped(out, v, q, whole)) /\ ~(Pending(s) /\ a = "\n")
    BY <2>3, <2>4
  <2>. HIDE DEF v
  <2>10. c \in Seq(Atoms) /\ ScansTo(s \o c, Unescaped(out, Append(v, a), q, whole)) /\ (Pending(s \o c) <=> a = Slash)
    <3>. HIDE DEF s
    <3>. QED
      BY <2>1, <2>5, <2>7, <2>8, <2>9, ReadsInside
  <2>11. s \o c = x \o p[k + 1]
    <3>1. c \in Seq(Atoms)
      BY <2>10
    <3>. HIDE DEF c
    <3>. DEFINE u == p[k]
    <3>2. x \in Seq(Atoms) /\ u \in Seq(Atoms)
      BY <1>1, <2>2
    <3>. HIDE DEF u, s
    <3>3. \A e \in Seq(Atoms), f \in Seq(Atoms), g \in Seq(Atoms) : (e \o f) \o g = e \o (f \o g)
      BY ConcatAssociative
    <3>4. (x \o u) \o c = x \o (u \o c)
      BY <3>1, <3>2, <3>3, Zenon
    <3>. QED
      BY <2>2, <3>4, Zenon DEF c, s, u
  <2>. HIDE DEF s, c
  <2>12. ScansTo(x \o p[k + 1], Unescaped(out, word \o y(k + 1), q, whole))
    BY <2>8, <2>10, <2>11, Zenon
  <2>13. Pending(x \o p[k + 1]) => w[k + 1] = Slash
    BY <2>10, <2>11, Zenon DEF a
  <2>. QED
    BY <2>1, <2>12, <2>13 DEF T
<1>7. n \in T
  <2>. HIDE DEF T
  <2>1. \A k \in 0..n : k \in T
    BY <1>1, <1>5, <1>6, UpTo
  <2>. QED
    BY <1>1, <2>1
<1>8. y(n) = w
  BY PrefixIs
<1>9. p[n] \in Seq(Atoms)
  BY <1>1, <1>4
<1>. HIDE DEF y, n
<1>. QED
  BY <1>2, <1>3, <1>7, <1>8, <1>9

\* A part in quotes.
LEMMA ReadsQuoted ==
  ASSUME NEW x, NEW w \in Seq(Atoms), NEW q \in Commands!Quotes, NEW out, NEW word \in Seq(Atoms), NEW whole,
         NEW place \in {"gap", "bare"}, ReadTo(x, Unescaped(out, word, place, whole)),
         q = "'" => "'" \notin Range(w), \A k \in DOMAIN w : ~Commands!GoesOn(w, k)
  PROVE  /\ <<q>> \o Inside(q, w) \o <<q>> \in Seq(Atoms)
         /\ place = "gap" => ReadTo(x \o (<<q>> \o Inside(q, w) \o <<q>>), Unescaped(Append(out, word \o w), Commands!NoText, "gap", On))
         /\ place = "bare" => ReadTo(x \o (<<q>> \o Inside(q, w) \o <<q>>), Unescaped(out, word \o w, "bare", Off))
<1>. DEFINE y == Append(x, q)
            in == Inside(q, w)
            v == IF place = "gap" THEN On ELSE Off
            text == <<q>> \o in \o <<q>>
<1>1. q \in Atoms /\ q # Slash /\ q # "\n" /\ <<q>> \in Seq(Atoms)
  <2>1. q \in Atoms /\ q # Slash /\ q # "\n"
    BY DEF Atoms, Commands!Quotes, Slash
  <2>. QED
    BY <2>1
<1>2. x \in Seq(Atoms) /\ ScansTo(x, Unescaped(out, word, place, whole))
  BY DEF ReadTo
<1>3. Commands!Scan(Unescaped(out, word, place, whole), q) = Unescaped(out, word, q, v)
  <2>1. Commands!Scan(Unescaped(out, word, "gap", whole), q) = Unescaped(out, word, q, On)
    BY ScanOutside
  <2>2. Commands!Scan(Unescaped(out, word, "bare", whole), q) = Unescaped(out, word, q, Off)
    BY ScanOutside
  <2>3. "gap" # "bare"
    OBVIOUS
  <2>. QED
    BY <2>1, <2>2, <2>3, Zenon
<1>. HIDE DEF v
<1>4. ReadTo(y, Unescaped(out, word, q, v)) /\ y \in Seq(Atoms)
  BY <1>1, <1>2, <1>3, ReadsOne
<1>. HIDE DEF y
<1>5. in \in Seq(Atoms) /\ ScansTo(y \o in, Unescaped(out, word \o w, q, v))
  BY <1>4, ReadsAllInside
<1>. HIDE DEF in
<1>6. y \o in \in Seq(Atoms)
  BY <1>4, <1>5, ConcatProperties
<1>7. ReadTo(Append(y \o in, q), Commands!Scan(Unescaped(out, word \o w, q, v), q))
  BY <1>1, <1>5, <1>6, ReadsOne
<1>8. text \in Seq(Atoms) /\ Append(y \o in, q) = x \o text
  <2>1. <<q>> \o in \in Seq(Atoms)
    BY <1>1, <1>5, ConcatProperties
  <2>2. text \in Seq(Atoms)
    BY <1>1, <2>1, ConcatProperties
  <2>3. y = x \o <<q>>
    BY <1>1, <1>2, AppendIsConcat DEF y
  <2>4. (x \o <<q>>) \o in = x \o (<<q>> \o in)
    BY <1>1, <1>2, <1>5, ConcatAssociative
  <2>5. Append(y \o in, q) = (y \o in) \o <<q>>
    BY <1>1, <1>6, AppendIsConcat
  <2>6. (x \o (<<q>> \o in)) \o <<q>> = x \o text
    <3>. DEFINE z == <<q>> \o in
                c == <<q>>
    <3>1. z \in Seq(Atoms) /\ c \in Seq(Atoms)
      BY <1>1, <2>1
    <3>. HIDE DEF z, c
    <3>2. (x \o z) \o c = x \o (z \o c)
      BY <1>2, <3>1, ConcatAssociative
    <3>. QED
      BY <3>2 DEF z, c
  <2>. QED
    BY <2>2, <2>3, <2>4, <2>5, <2>6, Zenon
<1>. HIDE DEF text
<1>9. place = "gap" => v = On
  BY DEF v
<1>10. place = "bare" => v = Off
  BY DEF v
<1>11. /\ Commands!Scan(Unescaped(out, word \o w, q, On), q) = Unescaped(Append(out, word \o w), Commands!NoText, "gap", On)
       /\ Commands!Scan(Unescaped(out, word \o w, q, Off), q) = Unescaped(out, word \o w, "bare", Off)
  <2>. DEFINE u == word \o w
  <2>. HIDE DEF u
  <2>1. /\ Commands!Scan(Unescaped(out, u, q, On), q) = Unescaped(Append(out, u), Commands!NoText, "gap", On)
        /\ Commands!Scan(Unescaped(out, u, q, Off), q) = Unescaped(out, u, "bare", Off)
    BY ScanInside
  <2>. QED
    BY <2>1 DEF u
<1>12. place = "gap" => ReadTo(x \o text, Unescaped(Append(out, word \o w), Commands!NoText, "gap", On))
  BY <1>7, <1>8, <1>9, <1>11, Zenon
<1>13. place = "bare" => ReadTo(x \o text, Unescaped(out, word \o w, "bare", Off))
  BY <1>7, <1>8, <1>10, <1>11, Zenon
<1>. QED
  BY <1>8, <1>12, <1>13, Zenon DEF text, in

\* What a command is made of.
IsPartOf(p) == Commands!IsPart(p) /\ p.says \in Seq(Atoms)

\* A part of a word that does not begin with a quote.
LEMMA ReadsPart ==
  ASSUME NEW x, NEW p, IsPartOf(p), NEW out, NEW word \in Seq(Atoms), NEW whole, NEW place \in {"gap", "bare"},
         ReadTo(x, Unescaped(out, word, place, whole)), place = "gap" => p.as = "bare" /\ p.says # <<>>
  PROVE  /\ Commands!PartText(p) \in Seq(Atoms)
         /\ \E wh : ReadTo(x \o Commands!PartText(p), Unescaped(out, word \o p.says, "bare", wh))
<1>. DEFINE w == p.says
            q == p.as
<1>1. w \in Seq(Atoms) /\ \A k \in DOMAIN w : ~Commands!GoesOn(w, k)
  BY DEF IsPartOf, Commands!IsPart
<1>2. \/ q = "bare" /\ Range(w) \cap (Commands!Blanks \cup Commands!Quotes \cup {"\\"}) = {}
      \/ q \in Commands!Quotes /\ q # "bare" /\ (q = "'" => "'" \notin Range(w))
  BY SameThere DEF IsPartOf, Commands!IsPart, Commands!Quotes
<1>3. CASE q = "bare"
  <2>1. Commands!PartText(p) = w /\ "bare" \notin Commands!Quotes
    BY <1>3, Zenon DEF Commands!PartText, Commands!Quotes
  <2>2. Range(w) \cap (Commands!Blanks \cup Commands!Quotes \cup {"\\"}) = {}
    BY <1>2, <1>3, <2>1, Zenon
  <2>3. place = "bare" \/ w # <<>>
    OBVIOUS
  <2>. HIDE DEF w
  <2>4. ReadTo(x \o w, Unescaped(out, word \o w, "bare", whole))
    BY <1>1, <2>2, <2>3, ReadsBare
  <2>. QED
    BY <1>1, <2>1, <2>4, Zenon DEF w
<1>4. CASE q # "bare"
  <2>1. Commands!PartText(p) = <<q>> \o Inside(q, w) \o <<q>>
    BY <1>4, SameThere, Zenon DEF Commands!PartText, Inside
  <2>2. place = "bare" /\ q \in Commands!Quotes /\ (q = "'" => "'" \notin Range(w))
    BY <1>2, <1>4
  <2>. HIDE DEF w, q
  <2>3. /\ <<q>> \o Inside(q, w) \o <<q>> \in Seq(Atoms)
        /\ ReadTo(x \o (<<q>> \o Inside(q, w) \o <<q>>), Unescaped(out, word \o w, "bare", Off))
    BY <1>1, <2>2, ReadsQuoted
  <2>. QED
    BY <2>1, <2>3, Zenon DEF w
<1>. QED
  BY <1>3, <1>4

\* The texts of parts, one after the other, and what they say.
PartsText(ps) == FlattenSeq([i \in DOMAIN ps |-> Commands!PartText(ps[i])])
PartsSay(ps) == FlattenSeq([i \in DOMAIN ps |-> ps[i].says])

\* The command so far has words ws, the last of which may still go on.
Ends(t, ws, whole) ==
  \/ t = Unescaped(ws, Commands!NoText, "gap", whole)
  \/ \E out, word : ws = Append(out, word) /\ t = Unescaped(out, word, "bare", whole)

LEMMA QuotedPart ==
  ASSUME NEW p, IsPartOf(p)
  PROVE  /\ p.says \in Seq(Atoms) /\ \A k \in DOMAIN p.says : ~Commands!GoesOn(p.says, k)
         /\ p.as # "bare" => p.as \in Commands!Quotes
         /\ p.as = "'" => "'" \notin Range(p.says)
         /\ p.as \in Commands!Quotes => p.as # "bare"
<1>1. \/ p.as = "bare"
      \/ p.as = "'" /\ "'" \notin Range(p.says)
      \/ p.as = Double
  BY SameThere, Zenon DEF IsPartOf, Commands!IsPart, Double
<1>2. Double # "'" /\ Double # "bare" /\ Double \in Commands!Quotes /\ "'" \in Commands!Quotes /\ "bare" \notin Commands!Quotes
  BY DEF Commands!Quotes, Double
<1>3. "bare" # "'"
  OBVIOUS
<1>4. p.says \in Seq(Atoms) /\ \A k \in DOMAIN p.says : ~Commands!GoesOn(p.says, k)
  BY Zenon DEF IsPartOf, Commands!IsPart
<1>. QED
  BY <1>1, <1>2, <1>3, <1>4, Zenon

LEMMA ReadsWord ==
  ASSUME NEW x, NEW P, NEW ps \in Seq(P), \A i \in DOMAIN ps : IsPartOf(ps[i]), NEW out, NEW whole,
         ReadTo(x, Unescaped(out, Commands!NoText, "gap", whole)),
         \/ Len(ps) = 1 /\ ps[1].as \in Commands!Quotes
         \/ Len(ps) > 0 /\ ps[1].as = "bare" /\ ps[1].says # Commands!NoText
  PROVE  /\ PartsText(ps) \in Seq(Atoms) /\ PartsSay(ps) \in Seq(Atoms)
         /\ \E t, wh : ReadTo(x \o PartsText(ps), t) /\ Ends(t, Append(out, PartsSay(ps)), wh)
<1>. DEFINE n == Len(ps)
            texts == [i \in 1..n |-> Commands!PartText(ps[i])]
            says == [i \in 1..n |-> ps[i].says]
<1>1. n \in Nat /\ DOMAIN ps = 1..n /\ x \in Seq(Atoms) /\ n > 0
  BY DEF ReadTo
<1>2. \A i \in 1..n : Commands!PartText(ps[i]) \in Seq(Atoms) /\ ps[i].says \in Seq(Atoms)
  <2>1. TAKE i \in 1..n
  <2>. DEFINE p == ps[i]
  <2>2. IsPartOf(p)
    BY <1>1, <2>1
  <2>. HIDE DEF p
  <2>3. p.says \in Seq(Atoms)
    BY <2>2 DEF IsPartOf
  <2>4. CASE p.as = "bare"
    BY <2>3, <2>4, Zenon DEF Commands!PartText, p
  <2>5. CASE p.as # "bare"
    <3>1. p.as \in Commands!Quotes /\ DOMAIN p.says = 1..Len(p.says) /\ Len(p.says) \in Nat
      <4>1. p.as \in Commands!Quotes
        BY <2>2, <2>5, QuotedPart
      <4>. QED
        BY <2>3, <4>1
    <3>2. [k \in DOMAIN p.says |-> Commands!InQuotes(p.as, p.says[k])] \in [1..Len(p.says) -> Seq(Atoms)]
      <4>1. \A k \in 1..Len(p.says) : p.says[k] \in Atoms
        BY <2>3, ElementOfSeq
      <4>2. \A k \in 1..Len(p.says) : Commands!InQuotes(p.as, p.says[k]) \in Seq(Atoms)
        BY <4>1, InQuotesType
      <4>. QED
        BY <3>1, <4>2
    <3>3. Inside(p.as, p.says) \in Seq(Atoms)
      BY <3>1, <3>2, FlattenType DEF Inside
    <3>4. p.as \in Atoms
      BY <3>1 DEF Atoms
    <3>. DEFINE q == p.as
                in == Inside(p.as, p.says)
    <3>5. <<q>> \in Seq(Atoms)
      BY <3>4
    <3>6. Commands!PartText(p) = <<q>> \o in \o <<q>>
      BY <2>5, SameThere, Zenon DEF Commands!PartText, Inside
    <3>. HIDE DEF q, in
    <3>7. <<q>> \o in \in Seq(Atoms)
      BY <3>3, <3>5, ConcatProperties DEF in
    <3>8. <<q>> \o in \o <<q>> \in Seq(Atoms)
      BY <3>5, <3>7, ConcatProperties
    <3>. QED
      BY <2>3, <3>6, <3>8, Zenon DEF p
  <2>. QED
    BY <2>4, <2>5
<1>3. /\ texts \in [1..n -> Seq(Atoms)] /\ PartsText(ps) = FlattenSeq(texts)
      /\ says \in [1..n -> Seq(Atoms)] /\ PartsSay(ps) = FlattenSeq(says)
  <2>1. texts \in [1..n -> Seq(Atoms)] /\ says \in [1..n -> Seq(Atoms)]
    BY <1>2
  <2>2. PartsText(ps) = FlattenSeq(texts) /\ PartsSay(ps) = FlattenSeq(says)
    BY <1>1, Zenon DEF PartsText, PartsSay
  <2>. QED
    BY <2>1, <2>2
<1>4. \A i \in 1..n : texts[i] = Commands!PartText(ps[i]) /\ says[i] = ps[i].says /\ IsPartOf(ps[i])
  BY <1>1
<1>. HIDE DEF texts, says
<1>5. PICK p : Growing(Atoms, n, texts, p) /\ FlattenSeq(texts) = p[n]
  BY <1>1, <1>3, FlattenIs
<1>6. PICK s : Growing(Atoms, n, says, s) /\ FlattenSeq(says) = s[n]
  BY <1>1, <1>3, FlattenIs
<1>7. /\ p \in [0..n -> Seq(Atoms)] /\ p[0] = <<>> /\ \A k \in 0..(n - 1) : p[k + 1] = p[k] \o texts[k + 1]
      /\ s \in [0..n -> Seq(Atoms)] /\ s[0] = <<>> /\ \A k \in 0..(n - 1) : s[k + 1] = s[k] \o says[k + 1]
  BY <1>5, <1>6 DEF Growing
<1>. HIDE DEF n
<1>8. p[n] \in Seq(Atoms) /\ s[n] \in Seq(Atoms)
  BY <1>1, <1>7
<1>9. \E t, wh : ReadTo(x \o p[n], t) /\ Ends(t, Append(out, s[n]), wh)
  <2>1. CASE n = 1 /\ ps[1].as \in Commands!Quotes
    <3>. DEFINE q == ps[1].as
                w == ps[1].says
    <3>0. IsPartOf(ps[1])
      BY <1>4, <2>1
    <3>1. w \in Seq(Atoms) /\ \A k \in DOMAIN w : ~Commands!GoesOn(w, k)
      BY <3>0, QuotedPart
    <3>2. (q = "'" => "'" \notin Range(w)) /\ q # "bare"
      BY <2>1, <3>0, QuotedPart
    <3>3. Commands!PartText(ps[1]) = <<q>> \o Inside(q, w) \o <<q>>
      BY <3>2, SameThere, Zenon DEF Commands!PartText, Inside
    <3>4. p[1] = Commands!PartText(ps[1]) /\ s[1] = w
      <4>1. 0 \in 0..(n - 1) /\ 0 + 1 = 1 /\ 1 \in 1..n
        BY <1>1
      <4>2. p[1] = p[0] \o texts[1] /\ s[1] = s[0] \o says[1]
        BY <1>7, <4>1
      <4>3. texts[1] \in Seq(Atoms) /\ says[1] \in Seq(Atoms) /\ texts[1] = Commands!PartText(ps[1]) /\ says[1] = w
        BY <1>3, <1>4, <4>1
      <4>. HIDE DEF w
      <4>4. <<>> \o texts[1] = texts[1] /\ <<>> \o says[1] = says[1]
        BY <4>3, ConcatEmptySeq
      <4>. QED
        BY <1>7, <4>2, <4>3, <4>4
    <3>5. q \in Commands!Quotes
      BY <2>1
    <3>. HIDE DEF q, w
    <3>6. Commands!NoText \in Seq(Atoms) /\ Commands!NoText \o w = w
      BY <3>1, ConcatEmptySeq DEF Commands!NoText
    <3>7. ReadTo(x \o (<<q>> \o Inside(q, w) \o <<q>>), Unescaped(Append(out, Commands!NoText \o w), Commands!NoText, "gap", On))
      BY <3>1, <3>2, <3>5, <3>6, ReadsQuoted
    <3>8. ReadTo(x \o p[n], Unescaped(Append(out, s[n]), Commands!NoText, "gap", On))
      BY <2>1, <3>3, <3>4, <3>6, <3>7, Zenon
    <3>. QED
      BY <3>8 DEF Ends
  <2>2. CASE ps[1].as = "bare" /\ ps[1].says # Commands!NoText
    <3>. DEFINE R(k) == \E wh : ReadTo(x \o p[k], Unescaped(out, s[k], IF k = 0 THEN "gap" ELSE "bare", wh))
                T == {k \in 0..n : R(k)}
    <3>1. 0 \in T
      <4>1. x \o p[0] = x /\ s[0] = Commands!NoText /\ 0 \in 0..n
        BY <1>1, <1>7, ConcatEmptySeq DEF Commands!NoText
      <4>2. (IF 0 = 0 THEN "gap" ELSE "bare") = "gap"
        OBVIOUS
      <4>3. ReadTo(x \o p[0], Unescaped(out, s[0], IF 0 = 0 THEN "gap" ELSE "bare", whole))
        BY <4>1, <4>2, Zenon
      <4>4. R(0)
        BY <4>3, Zenon
      <4>. HIDE DEF R
      <4>. QED
        BY <4>1, <4>4
    <3>2. ASSUME NEW k \in 0..(n - 1), k \in T PROVE k + 1 \in T
      <4>. DEFINE m == k + 1
                  place == IF k = 0 THEN "gap" ELSE "bare"
                  y == x \o p[k]
                  v == s[k]
                  r == ps[m]
      <4>1. PICK wh : ReadTo(y, Unescaped(out, v, place, wh))
        BY <3>2
      <4>2. m \in 1..n /\ m \in 0..n /\ m # 0 /\ k \in 0..n
        BY <1>1
      <4>3. v \in Seq(Atoms) /\ p[k] \in Seq(Atoms) /\ p[m] = p[k] \o texts[m] /\ s[m] = v \o says[m]
        BY <1>7, <4>2
      <4>. HIDE DEF m, R, T
      <4>4. IsPartOf(r) /\ texts[m] = Commands!PartText(r) /\ says[m] = r.says
        BY <1>4, <4>2
      <4>5. place \in {"gap", "bare"} /\ (place = "gap" => r.as = "bare" /\ r.says # <<>>)
        <5>1. k = 0 => r = ps[1]
          BY DEF m
        <5>. QED
          BY <2>2, <5>1 DEF Commands!NoText
      <4>. HIDE DEF y, place, v, r
      <4>6. /\ Commands!PartText(r) \in Seq(Atoms)
            /\ \E w : ReadTo(y \o Commands!PartText(r), Unescaped(out, v \o r.says, "bare", w))
        BY <4>1, <4>3, <4>4, <4>5, ReadsPart
      <4>. DEFINE u == Commands!PartText(r)
                  z == p[k]
      <4>7. z \in Seq(Atoms) /\ u \in Seq(Atoms)
        BY <4>3, <4>6
      <4>8. y \o u = x \o p[m]
        <5>. HIDE DEF u, z
        <5>0. x \in Seq(Atoms)
          BY <1>1
        <5>1. (x \o z) \o u = x \o (z \o u)
          BY <4>7, <5>0, ConcatAssociative
        <5>. QED
          BY <4>3, <4>4, <5>1, Zenon DEF y, z, u
      <4>9. PICK w : ReadTo(y \o u, Unescaped(out, v \o r.says, "bare", w))
        BY <4>6
      <4>10. ReadTo(x \o p[m], Unescaped(out, s[m], IF m = 0 THEN "gap" ELSE "bare", w))
        <5>1. (IF m = 0 THEN "gap" ELSE "bare") = "bare"
          BY <4>2
        <5>. HIDE DEF u
        <5>. QED
          BY <4>3, <4>4, <4>8, <4>9, <5>1, Zenon
      <4>11. R(m)
        BY <4>10, Zenon DEF R
      <4>12. m \in T
        BY <4>2, <4>11 DEF T
      <4>. QED
        BY <4>12 DEF m
    <3>3. n \in T
      <4>. HIDE DEF T
      <4>1. \A k \in 0..n : k \in T
        BY <1>1, <3>1, <3>2, UpTo
      <4>. QED
        BY <1>1, <4>1
    <3>4. PICK wh : ReadTo(x \o p[n], Unescaped(out, s[n], IF n = 0 THEN "gap" ELSE "bare", wh))
      BY <3>3
    <3>5. (IF n = 0 THEN "gap" ELSE "bare") = "bare"
      BY <1>1
    <3>6. ReadTo(x \o p[n], Unescaped(out, s[n], "bare", wh))
      BY <3>4, <3>5, Zenon
    <3>7. Ends(Unescaped(out, s[n], "bare", wh), Append(out, s[n]), wh)
      BY Zenon DEF Ends
    <3>. QED
      BY <3>6, <3>7, Zenon
  <2>. QED
    BY <2>1, <2>2 DEF n
<1>. QED
  BY <1>3, <1>5, <1>6, <1>8, <1>9, Zenon

\* Commands!Blanks end the last word.
LEMMA BlankIs ==
  ASSUME NEW t, NEW ws, NEW wh, Ends(t, ws, wh), NEW a \in Commands!Blanks
  PROVE  Commands!Scan(t, a) = Unescaped(ws, Commands!NoText, "gap", wh)
<1>1. CASE t = Unescaped(ws, Commands!NoText, "gap", wh)
  BY <1>1, ScanOutside
<1>2. ASSUME NEW out, NEW word, ws = Append(out, word), t = Unescaped(out, word, "bare", wh)
      PROVE  Commands!Scan(t, a) = Unescaped(ws, Commands!NoText, "gap", wh)
  <2>1. Commands!Scan(Unescaped(out, word, "bare", wh), a) = Unescaped(Append(out, word), Commands!NoText, "gap", wh)
    BY ScanOutside
  <2>. QED
    BY <1>2, <2>1, Zenon
<1>. QED
  BY <1>1, <1>2, Zenon DEF Ends

LEMMA PairOf ==
  ASSUME NEW S, NEW b \in S, NEW a \in S
  PROVE  <<b>> \in Seq(S) /\ <<b, a>> = Append(<<b>>, a) /\ <<b, a>> \in Seq(S)
OBVIOUS

LEMMA ReadsBlank ==
  ASSUME NEW x, NEW t, NEW ws, NEW wh, ReadTo(x, t), Ends(t, ws, wh), NEW g \in Commands!Gaps
  PROVE  g \in Seq(Atoms) /\ ReadTo(x \o g, Unescaped(ws, Commands!NoText, "gap", wh))
<1>1. x \in Seq(Atoms) /\ ScansTo(x, t) /\ ~Pending(x)
  BY DEF ReadTo
<1>2. " " \in Commands!Blanks /\ "\n" \in Commands!Blanks
  BY DEF Commands!Blanks
<1>3. " " \in Atoms /\ "\n" \in Atoms /\ Slash \in Atoms
  BY <1>2 DEF Atoms, Slash
<1>4. " " # Slash /\ "\n" # Slash /\ " " # "\n"
  BY DEF Slash
<1>5. Commands!Scan(t, " ") = Unescaped(ws, Commands!NoText, "gap", wh) /\ Commands!Scan(t, "\n") = Unescaped(ws, Commands!NoText, "gap", wh)
  BY <1>2, BlankIs
<1>6. \A a \in {" ", "\n"} : <<a>> \in Seq(Atoms) /\ ReadTo(x \o <<a>>, Unescaped(ws, Commands!NoText, "gap", wh))
  <2>1. TAKE a \in {" ", "\n"}
  <2>2. a \in Atoms /\ a # Slash /\ Commands!Scan(t, a) = Unescaped(ws, Commands!NoText, "gap", wh)
    BY <1>3, <1>4, <1>5
  <2>3. ReadTo(Append(x, a), Commands!Scan(t, a))
    BY <1>1, <2>2, ReadsOne
  <2>4. Append(x, a) = x \o <<a>>
    BY <1>1, <2>2, AppendIsConcat
  <2>5. <<a>> \in Seq(Atoms)
    BY <2>2, PairOf
  <2>. QED
    BY <2>2, <2>3, <2>4, <2>5, Zenon
<1>7. \A a : a = "\n" => <<Slash, a>> \in Seq(Atoms) /\ ReadTo(x \o <<Slash, a>>, Unescaped(ws, Commands!NoText, "gap", wh))
  <2>1. SUFFICES ASSUME NEW a, a = "\n"
                 PROVE  <<Slash, a>> \in Seq(Atoms) /\ ReadTo(x \o <<Slash, a>>, Unescaped(ws, Commands!NoText, "gap", wh))
    BY Zenon
  <2>. DEFINE y == Append(x, Slash)
              e == <<Slash>>
  <2>2. a \in Atoms /\ a # Slash
    BY <1>3, <1>4, <2>1
  <2>3. e \in Seq(Atoms) /\ <<Slash, a>> = Append(e, a) /\ <<Slash, a>> \in Seq(Atoms)
    BY <1>3, <2>2, PairOf
  <2>4. y \in Seq(Atoms) /\ y = x \o e
    BY <1>1, <1>3, AppendProperties, AppendIsConcat
  <2>5. ScansTo(x \o <<Slash, a>>, Commands!Scan(t, " "))
    <3>1. ScansTo(x \o <<"\\", "\n">>, Commands!Scan(t, " "))
      BY <1>1, <1>3, ScansLine DEF Slash
    <3>. QED
      BY <2>1, <3>1, Zenon DEF Slash
  <2>. HIDE DEF y, e
  <2>6. x \o Append(e, a) = Append(x \o e, a)
    BY <1>1, <2>2, <2>3, JoinIs
  <2>7. Append(y, a) \in Seq(Atoms) /\ ~Pending(Append(y, a))
    <3>1. Append(y, a) \in Seq(Atoms)
      BY <2>2, <2>4, AppendProperties
    <3>2. y \in Seq(Atoms)
      BY <2>4
    <3>3. \A d \in Atoms : Pending(Append(y, d)) <=> d = Slash
      BY <3>2, PendingIs
    <3>. QED
      BY <2>2, <3>1, <3>3, Zenon
  <2>. QED
    BY <1>5, <2>3, <2>4, <2>5, <2>6, <2>7, Zenon DEF ReadTo
<1>8. g = <<" ">> \/ g = <<"\n">> \/ g = <<Slash, "\n">>
  BY Zenon DEF Commands!Gaps, Slash
<1>. QED
  BY <1>6, <1>7, <1>8

LEMMA ReadsGap ==
  ASSUME NEW x, NEW t, NEW ws, NEW wh, ReadTo(x, t), Ends(t, ws, wh), NEW gap \in Seq(Commands!Gaps),
         gap # <<>> \/ t = Unescaped(ws, Commands!NoText, "gap", wh)
  PROVE  FlattenSeq(gap) \in Seq(Atoms) /\ ReadTo(x \o FlattenSeq(gap), Unescaped(ws, Commands!NoText, "gap", wh))
<1>. DEFINE n == Len(gap)
            u == Unescaped(ws, Commands!NoText, "gap", wh)
<1>1. n \in Nat /\ x \in Seq(Atoms) /\ (n = 0 => gap = <<>>) /\ \A i \in 1..n : gap[i] \in Commands!Gaps
  BY ElementOfSeq DEF ReadTo
<1>2. Commands!Gaps \subseteq Seq(Atoms)
  BY ReadsBlank
<1>3. gap \in [1..n -> Seq(Atoms)]
  BY <1>1, <1>2
<1>4. PICK p : Growing(Atoms, n, gap, p) /\ FlattenSeq(gap) = p[n]
  BY <1>1, <1>3, FlattenIs
<1>5. p \in [0..n -> Seq(Atoms)] /\ p[0] = <<>> /\ \A k \in 0..(n - 1) : p[k + 1] = p[k] \o gap[k + 1]
  BY <1>4 DEF Growing
<1>6. Ends(u, ws, wh)
  BY DEF Ends
<1>. HIDE DEF n, u
<1>. DEFINE T == {k \in 0..n : ReadTo(x \o p[k], IF k = 0 THEN t ELSE u)}
<1>7. 0 \in T
  <2>1. x \o p[0] = x /\ 0 \in 0..n /\ (IF 0 = 0 THEN t ELSE u) = t
    BY <1>1, <1>5, ConcatEmptySeq
  <2>2. ReadTo(x \o p[0], IF 0 = 0 THEN t ELSE u)
    BY <2>1, Zenon
  <2>. QED
    BY <2>1, <2>2
<1>8. ASSUME NEW k \in 0..(n - 1), k \in T PROVE k + 1 \in T
  <2>. DEFINE m == k + 1
              y == x \o p[k]
              v == IF k = 0 THEN t ELSE u
              z == p[k]
              g == gap[m]
  <2>1. m \in 1..n /\ m \in 0..n /\ m # 0 /\ k \in 0..n
    BY <1>1
  <2>2. ReadTo(y, v)
    BY <1>8
  <2>3. Ends(v, ws, wh)
    BY <1>6
  <2>4. z \in Seq(Atoms) /\ p[m] = z \o g
    BY <1>5, <2>1
  <2>. HIDE DEF m, T
  <2>5. g \in Commands!Gaps
    BY <1>1, <2>1
  <2>. HIDE DEF y, v, z, g
  <2>6. g \in Seq(Atoms) /\ ReadTo(y \o g, Unescaped(ws, Commands!NoText, "gap", wh))
    BY <2>2, <2>3, <2>5, ReadsBlank
  <2>7. y \o g = x \o p[m]
    <3>1. x \in Seq(Atoms)
      BY <1>1
    <3>2. (x \o z) \o g = x \o (z \o g)
      BY <2>4, <2>6, <3>1, ConcatAssociative
    <3>. QED
      BY <2>4, <3>2, Zenon DEF y, z
  <2>8. (IF m = 0 THEN t ELSE u) = Unescaped(ws, Commands!NoText, "gap", wh)
    BY <2>1 DEF u
  <2>9. ReadTo(x \o p[m], IF m = 0 THEN t ELSE u)
    BY <2>6, <2>7, <2>8, Zenon
  <2>10. m \in T
    BY <2>1, <2>9 DEF T
  <2>. QED
    BY <2>10 DEF m
<1>9. n \in T
  <2>. HIDE DEF T
  <2>1. \A k \in 0..n : k \in T
    BY <1>1, <1>7, <1>8, UpTo
  <2>. QED
    BY <1>1, <2>1
<1>10. (IF n = 0 THEN t ELSE u) = u
  BY <1>1 DEF u
<1>11. ReadTo(x \o p[n], u) /\ p[n] \in Seq(Atoms)
  <2>1. ReadTo(x \o p[n], IF n = 0 THEN t ELSE u)
    BY <1>9
  <2>2. p[n] \in Seq(Atoms)
    BY <1>1, <1>5
  <2>. QED
    BY <1>10, <2>1, <2>2, Zenon
<1>. QED
  BY <1>4, <1>11, Zenon DEF u

LEMMA ResultIs ==
  ASSUME NEW t, NEW ws, NEW wh, Ends(t, ws, wh)
  PROVE  Result(t) = ws
<1>1. CASE t = Unescaped(ws, Commands!NoText, "gap", wh)
  <2>1. t.at = "gap" /\ t.out = ws
    BY <1>1 DEF Unescaped, State
  <2>. QED
    BY <2>1, Zenon DEF Result
<1>2. ASSUME NEW out, NEW word, ws = Append(out, word), t = Unescaped(out, word, "bare", wh)
      PROVE  Result(t) = ws
  <2>1. t.at = "bare" /\ ~t.escaped
    BY <1>2 DEF Unescaped, State, Off
  <2>2. Commands!WordEnds(t) = State(Append(out, word), Commands!NoText, "gap", wh, Off)
    BY <1>2, WordEndsIs DEF Unescaped
  <2>3. State(Append(out, word), Commands!NoText, "gap", wh, Off).out = Append(out, word)
    BY DEF State
  <2>4. "bare" # "gap"
    OBVIOUS
  <2>5. Result(t) = Commands!WordEnds(t).out
    BY <2>1, <2>4, Zenon DEF Result
  <2>. QED
    BY <1>2, <2>2, <2>3, <2>5, Zenon
<1>. QED
  BY <1>1, <1>2, Zenon DEF Ends

LEMMA ReadsNothing == ReadTo(<<>>, Start) /\ Ends(Start, <<>>, Off)
<1>1. ~Pending(<<>>) /\ <<>> \in Seq(Atoms)
  BY DEF Pending
<1>2. Ends(Start, <<>>, Off)
  BY Zenon DEF Ends, Start
<1>. QED
  BY <1>1, <1>2, ScansNothing DEF ReadTo

LEMMA ReadsCommand ==
  ASSUME NEW c \in CmdCommands, Commands!CommandsAllowed
  PROVE  Commands!CurlTokens(Commands!CommandText(c)) = Commands!CommandWords(c)
<1>. DEFINE ls == c.written
            n == Len(ls)
            ws == Commands!CommandWords(c)
            texts == [i \in 1..n |-> Commands!WordText(ls[i])]
            Part == [as : STRING, says : Seq(STRING)]
            Good(w) == /\ w.gap \in Seq(Commands!Gaps) /\ w.parts \in Seq(Part) /\ \A i \in DOMAIN w.parts : IsPartOf(w.parts[i])
                       /\ \/ Len(w.parts) = 1 /\ w.parts[1].as \in Commands!Quotes
                          \/ Len(w.parts) > 0 /\ w.parts[1].as = "bare" /\ w.parts[1].says # Commands!NoText
<1>1. /\ ls \in Seq([gap : Seq(Commands!Gaps), parts : Seq(Part)]) /\ n \in Nat /\ DOMAIN ls = 1..n
      /\ \A i \in 1..n : Commands!IsWord(ls[i]) /\ (i > 1 => ls[i].gap # <<>>)
  <2>1. ls \in Seq([gap : Seq(Commands!Gaps), parts : Seq(Part)])
        /\ \A i \in DOMAIN ls : Commands!IsWord(ls[i]) /\ (i > 1 => ls[i].gap # <<>>)
    BY Zenon DEF Commands!CommandsAllowed
  <2>. DEFINE Word == [gap : Seq(Commands!Gaps), parts : Seq(Part)]
  <2>. HIDE DEF Word
  <2>2. ls \in Seq(Word)
    BY <2>1 DEF Word
  <2>3. n \in Nat /\ DOMAIN ls = 1..n
    BY <2>2
  <2>. QED
    BY <2>1, <2>3, Zenon
<1>2. Seq(STRING) \subseteq Seq(Atoms)
  <2>1. STRING \subseteq Atoms
    BY DEF Atoms
  <2>. QED
    BY <2>1, SeqMonotonic
<1>3. \A i \in 1..n : Good(ls[i])
  <2>1. TAKE i \in 1..n
  <2>. DEFINE w == ls[i]
  <2>2. w \in [gap : Seq(Commands!Gaps), parts : Seq(Part)] /\ Commands!IsWord(w)
    <3>. HIDE DEF Part
    <3>. QED
      BY <1>1, ElementOfSeq
  <2>. HIDE DEF w
  <2>3. w.gap \in Seq(Commands!Gaps) /\ w.parts \in Seq(Part)
    <3>. HIDE DEF Part
    <3>. QED
      BY <2>2
  <2>4. \A k \in DOMAIN w.parts : IsPartOf(w.parts[k])
    <3>1. TAKE k \in DOMAIN w.parts
    <3>2. Commands!IsPart(w.parts[k])
      BY <2>2, Zenon DEF Commands!IsWord
    <3>3. w.parts[k] \in Part
      <4>. HIDE DEF Part
      <4>. QED
        BY <2>3, ElementOfSeq
    <3>4. w.parts[k].says \in Seq(Atoms)
      BY <1>2, <3>3
    <3>. QED
      BY <3>2, <3>4, Zenon DEF IsPartOf
  <2>5. \/ Len(w.parts) = 1 /\ w.parts[1].as \in Commands!Quotes
        \/ Len(w.parts) > 0 /\ w.parts[1].as = "bare" /\ w.parts[1].says # Commands!NoText
    BY <2>2, Zenon DEF Commands!IsWord
  <2>. HIDE DEF Part
  <2>. QED
    BY <2>3, <2>4, <2>5, Zenon DEF w
<1>. HIDE DEF Part
<1>4. \A i \in 1..n : Commands!WordText(ls[i]) = FlattenSeq(ls[i].gap) \o PartsText(ls[i].parts)
  BY SameThere, Zenon DEF Commands!WordText, PartsText
<1>5. \A i \in 1..n : Commands!WordText(ls[i]) \in Seq(Atoms) /\ Commands!WordSays(ls[i]) \in Seq(Atoms)
                      /\ Commands!WordSays(ls[i]) = PartsSay(ls[i].parts)
  <2>1. TAKE i \in 1..n
  <2>. DEFINE w == ls[i]
  <2>2. Good(w)
    BY <1>3
  <2>. HIDE DEF w, n
  <2>3. ReadTo(<<>>, Start) /\ Ends(Start, <<>>, Off)
    BY ReadsNothing
  <2>4. FlattenSeq(w.gap) \in Seq(Atoms) /\ ReadTo(<<>> \o FlattenSeq(w.gap), Unescaped(<<>>, Commands!NoText, "gap", Off))
    BY <2>2, <2>3, ReadsGap DEF Start
  <2>5. PartsText(w.parts) \in Seq(Atoms) /\ PartsSay(w.parts) \in Seq(Atoms)
    BY <2>2, <2>4, ReadsWord
  <2>6. Commands!WordText(w) = FlattenSeq(w.gap) \o PartsText(w.parts)
    BY <1>4 DEF w
  <2>7. Commands!WordText(w) \in Seq(Atoms)
    BY <2>4, <2>5, <2>6, ConcatProperties
  <2>8. Commands!WordSays(w) = PartsSay(w.parts)
    BY SameThere, Zenon DEF Commands!WordSays, PartsSay
  <2>. QED
    BY <2>5, <2>7, <2>8, Zenon DEF w
<1>6. texts \in [1..n -> Seq(Atoms)] /\ Commands!CommandText(c) = FlattenSeq(texts)
  <2>1. texts \in [1..n -> Seq(Atoms)]
    BY <1>5
  <2>. QED
    BY <1>1, <2>1, SameThere, Zenon DEF Commands!CommandText
<1>7. \A i \in 1..n : texts[i] = Commands!WordText(ls[i])
  OBVIOUS
<1>8. /\ ws \in Seq(Seq(Atoms)) /\ Len(ws) = n
      /\ \A i \in 1..n : ws[i] = Commands!WordSays(ls[i])
  <2>1. ws = [i \in 1..n |-> Commands!WordSays(ls[i])]
    BY <1>1, Zenon DEF Commands!CommandWords
  <2>. HIDE DEF ws
  <2>2. ws \in [1..n -> Seq(Atoms)] /\ \A i \in 1..n : ws[i] = Commands!WordSays(ls[i])
    BY <1>5, <2>1
  <2>. DEFINE S == Seq(Atoms)
  <2>3. ws \in Seq(S) /\ Len(ws) = n
    <3>. HIDE DEF S, n
    <3>. QED
      BY <1>1, <2>2 DEF S
  <2>. QED
    BY <2>2, <2>3
<1>. HIDE DEF texts, ws
<1>9. PICK p : Growing(Atoms, n, texts, p) /\ FlattenSeq(texts) = p[n]
  BY <1>1, <1>6, FlattenIs
<1>10. p \in [0..n -> Seq(Atoms)] /\ p[0] = <<>> /\ \A k \in 0..(n - 1) : p[k + 1] = p[k] \o texts[k + 1]
  BY <1>9 DEF Growing
<1>. DEFINE so(k) == SubSeq(ws, 1, k)
            R(k) == \E t, wh : ReadTo(p[k], t) /\ Ends(t, so(k), wh) /\ (k = 0 => t = Unescaped(so(k), Commands!NoText, "gap", wh))
            T == {k \in 0..n : R(k)}
<1>11. 0 \in T
  <2>1. so(0) = <<>> /\ 0 \in 0..n
    BY <1>1, <1>8, PrefixIs
  <2>2. ReadTo(<<>>, Start) /\ Ends(Start, <<>>, Off)
    BY ReadsNothing
  <2>. HIDE DEF so
  <2>3. R(0)
    BY <1>10, <2>1, <2>2, Zenon DEF Start, Commands!NoText
  <2>. HIDE DEF R
  <2>. QED
    BY <2>1, <2>3
<1>12. ASSUME NEW k \in 0..(n - 1), k \in T PROVE k + 1 \in T
  <2>. DEFINE m == k + 1
              w == ls[m]
              v == so(k)
              x == p[k]
              g == FlattenSeq(w.gap)
              u == PartsText(w.parts)
              b == PartsSay(w.parts)
  <2>1. m \in 1..n /\ m \in 0..n /\ m # 0 /\ k \in 0..n /\ (k # 0 => m > 1)
    BY <1>1
  <2>2. PICK t, wh : ReadTo(x, t) /\ Ends(t, v, wh) /\ (k = 0 => t = Unescaped(v, Commands!NoText, "gap", wh))
    BY <1>12, Zenon
  <2>3. so(m) = Append(v, ws[m])
    BY <1>8, PrefixIs
  <2>. HIDE DEF T, R, so, m, v, n
  <2>4. x \in Seq(Atoms) /\ p[m] = x \o texts[m]
    BY <1>10, <2>1 DEF m
  <2>5. texts[m] = g \o u /\ ws[m] = b
    BY <1>4, <1>5, <1>7, <1>8, <2>1, Zenon
  <2>6. Good(w) /\ (m > 1 => w.gap # <<>>)
    BY <1>1, <1>3, <2>1
  <2>. HIDE DEF w, x
  <2>7. g \in Seq(Atoms) /\ ReadTo(x \o g, Unescaped(v, Commands!NoText, "gap", wh))
    <3>1. w.gap \in Seq(Commands!Gaps) /\ (w.gap # <<>> \/ t = Unescaped(v, Commands!NoText, "gap", wh))
      BY <2>1, <2>2, <2>6
    <3>. QED
      BY <2>2, <3>1, ReadsGap
  <2>. HIDE DEF g
  <2>8. /\ u \in Seq(Atoms)
        /\ \E s, h : ReadTo((x \o g) \o u, s) /\ Ends(s, Append(v, b), h)
    BY <2>6, <2>7, ReadsWord
  <2>. HIDE DEF u, b
  <2>9. (x \o g) \o u = p[m]
    <3>1. (x \o g) \o u = x \o (g \o u)
      BY <2>4, <2>7, <2>8, ConcatAssociative
    <3>. QED
      BY <2>4, <2>5, <3>1, Zenon
  <2>10. \E s, h : ReadTo(p[m], s) /\ Ends(s, so(m), h)
    BY <2>3, <2>5, <2>8, <2>9, Zenon
  <2>11. R(m)
    BY <2>1, <2>10, Zenon DEF R
  <2>12. m \in T
    BY <2>1, <2>11 DEF T
  <2>. QED
    BY <2>12 DEF m
<1>13. n \in T
  <2>. HIDE DEF T, n
  <2>1. \A k \in 0..n : k \in T
    BY <1>1, <1>11, <1>12, UpTo
  <2>. QED
    BY <1>1, <2>1
<1>14. so(n) = ws
  BY <1>8, PrefixIs
<1>. HIDE DEF so, n
<1>15. PICK t, wh : ReadTo(p[n], t) /\ Ends(t, ws, wh)
  BY <1>13, <1>14, Zenon
<1>16. Commands!CurlTokens(p[n]) = Result(t)
  BY <1>15, TokensAre DEF ReadTo
<1>17. Result(t) = ws
  BY <1>15, ResultIs
<1>. QED
  BY <1>6, <1>9, <1>16, <1>17, Zenon DEF ws

-----------------------------------------------------------------------------
\* A command on the clipboard that was written by hand stays what it was.
CommandInv ==
  "words" \in DOMAIN origin =>
    \E c \in CmdCommands :
      clip = Commands!CommandText(c) /\ origin.words = Commands!CommandWords(c)

\* Whatever a command says and however it is quoted, curlTokens reads its words.
THEOREM ReadsEveryQuoting == Commands!Spec => []WordsReadBack
<1>1. Commands!Init => CommandInv
  <2>1. SUFFICES ASSUME Commands!Init PROVE CommandInv
    OBVIOUS
  <2>2. CASE origin = Commands!NoText
    <3>1. "words" \notin DOMAIN origin
      BY <2>2 DEF Commands!NoText
    <3>. QED
      BY <3>1 DEF CommandInv
  <2>3. ASSUME NEW c \in CmdCommands, clip = Commands!CommandText(c),
               origin = [words |-> Commands!CommandWords(c), longhand |-> c.longhand]
        PROVE  CommandInv
    <3>1. origin.words = Commands!CommandWords(c)
      BY <2>3
    <3>. QED
      BY <2>3, <3>1 DEF CommandInv
  <2>. QED
    BY <2>1, <2>2, <2>3 DEF Commands!Init
<1>2. CommandInv /\ [Commands!Next]_(Commands!vars) => CommandInv'
  <2>1. SUFFICES ASSUME CommandInv, [Commands!Next]_(Commands!vars) PROVE CommandInv'
    OBVIOUS
  <2>2. CASE Commands!Copy
    <3>1. origin' = [form |-> form]
      BY <2>2 DEF Commands!Copy
    <3>2. "words" \notin DOMAIN origin'
      BY <3>1
    <3>. QED
      BY <3>2 DEF CommandInv
  <2>3. CASE UNCHANGED <<clip, origin>>
    BY <2>1, <2>3 DEF CommandInv
  <2>. QED
    BY <2>1, <2>2, <2>3 DEF Commands!Next, Commands!Paste, Commands!vars
<1>3. CommandInv => WordsReadBack
  BY CommandsAssumption, ReadsCommand DEF CommandInv, WordsReadBack, Commands!WordsReadBack
<1>. QED
  BY <1>1, <1>2, <1>3, PTL DEF Commands!Spec
-----------------------------------------------------------------------------
(* The buffer.                                                             *)

USE BufferAssumption DEF Buf!SizesAllowed

\* What a call in progress knows: dynbuf_reserve grows a buffer that is too small
\* for what is needed, and leaves the loop with a capacity that is enough.
InCall ==
  /\ pc \in {"grow", "alloc"} => need > cap /\ newcap > 0
  /\ pc = "alloc" => newcap >= need
  /\ pc \in {"grow", "alloc"} /\ appended > 0 => need = Buf!Min2(used + appended, BufMax)
  /\ pc = "write" => appended > 0

\* Bytes were lost, or a plain reserve was clipped, before the call in progress.
Lossy == used + (IF pc = "idle" THEN 0 ELSE appended) # given \/ clipped

\* The mark is set exactly when bytes were lost, are lost in this call because it
\* asks for more than max, or will be because realloc failed.
Mark ==
  /\ used + (IF pc = "idle" THEN 0 ELSE appended) <= given
  /\ Lossy => truncated
  /\ truncated /\ pc = "idle" => Lossy
  /\ truncated /\ pc \in {"grow", "alloc"} => Lossy \/ (appended > 0 /\ BufMax < used + appended)
  /\ truncated /\ pc = "write" => Lossy \/ cap < used + appended

BufInv == Buf!TypeOK /\ Buf!WithinBounds /\ InCall /\ Mark

\* An empty buffer keeps what it promises.
LEMMA BufInit == Buf!Init => BufInv
<1> SUFFICES ASSUME Buf!Init PROVE BufInv
  OBVIOUS
<1> USE DEF Buf!Init
<1>1. Buf!TypeOK
  <2>1. truncated \in BOOLEAN /\ clipped \in BOOLEAN
    OBVIOUS
  <2>2. need \in 0..BufMax /\ newcap \in 0..BufMax
    OBVIOUS
  <2> QED BY <2>1, <2>2 DEF Buf!TypeOK
<1>2. Buf!WithinBounds
  BY DEF Buf!WithinBounds
<1>3. InCall
  BY DEF InCall
<1>4. Mark
  BY DEF Mark, Lossy
<1> QED BY <1>1, <1>2, <1>3, <1>4 DEF BufInv

\* The head of dynbuf_reserve, called by dynbuf_append.
LEMMA AppendKeeps ==
  ASSUME BufInv, NEW k \in BufSizes, Buf!Append(k)
  PROVE  BufInv'
<1> USE DEF BufInv, Buf!Append, Buf!Enter, Buf!Min2
<1>1. Buf!TypeOK' /\ Buf!WithinBounds'
  BY DEF Buf!TypeOK, Buf!WithinBounds, Buf!Base
<1>2. InCall'
  BY DEF Buf!TypeOK, Buf!WithinBounds, InCall, Buf!Base
<1>3. Mark'
  BY DEF Buf!TypeOK, Buf!WithinBounds, Mark, Lossy
<1> QED BY <1>1, <1>2, <1>3

\* The head of dynbuf_reserve, called on its own.
LEMMA ReserveKeeps ==
  ASSUME BufInv, NEW k \in BufSizes, Buf!Reserve(k)
  PROVE  BufInv'
<1> USE DEF BufInv, Buf!Reserve, Buf!Enter, Buf!Min2
<1>1. Buf!TypeOK' /\ Buf!WithinBounds'
  BY DEF Buf!TypeOK, Buf!WithinBounds, Buf!Base
<1>2. InCall'
  BY DEF Buf!TypeOK, Buf!WithinBounds, InCall, Buf!Base
<1>3. Mark'
  BY DEF Buf!TypeOK, Buf!WithinBounds, Mark, Lossy
<1> QED BY <1>1, <1>2, <1>3

\* The doubling stays within max because it is only done up to half of it.
LEMMA GrowKeeps == BufInv /\ Buf!Grow => BufInv'
<1> SUFFICES ASSUME BufInv, Buf!Grow PROVE BufInv'
  OBVIOUS
<1> USE DEF BufInv, Buf!Grow, Buf!buf, Buf!history
<1>1. newcap <= BufMax \div 2 => 2 * newcap <= BufMax
  BY DEF Buf!TypeOK
<1>2. Buf!TypeOK' /\ Buf!WithinBounds'
  BY <1>1 DEF Buf!TypeOK, Buf!WithinBounds, Buf!NearMax
<1>3. InCall'
  BY DEF Buf!TypeOK, Buf!WithinBounds, InCall, Buf!NearMax, Buf!Min2
<1>4. Mark'
  BY DEF Buf!TypeOK, Buf!WithinBounds, Mark, Lossy
<1> QED BY <1>2, <1>3, <1>4

\* A failed realloc is marked when bytes are being appended.
LEMMA AllocKeeps == BufInv /\ Buf!Alloc => BufInv'
<1> SUFFICES ASSUME BufInv, Buf!Alloc PROVE BufInv'
  OBVIOUS
<1> USE DEF BufInv, Buf!Alloc, Buf!history
<1>1. Buf!TypeOK' /\ Buf!WithinBounds'
  <2>1. cap' \in Nat /\ used <= cap' /\ cap' <= BufMax
    BY DEF Buf!TypeOK, Buf!WithinBounds, InCall
  <2>2. truncated' \in BOOLEAN
    BY DEF Buf!TypeOK
  <2> QED BY <2>1, <2>2 DEF Buf!TypeOK, Buf!WithinBounds
<1>2. InCall'
  BY DEF Buf!TypeOK, InCall
<1>3. appended > 0 => cap < used + appended
  BY DEF Buf!TypeOK, InCall, Buf!Min2
<1>4. ASSUME appended > 0 PROVE Mark'
  <2>1. Lossy' <=> Lossy
    BY <1>4 DEF Buf!TypeOK, Lossy
  <2>2. truncated => Lossy \/ BufMax < used + appended
    BY DEF Mark
  <2>3. cap' <= BufMax
    BY <1>1 DEF Buf!WithinBounds
  <2>4. truncated' => Lossy' \/ cap' < used' + appended'
    <3>1. CASE cap' = cap
      BY <1>3, <1>4, <3>1
    <3>2. CASE truncated' = truncated
      <4>1. BufMax < used + appended => cap' < used' + appended'
        BY <2>3 DEF Buf!TypeOK, Buf!WithinBounds, BufInv
      <4> QED BY <3>2, <4>1, <2>1, <2>2
    <3> QED BY <3>1, <3>2
  <2>5. used' + appended' <= given' /\ pc' = "write"
    BY <1>4 DEF Mark
  <2>6. Lossy' => truncated'
    BY <2>1 DEF Mark
  <2> QED BY <2>4, <2>5, <2>6 DEF Mark
<1>5. ASSUME appended = 0 PROVE Mark'
  <2>1. Lossy' <=> used # given \/ clipped
    BY <1>5 DEF Buf!TypeOK, Lossy
  <2>2. Lossy <=> used # given \/ clipped
    BY <1>5 DEF Buf!TypeOK, Lossy
  <2>3. truncated' <=> truncated
    BY <1>5 DEF Buf!TypeOK
  <2> QED BY <1>5, <2>1, <2>2, <2>3 DEF Buf!TypeOK, Mark
<1> QED BY <1>1, <1>2, <1>4, <1>5 DEF Buf!TypeOK

\* What is copied is what there is room for.
LEMMA WriteKeeps == BufInv /\ Buf!Write => BufInv'
<1> SUFFICES ASSUME BufInv, Buf!Write PROVE BufInv'
  OBVIOUS
<1> USE DEF BufInv, Buf!Write, Buf!history, Buf!Room, Buf!Min2
<1>1. Buf!TypeOK' /\ Buf!WithinBounds'
  BY DEF Buf!TypeOK, Buf!WithinBounds
<1>2. InCall'
  BY DEF InCall
<1>3. used + appended <= given /\ (Lossy <=> used + appended # given \/ clipped)
  BY DEF Mark, Lossy
<1>4. ASSUME appended <= cap - used PROVE Mark'
  <2>1. Buf!Min2(appended, Buf!Room) = appended /\ used' = used + appended /\ pc' = "idle"
    BY <1>4 DEF Buf!TypeOK, Buf!WithinBounds
  <2>2. truncated' <=> truncated
    BY <2>1 DEF Buf!TypeOK
  <2>3. Lossy' <=> Lossy
    BY <1>3, <2>1 DEF Lossy
  <2>4. truncated => Lossy
    BY <1>4 DEF Buf!TypeOK, Buf!WithinBounds, Mark
  <2> QED BY <1>3, <2>1, <2>2, <2>3, <2>4 DEF Mark
<1>5. ASSUME appended > cap - used PROVE Mark'
  <2>1. used' = cap /\ used' < given
    BY <1>3, <1>5 DEF Buf!TypeOK, Buf!WithinBounds
  <2>2. Buf!Min2(appended, Buf!Room) < appended
    BY <1>5 DEF Buf!TypeOK, Buf!WithinBounds
  <2>3. truncated'
    BY <2>2
  <2>4. used' <= given' /\ used' # given' /\ pc' = "idle"
    BY <2>1 DEF Buf!TypeOK, Buf!WithinBounds
  <2>5. Lossy'
    BY <2>4 DEF Lossy
  <2> QED BY <2>3, <2>4, <2>5 DEF Buf!TypeOK, Mark
<1>6. appended <= cap - used \/ appended > cap - used
  BY DEF Buf!TypeOK, Buf!WithinBounds
<1> QED BY <1>1, <1>2, <1>4, <1>5, <1>6

\* An emptied buffer has lost nothing.
LEMMA EmptyKeeps == BufInv /\ (Buf!Reset \/ Buf!Rewind) => BufInv'
<1> SUFFICES ASSUME BufInv, Buf!Reset \/ Buf!Rewind PROVE BufInv'
  OBVIOUS
<1> USE DEF Buf!Reset, Buf!Rewind, Buf!local
<1>1. Buf!TypeOK'
  <2>1. truncated' \in BOOLEAN /\ clipped' \in BOOLEAN
    OBVIOUS
  <2>2. used' \in Nat /\ cap' \in Nat /\ given' \in Nat
    BY DEF BufInv, Buf!TypeOK
  <2> QED BY <2>1, <2>2 DEF BufInv, Buf!TypeOK
<1>2. Buf!WithinBounds'
  BY DEF BufInv, Buf!TypeOK, Buf!WithinBounds
<1>3. InCall'
  BY DEF InCall
<1>4. Mark'
  BY DEF Mark, Lossy
<1> QED BY <1>1, <1>2, <1>3, <1>4 DEF BufInv

\* Every step of the buffer keeps the invariant.
LEMMA BufStep == BufInv /\ [Buf!Next]_Buf!vars => BufInv'
<1>1. BufInv /\ UNCHANGED Buf!vars => BufInv'
  BY DEF Buf!vars, Buf!buf, Buf!local, Buf!history, BufInv, Buf!TypeOK, Buf!WithinBounds, InCall, Mark, Lossy
<1> QED
  BY <1>1, AppendKeeps, ReserveKeeps, GrowKeeps, AllocKeeps, WriteKeeps, EmptyKeeps DEF Buf!Next

THEOREM BufInvariance == Buf!Spec => []BufInv
  BY BufInit, BufStep, PTL DEF Buf!Spec

\* No write leaves the allocated memory, no allocation exceeds max, whatever is
\* appended and reserved and whenever realloc fails.
THEOREM Bounded == Buf!Spec => [](Buf!TypeOK /\ WithinBounds)
<1>1. BufInv => Buf!TypeOK /\ WithinBounds
  BY DEF BufInv, WithinBounds
<1> QED BY <1>1, BufInvariance, PTL

\* The mark a client reads as X-Resp-Truncated tells the truth.
THEOREM HonestMark == Buf!Spec => []TruncatedIsHonest
<1>1. BufInv => TruncatedIsHonest
  BY DEF BufInv, Mark, Lossy, TruncatedIsHonest, Buf!TruncatedIsHonest, Buf!TypeOK
<1> QED BY <1>1, BufInvariance, PTL

\* A reserve that has to grow the buffer gives the room RequestReader takes from it, or none
\* (dynbuf_reserve, dynbuf.c:34-70).
THEOREM ReserveKeepsWord == Buf!Spec => ReserveContract
<1>. DEFINE done == used' = used /\ (cap' = cap \/ (need > cap /\ cap' \in need..BufMax))
<1>1. ASSUME BufInv, [Buf!Next]_Buf!vars, ~UNCHANGED bufferVars, pc = "alloc"
      PROVE  done
  <2>1. Buf!Alloc
    BY <1>1 DEF bufferVars, Buf!vars, Buf!buf, Buf!local, Buf!history, Buf!Next, Buf!Append,
       Buf!Reserve, Buf!Enter, Buf!Grow, Buf!Write, Buf!Reset, Buf!Rewind
  <2>2. newcap >= need /\ need > cap /\ newcap \in 0..BufMax /\ need \in 0..BufMax
    BY <1>1 DEF BufInv, InCall, Buf!TypeOK
  <2> QED BY <2>1, <2>2 DEF Buf!Alloc
<1>2. BufInv /\ [Buf!Next]_Buf!vars => [pc = "alloc" => done]_bufferVars
  BY <1>1
<1> QED BY <1>2, BufInvariance, PTL DEF Buf!Spec, ReserveContract

=============================================================================
