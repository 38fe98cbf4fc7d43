----------------------------- MODULE CurlInputs -----------------------------
(***************************************************************************)
(* Inputs for Curl: requests with every kind of auth and body, words with  *)
(* blanks, quotes and backslashes in them, and commands with shorthands.   *)
(***************************************************************************)
EXTENDS Naturals, Sequences, SequencesExt

Special == {" ", "\n", "'", "\"", "\\", ":", "=", "&", "?"}
Code == [a \in Special |-> "code of " \o a]

Space == <<" ">>
Goes == <<"\\", "\n">>

Part(as, says) == [as |-> as, says |-> says]
Written(gap, parts) == [gap |-> gap, parts |-> parts]

\* The ways to write a word, or one that begins with an a.
Ways(w) ==
  LET quoted == {Part("\"", w)} \cup (IF "'" \in Range(w) THEN {} ELSE {Part("'", w)})
  IN {<<p>> : p \in quoted} \cup {<<Part("bare", <<"a">>), p>> : p \in quoted}
       \cup (IF w = <<>> \/ Range(w) \cap Special # {} THEN {} ELSE {<<Part("bare", w)>>})

Words(atoms) == UNION {Ways(w) : w \in UNION {[1..n -> atoms] : n \in 0..2} \ {Goes}}
Atoms == {"a", " ", "'", "\"", "\\"}

Says(parts) == FlattenSeq([i \in DOMAIN parts |-> parts[i].says])

Command(written, longhand) ==
  [written |-> <<Written(<<>>, <<Part("bare", <<"curl">>)>>)>> \o written, longhand |-> <<<<"curl">>>> \o longhand]

QuotedCommands ==
  {Command(<<Written(g, u), Written(g, v)>>, <<Says(u), Says(v)>>) :
     g \in {<<Space>>, <<Space, Goes>>}, u \in Words(Atoms), v \in Words(Atoms)}

\* A word in parts, line ends in quotes, and a line that goes on without a blank.
PartedCommands ==
  {Command(<<Written(g, <<Part("bare", <<"a">>)>> \o u \o <<Part("bare", <<"a">>)>>), Written(g, u)>>,
           <<<<"a">> \o Says(u) \o <<"a">>, Says(u)>>) :
     g \in {<<Goes>>, <<<<"\n">>, Space>>}, u \in Words(Atoms \cup {"\n"})}

\* Words with nothing in them to quote, and words they are short for.
Plain(words, longhand) ==
  Command([i \in DOMAIN words |-> Written(<<Space>>, <<Part("bare", words[i])>>)], longhand)

U == <<"u">>
Url(s) == <<"u", "?">> \o s

Shorthands ==
  { Plain(<<<<"--url">>, U>>, <<U>>),
    Plain(<<<<"-s">>, U, <<"-o">>, <<"v">>>>, <<<<"-X">>, <<"GET">>, U>>),
    Plain(<<U, <<"-d">>, <<"k", "=", "v">>>>, <<<<"-X">>, <<"POST">>, U, <<"-d">>, <<"k", "=", "v">>>>),
    Plain(<<<<"-G">>, U, <<"-d">>, <<"k", "=", "v">>>>, <<Url(<<"k", "=", "v">>)>>),
    Plain(<<<<"-G">>, <<"-d">>, <<"k">>, Url(<<"v">>)>>, <<Url(<<"v", "&", "k">>)>>),
    Plain(<<<<"-d">>, <<"k", "=", "v">>, U, <<"-d">>, <<"v", "=">>>>, <<U, <<"-d">>, <<"k", "=", "v", "&", "v", "=">>>>),
    Plain(<<<<"-u">>, <<"k", ":", "v", ":">>, U>>,
          <<U, <<"-H">>, <<"Authorization", ":", " ", "Basic", " ", "k", Code[":"], "v", Code[":"]>>>>),
    Plain(<<U, <<"-A">>, <<"v">>>>, <<U, <<"-H">>, <<"User-Agent", ":", "v">>>>),
    Plain(<<U, <<"-X">>>>, <<U>>) }

Commands == QuotedCommands \cup PartedCommands \cup Shorthands

Auth(type, a, b) == [type |-> type, a |-> a, b |-> b]
Auths ==
  { Auth("none", <<>>, <<>>), Auth("inherit", <<>>, <<>>),
    Auth("bearer", <<"v", "\"">>, <<>>), Auth("oauth2", <<"v">>, <<>>),
    Auth("basic", <<"k", "'">>, <<"v", ":", " ", "\"">>),
    Auth("apikey", <<"X-Key">>, <<"v", " ", "\\", "\"">>), Auth("queryKey", <<"k">>, <<"v">>) }

Headers ==
  { <<>>, <<<<"X-Key", <<"v">>>>>>, <<<<"Content-Type", <<"text/csv">>>>>>,
    <<<<"Authorization", <<"Bearer", " ", "v">>>>, <<"X-Two", <<"v", ":", " ", "v">>>>>> }

Bodies ==
  [type : {"none"}, body : {<<>>}, grid : {<<>>}]
    \cup [type : {"form"}, body : {<<>>},
          grid : {<<>>, <<<<<<"k", " ">>, <<"v", "'", "&", "\"">>>>, <<<<"v">>, <<>>>>>>}]
    \cup [type : {"json", "xml", "text", "graphql", "toon"},
          body : {<<>>, <<"{", "k", "\"", " ", "\\", "}">>, <<"k", "=", "v">>, <<"k", "'">>}, grid : {<<>>}]

Forms ==
  {[method |-> m, url |-> u, headers |-> h, auth |-> a,
    type |-> b.type, body |-> b.body, grid |-> b.grid] :
     m \in {"GET", "POST"}, u \in {<<>>, Url(<<"k", "\"", "\\">>)}, h \in Headers, a \in Auths, b \in Bodies}
=============================================================================
