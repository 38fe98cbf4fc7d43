------------------------------ MODULE HttpInputs ------------------------------
(***************************************************************************)
(* Inputs for HttpParser: request lines at and over the limits, and lines  *)
(* that are headers or nearly so.                                          *)
(***************************************************************************)
EXTENDS Sequences

Crlf == <<"CR", "LF">>

RightLine == <<"t", "SP", "x", "SP", "V">> \o Crlf
Length1 == <<"L", ":", "d">> \o Crlf

RequestLines ==
  { RightLine,
    RightLine \o Length1,
    <<"t", "t", "SP", "x", "t", "SP", "V">> \o Crlf,
    <<"t", "t", "t", "SP", "x", "SP", "V">> \o Crlf,
    <<"t", "SP", "x", "t", "t", "SP", "V">> \o Crlf,
    <<"t", "SP", "SP", "V">> \o Crlf,
    <<"t", "SP", "x", "SP", "V", "LF">>,
    <<"t", "SP", "x", "CR", "SP", "V">> \o Crlf,
    <<"x", "SP", "x", "SP", "V">> \o Crlf,
    <<"t", "SP", "x", "SP", "x">> \o Crlf }

LinesBehind ==
  { <<"t", ":", "SP", "t", "SP", "x", "SP">> \o Crlf,
    Length1,
    <<"d", ":", "d">> \o Crlf \o Crlf,
    <<"L", ":", "SP", "d", "d", "d", "SP">> \o Crlf,
    <<"x", ":", "t">> \o Crlf,
    <<"t", ":", "t", "LF">>,
    <<"t", ":", "t", "CR">>,
    Crlf,
    <<"x", "d">> }
=============================================================================
