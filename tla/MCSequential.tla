---------------------------- MODULE MCSequential ----------------------------
(***************************************************************************)
(* The parts nobody else acts on while they run, each on its own: the      *)
(* buffer (DynBuf), the parser (HttpParser), the request reader            *)
(* (RequestReader) and the cURL commands (Curl).  A behaviour is one of a  *)
(* part, and the others rest.                                              *)
(***************************************************************************)
EXTENDS Sequential

VARIABLE part  \* the part that runs

Lines == INSTANCE HttpInputs
MCStarts == Lines!RequestLines
MCHeaderLines == Lines!LinesBehind

\* Header parts and bodies that end just before, at and past the limits.
MCLengths == {-1, 0, 3, 4, 10}

Given == INSTANCE CurlInputs
MCForms == Given!Forms
MCCommands == Given!Commands
MCCode == Given!Code

seqVars == <<part, vars, bufferVars, readerVars, commandVars>>

ParserRests == input = <<>> /\ len = 0 /\ req = NeedMore
CommandsRest == form = 0 /\ clip = <<>> /\ origin = <<>>

SeqInit ==
  /\ part \in {"buffer", "parser", "reader", "commands"}
  /\ Buf!Init
  /\ IF part = "parser" THEN Init ELSE ParserRests
  /\ Reader!Init
  /\ IF part = "commands" THEN Commands!Init ELSE CommandsRest

SeqNext ==
  /\ UNCHANGED part
  /\ \/ part = "buffer" /\ Buf!Next /\ UNCHANGED <<vars, readerVars, commandVars>>
     \/ part = "parser" /\ Next /\ UNCHANGED <<bufferVars, readerVars, commandVars>>
     \/ part = "reader" /\ Reader!Next /\ UNCHANGED <<vars, bufferVars, commandVars>>
     \/ part = "commands" /\ Commands!Next /\ UNCHANGED <<vars, bufferVars, readerVars>>

\* A part that rests takes none of the steps that fairness is about.
SeqSpec == SeqInit /\ [][SeqNext]_seqVars /\ Buf!Fairness /\ Reader!Fairness

=============================================================================
