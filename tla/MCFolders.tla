------------------------------ MODULE MCFolders ------------------------------
(* Folders on a small instance: a name with a blank at its end, a list with *)
(* settings at the end of it, and two collections.                          *)
EXTENDS Folders

CONSTANTS i1, i2, i3, u1

MCNames == {"U", "a", "a "}
MCTrimmed == [n \in MCNames |-> IF n = "a " THEN "a" ELSE n]

MCStarts ==
  {<<>>,
   <<Request(i1, <<"a", "U">>, u1), Request(i2, <<"a">>, u1)>>,
   <<Request(i1, <<"a", "a">>, u1), Meta(<<"a">>, "bearer")>>}

MCImports ==
  {[name |-> "a", auth |-> "noauth",
    items |-> <<[request |-> FALSE, in |-> <<"U">>, auth |-> "basic", url |-> NoText],
                [request |-> TRUE, in |-> <<"U">>, auth |-> "absent", url |-> u1]>>],
   [name |-> "a", auth |-> "bearer", items |-> <<>>]}
=============================================================================
