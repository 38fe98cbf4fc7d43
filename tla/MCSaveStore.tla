----------------------------- MODULE MCSaveStore -----------------------------
(***************************************************************************)
(* Instances of SaveStore: two workers have at most three files, the two   *)
(* named ones and one that was replaced while it is served.                 *)
(***************************************************************************)
EXTENDS SaveStore, TLC

CONSTANTS a, b, w1, w2, i1, i2, i3

MCBodies == {a, b}
MC2Workers == {w1, w2}
MCOneBody == {a}
MC3Inodes == {i1, i2, i3}

Symmetry == Permutations(MC2Workers) \cup Permutations(MC3Inodes)
              \cup Permutations(MCBodies)
=============================================================================
