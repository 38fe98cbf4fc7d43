------------------------------ MODULE MCSendTabs ------------------------------
(* SendTabs on a small instance; the ids of tabs are random and all alike.    *)
EXTENDS SendTabs, TLC

Symmetry == Permutations(Tabs)

\* What the active tab held when it was last left is overwritten before it is read.
View ==
  <<bar, active, [t \in Tabs |-> IF t = active THEN NoFields ELSE data[t]],
    id, resp, page, job, typed, wandered>>
=============================================================================
