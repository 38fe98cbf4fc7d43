---------------------------- MODULE MCStressJob ----------------------------
(* StressJob on small instances.                                           *)
EXTENDS StressJob, TLC

\* Handlers are interchangeable (users are not: they are created in order).
Symmetry == Permutations(Handlers)

\* Two users, two steps each: the least that lets cancel fall inside a pass.
TwoUserFlows == {[vus |-> 2, reqs |-> 2, steps |-> 2]}

\* One user whose budget ends inside a pass over the steps.
OneUserFlows == {[vus |-> 1, reqs |-> 1, steps |-> 2]}
=============================================================================
