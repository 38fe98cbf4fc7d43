---------------------------- MODULE MCConnQueue ----------------------------
(* ConnQueue on a small instance: identities are model values.             *)
EXTENDS ConnQueue, TLC
=============================================================================
