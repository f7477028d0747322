---------------------------- MODULE MCDurableRoom ----------------------------
(* The durable room on a small instance.                                   *)
EXTENDS DurableRoom, TLC

Symmetry == Permutations(Clients)
=============================================================================
