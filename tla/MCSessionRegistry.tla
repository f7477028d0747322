------------------------- MODULE MCSessionRegistry -------------------------
(* The session registry on a small instance: every socket may make its own *)
(* peer and its own room, so the bounds on peers and rooms never bite.     *)
EXTENDS SessionRegistry, TLC

Symmetry == Permutations(Sockets)
=============================================================================
