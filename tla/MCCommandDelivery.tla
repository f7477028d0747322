-------------------------- MODULE MCCommandDelivery --------------------------
(* Command delivery on a small instance: chat messages, file shares, and    *)
(* commands that the server refuses, in the order the configuration gives. *)
EXTENDS CommandDelivery
=============================================================================
