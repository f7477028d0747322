---------------------------- MODULE MCHeartbeat ----------------------------
(* The heartbeat of a peer over several transports. *)
EXTENDS Heartbeat
=============================================================================
