--------------------------- MODULE MCServerProcess ---------------------------
(* A server that is launched again after its end or a crash. *)
EXTENDS ServerProcess
=============================================================================
