--------------------------- MODULE MCFileTransfer ---------------------------
(* Downloads of a small file whose host reconnects, reloads and goes silent. *)
EXTENDS FileTransfer
=============================================================================
