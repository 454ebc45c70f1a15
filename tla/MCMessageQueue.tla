--------------------------- MODULE MCMessageQueue ---------------------------
(* MessageQueue for TLC. *)
EXTENDS MessageQueue
=============================================================================
