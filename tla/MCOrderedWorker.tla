-------------------------- MODULE MCOrderedWorker --------------------------
(* OrderedWorker for TLC: two workers and the joiner, three tasks. *)
EXTENDS OrderedWorker
=============================================================================
