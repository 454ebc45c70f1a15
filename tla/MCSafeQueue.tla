---------------------------- MODULE MCSafeQueue ----------------------------
(* SafeQueue for TLC: two workers, three items, one throwing handler call. *)
EXTENDS SafeQueue
=============================================================================
