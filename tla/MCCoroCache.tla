------------------------------ MODULE MCCoroCache ------------------------------
(* Two keys in a cache of one; times at, just before and after the deadline. *)
EXTENDS CoroCache
=============================================================================
