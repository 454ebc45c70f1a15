-------------------------------- MODULE MCMQ --------------------------------
(* MQ for TLC: one server with several messages, so that hashes are evicted *)
(* and refused, and one message that is retried to two servers.             *)
EXTENDS MQ

CONSTANTS s1, s2, h1, h2, hbad

MCScenarios ==
  {[servers |-> {s1}, hashes |-> {h1, h2, hbad}, inserts |-> 2, faults |-> 2],
   [servers |-> {s1, s2}, hashes |-> {h1}, inserts |-> 1, faults |-> 2]}
=============================================================================
