----------------------------- MODULE MCBalancer -----------------------------
(* Balancer for TLC: the flaky peer is in the middle of the list, at its    *)
(* end, alone or gone, so that every form of m_Step occurs.                 *)
EXTENDS Balancer

MCLists ==
  {1 :> 1 @@ 2 :> 1 @@ 3 :> 2, 1 :> 2 @@ 2 :> 1, 1 :> 1 @@ 3 :> 2, 2 :> 1}
=============================================================================
