------------------------------ MODULE MCHttp2 ------------------------------
(* Http2 for TLC: the body of r1, like every response's, needs a second     *)
(* window; r2 has no body.                                                   *)
EXTENDS Http2

CONSTANTS r1, r2

MCReqBody == [r \in Requests |-> IF r = r1 THEN 5 ELSE 0]
=============================================================================
