------------------------ MODULE MCFastFlowLmManager ------------------------
(* Instances of FastFlowLmManager for TLC.                                 *)
EXTENDS FastFlowLmManager

CONSTANTS serve, other, p1, p2, r1, r2
=============================================================================
