--------------------------- MODULE MCActionService ---------------------------
(* An instance of ActionService for TLC.                                   *)
EXTENDS ActionService

CONSTANTS first, second
=============================================================================
