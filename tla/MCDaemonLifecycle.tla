------------------------- MODULE MCDaemonLifecycle -------------------------
(* An instance of DaemonLifecycle for TLC.                                 *)
EXTENDS DaemonLifecycle

CONSTANTS app1, app2, d1, d2, d3
=============================================================================
