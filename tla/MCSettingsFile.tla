--------------------------- MODULE MCSettingsFile ---------------------------
(* Instances of SettingsFile and of UsageLog for TLC, the two files that    *)
(* outlive a daemon.  They take turns, one moving while the other is where  *)
(* it began.                                                                *)
EXTENDS SettingsFile, DaemonUsageLog, TLC

CONSTANTS
  ctrlAltSpace, ctrlShiftK, broken, missing, torn, noPage, noWrite,
  main, capture, shot, calc

WriterSymmetry == Permutations(Writers)

logVars == <<up, usage, opened, logged, garbled, tail, pc, item, next, shared, started, acked,
             overlaps, breaks>>

FilesInit == Init /\ Log!Init
FilesNext ==
  \/ Log!Init /\ Next /\ UNCHANGED logVars
  \/ Init /\ file = Missing /\ Log!Next /\ UNCHANGED vars

FilesSpec == FilesInit /\ [][FilesNext]_<<vars, logVars>>
=============================================================================
