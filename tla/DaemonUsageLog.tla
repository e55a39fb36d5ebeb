--------------------------- MODULE DaemonUsageLog ---------------------------
(* UsageLog as the instance Log, with what a run checks of it by name, to   *)
(* stand beside modules that have a specification of their own.             *)
CONSTANTS Writers, Items, Parts, MaxEvents, MaxBreaks
VARIABLES up, usage, opened, logged, garbled, tail, pc, item, next, shared, started, acked,
          overlaps, breaks

Log == INSTANCE UsageLog

ASSUME UsageLogAssumption == Log!LogAssumption

\* Undisturbed, load_snapshot finds what record_usage has counted (see UsageLog).
CleanLogIsMemory == Log!CleanLogIsMemory

\* Each broken or overlapping append of UsageLog::record loses so many launches
\* and no more (see UsageLog).
LossBounded == Log!LossBounded
=============================================================================
