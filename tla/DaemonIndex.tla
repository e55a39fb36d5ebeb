---------------------------- MODULE DaemonIndex -----------------------------
(* IndexStore as the instance Index, with what a run checks of it by name,  *)
(* to stand beside modules that have a specification of their own.          *)
CONSTANTS Nodes, Folders, Roots, Parent, MaxDepth, NoRow, NoTxn, Idle, MaxVersion, MaxChanges,
          MaxRequests
VARIABLES disk, changes, rows, stamp, txn, at, ahead, visited, found, there, same, left, request,
          answer, asked

Index == INSTANCE IndexStore

ASSUME IndexAssumption == Index!StoreAssumption

\* refresh_items and delete keep to IndexContract (IndexStore says how).
StoreKeepsContract == Index!StoreKeepsContract

\* collect_root misses nothing that is there all along (see IndexStore).
RefreshIsComplete == Index!RefreshIsComplete
=============================================================================
