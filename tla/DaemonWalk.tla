----------------------------- MODULE DaemonWalk -----------------------------
(* FileSystemWalk as the instance Walk, with what a run checks of it by     *)
(* name, to stand beside modules that have a specification of their own.    *)
CONSTANTS Listed, Subfolders, Places, Contents, Deepest, MaxEntries
VARIABLE present

Walk == INSTANCE FileSystemWalk
          WITH Nodes <- Listed, Folders <- Subfolders, Roots <- Places, MaxDepth <- Deepest

ASSUME WalkAssumption == Walk!WalkAssumption

\* FileSystemProvider lists as much as its limits allow (see FileSystemWalk).
WalkFillsItsLimit == Walk!WalkFillsItsLimit
=============================================================================
