--------------------------- MODULE FileSystemWalk ---------------------------
(***************************************************************************)
(* FileSystemProvider (crates/winspot-search/src/providers.rs): the walk   *)
(* below the folders of the user that the search engine collects its files *)
(* from.  It goes down a number of levels and stops at a number of         *)
(* entries.                                                                *)
(*                                                                         *)
(* Files and folders appear one after the other; the walk is asked in      *)
(* every state.  An entry whose type or name cannot be read is one that is *)
(* not there.                                                              *)
(***************************************************************************)
EXTENDS Naturals, Sequences, FiniteSets, Functions

CONSTANTS
  Nodes,       \* the files and folders there may be
  Folders,     \* the folders among them
  Roots,       \* FileSystemProvider.roots
  Contents,    \* what read_dir lists of a folder or root, in its order
  MaxDepth,    \* max_depth
  MaxEntries   \* max_entries

\* Each entry is in one folder and listed there once; a root is no entry.
WalkAssumption ==
  /\ IsFiniteSet(Nodes) /\ Folders \subseteq Nodes
  /\ Roots \in Seq(Range(Roots)) /\ IsInjective(Roots) /\ Range(Roots) \cap Nodes = {}
  /\ Contents \in [Folders \cup Range(Roots) -> Seq(Nodes)]
  /\ \A f \in DOMAIN Contents : IsInjective(Contents[f])
  /\ \A f, g \in DOMAIN Contents : f # g => Range(Contents[f]) \cap Range(Contents[g]) = {}
  /\ MaxDepth \in Nat /\ MaxEntries \in Nat

VARIABLE present    \* the nodes that are there

Holds(f) == Range(Contents[f])

Init == present = {}

Appear ==
  \E f \in (Folders \cap present) \cup Range(Roots) :
    \E n \in Holds(f) \ present : present' = present \cup {n}

Spec == Init /\ [][Appear]_present

-----------------------------------------------------------------------------
Full(results) == Len(results) >= MaxEntries

\* Faulty: the limit is looked at once for each folder.
VisitAnyway(n, results, deeper) ==
  IF n \notin present THEN results
  ELSE IF n \in Folders THEN deeper[n][Append(results, n)]
  ELSE Append(results, n)

\* An entry of a folder, and what is below it.
Visit(n, results, deeper) ==
  IF Full(results) \/ n \notin present THEN results
  ELSE IF n \in Folders THEN deeper[n][Append(results, n)]
  ELSE Append(results, n)

\* The loop over the entries of a folder.
VisitAll(list, results, deeper) ==
  LET after[k \in 0..Len(list)] ==
        IF k = 0 THEN results ELSE Visit(list[k], after[k - 1], deeper)
  IN  after[Len(list)]

\* collect_file_system_entries, as a function of the depth, then of the folder,
\* then of the results so far.
CollectFileSystemEntries[depth \in 0..MaxDepth] ==
  [root \in Folders \cup Range(Roots) |->
     [results \in Seq(Nodes) |->
        IF depth >= MaxDepth \/ Full(results) THEN results
        ELSE VisitAll(Contents[root], results, CollectFileSystemEntries[depth + 1])]]

CollectResults ==
  LET after[k \in 0..Len(Roots)] ==
        IF k = 0 THEN <<>>
        ELSE IF Full(after[k - 1]) THEN after[k - 1]
        ELSE CollectFileSystemEntries[0][Roots[k]][after[k - 1]]
  IN  after[Len(Roots)]

-----------------------------------------------------------------------------
(* Properties                                                              *)

\* What there is so many levels below the roots.
Level[depth \in 0..MaxDepth] ==
  IF depth = 0 THEN Range(Roots)
  ELSE {n \in present : \E f \in Level[depth - 1] \cap DOMAIN Contents : n \in Holds(f)}
Reachable == UNION {Level[depth] : depth \in 1..MaxDepth}

\* FileSystemProvider: the walk lists each entry once, none deeper than
\* max_depth, never more than max_entries over all the roots, and as many as
\* there are when they are fewer.
WalkFillsItsLimit ==
  /\ IsInjective(CollectResults)
  /\ Range(CollectResults) \subseteq Reachable
  /\ Len(CollectResults) <= MaxEntries
  /\ Len(CollectResults) < MaxEntries => Range(CollectResults) = Reachable
=============================================================================
