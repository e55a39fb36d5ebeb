------------------------ MODULE MCLauncherViewModel ------------------------
(* Instances of LauncherViewModel for TLC.                                 *)
EXTENDS LauncherViewModel, TLC

CONSTANTS q1, q2, file, ask, settings, s1, s2, p1, p2, a1, a2

MCOffered == [r \in Results |-> IF r = file THEN 2 ELSE 1]
MCBatches == {<<>>, <<file>>, <<ask, file>>, <<settings>>}
Symmetry ==
  Permutations(Queries) \cup Permutations(Searches) \cup Permutations(Previews)
  \cup Permutations(Acceptances)
=============================================================================
