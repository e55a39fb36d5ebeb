--------------------------- MODULE MCSearchEngine ---------------------------
(* Instances of SearchEngine for TLC.                                      *)
EXTENDS SearchEngine, TLC

CONSTANTS main, capture, q1, q2, q3, calc

QuerySymmetry == Permutations(Queries)
=============================================================================
