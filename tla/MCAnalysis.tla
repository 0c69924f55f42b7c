----------------------------- MODULE MCAnalysis -----------------------------
(* Two analyses of two compilations by two analyzers into one directory.     *)
EXTENDS Analysis, TLC

CONSTANTS a1, a2, w1, w2

Symmetry == Permutations({a1, a2}) \cup Permutations({w1, w2})
=============================================================================
