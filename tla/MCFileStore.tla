---------------------------- MODULE MCFileStore ----------------------------
(* Model checking of FileStore: few stores and removals over one or two     *)
(* files with two contents.                                                 *)
EXTENDS FileStore, TLC

CONSTANTS s1, s2, r1, old, new, p1, p2, h1, h2

Symmetry == Permutations(Store)
=============================================================================
