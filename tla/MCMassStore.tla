----------------------------- MODULE MCMassStore -----------------------------
(* Model checking of MassStore: two or three calls of massStoreRun for one  *)
(* or two products, with few reports.                                       *)
EXTENDS MassStore, TLC

CONSTANTS s1, s2, s3, b1, b2, p1, p2

FirstIds == [p \in Product |-> 1]               \* every database counts from 1

Symmetry == Permutations(Store) \cup Permutations(Bug)

(* One fault is enough to leave something behind: an exception a session,   *)
(* a kill the calls it has ended.                                           *)
OneFault == raises + crashes <= 1
=============================================================================
