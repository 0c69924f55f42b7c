---------------------------- MODULE MCPermissions ----------------------------
(* Model checking of Permissions: a few names, two or three calls.          *)
EXTENDS Permissions, TLC

CONSTANTS u1, u2, g1, c1, c2, c3

MCMemberOf == [u \in User |-> IF u = u2 THEN Group ELSE {}]

Symmetry == Permutations(Call)
=============================================================================
