----------------------------- MODULE MCProducts -----------------------------
(* Model checking of Products: two changes and a request, two endpoints.   *)
EXTENDS Products, TLC

CONSTANTS a1, a2, q1, e1, e2, t1, d1, d2

(* Once something is spoilt, only additions of what is not, and that while *)
(* another change still has the id they will get.                          *)
LateAdditions == {<<"add", FALSE, TRUE>>}

Symmetry == Permutations(Admin) \cup Permutations(Endpoint) \cup Permutations(Db)
=============================================================================
