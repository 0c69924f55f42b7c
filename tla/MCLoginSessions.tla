-------------------------- MODULE MCLoginSessions --------------------------
(* Model checking of LoginSessions: two request threads, two users whom an *)
(* LDAP server may accept or not.                                          *)
EXTENDS LoginSessions, TLC

CONSTANTS c1, c2, u1, u2

Symmetry == Permutations(Call) \cup Permutations(Cred)
=============================================================================
