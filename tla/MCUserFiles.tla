---------------------------- MODULE MCUserFiles ----------------------------
(* The files of a user that several processes write: the list of servers,    *)
(* the configuration directory of a server and the session tokens.  They     *)
(* have nothing in common but the way they are written, so each behaviour    *)
(* looks at one of them while the others rest.                               *)
EXTENDS Instances, ServerStart, ClientTokens, TLC

CONSTANTS h1, h2, p1, p2, a, b

\* Two of the starts are for the same port.
Ports == [s \in {1, 2, 3} |-> IF s = 2 THEN "8002" ELSE "8001"]

VARIABLE watched

Init ==
  /\ watched \in {"instances", "start", "tokens"}
  /\ InstInit /\ StartInit /\ TokInit

Next ==
  \/ watched = "instances" /\ InstNext /\ UNCHANGED <<watched, startVars, tokVars>>
  \/ watched = "start" /\ StartNext /\ UNCHANGED <<watched, instVars, tokVars>>
  \/ watched = "tokens" /\ TokNext /\ UNCHANGED <<watched, instVars, startVars>>

Spec == Init /\ [][Next]_<<watched, instVars, startVars, tokVars>>

Symmetry ==
  Permutations({h1, h2}) \cup Permutations({p1, p2}) \cup Permutations({a, b})
=============================================================================
