------------------------------- MODULE RunStore -------------------------------
(***************************************************************************)
(* What massStoreRun promises to its callers and to everybody who looks at *)
(* the runs (api/v6/report_server.thrift, "stores an entire run"): each    *)
(* call makes what it found the results of its run in one step, at some    *)
(* time between its request and its answer, or never.  Calls take effect   *)
(* in some order, and a refused one has none.                              *)
(*                                                                         *)
(* The code promises less than one would like: an error does not mean that *)
(* nothing was stored, and an answer without an error does not mean that   *)
(* something was.                                                          *)
(***************************************************************************)
CONSTANTS Store, Product, Name, Bug, None

VARIABLES
  request,    \* what each call asks to store, None before
  state,      \* "idle", "pending", or the answer it has got
  applied,    \* the calls that have taken effect
  results     \* what everybody sees: the last request of each run

Requests == [product : Product, name : Name, found : SUBSET Bug]

SameRun(r, q) == r.product = q.product /\ r.name = q.name

Init ==
  /\ request = [s \in Store |-> None]
  /\ state = [s \in Store |-> "idle"]
  /\ applied = {}
  /\ results = {}

Ask(s) ==
  /\ state[s] = "idle"
  /\ state' = [state EXCEPT ![s] = "pending"]
  /\ \E q \in Requests : request' = [request EXCEPT ![s] = q]
  /\ UNCHANGED <<applied, results>>

(* The results of the run are replaced as a whole.                         *)
Apply(s) ==
  /\ state[s] = "pending"
  /\ s \notin applied
  /\ applied' = applied \cup {s}
  /\ results' = {r \in results : ~SameRun(r, request[s])} \cup {request[s]}
  /\ UNCHANGED <<request, state>>

(* Only a store of a run that is there is refused.                         *)
Refuse(s) ==
  /\ state[s] = "pending"
  /\ s \notin applied
  /\ \E r \in results : SameRun(r, request[s])
  /\ state' = [state EXCEPT ![s] = "rejected"]
  /\ UNCHANGED <<request, applied, results>>

Acknowledge(s) ==
  /\ state[s] = "pending"
  /\ state' = [state EXCEPT ![s] = "acked"]
  /\ UNCHANGED <<request, applied, results>>

Fail(s) ==
  /\ state[s] = "pending"
  /\ state' = [state EXCEPT ![s] = "failed"]
  /\ UNCHANGED <<request, applied, results>>

(* The server is killed.                                                   *)
Kill ==
  /\ state' = [s \in Store |-> IF state[s] = "pending" THEN "failed" ELSE state[s]]
  /\ UNCHANGED <<request, applied, results>>

Next ==
  \/ \E s \in Store : Ask(s) \/ Apply(s) \/ Refuse(s) \/ Acknowledge(s) \/ Fail(s)
  \/ Kill

Spec == Init /\ [][Next]_<<request, state, applied, results>>
=============================================================================
