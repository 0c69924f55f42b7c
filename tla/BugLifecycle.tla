---------------------------- MODULE BugLifecycle ----------------------------
(***************************************************************************)
(* What the detection status of a run promises to the reader of the web    *)
(* interface (api/v6/report_server.thrift, enum DetectionStatus): a store  *)
(* replaces, in one step, the status of every occurrence of the run by a   *)
(* status that tells whether the store found it and whether it was known.  *)
(* An occurrence is a bug (hash and checker) with its path of events.      *)
(***************************************************************************)
CONSTANT Occurrence

VARIABLE status   \* [Occurrence -> "absent" or a DetectionStatus]

Status == {"absent", "new", "unresolved", "resolved", "reopened"}

Init == status = [o \in Occurrence |-> "absent"]

(* The status after a store that found o; `again' when the store listed it *)
(* more than once.                                                         *)
Found(s, again) ==
  IF s = "absent" THEN "new"
  ELSE IF s = "resolved" /\ ~again THEN "reopened"
  ELSE "unresolved"

Missed(s) == IF s = "absent" THEN "absent" ELSE "resolved"

(* A store that found S, of which the occurrences in D several times.      *)
Store(S, D) ==
  status' = [o \in Occurrence |->
               IF o \in S THEN Found(status[o], o \in D) ELSE Missed(status[o])]

(* The run and its reports are removed.                                    *)
Remove == status' = [o \in Occurrence |-> "absent"]

Next == \/ \E S \in SUBSET Occurrence : \E D \in SUBSET S : Store(S, D)
        \/ Remove

Spec == Init /\ [][Next]_status
=============================================================================
