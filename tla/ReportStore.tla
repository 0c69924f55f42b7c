----------------------------- MODULE ReportStore -----------------------------
(***************************************************************************)
(* The reports of ONE run over a sequence of stores: what addReport, the   *)
(* touched set and end_run_session do to the rows of the reports table     *)
(* (analyze/store_handler.py, server/api/report_server.py).  A store works *)
(* inside one database transaction, so it has a private view of the rows   *)
(* until it commits or is rolled back.  MassStore models who may run that  *)
(* transaction and when; here there is one store of the run at a time.     *)
(*                                                                         *)
(* Abstraction: a bug stands for (bug hash, checker), an event for one     *)
(* bug event (columns, base name of the file, message); severity, messages *)
(* and file ids are left out.  Time is the number of the store.            *)
(***************************************************************************)
EXTENDS Naturals, Sequences, FiniteSets

CONSTANTS Bug,        \* bug identities
          Event,      \* bug events
          Path,       \* event paths the analyzers report
          ReportId,   \* primary keys of the reports table
          MaxStores,  \* bound on the number of stores
          None        \* SQL NULL

ASSUME ReportStoreAssumption ==
  /\ \A p \in Path : p \in Seq(Event)
  /\ MaxStores \in Nat
  /\ None \notin Nat

VARIABLES
  reports,   \* committed rows, [set of ReportId -> row]
  work,      \* the rows the transaction of the store sees
  touched,   \* 'touched_reports' of the storage session
  storing,   \* is a store of the run going on?
  clock,     \* number of stores begun: the run_history_time of the store
  seen,      \* history: occurrences added so far by the store
  lastSeen   \* history: occurrences of the last committed store

vars == <<reports, work, touched, storing, clock, seen, lastSeen>>

DetectionStatus == {"new", "unresolved", "resolved", "reopened"}

Occurrence == [bug : Bug, path : Path]

Row == [bug : Bug, path : Path, status : DetectionStatus,
        detectedAt : Nat, fixedAt : Nat \cup {None}]

IsRows(rows) == /\ DOMAIN rows \subseteq ReportId
                /\ rows \in [DOMAIN rows -> Row]

NoRows == [i \in {} |-> None]

TypeOK ==
  /\ IsRows(reports)
  /\ IsRows(work)
  /\ touched \in SUBSET ReportId
  /\ storing \in BOOLEAN
  /\ clock \in Nat
  /\ seen \in SUBSET Occurrence
  /\ lastSeen \in SUBSET Occurrence

Init ==
  /\ reports = NoRows
  /\ work = NoRows
  /\ touched = {}
  /\ storing = FALSE
  /\ clock = 0
  /\ seen = {}
  /\ lastSeen = {}

-----------------------------------------------------------------------------
(* The comparison loop runs over the stored events only: a stored path     *)
(* matches when it is a prefix of the new one.                             *)
is_same_event_path(stored, new) ==
  /\ Len(stored) <= Len(new)
  /\ \A i \in 1..Len(stored) : stored[i] = new[i]

(* Mutant: a report that was resolved is not looked for.                   *)
MatchesOnlyOpen(rows, occ) ==
  {i \in DOMAIN rows : /\ rows[i].bug = occ.bug
                       /\ rows[i].status # "resolved"
                       /\ is_same_event_path(rows[i].path, occ.path)}

Matches(rows, occ) ==
  {i \in DOMAIN rows : /\ rows[i].bug = occ.bug
                       /\ is_same_event_path(rows[i].path, occ.path)}

(* Mutants: a new report is not told from one of an earlier store; a       *)
(* resolved report keeps its fixing time.                                  *)
FoundAgainStaysNew(row, isTouched, path) ==
  IF row.status \in {"unresolved", "reopened"}
  THEN [row EXCEPT !.status = "unresolved", !.path = path]
  ELSE IF row.status = "resolved"
       THEN [row EXCEPT !.status = "reopened", !.path = path, !.fixedAt = None]
       ELSE row

FoundAgainKeepsFixedAt(row, isTouched, path) ==
  IF \/ row.status = "new" /\ ~isTouched
     \/ row.status \in {"unresolved", "reopened"}
  THEN [row EXCEPT !.status = "unresolved", !.path = path]
  ELSE IF row.status = "resolved"
       THEN [row EXCEPT !.status = "reopened", !.path = path]
       ELSE row

FoundAgainIgnoresTouched(row, isTouched, path) ==
  IF row.status = "resolved"
  THEN [row EXCEPT !.status = "reopened", !.path = path, !.fixedAt = None]
  ELSE [row EXCEPT !.status = "unresolved", !.path = path]

(* The row of a report found again; "not" binds tighter than "and", which  *)
(* binds tighter than "or", in the condition of the code.                  *)
FoundAgain(row, isTouched, path) ==
  IF \/ row.status = "new" /\ ~isTouched
     \/ row.status \in {"unresolved", "reopened"}
  THEN [row EXCEPT !.status = "unresolved", !.path = path]
  ELSE IF row.status = "resolved"
       THEN [row EXCEPT !.status = "reopened", !.path = path, !.fixedAt = None]
       ELSE row

(* Mutant: the detection time is not passed on.                            *)
NewRowWithoutTime(occ) ==
  [bug |-> occ.bug, path |-> occ.path, status |-> "new",
   detectedAt |-> None, fixedAt |-> None]

NewRow(occ) ==
  [bug |-> occ.bug, path |-> occ.path, status |-> "new",
   detectedAt |-> clock, fixedAt |-> None]

(* Mutants of the UPDATE: the untouched reports are deleted, or those that *)
(* are still new are left alone.                                           *)
ResolveDeletes(rows) == [i \in DOMAIN rows \cap touched |-> rows[i]]

ResolveOnlyUnresolved(rows) ==
  [i \in DOMAIN rows |->
     IF i \in touched \/ rows[i].status = "new" THEN rows[i]
     ELSE [rows[i] EXCEPT !.status = "resolved", !.fixedAt = clock]]

(* The UPDATE of end_run_session over the rows that were not touched.      *)
Resolve(rows) ==
  [i \in DOMAIN rows |->
     IF i \in touched THEN rows[i]
     ELSE [rows[i] EXCEPT !.status = "resolved", !.fixedAt = clock]]

-----------------------------------------------------------------------------
(* addCheckerRun: the transaction is opened, nothing is touched yet.       *)
StartRunSession ==
  /\ ~storing
  /\ clock < MaxStores
  /\ storing' = TRUE
  /\ clock' = clock + 1
  /\ work' = reports
  /\ touched' = {}
  /\ seen' = {}
  /\ UNCHANGED <<reports, lastSeen>>

(* addReport: the first matching row, in whatever order the database       *)
(* returns them, is updated and touched; without one a row is inserted.    *)
AddReport(occ) ==
  /\ storing
  /\ \/ \E i \in Matches(work, occ) :
          /\ work' = [work EXCEPT ![i] = FoundAgain(@, i \in touched, occ.path)]
          /\ touched' = touched \cup {i}
     \/ /\ Matches(work, occ) = {}
        /\ \E i \in ReportId \ DOMAIN work :
             /\ work' = [j \in DOMAIN work \cup {i} |->
                           IF j = i THEN NewRow(occ) ELSE work[j]]
             /\ touched' = touched \cup {i}
  /\ seen' = seen \cup {occ}
  /\ UNCHANGED <<reports, storing, clock, lastSeen>>

(* end_run_session: everything untouched is resolved, then the commit.     *)
EndRunSession ==
  /\ storing
  /\ work' = Resolve(work)
  /\ reports' = Resolve(work)
  /\ storing' = FALSE
  /\ lastSeen' = seen
  /\ UNCHANGED <<touched, clock, seen>>

(* abort_session, or the connection of the transaction is lost.            *)
AbortSession ==
  /\ storing
  /\ work' = reports
  /\ storing' = FALSE
  /\ UNCHANGED <<reports, touched, clock, seen, lastSeen>>

(* removeRunResults: the reports go with their run (ON DELETE CASCADE); a  *)
(* later store of the same name makes a new run.                           *)
RemoveRun ==
  /\ ~storing
  /\ reports' = NoRows
  /\ work' = NoRows
  /\ lastSeen' = {}
  /\ UNCHANGED <<touched, storing, clock, seen>>

Next ==
  \/ StartRunSession
  \/ \E occ \in Occurrence : AddReport(occ)
  \/ EndRunSession
  \/ AbortSession
  \/ RemoveRun

Spec == Init /\ [][Next]_vars
-----------------------------------------------------------------------------
OccurrenceOf(row) == [bug |-> row.bug, path |-> row.path]

(* Paths of which none continues another: then is_same_event_path is what  *)
(* its docstring says.                                                     *)
PrefixFree == \A p, q \in Path : is_same_event_path(p, q) => p = q

(* No two reports of the run are the same finding: a report page or a      *)
(* count never shows a bug twice (addReport, "Check for duplicates").      *)
DistinctIn(rows) ==
  \A i, j \in DOMAIN rows :
    OccurrenceOf(rows[i]) = OccurrenceOf(rows[j]) => i = j

NoDuplicateReports == DistinctIn(reports)

(* Between stores the reports that are not resolved are exactly what the   *)
(* last successful store found: nothing lost, nothing left over from an    *)
(* aborted store, nothing kept open (addReport with end_run_session).      *)
OpenIffSeen ==
  \A occ \in Occurrence :
    occ \in lastSeen <=>
      \E i \in DOMAIN reports : /\ OccurrenceOf(reports[i]) = occ
                                /\ reports[i].status # "resolved"

(* A report carries a fixing time exactly while it is resolved, and that   *)
(* time is later than its detection: the fixDate filter of                 *)
(* process_report_filter_v2 selects no open report.                        *)
FixedIffResolved ==
  \A i \in DOMAIN reports :
    IF reports[i].status = "resolved"
    THEN reports[i].fixedAt # None /\ reports[i].fixedAt > reports[i].detectedAt
    ELSE reports[i].fixedAt = None

(* A row, once stored, is only removed with its run; it keeps its bug and  *)
(* its detection time, never becomes new again, and "reopened" only comes  *)
(* from "resolved" (addReport, end_run_session).                           *)
RowHistory ==
  [][reports' = NoRows \/
     \A i \in DOMAIN reports :
       /\ i \in DOMAIN reports'
       /\ reports'[i].bug = reports[i].bug
       /\ reports'[i].detectedAt = reports[i].detectedAt
       /\ reports'[i].status = "new" => reports[i].status = "new"
       /\ reports'[i].status = "reopened" /\ reports[i] # reports'[i]
            => reports[i].status = "resolved"]_vars

(* The docstring of is_same_event_path, "Checks if the given event path is *)
(* the same": a report found again is the stored one, event by event, so   *)
(* folding the two leaves the stored path as it is (addReport).            *)
FoldsSamePath ==
  [][storing /\ storing' =>
       \A i \in DOMAIN work : work'[i].path = work[i].path]_vars

(* api/v6/report_server.thrift, "NEW, The report appeared amongst the       *)
(* analysis results in the latest store": nothing was detected or fixed    *)
(* after a report that is still new.                                       *)
NewIsLatest ==
  \A i, j \in DOMAIN reports :
    reports[i].status = "new" =>
      /\ reports[j].detectedAt <= reports[i].detectedAt
      /\ reports[j].fixedAt # None
           => reports[j].fixedAt <= reports[i].detectedAt

(* The store as one step of the promise made to the reader.                *)
StatusIn(rows, occ) ==
  LET I == {i \in DOMAIN rows : OccurrenceOf(rows[i]) = occ}
  IN  IF I = {} THEN "absent" ELSE rows[CHOOSE i \in I : TRUE].status

StatusOf(occ) == StatusIn(reports, occ)

Lifecycle == INSTANCE BugLifecycle
               WITH status <- [occ \in Occurrence |-> StatusOf(occ)]

(* The rows of the run implement the detection status of BugLifecycle.     *)
LifecycleSpec == Lifecycle!Spec

(* The open reports are what the last successful store found, each once.   *)
OpenReports == NoDuplicateReports /\ OpenIffSeen

(* The rows keep their shape, and the times of a report agree with its     *)
(* status (addReport, end_run_session).                                    *)
TimesAgree == TypeOK /\ FixedIffResolved /\ NewIsLatest
=============================================================================
