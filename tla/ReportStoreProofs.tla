-------------------------- MODULE ReportStoreProofs --------------------------
(* Proofs about ReportStore for every set of bugs, paths and report ids and *)
(* any number of stores.                                                    *)
EXTENDS ReportStore, TLAPS

USE ReportStoreAssumption

(* A stored report that is found again keeps its bug and detection time, is *)
(* no longer resolved, and carries the old path or the new one.             *)
LEMMA FoundAgainFacts ==
  ASSUME NEW row \in Row, NEW t, NEW path \in Path,
         NEW r, r = FoundAgain(row, t, path)
  PROVE      /\ r \in Row
             /\ r.bug = row.bug
             /\ r.detectedAt = row.detectedAt
             /\ r.path \in {row.path, path}
             /\ r.status # "resolved"
             /\ row.status # "resolved" => r.fixedAt = row.fixedAt
             /\ row.status = "resolved" => r.status = "reopened" /\ r.fixedAt = None
             /\ row.status \in {"unresolved", "reopened"} => r.status = "unresolved"
             /\ row.status = "new" => r.status = IF t THEN "new" ELSE "unresolved"
<1>1. CASE row.status = "new"
  BY <1>1 DEF FoundAgain, Row, DetectionStatus
<1>2. CASE row.status = "resolved"
  BY <1>2 DEF FoundAgain, Row, DetectionStatus
<1>3. CASE row.status \in {"unresolved", "reopened"}
  BY <1>3 DEF FoundAgain, Row, DetectionStatus
<1> QED BY <1>1, <1>2, <1>3 DEF Row, DetectionStatus

(* The types hold for a run without reports.                               *)
LEMMA TypeInit == Init => TypeOK
<1>1. IsRows(NoRows)
  BY DEF IsRows, NoRows
<1>2. ASSUME Init PROVE IsRows(reports) /\ IsRows(work)
  BY <1>1, <1>2, Zenon DEF Init
<1>3. ASSUME Init PROVE touched \in SUBSET ReportId /\ seen \in SUBSET Occurrence
  BY <1>3 DEF Init
<1>4. ASSUME Init PROVE lastSeen \in SUBSET Occurrence /\ storing \in BOOLEAN /\ clock \in Nat
  BY <1>4 DEF Init
<1> QED BY <1>2, <1>3, <1>4 DEF TypeOK

(* Every step keeps the types.                                             *)
LEMMA TypeNext == TypeOK /\ [Next]_vars => TypeOK'
<1> SUFFICES ASSUME TypeOK, [Next]_vars PROVE TypeOK'
  OBVIOUS
<1>1. CASE StartRunSession
  BY <1>1 DEF TypeOK, StartRunSession
<1>2. ASSUME NEW occ \in Occurrence, AddReport(occ) PROVE TypeOK'
  <2>1. occ.path \in Path /\ occ.bug \in Bug
    BY DEF Occurrence
  <2>2. IsRows(work')
    <3>1. ASSUME NEW i \in Matches(work, occ),
                 work' = [work EXCEPT ![i] = FoundAgain(@, i \in touched, occ.path)]
          PROVE  IsRows(work')
      <4>1. i \in DOMAIN work /\ work[i] \in Row
        BY <3>1 DEF Matches, TypeOK, IsRows
      <4>2. FoundAgain(work[i], i \in touched, occ.path) \in Row
        BY <4>1, <2>1, FoundAgainFacts
      <4> QED BY <3>1, <4>1, <4>2 DEF TypeOK, IsRows
    <3>2. ASSUME NEW i \in ReportId \ DOMAIN work,
                 work' = [j \in DOMAIN work \cup {i} |->
                            IF j = i THEN NewRow(occ) ELSE work[j]]
          PROVE  IsRows(work')
      <4>1. NewRow(occ) \in Row
        BY <2>1 DEF NewRow, Row, DetectionStatus, TypeOK
      <4> QED BY <3>2, <4>1 DEF TypeOK, IsRows
    <3> QED BY <3>1, <3>2, <1>2 DEF AddReport
  <2>3. touched' \in SUBSET ReportId
    BY <1>2 DEF AddReport, TypeOK, IsRows, Matches
  <2>4. seen' \in SUBSET Occurrence
    BY <1>2 DEF AddReport, TypeOK
  <2> QED BY <1>2, <2>2, <2>3, <2>4 DEF AddReport, TypeOK, IsRows
<1>3. CASE EndRunSession
  <2>1. IsRows(Resolve(work))
    BY DEF TypeOK, IsRows, Resolve, Row, DetectionStatus
  <2> QED BY <1>3, <2>1 DEF TypeOK, EndRunSession, IsRows
<1>4. CASE AbortSession
  BY <1>4 DEF TypeOK, AbortSession, IsRows
<1>5. CASE RemoveRun
  BY <1>5 DEF TypeOK, RemoveRun, IsRows, NoRows
<1>6. CASE UNCHANGED vars
  BY <1>6 DEF TypeOK, vars, IsRows
<1> QED BY <1>1, <1>2, <1>3, <1>4, <1>5, <1>6 DEF Next

(* Type correctness of the rows, the transaction's view and the session.    *)
THEOREM TypeCorrect == Spec => []TypeOK
BY TypeInit, TypeNext, PTL DEF Spec

-----------------------------------------------------------------------------
(* The occurrence occ ends up in the row i: the row of that occurrence, if  *)
(* there was one, and a new row otherwise.                                  *)
Stores(occ, i) ==
  /\ touched' = touched \cup {i}
  /\ DOMAIN work' = DOMAIN work \cup {i}
  /\ OccurrenceOf(work'[i]) = occ
  /\ \A j \in DOMAIN work \ {i} : work'[j] = work[j]
  /\ i \in DOMAIN work =>
       /\ OccurrenceOf(work[i]) = occ
       /\ work'[i] = FoundAgain(work[i], i \in touched, occ.path)
  /\ i \notin DOMAIN work =>
       /\ work'[i] = NewRow(occ)
       /\ \A j \in DOMAIN work : OccurrenceOf(work[j]) # occ

(* When no path continues another, AddReport folds an occurrence into the   *)
(* row of the very same occurrence, or inserts one because there is none.   *)
LEMMA AddReportFacts ==
  ASSUME TypeOK, PrefixFree, NEW occ \in Occurrence, AddReport(occ)
  PROVE  \E i \in ReportId : Stores(occ, i)
<1>1. occ.path \in Path /\ occ.bug \in Bug /\ occ = [bug |-> occ.bug, path |-> occ.path]
  BY DEF Occurrence
<1>2. \A j \in DOMAIN work : j \in ReportId /\ work[j] \in Row /\ work[j].path \in Path
  BY DEF TypeOK, IsRows, Row
<1>3. \A p \in Path : is_same_event_path(p, p)
  BY DEF is_same_event_path
<1>4. \A j \in DOMAIN work : j \in Matches(work, occ) <=> OccurrenceOf(work[j]) = occ
  BY <1>1, <1>2, <1>3 DEF Matches, PrefixFree, OccurrenceOf
<1>5. ASSUME NEW i \in Matches(work, occ),
             work' = [work EXCEPT ![i] = FoundAgain(@, i \in touched, occ.path)],
             touched' = touched \cup {i}
      PROVE  Stores(occ, i)
  <2>1. i \in DOMAIN work /\ i \in ReportId /\ OccurrenceOf(work[i]) = occ
    BY <1>2, <1>4, <1>5 DEF Matches
  <2>2. work'[i] = FoundAgain(work[i], i \in touched, occ.path)
    BY <1>5, <2>1
  <2>3. /\ work'[i].bug = work[i].bug
        /\ work'[i].path \in {work[i].path, occ.path}
    BY <2>1, <2>2, <1>1, <1>2, FoundAgainFacts
  <2>4. OccurrenceOf(work'[i]) = occ
    BY <2>1, <2>3, <1>1 DEF OccurrenceOf
  <2>5. DOMAIN work' = DOMAIN work \cup {i} /\ \A j \in DOMAIN work \ {i} : work'[j] = work[j]
    BY <1>5, <2>1
  <2> QED BY <1>5, <2>1, <2>2, <2>4, <2>5 DEF Stores
<1>6. ASSUME Matches(work, occ) = {}, NEW i \in ReportId \ DOMAIN work,
             work' = [j \in DOMAIN work \cup {i} |->
                        IF j = i THEN NewRow(occ) ELSE work[j]],
             touched' = touched \cup {i}
      PROVE  Stores(occ, i)
  <2>1. \A j \in DOMAIN work : OccurrenceOf(work[j]) # occ
    BY <1>4, <1>6
  <2>2. OccurrenceOf(NewRow(occ)) = occ
    BY <1>1 DEF NewRow, OccurrenceOf
  <2> QED BY <1>6, <2>1, <2>2 DEF Stores
<1>7. Matches(work, occ) \subseteq ReportId
  BY <1>2 DEF Matches
<1> QED BY <1>5, <1>6, <1>7 DEF AddReport

(* The UPDATE of end_run_session leaves the bug, the path and the detection *)
(* time of every row alone.                                                 *)
LEMMA ResolveFacts ==
  ASSUME TypeOK
  PROVE  /\ DOMAIN Resolve(work) = DOMAIN work
         /\ \A i \in DOMAIN work :
              /\ OccurrenceOf(Resolve(work)[i]) = OccurrenceOf(work[i])
              /\ Resolve(work)[i].detectedAt = work[i].detectedAt
              /\ i \in touched => Resolve(work)[i] = work[i]
              /\ i \notin touched => /\ Resolve(work)[i].status = "resolved"
                                    /\ Resolve(work)[i].fixedAt = clock
BY DEF Resolve, OccurrenceOf, TypeOK, IsRows, Row

-----------------------------------------------------------------------------
(* The inductive invariant behind NoDuplicateReports and OpenIffSeen: while *)
(* a store runs, the touched rows of its view are the occurrences it added, *)
(* and none of them is resolved.                                            *)
SeenInv ==
  /\ DistinctIn(work)
  /\ NoDuplicateReports
  /\ OpenIffSeen
  /\ storing =>
       /\ touched \subseteq DOMAIN work
       /\ \A i \in touched : /\ work[i].status # "resolved"
                             /\ OccurrenceOf(work[i]) \in seen
       /\ \A occ \in seen : \E i \in touched : OccurrenceOf(work[i]) = occ

(* A run without reports shows nothing and was seen with nothing.          *)
LEMMA SeenInvInit == Init => SeenInv
<1> SUFFICES ASSUME Init PROVE SeenInv
  OBVIOUS
<1>1. DOMAIN reports = {} /\ DOMAIN work = {}
  BY DEF Init, NoRows
<1>2. lastSeen = {} /\ storing = FALSE
  BY DEF Init
<1>3. OpenIffSeen
  BY <1>1, <1>2 DEF OpenIffSeen
<1> QED BY <1>1, <1>2, <1>3 DEF SeenInv, DistinctIn, NoDuplicateReports

(* addReport keeps the touched rows equal to what the store has found.     *)
LEMMA SeenInvAdd ==
  ASSUME PrefixFree, TypeOK, SeenInv, NEW occ \in Occurrence, AddReport(occ)
  PROVE  SeenInv'
<1>1. PICK i \in ReportId : Stores(occ, i)
  BY AddReportFacts
<1>2. storing /\ seen' = seen \cup {occ}
      /\ UNCHANGED <<reports, lastSeen>>
  BY DEF AddReport
<1>3. i \in DOMAIN work' /\ \A j \in DOMAIN work' : j # i => j \in DOMAIN work /\ work'[j] = work[j]
  BY <1>1 DEF Stores
<1>4. ASSUME NEW j \in DOMAIN work', OccurrenceOf(work'[j]) = occ PROVE j = i
  <2>1. SUFFICES ASSUME j # i PROVE FALSE
    OBVIOUS
  <2>2. j \in DOMAIN work /\ OccurrenceOf(work[j]) = occ
    BY <1>3, <1>4, <2>1
  <2> QED BY <1>1, <2>1, <2>2 DEF Stores, SeenInv, DistinctIn
<1>5. DistinctIn(work)'
  BY <1>1, <1>3, <1>4 DEF Stores, SeenInv, DistinctIn
<1>6. work'[i].status # "resolved"
  <2>1. CASE i \in DOMAIN work
    <3>1. work[i] \in Row /\ occ.path \in Path
      BY <2>1 DEF TypeOK, IsRows, Occurrence
    <3> QED BY <1>1, <2>1, <3>1, FoundAgainFacts DEF Stores
  <2>2. CASE i \notin DOMAIN work
    BY <1>1, <2>2 DEF Stores, NewRow
  <2> QED BY <2>1, <2>2
<1>7. \A j \in touched' : work'[j].status # "resolved" /\ OccurrenceOf(work'[j]) \in seen'
  BY <1>1, <1>2, <1>3, <1>6 DEF Stores, SeenInv
<1>8. ASSUME NEW o \in seen' PROVE \E j \in touched' : OccurrenceOf(work'[j]) = o
  <2>1. CASE o = occ
    BY <1>1, <2>1 DEF Stores
  <2>2. CASE o # occ
    <3>1. PICK j \in touched : OccurrenceOf(work[j]) = o
      BY <1>2, <2>2 DEF SeenInv
    <3>2. j # i
      BY <1>1, <1>2, <2>2, <3>1 DEF Stores, SeenInv
    <3> QED BY <1>1, <1>2, <3>1, <3>2 DEF Stores, SeenInv
  <2> QED BY <2>1, <2>2
<1>9. touched' \subseteq DOMAIN work'
  BY <1>1, <1>2 DEF Stores, SeenInv
<1> QED BY <1>2, <1>5, <1>7, <1>8, <1>9 DEF SeenInv, NoDuplicateReports, OpenIffSeen, DistinctIn

(* end_run_session leaves open exactly what the store has found.           *)
LEMMA SeenInvEnd ==
  ASSUME TypeOK, SeenInv, EndRunSession
  PROVE  SeenInv'
<1>1. /\ storing /\ ~storing' /\ lastSeen' = seen
      /\ reports' = Resolve(work) /\ work' = Resolve(work)
  BY DEF EndRunSession, TypeOK
<1>2. DistinctIn(Resolve(work))
  BY ResolveFacts DEF SeenInv, DistinctIn
<1>3. ASSUME NEW occ \in Occurrence
      PROVE  occ \in seen <=> \E i \in DOMAIN reports' :
               OccurrenceOf(reports'[i]) = occ /\ reports'[i].status # "resolved"
  <2>1. ASSUME occ \in seen
        PROVE  \E i \in DOMAIN reports' :
               OccurrenceOf(reports'[i]) = occ /\ reports'[i].status # "resolved"
    <3>1. PICK i \in touched : OccurrenceOf(work[i]) = occ
      BY <1>1, <2>1 DEF SeenInv
    <3> QED BY <1>1, <3>1, ResolveFacts DEF SeenInv
  <2>2. ASSUME NEW i \in DOMAIN reports', OccurrenceOf(reports'[i]) = occ,
               reports'[i].status # "resolved"
        PROVE  occ \in seen
    BY <1>1, <2>2, ResolveFacts DEF SeenInv
  <2> QED BY <2>1, <2>2
<1>4. OpenIffSeen'
  BY <1>1, <1>3 DEF OpenIffSeen
<1> QED BY <1>1, <1>2, <1>4 DEF SeenInv, NoDuplicateReports, DistinctIn

(* Every step keeps the open reports equal to the findings.                *)
LEMMA SeenInvNext ==
  ASSUME PrefixFree
  PROVE  TypeOK /\ SeenInv /\ [Next]_vars => SeenInv'
<1> SUFFICES ASSUME TypeOK, SeenInv, [Next]_vars PROVE SeenInv'
  OBVIOUS
<1>1. CASE StartRunSession
  BY <1>1
  DEF StartRunSession, SeenInv, NoDuplicateReports, OpenIffSeen, DistinctIn
<1>2. ASSUME NEW occ \in Occurrence, AddReport(occ) PROVE SeenInv'
  BY <1>2, SeenInvAdd
<1>3. CASE EndRunSession
  BY <1>3, SeenInvEnd
<1>4. CASE AbortSession
  BY <1>4 DEF AbortSession, SeenInv, NoDuplicateReports, OpenIffSeen, DistinctIn
<1>5. CASE RemoveRun
  <2>1. DOMAIN reports' = {} /\ DOMAIN work' = {} /\ lastSeen' = {} /\ storing' = FALSE
    BY <1>5 DEF RemoveRun, NoRows, TypeOK
  <2>2. OpenIffSeen'
    BY <2>1 DEF OpenIffSeen
  <2> QED BY <2>1, <2>2 DEF SeenInv, NoDuplicateReports, DistinctIn
<1>6. CASE UNCHANGED vars
  BY <1>6 DEF vars, SeenInv, NoDuplicateReports, OpenIffSeen, DistinctIn
<1> QED BY <1>1, <1>2, <1>3, <1>4, <1>5, <1>6 DEF Next

(* No aborted store leaves anything behind, no finding is lost or doubled:  *)
(* the open reports are what the last successful store found.               *)
THEOREM OpenReportsCorrect ==
  ASSUME PrefixFree
  PROVE  Spec => []OpenReports
<1>1. TypeOK /\ SeenInv /\ [Next]_vars => SeenInv'
  BY SeenInvNext
<1>2. SeenInv => OpenReports
  BY DEF SeenInv, OpenReports
<1> QED BY <1>1, <1>2, SeenInvInit, TypeCorrect, PTL DEF Spec

-----------------------------------------------------------------------------
(* How the view of a running store relates to the committed rows: a touched *)
(* row was found again or is new, every other row is as it was committed.   *)
Again(old, new) ==
  /\ new.bug = old.bug
  /\ new.detectedAt = old.detectedAt
  /\ new.fixedAt = None
  /\ new.status \in (IF old.status = "resolved" THEN {"reopened", "unresolved"}
                                               ELSE {"unresolved"})

Fresh(row) == row.status = "new" /\ row.detectedAt = clock /\ row.fixedAt = None

(* Every committed row was detected and fixed by the time t.                *)
Before(t) ==
  \A i \in DOMAIN reports :
    /\ reports[i].detectedAt <= t
    /\ reports[i].fixedAt # None => reports[i].fixedAt <= t

ViewInv ==
  /\ FixedIffResolved
  /\ NewIsLatest
  /\ Before(clock)
  /\ storing =>
       /\ clock > 0
       /\ Before(clock - 1)
       /\ touched \subseteq DOMAIN work
       /\ DOMAIN work = DOMAIN reports \cup touched
       /\ \A i \in touched : IF i \in DOMAIN reports THEN Again(reports[i], work[i])
                                                  ELSE Fresh(work[i])
       /\ \A i \in DOMAIN reports \ touched : work[i] = reports[i]

(* The facts about the transaction's view hold at the start.               *)
LEMMA ViewInvInit == Init => ViewInv
<1> SUFFICES ASSUME Init PROVE ViewInv
  OBVIOUS
<1>1. DOMAIN reports = {} /\ storing = FALSE
  BY DEF Init, NoRows
<1> QED BY <1>1 DEF ViewInv, FixedIffResolved, NewIsLatest, Before

(* addReport keeps the view of the transaction a successor of the rows.    *)
LEMMA ViewInvAdd ==
  ASSUME TypeOK, ViewInv, NEW occ \in Occurrence, AddReport(occ)
  PROVE  ViewInv'
<1>1. storing /\ UNCHANGED <<reports, clock, storing>>
  BY DEF AddReport
<1>2. FixedIffResolved' /\ NewIsLatest' /\ Before(clock)' /\ Before(clock - 1)'
  BY <1>1 DEF ViewInv, FixedIffResolved, NewIsLatest, Before
<1>3. ASSUME NEW i \in Matches(work, occ),
             work' = [work EXCEPT ![i] = FoundAgain(@, i \in touched, occ.path)],
             touched' = touched \cup {i}
      PROVE  ViewInv'
  <2>1. i \in DOMAIN work /\ work[i] \in Row /\ occ.path \in Path
    BY <1>3 DEF Matches, TypeOK, IsRows, Occurrence
  <2>2. DOMAIN work' = DOMAIN work /\ \A j \in DOMAIN work : j # i => work'[j] = work[j]
    BY <1>3
  <2>3. work'[i] = FoundAgain(work[i], i \in touched, occ.path)
    BY <1>3, <2>1
  <2>4. i \in DOMAIN reports => Again(reports[i], work'[i])
    <3>1. ASSUME i \in touched, i \in DOMAIN reports
          PROVE  Again(reports[i], work'[i])
      <4>1. Again(reports[i], work[i])
        BY <1>1, <3>1 DEF ViewInv
      <4>2. /\ work'[i].bug = work[i].bug
            /\ work'[i].detectedAt = work[i].detectedAt
            /\ work'[i].fixedAt = None
            /\ work'[i].status = "unresolved"
        BY <2>1, <2>3, <4>1, FoundAgainFacts DEF Again
      <4> QED BY <4>1, <4>2 DEF Again
    <3>2. CASE i \notin touched
      <4>1. i \in DOMAIN reports /\ work[i] = reports[i]
        BY <1>1, <2>1, <3>2 DEF ViewInv
      <4>2. reports[i].status # "resolved" => reports[i].fixedAt = None
        BY <4>1 DEF ViewInv, FixedIffResolved
      <4>3. work[i].status \in DetectionStatus
        BY <2>1 DEF Row
      <4>4. /\ work'[i].bug = work[i].bug
            /\ work'[i].detectedAt = work[i].detectedAt
            /\ work[i].status = "resolved" => work'[i].status = "reopened"
            /\ work[i].status # "resolved" => work'[i].status = "unresolved"
            /\ work'[i].fixedAt = None
        <5>1. CASE work[i].status = "resolved"
          BY <2>1, <2>3, <5>1, FoundAgainFacts
        <5>2. CASE work[i].status # "resolved"
          <6>1. work'[i] = [[work[i] EXCEPT !.status = "unresolved"] EXCEPT !.path = occ.path]
            BY <2>3, <3>2, <4>3, <5>2, Zenon DEF FoundAgain, DetectionStatus
          <6> QED BY <2>1, <4>1, <4>2, <5>2, <6>1 DEF Row
        <5> QED BY <5>1, <5>2
      <4> QED BY <4>1, <4>4 DEF Again
    <3> QED BY <3>1, <3>2
  <2>5. i \notin DOMAIN reports => Fresh(work[i])'
    <3>1. SUFFICES ASSUME i \notin DOMAIN reports PROVE Fresh(work[i])'
      OBVIOUS
    <3>2. i \in touched /\ Fresh(work[i])
      BY <1>1, <2>1, <3>1 DEF ViewInv
    <3>3. work'[i] = work[i]
      BY <2>3, <3>2 DEF Fresh, FoundAgain
    <3> QED BY <1>1, <3>2, <3>3 DEF Fresh
  <2>6. \A j \in DOMAIN reports \ touched' : work'[j] = reports[j]
    BY <1>1, <1>3, <2>2 DEF ViewInv
  <2>7. ASSUME NEW j \in touched'
        PROVE  IF j \in DOMAIN reports THEN Again(reports[j], work'[j])
                                       ELSE Fresh(work[j])'
    <3>1. CASE j = i
      BY <2>4, <2>5, <3>1
    <3>2. CASE j # i
      <4>1. j \in touched /\ work'[j] = work[j]
        BY <1>1, <1>3, <2>2, <3>2 DEF ViewInv
      <4> QED BY <1>1, <4>1 DEF ViewInv, Fresh
    <3> QED BY <3>1, <3>2
  <2>8. touched' \subseteq DOMAIN work' /\ DOMAIN work' = DOMAIN reports \cup touched'
    BY <1>1, <1>3, <2>1, <2>2 DEF ViewInv
  <2> QED BY <1>1, <1>2, <2>6, <2>7, <2>8 DEF ViewInv
<1>4. ASSUME NEW i \in ReportId \ DOMAIN work,
             work' = [j \in DOMAIN work \cup {i} |->
                        IF j = i THEN NewRow(occ) ELSE work[j]],
             touched' = touched \cup {i}
      PROVE  ViewInv'
  <2>1. i \notin DOMAIN reports /\ i \notin touched
    BY <1>1, <1>4 DEF ViewInv
  <2>2. DOMAIN work' = DOMAIN work \cup {i} /\ \A j \in DOMAIN work : work'[j] = work[j]
    BY <1>4
  <2>3. Fresh(work[i])'
    BY <1>1, <1>4 DEF Fresh, NewRow
  <2>4. ASSUME NEW j \in touched'
        PROVE  IF j \in DOMAIN reports THEN Again(reports[j], work'[j])
                                       ELSE Fresh(work[j])'
    <3>1. CASE j = i
      BY <2>1, <2>3, <3>1
    <3>2. CASE j # i
      <4>1. j \in touched /\ work'[j] = work[j]
        BY <1>1, <1>4, <2>2, <3>2 DEF ViewInv
      <4> QED BY <1>1, <4>1 DEF ViewInv, Fresh
    <3> QED BY <3>1, <3>2
  <2>5. \A j \in DOMAIN reports \ touched' : work'[j] = reports[j]
    BY <1>1, <1>4, <2>2 DEF ViewInv
  <2>6. touched' \subseteq DOMAIN work' /\ DOMAIN work' = DOMAIN reports \cup touched'
    BY <1>1, <1>4, <2>2 DEF ViewInv
  <2> QED BY <1>1, <1>2, <2>4, <2>5, <2>6 DEF ViewInv
<1> QED BY <1>3, <1>4 DEF AddReport

(* What a commit makes of the rows, seen from the rows before it.           *)
Committed(i) ==
  \/ /\ i \in DOMAIN reports /\ i \in touched
     /\ Again(reports[i], reports'[i])
  \/ /\ i \in DOMAIN reports /\ i \notin touched
     /\ reports'[i] = [reports[i] EXCEPT !.status = "resolved", !.fixedAt = clock]
  \/ /\ i \notin DOMAIN reports
     /\ Fresh(reports'[i])

(* What end_run_session does to one row of the view.                       *)
LEMMA EndFacts ==
  ASSUME TypeOK, ViewInv, EndRunSession
  PROVE  /\ DOMAIN reports \subseteq DOMAIN reports'
         /\ \A i \in DOMAIN reports' : Committed(i)
<1>1. storing /\ reports' = Resolve(work)
  BY DEF EndRunSession
<1>2. DOMAIN reports' = DOMAIN work
  BY <1>1, ResolveFacts
<1>3. ASSUME NEW i \in DOMAIN work PROVE Committed(i)
  <2>1. CASE i \in touched
    BY <1>1, <1>3, <2>1, ResolveFacts DEF ViewInv, Committed
  <2>2. CASE i \notin touched
    <3>1. i \in DOMAIN reports /\ work[i] = reports[i]
      BY <1>1, <1>3, <2>2 DEF ViewInv
    <3> QED BY <1>1, <1>3, <2>2, <3>1 DEF Resolve, Committed
  <2> QED BY <2>1, <2>2
<1> QED BY <1>1, <1>2, <1>3 DEF ViewInv

(* end_run_session publishes such a successor.                             *)
LEMMA ViewInvEnd ==
  ASSUME TypeOK, ViewInv, EndRunSession
  PROVE  ViewInv'
<1>1. storing /\ ~storing' /\ clock' = clock /\ clock \in Nat /\ clock > 0
  BY DEF EndRunSession, ViewInv, TypeOK
<1>2. IsRows(reports) /\ IsRows(reports)'
  BY TypeNext DEF Next, TypeOK
<1>3. ASSUME NEW i \in DOMAIN reports'
      PROVE  /\ reports'[i].detectedAt \in Nat
             /\ reports'[i].detectedAt <= clock
             /\ reports'[i].fixedAt # None =>
                  /\ reports'[i].status = "resolved"
                  /\ reports'[i].fixedAt = clock
                  /\ reports'[i].detectedAt < clock
             /\ reports'[i].status = "resolved" => reports'[i].fixedAt # None
             /\ reports'[i].status = "new" => reports'[i].detectedAt = clock
  <2>1. Committed(i)
    BY EndFacts
  <2>2. CASE i \in DOMAIN reports /\ i \in touched
    BY <1>1, <1>2, <2>1, <2>2 DEF Committed, Again, ViewInv, Before, IsRows, Row
  <2>3. CASE i \in DOMAIN reports /\ i \notin touched
    <3>1. reports[i] \in Row /\ reports[i].detectedAt <= clock - 1
      BY <1>1, <1>2, <2>3 DEF ViewInv, Before, IsRows
    <3>2. reports'[i] = [reports[i] EXCEPT !.status = "resolved", !.fixedAt = clock]
      BY <2>1, <2>3 DEF Committed
    <3> QED BY <1>1, <3>1, <3>2 DEF Row
  <2>4. CASE i \notin DOMAIN reports
    BY <1>1, <2>1, <2>4 DEF Committed, Fresh
  <2> QED BY <2>2, <2>3, <2>4
<1>4. FixedIffResolved'
  BY <1>1, <1>3 DEF FixedIffResolved
<1>5. NewIsLatest' /\ Before(clock)'
  BY <1>1, <1>3 DEF NewIsLatest, Before
<1> QED BY <1>1, <1>4, <1>5 DEF ViewInv

(* Every step keeps the view a successor of the committed rows.            *)
LEMMA ViewInvNext == TypeOK /\ ViewInv /\ [Next]_vars => ViewInv'
<1> SUFFICES ASSUME TypeOK, ViewInv, [Next]_vars PROVE ViewInv'
  OBVIOUS
<1>1. CASE StartRunSession
  <2>1. /\ reports' = reports /\ work' = reports /\ touched' = {}
        /\ clock' = clock + 1 /\ clock \in Nat
    BY <1>1 DEF StartRunSession, TypeOK
  <2>2. FixedIffResolved' /\ NewIsLatest'
    BY <2>1 DEF ViewInv, FixedIffResolved, NewIsLatest
  <2>3. Before(clock)' /\ Before(clock - 1)'
    BY <2>1 DEF ViewInv, Before, TypeOK, IsRows, Row
  <2> QED BY <2>1, <2>2, <2>3 DEF ViewInv
<1>2. ASSUME NEW occ \in Occurrence, AddReport(occ) PROVE ViewInv'
  BY <1>2, ViewInvAdd
<1>3. CASE EndRunSession
  BY <1>3, ViewInvEnd
<1>4. CASE AbortSession
  BY <1>4 DEF AbortSession, ViewInv, FixedIffResolved, NewIsLatest, Before
<1>5. CASE RemoveRun
  <2>1. DOMAIN reports' = {} /\ storing' = FALSE
    BY <1>5 DEF RemoveRun, NoRows, TypeOK
  <2> QED BY <2>1 DEF ViewInv, FixedIffResolved, NewIsLatest, Before
<1>6. CASE UNCHANGED vars
  BY <1>6 DEF vars, ViewInv, FixedIffResolved, NewIsLatest, Before, Again, Fresh
<1> QED BY <1>1, <1>2, <1>3, <1>4, <1>5, <1>6 DEF Next

(* The fixing time says when a report was resolved, and "new" reports are   *)
(* those of the latest store.                                               *)
THEOREM TimesCorrect == Spec => []TimesAgree
<1>1. TypeOK /\ ViewInv => TimesAgree
  BY DEF ViewInv, TimesAgree
<1> QED BY <1>1, TypeCorrect, ViewInvInit, ViewInvNext, PTL DEF Spec

(* Stored rows only disappear with their run and never become new again.    *)
THEOREM RowHistoryCorrect == Spec => RowHistory
<1> DEFINE Step ==
      reports' = NoRows \/
      \A i \in DOMAIN reports :
        /\ i \in DOMAIN reports'
        /\ reports'[i].bug = reports[i].bug
        /\ reports'[i].detectedAt = reports[i].detectedAt
        /\ reports'[i].status = "new" => reports[i].status = "new"
        /\ reports'[i].status = "reopened" /\ reports[i] # reports'[i]
             => reports[i].status = "resolved"
<1>1. TypeOK /\ ViewInv /\ [Next]_vars => [Step]_vars
  <2> SUFFICES ASSUME TypeOK, ViewInv, [Next]_vars PROVE Step
    OBVIOUS
  <2>1. CASE EndRunSession
    <3>1. ASSUME NEW i \in DOMAIN reports
          PROVE  /\ i \in DOMAIN reports'
                 /\ reports'[i].bug = reports[i].bug
                 /\ reports'[i].detectedAt = reports[i].detectedAt
                 /\ reports'[i].status = "new" => reports[i].status = "new"
                 /\ reports'[i].status = "reopened" /\ reports[i] # reports'[i]
                      => reports[i].status = "resolved"
      <4>1. i \in DOMAIN reports' /\ Committed(i) /\ reports[i] \in Row
        BY <2>1, <3>1, EndFacts DEF TypeOK, IsRows
      <4> QED BY <3>1, <4>1 DEF Committed, Again, Row
    <3> QED BY <3>1
  <2>2. CASE reports' = reports
    BY <2>2
  <2>3. CASE RemoveRun
    BY <2>3 DEF RemoveRun
  <2> QED BY <2>1, <2>2, <2>3
          DEF Next, StartRunSession, AddReport, AbortSession, vars
<1> QED BY <1>1, TypeCorrect, ViewInvInit, ViewInvNext, PTL DEF Spec, RowHistory

-----------------------------------------------------------------------------
(* A running store never changes what occurrence a committed row is.        *)
PathInv ==
  storing => \A i \in DOMAIN reports :
               i \in DOMAIN work /\ OccurrenceOf(work[i]) = OccurrenceOf(reports[i])

(* Every step keeps the paths in the domain of the run.                    *)
LEMMA PathInvNext ==
  ASSUME PrefixFree
  PROVE  TypeOK /\ PathInv /\ [Next]_vars => PathInv'
<1> SUFFICES ASSUME TypeOK, PathInv, [Next]_vars PROVE PathInv'
  OBVIOUS
<1>1. CASE StartRunSession
  BY <1>1 DEF StartRunSession, PathInv, OccurrenceOf
<1>2. ASSUME NEW occ \in Occurrence, AddReport(occ) PROVE PathInv'
  <2>1. PICK i \in ReportId : Stores(occ, i)
    BY <1>2, AddReportFacts
  <2>2. storing /\ reports' = reports
    BY <1>2 DEF AddReport
  <2>3. ASSUME NEW j \in DOMAIN reports
        PROVE  j \in DOMAIN work' /\ OccurrenceOf(work'[j]) = OccurrenceOf(reports[j])
    BY <2>1, <2>2, <2>3 DEF Stores, PathInv
  <2> QED BY <2>2, <2>3 DEF PathInv, OccurrenceOf
<1>3. CASE UNCHANGED vars
  BY <1>3 DEF vars, PathInv, OccurrenceOf
<1>4. CASE EndRunSession \/ AbortSession \/ RemoveRun
  BY <1>4 DEF EndRunSession, AbortSession, RemoveRun, PathInv, TypeOK
<1> QED BY <1>1, <1>2, <1>3, <1>4 DEF Next

(* The status shown for an occurrence is that of its only row.              *)
LEMMA StatusOfRow ==
  ASSUME NEW rows, DistinctIn(rows), NEW i \in DOMAIN rows
  PROVE  StatusIn(rows, OccurrenceOf(rows[i])) = rows[i].status
<1> DEFINE I == {j \in DOMAIN rows : OccurrenceOf(rows[j]) = OccurrenceOf(rows[i])}
<1>1. I = {i}
  BY DEF DistinctIn
<1>2. (CHOOSE j \in I : TRUE) = i
  BY <1>1
<1>3. StatusIn(rows, OccurrenceOf(rows[i])) =
        IF I = {} THEN "absent" ELSE rows[CHOOSE j \in I : TRUE].status
  BY DEF StatusIn
<1> HIDE DEF I
<1> QED BY <1>1, <1>2, <1>3

(* Without a row an occurrence is absent.                                  *)
LEMMA StatusOfNone ==
  ASSUME NEW rows, NEW occ, \A i \in DOMAIN rows : OccurrenceOf(rows[i]) # occ
  PROVE  StatusIn(rows, occ) = "absent"
BY DEF StatusIn

(* A commit takes the status of every occurrence where BugLifecycle says.   *)
LEMMA CommitStatus ==
  ASSUME TypeOK, SeenInv, SeenInv', ViewInv, PathInv, EndRunSession,
         NEW occ \in Occurrence
  PROVE  \/ /\ occ \notin seen
            /\ StatusOf(occ)' = Lifecycle!Missed(StatusOf(occ))
         \/ /\ occ \in seen
            /\ StatusOf(occ) = "absent" => StatusOf(occ)' = "new"
            /\ StatusOf(occ) = "resolved" =>
                 StatusOf(occ)' \in {"reopened", "unresolved"}
            /\ StatusOf(occ) \notin {"absent", "resolved"} =>
                 StatusOf(occ)' = "unresolved"
<1>1. storing /\ reports' = Resolve(work)
  BY DEF EndRunSession
<1>2. DOMAIN reports' = DOMAIN work /\ DOMAIN reports \subseteq DOMAIN work
  BY <1>1, ResolveFacts DEF PathInv
<1>3. \A i \in DOMAIN reports' : OccurrenceOf(reports'[i]) = OccurrenceOf(work[i])
  BY <1>1, <1>2, ResolveFacts
<1>4. DistinctIn(reports) /\ DistinctIn(reports)' /\ DistinctIn(work)
  BY DEF SeenInv, NoDuplicateReports
<1>5. \A i \in DOMAIN reports' : Committed(i)
  BY EndFacts
<1>6. CASE \E i \in DOMAIN reports' : OccurrenceOf(reports'[i]) = occ
  <2>1. PICK i \in DOMAIN reports' : OccurrenceOf(reports'[i]) = occ
    BY <1>6
  <2>2. StatusOf(occ)' = reports'[i].status
    <3>1. DistinctIn(reports')
      BY <1>4 DEF DistinctIn, OccurrenceOf
    <3>2. StatusIn(reports', OccurrenceOf(reports'[i])) = reports'[i].status
      BY <2>1, <3>1, StatusOfRow
    <3> QED BY <2>1, <3>2 DEF StatusOf, StatusIn, OccurrenceOf
  <2>3. i \in touched <=> occ \in seen
    BY <1>1, <1>2, <1>3, <1>4, <2>1 DEF SeenInv, DistinctIn
  <2>4. CASE i \in DOMAIN reports
    <3>1. OccurrenceOf(reports[i]) = occ /\ StatusOf(occ) = reports[i].status
      BY <1>1, <1>3, <1>4, <2>1, <2>4, StatusOfRow DEF PathInv, StatusOf
    <3>2. reports[i] \in Row
      BY <2>4 DEF TypeOK, IsRows
    <3>3. CASE i \in touched
      <4>1. Again(reports[i], reports'[i])
        BY <1>5, <2>1, <2>4, <3>3 DEF Committed
      <4> QED BY <2>2, <2>3, <3>1, <3>2, <3>3, <4>1 DEF Again, Row, DetectionStatus
    <3>4. CASE i \notin touched
      <4>1. reports'[i].status = "resolved"
        BY <1>5, <2>1, <2>4, <3>2, <3>4 DEF Committed, Row
      <4> QED BY <2>2, <2>3, <3>1, <3>2, <3>4, <4>1
              DEF Lifecycle!Missed, Row, DetectionStatus
    <3> QED BY <3>3, <3>4
  <2>5. CASE i \notin DOMAIN reports
    <3>1. StatusOf(occ) = "absent"
      BY <1>1, <1>2, <1>3, <1>4, <2>1, <2>5, StatusOfNone
      DEF StatusOf, PathInv, DistinctIn
    <3>2. i \in touched /\ reports'[i].status = "new"
      BY <1>1, <1>2, <1>5, <2>1, <2>5 DEF Committed, Fresh, ViewInv
    <3> QED BY <2>2, <2>3, <3>1, <3>2
  <2> QED BY <2>4, <2>5
<1>7. CASE \A i \in DOMAIN reports' : OccurrenceOf(reports'[i]) # occ
  <2>1. StatusOf(occ)' = "absent"
    BY <1>7 DEF StatusOf, StatusIn
  <2>2. StatusOf(occ) = "absent"
    BY <1>1, <1>2, <1>3, <1>7, StatusOfNone DEF StatusOf, PathInv
  <2>3. occ \notin seen
    BY <1>1, <1>2, <1>3, <1>7 DEF SeenInv
  <2> QED BY <2>1, <2>2, <2>3 DEF Lifecycle!Missed
<1> QED BY <1>6, <1>7

(* A commit is one step of the lifecycle.                                  *)
LEMMA LifecycleStep ==
  ASSUME TypeOK, SeenInv, SeenInv', ViewInv, PathInv, EndRunSession
  PROVE  Lifecycle!Next
<1> DEFINE st == [occ \in Occurrence |-> StatusOf(occ)]
           D == {occ \in seen : /\ StatusOf(occ) = "resolved"
                                /\ StatusOf(occ)' = "unresolved"}
<1>1. seen \in SUBSET Occurrence /\ D \in SUBSET seen
  BY DEF TypeOK
<1>2. ASSUME NEW occ \in Occurrence
      PROVE  StatusOf(occ)' = IF occ \in seen
                              THEN Lifecycle!Found(StatusOf(occ), occ \in D)
                              ELSE Lifecycle!Missed(StatusOf(occ))
  BY CommitStatus DEF Lifecycle!Found
<1>3. st' = [occ \in Occurrence |-> IF occ \in seen
                              THEN Lifecycle!Found(st[occ], occ \in D)
                              ELSE Lifecycle!Missed(st[occ])]
  BY <1>2
<1>4. Lifecycle!Store(seen, D)
  BY <1>3 DEF Lifecycle!Store
<1> QED BY <1>1, <1>4 DEF Lifecycle!Next

(* The rows implement the life cycle of a bug: every commit is one store of *)
(* BugLifecycle, and no other step shows but the removal of the run.        *)
THEOREM ImplementsLifecycle ==
  ASSUME PrefixFree
  PROVE  Spec => LifecycleSpec
<1> DEFINE st == [occ \in Occurrence |-> StatusOf(occ)]
<1>1. Init => Lifecycle!Init
  <2> SUFFICES ASSUME Init PROVE \A occ \in Occurrence : StatusOf(occ) = "absent"
    BY DEF Lifecycle!Init
  <2>1. DOMAIN reports = {}
    BY DEF Init, NoRows
  <2> QED BY <2>1, StatusOfNone DEF StatusOf
<1>2. Init => PathInv
  BY DEF Init, PathInv
<1>3. TypeOK /\ SeenInv /\ SeenInv' /\ ViewInv /\ PathInv /\ [Next]_vars
        => [Lifecycle!Next]_st
  <2> SUFFICES ASSUME TypeOK, SeenInv, SeenInv', ViewInv, PathInv, [Next]_vars
               PROVE  Lifecycle!Next \/ st' = st
    OBVIOUS
  <2>1. CASE EndRunSession
    BY <2>1, LifecycleStep
  <2>2. CASE RemoveRun
    <3>1. DOMAIN reports' = {}
      BY <2>2 DEF RemoveRun, NoRows
    <3>2. \A occ \in Occurrence : StatusOf(occ)' = "absent"
      BY <3>1 DEF StatusOf, StatusIn
    <3> QED BY <3>2 DEF Lifecycle!Next, Lifecycle!Remove
  <2>3. CASE reports' = reports
    BY <2>3 DEF StatusOf, StatusIn, OccurrenceOf
  <2> QED BY <2>1, <2>2, <2>3
          DEF Next, StartRunSession, AddReport, AbortSession, vars
<1>4. TypeOK /\ SeenInv /\ [Next]_vars => SeenInv'
  BY SeenInvNext
<1> QED BY <1>1, <1>2, <1>3, <1>4, TypeInit, TypeNext, SeenInvInit,
           ViewInvInit, ViewInvNext, PathInvNext, PTL
        DEF Spec, LifecycleSpec, Lifecycle!Spec
=============================================================================
