-------------------------- MODULE MassStoreProofs --------------------------
(***************************************************************************)
(* Theorems about MassStore for any number of stores, names, reports and   *)
(* crashes: type correctness, unique run names, and, for one product,      *)
(* stores that are never slow and commits that succeed, that no store      *)
(* ever writes into the transaction of another, that a committed run shows *)
(* exactly the reports that were found, and that a store is only refused   *)
(* while its run is being stored.                                          *)
(***************************************************************************)
EXTENDS MassStore, FiniteSetTheorems, TLAPS

(* A transaction that was handed to the storage session once.              *)
Handed(t) == /\ t \in Store
             /\ pc[t] \in InSession \cup {"failed", "acked"}
             /\ call[t] \in Call
             /\ rid[t] \in Nat

(* What the control state of a call says of its data.                      *)
ControlInv ==
  \A s \in Store :
    /\ pc[s] # "idle" => call[s] \in Call
    /\ pc[s] \in {"update", "start"} \cup InSession => rid[s] \in Nat
    /\ pc[s] \in {"write", "touch"} => item[s] \in Bug
    /\ pc[s] \in {"write", "touch", "mark", "commit"} => local[s] # None
    /\ local[s] # None => Handed(local[s])

SessionInv ==
  /\ IsFiniteSet(DOMAIN sessions)
  /\ \A id \in DOMAIN sessions : /\ Handed(sessions[id].txn)
                                 /\ rid[sessions[id].txn] = id

TypeInv == TypeOK /\ ControlInv /\ SessionInv

(* The run ids: before its lookup a call has none, and a new one is fresh. *)
IdInv ==
  /\ \A s \in Store :
       /\ pc[s] \in {"idle", "lookup", "insert"} => rid[s] = None
       /\ pc[s] \in {"idle", "lookup", "update", "insert"} =>
            txn[s].row = "none"
       /\ rid[s] # None => rid[s] < nextId[Db(s)]
  /\ \A p \in Product : \A id \in DOMAIN runs[p] : id < nextId[p]

(* A run id belongs to one name, committed or not.                         *)
NameInv ==
  /\ \A s, t \in Store :
       rid[s] # None /\ rid[t] = rid[s] /\ Db(t) = Db(s)
         => call[t].name = call[s].name
  /\ \A s \in Store : rid[s] # None /\ rid[s] \in DOMAIN runs[Db(s)]
                       => runs[Db(s)][rid[s]].name = call[s].name
  /\ \A s \in Store : txn[s].row = "inserted" =>
       /\ pc[s] # "idle" /\ rid[s] # None
       /\ Named(Db(s), call[s].name) = {}
       /\ ~NameHeldByOther(s)

UniqueInv == IdInv /\ NameInv /\ UniqueNames

-----------------------------------------------------------------------------
(* The circumstances under which stores do not disturb each other.         *)
Calm == /\ \E p : Product = {p}
        /\ ~SlowStores
        /\ MaxLostCommits = 0

Hold(s) == txn[s].row # "none"

(* The row locks: who is between the flush of the run and the commit.      *)
LockInv ==
  /\ \A s \in Store :
       /\ pc[s] \in {"start"} \cup (InSession \ {"drop"}) => Hold(s)
       /\ Hold(s) => rid[s] # None
       /\ pc[s] = "update" => rid[s] \in DOMAIN runs[Db(s)]
       /\ txn[s].row = "updated" => rid[s] \in DOMAIN runs[Db(s)]
  /\ \A s, t \in Store : Hold(s) /\ Hold(t) /\ rid[s] = rid[t] => s = t

(* The dictionary: a session is that of its store, of a store that failed  *)
(* and still holds the row, or of one the timer is about to forget.        *)
OwnerInv ==
  /\ \A id \in DOMAIN sessions :
       /\ \/ pc[sessions[id].txn] \in InSession
          \/ /\ pc[sessions[id].txn] = "failed"
             /\ \/ Hold(sessions[id].txn)
                \/ timer.state = "del" /\ timer.key = id
       /\ ~sessions[id].fresh => Abandoned(id)
  /\ \A s \in Store :
       pc[s] \in InSession \ {"drop"} /\ rid[s] \in DOMAIN sessions
         => sessions[rid[s]].txn = s

TimerInv ==
  timer.state = "abort" =>
    /\ timer.key \in DOMAIN sessions
    /\ Abandoned(timer.key)
    /\ pc[sessions[timer.key].txn] = "failed"
    /\ Hold(sessions[timer.key].txn)

-----------------------------------------------------------------------------

(* get_transaction changes the age of one session only.                    *)
LEMMA RefreshFacts ==
  ASSUME IsMap(sessions, Session), NEW id \in DOMAIN sessions, Refresh(id)
  PROVE  /\ IsMap(sessions', Session)
         /\ DOMAIN sessions' = DOMAIN sessions
         /\ \A k \in DOMAIN sessions :
              /\ sessions'[k].txn = sessions[k].txn
              /\ sessions'[k].touched = sessions[k].touched
              /\ k # id => sessions'[k].fresh = sessions[k].fresh
         /\ sessions'[id].fresh
<1>1. /\ DOMAIN sessions' = DOMAIN sessions
      /\ sessions'[id] = [sessions[id] EXCEPT !.fresh = TRUE]
      /\ \A k \in DOMAIN sessions \ {id} : sessions'[k] = sessions[k]
      /\ sessions' = [k \in DOMAIN sessions |-> sessions'[k]]
  BY Zenon DEF Refresh, IsMap
<1>2. sessions[id] \in Session
  BY DEF IsMap
<1>3. /\ [sessions[id] EXCEPT !.fresh = TRUE] \in Session
      /\ [sessions[id] EXCEPT !.fresh = TRUE].txn = sessions[id].txn
      /\ [sessions[id] EXCEPT !.fresh = TRUE].touched = sessions[id].touched
      /\ [sessions[id] EXCEPT !.fresh = TRUE].fresh
  BY <1>2 DEF Session
<1>4. \A k \in DOMAIN sessions' : sessions'[k] \in Session
  BY <1>1, <1>3 DEF IsMap
<1> QED
  BY <1>1, <1>3, <1>4 DEF IsMap

(* A session that gets old is otherwise the same.                          *)
LEMMA StaleFacts ==
  ASSUME IsMap(sessions, Session), NEW id \in DOMAIN sessions,
         sessions' = [sessions EXCEPT ![id].fresh = FALSE]
  PROVE  /\ IsMap(sessions', Session)
         /\ DOMAIN sessions' = DOMAIN sessions
         /\ \A k \in DOMAIN sessions :
              /\ sessions'[k].txn = sessions[k].txn
              /\ k # id => sessions'[k].fresh = sessions[k].fresh
<1>1. /\ DOMAIN sessions' = DOMAIN sessions
      /\ sessions'[id] = [sessions[id] EXCEPT !.fresh = FALSE]
      /\ \A k \in DOMAIN sessions \ {id} : sessions'[k] = sessions[k]
      /\ sessions' = [k \in DOMAIN sessions |-> sessions'[k]]
  BY Zenon DEF IsMap
<1>2. sessions[id] \in Session
  BY DEF IsMap
<1>3. /\ [sessions[id] EXCEPT !.fresh = FALSE] \in Session
      /\ [sessions[id] EXCEPT !.fresh = FALSE].txn = sessions[id].txn
  BY <1>2 DEF Session
<1>4. \A k \in DOMAIN sessions' : sessions'[k] \in Session
  BY <1>1, <1>3 DEF IsMap
<1> QED
  BY <1>1, <1>3, <1>4 DEF IsMap

(* touch_report changes the touched reports of one session only.           *)
LEMMA TouchFacts ==
  ASSUME IsMap(sessions, Session), NEW id \in DOMAIN sessions, NEW b \in Bug,
         sessions' = [sessions EXCEPT ![id].touched = @ \cup {b}]
  PROVE  /\ IsMap(sessions', Session)
         /\ DOMAIN sessions' = DOMAIN sessions
         /\ \A k \in DOMAIN sessions :
              /\ sessions'[k].txn = sessions[k].txn
              /\ sessions'[k].fresh = sessions[k].fresh
<1> DEFINE T == sessions[id].touched \cup {b}
<1>1. /\ DOMAIN sessions' = DOMAIN sessions
      /\ sessions'[id] = [sessions[id] EXCEPT !.touched = T]
      /\ \A k \in DOMAIN sessions \ {id} : sessions'[k] = sessions[k]
      /\ sessions' = [k \in DOMAIN sessions |-> sessions'[k]]
  BY Zenon DEF IsMap
<1>2. sessions[id] \in Session /\ T \in SUBSET Bug
  BY DEF IsMap, Session
<1> HIDE DEF T
<1>3. /\ [sessions[id] EXCEPT !.touched = T] \in Session
      /\ [sessions[id] EXCEPT !.touched = T].txn = sessions[id].txn
      /\ [sessions[id] EXCEPT !.touched = T].fresh = sessions[id].fresh
  BY <1>2 DEF Session
<1>4. \A k \in DOMAIN sessions' : sessions'[k] \in Session
  BY <1>1, <1>3 DEF IsMap
<1> QED
  BY <1>1, <1>3, <1>4 DEF IsMap

(* The values that the statements on the run give a transaction.           *)
LEMMA TxnFacts ==
  ASSUME NEW f \in [Store -> Txn], NEW t \in Store
  PROVE  /\ Begun \in Txn
         /\ [f EXCEPT ![t] = Begun] \in [Store -> Txn]
         /\ [Begun EXCEPT !.row = "updated"] \in Txn
         /\ [Begun EXCEPT !.row = "inserted"] \in Txn
         /\ [Begun EXCEPT !.row = "updated"].row = "updated"
         /\ [Begun EXCEPT !.row = "inserted"].row = "inserted"
  BY DEF Txn, Begun

(* Adding a report leaves the rows of the runs alone.                      *)
LEMMA AddedFacts ==
  ASSUME NEW f \in [Store -> Txn], NEW t \in Store, NEW b \in Bug
  PROVE  /\ [f EXCEPT ![t].added = @ \cup {b}] \in [Store -> Txn]
         /\ \A u \in Store : [f EXCEPT ![t].added = @ \cup {b}][u].row = f[u].row
<1> DEFINE S == f[t].added \cup {b}
<1>1. f[t] \in Txn /\ S \in SUBSET Bug
  BY DEF Txn
<1> HIDE DEF S
<1>2. /\ [f[t] EXCEPT !.added = S] \in Txn
      /\ [f[t] EXCEPT !.added = S].row = f[t].row
  BY <1>1 DEF Txn
<1>3. [f EXCEPT ![t].added = @ \cup {b}] = [f EXCEPT ![t] = [f[t] EXCEPT !.added = S]]
  BY DEF S
<1> QED
  BY <1>2, <1>3

(* Resolving reports leaves the rows of the runs alone.                    *)
LEMMA GoneFacts ==
  ASSUME NEW f \in [Store -> Txn], NEW t \in Store, NEW S \in SUBSET Bug
  PROVE  /\ [f EXCEPT ![t].gone = S] \in [Store -> Txn]
         /\ \A u \in Store : [f EXCEPT ![t].gone = S][u].row = f[u].row
<1>1. f[t] \in Txn
  OBVIOUS
<1>2. /\ [f[t] EXCEPT !.gone = S] \in Txn
      /\ [f[t] EXCEPT !.gone = S].row = f[t].row
  BY <1>1 DEF Txn
<1>3. [f EXCEPT ![t].gone = S] = [f EXCEPT ![t] = [f[t] EXCEPT !.gone = S]]
  OBVIOUS
<1> QED
  BY <1>2, <1>3

(* Setting the duration writes the row of one run.                         *)
LEMMA DurationFacts ==
  ASSUME txn \in [Store -> Txn], NEW t \in Store, WriteDuration(t)
  PROVE  /\ txn' \in [Store -> Txn]
         /\ \A u \in Store \ {t} : txn'[u] = txn[u]
         /\ txn'[t].row =
              IF txn[t].row = "none" THEN "updated" ELSE txn[t].row
<1>1. PICK x \in Txn : x = txn[t]
  OBVIOUS
<1>2. [row |-> IF x.row = "none" THEN "updated" ELSE x.row,
       finished |-> TRUE, added |-> x.added, gone |-> x.gone] \in Txn
  BY DEF Txn
<1> QED
  BY <1>1, <1>2 DEF WriteDuration

(* The values that the loop of the timer thread takes.                     *)
LEMMA TimerFacts ==
  ASSUME NEW x \in TimerThread, NEW id \in Nat
  PROVE  /\ [x EXCEPT !.visited = @ \cup {id}] \in TimerThread
         /\ [x EXCEPT !.state = "abort", !.key = id] \in TimerThread
         /\ [x EXCEPT !.state = "dead"] \in TimerThread
         /\ Asleep \in TimerThread
<1>1. x.visited \cup {id} \in SUBSET Nat
  BY DEF TimerThread
<1>2. /\ [x EXCEPT !.visited = x.visited \cup {id}] \in TimerThread
      /\ [x EXCEPT !.state = "dead"] \in TimerThread
  BY <1>1 DEF TimerThread
<1>3. [x EXCEPT !.state = "abort", !.key = id] \in TimerThread
  BY DEF TimerThread
<1>4. Asleep \in TimerThread
  BY DEF Asleep, TimerThread
<1> QED
  BY <1>2, <1>3, <1>4

(* The types and the control facts hold when the server starts.            *)
LEMMA TypeInit == Init => TypeInv
<1> SUFFICES ASSUME Init PROVE TypeInv
  OBVIOUS
<1>1. TypeOK
  BY MassStoreAssumption
  DEF Init, TypeOK, IsMap, Empty, Asleep, TimerThread, Begun, Txn, PC
<1>2. ControlInv
  BY DEF Init, ControlInv, InSession
<1>3. SessionInv
  BY FS_EmptySet DEF Init, SessionInv, Empty
<1> QED
  BY <1>1, <1>2, <1>3 DEF TypeInv

(* end_run_session, before its commit, leaves the rows of the runs alone.  *)
LEMMA EndFacts ==
  ASSUME TypeInv, NEW s \in Store, EndRunSession(s)
  PROVE  /\ txn' \in [Store -> Txn]
         /\ \A u \in Store : txn'[u].row = txn[u].row
<1> DEFINE T == sessions[rid[s]].txn
           S == (CommittedOpen(T) \cup txn[T].added) \ sessions[rid[s]].touched
<1>a. TypeOK /\ SessionInv
  BY DEF TypeInv
<1>1. CASE Ongoing(rid[s])
  <2>1. Handed(T)
    BY <1>a, <1>1 DEF SessionInv, Ongoing
  <2>2. T \in Store
    BY <2>1 DEF Handed
  <2>3. \A t \in Store : Handed(t) =>
           CommittedOpen(t) \in SUBSET Bug /\ txn[t].added \in SUBSET Bug
    BY <1>a, SMTT(20)
    DEF TypeOK, IsMap, CommittedOpen, Run, Txn, Handed, Db, Call
  <2>4. S \in SUBSET Bug
    BY <2>1, <2>2, <2>3
  <2>5. txn' = [txn EXCEPT ![T].gone = S]
    BY <1>1 DEF EndRunSession
  <2>6. \A t \in Store, R \in SUBSET Bug :
           /\ [txn EXCEPT ![t].gone = R] \in [Store -> Txn]
           /\ \A u \in Store : [txn EXCEPT ![t].gone = R][u].row = txn[u].row
    BY <1>a, GoneFacts DEF TypeOK
  <2> HIDE DEF T, S
  <2> QED
    BY <2>2, <2>4, <2>5, <2>6
<1>2. CASE ~Ongoing(rid[s])
  BY <1>a, <1>2 DEF EndRunSession, TypeOK
<1> QED
  BY <1>1, <1>2

RunsOK == /\ runs = [p \in Product |-> runs[p]]
          /\ \A p \in Product : IsMap(runs[p], Run)
DataOK == /\ rid \in [Store -> Nat \cup {None}]
          /\ item \in [Store -> Bug \cup {None}]
          /\ left \in [Store -> SUBSET Bug]

(* Every step keeps the types and the control facts.                       *)
LEMMA TypeStep == TypeInv /\ [Next]_vars => TypeInv'
<1> SUFFICES ASSUME TypeInv, [Next]_vars PROVE TypeInv'
  OBVIOUS
<1>a. TypeOK /\ ControlInv /\ SessionInv
  BY DEF TypeInv
<1>1. ASSUME NEW s \in Store, Receive(s) PROVE TypeInv'
  <2>1. TypeOK'
    BY <1>a, <1>1, MassStoreAssumption, FS_CardinalityType, SMTT(20)
    DEF Receive, Goto, Fail, Ack, Ongoing, Put, Drop, Begun, callVars, dbVars,
        counts, Rollback, Running, Empty, Asleep, TypeOK, IsMap, PC, InSession,
        Final, Txn, Session, Call, Run, TimerThread, Db, Visible, RunAfter,
        FinishedIn, OpenAfter, CommittedOpen, Named, ControlInv, SessionInv,
        Handed
  <2>2. ControlInv'
    BY <1>a, <1>1, SMTT(20)
    DEF ControlInv, Receive, SessionInv, Goto, Fail, Ack, Ongoing, Put, Drop,
        Begun, callVars, dbVars, counts, Rollback, Running, Empty, Asleep,
        Handed, InSession, Final, PC, TypeOK
  <2>3. SessionInv'
    BY <1>a, <1>1, FS_AddElement, FS_RemoveElement, FS_EmptySet, SMTT(20)
    DEF SessionInv, ControlInv, Receive, Goto, Fail, Ack, Ongoing, Put, Drop,
        Begun, callVars, dbVars, counts, Rollback, Running, Empty, Asleep,
        Handed, InSession, Final, PC, TypeOK
  <2> QED
    BY <2>1, <2>2, <2>3 DEF TypeInv
<1>2. ASSUME NEW s \in Store, Lookup(s) PROVE TypeInv'
  <2>a. \A id \in Named(Db(s), call[s].name) : id \in Nat
    BY <1>a, <1>2 DEF Named, Lookup, ControlInv, Call, TypeOK, IsMap, Db
  <2>b. /\ rid' \in [Store -> Nat \cup {None}]
        /\ \A u \in Store \ {s} : rid'[u] = rid[u] /\ pc'[u] = pc[u]
        /\ pc' \in [Store -> PC]
        /\ pc'[s] \in {"insert", "rejected", "update"}
        /\ pc'[s] = "update" => rid'[s] \in Nat
    BY <1>a, <1>2, <2>a, SMTT(20) DEF Lookup, TypeOK, Goto, PC, Final
  <2>1. TypeOK'
    <3>1. IsMap(sessions', Session)
      BY <1>a, <2>a, <2>b, <1>2, SMTT(20)
      DEF Lookup, callVars, dbVars, counts, TypeOK
    <3>2. txn' \in [Store -> Txn]
      BY <1>a, <2>a, <2>b, <1>2, TxnFacts, SMTT(20)
      DEF Lookup, TypeOK, Rollback, callVars, dbVars, counts, Handed
    <3>3. RunsOK'
      BY <1>a, <2>a, <2>b, <1>2
      DEF RunsOK, Lookup, TypeOK, callVars, dbVars, counts, IsMap
    <3>4. pc' \in [Store -> PC]
      BY <1>a, <2>a, <2>b, <1>2, SMTT(20)
      DEF Lookup, Goto, Ack, Fail, callVars, dbVars, counts, TypeOK, PC,
          InSession, Final
    <3>5. DataOK'
      BY <1>a, <2>a, <2>b, <1>2, SMTT(20)
      DEF DataOK, Lookup, callVars, dbVars, counts, TypeOK
    <3>8. local' \in [Store -> Store \cup {None}]
      BY <1>a, <2>a, <2>b, <1>2, SMTT(20)
      DEF Lookup, Ack, Fail, callVars, dbVars, counts, TypeOK, Handed
    <3>6. timer' \in TimerThread
      BY <1>a, <2>a, <2>b, <1>2, SMTT(20)
      DEF Lookup, callVars, dbVars, counts, TypeOK, TimerThread
    <3>7. nextId' \in [Product -> Nat]
      BY <1>a, <2>a, <2>b, <1>2, SMTT(20)
      DEF Lookup, callVars, dbVars, counts, TypeOK
    <3> QED
      BY <1>a, <1>2, <3>1, <3>2, <3>3, <3>4, <3>5, <3>6, <3>7, <3>8, SMTT(20)
      DEF RunsOK, DataOK, Lookup, callVars, dbVars, counts, TypeOK
  <2>2. ControlInv'
    BY <1>a, <2>a, <2>b, <1>2, SMTT(20)
    DEF ControlInv, Lookup, Goto, Ack, Fail, callVars, dbVars, counts, Handed,
        InSession, Final, PC, TypeOK
  <2>3. SessionInv'
    BY <1>a, <2>a, <2>b, <1>2, SMTT(20)
    DEF SessionInv, Lookup, Goto, Ack, Fail, callVars, dbVars, counts, Handed,
        InSession, Final, PC, TypeOK
  <2> QED
    BY <2>1, <2>2, <2>3 DEF TypeInv
<1>3. ASSUME NEW s \in Store, UpdateRun(s) PROVE TypeInv'
  <2>a. txn' \in [Store -> Txn]
    BY <1>a, <1>3, TxnFacts, SMTT(20) DEF UpdateRun, TypeOK
  <2>1. TypeOK'
    <3>1. IsMap(sessions', Session)
      BY <1>a, <2>a, <1>3, SMTT(20)
      DEF UpdateRun, callVars, dbVars, counts, TypeOK
    <3>2. txn' \in [Store -> Txn]
      BY <1>a, <2>a, <1>3, TxnFacts, SMTT(20)
      DEF UpdateRun, TypeOK, Rollback, callVars, dbVars, counts, Handed
    <3>3. RunsOK'
      BY <1>a, <2>a, <1>3 DEF RunsOK, UpdateRun, TypeOK, callVars, dbVars, counts, IsMap
    <3>4. pc' \in [Store -> PC]
      BY <1>a, <2>a, <1>3, SMTT(20)
      DEF UpdateRun, Goto, Ack, Fail, callVars, dbVars, counts, TypeOK, PC,
          InSession, Final
    <3>5. DataOK'
      BY <1>a, <2>a, <1>3, SMTT(20)
      DEF DataOK, UpdateRun, callVars, dbVars, counts, TypeOK
    <3>8. local' \in [Store -> Store \cup {None}]
      BY <1>a, <2>a, <1>3, SMTT(20)
      DEF UpdateRun, Ack, Fail, callVars, dbVars, counts, TypeOK, Handed
    <3>6. timer' \in TimerThread
      BY <1>a, <2>a, <1>3, SMTT(20)
      DEF UpdateRun, callVars, dbVars, counts, TypeOK, TimerThread
    <3>7. nextId' \in [Product -> Nat]
      BY <1>a, <2>a, <1>3, SMTT(20)
      DEF UpdateRun, callVars, dbVars, counts, TypeOK
    <3> QED
      BY <1>a, <1>3, <3>1, <3>2, <3>3, <3>4, <3>5, <3>6, <3>7, <3>8, SMTT(20)
      DEF RunsOK, DataOK, UpdateRun, callVars, dbVars, counts, TypeOK
  <2>2. ControlInv'
    BY <1>a, <2>a, <1>3, SMTT(20)
    DEF ControlInv, UpdateRun, Goto, Ack, Fail, callVars, dbVars, counts,
        Handed, InSession, Final, PC, TypeOK
  <2>3. SessionInv'
    BY <1>a, <2>a, <1>3, SMTT(20)
    DEF SessionInv, UpdateRun, Goto, Ack, Fail, callVars, dbVars, counts,
        Handed, InSession, Final, PC, TypeOK
  <2> QED
    BY <2>1, <2>2, <2>3 DEF TypeInv
<1>4. ASSUME NEW s \in Store, InsertRun(s) PROVE TypeInv'
  <2>a. txn' \in [Store -> Txn]
    BY <1>a, <1>4, TxnFacts, SMTT(20) DEF InsertRun, TypeOK
  <2>b. Db(s) \in Product /\ nextId[Db(s)] \in Nat /\ nextId[Db(s)] + 1 \in Nat
    BY <1>a, <1>4, <2>a DEF InsertRun, ControlInv, TypeOK, Call, Db
  <2>c. nextId' \in [Product -> Nat]
    BY <1>a, <1>4, <2>a, <2>b, SMTT(20) DEF InsertRun, TypeOK
  <2>1. TypeOK'
    <3>1. IsMap(sessions', Session)
      BY <1>a, <2>a, <2>b, <2>c, <1>4, SMTT(20)
      DEF InsertRun, callVars, dbVars, counts, TypeOK
    <3>2. txn' \in [Store -> Txn]
      BY <1>a, <2>a, <2>b, <2>c, <1>4, TxnFacts, SMTT(20)
      DEF InsertRun, TypeOK, Rollback, callVars, dbVars, counts, Handed
    <3>3. RunsOK'
      BY <1>a, <2>a, <2>b, <2>c, <1>4
      DEF RunsOK, InsertRun, TypeOK, callVars, dbVars, counts, IsMap
    <3>4. pc' \in [Store -> PC]
      BY <1>a, <2>a, <2>b, <2>c, <1>4, SMTT(20)
      DEF InsertRun, Goto, Ack, Fail, callVars, dbVars, counts, TypeOK, PC,
          InSession, Final
    <3>5. DataOK'
      BY <1>a, <2>a, <2>b, <2>c, <1>4, SMTT(20)
      DEF DataOK, InsertRun, callVars, dbVars, counts, TypeOK
    <3>8. local' \in [Store -> Store \cup {None}]
      BY <1>a, <2>a, <2>b, <2>c, <1>4, SMTT(20)
      DEF InsertRun, Ack, Fail, callVars, dbVars, counts, TypeOK, Handed
    <3>6. timer' \in TimerThread
      BY <1>a, <2>a, <2>b, <2>c, <1>4, SMTT(20)
      DEF InsertRun, callVars, dbVars, counts, TypeOK, TimerThread
    <3>7. nextId' \in [Product -> Nat]
      BY <1>a, <2>a, <2>b, <2>c, <1>4, SMTT(20)
      DEF InsertRun, callVars, dbVars, counts, TypeOK
    <3> QED
      BY <1>a, <1>4, <3>1, <3>2, <3>3, <3>4, <3>5, <3>6, <3>7, <3>8, SMTT(20)
      DEF RunsOK, DataOK, InsertRun, callVars, dbVars, counts, TypeOK
  <2>2. ControlInv'
    BY <1>a, <2>a, <2>b, <2>c, <1>4, SMTT(20)
    DEF ControlInv, InsertRun, Goto, Ack, Fail, callVars, dbVars, counts,
        Handed, InSession, Final, PC, TypeOK
  <2>3. SessionInv'
    BY <1>a, <2>a, <2>b, <2>c, <1>4, SMTT(20)
    DEF SessionInv, InsertRun, Goto, Ack, Fail, callVars, dbVars, counts,
        Handed, InSession, Final, PC, TypeOK
  <2> QED
    BY <2>1, <2>2, <2>3 DEF TypeInv
<1>5. ASSUME NEW s \in Store, StartRunSession(s) PROVE TypeInv'
  <2>1. TypeOK'
    BY <1>a, <1>5, MassStoreAssumption, FS_CardinalityType, SMTT(20)
    DEF StartRunSession, Goto, Fail, Ack, Ongoing, Put, Drop, Begun, callVars,
        dbVars, counts, Rollback, Running, Empty, Asleep, TypeOK, IsMap, PC,
        InSession, Final, Txn, Session, Call, Run, TimerThread, Db, Visible,
        RunAfter, FinishedIn, OpenAfter, CommittedOpen, Named, ControlInv,
        SessionInv, Handed
  <2>2. ControlInv'
    BY <1>a, <1>5, SMTT(20)
    DEF ControlInv, StartRunSession, SessionInv, Goto, Fail, Ack, Ongoing, Put,
        Drop, Begun, callVars, dbVars, counts, Rollback, Running, Empty,
        Asleep, Handed, InSession, Final, PC, TypeOK
  <2>3. SessionInv'
    BY <1>a, <1>5, FS_AddElement, FS_RemoveElement, FS_EmptySet, SMTT(20)
    DEF SessionInv, ControlInv, StartRunSession, Goto, Fail, Ack, Ongoing, Put,
        Drop, Begun, callVars, dbVars, counts, Rollback, Running, Empty,
        Asleep, Handed, InSession, Final, PC, TypeOK
  <2> QED
    BY <2>1, <2>2, <2>3 DEF TypeInv
<1>6. ASSUME NEW s \in Store, GetTransaction(s) PROVE TypeInv'
  <2>a. /\ IsMap(sessions', Session)
        /\ DOMAIN sessions' = DOMAIN sessions
        /\ \A k \in DOMAIN sessions : sessions'[k].txn = sessions[k].txn
    BY <1>a, <1>6, RefreshFacts, SMTT(20) DEF GetTransaction, TypeOK, Ongoing
  <2>1. TypeOK'
    <3>1. IsMap(sessions', Session)
      BY <1>a, <2>a, <1>6, SMTT(20)
      DEF GetTransaction, callVars, dbVars, counts, TypeOK
    <3>2. txn' \in [Store -> Txn]
      BY <1>a, <2>a, <1>6, TxnFacts, SMTT(20)
      DEF GetTransaction, TypeOK, Rollback, callVars, dbVars, counts, Handed
    <3>3. RunsOK'
      BY <1>a, <2>a, <1>6
      DEF RunsOK, GetTransaction, TypeOK, callVars, dbVars, counts, IsMap
    <3>4. pc' \in [Store -> PC]
      BY <1>a, <2>a, <1>6, SMTT(20)
      DEF GetTransaction, Goto, Ack, Fail, callVars, dbVars, counts, TypeOK,
          PC, InSession, Final
    <3>5. DataOK'
      BY <1>a, <2>a, <1>6, SMTT(20)
      DEF DataOK, GetTransaction, callVars, dbVars, counts, TypeOK
    <3>8. local' \in [Store -> Store \cup {None}]
      BY <1>a, <2>a, <1>6, SMTT(20)
      DEF GetTransaction, Ack, Fail, callVars, dbVars, counts, TypeOK, Handed
    <3>6. timer' \in TimerThread
      BY <1>a, <2>a, <1>6, SMTT(20)
      DEF GetTransaction, callVars, dbVars, counts, TypeOK, TimerThread
    <3>7. nextId' \in [Product -> Nat]
      BY <1>a, <2>a, <1>6, SMTT(20)
      DEF GetTransaction, callVars, dbVars, counts, TypeOK
    <3> QED
      BY <1>a, <1>6, <3>1, <3>2, <3>3, <3>4, <3>5, <3>6, <3>7, <3>8, SMTT(20)
      DEF RunsOK, DataOK, GetTransaction, callVars, dbVars, counts, TypeOK
  <2>2. ControlInv'
    BY <1>a, <2>a, <1>6, SMTT(20)
    DEF ControlInv, GetTransaction, Goto, Ack, Fail, callVars, dbVars, counts,
        Handed, InSession, Final, PC, TypeOK
  <2>3. SessionInv'
    BY <1>a, <2>a, <1>6, SMTT(20)
    DEF SessionInv, GetTransaction, Goto, Ack, Fail, callVars, dbVars, counts,
        Handed, InSession, Final, PC, TypeOK
  <2> QED
    BY <2>1, <2>2, <2>3 DEF TypeInv
<1>7. ASSUME NEW s \in Store, AddReport(s) PROVE TypeInv'
  <2>a. /\ IsMap(sessions', Session)
        /\ DOMAIN sessions' = DOMAIN sessions
        /\ \A k \in DOMAIN sessions : sessions'[k].txn = sessions[k].txn
    BY <1>a, <1>7, RefreshFacts, SMTT(20) DEF AddReport, TypeOK, Ongoing
  <2>b. \A u \in Store : Handed(u) => Handed(u)'
    BY <1>a, <1>7, <2>a
    DEF AddReport, Handed, Goto, Ack, Fail, InSession, TypeOK
  <2>c. Ongoing(rid[s]) => Handed(sessions[rid[s]].txn)
    BY <1>a, <1>7, <2>a, <2>b DEF SessionInv, Ongoing
  <2>1. TypeOK'
    <3>1. IsMap(sessions', Session)
      BY <1>a, <2>a, <2>b, <2>c, <1>7, SMTT(20)
      DEF AddReport, callVars, dbVars, counts, TypeOK
    <3>2. txn' \in [Store -> Txn]
      BY <1>a, <2>a, <2>b, <2>c, <1>7, TxnFacts, SMTT(20)
      DEF AddReport, TypeOK, Rollback, callVars, dbVars, counts, Handed
    <3>3. RunsOK'
      BY <1>a, <2>a, <2>b, <2>c, <1>7
      DEF RunsOK, AddReport, TypeOK, callVars, dbVars, counts, IsMap
    <3>4. pc' \in [Store -> PC]
      BY <1>a, <2>a, <2>b, <2>c, <1>7, SMTT(20)
      DEF AddReport, Goto, Ack, Fail, callVars, dbVars, counts, TypeOK, PC,
          InSession, Final
    <3>5. DataOK'
      BY <1>a, <2>a, <2>b, <2>c, <1>7, SMTT(20)
      DEF DataOK, AddReport, callVars, dbVars, counts, TypeOK
    <3>8. local' \in [Store -> Store \cup {None}]
      BY <1>a, <2>a, <2>b, <2>c, <1>7, SMTT(20)
      DEF AddReport, Ack, Fail, callVars, dbVars, counts, TypeOK, Handed
    <3>6. timer' \in TimerThread
      BY <1>a, <2>a, <2>b, <2>c, <1>7, SMTT(20)
      DEF AddReport, callVars, dbVars, counts, TypeOK, TimerThread
    <3>7. nextId' \in [Product -> Nat]
      BY <1>a, <2>a, <2>b, <2>c, <1>7, SMTT(20)
      DEF AddReport, callVars, dbVars, counts, TypeOK
    <3> QED
      BY <1>a, <1>7, <3>1, <3>2, <3>3, <3>4, <3>5, <3>6, <3>7, <3>8, SMTT(20)
      DEF RunsOK, DataOK, AddReport, callVars, dbVars, counts, TypeOK
  <2>2. ControlInv'
    <3>0. \/ pc'[s] \in {"failed", "acked"} /\ local'[s] = None
          \/ /\ Ongoing(rid[s])
             /\ pc'[s] \in {"write", "mark", "commit"}
             /\ local'[s] = sessions[rid[s]].txn
             /\ pc'[s] = "write" => item'[s] \in Bug
      BY <1>a, <1>7, SMTT(20) DEF AddReport, Goto, Ack, Fail, TypeOK
    <3>3. \A u \in Store \ {s} :
           pc'[u] = pc[u] /\ local'[u] = local[u] /\ item'[u] = item[u]
      BY <1>a, <1>7 DEF AddReport, Goto, Ack, Fail, TypeOK
    <3>1. (\A u \in Store : local[u] # None => Handed(local[u]))'
      <4>1. \A u \in Store : local'[u] # None => Handed(local'[u])
        BY <1>a, <2>a, <2>b, <2>c, <3>0, <3>3 DEF ControlInv
      <4>2. \A u : Handed(u) => u \in Store
        BY DEF Handed
      <4>3. SUFFICES ASSUME NEW u \in Store, local'[u] # None
                     PROVE  (Handed(local[u]))'
        OBVIOUS
      <4>4. PICK v \in Store : v = local'[u] /\ Handed(v)
        BY <4>1, <4>2, <4>3
      <4> QED
        BY <4>4, <1>a, <2>a, <2>b, <2>c, Zenon DEF Handed
    <3>2. pc[s] # "idle" /\ rid[s] \in Nat /\ UNCHANGED <<call, rid>>
      BY <1>a, <1>7 DEF ControlInv, AddReport, InSession
    <3>4. \/ pc'[s] \in {"failed", "acked"}
          \/ /\ pc'[s] \in {"write", "mark", "commit"}
             /\ local'[s] # None
             /\ pc'[s] = "write" => item'[s] \in Bug
      BY <2>a, <2>b, <2>c, <3>0, MassStoreAssumption DEF Handed
    <3> QED
      BY <1>a, <3>1, <3>2, <3>3, <3>4
      DEF ControlInv, InSession, callVars, dbVars, counts
  <2>3. SessionInv'
    BY <1>a, <2>a, <2>b, <2>c, <1>7, SMTT(20)
    DEF SessionInv, AddReport, Goto, Ack, Fail, callVars, dbVars, counts,
        Handed, InSession, Final, PC, TypeOK
  <2> QED
    BY <2>1, <2>2, <2>3 DEF TypeInv
<1>8. ASSUME NEW s \in Store, WriteReport(s) PROVE TypeInv'
  <2>a. Handed(local[s]) /\ item[s] \in Bug
    BY <1>a, <1>8 DEF ControlInv, WriteReport
  <2>b. txn' \in [Store -> Txn]
    BY <1>a, <1>8, <2>a, AddedFacts, SMTT(20) DEF WriteReport, TypeOK, Handed
  <2>1. TypeOK'
    <3>1. IsMap(sessions', Session)
      BY <1>a, <2>a, <2>b, <1>8, SMTT(20)
      DEF WriteReport, callVars, dbVars, counts, TypeOK
    <3>2. txn' \in [Store -> Txn]
      BY <1>a, <2>a, <2>b, <1>8, TxnFacts, SMTT(20)
      DEF WriteReport, TypeOK, Rollback, callVars, dbVars, counts, Handed
    <3>3. RunsOK'
      BY <1>a, <2>a, <2>b, <1>8
      DEF RunsOK, WriteReport, TypeOK, callVars, dbVars, counts, IsMap
    <3>4. pc' \in [Store -> PC]
      BY <1>a, <2>a, <2>b, <1>8, SMTT(20)
      DEF WriteReport, Goto, Ack, Fail, callVars, dbVars, counts, TypeOK, PC,
          InSession, Final
    <3>5. DataOK'
      BY <1>a, <2>a, <2>b, <1>8, SMTT(20)
      DEF DataOK, WriteReport, callVars, dbVars, counts, TypeOK
    <3>8. local' \in [Store -> Store \cup {None}]
      BY <1>a, <2>a, <2>b, <1>8, SMTT(20)
      DEF WriteReport, Ack, Fail, callVars, dbVars, counts, TypeOK, Handed
    <3>6. timer' \in TimerThread
      BY <1>a, <2>a, <2>b, <1>8, SMTT(20)
      DEF WriteReport, callVars, dbVars, counts, TypeOK, TimerThread
    <3>7. nextId' \in [Product -> Nat]
      BY <1>a, <2>a, <2>b, <1>8, SMTT(20)
      DEF WriteReport, callVars, dbVars, counts, TypeOK
    <3> QED
      BY <1>a, <1>8, <3>1, <3>2, <3>3, <3>4, <3>5, <3>6, <3>7, <3>8, SMTT(20)
      DEF RunsOK, DataOK, WriteReport, callVars, dbVars, counts, TypeOK
  <2>2. ControlInv'
    BY <1>a, <2>a, <2>b, <1>8, SMTT(20)
    DEF ControlInv, WriteReport, Goto, Ack, Fail, callVars, dbVars, counts,
        Handed, InSession, Final, PC, TypeOK
  <2>3. SessionInv'
    BY <1>a, <2>a, <2>b, <1>8, SMTT(20)
    DEF SessionInv, WriteReport, Goto, Ack, Fail, callVars, dbVars, counts,
        Handed, InSession, Final, PC, TypeOK
  <2> QED
    BY <2>1, <2>2, <2>3 DEF TypeInv
<1>9. ASSUME NEW s \in Store, TouchReport(s) PROVE TypeInv'
  <2>a. item[s] \in Bug
    BY <1>a, <1>9 DEF ControlInv, TouchReport
  <2>b. /\ IsMap(sessions', Session)
        /\ DOMAIN sessions' = DOMAIN sessions
        /\ \A k \in DOMAIN sessions : sessions'[k].txn = sessions[k].txn
    BY <1>a, <1>9, <2>a, TouchFacts, SMTT(20) DEF TouchReport, TypeOK, Ongoing
  <2>1. TypeOK'
    <3>1. IsMap(sessions', Session)
      BY <1>a, <2>a, <2>b, <1>9, SMTT(20)
      DEF TouchReport, callVars, dbVars, counts, TypeOK
    <3>2. txn' \in [Store -> Txn]
      BY <1>a, <2>a, <2>b, <1>9, TxnFacts, SMTT(20)
      DEF TouchReport, TypeOK, Rollback, callVars, dbVars, counts, Handed
    <3>3. RunsOK'
      BY <1>a, <2>a, <2>b, <1>9
      DEF RunsOK, TouchReport, TypeOK, callVars, dbVars, counts, IsMap
    <3>4. pc' \in [Store -> PC]
      BY <1>a, <2>a, <2>b, <1>9, SMTT(20)
      DEF TouchReport, Goto, Ack, Fail, callVars, dbVars, counts, TypeOK, PC,
          InSession, Final
    <3>5. DataOK'
      BY <1>a, <2>a, <2>b, <1>9, SMTT(20)
      DEF DataOK, TouchReport, callVars, dbVars, counts, TypeOK
    <3>8. local' \in [Store -> Store \cup {None}]
      BY <1>a, <2>a, <2>b, <1>9, SMTT(20)
      DEF TouchReport, Ack, Fail, callVars, dbVars, counts, TypeOK, Handed
    <3>6. timer' \in TimerThread
      BY <1>a, <2>a, <2>b, <1>9, SMTT(20)
      DEF TouchReport, callVars, dbVars, counts, TypeOK, TimerThread
    <3>7. nextId' \in [Product -> Nat]
      BY <1>a, <2>a, <2>b, <1>9, SMTT(20)
      DEF TouchReport, callVars, dbVars, counts, TypeOK
    <3> QED
      BY <1>a, <1>9, <3>1, <3>2, <3>3, <3>4, <3>5, <3>6, <3>7, <3>8, SMTT(20)
      DEF RunsOK, DataOK, TouchReport, callVars, dbVars, counts, TypeOK
  <2>2. ControlInv'
    BY <1>a, <2>a, <2>b, <1>9, SMTT(20)
    DEF ControlInv, TouchReport, Goto, Ack, Fail, callVars, dbVars, counts,
        Handed, InSession, Final, PC, TypeOK
  <2>3. SessionInv'
    BY <1>a, <2>a, <2>b, <1>9, SMTT(20)
    DEF SessionInv, TouchReport, Goto, Ack, Fail, callVars, dbVars, counts,
        Handed, InSession, Final, PC, TypeOK
  <2> QED
    BY <2>1, <2>2, <2>3 DEF TypeInv
<1>10. ASSUME NEW s \in Store, RaiseInStore(s) PROVE TypeInv'
  <2>1. TypeOK'
    BY <1>a, <1>10, MassStoreAssumption, FS_CardinalityType, SMTT(20)
    DEF RaiseInStore, Goto, Fail, Ack, Ongoing, Put, Drop, Begun, callVars,
        dbVars, counts, Rollback, Running, Empty, Asleep, TypeOK, IsMap, PC,
        InSession, Final, Txn, Session, Call, Run, TimerThread, Db, Visible,
        RunAfter, FinishedIn, OpenAfter, CommittedOpen, Named, ControlInv,
        SessionInv, Handed
  <2>2. ControlInv'
    BY <1>a, <1>10, SMTT(20)
    DEF ControlInv, RaiseInStore, SessionInv, Goto, Fail, Ack, Ongoing, Put,
        Drop, Begun, callVars, dbVars, counts, Rollback, Running, Empty,
        Asleep, Handed, InSession, Final, PC, TypeOK
  <2>3. SessionInv'
    BY <1>a, <1>10, FS_AddElement, FS_RemoveElement, FS_EmptySet, SMTT(20)
    DEF SessionInv, ControlInv, RaiseInStore, Goto, Fail, Ack, Ongoing, Put,
        Drop, Begun, callVars, dbVars, counts, Rollback, Running, Empty,
        Asleep, Handed, InSession, Final, PC, TypeOK
  <2> QED
    BY <2>1, <2>2, <2>3 DEF TypeInv
<1>11. ASSUME NEW s \in Store, SetRunDuration(s) PROVE TypeInv'
  <2>a. /\ IsMap(sessions', Session)
        /\ DOMAIN sessions' = DOMAIN sessions
        /\ \A k \in DOMAIN sessions : sessions'[k].txn = sessions[k].txn
    BY <1>a, <1>11, RefreshFacts, SMTT(20) DEF SetRunDuration, TypeOK, Ongoing
  <2>b. Ongoing(rid[s]) => Handed(sessions[rid[s]].txn)
    BY <1>a, <1>11, <2>a DEF SessionInv, Ongoing
  <2>c. txn' \in [Store -> Txn]
    BY <1>a, <1>11, <2>a, <2>b, DurationFacts, SMTT(20)
    DEF SetRunDuration, TypeOK, Handed
  <2>1. TypeOK'
    <3>1. IsMap(sessions', Session)
      BY <1>a, <2>a, <2>b, <2>c, <1>11, SMTT(20)
      DEF SetRunDuration, callVars, dbVars, counts, TypeOK
    <3>2. txn' \in [Store -> Txn]
      BY <1>a, <2>a, <2>b, <2>c, <1>11, TxnFacts, SMTT(20)
      DEF SetRunDuration, TypeOK, Rollback, callVars, dbVars, counts, Handed
    <3>3. RunsOK'
      BY <1>a, <2>a, <2>b, <2>c, <1>11
      DEF RunsOK, SetRunDuration, TypeOK, callVars, dbVars, counts, IsMap
    <3>4. pc' \in [Store -> PC]
      BY <1>a, <2>a, <2>b, <2>c, <1>11, SMTT(20)
      DEF SetRunDuration, Goto, Ack, Fail, callVars, dbVars, counts, TypeOK,
          PC, InSession, Final
    <3>5. DataOK'
      BY <1>a, <2>a, <2>b, <2>c, <1>11, SMTT(20)
      DEF DataOK, SetRunDuration, callVars, dbVars, counts, TypeOK
    <3>8. local' \in [Store -> Store \cup {None}]
      BY <1>a, <2>a, <2>b, <2>c, <1>11, SMTT(20)
      DEF SetRunDuration, Ack, Fail, callVars, dbVars, counts, TypeOK, Handed
    <3>6. timer' \in TimerThread
      BY <1>a, <2>a, <2>b, <2>c, <1>11, SMTT(20)
      DEF SetRunDuration, callVars, dbVars, counts, TypeOK, TimerThread
    <3>7. nextId' \in [Product -> Nat]
      BY <1>a, <2>a, <2>b, <2>c, <1>11, SMTT(20)
      DEF SetRunDuration, callVars, dbVars, counts, TypeOK
    <3> QED
      BY <1>a, <1>11, <3>1, <3>2, <3>3, <3>4, <3>5, <3>6, <3>7, <3>8, SMTT(20)
      DEF RunsOK, DataOK, SetRunDuration, callVars, dbVars, counts, TypeOK
  <2>2. ControlInv'
    BY <1>a, <2>a, <2>b, <2>c, <1>11, SMTT(20)
    DEF ControlInv, SetRunDuration, Goto, Ack, Fail, callVars, dbVars, counts,
        Handed, InSession, Final, PC, TypeOK
  <2>3. SessionInv'
    BY <1>a, <2>a, <2>b, <2>c, <1>11, SMTT(20)
    DEF SessionInv, SetRunDuration, Goto, Ack, Fail, callVars, dbVars, counts,
        Handed, InSession, Final, PC, TypeOK
  <2> QED
    BY <2>1, <2>2, <2>3 DEF TypeInv
<1>12. ASSUME NEW s \in Store, FinishCheckerRun(s) PROVE TypeInv'
  <2>a. /\ IsMap(sessions', Session)
        /\ DOMAIN sessions' = DOMAIN sessions
        /\ \A k \in DOMAIN sessions : sessions'[k].txn = sessions[k].txn
    BY <1>a, <1>12, RefreshFacts, SMTT(20) DEF FinishCheckerRun, TypeOK, Ongoing
  <2>b. \A u \in Store : Handed(u) => Handed(u)'
    BY <1>a, <1>12, <2>a
    DEF FinishCheckerRun, Handed, Goto, Ack, Fail, InSession, TypeOK
  <2>c. Ongoing(rid[s]) => Handed(sessions[rid[s]].txn)
    BY <1>a, <1>12, <2>a, <2>b DEF SessionInv, Ongoing
  <2>1. TypeOK'
    <3>1. IsMap(sessions', Session)
      BY <1>a, <2>a, <2>b, <2>c, <1>12, SMTT(20)
      DEF FinishCheckerRun, callVars, dbVars, counts, TypeOK
    <3>2. txn' \in [Store -> Txn]
      BY <1>a, <2>a, <2>b, <2>c, <1>12, TxnFacts, SMTT(20)
      DEF FinishCheckerRun, TypeOK, Rollback, callVars, dbVars, counts, Handed
    <3>3. RunsOK'
      BY <1>a, <2>a, <2>b, <2>c, <1>12
      DEF RunsOK, FinishCheckerRun, TypeOK, callVars, dbVars, counts, IsMap
    <3>4. pc' \in [Store -> PC]
      BY <1>a, <2>a, <2>b, <2>c, <1>12, SMTT(20)
      DEF FinishCheckerRun, Goto, Ack, Fail, callVars, dbVars, counts, TypeOK,
          PC, InSession, Final
    <3>5. DataOK'
      BY <1>a, <2>a, <2>b, <2>c, <1>12, SMTT(20)
      DEF DataOK, FinishCheckerRun, callVars, dbVars, counts, TypeOK
    <3>8. local' \in [Store -> Store \cup {None}]
      BY <1>a, <2>a, <2>b, <2>c, <1>12, SMTT(20)
      DEF FinishCheckerRun, Ack, Fail, callVars, dbVars, counts, TypeOK,
          Handed
    <3>6. timer' \in TimerThread
      BY <1>a, <2>a, <2>b, <2>c, <1>12, SMTT(20)
      DEF FinishCheckerRun, callVars, dbVars, counts, TypeOK, TimerThread
    <3>7. nextId' \in [Product -> Nat]
      BY <1>a, <2>a, <2>b, <2>c, <1>12, SMTT(20)
      DEF FinishCheckerRun, callVars, dbVars, counts, TypeOK
    <3> QED
      BY <1>a, <1>12, <3>1, <3>2, <3>3, <3>4, <3>5, <3>6, <3>7, <3>8, SMTT(20)
      DEF RunsOK, DataOK, FinishCheckerRun, callVars, dbVars, counts, TypeOK
  <2>2. ControlInv'
    <3>0. \/ pc'[s] \in {"failed", "acked"} /\ local'[s] = None
          \/ /\ Ongoing(rid[s])
             /\ pc'[s] \in {"write", "mark", "commit"}
             /\ local'[s] = sessions[rid[s]].txn
             /\ pc'[s] = "write" => item'[s] \in Bug
      BY <1>a, <1>12, SMTT(20) DEF FinishCheckerRun, Goto, Ack, Fail, TypeOK
    <3>3. \A u \in Store \ {s} :
           pc'[u] = pc[u] /\ local'[u] = local[u] /\ item'[u] = item[u]
      BY <1>a, <1>12 DEF FinishCheckerRun, Goto, Ack, Fail, TypeOK
    <3>1. (\A u \in Store : local[u] # None => Handed(local[u]))'
      <4>1. \A u \in Store : local'[u] # None => Handed(local'[u])
        BY <1>a, <2>a, <2>b, <2>c, <3>0, <3>3 DEF ControlInv
      <4>2. \A u : Handed(u) => u \in Store
        BY DEF Handed
      <4>3. SUFFICES ASSUME NEW u \in Store, local'[u] # None
                     PROVE  (Handed(local[u]))'
        OBVIOUS
      <4>4. PICK v \in Store : v = local'[u] /\ Handed(v)
        BY <4>1, <4>2, <4>3
      <4> QED
        BY <4>4, <1>a, <2>a, <2>b, <2>c, Zenon DEF Handed
    <3>2. pc[s] # "idle" /\ rid[s] \in Nat /\ UNCHANGED <<call, rid>>
      BY <1>a, <1>12 DEF ControlInv, FinishCheckerRun, InSession
    <3>4. \/ pc'[s] \in {"failed", "acked"}
          \/ /\ pc'[s] \in {"write", "mark", "commit"}
             /\ local'[s] # None
             /\ pc'[s] = "write" => item'[s] \in Bug
      BY <2>a, <2>b, <2>c, <3>0, MassStoreAssumption DEF Handed
    <3> QED
      BY <1>a, <3>1, <3>2, <3>3, <3>4
      DEF ControlInv, InSession, callVars, dbVars, counts
  <2>3. SessionInv'
    BY <1>a, <2>a, <2>b, <2>c, <1>12, SMTT(20)
    DEF SessionInv, FinishCheckerRun, Goto, Ack, Fail, callVars, dbVars,
        counts, Handed, InSession, Final, PC, TypeOK
  <2> QED
    BY <2>1, <2>2, <2>3 DEF TypeInv
<1>13. ASSUME NEW s \in Store, MarkFinished(s) PROVE TypeInv'
  <2>a. Handed(local[s])
    BY <1>a, <1>13 DEF ControlInv, MarkFinished
  <2>b. txn' \in [Store -> Txn]
    BY <1>a, <1>13, <2>a, DurationFacts, SMTT(20)
    DEF MarkFinished, TypeOK, Handed
  <2>1. TypeOK'
    <3>1. IsMap(sessions', Session)
      BY <1>a, <2>a, <2>b, <1>13, SMTT(20)
      DEF MarkFinished, callVars, dbVars, counts, TypeOK
    <3>2. txn' \in [Store -> Txn]
      BY <1>a, <2>a, <2>b, <1>13, TxnFacts, SMTT(20)
      DEF MarkFinished, TypeOK, Rollback, callVars, dbVars, counts, Handed
    <3>3. RunsOK'
      BY <1>a, <2>a, <2>b, <1>13
      DEF RunsOK, MarkFinished, TypeOK, callVars, dbVars, counts, IsMap
    <3>4. pc' \in [Store -> PC]
      BY <1>a, <2>a, <2>b, <1>13, SMTT(20)
      DEF MarkFinished, Goto, Ack, Fail, callVars, dbVars, counts, TypeOK, PC,
          InSession, Final
    <3>5. DataOK'
      BY <1>a, <2>a, <2>b, <1>13, SMTT(20)
      DEF DataOK, MarkFinished, callVars, dbVars, counts, TypeOK
    <3>8. local' \in [Store -> Store \cup {None}]
      BY <1>a, <2>a, <2>b, <1>13, SMTT(20)
      DEF MarkFinished, Ack, Fail, callVars, dbVars, counts, TypeOK, Handed
    <3>6. timer' \in TimerThread
      BY <1>a, <2>a, <2>b, <1>13, SMTT(20)
      DEF MarkFinished, callVars, dbVars, counts, TypeOK, TimerThread
    <3>7. nextId' \in [Product -> Nat]
      BY <1>a, <2>a, <2>b, <1>13, SMTT(20)
      DEF MarkFinished, callVars, dbVars, counts, TypeOK
    <3> QED
      BY <1>a, <1>13, <3>1, <3>2, <3>3, <3>4, <3>5, <3>6, <3>7, <3>8, SMTT(20)
      DEF RunsOK, DataOK, MarkFinished, callVars, dbVars, counts, TypeOK
  <2>2. ControlInv'
    BY <1>a, <2>a, <2>b, <1>13, SMTT(20)
    DEF ControlInv, MarkFinished, Goto, Ack, Fail, callVars, dbVars, counts,
        Handed, InSession, Final, PC, TypeOK
  <2>3. SessionInv'
    BY <1>a, <2>a, <2>b, <1>13, SMTT(20)
    DEF SessionInv, MarkFinished, Goto, Ack, Fail, callVars, dbVars, counts,
        Handed, InSession, Final, PC, TypeOK
  <2> QED
    BY <2>1, <2>2, <2>3 DEF TypeInv
<1>14. ASSUME NEW s \in Store, AbortSession(s) PROVE TypeInv'
  <2>a. Ongoing(rid[s]) => Handed(sessions[rid[s]].txn)
    BY <1>a, <1>14 DEF SessionInv, Ongoing
  <2>b. txn' \in [Store -> Txn]
    BY <1>a, <1>14, <2>a, TxnFacts, SMTT(20)
    DEF AbortSession, TypeOK, Handed, Rollback
  <2>1. TypeOK'
    <3>1. IsMap(sessions', Session)
      BY <1>a, <2>a, <2>b, <1>14, SMTT(20)
      DEF AbortSession, callVars, dbVars, counts, TypeOK
    <3>2. txn' \in [Store -> Txn]
      BY <1>a, <2>a, <2>b, <1>14, TxnFacts, SMTT(20)
      DEF AbortSession, TypeOK, Rollback, callVars, dbVars, counts, Handed
    <3>3. RunsOK'
      BY <1>a, <2>a, <2>b, <1>14
      DEF RunsOK, AbortSession, TypeOK, callVars, dbVars, counts, IsMap
    <3>4. pc' \in [Store -> PC]
      BY <1>a, <2>a, <2>b, <1>14, SMTT(20)
      DEF AbortSession, Goto, Ack, Fail, callVars, dbVars, counts, TypeOK, PC,
          InSession, Final
    <3>5. DataOK'
      BY <1>a, <2>a, <2>b, <1>14, SMTT(20)
      DEF DataOK, AbortSession, callVars, dbVars, counts, TypeOK
    <3>8. local' \in [Store -> Store \cup {None}]
      BY <1>a, <2>a, <2>b, <1>14, SMTT(20)
      DEF AbortSession, Ack, Fail, callVars, dbVars, counts, TypeOK, Handed
    <3>6. timer' \in TimerThread
      BY <1>a, <2>a, <2>b, <1>14, SMTT(20)
      DEF AbortSession, callVars, dbVars, counts, TypeOK, TimerThread
    <3>7. nextId' \in [Product -> Nat]
      BY <1>a, <2>a, <2>b, <1>14, SMTT(20)
      DEF AbortSession, callVars, dbVars, counts, TypeOK
    <3> QED
      BY <1>a, <1>14, <3>1, <3>2, <3>3, <3>4, <3>5, <3>6, <3>7, <3>8, SMTT(20)
      DEF RunsOK, DataOK, AbortSession, callVars, dbVars, counts, TypeOK
  <2>2. ControlInv'
    BY <1>a, <2>a, <2>b, <1>14, SMTT(20)
    DEF ControlInv, AbortSession, Goto, Ack, Fail, callVars, dbVars, counts,
        Handed, InSession, Final, PC, TypeOK
  <2>3. SessionInv'
    BY <1>a, <2>a, <2>b, <1>14, SMTT(20)
    DEF SessionInv, AbortSession, Goto, Ack, Fail, callVars, dbVars, counts,
        Handed, InSession, Final, PC, TypeOK
  <2> QED
    BY <2>1, <2>2, <2>3 DEF TypeInv
<1>15. ASSUME NEW s \in Store, EndRunSession(s) PROVE TypeInv'
  <2>a. \A u \in Store : Handed(u) => Handed(u)'
    BY <1>a, <1>15 DEF EndRunSession, Handed, Goto, Ack, Fail, InSession, TypeOK
  <2>b. Ongoing(rid[s]) => Handed(sessions[rid[s]].txn)
    BY <1>a, <1>15, <2>a DEF SessionInv, Ongoing
  <2>c. txn' \in [Store -> Txn]
    BY <1>15, EndFacts
  <2>1. TypeOK'
    <3>1. IsMap(sessions', Session)
      BY <1>a, <2>a, <2>b, <2>c, <1>15, SMTT(20)
      DEF EndRunSession, callVars, dbVars, counts, TypeOK
    <3>2. txn' \in [Store -> Txn]
      BY <1>a, <2>a, <2>b, <2>c, <1>15, TxnFacts, SMTT(20)
      DEF EndRunSession, TypeOK, Rollback, callVars, dbVars, counts, Handed
    <3>3. RunsOK'
      BY <1>a, <2>a, <2>b, <2>c, <1>15
      DEF RunsOK, EndRunSession, TypeOK, callVars, dbVars, counts, IsMap
    <3>4. pc' \in [Store -> PC]
      BY <1>a, <2>a, <2>b, <2>c, <1>15, SMTT(20)
      DEF EndRunSession, Goto, Ack, Fail, callVars, dbVars, counts, TypeOK, PC,
          InSession, Final
    <3>5. DataOK'
      BY <1>a, <2>a, <2>b, <2>c, <1>15, SMTT(20)
      DEF DataOK, EndRunSession, callVars, dbVars, counts, TypeOK
    <3>8. local' \in [Store -> Store \cup {None}]
      BY <1>a, <2>a, <2>b, <2>c, <1>15, SMTT(20)
      DEF EndRunSession, Ack, Fail, callVars, dbVars, counts, TypeOK, Handed
    <3>6. timer' \in TimerThread
      BY <1>a, <2>a, <2>b, <2>c, <1>15, SMTT(20)
      DEF EndRunSession, callVars, dbVars, counts, TypeOK, TimerThread
    <3>7. nextId' \in [Product -> Nat]
      BY <1>a, <2>a, <2>b, <2>c, <1>15, SMTT(20)
      DEF EndRunSession, callVars, dbVars, counts, TypeOK
    <3> QED
      BY <1>a, <1>15, <3>1, <3>2, <3>3, <3>4, <3>5, <3>6, <3>7, <3>8, SMTT(20)
      DEF RunsOK, DataOK, EndRunSession, callVars, dbVars, counts, TypeOK
  <2>2. ControlInv'
    <3>0. \/ pc'[s] \in {"failed", "acked"} /\ local'[s] = None
          \/ /\ Ongoing(rid[s])
             /\ pc'[s] \in {"write", "mark", "commit"}
             /\ local'[s] = sessions[rid[s]].txn
             /\ pc'[s] = "write" => item'[s] \in Bug
      BY <1>a, <1>15, SMTT(20) DEF EndRunSession, Goto, Ack, Fail, TypeOK
    <3>3. \A u \in Store \ {s} :
           pc'[u] = pc[u] /\ local'[u] = local[u] /\ item'[u] = item[u]
      BY <1>a, <1>15 DEF EndRunSession, Goto, Ack, Fail, TypeOK
    <3>1. (\A u \in Store : local[u] # None => Handed(local[u]))'
      <4>1. \A u \in Store : local'[u] # None => Handed(local'[u])
        BY <1>a, <2>a, <2>b, <2>c, <3>0, <3>3 DEF ControlInv
      <4>2. \A u : Handed(u) => u \in Store
        BY DEF Handed
      <4>3. SUFFICES ASSUME NEW u \in Store, local'[u] # None
                     PROVE  (Handed(local[u]))'
        OBVIOUS
      <4>4. PICK v \in Store : v = local'[u] /\ Handed(v)
        BY <4>1, <4>2, <4>3
      <4> QED
        BY <4>4, <1>a, <2>a, <2>b, <2>c, Zenon DEF Handed
    <3>2. pc[s] # "idle" /\ rid[s] \in Nat /\ UNCHANGED <<call, rid>>
      BY <1>a, <1>15 DEF ControlInv, EndRunSession, InSession
    <3>4. \/ pc'[s] \in {"failed", "acked"}
          \/ /\ pc'[s] \in {"write", "mark", "commit"}
             /\ local'[s] # None
             /\ pc'[s] = "write" => item'[s] \in Bug
      BY <2>a, <2>b, <2>c, <3>0, MassStoreAssumption DEF Handed
    <3> QED
      BY <1>a, <3>1, <3>2, <3>3, <3>4
      DEF ControlInv, InSession, callVars, dbVars, counts
  <2>3. SessionInv'
    BY <1>a, <2>a, <2>b, <2>c, <1>15, SMTT(20)
    DEF SessionInv, EndRunSession, Goto, Ack, Fail, callVars, dbVars, counts,
        Handed, InSession, Final, PC, TypeOK
  <2> QED
    BY <2>1, <2>2, <2>3 DEF TypeInv
<1>16. ASSUME NEW s \in Store, Commit(s) PROVE TypeInv'
  <2>a. Handed(local[s])
    BY <1>a, <1>16 DEF ControlInv, Commit
  <2>b. Visible(local[s]) => RunAfter(local[s]) \in Run
    BY <1>a, <1>16, <2>a, SMTT(20)
    DEF TypeOK, IsMap, CommittedOpen, Run, Txn, Handed, Db, Call, Visible,
        RunAfter, FinishedIn, OpenAfter
  <2>c. UNCHANGED <<call, left, item, rid, sessions, nextId, timer, counts>>
    BY <1>a, <1>16, <2>a, <2>b DEF Commit
  <2>d. stored' \in [Store -> BOOLEAN]
    BY <1>a, <1>16, <2>a, <2>b, <2>c, Zenon DEF Commit, TypeOK
  <2>e. RunsOK'
    BY <1>a, <1>16, <2>a, <2>b, <2>c, <2>d, SMTT(20)
    DEF RunsOK, Commit, TypeOK, IsMap, Put, Db, Handed, Call
  <2>1. TypeOK'
    <3>1. IsMap(sessions', Session)
      BY <1>a, <2>a, <2>b, <2>c, <2>d, <2>e, <1>16, SMTT(20)
      DEF Commit, callVars, dbVars, counts, TypeOK
    <3>2. txn' \in [Store -> Txn]
      BY <1>a, <2>a, <2>b, <2>c, <2>d, <2>e, <1>16, TxnFacts, SMTT(20)
      DEF Commit, TypeOK, Rollback, callVars, dbVars, counts, Handed
    <3>3. RunsOK'
      BY <1>a, <2>a, <2>b, <2>c, <2>d, <2>e, <1>16
      DEF RunsOK, Commit, TypeOK, callVars, dbVars, counts, IsMap
    <3>4. pc' \in [Store -> PC]
      BY <1>a, <2>a, <2>b, <2>c, <2>d, <2>e, <1>16, SMTT(20)
      DEF Commit, Goto, Ack, Fail, callVars, dbVars, counts, TypeOK, PC,
          InSession, Final
    <3>5. DataOK'
      BY <1>a, <2>a, <2>b, <2>c, <2>d, <2>e, <1>16, SMTT(20)
      DEF DataOK, Commit, callVars, dbVars, counts, TypeOK
    <3>8. local' \in [Store -> Store \cup {None}]
      BY <1>a, <2>a, <2>b, <2>c, <2>d, <2>e, <1>16, SMTT(20)
      DEF Commit, Ack, Fail, callVars, dbVars, counts, TypeOK, Handed
    <3>6. timer' \in TimerThread
      BY <1>a, <2>a, <2>b, <2>c, <2>d, <2>e, <1>16, SMTT(20)
      DEF Commit, callVars, dbVars, counts, TypeOK, TimerThread
    <3>7. nextId' \in [Product -> Nat]
      BY <1>a, <2>a, <2>b, <2>c, <2>d, <2>e, <1>16, SMTT(20)
      DEF Commit, callVars, dbVars, counts, TypeOK
    <3> QED
      BY <1>a, <2>a, <2>b, <2>c, <2>d, <2>e, <3>1, <3>2, <3>3, <3>4, <3>5,
         <3>6, <3>7, <3>8
      DEF RunsOK, DataOK, TypeOK, counts
  <2>2. ControlInv'
    BY <1>a, <2>a, <2>b, <2>c, <2>d, <2>e, <1>16, SMTT(20)
    DEF ControlInv, Commit, Goto, Ack, Fail, callVars, dbVars, counts, Handed,
        InSession, Final, PC, TypeOK
  <2>3. SessionInv'
    BY <1>a, <2>a, <2>b, <2>c, <2>d, <2>e, <1>16, SMTT(20)
    DEF SessionInv, Commit, Goto, Ack, Fail, callVars, dbVars, counts, Handed,
        InSession, Final, PC, TypeOK
  <2> QED
    BY <2>1, <2>2, <2>3 DEF TypeInv
<1>17. ASSUME NEW s \in Store, CommitFails(s) PROVE TypeInv'
  <2>1. TypeOK'
    BY <1>a, <1>17, MassStoreAssumption, FS_CardinalityType, SMTT(20)
    DEF CommitFails, Goto, Fail, Ack, Ongoing, Put, Drop, Begun, callVars,
        dbVars, counts, Rollback, Running, Empty, Asleep, TypeOK, IsMap, PC,
        InSession, Final, Txn, Session, Call, Run, TimerThread, Db, Visible,
        RunAfter, FinishedIn, OpenAfter, CommittedOpen, Named, ControlInv,
        SessionInv, Handed
  <2>2. ControlInv'
    BY <1>a, <1>17, SMTT(20)
    DEF ControlInv, CommitFails, SessionInv, Goto, Fail, Ack, Ongoing, Put,
        Drop, Begun, callVars, dbVars, counts, Rollback, Running, Empty,
        Asleep, Handed, InSession, Final, PC, TypeOK
  <2>3. SessionInv'
    BY <1>a, <1>17, FS_AddElement, FS_RemoveElement, FS_EmptySet, SMTT(20)
    DEF SessionInv, ControlInv, CommitFails, Goto, Fail, Ack, Ongoing, Put,
        Drop, Begun, callVars, dbVars, counts, Rollback, Running, Empty,
        Asleep, Handed, InSession, Final, PC, TypeOK
  <2> QED
    BY <2>1, <2>2, <2>3 DEF TypeInv
<1>18. ASSUME NEW s \in Store, DropSession(s) PROVE TypeInv'
  <2>1. TypeOK'
    BY <1>a, <1>18, MassStoreAssumption, FS_CardinalityType, SMTT(20)
    DEF DropSession, Goto, Fail, Ack, Ongoing, Put, Drop, Begun, callVars,
        dbVars, counts, Rollback, Running, Empty, Asleep, TypeOK, IsMap, PC,
        InSession, Final, Txn, Session, Call, Run, TimerThread, Db, Visible,
        RunAfter, FinishedIn, OpenAfter, CommittedOpen, Named, ControlInv,
        SessionInv, Handed
  <2>2. ControlInv'
    BY <1>a, <1>18, SMTT(20)
    DEF ControlInv, DropSession, SessionInv, Goto, Fail, Ack, Ongoing, Put,
        Drop, Begun, callVars, dbVars, counts, Rollback, Running, Empty,
        Asleep, Handed, InSession, Final, PC, TypeOK
  <2>3. SessionInv'
    BY <1>a, <1>18, FS_AddElement, FS_RemoveElement, FS_EmptySet, SMTT(20)
    DEF SessionInv, ControlInv, DropSession, Goto, Fail, Ack, Ongoing, Put,
        Drop, Begun, callVars, dbVars, counts, Rollback, Running, Empty,
        Asleep, Handed, InSession, Final, PC, TypeOK
  <2> QED
    BY <2>1, <2>2, <2>3 DEF TypeInv
<1>19. ASSUME NEW s \in Store, Collect(s) PROVE TypeInv'
  <2>1. TypeOK'
    BY <1>a, <1>19, MassStoreAssumption, FS_CardinalityType, SMTT(20)
    DEF Collect, Goto, Fail, Ack, Ongoing, Put, Drop, Begun, callVars, dbVars,
        counts, Rollback, Running, Empty, Asleep, TypeOK, IsMap, PC, InSession,
        Final, Txn, Session, Call, Run, TimerThread, Db, Visible, RunAfter,
        FinishedIn, OpenAfter, CommittedOpen, Named, ControlInv, SessionInv,
        Handed
  <2>2. ControlInv'
    BY <1>a, <1>19, SMTT(20)
    DEF ControlInv, Collect, SessionInv, Goto, Fail, Ack, Ongoing, Put, Drop,
        Begun, callVars, dbVars, counts, Rollback, Running, Empty, Asleep,
        Handed, InSession, Final, PC, TypeOK
  <2>3. SessionInv'
    BY <1>a, <1>19, FS_AddElement, FS_RemoveElement, FS_EmptySet, SMTT(20)
    DEF SessionInv, ControlInv, Collect, Goto, Fail, Ack, Ongoing, Put, Drop,
        Begun, callVars, dbVars, counts, Rollback, Running, Empty, Asleep,
        Handed, InSession, Final, PC, TypeOK
  <2> QED
    BY <2>1, <2>2, <2>3 DEF TypeInv
<1>20. ASSUME NEW id \in DOMAIN sessions, GoStale(id) PROVE TypeInv'
  <2>a. /\ IsMap(sessions', Session)
        /\ DOMAIN sessions' = DOMAIN sessions
        /\ \A k \in DOMAIN sessions : sessions'[k].txn = sessions[k].txn
    BY <1>a, <1>20, StaleFacts DEF GoStale, TypeOK
  <2>1. TypeOK'
    <3>1. IsMap(sessions', Session)
      BY <1>a, <2>a, <1>20, SMTT(20)
      DEF GoStale, callVars, dbVars, counts, TypeOK
    <3>2. txn' \in [Store -> Txn]
      BY <1>a, <2>a, <1>20, TxnFacts, SMTT(20)
      DEF GoStale, TypeOK, Rollback, callVars, dbVars, counts, Handed
    <3>3. RunsOK'
      BY <1>a, <2>a, <1>20 DEF RunsOK, GoStale, TypeOK, callVars, dbVars, counts, IsMap
    <3>4. pc' \in [Store -> PC]
      BY <1>a, <2>a, <1>20, SMTT(20)
      DEF GoStale, Goto, Ack, Fail, callVars, dbVars, counts, TypeOK, PC,
          InSession, Final
    <3>5. DataOK'
      BY <1>a, <2>a, <1>20, SMTT(20)
      DEF DataOK, GoStale, callVars, dbVars, counts, TypeOK
    <3>8. local' \in [Store -> Store \cup {None}]
      BY <1>a, <2>a, <1>20, SMTT(20)
      DEF GoStale, Ack, Fail, callVars, dbVars, counts, TypeOK, Handed
    <3>6. timer' \in TimerThread
      BY <1>a, <2>a, <1>20, SMTT(20)
      DEF GoStale, callVars, dbVars, counts, TypeOK, TimerThread
    <3>7. nextId' \in [Product -> Nat]
      BY <1>a, <2>a, <1>20, SMTT(20)
      DEF GoStale, callVars, dbVars, counts, TypeOK
    <3> QED
      BY <1>a, <1>20, <3>1, <3>2, <3>3, <3>4, <3>5, <3>6, <3>7, <3>8, SMTT(20)
      DEF RunsOK, DataOK, GoStale, callVars, dbVars, counts, TypeOK
  <2>2. ControlInv'
    BY <1>a, <2>a, <1>20, SMTT(20)
    DEF ControlInv, GoStale, Goto, Ack, Fail, callVars, dbVars, counts, Handed,
        InSession, Final, PC, TypeOK
  <2>3. SessionInv'
    BY <1>a, <2>a, <1>20, SMTT(20)
    DEF SessionInv, GoStale, Goto, Ack, Fail, callVars, dbVars, counts, Handed,
        InSession, Final, PC, TypeOK
  <2> QED
    BY <2>1, <2>2, <2>3 DEF TypeInv
<1>21. CASE TimerWake
  <2>1. TypeOK'
    BY <1>a, <1>21, MassStoreAssumption, FS_CardinalityType, SMTT(20)
    DEF TimerWake, Goto, Fail, Ack, Ongoing, Put, Drop, Begun, callVars,
        dbVars, counts, Rollback, Running, Empty, Asleep, TypeOK, IsMap, PC,
        InSession, Final, Txn, Session, Call, Run, TimerThread, Db, Visible,
        RunAfter, FinishedIn, OpenAfter, CommittedOpen, Named, ControlInv,
        SessionInv, Handed
  <2>2. ControlInv'
    BY <1>a, <1>21, SMTT(20)
    DEF ControlInv, TimerWake, SessionInv, Goto, Fail, Ack, Ongoing, Put, Drop,
        Begun, callVars, dbVars, counts, Rollback, Running, Empty, Asleep,
        Handed, InSession, Final, PC, TypeOK
  <2>3. SessionInv'
    BY <1>a, <1>21, FS_AddElement, FS_RemoveElement, FS_EmptySet, SMTT(20)
    DEF SessionInv, ControlInv, TimerWake, Goto, Fail, Ack, Ongoing, Put, Drop,
        Begun, callVars, dbVars, counts, Rollback, Running, Empty, Asleep,
        Handed, InSession, Final, PC, TypeOK
  <2> QED
    BY <2>1, <2>2, <2>3 DEF TypeInv
<1>22. CASE TimerNext
  <2>a. timer \in TimerThread /\ DOMAIN sessions \subseteq Nat
    BY <1>a, <1>22 DEF TypeOK, IsMap
  <2>b. \A id \in DOMAIN sessions :
        /\ [timer EXCEPT !.visited = @ \cup {id}] \in TimerThread
        /\ [timer EXCEPT !.state = "abort", !.key = id] \in TimerThread
    BY <1>a, <1>22, <2>a, TimerFacts
  <2>c. [timer EXCEPT !.state = "dead"] \in TimerThread /\ Asleep \in TimerThread
    BY <1>a, <1>22, <2>a, <2>b, TimerFacts, 0 \in Nat, Zenon
  <2>d. timer' \in TimerThread
    BY <1>a, <1>22, <2>a, <2>b, <2>c, Zenon DEF TimerNext
  <2>e. UNCHANGED <<callVars, sessions, dbVars, counts, stored>>
    BY <1>a, <1>22, <2>a, <2>b, <2>c, <2>d DEF TimerNext
  <2>1. TypeOK'
    BY <1>a, <2>d, <2>e DEF TypeOK, IsMap, callVars, dbVars, counts
  <2>2. ControlInv'
    BY <1>a, <2>e DEF ControlInv, Handed, callVars, dbVars, counts
  <2>3. SessionInv'
    BY <1>a, <2>e DEF SessionInv, Handed, callVars, dbVars, counts
  <2> QED
    BY <2>1, <2>2, <2>3 DEF TypeInv
<1>23. CASE TimerAbort
  <2>a. Ongoing(timer.key) => Handed(sessions[timer.key].txn)
    BY <1>a, <1>23 DEF SessionInv, Ongoing
  <2>b. txn' \in [Store -> Txn]
    BY <1>a, <1>23, <2>a, TxnFacts, SMTT(20)
    DEF TimerAbort, TypeOK, Handed, Rollback
  <2>1. TypeOK'
    <3>1. IsMap(sessions', Session)
      BY <1>a, <2>a, <2>b, <1>23, SMTT(20)
      DEF TimerAbort, callVars, dbVars, counts, TypeOK
    <3>2. txn' \in [Store -> Txn]
      BY <1>a, <2>a, <2>b, <1>23, TxnFacts, SMTT(20)
      DEF TimerAbort, TypeOK, Rollback, callVars, dbVars, counts, Handed
    <3>3. RunsOK'
      BY <1>a, <2>a, <2>b, <1>23
      DEF RunsOK, TimerAbort, TypeOK, callVars, dbVars, counts, IsMap
    <3>4. pc' \in [Store -> PC]
      BY <1>a, <2>a, <2>b, <1>23, SMTT(20)
      DEF TimerAbort, Goto, Ack, Fail, callVars, dbVars, counts, TypeOK, PC,
          InSession, Final
    <3>5. DataOK'
      BY <1>a, <2>a, <2>b, <1>23, SMTT(20)
      DEF DataOK, TimerAbort, callVars, dbVars, counts, TypeOK
    <3>8. local' \in [Store -> Store \cup {None}]
      BY <1>a, <2>a, <2>b, <1>23, SMTT(20)
      DEF TimerAbort, Ack, Fail, callVars, dbVars, counts, TypeOK, Handed
    <3>6. timer' \in TimerThread
      BY <1>a, <2>a, <2>b, <1>23, SMTT(20)
      DEF TimerAbort, callVars, dbVars, counts, TypeOK, TimerThread
    <3>7. nextId' \in [Product -> Nat]
      BY <1>a, <2>a, <2>b, <1>23, SMTT(20)
      DEF TimerAbort, callVars, dbVars, counts, TypeOK
    <3> QED
      BY <1>a, <1>23, <3>1, <3>2, <3>3, <3>4, <3>5, <3>6, <3>7, <3>8, SMTT(20)
      DEF RunsOK, DataOK, TimerAbort, callVars, dbVars, counts, TypeOK
  <2>2. ControlInv'
    BY <1>a, <2>a, <2>b, <1>23, SMTT(20)
    DEF ControlInv, TimerAbort, Goto, Ack, Fail, callVars, dbVars, counts,
        Handed, InSession, Final, PC, TypeOK
  <2>3. SessionInv'
    BY <1>a, <2>a, <2>b, <1>23, SMTT(20)
    DEF SessionInv, TimerAbort, Goto, Ack, Fail, callVars, dbVars, counts,
        Handed, InSession, Final, PC, TypeOK
  <2> QED
    BY <2>1, <2>2, <2>3 DEF TypeInv
<1>24. CASE TimerDel
  <2>a. timer' \in TimerThread
    BY <1>a, <1>24, SMTT(20) DEF TimerDel, TypeOK, TimerThread, Asleep
  <2>b. /\ IsMap(sessions', Session)
        /\ DOMAIN sessions' \subseteq DOMAIN sessions
        /\ \A k \in DOMAIN sessions' : sessions'[k] = sessions[k]
        /\ IsFiniteSet(DOMAIN sessions')
    BY <1>a, <1>24, <2>a, FS_RemoveElement, SMTT(20)
    DEF TimerDel, TypeOK, IsMap, Drop, SessionInv
  <2>1. TypeOK'
    <3>1. IsMap(sessions', Session)
      BY <1>a, <2>a, <2>b, <1>24, SMTT(20)
      DEF TimerDel, callVars, dbVars, counts, TypeOK
    <3>2. txn' \in [Store -> Txn]
      BY <1>a, <2>a, <2>b, <1>24, TxnFacts, SMTT(20)
      DEF TimerDel, TypeOK, Rollback, callVars, dbVars, counts, Handed
    <3>3. RunsOK'
      BY <1>a, <2>a, <2>b, <1>24
      DEF RunsOK, TimerDel, TypeOK, callVars, dbVars, counts, IsMap
    <3>4. pc' \in [Store -> PC]
      BY <1>a, <2>a, <2>b, <1>24, SMTT(20)
      DEF TimerDel, Goto, Ack, Fail, callVars, dbVars, counts, TypeOK, PC,
          InSession, Final
    <3>5. DataOK'
      BY <1>a, <2>a, <2>b, <1>24, SMTT(20)
      DEF DataOK, TimerDel, callVars, dbVars, counts, TypeOK
    <3>8. local' \in [Store -> Store \cup {None}]
      BY <1>a, <2>a, <2>b, <1>24, SMTT(20)
      DEF TimerDel, Ack, Fail, callVars, dbVars, counts, TypeOK, Handed
    <3>6. timer' \in TimerThread
      BY <1>a, <2>a, <2>b, <1>24, SMTT(20)
      DEF TimerDel, callVars, dbVars, counts, TypeOK, TimerThread
    <3>7. nextId' \in [Product -> Nat]
      BY <1>a, <2>a, <2>b, <1>24, SMTT(20)
      DEF TimerDel, callVars, dbVars, counts, TypeOK
    <3> QED
      BY <1>a, <1>24, <3>1, <3>2, <3>3, <3>4, <3>5, <3>6, <3>7, <3>8, SMTT(20)
      DEF RunsOK, DataOK, TimerDel, callVars, dbVars, counts, TypeOK
  <2>2. ControlInv'
    BY <1>a, <2>a, <2>b, <1>24, SMTT(20)
    DEF ControlInv, TimerDel, Goto, Ack, Fail, callVars, dbVars, counts,
        Handed, InSession, Final, PC, TypeOK
  <2>3. SessionInv'
    BY <1>a, <2>a, <2>b, <1>24, SMTT(20)
    DEF SessionInv, TimerDel, Goto, Ack, Fail, callVars, dbVars, counts,
        Handed, InSession, Final, PC, TypeOK
  <2> QED
    BY <2>1, <2>2, <2>3 DEF TypeInv
<1>25. CASE Crash
  <2>1. TypeOK'
    BY <1>a, <1>25, MassStoreAssumption, FS_CardinalityType, SMTT(20)
    DEF Crash, Goto, Fail, Ack, Ongoing, Put, Drop, Begun, callVars, dbVars,
        counts, Rollback, Running, Empty, Asleep, TypeOK, IsMap, PC, InSession,
        Final, Txn, Session, Call, Run, TimerThread, Db, Visible, RunAfter,
        FinishedIn, OpenAfter, CommittedOpen, Named, ControlInv, SessionInv,
        Handed
  <2>2. ControlInv'
    BY <1>a, <1>25, SMTT(20)
    DEF ControlInv, Crash, SessionInv, Goto, Fail, Ack, Ongoing, Put, Drop,
        Begun, callVars, dbVars, counts, Rollback, Running, Empty, Asleep,
        Handed, InSession, Final, PC, TypeOK
  <2>3. SessionInv'
    BY <1>a, <1>25, FS_AddElement, FS_RemoveElement, FS_EmptySet, SMTT(20)
    DEF SessionInv, ControlInv, Crash, Goto, Fail, Ack, Ongoing, Put, Drop,
        Begun, callVars, dbVars, counts, Rollback, Running, Empty, Asleep,
        Handed, InSession, Final, PC, TypeOK
  <2> QED
    BY <2>1, <2>2, <2>3 DEF TypeInv
<1>26. CASE UNCHANGED vars
  BY <1>a, <1>26
  DEF vars, TypeInv, TypeOK, IsMap, ControlInv, SessionInv, Handed, callVars,
      dbVars, counts
<1> QED
  BY <1>1, <1>2, <1>3, <1>4, <1>5, <1>6, <1>7, <1>8, <1>9, <1>10, <1>11, <1>12,
     <1>13, <1>14, <1>15, <1>16, <1>17, <1>18, <1>19, <1>20, <1>21, <1>22,
     <1>23, <1>24, <1>25, <1>26
  DEF Next, Proceed, Timer

(* Type correctness of the calls, the dictionary and the database.         *)
THEOREM TypeCorrect == Spec => []TypeOK
<1>1. TypeInv => TypeOK
  BY DEF TypeInv
<1> QED
  BY <1>1, TypeInit, TypeStep, PTL DEF Spec
-----------------------------------------------------------------------------
(* Before the flush of the run a call has written nothing.                 *)
Early == {"idle", "lookup", "update", "insert"}

(* The steps that neither give out run ids nor commit.                     *)
Quiet == /\ UNCHANGED <<call, rid, runs, nextId>>
         /\ \A u \in Store :
              /\ pc'[u] = pc[u] \/ pc'[u] \notin Early
              /\ \/ txn'[u].row \in {txn[u].row, "none"}
                 \/ txn'[u].row = "updated" /\ pc'[u] \notin Early

(* Steps that hand out no id keep the id facts.                            *)
LEMMA QuietIds == TypeInv /\ IdInv /\ Quiet => IdInv'
  BY DEF IdInv, Quiet, Early, Db, TypeInv, TypeOK

(* Steps that neither hand out an id nor commit keep the names unique.     *)
LEMMA QuietNames == TypeInv /\ IdInv /\ NameInv /\ UniqueNames /\ Quiet
                      => NameInv' /\ UniqueNames'
<1> SUFFICES ASSUME TypeInv, IdInv, NameInv, UniqueNames, Quiet
             PROVE  NameInv' /\ UniqueNames'
  OBVIOUS
<1>1. \A u \in Store : txn'[u].row = "inserted" =>
         txn[u].row = "inserted" /\ pc'[u] # "idle"
  BY DEF Quiet, IdInv, NameInv, Early
<1> QED
  BY <1>1 DEF Quiet, NameInv, UniqueNames, Named, NameHeldByOther, Db

QuietStore(s) ==
  \/ UpdateRun(s) \/ StartRunSession(s) \/ GetTransaction(s)
  \/ AddReport(s) \/ WriteReport(s) \/ TouchReport(s)
  \/ RaiseInStore(s) \/ SetRunDuration(s) \/ FinishCheckerRun(s)
  \/ MarkFinished(s) \/ AbortSession(s) \/ EndRunSession(s)
  \/ CommitFails(s) \/ DropSession(s) \/ Collect(s)

(* All but Receive, Lookup, InsertRun and Commit are such steps.           *)
LEMMA QuietSteps ==
  ASSUME TypeInv
  PROVE  /\ \A s \in Store : QuietStore(s) => Quiet
         /\ \A id \in DOMAIN sessions : GoStale(id) => Quiet
         /\ Timer \/ Crash => Quiet
<1> USE DEF Quiet, Early
<1>a. TypeOK /\ ControlInv /\ SessionInv
  BY DEF TypeInv
<1>1. ASSUME NEW s \in Store, UpdateRun(s) PROVE Quiet
  BY <1>a, <1>1, TxnFacts, SMTT(20)
  DEF UpdateRun, Goto, Fail, Ack, TypeOK, callVars, dbVars, counts
<1>2. ASSUME NEW s \in Store, StartRunSession(s) PROVE Quiet
  BY <1>a, <1>2, SMTT(20)
  DEF StartRunSession, Goto, Fail, Ack, TypeOK, callVars, dbVars, counts
<1>3. ASSUME NEW s \in Store, GetTransaction(s) PROVE Quiet
  BY <1>a, <1>3, SMTT(20)
  DEF GetTransaction, Goto, Fail, Ack, TypeOK, callVars, dbVars, counts
<1>4. ASSUME NEW s \in Store, AddReport(s) PROVE Quiet
  BY <1>a, <1>4, SMTT(20)
  DEF AddReport, Goto, Fail, Ack, TypeOK, callVars, dbVars, counts
<1>5. ASSUME NEW s \in Store, WriteReport(s) PROVE Quiet
  BY <1>a, <1>5, AddedFacts, SMTT(20)
  DEF WriteReport, ControlInv, Goto, Fail, Ack, TypeOK, callVars, dbVars,
      counts
<1>6. ASSUME NEW s \in Store, TouchReport(s) PROVE Quiet
  BY <1>a, <1>6, SMTT(20)
  DEF TouchReport, Goto, Fail, Ack, TypeOK, callVars, dbVars, counts
<1>7. ASSUME NEW s \in Store, RaiseInStore(s) PROVE Quiet
  BY <1>a, <1>7, SMTT(20)
  DEF RaiseInStore, Goto, Fail, Ack, TypeOK, callVars, dbVars, counts
<1>8. ASSUME NEW s \in Store, SetRunDuration(s) PROVE Quiet
  <2> DEFINE t == sessions[rid[s]].txn
  <2>1. UNCHANGED txn \/ (Handed(t) /\ WriteDuration(t))
    BY <1>a, <1>8 DEF SessionInv, Ongoing, SetRunDuration
  <2>3. /\ UNCHANGED <<call, rid, runs, nextId>>
        /\ \A u \in Store : pc'[u] = pc[u] \/ pc'[u] \notin Early
    BY <1>a, <1>8 DEF SetRunDuration, Goto, Fail, TypeOK
  <2> QED
    BY <1>a, <2>1, <2>3, DurationFacts DEF TypeOK, Handed, InSession
<1>9. ASSUME NEW s \in Store, FinishCheckerRun(s) PROVE Quiet
  BY <1>a, <1>9, SMTT(20)
  DEF FinishCheckerRun, Goto, Fail, Ack, TypeOK, callVars, dbVars, counts
<1>10. ASSUME NEW s \in Store, MarkFinished(s) PROVE Quiet
  <2>1. Handed(local[s])
    BY <1>a, <1>10 DEF ControlInv, MarkFinished
  <2>2. UNCHANGED txn \/ WriteDuration(local[s])
    BY <1>10 DEF MarkFinished
  <2>3. /\ UNCHANGED <<call, rid, runs, nextId>>
        /\ \A u \in Store : pc'[u] = pc[u] \/ pc'[u] \notin Early
    BY <1>a, <1>10 DEF MarkFinished, Goto, TypeOK
  <2> QED
    BY <1>a, <2>1, <2>2, <2>3, DurationFacts DEF TypeOK, Handed, InSession
<1>11. ASSUME NEW s \in Store, AbortSession(s) PROVE Quiet
  BY <1>a, <1>11, SMTT(20)
  DEF AbortSession, Rollback, Begun, Txn, Goto, Fail, Ack, TypeOK, callVars,
      dbVars, counts
<1>12. ASSUME NEW s \in Store, EndRunSession(s) PROVE Quiet
  BY <1>a, <1>12, EndFacts DEF EndRunSession, Goto, Ack, TypeOK
<1>13. ASSUME NEW s \in Store, CommitFails(s) PROVE Quiet
  BY <1>a, <1>13, SMTT(20)
  DEF CommitFails, Rollback, Begun, Txn, Goto, Fail, Ack, TypeOK, callVars,
      dbVars, counts
<1>14. ASSUME NEW s \in Store, DropSession(s) PROVE Quiet
  BY <1>a, <1>14, SMTT(20)
  DEF DropSession, Goto, Fail, Ack, TypeOK, callVars, dbVars, counts
<1>15. ASSUME NEW s \in Store, Collect(s) PROVE Quiet
  BY <1>a, <1>15, SMTT(20)
  DEF Collect, Rollback, Begun, Txn, Goto, Fail, Ack, TypeOK, callVars, dbVars,
      counts
<1>16. ASSUME NEW id \in DOMAIN sessions, GoStale(id) PROVE Quiet
  BY <1>a, <1>16, SMTT(20)
  DEF GoStale, Goto, Fail, Ack, TypeOK, callVars, dbVars, counts
<1>17. CASE TimerWake
  BY <1>a, <1>17, SMTT(20)
  DEF TimerWake, Goto, Fail, Ack, TypeOK, callVars, dbVars, counts
<1>18. CASE TimerNext
  <2>1. UNCHANGED <<callVars, sessions, dbVars, counts, stored>>
    BY <1>18 DEF TimerNext
  <2> QED
    BY <2>1, <1>a DEF callVars, dbVars, TypeOK
<1>19. CASE TimerAbort
  BY <1>a, <1>19, SMTT(20)
  DEF TimerAbort, Rollback, Begun, Txn, Goto, Fail, Ack, TypeOK, callVars,
      dbVars, counts
<1>20. CASE TimerDel
  BY <1>a, <1>20, SMTT(20)
  DEF TimerDel, Goto, Fail, Ack, TypeOK, callVars, dbVars, counts
<1>21. CASE Crash
  BY <1>a, <1>21, SMTT(20)
  DEF Crash, Running, Begun, Txn, Final, Goto, Fail, Ack, TypeOK, callVars,
      dbVars, counts
<1> QED
  BY <1>1, <1>2, <1>3, <1>4, <1>5, <1>6, <1>7, <1>8, <1>9, <1>10, <1>11, <1>12,
     <1>13, <1>14, <1>15, <1>16, <1>17, <1>18, <1>19, <1>20, <1>21
  DEF QuietStore, Timer

(* What a commit does to the committed runs.                               *)
LEMMA CommitFacts ==
  ASSUME TypeInv, NEW s \in Store, Commit(s), NEW t, t = local[s]
  PROVE  /\ Handed(t)
         /\ UNCHANGED <<call, rid, nextId, sessions, timer>>
         /\ \A u \in Store : /\ txn'[u].row \in {txn[u].row, "none"}
                             /\ u # t => txn'[u] = txn[u]
         /\ txn'[t].row = "none"
         /\ pc'[s] \in {"drop", "acked"}
         /\ \A u \in Store \ {s} : pc'[u] = pc[u] /\ local'[u] = local[u]
         /\ local'[s] \in {local[s], None}
         /\ \/ runs' = runs
            \/ /\ Visible(t)
               /\ \A p \in Product \ {Db(t)} : runs'[p] = runs[p]
               /\ DOMAIN runs'[Db(t)] = DOMAIN runs[Db(t)] \cup {rid[t]}
               /\ runs'[Db(t)][rid[t]] = RunAfter(t)
               /\ runs'[Db(t)][rid[t]].name = call[t].name
               /\ \A id \in DOMAIN runs[Db(t)] \ {rid[t]} :
                    runs'[Db(t)][id] = runs[Db(t)][id]
<1>a. TypeOK /\ ControlInv
  BY DEF TypeInv
<1>1. Handed(t)
  BY <1>a DEF ControlInv, Commit
<1>2. UNCHANGED <<call, rid, nextId, sessions, timer>> /\ txn' = Rollback(t)
  BY DEF Commit
<1>3. /\ \A u \in Store : /\ txn'[u].row \in {txn[u].row, "none"}
                          /\ u # t => txn'[u] = txn[u]
      /\ txn'[t].row = "none"
  BY <1>a, <1>1, <1>2, TxnFacts DEF Rollback, TypeOK, Handed, Begun
<1>4. /\ pc'[s] \in {"drop", "acked"}
      /\ \A u \in Store \ {s} : pc'[u] = pc[u] /\ local'[u] = local[u]
      /\ local'[s] \in {local[s], None}
  BY <1>a DEF Commit, Goto, Ack, TypeOK
<1>5. \/ runs' = runs
      \/ /\ Visible(t)
         /\ runs' = [runs EXCEPT ![Db(t)] = Put(@, rid[t], RunAfter(t))]
  BY DEF Commit
<1>6. Db(t) \in Product /\ DOMAIN runs = Product
  BY <1>a, <1>1 DEF Db, Handed, Call, TypeOK
<1>7. ASSUME NEW r, runs' = [runs EXCEPT ![Db(t)] = Put(@, rid[t], r)]
      PROVE  /\ \A p \in Product \ {Db(t)} : runs'[p] = runs[p]
             /\ DOMAIN runs'[Db(t)] = DOMAIN runs[Db(t)] \cup {rid[t]}
             /\ runs'[Db(t)][rid[t]] = r
             /\ \A id \in DOMAIN runs[Db(t)] \ {rid[t]} :
                  runs'[Db(t)][id] = runs[Db(t)][id]
  BY <1>6, <1>7 DEF Put
<1>8. RunAfter(t).name = call[t].name
  BY DEF RunAfter
<1> QED
  BY <1>1, <1>2, <1>3, <1>4, <1>5, <1>7, <1>8

(* What the insert of a run does, when it succeeds.                        *)
LEMMA InsertFacts ==
  ASSUME TypeInv, NEW s \in Store, InsertRun(s)
  PROVE  /\ pc[s] = "insert" /\ ~NameHeldByOther(s)
         /\ UNCHANGED <<call, runs, sessions, timer>>
         /\ \A u \in Store \ {s} : /\ pc'[u] = pc[u]
                                   /\ rid'[u] = rid[u]
                                   /\ txn'[u] = txn[u]
                                   /\ local'[u] = local[u]
         /\ Db(s) \in Product
         /\ nextId[Db(s)] \in Nat
         /\ nextId'[Db(s)] = nextId[Db(s)] + 1
         /\ \A p \in Product \ {Db(s)} : nextId'[p] = nextId[p]
         /\ \/ /\ pc'[s] = "failed" /\ rid'[s] = rid[s]
               /\ txn'[s] = txn[s] /\ local'[s] = None
            \/ /\ pc'[s] = "start" /\ rid'[s] = nextId[Db(s)]
               /\ Named(Db(s), call[s].name) = {}
               /\ txn'[s].row = "inserted"
               /\ local'[s] = local[s]
<1>a. TypeOK /\ ControlInv
  BY DEF TypeInv
<1>1. Db(s) \in Product /\ nextId[Db(s)] \in Nat
  BY <1>a DEF InsertRun, ControlInv, TypeOK, Call, Db
<1>2. /\ pc[s] = "insert" /\ ~NameHeldByOther(s)
      /\ UNCHANGED <<call, runs, sessions, timer>>
      /\ nextId' = [nextId EXCEPT ![Db(s)] = @ + 1]
  BY DEF InsertRun
<1>3. /\ nextId'[Db(s)] = nextId[Db(s)] + 1
      /\ \A p \in Product \ {Db(s)} : nextId'[p] = nextId[p]
  BY <1>a, <1>1, <1>2 DEF TypeOK
<1>4. CASE Fail(s) /\ UNCHANGED <<rid, txn>>
  BY <1>a, <1>1, <1>2, <1>3, <1>4 DEF Fail, Goto, TypeOK
<1>5. CASE /\ Named(Db(s), call[s].name) = {}
           /\ rid' = [rid EXCEPT ![s] = nextId[Db(s)]]
           /\ txn' = [txn EXCEPT ![s] = [Begun EXCEPT !.row = "inserted"]]
           /\ Goto(s, "start")
           /\ UNCHANGED local
  <2>1. [Begun EXCEPT !.row = "inserted"].row = "inserted"
    BY <1>a, TxnFacts DEF TypeOK
  <2> QED
    BY <1>a, <1>1, <1>2, <1>3, <1>5, <2>1 DEF Goto, TypeOK
<1> QED
  BY <1>4, <1>5 DEF InsertRun

(* The id and name facts hold when the server starts.                      *)
LEMMA UniqueInit == Init => UniqueInv
  BY MassStoreAssumption
  DEF Init, UniqueInv, IdInv, NameInv, UniqueNames, Begun, Empty

(* Every step keeps the run ids fresh and the run names unique.            *)
LEMMA UniqueStep == TypeInv /\ UniqueInv /\ [Next]_vars => UniqueInv'
<1> SUFFICES ASSUME TypeInv, UniqueInv, [Next]_vars PROVE UniqueInv'
  OBVIOUS
<1>a. TypeOK /\ ControlInv /\ SessionInv
  BY DEF TypeInv
<1>b. IdInv /\ NameInv /\ UniqueNames
  BY DEF UniqueInv
<1>1. CASE Quiet
  BY <1>1, <1>b, QuietIds, QuietNames DEF UniqueInv
<1>2. ASSUME NEW s \in Store, Receive(s) PROVE UniqueInv'
  <2>1. /\ UNCHANGED <<rid, txn, runs, nextId>>
        /\ rid[s] = None /\ txn[s].row = "none"
        /\ \A u \in Store \ {s} : pc'[u] = pc[u] /\ call'[u] = call[u]
        /\ pc'[s] = "lookup"
    BY <1>a, <1>b, <1>2 DEF Receive, dbVars, IdInv, Goto, TypeOK
  <2>2. IdInv'
    BY <1>b, <2>1 DEF IdInv, Db
  <2>3. NameInv'
    <3>1. \A u \in Store : rid[u] # None => u # s
      BY <2>1
    <3>2. \A u \in Store : txn[u].row = "inserted" =>
            /\ pc'[u] # "idle" /\ rid[u] # None
            /\ Named(Db(u), call[u].name)' = {}
      BY <1>b, <2>1, <3>1 DEF NameInv, Db, Named
    <3>3. \A u, v \in Store : txn[u].row = "inserted" /\ txn[v].row = "inserted"
            /\ call'[v].product = call'[u].product
            /\ call'[v].name = call'[u].name => u = v
      BY <1>b, <2>1, <3>1 DEF NameInv, Db, NameHeldByOther
    <3>4. \A u \in Store : rid[u] # None => call'[u] = call[u]
      BY <2>1
    <3>5. \A u, v \in Store : rid'[u] # None /\ rid'[v] = rid'[u]
            /\ call'[v].product = call'[u].product
              => call'[v].name = call'[u].name
      BY <1>b, <2>1, <3>4 DEF NameInv, Db
    <3>6. \A u \in Store :
             rid'[u] # None /\ rid'[u] \in DOMAIN runs'[call'[u].product]
             => runs'[call'[u].product][rid'[u]].name = call'[u].name
      BY <1>b, <2>1, <3>4 DEF NameInv, Db
    <3> QED
      BY <2>1, <3>2, <3>3, <3>5, <3>6 DEF NameInv, Db, NameHeldByOther
  <2> QED
    BY <1>b, <2>1, <2>2, <2>3 DEF UniqueInv, UniqueNames
<1>3. ASSUME NEW s \in Store, Lookup(s) PROVE UniqueInv'
  <2>1. /\ UNCHANGED <<call, txn, runs, nextId>>
        /\ rid[s] = None /\ txn[s].row = "none" /\ pc[s] = "lookup"
        /\ \A u \in Store \ {s} : pc'[u] = pc[u] /\ rid'[u] = rid[u]
        /\ \/ pc'[s] \in {"insert", "rejected"} /\ rid'[s] = None
           \/ /\ pc'[s] = "update"
              /\ rid'[s] \in DOMAIN runs[Db(s)]
              /\ runs[Db(s)][rid'[s]].name = call[s].name
        /\ Db(s) \in Product
    <3>1. Db(s) \in Product
      BY <1>a, <1>3 DEF Lookup, ControlInv, Db, Call
    <3> QED
      BY <1>a, <1>b, <1>3, <3>1, SMTT(20)
      DEF Lookup, dbVars, IdInv, Goto, TypeOK, Named
  <2>2. IdInv'
    BY <1>b, <2>1 DEF IdInv, Db
  <2>3. NameInv'
    BY <1>b, <2>1 DEF NameInv, Db, Named, NameHeldByOther
  <2> QED
    BY <1>b, <2>1, <2>2, <2>3 DEF UniqueInv, UniqueNames
<1>4. ASSUME NEW s \in Store, InsertRun(s) PROVE UniqueInv'
  <2>1. IdInv'
    <3>1. \A p \in Product :
            nextId[p] \in Nat /\ nextId'[p] \in Nat /\ nextId[p] <= nextId'[p]
      <4>1. \A p \in Product : nextId[p] \in Nat
        BY <1>a DEF TypeOK
      <4> QED
        BY <4>1, <1>4, InsertFacts
    <3>2. \A u \in Store : rid[u] # None => Db(u) \in Product /\ rid[u] \in Nat
      BY <1>a, <1>b DEF IdInv, ControlInv, Db, Call, TypeOK
    <3>3. \A u \in Store \ {s} : rid'[u] # None => rid'[u] < nextId'[Db(u)]
      BY <1>b, <1>4, <3>1, <3>2, InsertFacts DEF IdInv
    <3>4. rid'[s] # None => rid'[s] < nextId'[Db(s)]
      BY <1>b, <1>4, <3>1, <3>2, InsertFacts DEF IdInv
    <3>5. \A p \in Product : \A id \in DOMAIN runs[p] : id \in Nat
      BY <1>a DEF TypeOK, IsMap
    <3>6. \A p \in Product : \A id \in DOMAIN runs'[p] : id < nextId'[p]
      BY <1>b, <1>4, <3>1, <3>5, InsertFacts DEF IdInv
    <3>7. \A u \in Store :
            /\ pc'[u] \in {"idle", "lookup", "insert"} => rid'[u] = None
            /\ pc'[u] \in {"idle", "lookup", "update", "insert"}
                 => txn'[u].row = "none"
      BY <1>b, <1>4, InsertFacts DEF IdInv
    <3> QED
      BY <1>4, <3>3, <3>4, <3>6, <3>7, InsertFacts DEF IdInv, Db
  <2>2. NameInv'
    <3>1. \A u \in Store, t \in Store : rid'[u] # None /\ rid'[t] = rid'[u]
             /\ call'[t].product = call'[u].product
               => call'[t].name = call'[u].name
      BY <1>a, <1>b, <1>4, InsertFacts, SMTT(20) DEF NameInv, IdInv, Db, TypeOK
    <3>2. \A u \in Store :
             rid'[u] # None /\ rid'[u] \in DOMAIN runs'[call'[u].product]
             => runs'[call'[u].product][rid'[u]].name = call'[u].name
      BY <1>a, <1>b, <1>4, InsertFacts, SMTT(20) DEF NameInv, IdInv, Db, TypeOK
    <3>3. ASSUME NEW u \in Store, txn'[u].row = "inserted"
          PROVE  /\ pc'[u] # "idle" /\ rid'[u] # None
                 /\ Named(Db(u), call[u].name)' = {}
                 /\ ~NameHeldByOther(u)'
      <4>0. /\ UNCHANGED <<call, runs>>
            /\ \A v \in Store \ {s} :
                 txn'[v] = txn[v] /\ pc'[v] = pc[v] /\ rid'[v] = rid[v]
            /\ ~NameHeldByOther(s)
            /\ txn[s].row = "none"
        BY <1>b, <1>4, InsertFacts DEF IdInv
      <4>1. CASE u = s
        <5>1. /\ pc'[s] = "start" /\ rid'[s] = nextId[Db(s)]
              /\ nextId[Db(s)] \in Nat
              /\ Named(Db(s), call[s].name) = {}
          BY <1>4, <3>3, <4>0, <4>1, InsertFacts
        <5>2. Named(Db(s), call[s].name)' = {}
          BY <4>0, <5>1 DEF Named, Db
        <5>3. ~NameHeldByOther(s)'
          BY <4>0 DEF NameHeldByOther, Db
        <5> QED
          BY <4>1, <5>1, <5>2, <5>3, MassStoreAssumption
      <4>2. CASE u # s
        <5>1. txn[u].row = "inserted" /\ ~NameHeldByOther(u)
              /\ pc'[u] # "idle" /\ rid'[u] # None
              /\ Named(Db(u), call[u].name) = {}
          BY <1>b, <3>3, <4>0, <4>2 DEF NameInv
        <5>2. Named(Db(u), call[u].name)' = {}
          BY <4>0, <5>1 DEF Named, Db
        <5>3. ~(Db(u) = Db(s) /\ call[u].name = call[s].name)
          BY <4>0, <4>2, <5>1 DEF NameHeldByOther
        <5>4. ~NameHeldByOther(u)'
          BY <4>0, <5>1, <5>3 DEF NameHeldByOther, Db
        <5> QED
          BY <5>1, <5>2, <5>4
      <4> QED
        BY <4>1, <4>2
    <3> QED
      BY <3>1, <3>2, <3>3 DEF NameInv, Db
  <2> QED
    BY <1>b, <1>4, <2>1, <2>2, InsertFacts DEF UniqueInv, UniqueNames
<1>5. ASSUME NEW s \in Store, Commit(s) PROVE UniqueInv'
  <2> DEFINE t == local[s]
  <2>0. \/ runs' = runs
        \/ /\ Visible(t)
           /\ \A p \in Product \ {Db(t)} : runs'[p] = runs[p]
           /\ DOMAIN runs'[Db(t)] = DOMAIN runs[Db(t)] \cup {rid[t]}
           /\ runs'[Db(t)][rid[t]].name = call[t].name
           /\ \A id \in DOMAIN runs[Db(t)] \ {rid[t]} :
                runs'[Db(t)][id] = runs[Db(t)][id]
    BY <1>5, CommitFacts
  <2>1. /\ Handed(t)
        /\ UNCHANGED <<call, rid, nextId>>
        /\ \A u \in Store : txn'[u].row \in {txn[u].row, "none"}
        /\ txn'[t].row = "none"
        /\ \A u \in Store : pc'[u] = pc[u] \/ pc'[u] \notin Early
    BY <1>5, CommitFacts DEF Early
  <2> HIDE DEF t
  <2>2. rid[t] < nextId[Db(t)] /\ rid[t] # None /\ t \in Store
    BY <1>b, <2>1, MassStoreAssumption DEF Handed, IdInv
  <2>3. IdInv'
    <3>1. \A p \in Product : \A id \in DOMAIN runs'[p] : id < nextId'[p]
      BY <1>b, <2>0, <2>1, <2>2 DEF IdInv
    <3>2. \A u \in Store :
            /\ pc'[u] \in {"idle", "lookup", "insert"} => rid'[u] = None
            /\ pc'[u] \in {"idle", "lookup", "update", "insert"}
                 => txn'[u].row = "none"
            /\ rid'[u] # None => rid'[u] < nextId'[Db(u)]
      BY <1>b, <2>1 DEF IdInv, Early
    <3> QED
      BY <3>1, <3>2, <2>1 DEF IdInv, Db
  <2>4. \A i \in DOMAIN runs[Db(t)] :
          Visible(t) /\ runs[Db(t)][i].name = call[t].name => i = rid[t]
    BY <1>b, <2>1, <2>2, SMTT(20)
    DEF Visible, UniqueNames, NameInv, Named, Handed, Call, Db
  <2>5. UniqueNames'
    BY <1>b, <2>0, <2>4, SMTT(20) DEF UniqueNames
  <2>6. NameInv'
    <3>1. \A u \in Store :
             rid'[u] # None /\ rid'[u] \in DOMAIN runs'[call'[u].product]
             => runs'[call'[u].product][rid'[u]].name = call'[u].name
      <4>1. ASSUME NEW u \in Store, rid[u] # None, rid[u] \in DOMAIN runs'[Db(u)]
            PROVE  runs'[Db(u)][rid[u]].name = call[u].name
        <5>1. CASE runs' = runs
          BY <1>b, <4>1, <5>1 DEF NameInv
        <5>2. CASE runs' # runs /\ Db(u) # Db(t)
          <6>1. Db(u) \in Product
            BY <1>a, <1>b, <4>1 DEF IdInv, ControlInv, Db, Call
          <6> QED
            BY <1>b, <2>0, <4>1, <5>2, <6>1 DEF NameInv
        <5>3. CASE runs' # runs /\ Db(u) = Db(t) /\ rid[u] # rid[t]
          BY <1>b, <2>0, <4>1, <5>3 DEF NameInv
        <5>4. CASE runs' # runs /\ Db(u) = Db(t) /\ rid[u] = rid[t]
          BY <1>b, <2>0, <2>2, <4>1, <5>4 DEF NameInv
        <5> QED
          BY <5>1, <5>2, <5>3, <5>4
      <4> QED
        BY <4>1, <2>1 DEF Db
    <3>2. ASSUME NEW u \in Store, txn'[u].row = "inserted"
          PROVE  /\ pc'[u] # "idle" /\ rid'[u] # None
                 /\ Named(Db(u), call[u].name)' = {}
                 /\ ~NameHeldByOther(u)'
      <4>1. txn[u].row = "inserted" /\ u # t /\ pc'[u] # "idle"
        BY <1>b, <2>1, <3>2 DEF NameInv, Early
      <4>2. ~NameHeldByOther(u)'
        BY <1>b, <2>1, <4>1 DEF NameInv, NameHeldByOther, Db
      <4>0. /\ Named(Db(u), call[u].name) = {} /\ ~NameHeldByOther(u)
            /\ rid[u] # None
        BY <1>b, <4>1 DEF NameInv
      <4>3. ASSUME Visible(t), Db(t) = Db(u), call[t].name = call[u].name
            PROVE  FALSE
        <5>1. CASE txn[t].row = "inserted"
          BY <2>2, <4>0, <4>1, <4>3, <5>1 DEF NameHeldByOther
        <5>2. CASE rid[t] \in DOMAIN runs[Db(t)]
          BY <1>b, <2>2, <4>0, <4>3, <5>2 DEF NameInv, Named
        <5> QED
          BY <4>3, <5>1, <5>2 DEF Visible
      <4>5. Db(u) \in Product
        BY <1>a, <1>b, <4>0 DEF IdInv, ControlInv, Db, Call
      <4>6. \A id \in DOMAIN runs'[Db(u)] : runs'[Db(u)][id].name # call[u].name
        <5>1. CASE runs' = runs
          BY <4>0, <5>1 DEF Named
        <5>2. CASE runs' # runs /\ Db(u) # Db(t)
          BY <2>0, <4>0, <4>5, <5>2 DEF Named
        <5>3. CASE runs' # runs /\ Db(u) = Db(t)
          BY <2>0, <4>0, <4>3, <5>3 DEF Named
        <5> QED
          BY <5>1, <5>2, <5>3
      <4>4. Named(Db(u), call[u].name)' = {}
        BY <2>1, <4>6 DEF Named, Db
      <4> QED
        BY <2>1, <4>0, <4>1, <4>2, <4>4
    <3> QED
      BY <1>b, <2>1, <3>1, <3>2 DEF NameInv, Db
  <2> QED
    BY <2>3, <2>5, <2>6 DEF UniqueInv
<1>6. CASE UNCHANGED vars
  <2>1. Quiet
    BY <1>6, <1>a DEF vars, callVars, dbVars, Quiet, TypeOK
  <2> QED
    BY <1>1, <2>1
<1>7. \/ \E s \in Store : Receive(s) \/ Proceed(s) \/ RaiseInStore(s)
                          \/ CommitFails(s) \/ Collect(s)
      \/ \E id \in DOMAIN sessions : GoStale(id)
      \/ Timer \/ Crash \/ UNCHANGED vars
  BY DEF Next
<1>8. ASSUME NEW s \in Store,
             Receive(s) \/ Proceed(s) \/ RaiseInStore(s) \/ CommitFails(s)
               \/ Collect(s)
      PROVE  UniqueInv'
  BY <1>1, <1>2, <1>3, <1>4, <1>5, <1>8, QuietSteps, Zenon
  DEF Proceed, QuietStore
<1>9. ASSUME NEW id \in DOMAIN sessions, GoStale(id) PROVE UniqueInv'
  BY <1>1, <1>9, QuietSteps
<1>10. CASE Timer \/ Crash
  BY <1>1, <1>10, QuietSteps
<1> QED
  BY <1>6, <1>7, <1>8, <1>9, <1>10

(* Two runs of a product never share a name, whatever the stores race for. *)
THEOREM RunsFitCorrect == Spec => []RunsFit
<1>1. TypeInv /\ UniqueInv => RunsFit
  BY DEF TypeInv, UniqueInv, RunsFit
<1> QED
  BY <1>1, TypeInit, TypeStep, UniqueInit, UniqueStep, PTL DEF Spec
-----------------------------------------------------------------------------
InHand == InSession \ {"drop"}

(* A step of store s between the start of its session and its commit.      *)
SessionStep(s) ==
  /\ pc[s] \in InHand
  /\ UNCHANGED <<rid, call, runs, timer>>
  /\ \A u \in Store : txn'[u].row = txn[u].row
  /\ \A u \in Store \ {s} : pc'[u] = pc[u] /\ local'[u] = local[u]
  /\ local'[s] \in {local[s], None, s}
  /\ \/ pc'[s] \in InHand \cup {"failed"}
     \/ pc'[s] = "acked" /\ rid[s] \notin DOMAIN sessions
  /\ DOMAIN sessions' = DOMAIN sessions
  /\ \A id \in DOMAIN sessions :
       /\ sessions'[id].txn = sessions[id].txn
       /\ ~sessions'[id].fresh => ~sessions[id].fresh

(* The step with which s gives up the row of its run.                      *)
ReleaseStep(s) ==
  /\ pc[s] \in InHand /\ pc'[s] = "drop"
  /\ UNCHANGED <<rid, call, timer, sessions>>
  /\ \A p \in Product : DOMAIN runs[p] \subseteq DOMAIN runs'[p]
  /\ txn'[s].row = "none"
  /\ \A u \in Store \ {s} : /\ pc'[u] = pc[u]
                            /\ local'[u] = local[u]
                            /\ txn'[u].row = txn[u].row
  /\ local'[s] \in {local[s], None}

OwnedInv == LockInv /\ OwnerInv /\ TimerInv /\ OwnTransaction

(* In session a store, if its run has a session, finds its own there.      *)
LEMMA OwnSession ==
  ASSUME TypeInv, OwnedInv, NEW s \in Store, pc[s] \in InHand
  PROVE  /\ Hold(s) /\ rid[s] # None
         /\ rid[s] \in DOMAIN sessions => sessions[rid[s]].txn = s
         /\ local[s] \in {None, s}
  BY DEF OwnedInv, LockInv, OwnerInv, OwnTransaction, InHand

(* A step in session keeps the ownership of rows and sessions.             *)
LEMMA SessionStepOwned ==
  ASSUME TypeInv, OwnedInv, NEW s \in Store, SessionStep(s)
  PROVE  OwnedInv'
<1>a. SessionInv /\ LockInv /\ OwnerInv /\ TimerInv /\ OwnTransaction
  BY DEF TypeInv, OwnedInv
<1>1. LockInv'
  BY <1>a DEF SessionStep, LockInv, Hold, Db, InHand, InSession
<1>2. \A id : Abandoned(id) => Abandoned(id)'
  BY DEF SessionStep, Abandoned, InHand
<1>3. OwnerInv'
  <2>1. ASSUME NEW id \in DOMAIN sessions
        PROVE  /\ \/ pc'[sessions'[id].txn] \in InSession
                  \/ /\ pc'[sessions'[id].txn] = "failed"
                     /\ \/ Hold(sessions[id].txn)
                        \/ timer.state = "del" /\ timer.key = id
               /\ ~sessions'[id].fresh => Abandoned(id)'
    <3>1. /\ sessions[id].txn \in Store
          /\ sessions[id].txn = s => id = rid[s]
      BY <1>a DEF SessionInv, Handed
    <3>2. CASE sessions[id].txn = s
      BY <1>2, <1>a, <2>1, <3>1, <3>2, OwnSession
      DEF SessionStep, OwnerInv, InHand
    <3>3. CASE sessions[id].txn # s
      BY <1>2, <1>a, <2>1, <3>1, <3>3 DEF SessionStep, OwnerInv
    <3> QED
      BY <3>2, <3>3
  <2>2. \A u \in Store :
          pc'[u] \in InHand /\ rid'[u] \in DOMAIN sessions'
            => sessions'[rid'[u]].txn = u
    BY <1>a DEF SessionStep, OwnerInv, InHand
  <2>3. \A id \in DOMAIN sessions : Hold(sessions[id].txn) => Hold(sessions[id].txn)'
    BY <1>a DEF SessionStep, Hold, SessionInv, Handed
  <2> QED
    BY <2>1, <2>2, <2>3 DEF OwnerInv, SessionStep, InHand
<1>4. TimerInv'
  BY <1>a, <1>2
  DEF TimerInv, SessionStep, Hold, SessionInv, Handed, InHand, InSession
<1>5. OwnTransaction'
  BY <1>a DEF OwnTransaction, SessionStep
<1> QED
  BY <1>1, <1>3, <1>4, <1>5 DEF OwnedInv

(* So does giving up the row of the run.                                   *)
LEMMA ReleaseStepOwned ==
  ASSUME TypeInv, IdInv, OwnedInv, NEW s \in Store, ReleaseStep(s)
  PROVE  OwnedInv'
<1>a. /\ SessionInv /\ LockInv /\ OwnerInv /\ TimerInv /\ OwnTransaction
      /\ ControlInv /\ TypeOK
  BY DEF TypeInv, OwnedInv
<1>1. LockInv'
  <2>1. \A u \in Store : pc[u] = "update" \/ Hold(u) => Db(u) \in Product
    BY <1>a DEF ControlInv, IdInv, Hold, Db, Call
  <2>2. \A u \in Store : Db(u)' = Db(u)
    BY DEF ReleaseStep, Db
  <2>3. \A u \in Store : Hold(u)' => Hold(u) /\ u # s /\ pc'[u] = pc[u]
                           /\ txn'[u].row = txn[u].row
    BY DEF ReleaseStep, Hold
  <2>4. \A u \in Store : txn'[u].row = "updated" => rid[u] \in DOMAIN runs'[Db(u)]
    BY <1>a, <2>1, <2>3 DEF ReleaseStep, LockInv, Hold
  <2>5. \A u \in Store : pc'[u] = "update" => rid[u] \in DOMAIN runs'[Db(u)]
    BY <1>a, <2>1, <2>3 DEF ReleaseStep, LockInv
  <2>6. \A u \in Store : pc'[u] \in {"start"} \cup InHand => Hold(u)'
    BY <1>a DEF ReleaseStep, LockInv, Hold, InHand
  <2> QED
    BY <1>a, <2>2, <2>3, <2>4, <2>5, <2>6 DEF LockInv, ReleaseStep, InHand
<1>2. \A id : Abandoned(id) => Abandoned(id)'
  BY DEF ReleaseStep, Abandoned, InHand, InSession
<1>3. OwnerInv'
  BY <1>a, <1>2
  DEF ReleaseStep, OwnerInv, SessionInv, Handed, Hold, InHand, InSession
<1>4. TimerInv'
  BY <1>a, <1>2
  DEF TimerInv, ReleaseStep, Hold, SessionInv, Handed, InHand, InSession
<1>5. OwnTransaction'
  BY <1>a DEF OwnTransaction, ReleaseStep
<1> QED
  BY <1>1, <1>3, <1>4, <1>5 DEF OwnedInv

(* In session, up to its commit, a store only works on its own transaction.*)
LEMMA SessionSteps ==
  ASSUME TypeInv, OwnedInv, NEW s \in Store,
         \/ GetTransaction(s) \/ AddReport(s) \/ WriteReport(s)
         \/ TouchReport(s) \/ RaiseInStore(s) \/ SetRunDuration(s)
         \/ FinishCheckerRun(s) \/ MarkFinished(s) \/ EndRunSession(s)
  PROVE  SessionStep(s)
<1>a. TypeOK /\ ControlInv /\ SessionInv
  BY DEF TypeInv
<1>0. pc[s] \in InHand
  BY DEF GetTransaction, AddReport, WriteReport, TouchReport, RaiseInStore,
     SetRunDuration, FinishCheckerRun, MarkFinished, EndRunSession, InHand, InSession
<1>b. /\ Hold(s) /\ rid[s] # None
      /\ Ongoing(rid[s]) => sessions[rid[s]].txn = s
      /\ local[s] \in {None, s}
  BY <1>0, OwnSession DEF Ongoing
<1>c. ASSUME WriteDuration(s) PROVE \A u \in Store : txn'[u].row = txn[u].row
  BY <1>a, <1>b, <1>c, DurationFacts DEF Hold, TypeOK
<1>1. CASE GetTransaction(s)
  <2>1. /\ UNCHANGED <<rid, call, runs, timer>>
        /\ \A u \in Store \ {s} : pc'[u] = pc[u] /\ local'[u] = local[u]
        /\ local'[s] \in {local[s], None, s}
        /\ \/ pc'[s] \in InHand \cup {"failed"}
           \/ pc'[s] = "acked" /\ rid[s] \notin DOMAIN sessions
    BY <1>1, <1>a, <1>b, SMTT(20)
    DEF GetTransaction, Goto, Fail, Ack, TypeOK, InHand, InSession, Ongoing,
        dbVars, callVars
  <2>3. \A u \in Store : txn'[u].row = txn[u].row
    BY <1>1 DEF GetTransaction, dbVars
  <2>4. /\ DOMAIN sessions' = DOMAIN sessions
        /\ \A id \in DOMAIN sessions :
             /\ sessions'[id].txn = sessions[id].txn
             /\ ~sessions'[id].fresh => ~sessions[id].fresh
    BY <1>1, <1>a, RefreshFacts, SMTT(20)
    DEF GetTransaction, TypeOK, ControlInv, Ongoing
  <2> QED
    BY <1>0, <2>1, <2>3, <2>4 DEF SessionStep
<1>2. CASE AddReport(s)
  <2>1. /\ UNCHANGED <<rid, call, runs, timer>>
        /\ \A u \in Store \ {s} : pc'[u] = pc[u] /\ local'[u] = local[u]
        /\ local'[s] \in {local[s], None, s}
        /\ \/ pc'[s] \in InHand \cup {"failed"}
           \/ pc'[s] = "acked" /\ rid[s] \notin DOMAIN sessions
    BY <1>2, <1>a, <1>b, SMTT(20)
    DEF AddReport, Goto, Fail, Ack, TypeOK, InHand, InSession, Ongoing, dbVars,
        callVars
  <2>3. \A u \in Store : txn'[u].row = txn[u].row
    BY <1>2 DEF AddReport, dbVars
  <2>4. /\ DOMAIN sessions' = DOMAIN sessions
        /\ \A id \in DOMAIN sessions :
             /\ sessions'[id].txn = sessions[id].txn
             /\ ~sessions'[id].fresh => ~sessions[id].fresh
    BY <1>2, <1>a, RefreshFacts, SMTT(20)
    DEF AddReport, TypeOK, ControlInv, Ongoing
  <2> QED
    BY <1>0, <2>1, <2>3, <2>4 DEF SessionStep
<1>3. CASE WriteReport(s)
  <2>1. /\ UNCHANGED <<rid, call, runs, timer>>
        /\ \A u \in Store \ {s} : pc'[u] = pc[u] /\ local'[u] = local[u]
        /\ local'[s] \in {local[s], None, s}
        /\ \/ pc'[s] \in InHand \cup {"failed"}
           \/ pc'[s] = "acked" /\ rid[s] \notin DOMAIN sessions
    BY <1>3, <1>a, <1>b, SMTT(20)
    DEF WriteReport, Goto, Fail, Ack, TypeOK, InHand, InSession, Ongoing,
        dbVars, callVars
  <2>2. local[s] = s
    BY <1>3, <1>a, <1>b, MassStoreAssumption DEF WriteReport, ControlInv
  <2>3. \A u \in Store : txn'[u].row = txn[u].row
    BY <1>3, <1>a, <2>2, AddedFacts DEF WriteReport, ControlInv, TypeOK
  <2>4. /\ DOMAIN sessions' = DOMAIN sessions
        /\ \A id \in DOMAIN sessions :
             /\ sessions'[id].txn = sessions[id].txn
             /\ ~sessions'[id].fresh => ~sessions[id].fresh
    BY <1>3, <1>a, SMTT(20) DEF WriteReport, TypeOK, ControlInv, Ongoing
  <2> QED
    BY <1>0, <2>1, <2>3, <2>4 DEF SessionStep
<1>4. CASE TouchReport(s)
  <2>1. /\ UNCHANGED <<rid, call, runs, timer>>
        /\ \A u \in Store \ {s} : pc'[u] = pc[u] /\ local'[u] = local[u]
        /\ local'[s] \in {local[s], None, s}
        /\ \/ pc'[s] \in InHand \cup {"failed"}
           \/ pc'[s] = "acked" /\ rid[s] \notin DOMAIN sessions
    BY <1>4, <1>a, <1>b, SMTT(20)
    DEF TouchReport, Goto, Fail, Ack, TypeOK, InHand, InSession, Ongoing,
        dbVars, callVars
  <2>3. \A u \in Store : txn'[u].row = txn[u].row
    BY <1>4 DEF TouchReport, dbVars
  <2>4. /\ DOMAIN sessions' = DOMAIN sessions
        /\ \A id \in DOMAIN sessions :
             /\ sessions'[id].txn = sessions[id].txn
             /\ ~sessions'[id].fresh => ~sessions[id].fresh
    BY <1>4, <1>a, TouchFacts, SMTT(20)
    DEF TouchReport, TypeOK, ControlInv, Ongoing
  <2> QED
    BY <1>0, <2>1, <2>3, <2>4 DEF SessionStep
<1>5. CASE RaiseInStore(s)
  <2>1. /\ UNCHANGED <<rid, call, runs, timer>>
        /\ \A u \in Store \ {s} : pc'[u] = pc[u] /\ local'[u] = local[u]
        /\ local'[s] \in {local[s], None, s}
        /\ \/ pc'[s] \in InHand \cup {"failed"}
           \/ pc'[s] = "acked" /\ rid[s] \notin DOMAIN sessions
    BY <1>5, <1>a, <1>b, SMTT(20)
    DEF RaiseInStore, Goto, Fail, Ack, TypeOK, InHand, InSession, Ongoing,
        dbVars, callVars
  <2>3. \A u \in Store : txn'[u].row = txn[u].row
    BY <1>5 DEF RaiseInStore, dbVars
  <2>4. /\ DOMAIN sessions' = DOMAIN sessions
        /\ \A id \in DOMAIN sessions :
             /\ sessions'[id].txn = sessions[id].txn
             /\ ~sessions'[id].fresh => ~sessions[id].fresh
    BY <1>5, <1>a, SMTT(20) DEF RaiseInStore, TypeOK, ControlInv, Ongoing
  <2> QED
    BY <1>0, <2>1, <2>3, <2>4 DEF SessionStep
<1>6. CASE SetRunDuration(s)
  <2>1. /\ UNCHANGED <<rid, call, runs, timer>>
        /\ \A u \in Store \ {s} : pc'[u] = pc[u] /\ local'[u] = local[u]
        /\ local'[s] \in {local[s], None, s}
        /\ \/ pc'[s] \in InHand \cup {"failed"}
           \/ pc'[s] = "acked" /\ rid[s] \notin DOMAIN sessions
    BY <1>6, <1>a, <1>b, SMTT(20)
    DEF SetRunDuration, Goto, Fail, Ack, TypeOK, InHand, InSession, Ongoing,
        dbVars, callVars
  <2>3. \A u \in Store : txn'[u].row = txn[u].row
    BY <1>6, <1>b, <1>c DEF SetRunDuration
  <2>4. /\ DOMAIN sessions' = DOMAIN sessions
        /\ \A id \in DOMAIN sessions :
             /\ sessions'[id].txn = sessions[id].txn
             /\ ~sessions'[id].fresh => ~sessions[id].fresh
    BY <1>6, <1>a, RefreshFacts, SMTT(20)
    DEF SetRunDuration, TypeOK, ControlInv, Ongoing
  <2> QED
    BY <1>0, <2>1, <2>3, <2>4 DEF SessionStep
<1>7. CASE FinishCheckerRun(s)
  <2>1. /\ UNCHANGED <<rid, call, runs, timer>>
        /\ \A u \in Store \ {s} : pc'[u] = pc[u] /\ local'[u] = local[u]
        /\ local'[s] \in {local[s], None, s}
        /\ \/ pc'[s] \in InHand \cup {"failed"}
           \/ pc'[s] = "acked" /\ rid[s] \notin DOMAIN sessions
    BY <1>7, <1>a, <1>b, SMTT(20)
    DEF FinishCheckerRun, Goto, Fail, Ack, TypeOK, InHand, InSession, Ongoing,
        dbVars, callVars
  <2>3. \A u \in Store : txn'[u].row = txn[u].row
    BY <1>7 DEF FinishCheckerRun, dbVars
  <2>4. /\ DOMAIN sessions' = DOMAIN sessions
        /\ \A id \in DOMAIN sessions :
             /\ sessions'[id].txn = sessions[id].txn
             /\ ~sessions'[id].fresh => ~sessions[id].fresh
    BY <1>7, <1>a, RefreshFacts, SMTT(20)
    DEF FinishCheckerRun, TypeOK, ControlInv, Ongoing
  <2> QED
    BY <1>0, <2>1, <2>3, <2>4 DEF SessionStep
<1>8. CASE MarkFinished(s)
  <2>1. /\ UNCHANGED <<rid, call, runs, timer>>
        /\ \A u \in Store \ {s} : pc'[u] = pc[u] /\ local'[u] = local[u]
        /\ local'[s] \in {local[s], None, s}
        /\ \/ pc'[s] \in InHand \cup {"failed"}
           \/ pc'[s] = "acked" /\ rid[s] \notin DOMAIN sessions
    BY <1>8, <1>a, <1>b, SMTT(20)
    DEF MarkFinished, Goto, Fail, Ack, TypeOK, InHand, InSession, Ongoing,
        dbVars, callVars
  <2>2. local[s] = s
    BY <1>8, <1>a, <1>b, MassStoreAssumption DEF MarkFinished, ControlInv
  <2>3. \A u \in Store : txn'[u].row = txn[u].row
    BY <1>8, <1>c, <2>2 DEF MarkFinished
  <2>4. /\ DOMAIN sessions' = DOMAIN sessions
        /\ \A id \in DOMAIN sessions :
             /\ sessions'[id].txn = sessions[id].txn
             /\ ~sessions'[id].fresh => ~sessions[id].fresh
    BY <1>8, <1>a, SMTT(20) DEF MarkFinished, TypeOK, ControlInv, Ongoing
  <2> QED
    BY <1>0, <2>1, <2>3, <2>4 DEF SessionStep
<1>9. CASE EndRunSession(s)
  <2>1. /\ UNCHANGED <<rid, call, runs, timer>>
        /\ \A u \in Store \ {s} : pc'[u] = pc[u] /\ local'[u] = local[u]
        /\ local'[s] \in {local[s], None, s}
        /\ \/ pc'[s] \in InHand \cup {"failed"}
           \/ pc'[s] = "acked" /\ rid[s] \notin DOMAIN sessions
    BY <1>9, <1>a, <1>b, SMTT(20)
    DEF EndRunSession, Goto, Fail, Ack, TypeOK, InHand, InSession, Ongoing,
        dbVars, callVars
  <2>3. \A u \in Store : txn'[u].row = txn[u].row
    BY <1>9, EndFacts
  <2>4. /\ DOMAIN sessions' = DOMAIN sessions
        /\ \A id \in DOMAIN sessions :
             /\ sessions'[id].txn = sessions[id].txn
             /\ ~sessions'[id].fresh => ~sessions[id].fresh
    BY <1>9, <1>a, SMTT(20) DEF EndRunSession, TypeOK, ControlInv, Ongoing
  <2> QED
    BY <1>0, <2>1, <2>3, <2>4 DEF SessionStep
<1> QED
  BY <1>1, <1>2, <1>3, <1>4, <1>5, <1>6, <1>7, <1>8, <1>9

(* abort_session called by the store itself keeps the ownership.           *)
LEMMA AbortOwned ==
  ASSUME TypeInv, IdInv, OwnedInv, NEW s \in Store, AbortSession(s)
  PROVE  OwnedInv'
<1>a. TypeOK /\ ControlInv /\ SessionInv
  BY DEF TypeInv
<1>0. pc[s] \in InHand
  BY DEF AbortSession, InHand, InSession
<1>1. CASE Ongoing(rid[s])
  <2>1. sessions[rid[s]].txn = s
    BY <1>0, <1>1, OwnSession DEF Ongoing
  <2>2. /\ txn' = Rollback(s) /\ Goto(s, "drop")
        /\ UNCHANGED <<local, call, rid, sessions, runs, timer>>
    BY <1>1, <2>1 DEF AbortSession
  <2>3. ReleaseStep(s)
    BY <1>a, <1>0, <2>2 DEF ReleaseStep, Rollback, Begun, Goto, TypeOK
  <2> QED
    BY <2>3, ReleaseStepOwned
<1>2. CASE ~Ongoing(rid[s])
  <2>1. SessionStep(s)
    BY <1>a, <1>0, <1>2
    DEF AbortSession, SessionStep, Ack, Goto, Ongoing, TypeOK
  <2> QED
    BY <2>1, SessionStepOwned
<1> QED
  BY <1>1, <1>2

(* The commit keeps the ownership: it is the commit of the store itself.   *)
LEMMA CommitOwned ==
  ASSUME TypeInv, IdInv, OwnedInv, NEW s \in Store, Commit(s)
  PROVE  OwnedInv'
<1>a. TypeOK /\ ControlInv /\ SessionInv /\ LockInv
  BY DEF TypeInv, OwnedInv
<1>0. pc[s] = "commit" /\ pc[s] \in InHand
  BY DEF Commit, InHand, InSession
<1>1. local[s] = s /\ Hold(s)
  BY <1>0, <1>a, OwnSession DEF ControlInv
<1>2. Visible(s)
  BY <1>a, <1>1 DEF LockInv, Hold, Visible, TypeOK, Txn
<1>3. pc'[s] = "drop"
  BY <1>a, <1>1, <1>2 DEF Commit, Goto, TypeOK
<1>4. \A p \in Product : DOMAIN runs[p] \subseteq DOMAIN runs'[p]
  BY <1>1, CommitFacts
<1>5. ReleaseStep(s)
  BY <1>0, <1>1, <1>3, <1>4, CommitFacts DEF ReleaseStep
<1> QED
  BY <1>5, ReleaseStepOwned

(* With one product all the calls work in the same database.               *)
LEMMA OneDatabase ==
  ASSUME Calm, TypeInv, NEW s \in Store, NEW t \in Store,
         pc[s] # "idle", pc[t] # "idle"
  PROVE  Db(s) = Db(t)
  BY DEF Calm, TypeInv, ControlInv, Db, Call

(* start_run_session may overwrite a key, but never one in use.            *)
LEMMA StartOwned ==
  ASSUME TypeInv, IdInv, OwnedInv, NEW s \in Store, StartRunSession(s)
  PROVE  OwnedInv'
<1>a. /\ TypeOK /\ ControlInv /\ SessionInv
      /\ LockInv /\ OwnerInv /\ TimerInv /\ OwnTransaction
  BY DEF TypeInv, OwnedInv
<1>1. /\ UNCHANGED <<rid, call, txn, runs, timer, local>>
      /\ pc[s] = "start" /\ pc'[s] = "get"
      /\ \A u \in Store \ {s} : pc'[u] = pc[u]
      /\ DOMAIN sessions' = DOMAIN sessions \cup {rid[s]}
      /\ sessions'[rid[s]].txn = s /\ sessions'[rid[s]].fresh
      /\ \A id \in DOMAIN sessions \ {rid[s]} : sessions'[id] = sessions[id]
  BY <1>a DEF StartRunSession, dbVars, Goto, Put, TypeOK
<1>2. Hold(s) /\ rid[s] # None
  BY <1>a, <1>1 DEF LockInv
<1>3. \A u \in Store : pc[u] \in InHand /\ rid[u] = rid[s] => u = s
  BY <1>a, <1>2 DEF LockInv, InHand
<1>4. LockInv'
  BY <1>a, <1>1, <1>2 DEF LockInv, Hold, Db, InSession
<1>5. \A id : id # rid[s] /\ Abandoned(id) => Abandoned(id)'
  BY <1>1 DEF Abandoned
<1>6. OwnerInv'
  <2>1. ASSUME NEW id \in DOMAIN sessions'
        PROVE  /\ \/ pc'[sessions'[id].txn] \in InSession
                  \/ /\ pc'[sessions'[id].txn] = "failed"
                     /\ \/ txn'[sessions'[id].txn].row # "none"
                        \/ timer'.state = "del" /\ timer'.key = id
               /\ ~sessions'[id].fresh => Abandoned(id)'
    <3>1. CASE id = rid[s]
      BY <1>1, <3>1 DEF InSession
    <3>2. CASE id # rid[s]
      <4>1. id \in DOMAIN sessions /\ sessions'[id] = sessions[id]
            /\ sessions[id].txn \in Store
        BY <1>1, <1>a, <2>1, <3>2 DEF SessionInv, Handed
      <4>2. sessions[id].txn # s
        BY <1>a, <3>2, <4>1 DEF SessionInv
      <4> QED
        BY <1>1, <1>5, <1>a, <3>2, <4>1, <4>2 DEF OwnerInv, Hold
    <3> QED
      BY <3>1, <3>2
  <2>2. \A u \in Store :
          pc'[u] \in InHand /\ rid[u] \in DOMAIN sessions'
            => sessions'[rid[u]].txn = u
    BY <1>a, <1>1, <1>3 DEF OwnerInv, InHand
  <2> QED
    BY <1>1, <2>1, <2>2 DEF OwnerInv, Hold, InHand
<1>7. TimerInv'
  <2>1. timer.state = "abort" => timer.key # rid[s]
    BY <1>a, <1>1, <1>2 DEF TimerInv, LockInv, SessionInv, Handed
  <2> QED
    BY <1>a, <1>1, <1>5, <2>1 DEF TimerInv, Hold, SessionInv, Handed
<1>8. OwnTransaction'
  BY <1>a, <1>1 DEF OwnTransaction
<1> QED
  BY <1>4, <1>6, <1>7, <1>8 DEF OwnedInv

(* The steps of a call before its session starts.                          *)
EarlyStep(s) ==
  /\ pc[s] \in Early
  /\ pc'[s] \in {"lookup", "insert", "rejected", "update", "start", "failed"}
  /\ UNCHANGED <<runs, sessions, timer>>
  /\ \A u \in Store \ {s} : /\ pc'[u] = pc[u] /\ rid'[u] = rid[u]
                            /\ call'[u] = call[u]
                            /\ txn'[u].row = txn[u].row
                            /\ local'[u] = local[u]
  /\ local'[s] \in {local[s], None}
  /\ pc'[s] = "update" => rid'[s] \in DOMAIN runs[call'[s].product]
  /\ txn'[s].row = "updated" => rid'[s] \in DOMAIN runs[call'[s].product]
  /\ IF txn'[s].row = "none" THEN pc'[s] # "start"
     ELSE rid'[s] # None /\ \A u \in Store \ {s} : Hold(u) => rid[u] # rid'[s]

(* The steps before the session keep the ownership.                        *)
LEMMA EarlyStepOwned ==
  ASSUME TypeInv, IdInv, OwnedInv, NEW s \in Store, EarlyStep(s)
  PROVE  OwnedInv'
<1>a. /\ TypeOK /\ ControlInv /\ SessionInv
      /\ LockInv /\ OwnerInv /\ TimerInv /\ OwnTransaction
  BY DEF TypeInv, OwnedInv
<1>1. pc[s] \notin InSession /\ pc'[s] \notin InSession /\ pc[s] \notin Final
      /\ txn[s].row = "none"
  BY DEF EarlyStep, InSession, Early, IdInv, Final
<1>2. \A id \in DOMAIN sessions : sessions[id].txn \in Store \ {s}
  BY <1>a, <1>1 DEF SessionInv, Handed, Final
<1>3. \A id : Abandoned(id) => Abandoned(id)'
  BY <1>1 DEF EarlyStep, Abandoned
<1>4. LockInv'
  <2>1. \A u \in Store :
          /\ pc'[u] \in {"start"} \cup InHand => Hold(u)'
          /\ Hold(u)' => rid'[u] # None
    BY <1>a, <1>1 DEF LockInv, Hold, EarlyStep, InHand
  <2>2. \A u \in Store :
          /\ pc'[u] = "update" => rid'[u] \in DOMAIN runs'[Db(u)']
          /\ txn'[u].row = "updated" => rid'[u] \in DOMAIN runs'[Db(u)']
    BY <1>a DEF LockInv, EarlyStep, Db
  <2>3. \A u, v \in Store : Hold(u)' /\ Hold(v)' /\ rid'[u] = rid'[v] => u = v
    BY <1>a DEF LockInv, Hold, EarlyStep
  <2> QED
    BY <2>1, <2>2, <2>3 DEF LockInv, InHand
<1>5. OwnerInv'
  BY <1>a, <1>1, <1>2, <1>3 DEF OwnerInv, EarlyStep, Hold, InHand
<1>6. TimerInv'
  BY <1>a, <1>2, <1>3 DEF TimerInv, EarlyStep, Hold
<1>7. OwnTransaction'
  BY <1>a DEF OwnTransaction, EarlyStep
<1> QED
  BY <1>4, <1>5, <1>6, <1>7 DEF OwnedInv

(* The steps up to the flush of the run are such steps: the lock on the    *)
(* row, or the fresh id, keeps two stores apart.                           *)
LEMMA EarlySteps ==
  ASSUME Calm, TypeInv, IdInv, OwnedInv, NEW s \in Store,
         Receive(s) \/ Lookup(s) \/ UpdateRun(s) \/ InsertRun(s)
  PROVE  EarlyStep(s)
<1>a. /\ TypeOK /\ ControlInv /\ LockInv
  BY DEF TypeInv, OwnedInv
<1>1. CASE Receive(s)
  BY <1>1, <1>a DEF Receive, EarlyStep, Early, dbVars, Goto, IdInv, TypeOK
<1>2. CASE Lookup(s)
  <2>1. /\ UNCHANGED <<call, local, sessions, txn, runs, timer>>
        /\ pc[s] = "lookup" /\ txn[s].row = "none"
        /\ \A u \in Store \ {s} : pc'[u] = pc[u] /\ rid'[u] = rid[u]
    BY <1>2, <1>a DEF Lookup, dbVars, IdInv, Goto, TypeOK
  <2>2. \/ pc'[s] \in {"insert", "rejected"}
        \/ pc'[s] = "update" /\ rid'[s] \in DOMAIN runs[Db(s)]
    BY <1>2, <1>a, SMTT(20) DEF Lookup, Goto, Named, TypeOK
  <2> QED
    BY <2>1, <2>2 DEF EarlyStep, Early, Db
<1>3. CASE UpdateRun(s)
  <2>1. /\ UNCHANGED <<call, rid, local, sessions, runs, timer>>
        /\ pc[s] = "update" /\ pc'[s] = "start"
        /\ \A u \in Store \ {s} : pc'[u] = pc[u] /\ txn'[u] = txn[u]
        /\ txn'[s] = [Begun EXCEPT !.row = "updated"]
        /\ ~RowHeldByOther(s, rid[s])
    BY <1>3, <1>a DEF UpdateRun, Goto, TypeOK
  <2>2. txn'[s].row = "updated"
    BY <2>1, <1>a, TxnFacts DEF TypeOK
  <2>3. rid[s] \in DOMAIN runs[Db(s)] /\ rid[s] # None
    BY <1>a, <2>1, MassStoreAssumption DEF LockInv, ControlInv
  <2>4. \A u \in Store \ {s} : Hold(u) => rid[u] # rid[s]
    <3>1. \A u \in Store : Hold(u) => pc[u] # "idle"
      BY DEF IdInv, Hold
    <3> QED
      BY <2>1, <3>1, OneDatabase DEF RowHeldByOther, Hold
  <2> QED
    BY <2>1, <2>2, <2>3, <2>4 DEF EarlyStep, Early, Db
<1>4. CASE InsertRun(s)
  <2>1. \A u \in Store \ {s} : Hold(u) => rid[u] < nextId[Db(s)]
    <3>1. \A u \in Store : Hold(u) => pc[u] # "idle" /\ rid[u] # None
      BY <1>a DEF IdInv, Hold, LockInv
    <3>2. pc[s] # "idle"
      BY <1>4, InsertFacts
    <3> QED
      BY <3>1, <3>2, OneDatabase DEF IdInv
  <2>2. nextId[Db(s)] \in Nat /\ nextId[Db(s)] # None
    BY <1>4, InsertFacts, MassStoreAssumption
  <2>3. \A u \in Store \ {s} : Hold(u) => rid[u] # nextId[Db(s)]
    <3>1. \A u \in Store : Hold(u) => rid[u] \in Nat
      BY <1>a DEF LockInv, TypeOK
    <3> QED
      BY <2>1, <2>2, <3>1
  <2>4. txn[s].row = "none" /\ pc[s] = "insert"
    BY <1>4, InsertFacts DEF IdInv
  <2> QED
    BY <1>4, <2>2, <2>3, <2>4, InsertFacts DEF EarlyStep, Early
<1> QED
  BY <1>1, <1>2, <1>3, <1>4

(* Removing the key keeps the ownership.                                   *)
LEMMA DropOwned ==
  ASSUME TypeInv, OwnedInv, NEW s \in Store, DropSession(s)
  PROVE  OwnedInv'
<1>a. /\ TypeOK /\ SessionInv
      /\ LockInv /\ OwnerInv /\ TimerInv /\ OwnTransaction
  BY DEF TypeInv, OwnedInv
<1>1. /\ UNCHANGED <<rid, call, txn, runs, timer>>
      /\ pc[s] = "drop" /\ pc'[s] = "acked"
      /\ \A u \in Store \ {s} : pc'[u] = pc[u] /\ local'[u] = local[u]
      /\ local'[s] = None
      /\ DOMAIN sessions' = DOMAIN sessions \ {rid[s]}
      /\ \A id \in DOMAIN sessions \ {rid[s]} : sessions'[id] = sessions[id]
  BY <1>a DEF DropSession, dbVars, Ack, Goto, Drop, Ongoing, TypeOK
<1>2. \A id : Abandoned(id) => Abandoned(id)' /\ id # rid[s]
  BY <1>1 DEF Abandoned, InSession
<1>3. LockInv'
  BY <1>a, <1>1 DEF LockInv, Hold, Db, InSession
<1>4. OwnerInv'
  <2>1. \A id \in DOMAIN sessions' : sessions[id].txn \in Store \ {s}
    BY <1>a, <1>1 DEF SessionInv, Handed
  <2> QED
    BY <1>a, <1>1, <1>2, <2>1 DEF OwnerInv, Hold, InSession
<1>5. TimerInv'
  BY <1>a, <1>1, <1>2 DEF TimerInv, Hold, SessionInv, Handed, InSession
<1>6. OwnTransaction'
  BY <1>a, <1>1 DEF OwnTransaction
<1> QED
  BY <1>3, <1>4, <1>5, <1>6 DEF OwnedInv

(* The rollback of the transaction t of a call that is not running, when   *)
(* no session of the dictionary counts on it.                              *)
LEMMA RollbackOwned ==
  ASSUME TypeInv, OwnedInv, NEW t \in Store, ~Running(t), txn' = Rollback(t),
         UNCHANGED <<pc, rid, call, local, sessions, runs>>,
         \A id \in DOMAIN sessions :
           sessions[id].txn = t => timer'.state = "del" /\ timer'.key = id,
         timer' = timer \/ (timer'.state = "del" /\ timer.state = "abort")
  PROVE  OwnedInv'
<1>a. /\ TypeOK /\ SessionInv
      /\ LockInv /\ OwnerInv /\ TimerInv /\ OwnTransaction
  BY DEF TypeInv, OwnedInv
<1>1. /\ txn'[t].row = "none"
      /\ \A u \in Store \ {t} : txn'[u] = txn[u]
      /\ pc[t] \in {"idle"} \cup Final
  BY <1>a DEF Rollback, Begun, Running, TypeOK
<1>2. LockInv'
  BY <1>a, <1>1 DEF LockInv, Hold, Db, InSession, Final
<1>3. \A id : Abandoned(id)' = Abandoned(id)
  BY DEF Abandoned
<1>4. \A id \in DOMAIN sessions : sessions[id].txn \in Store
  BY <1>a DEF SessionInv, Handed
<1>5. OwnerInv'
  BY <1>a, <1>1, <1>3, <1>4 DEF OwnerInv, Hold
<1>6. TimerInv'
  BY <1>a, <1>1, <1>3, <1>4 DEF TimerInv, Hold
<1>7. OwnTransaction'
  BY <1>a DEF OwnTransaction
<1> QED
  BY <1>2, <1>5, <1>6, <1>7 DEF OwnedInv

(* The timer thread only aborts stores that have failed.                   *)
LEMMA TimerOwned ==
  ASSUME TypeInv, OwnedInv, Timer
  PROVE  OwnedInv'
<1>a. /\ TypeOK /\ SessionInv
      /\ LockInv /\ OwnerInv /\ TimerInv /\ OwnTransaction
  BY DEF TypeInv, OwnedInv
<1>b. \A id \in DOMAIN sessions : sessions[id].txn \in Store
  BY <1>a DEF SessionInv, Handed
<1>1. ASSUME UNCHANGED <<callVars, sessions, dbVars>>, timer.state # "del",
             timer'.state = "abort" =>
               /\ timer'.key \in DOMAIN sessions
               /\ ~sessions[timer'.key].fresh
      PROVE  OwnedInv'
  <2>1. LockInv' /\ OwnTransaction'
    BY <1>a, <1>1 DEF LockInv, OwnTransaction, Hold, Db, callVars, dbVars
  <2>2. OwnerInv'
    BY <1>a, <1>1 DEF OwnerInv, Hold, Abandoned, callVars, dbVars
  <2>3. TimerInv'
    <3>1. ASSUME NEW id \in DOMAIN sessions, ~sessions[id].fresh
          PROVE  /\ Abandoned(id)
                 /\ pc[sessions[id].txn] = "failed"
                 /\ Hold(sessions[id].txn)
      BY <1>a, <1>b, <1>1, <3>1 DEF OwnerInv, Abandoned, SessionInv
    <3> QED
      BY <1>1, <3>1 DEF TimerInv, Hold, Abandoned, callVars, dbVars
  <2> QED
    BY <2>1, <2>2, <2>3 DEF OwnedInv
<1>2. CASE TimerWake
  <2>1. timer.state = "sleep" /\ timer'.state = "scan"
    BY <1>2 DEF TimerWake
  <2> QED
    BY <1>1, <1>2, <2>1 DEF TimerWake
<1>3. CASE TimerNext
  <2>0. timer.state = "scan"
    BY <1>3 DEF TimerNext
  <2>1. \/ timer' = [timer EXCEPT !.state = "dead"]
        \/ timer' = Asleep
        \/ \E id \in DOMAIN sessions : timer' = [timer EXCEPT !.visited = @ \cup {id}]
        \/ \E id \in DOMAIN sessions : ~sessions[id].fresh /\
              timer' = [timer EXCEPT !.state = "abort", !.key = id]
    BY <1>3, Zenon DEF TimerNext
  <2>2. ASSUME NEW x \in TimerThread, NEW id, x.state = "scan"
        PROVE  /\ [x EXCEPT !.state = "dead"].state = "dead"
               /\ [x EXCEPT !.visited = @ \cup {id}].state = "scan"
               /\ [x EXCEPT !.state = "abort", !.key = id].key = id
    BY <2>2 DEF TimerThread
  <2>3. timer'.state = "abort" =>
               /\ timer'.key \in DOMAIN sessions
               /\ ~sessions[timer'.key].fresh
    <3>1. timer \in TimerThread
      BY <1>a DEF TypeOK
    <3>2. CASE timer' = [timer EXCEPT !.state = "dead"]
      BY <2>0, <2>2, <3>1, <3>2
    <3>3. CASE timer' = Asleep
      BY <3>3 DEF Asleep
    <3>4. ASSUME NEW id \in DOMAIN sessions, timer' = [timer EXCEPT !.visited = @ \cup {id}]
          PROVE timer'.state = "scan"
      BY <2>0, <2>2, <3>1, <3>4
    <3>5. ASSUME NEW id \in DOMAIN sessions, ~sessions[id].fresh,
              timer' = [timer EXCEPT !.state = "abort", !.key = id]
          PROVE timer'.key \in DOMAIN sessions /\ ~sessions[timer'.key].fresh
      <4>1. timer'.key = id
        BY <2>0, <2>2, <3>1, <3>5
      <4> QED
        BY <3>5, <4>1
    <3> QED
      BY <2>1, <3>2, <3>3, <3>4, <3>5
  <2> QED
    BY <1>1, <1>3, <2>0, <2>3 DEF TimerNext
<1>4. CASE TimerAbort
  <2> DEFINE t == sessions[timer.key].txn
  <2>1. /\ timer.key \in DOMAIN sessions /\ t \in Store
        /\ pc[t] = "failed" /\ timer.state = "abort"
    BY <1>4, <1>a, <1>b DEF TimerAbort, TimerInv
  <2>2. /\ txn' = Rollback(t)
        /\ timer' = [timer EXCEPT !.state = "del"]
        /\ UNCHANGED <<callVars, sessions, runs>>
    BY <1>4, <2>1 DEF TimerAbort, Ongoing
  <2>3. timer'.state = "del" /\ timer'.key = timer.key
    BY <1>a, <2>2 DEF TypeOK, TimerThread
  <2>4. \A id \in DOMAIN sessions : sessions[id].txn = t => id = timer.key
    BY <1>a, <2>1 DEF SessionInv
  <2>5. ~Running(t)
    BY <2>1 DEF Running, Final
  <2> HIDE DEF t
  <2>6. UNCHANGED <<pc, rid, call, local, sessions, runs>>
    BY <2>2 DEF callVars
  <2> QED
    BY <2>1, <2>2, <2>3, <2>4, <2>5, <2>6, RollbackOwned
<1>5. CASE TimerDel
  <2>1. /\ UNCHANGED <<callVars, dbVars>>
        /\ timer.state = "del"
        /\ timer'.state \in {"sleep", "dead"}
        /\ DOMAIN sessions' = DOMAIN sessions \ {timer.key}
        /\ \A id \in DOMAIN sessions' : sessions'[id] = sessions[id]
    <3>1. /\ UNCHANGED <<callVars, dbVars>> /\ timer.state = "del"
          /\ timer' \in {Asleep, [timer EXCEPT !.state = "dead"]}
      BY <1>5 DEF TimerDel
    <3>2. /\ Asleep.state = "sleep"
          /\ [timer EXCEPT !.state = "dead"].state = "dead"
      BY <1>a DEF Asleep, TypeOK, TimerThread
    <3>3. /\ DOMAIN sessions' = DOMAIN sessions \ {timer.key}
          /\ \A id \in DOMAIN sessions' : sessions'[id] = sessions[id]
      BY <1>5 DEF TimerDel, Ongoing, Drop
    <3> QED
      BY <3>1, <3>2, <3>3
  <2>2. LockInv' /\ OwnTransaction'
    BY <1>a, <2>1 DEF LockInv, OwnTransaction, Hold, Db, callVars, dbVars
  <2>3. OwnerInv'
    BY <1>a, <1>b, <2>1 DEF OwnerInv, Hold, Abandoned, callVars, dbVars
  <2>4. TimerInv'
    BY <2>1 DEF TimerInv
  <2> QED
    BY <2>2, <2>3, <2>4 DEF OwnedInv
<1> QED
  BY <1>2, <1>3, <1>4, <1>5 DEF Timer

(* The ownership facts hold when the server starts.                        *)
LEMMA OwnedInit == Init => OwnedInv
  BY DEF Init, OwnedInv, LockInv, OwnerInv, TimerInv, OwnTransaction, Hold,
     InSession, Begun, Empty, Asleep

(* Every step keeps the ownership, in calm circumstances.                  *)
LEMMA OwnedStep ==
  ASSUME Calm
  PROVE  TypeInv /\ IdInv /\ OwnedInv /\ [Next]_vars => OwnedInv'
<1> SUFFICES ASSUME TypeInv, IdInv, OwnedInv, [Next]_vars PROVE OwnedInv'
  OBVIOUS
<1>a. /\ TypeOK /\ SessionInv
      /\ LockInv /\ OwnerInv /\ TimerInv /\ OwnTransaction
  BY DEF TypeInv, OwnedInv
<1>1. ASSUME NEW s \in Store, Receive(s) \/ Proceed(s) PROVE OwnedInv'
  <2>1. ASSUME Receive(s) \/ Lookup(s) \/ UpdateRun(s) \/ InsertRun(s)
        PROVE  OwnedInv'
    BY <2>1, EarlySteps, EarlyStepOwned
  <2>2. ASSUME \/ GetTransaction(s) \/ AddReport(s) \/ WriteReport(s)
               \/ TouchReport(s) \/ RaiseInStore(s) \/ SetRunDuration(s)
               \/ FinishCheckerRun(s) \/ MarkFinished(s) \/ EndRunSession(s)
        PROVE  OwnedInv'
    BY <2>2, SessionSteps, SessionStepOwned
  <2>3. ASSUME StartRunSession(s) \/ AbortSession(s) \/ Commit(s) \/ DropSession(s)
        PROVE  OwnedInv'
    BY <2>3, StartOwned, AbortOwned, CommitOwned, DropOwned
  <2> QED
    BY <1>1, <2>1, <2>2, <2>3 DEF Proceed
<1>2. ASSUME NEW s \in Store, RaiseInStore(s) PROVE OwnedInv'
  BY <1>2, SessionSteps, SessionStepOwned
<1>3. ASSUME NEW s \in Store, CommitFails(s) PROVE OwnedInv'
  BY <1>3, <1>a DEF CommitFails, Calm, TypeOK
<1>4. ASSUME NEW s \in Store, Collect(s) PROVE OwnedInv'
  <2>1. UNCHANGED <<pc, rid, call, local, sessions, runs>> /\ timer' = timer
    BY <1>4 DEF Collect, callVars
  <2>2. /\ ~Running(s) /\ txn' = Rollback(s)
        /\ \A id \in DOMAIN sessions : sessions[id].txn # s
    BY <1>4 DEF Collect
  <2>3. \A id \in DOMAIN sessions :
          sessions[id].txn = s => timer'.state = "del" /\ timer'.key = id
    BY <2>2, Zenon
  <2>4. timer' = timer \/ (timer'.state = "del" /\ timer.state = "abort")
    BY <2>1, Zenon
  <2>5. UNCHANGED <<pc, rid, call, local, sessions, runs>>
    BY <2>1
  <2>6. ~Running(s) /\ txn' = Rollback(s)
    BY <2>2
  <2> QED
    BY <2>3, <2>4, <2>5, <2>6, RollbackOwned, Zenon
<1>5. ASSUME NEW k \in DOMAIN sessions, GoStale(k) PROVE OwnedInv'
  <2>1. /\ Abandoned(k)
        /\ UNCHANGED <<callVars, dbVars, timer>>
    BY <1>5 DEF GoStale, Calm
  <2>2. /\ DOMAIN sessions' = DOMAIN sessions
        /\ \A id \in DOMAIN sessions :
             /\ sessions'[id].txn = sessions[id].txn
             /\ id # k => sessions'[id].fresh = sessions[id].fresh
    BY <1>5, <1>a, StaleFacts DEF GoStale, TypeOK
  <2>3. LockInv' /\ OwnTransaction'
    BY <1>a, <2>1 DEF LockInv, OwnTransaction, Hold, Db, callVars, dbVars
  <2>4. OwnerInv'
    BY <1>a, <2>1, <2>2 DEF OwnerInv, Hold, Abandoned, SessionInv, Handed,
       callVars, dbVars
  <2>5. TimerInv'
    BY <1>a, <2>1, <2>2 DEF TimerInv, Hold, Abandoned, callVars, dbVars
  <2> QED
    BY <2>3, <2>4, <2>5 DEF OwnedInv
<1>6. CASE Timer
  BY <1>6, TimerOwned
<1>7. CASE Crash
  <2>1. /\ sessions' = Empty /\ timer' = Asleep
        /\ \A s \in Store : /\ pc'[s] \in {"idle"} \cup Final
                            /\ txn'[s].row = "none"
                            /\ local'[s] = None
    BY <1>7, <1>a DEF Crash, TypeOK, Running, Begun, Final
  <2> QED
    BY <2>1 DEF OwnedInv, LockInv, OwnerInv, TimerInv, OwnTransaction, Hold,
       InSession, Empty, Asleep, Final
<1>8. CASE UNCHANGED vars
  BY <1>8, <1>a DEF OwnedInv, LockInv, OwnerInv, TimerInv, OwnTransaction,
     Hold, Abandoned, Db, vars, callVars, dbVars
<1> QED
  BY <1>1, <1>2, <1>3, <1>4, <1>5, <1>6, <1>7, <1>8 DEF Next

(* With one product, stores that are never slow and commits that succeed,  *)
(* no store writes to or commits the transaction of another, however many  *)
(* stores, failures and crashes there are.                                 *)
THEOREM OwnTransactionCorrect ==
  ASSUME Calm
  PROVE  Spec => []OwnTransaction
<1>1. OwnedInv => OwnTransaction
  BY DEF OwnedInv
<1>2. TypeInv /\ IdInv /\ OwnedInv /\ [Next]_vars => OwnedInv'
  BY OwnedStep
<1>3. UniqueInv => IdInv
  BY DEF UniqueInv
<1> QED
  BY <1>1, <1>2, <1>3, TypeInit, TypeStep, UniqueInit, UniqueStep, OwnedInit,
     PTL DEF Spec
-----------------------------------------------------------------------------
(* How far a call has come: what it has added and touched, and what is     *)
(* left, make up what it found.                                            *)
WholeOf(s) ==
  /\ pc[s] \in (Early \ {"idle"}) \cup {"start", "get"} => left[s] = call[s].found
  /\ pc[s] \in {"start", "get"} => txn[s].added = {}
  /\ pc[s] \in {"add", "touch"} => txn[s].added \cup left[s] = call[s].found
  /\ pc[s] = "write" => txn[s].added \cup left[s] \cup {item[s]} = call[s].found
  /\ pc[s] \in {"finish", "mark", "end"} => txn[s].added = call[s].found
  /\ /\ pc[s] \in {"get", "add", "write", "finish", "mark", "end"}
     /\ rid[s] \in DOMAIN sessions
     => sessions[rid[s]].touched = txn[s].added
  /\ pc[s] = "touch" /\ rid[s] \in DOMAIN sessions
     => sessions[rid[s]].touched \cup {item[s]} = txn[s].added
  /\ pc[s] \in {"end", "commit"} => txn[s].finished
  /\ pc[s] = "commit" => OpenAfter(s) = call[s].found

WholeInv == CommittedIsWhole /\ \A s \in Store : WholeOf(s)

(* What a step of s leaves alone: the other calls, their transactions,     *)
(* what they have touched, and the run of whoever is about to commit.      *)
Beside(s) ==
  /\ \A d \in Store \ {s} :
       /\ pc'[d] = pc[d] /\ left'[d] = left[d] /\ item'[d] = item[d]
       /\ rid'[d] = rid[d] /\ call'[d] = call[d] /\ txn'[d] = txn[d]
  /\ \A id \in DOMAIN sessions' :
       \/ id \in DOMAIN sessions /\ sessions'[id].touched = sessions[id].touched
       \/ id = rid[s] /\ Hold(s)
  /\ \/ runs' = runs
     \/ /\ Hold(s)
        /\ \A d \in Store \ {s} :
             rid[d] # rid[s] /\ Hold(d) => CommittedOpen(d)' = CommittedOpen(d)

LEMMA BesideWhole ==
  ASSUME TypeInv, OwnedInv, NEW s \in Store, Beside(s),
         \A d \in Store : WholeOf(d), WholeOf(s)'
  PROVE  \A d \in Store : WholeOf(d)'
<1> SUFFICES ASSUME NEW d \in Store \ {s} PROVE WholeOf(d)'
  OBVIOUS
<1>1. /\ pc'[d] = pc[d] /\ left'[d] = left[d] /\ item'[d] = item[d]
      /\ rid'[d] = rid[d] /\ call'[d] = call[d] /\ txn'[d] = txn[d]
  BY DEF Beside
<1>2. pc[d] \in InHand => Hold(d)
  BY OwnSession
<1>3. pc[d] \in InHand /\ Hold(s) => rid[d] # rid[s]
  BY <1>2 DEF OwnedInv, LockInv
<1>4. pc[d] \in InHand /\ rid[d] \in DOMAIN sessions' =>
        /\ rid[d] \in DOMAIN sessions
        /\ sessions'[rid[d]].touched = sessions[rid[d]].touched
  BY <1>3 DEF Beside
<1>5. pc[d] = "commit" => OpenAfter(d)' = OpenAfter(d)
  <2> SUFFICES ASSUME pc[d] = "commit" PROVE OpenAfter(d)' = OpenAfter(d)
    OBVIOUS
  <2>1. CommittedOpen(d)' = CommittedOpen(d)
    <3>1. CASE runs' = runs
      BY <1>1, <3>1 DEF CommittedOpen, Db
    <3>2. CASE runs' # runs
      <4>1. Hold(s) /\ Hold(d) /\ rid[d] # rid[s]
        BY <1>2, <1>3, <3>2 DEF Beside, InHand, InSession
      <4> QED BY <3>2, <4>1 DEF Beside
    <3> QED BY <3>1, <3>2
  <2> QED BY <1>1, <2>1 DEF OpenAfter
<1>6. WholeOf(d)
  OBVIOUS
<1>7. CASE pc[d] \in InHand
  BY <1>1, <1>4, <1>5, <1>6, <1>7 DEF WholeOf, Early
<1>8. CASE pc[d] \notin InHand
  BY <1>1, <1>6, <1>8 DEF WholeOf, Early, InHand, InSession
<1> QED BY <1>7, <1>8

(* Runs that no step commits stay the results of the store they are of.    *)
LEMMA SameRuns ==
  ASSUME TypeOK, CommittedIsWhole, runs' = runs,
         \A w \in Store : rid[w] # None => rid'[w] = rid[w] /\ call'[w] = call[w]
  PROVE  CommittedIsWhole'
<1>1. \A p \in Product : \A id \in DOMAIN runs[p] : id # None
  BY MassStoreAssumption DEF TypeOK, IsMap
<1>2. WholeResults'
  <2> SUFFICES ASSUME NEW p \in Product, NEW id \in DOMAIN runs[p]
               PROVE  \E w \in Store : /\ call'[w] # None /\ rid'[w] = id
                                       /\ call'[w].product = p
                                       /\ call'[w].name = runs[p][id].name
                                       /\ call'[w].found = runs[p][id].open
    BY DEF WholeResults
  <2>1. PICK w \in Store : /\ call[w] # None /\ rid[w] = id
                           /\ call[w].product = p
                           /\ call[w].name = runs[p][id].name
                           /\ call[w].found = runs[p][id].open
    BY DEF CommittedIsWhole, WholeResults
  <2>2. rid'[w] = rid[w] /\ call'[w] = call[w]
    BY <1>1, <2>1
  <2> QED BY <2>1, <2>2
<1>3. CommittedRunsFinished'
  BY DEF CommittedIsWhole, CommittedRunsFinished
<1> QED BY <1>2, <1>3 DEF CommittedIsWhole

(* The steps of a call before its session starts, and the start.           *)
LEMMA EarlyWhole ==
  ASSUME TypeInv, IdInv, OwnedInv, WholeInv, NEW s \in Store,
         \/ Receive(s) \/ Lookup(s) \/ UpdateRun(s) \/ InsertRun(s)
         \/ StartRunSession(s)
  PROVE  WholeInv'
<1>a. TypeOK /\ ControlInv /\ LockInv /\ WholeOf(s) /\ CommittedIsWhole
  BY DEF TypeInv, OwnedInv, WholeInv
<1>1. CASE Receive(s)
  <2>1. PICK c \in Call : /\ call' = [call EXCEPT ![s] = c]
                          /\ left' = [left EXCEPT ![s] = c.found]
    BY <1>1 DEF Receive
  <2>2. /\ pc[s] = "idle" /\ pc'[s] = "lookup" /\ call'[s] = c /\ left'[s] = c.found
        /\ UNCHANGED <<item, rid, sessions, txn, runs>>
        /\ \A d \in Store \ {s} : pc'[d] = pc[d] /\ left'[d] = left[d] /\ call'[d] = call[d]
    BY <1>1, <1>a, <2>1 DEF Receive, Goto, TypeOK, dbVars
  <2>3. WholeOf(s)'
    BY <2>2 DEF WholeOf
  <2>4. Beside(s)
    BY <2>2 DEF Beside
  <2>5. \A w \in Store : rid[w] # None => rid'[w] = rid[w] /\ call'[w] = call[w]
    BY <2>2 DEF IdInv
  <2>6. CommittedIsWhole'
    BY <1>a, <2>2, <2>5, SameRuns
  <2> QED BY <2>3, <2>4, <2>6, BesideWhole DEF WholeInv
<1>2. CASE Lookup(s)
  <2>1. /\ pc[s] = "lookup" /\ pc'[s] \in {"insert", "rejected", "update"}
        /\ UNCHANGED <<call, left, item, sessions, txn, runs>>
        /\ \A d \in Store \ {s} : pc'[d] = pc[d] /\ rid'[d] = rid[d]
    BY <1>2, <1>a DEF Lookup, Goto, TypeOK, dbVars
  <2>2. WholeOf(s)'
    BY <1>a, <2>1 DEF WholeOf, Early
  <2>3. Beside(s)
    BY <2>1 DEF Beside
  <2>4. \A w \in Store : rid[w] # None => rid'[w] = rid[w] /\ call'[w] = call[w]
    BY <2>1 DEF IdInv
  <2>5. CommittedIsWhole'
    BY <1>a, <2>1, <2>4, SameRuns
  <2> QED BY <2>2, <2>3, <2>5, BesideWhole DEF WholeInv
<1>3. CASE UpdateRun(s)
  <2>1. /\ pc[s] = "update" /\ pc'[s] = "start"
        /\ UNCHANGED <<call, left, item, rid, sessions, runs>>
        /\ \A d \in Store \ {s} : pc'[d] = pc[d] /\ txn'[d] = txn[d]
        /\ txn'[s] = [Begun EXCEPT !.row = "updated"]
    BY <1>3, <1>a DEF UpdateRun, Goto, TypeOK
  <2>2. txn'[s].added = {}
    BY <2>1 DEF Begun
  <2>3. WholeOf(s)'
    BY <1>a, <2>1, <2>2 DEF WholeOf, Early
  <2>4. Beside(s)
    BY <2>1 DEF Beside
  <2>5. CommittedIsWhole'
    BY <1>a, <2>1, SameRuns
  <2> QED BY <2>3, <2>4, <2>5, BesideWhole DEF WholeInv
<1>4. CASE InsertRun(s)
  <2>1. /\ pc[s] = "insert"
        /\ UNCHANGED <<call, left, item, sessions, runs>>
        /\ \A d \in Store \ {s} : pc'[d] = pc[d] /\ rid'[d] = rid[d] /\ txn'[d] = txn[d]
        /\ pc'[s] \in {"failed", "start"}
    BY <1>4, <1>a, InsertFacts DEF InsertRun
  <2>2. pc'[s] = "start" => txn'[s].added = {}
    <3>1. \/ pc'[s] = "failed"
          \/ txn' = [txn EXCEPT ![s] = [Begun EXCEPT !.row = "inserted"]]
      BY <1>4, <1>a DEF InsertRun, Fail, Goto, TypeOK
    <3>2. [Begun EXCEPT !.row = "inserted"].added = {}
      BY DEF Begun
    <3> QED BY <1>a, <3>1, <3>2 DEF TypeOK
  <2>3. WholeOf(s)'
    BY <1>a, <2>1, <2>2 DEF WholeOf, Early
  <2>4. Beside(s)
    BY <2>1 DEF Beside
  <2>5. \A w \in Store : rid[w] # None => rid'[w] = rid[w] /\ call'[w] = call[w]
    BY <2>1 DEF IdInv
  <2>6. CommittedIsWhole'
    BY <1>a, <2>1, <2>5, SameRuns
  <2> QED BY <2>3, <2>4, <2>6, BesideWhole DEF WholeInv
<1>5. CASE StartRunSession(s)
  <2>1. /\ pc[s] = "start" /\ pc'[s] = "get"
        /\ UNCHANGED <<call, left, item, rid, txn, runs>>
        /\ \A d \in Store \ {s} : pc'[d] = pc[d]
        /\ DOMAIN sessions' = DOMAIN sessions \cup {rid[s]}
        /\ sessions'[rid[s]].touched = {}
        /\ \A id \in DOMAIN sessions \ {rid[s]} : sessions'[id] = sessions[id]
    BY <1>5, <1>a DEF StartRunSession, Goto, Put, TypeOK, dbVars
  <2>2. Hold(s)
    BY <1>a, <2>1 DEF LockInv
  <2>3. WholeOf(s)'
    BY <1>a, <2>1 DEF WholeOf, Early
  <2>4. Beside(s)
    BY <2>1, <2>2 DEF Beside
  <2>5. CommittedIsWhole'
    BY <1>a, <2>1, SameRuns
  <2> QED BY <2>3, <2>4, <2>5, BesideWhole DEF WholeInv
<1> QED BY <1>1, <1>2, <1>3, <1>4, <1>5

(* What adding a report and resolving reports do to a transaction.         *)
LEMMA AddedParts ==
  ASSUME NEW f \in [Store -> Txn], NEW t \in Store, NEW b \in Bug
  PROVE  /\ [f EXCEPT ![t].added = @ \cup {b}][t].added = f[t].added \cup {b}
         /\ \A u \in Store \ {t} : [f EXCEPT ![t].added = @ \cup {b}][u] = f[u]
<1> DEFINE S == f[t].added \cup {b}
<1>1. f[t] \in Txn
  OBVIOUS
<1> HIDE DEF S
<1>2. [f[t] EXCEPT !.added = S].added = S
  BY <1>1 DEF Txn
<1>3. [f EXCEPT ![t].added = @ \cup {b}] = [f EXCEPT ![t] = [f[t] EXCEPT !.added = S]]
  BY DEF S
<1>4. [f EXCEPT ![t].added = @ \cup {b}][t].added = S
  BY <1>2, <1>3
<1> QED BY <1>3, <1>4 DEF S

LEMMA GoneParts ==
  ASSUME NEW f \in [Store -> Txn], NEW t \in Store, NEW S \in SUBSET Bug
  PROVE  /\ [f EXCEPT ![t].gone = S][t].gone = S
         /\ [f EXCEPT ![t].gone = S][t].added = f[t].added
         /\ [f EXCEPT ![t].gone = S][t].finished = f[t].finished
         /\ \A u \in Store \ {t} : [f EXCEPT ![t].gone = S][u] = f[u]
<1>1. f[t] \in Txn
  OBVIOUS
<1>2. /\ [f[t] EXCEPT !.gone = S].gone = S
      /\ [f[t] EXCEPT !.gone = S].added = f[t].added
      /\ [f[t] EXCEPT !.gone = S].finished = f[t].finished
  BY <1>1 DEF Txn
<1>3. [f EXCEPT ![t].gone = S] = [f EXCEPT ![t] = [f[t] EXCEPT !.gone = S]]
  OBVIOUS
<1> QED BY <1>2, <1>3

LEMMA DurationParts ==
  ASSUME txn \in [Store -> Txn], NEW t \in Store, WriteDuration(t)
  PROVE  /\ txn'[t].finished /\ txn'[t].added = txn[t].added
         /\ \A u \in Store \ {t} : txn'[u] = txn[u]
  BY DEF WriteDuration

LEMMA TouchedParts ==
  ASSUME IsMap(sessions, Session), NEW id \in DOMAIN sessions, NEW b \in Bug,
         sessions' = [sessions EXCEPT ![id].touched = @ \cup {b}]
  PROVE  /\ DOMAIN sessions' = DOMAIN sessions
         /\ sessions'[id].touched = sessions[id].touched \cup {b}
         /\ \A k \in DOMAIN sessions \ {id} : sessions'[k] = sessions[k]
<1> DEFINE T == sessions[id].touched \cup {b}
<1>1. /\ DOMAIN sessions' = DOMAIN sessions
      /\ sessions'[id] = [sessions[id] EXCEPT !.touched = T]
      /\ \A k \in DOMAIN sessions \ {id} : sessions'[k] = sessions[k]
  BY Zenon DEF IsMap
<1>2. sessions[id] \in Session
  BY DEF IsMap
<1> HIDE DEF T
<1>3. [sessions[id] EXCEPT !.touched = T].touched = T
  BY <1>2 DEF Session
<1>4. sessions'[id].touched = T
  BY <1>1, <1>3
<1> QED BY <1>1, <1>4 DEF T

(* A call that fails or is told that it is done has nothing more to show.  *)
LEMMA OverWhole ==
  ASSUME NEW s \in Store, pc'[s] \in Final \cup {"abort", "drop"}
  PROVE  WholeOf(s)'
  BY DEF WholeOf, Early, Final

(* In session a store adds and touches each report it found, and commits   *)
(* those.                                                                  *)
LEMMA SessionWhole ==
  ASSUME TypeInv, IdInv, OwnedInv, WholeInv, NEW s \in Store,
         \/ GetTransaction(s) \/ AddReport(s) \/ WriteReport(s)
         \/ TouchReport(s) \/ RaiseInStore(s) \/ SetRunDuration(s)
         \/ FinishCheckerRun(s) \/ MarkFinished(s) \/ EndRunSession(s)
  PROVE  WholeInv'
<1>a. /\ TypeOK /\ ControlInv /\ LockInv /\ WholeOf(s) /\ CommittedIsWhole
      /\ pc \in [Store -> PC] /\ left \in [Store -> SUBSET Bug]
      /\ item \in [Store -> Bug \cup {None}] /\ txn \in [Store -> Txn]
      /\ IsMap(sessions, Session)
  BY DEF TypeInv, OwnedInv, WholeInv, TypeOK
<1>0. pc[s] \in InHand
  BY DEF GetTransaction, AddReport, WriteReport, TouchReport, RaiseInStore,
     SetRunDuration, FinishCheckerRun, MarkFinished, EndRunSession, InHand, InSession
<1>b. /\ Hold(s) /\ rid[s] # None
      /\ Ongoing(rid[s]) => sessions[rid[s]].txn = s
      /\ local[s] \in {None, s}
  BY <1>0, OwnSession DEF Ongoing
<1>c. ASSUME Ongoing(rid[s]), Refresh(rid[s])
      PROVE  /\ DOMAIN sessions' = DOMAIN sessions
             /\ \A id \in DOMAIN sessions : sessions'[id].touched = sessions[id].touched
  BY <1>a, <1>c, RefreshFacts DEF Ongoing
(* Enough: the other calls are left alone, and the results of s are whole. *)
<1>d. ASSUME Beside(s), WholeOf(s)', UNCHANGED <<runs, rid, call>>
      PROVE  WholeInv'
  BY <1>a, <1>d, SameRuns, BesideWhole DEF WholeInv
<1>1. CASE GetTransaction(s)
  <2>1. /\ UNCHANGED <<call, left, item, rid, txn, runs>> /\ pc[s] = "get"
        /\ \A d \in Store \ {s} : pc'[d] = pc[d]
    BY <1>1, <1>a DEF GetTransaction, Goto, Fail, dbVars
  <2>2. CASE Ongoing(rid[s]) /\ Refresh(rid[s]) /\ Goto(s, "add")
    <3>1. pc'[s] = "add"
      BY <1>a, <2>2 DEF Goto
    <3>2. WholeOf(s)'
      BY <1>a, <1>c, <2>1, <2>2, <3>1 DEF WholeOf, Early
    <3>3. Beside(s)
      BY <1>c, <2>1, <2>2 DEF Beside
    <3> QED BY <1>d, <2>1, <3>2, <3>3
  <2>3. CASE Fail(s) /\ UNCHANGED sessions
    <3>1. pc'[s] = "failed"
      BY <1>a, <2>3 DEF Fail, Goto
    <3>2. Beside(s)
      BY <2>1, <2>3 DEF Beside
    <3> QED BY <1>d, <2>1, <3>1, <3>2, OverWhole DEF Final
  <2> QED BY <1>1, <2>2, <2>3 DEF GetTransaction
<1>2. CASE AddReport(s)
  <2>1. PICK b \in left[s] : /\ item' = [item EXCEPT ![s] = b]
                             /\ left' = [left EXCEPT ![s] = @ \ {b}]
    BY <1>2 DEF AddReport
  <2>2. /\ UNCHANGED <<call, rid, txn, runs>> /\ pc[s] = "add"
        /\ item'[s] = b /\ left'[s] = left[s] \ {b}
        /\ \A d \in Store \ {s} : pc'[d] = pc[d] /\ item'[d] = item[d] /\ left'[d] = left[d]
    BY <1>2, <1>a, <2>1 DEF AddReport, Goto, Fail, dbVars
  <2>3. CASE Ongoing(rid[s]) /\ Refresh(rid[s]) /\ Goto(s, "write")
    <3>1. pc'[s] = "write"
      BY <1>a, <2>3 DEF Goto
    <3>2. txn[s].added \cup (left[s] \ {b}) \cup {b} = call[s].found
      BY <1>a, <2>2 DEF WholeOf
    <3>3. WholeOf(s)'
      BY <1>a, <1>c, <2>2, <2>3, <3>1, <3>2 DEF WholeOf, Early
    <3>4. Beside(s)
      BY <1>c, <2>2, <2>3 DEF Beside
    <3> QED BY <1>d, <2>2, <3>3, <3>4
  <2>4. CASE Fail(s) /\ UNCHANGED sessions
    <3>1. pc'[s] = "failed"
      BY <1>a, <2>4 DEF Fail, Goto
    <3>2. Beside(s)
      BY <2>2, <2>4 DEF Beside
    <3> QED BY <1>d, <2>2, <3>1, <3>2, OverWhole DEF Final
  <2> QED BY <1>2, <2>3, <2>4 DEF AddReport
<1>3. CASE WriteReport(s)
  <2>1. local[s] = s /\ item[s] \in Bug
    BY <1>3, <1>a, <1>b, MassStoreAssumption DEF WriteReport, ControlInv
  <2>2. /\ UNCHANGED <<call, left, item, rid, sessions, runs>>
        /\ pc[s] = "write" /\ pc'[s] = "touch"
        /\ \A d \in Store \ {s} : pc'[d] = pc[d]
        /\ txn' = [txn EXCEPT ![s].added = @ \cup {item[s]}]
    BY <1>3, <1>a, <2>1 DEF WriteReport, Goto
  <2>3. /\ txn'[s].added = txn[s].added \cup {item[s]}
        /\ \A d \in Store \ {s} : txn'[d] = txn[d]
    BY <1>a, <2>1, <2>2, AddedParts
  <2>4. WholeOf(s)'
    BY <1>a, <2>2, <2>3 DEF WholeOf, Early
  <2>5. Beside(s)
    BY <2>2, <2>3 DEF Beside
  <2> QED BY <1>d, <2>2, <2>4, <2>5
<1>4. CASE TouchReport(s)
  <2>1. /\ UNCHANGED <<call, left, item, rid, txn, runs>> /\ pc[s] = "touch"
        /\ \A d \in Store \ {s} : pc'[d] = pc[d]
        /\ item[s] \in Bug
    BY <1>4, <1>a DEF TouchReport, Goto, Fail, dbVars, ControlInv
  <2>2. CASE /\ Ongoing(rid[s]) /\ Goto(s, "add")
             /\ sessions' = [sessions EXCEPT ![rid[s]].touched = @ \cup {item[s]}]
    <3>1. pc'[s] = "add"
      BY <1>a, <2>2 DEF Goto
    <3>2. /\ DOMAIN sessions' = DOMAIN sessions
          /\ sessions'[rid[s]].touched = sessions[rid[s]].touched \cup {item[s]}
          /\ \A k \in DOMAIN sessions \ {rid[s]} : sessions'[k] = sessions[k]
      BY <1>a, <2>1, <2>2, TouchedParts DEF Ongoing
    <3>3. WholeOf(s)'
      BY <1>a, <2>1, <2>2, <3>1, <3>2 DEF WholeOf, Early
    <3>4. Beside(s)
      BY <1>b, <2>1, <3>2 DEF Beside
    <3> QED BY <1>d, <2>1, <3>3, <3>4
  <2>3. CASE Fail(s) /\ UNCHANGED sessions
    <3>1. pc'[s] = "failed"
      BY <1>a, <2>3 DEF Fail, Goto
    <3>2. Beside(s)
      BY <2>1, <2>3 DEF Beside
    <3> QED BY <1>d, <2>1, <3>1, <3>2, OverWhole DEF Final
  <2> QED BY <1>4, <2>2, <2>3 DEF TouchReport
<1>5. CASE RaiseInStore(s)
  <2>1. /\ UNCHANGED <<call, left, item, rid, sessions, txn, runs>>
        /\ \A d \in Store \ {s} : pc'[d] = pc[d]
        /\ pc'[s] = "failed"
    BY <1>5, <1>a DEF RaiseInStore, Goto, Fail, dbVars
  <2>2. Beside(s)
    BY <2>1 DEF Beside
  <2> QED BY <1>d, <2>1, <2>2, OverWhole DEF Final
<1>6. CASE SetRunDuration(s)
  <2>1. /\ UNCHANGED <<call, left, item, rid, runs>> /\ pc[s] = "add" /\ left[s] = {}
        /\ \A d \in Store \ {s} : pc'[d] = pc[d]
    BY <1>6, <1>a DEF SetRunDuration, Goto, Fail
  <2>2. CASE Ongoing(rid[s])
    <3>1. /\ Refresh(rid[s]) /\ pc'[s] = "finish"
          /\ WriteDuration(s) \/ UNCHANGED txn
      BY <1>6, <1>a, <1>b, <2>2 DEF SetRunDuration, Goto
    <3>2. txn'[s].added = txn[s].added /\ \A d \in Store \ {s} : txn'[d] = txn[d]
      BY <1>a, <3>1, DurationParts
    <3>3. WholeOf(s)'
      BY <1>a, <1>c, <2>1, <2>2, <3>1, <3>2 DEF WholeOf, Early
    <3>4. Beside(s)
      BY <1>c, <2>1, <2>2, <3>1, <3>2 DEF Beside
    <3> QED BY <1>d, <2>1, <3>3, <3>4
  <2>3. CASE ~Ongoing(rid[s])
    <3>1. pc'[s] = "failed" /\ UNCHANGED <<sessions, txn>>
      BY <1>6, <1>a, <2>3 DEF SetRunDuration, Fail, Goto
    <3>2. Beside(s)
      BY <2>1, <3>1 DEF Beside
    <3> QED BY <1>d, <2>1, <3>1, <3>2, OverWhole DEF Final
  <2> QED BY <2>2, <2>3
<1>7. CASE FinishCheckerRun(s)
  <2>1. /\ UNCHANGED <<call, left, item, rid, txn, runs>>
        /\ pc[s] = "finish" \/ (pc[s] = "add" /\ left[s] = {})
        /\ \A d \in Store \ {s} : pc'[d] = pc[d]
    <3>1. /\ UNCHANGED <<call, left, item, rid, txn, runs>>
          /\ pc[s] = "finish" \/ (pc[s] = "add" /\ left[s] = {})
      BY <1>7 DEF FinishCheckerRun, dbVars
    <3>2. \A d \in Store \ {s} : pc'[d] = pc[d]
      BY <1>7, <1>a DEF FinishCheckerRun, Goto, Ack
    <3> QED BY <3>1, <3>2
  <2>2. CASE Ongoing(rid[s])
    <3>1. Refresh(rid[s]) /\ pc'[s] = "mark"
      BY <1>7, <1>a, <2>2 DEF FinishCheckerRun, Goto
    <3>2. WholeOf(s)'
      BY <1>a, <1>c, <2>1, <2>2, <3>1 DEF WholeOf, Early
    <3>3. Beside(s)
      BY <1>c, <2>1, <2>2, <3>1 DEF Beside
    <3> QED BY <1>d, <2>1, <3>2, <3>3
  <2>3. CASE ~Ongoing(rid[s])
    <3>1. pc'[s] = "acked" /\ UNCHANGED sessions
      BY <1>7, <1>a, <2>3 DEF FinishCheckerRun, Ack, Goto
    <3>2. Beside(s)
      BY <2>1, <3>1 DEF Beside
    <3> QED BY <1>d, <2>1, <3>1, <3>2, OverWhole DEF Final
  <2> QED BY <2>2, <2>3
<1>8. CASE MarkFinished(s)
  <2>1. local[s] = s
    BY <1>8, <1>a, <1>b, MassStoreAssumption DEF MarkFinished, ControlInv
  <2>2. /\ UNCHANGED <<call, left, item, rid, sessions, runs>> /\ pc[s] = "mark"
        /\ \A d \in Store \ {s} : pc'[d] = pc[d]
        /\ pc'[s] \in {"end", "abort"}
        /\ pc'[s] = "end" => IF FinishedIn(s) THEN UNCHANGED txn ELSE WriteDuration(s)
        /\ WriteDuration(s) \/ UNCHANGED txn
    BY <1>8, <1>a, <2>1 DEF MarkFinished, Goto
  <2>3. /\ txn'[s].added = txn[s].added /\ \A d \in Store \ {s} : txn'[d] = txn[d]
        /\ WriteDuration(s) => txn'[s].finished
    BY <1>a, <2>2, DurationParts
  <2>4. FinishedIn(s) = txn[s].finished
    BY <1>b DEF FinishedIn, Hold
  <2>5. WholeOf(s)'
    BY <1>a, <2>2, <2>3, <2>4 DEF WholeOf, Early
  <2>6. Beside(s)
    BY <2>2, <2>3 DEF Beside
  <2> QED BY <1>d, <2>2, <2>5, <2>6
<1>9. CASE EndRunSession(s)
  <2>1. /\ UNCHANGED <<call, left, item, rid, sessions, runs>> /\ pc[s] = "end"
        /\ \A d \in Store \ {s} : pc'[d] = pc[d]
    BY <1>9, <1>a DEF EndRunSession, Goto, Ack
  <2>2. CASE Ongoing(rid[s])
    <3> DEFINE S == (CommittedOpen(s) \cup txn[s].added) \ sessions[rid[s]].touched
    <3>1. pc'[s] = "commit" /\ txn' = [txn EXCEPT ![s].gone = S]
      BY <1>9, <1>a, <1>b, <2>2 DEF EndRunSession, Goto
    <3>2. S \in SUBSET Bug
      <4>1. Handed(s)
        BY <2>2, <1>b DEF TypeInv, SessionInv, Ongoing
      <4>2. CommittedOpen(s) \in SUBSET Bug
        BY <1>a, <4>1 DEF TypeOK, IsMap, CommittedOpen, Run, Handed, Db, Call
      <4>3. txn[s].added \in SUBSET Bug
        BY <1>a DEF Txn
      <4> QED BY <4>2, <4>3
    <3>3. sessions[rid[s]].touched = txn[s].added /\ txn[s].added = call[s].found
      BY <1>a, <2>1, <2>2 DEF WholeOf, Ongoing
    <3>4. (CommittedOpen(s) \cup txn[s].added) \ S = call[s].found
      BY <3>3
    <3> HIDE DEF S
    <3>5. /\ txn'[s].gone = S /\ txn'[s].added = txn[s].added
          /\ txn'[s].finished = txn[s].finished
          /\ \A d \in Store \ {s} : txn'[d] = txn[d]
      BY <1>a, <3>1, <3>2, GoneParts
    <3>6. CommittedOpen(s)' = CommittedOpen(s)
      BY <2>1 DEF CommittedOpen, Db
    <3>7. OpenAfter(s)' = call[s].found
      BY <3>4, <3>5, <3>6 DEF OpenAfter
    <3>8. WholeOf(s)'
      BY <1>a, <2>1, <3>1, <3>5, <3>7 DEF WholeOf, Early
    <3>9. Beside(s)
      BY <2>1, <3>5 DEF Beside
    <3> QED BY <1>d, <2>1, <3>8, <3>9
  <2>3. CASE ~Ongoing(rid[s])
    <3>1. pc'[s] = "acked" /\ UNCHANGED txn
      BY <1>9, <1>a, <2>3 DEF EndRunSession, Ack, Goto
    <3>2. Beside(s)
      BY <2>1, <3>1 DEF Beside
    <3> QED BY <1>d, <2>1, <3>1, <3>2, OverWhole DEF Final
  <2> QED BY <2>2, <2>3
<1> QED
  BY <1>1, <1>2, <1>3, <1>4, <1>5, <1>6, <1>7, <1>8, <1>9

(* A commit makes what the store found the results of its run, and touches *)
(* no other run.                                                           *)
LEMMA CommitRuns ==
  ASSUME TypeInv, IdInv, OwnedInv, WholeInv, NEW s \in Store, Commit(s)
  PROVE  /\ pc[s] = "commit" /\ pc'[s] = "drop" /\ Hold(s) /\ local[s] = s
         /\ Handed(s)
         /\ UNCHANGED <<call, left, item, rid, sessions>>
         /\ \A d \in Store \ {s} : pc'[d] = pc[d] /\ txn'[d] = txn[d]
         /\ \A p \in Product \ {Db(s)} : runs'[p] = runs[p]
         /\ DOMAIN runs'[Db(s)] = DOMAIN runs[Db(s)] \cup {rid[s]}
         /\ runs'[Db(s)][rid[s]] = RunAfter(s)
         /\ \A id \in DOMAIN runs[Db(s)] \ {rid[s]} : runs'[Db(s)][id] = runs[Db(s)][id]
         /\ RunAfter(s).name = call[s].name /\ RunAfter(s).finished
         /\ RunAfter(s).open = call[s].found
         /\ stored' = [stored EXCEPT ![s] = TRUE]
<1>a. /\ TypeOK /\ ControlInv /\ LockInv /\ WholeOf(s) /\ CommittedIsWhole
      /\ pc[s] = "commit" /\ txn \in [Store -> Txn]
  BY DEF TypeInv, OwnedInv, WholeInv, Commit, TypeOK
<1>1. local[s] = s /\ Hold(s)
  BY <1>a, OwnSession, MassStoreAssumption DEF ControlInv, InHand, InSession
<1>2. Visible(s)
  BY <1>a, <1>1 DEF LockInv, Hold, Visible, Txn
<1>3. /\ UNCHANGED <<call, left, item, rid, sessions>>
      /\ pc'[s] = "drop" /\ \A d \in Store \ {s} : pc'[d] = pc[d]
      /\ runs' = [runs EXCEPT ![Db(s)] = Put(@, rid[s], RunAfter(s))]
  BY <1>a, <1>1, <1>2 DEF Commit, Goto, TypeOK
<1>4. \A d \in Store \ {s} : txn'[d] = txn[d]
  BY <1>1, CommitFacts
<1>5. Handed(s)
  BY <1>1, CommitFacts
<1>6. /\ \A p \in Product \ {Db(s)} : runs'[p] = runs[p]
      /\ DOMAIN runs'[Db(s)] = DOMAIN runs[Db(s)] \cup {rid[s]}
      /\ runs'[Db(s)][rid[s]] = RunAfter(s)
      /\ \A id \in DOMAIN runs[Db(s)] \ {rid[s]} : runs'[Db(s)][id] = runs[Db(s)][id]
  <2>1. Db(s) \in Product /\ DOMAIN runs = Product
    BY <1>a, <1>5 DEF Db, Handed, Call, TypeOK
  <2> DEFINE r == RunAfter(s)
  <2>2. runs' = [runs EXCEPT ![Db(s)] = Put(@, rid[s], r)]
    BY <1>3
  <2> HIDE DEF r
  <2>3. /\ \A p \in Product \ {Db(s)} : runs'[p] = runs[p]
        /\ runs'[Db(s)] = Put(runs[Db(s)], rid[s], r)
    BY <2>1, <2>2
  <2>4. /\ DOMAIN runs'[Db(s)] = DOMAIN runs[Db(s)] \cup {rid[s]}
        /\ runs'[Db(s)][rid[s]] = r
        /\ \A id \in DOMAIN runs[Db(s)] \ {rid[s]} : runs'[Db(s)][id] = runs[Db(s)][id]
    BY <2>3 DEF Put
  <2> QED BY <2>3, <2>4 DEF r
<1>7. /\ RunAfter(s).name = call[s].name /\ RunAfter(s).finished
      /\ RunAfter(s).open = call[s].found
  BY <1>1, <1>a DEF RunAfter, WholeOf, FinishedIn, Hold
<1>8. stored' = [stored EXCEPT ![s] = TRUE]
  <2>1. OpenAfter(s) = call[s].found
    BY <1>a DEF WholeOf
  <2> QED BY <1>1, <1>2, <2>1 DEF Commit
<1> QED BY <1>a, <1>1, <1>3, <1>4, <1>5, <1>6, <1>7, <1>8

LEMMA CommitWhole ==
  ASSUME TypeInv, IdInv, OwnedInv, WholeInv, NEW s \in Store, Commit(s)
  PROVE  WholeInv'
<1>a. /\ TypeOK /\ ControlInv /\ LockInv /\ WholeOf(s) /\ CommittedIsWhole
      /\ pc[s] = "commit" /\ txn \in [Store -> Txn]
  BY DEF TypeInv, OwnedInv, WholeInv, Commit, TypeOK
<1>1. local[s] = s /\ Hold(s)
  BY CommitRuns
<1>3. /\ UNCHANGED <<call, left, item, rid, sessions>>
      /\ pc'[s] = "drop" /\ \A d \in Store \ {s} : pc'[d] = pc[d]
  BY CommitRuns
<1>4. \A d \in Store \ {s} : txn'[d] = txn[d]
  BY CommitRuns
<1>5. Handed(s)
  BY CommitRuns
<1>6. /\ \A p \in Product \ {Db(s)} : runs'[p] = runs[p]
      /\ DOMAIN runs'[Db(s)] = DOMAIN runs[Db(s)] \cup {rid[s]}
      /\ runs'[Db(s)][rid[s]] = RunAfter(s)
      /\ \A id \in DOMAIN runs[Db(s)] \ {rid[s]} : runs'[Db(s)][id] = runs[Db(s)][id]
  BY CommitRuns
<1>7. /\ RunAfter(s).name = call[s].name /\ RunAfter(s).finished
      /\ RunAfter(s).open = call[s].found
  BY CommitRuns
<1>8. Beside(s)
  <2>1. ASSUME NEW d \in Store \ {s}, rid[d] # rid[s], Hold(d)
        PROVE  CommittedOpen(d)' = CommittedOpen(d)
    <3>1. Db(d) \in Product
      <4>1. pc[d] # "idle"
        BY <2>1 DEF IdInv, Hold
      <4> QED BY <1>a, <4>1 DEF ControlInv, Db, Call
    <3>2. /\ rid[d] \in DOMAIN runs'[Db(d)] <=> rid[d] \in DOMAIN runs[Db(d)]
          /\ rid[d] \in DOMAIN runs[Db(d)] => runs'[Db(d)][rid[d]] = runs[Db(d)][rid[d]]
      BY <1>6, <2>1, <3>1
    <3> QED BY <1>3, <3>2 DEF CommittedOpen, Db
  <2> QED BY <1>1, <1>3, <1>4, <2>1 DEF Beside
<1>9. WholeOf(s)'
  BY <1>3, OverWhole
<1>10. CommittedIsWhole'
  <2>1. WholeResults'
    <3> SUFFICES ASSUME NEW p \in Product, NEW id \in DOMAIN runs'[p]
                 PROVE  \E w \in Store : /\ call'[w] # None /\ rid'[w] = id
                                         /\ call'[w].product = p
                                         /\ call'[w].name = runs'[p][id].name
                                         /\ call'[w].found = runs'[p][id].open
      BY DEF WholeResults
    <3>1. CASE p = Db(s) /\ id = rid[s]
      <4>1. call[s] \in Call /\ call[s] # None
        BY <1>5, NoneAssumption DEF Handed
      <4> QED BY <1>3, <1>6, <1>7, <3>1, <4>1 DEF Db
    <3>2. CASE ~(p = Db(s) /\ id = rid[s])
      <4>1. id \in DOMAIN runs[p] /\ runs'[p][id] = runs[p][id]
        BY <1>6, <3>2
      <4> QED BY <1>a, <1>3, <4>1 DEF CommittedIsWhole, WholeResults
    <3> QED BY <3>1, <3>2
  <2>2. CommittedRunsFinished'
    <3> SUFFICES ASSUME NEW p \in Product, NEW id \in DOMAIN runs'[p]
                 PROVE  runs'[p][id].finished
      BY DEF CommittedRunsFinished
    <3>1. CASE p = Db(s) /\ id = rid[s]
      BY <1>6, <1>7, <3>1
    <3>2. CASE ~(p = Db(s) /\ id = rid[s])
      <4>1. id \in DOMAIN runs[p] /\ runs'[p][id] = runs[p][id]
        BY <1>6, <3>2
      <4> QED BY <1>a, <4>1 DEF CommittedIsWhole, CommittedRunsFinished
    <3> QED BY <3>1, <3>2
  <2> QED BY <2>1, <2>2 DEF CommittedIsWhole
<1> QED BY <1>a, <1>8, <1>9, <1>10, BesideWhole DEF WholeInv

(* Steps that touch no call and no transaction in session.                 *)
LEMMA QuietWhole ==
  ASSUME TypeInv, WholeInv, UNCHANGED <<call, left, item, rid, runs>>,
         \A d \in Store : pc'[d] = pc[d] \/ pc'[d] \in Final \cup {"abort", "drop"},
         \A d \in Store : pc[d] \in InHand \cup {"start"} /\ pc'[d] = pc[d] =>
           /\ txn'[d] = txn[d]
           /\ rid[d] \in DOMAIN sessions' =>
                /\ rid[d] \in DOMAIN sessions
                /\ sessions'[rid[d]].touched = sessions[rid[d]].touched
  PROVE  WholeInv'
<1>1. CommittedIsWhole'
  BY SameRuns DEF TypeInv, WholeInv
<1>2. ASSUME NEW d \in Store PROVE WholeOf(d)'
  <2>1. WholeOf(d)
    BY DEF WholeInv
  <2>2. CASE pc'[d] \in Final \cup {"abort", "drop"}
    BY <2>2, OverWhole
  <2>3. CASE pc'[d] = pc[d] /\ pc[d] \in InHand \cup {"start"}
    <3>1. OpenAfter(d)' = OpenAfter(d)
      BY <2>3 DEF OpenAfter, CommittedOpen, Db
    <3> QED BY <2>1, <2>3, <3>1 DEF WholeOf, Early
  <2>4. CASE pc'[d] = pc[d] /\ pc[d] \notin InHand \cup {"start"}
    BY <2>1, <2>4 DEF WholeOf, Early, InHand, InSession
  <2> QED BY <2>2, <2>3, <2>4
<1> QED BY <1>1, <1>2 DEF WholeInv

LEMMA WholeInit == Init => WholeInv
  BY DEF Init, WholeInv, WholeOf, Early, CommittedIsWhole, WholeResults,
     CommittedRunsFinished, Empty

(* Every step keeps the results whole, in calm circumstances.              *)
LEMMA WholeStep ==
  ASSUME Calm
  PROVE  TypeInv /\ IdInv /\ OwnedInv /\ WholeInv /\ [Next]_vars => WholeInv'
<1> SUFFICES ASSUME TypeInv, IdInv, OwnedInv, WholeInv, [Next]_vars PROVE WholeInv'
  OBVIOUS
<1>a. /\ TypeOK /\ SessionInv /\ TimerInv
      /\ pc \in [Store -> PC] /\ txn \in [Store -> Txn]
      /\ IsMap(sessions, Session)
  BY DEF TypeInv, OwnedInv, TypeOK
<1>b. \A d \in Store : pc[d] \in InHand \cup {"start"} => Running(d) /\ pc[d] # "failed"
  BY DEF InHand, InSession, Running, Final
<1>1. ASSUME NEW s \in Store, AbortSession(s) PROVE WholeInv'
  <2>1. /\ pc[s] = "abort" /\ pc[s] \in InHand
        /\ UNCHANGED <<call, left, item, rid, sessions, runs>>
        /\ pc'[s] \in {"drop", "acked"} /\ \A d \in Store \ {s} : pc'[d] = pc[d]
    BY <1>1, <1>a DEF AbortSession, Goto, Ack, InHand, InSession
  <2>2. \A d \in Store \ {s} : txn'[d] = txn[d]
    BY <1>1, <1>a, <2>1, OwnSession DEF AbortSession, Rollback, Ongoing
  <2> QED BY <2>1, <2>2, QuietWhole DEF Final
<1>2. ASSUME NEW s \in Store, DropSession(s) PROVE WholeInv'
  <2>1. /\ UNCHANGED <<call, left, item, rid, txn, runs>>
        /\ pc'[s] = "acked" /\ \A d \in Store \ {s} : pc'[d] = pc[d]
        /\ DOMAIN sessions' \subseteq DOMAIN sessions
        /\ \A id \in DOMAIN sessions' : sessions'[id] = sessions[id]
    BY <1>2, <1>a DEF DropSession, Goto, Ack, Drop, Ongoing, dbVars
  <2> QED BY <2>1, QuietWhole DEF Final
<1>3. ASSUME NEW s \in Store, CommitFails(s) PROVE WholeInv'
  BY <1>3, <1>a DEF CommitFails, Calm, TypeOK
<1>4. ASSUME NEW s \in Store, Collect(s) PROVE WholeInv'
  <2>1. /\ UNCHANGED <<call, left, item, rid, runs, pc, sessions>> /\ ~Running(s)
        /\ \A d \in Store \ {s} : txn'[d] = txn[d]
    BY <1>4, <1>a DEF Collect, Rollback, callVars
  <2> QED BY <1>b, <2>1, QuietWhole
<1>5. ASSUME NEW k \in DOMAIN sessions, GoStale(k) PROVE WholeInv'
  <2>1. UNCHANGED <<call, left, item, rid, runs, pc, txn>>
    BY <1>5 DEF GoStale, callVars, dbVars
  <2>2. /\ DOMAIN sessions' = DOMAIN sessions
        /\ sessions'[k] = [sessions[k] EXCEPT !.fresh = FALSE]
        /\ \A id \in DOMAIN sessions \ {k} : sessions'[id] = sessions[id]
    BY <1>5, <1>a, Zenon DEF GoStale, IsMap
  <2>3. sessions'[k].touched = sessions[k].touched
    <3>1. sessions[k] \in Session
      BY <1>a DEF IsMap
    <3>2. [sessions[k] EXCEPT !.fresh = FALSE].touched = sessions[k].touched
      BY <3>1 DEF Session
    <3> QED BY <2>2, <3>2
  <2> QED BY <2>1, <2>2, <2>3, QuietWhole
<1>6. CASE TimerWake \/ TimerNext
  <2>1. UNCHANGED <<call, left, item, rid, runs, pc, txn, sessions>>
    BY <1>6 DEF TimerWake, TimerNext, callVars, dbVars
  <2> QED BY <2>1, QuietWhole
<1>7. CASE TimerAbort
  <2> DEFINE t == sessions[timer.key].txn
  <2>1. /\ timer.key \in DOMAIN sessions /\ pc[t] = "failed" /\ txn' = Rollback(t)
        /\ UNCHANGED <<call, left, item, rid, runs, pc, sessions>>
    BY <1>7, <1>a DEF TimerAbort, TimerInv, Ongoing, callVars
  <2>2. \A d \in Store \ {t} : txn'[d] = txn[d]
    BY <1>a, <2>1 DEF Rollback
  <2> QED BY <1>b, <2>1, <2>2, QuietWhole
<1>8. CASE TimerDel
  <2>1. /\ UNCHANGED <<call, left, item, rid, runs, pc, txn>>
        /\ DOMAIN sessions' \subseteq DOMAIN sessions
        /\ \A id \in DOMAIN sessions' : sessions'[id] = sessions[id]
    BY <1>8 DEF TimerDel, Drop, callVars, dbVars
  <2> QED BY <2>1, QuietWhole
<1>9. CASE Crash
  <2>1. /\ UNCHANGED <<call, left, item, rid, runs>>
        /\ \A d \in Store : IF Running(d) THEN pc'[d] = "failed" ELSE pc'[d] = pc[d]
    BY <1>9 DEF Crash
  <2> QED BY <1>b, <2>1, QuietWhole DEF Final
<1>10. CASE UNCHANGED vars
  <2>1. UNCHANGED <<call, left, item, rid, runs, pc, txn, sessions>>
    BY <1>10 DEF vars, callVars, dbVars
  <2> QED BY <2>1, QuietWhole
<1> QED
  BY <1>1, <1>2, <1>3, <1>4, <1>5, <1>6, <1>7, <1>8, <1>9, <1>10,
     EarlyWhole, SessionWhole, CommitWhole DEF Next, Proceed, Timer

(* With one product, stores that are never slow and commits that succeed,  *)
(* what other requests see of a run is one finished store, whole: never a  *)
(* mixture of two stores, never half of one, however many stores, failures *)
(* and crashes there are (end_run_session).                                *)
THEOREM CommittedIsWholeCorrect ==
  ASSUME Calm
  PROVE  Spec => []CommittedIsWhole
<1>1. WholeInv => CommittedIsWhole
  BY DEF WholeInv
<1>2. TypeInv /\ IdInv /\ OwnedInv /\ [Next]_vars => OwnedInv'
  BY OwnedStep
<1>3. TypeInv /\ IdInv /\ OwnedInv /\ WholeInv /\ [Next]_vars => WholeInv'
  BY WholeStep
<1>4. UniqueInv => IdInv
  BY DEF UniqueInv
<1> QED
  BY <1>1, <1>2, <1>3, <1>4, TypeInit, TypeStep, UniqueInit, UniqueStep,
     OwnedInit, WholeInit, PTL DEF Spec
-----------------------------------------------------------------------------
(* Who has stored its results is about to be told so, and its session is   *)
(* not left behind.                                                        *)
StoredInv ==
  /\ \A s \in Store : stored[s] => pc[s] \in {"drop", "acked", "failed"}
  /\ \A id \in DOMAIN sessions :
       stored[sessions[id].txn] => pc[sessions[id].txn] # "failed"

(* A step that stores nothing keeps this, unless a call fails after its    *)
(* commit.                                                                 *)
LEMMA StoredFrame ==
  ASSUME TypeInv, StoredInv, stored' = stored,
         \A d \in Store : stored[d] => \/ pc'[d] = pc[d]
                                       \/ pc[d] = "drop" /\ pc'[d] = "acked",
         \A id \in DOMAIN sessions' :
           \/ id \in DOMAIN sessions /\ sessions'[id].txn = sessions[id].txn
           \/ ~stored[sessions'[id].txn]
  PROVE  StoredInv'
<1>1. \A id \in DOMAIN sessions : sessions[id].txn \in Store
  BY DEF TypeInv, SessionInv, Handed
<1> QED BY <1>1 DEF StoredInv

LEMMA StoredStep ==
  ASSUME Calm
  PROVE  TypeInv /\ IdInv /\ OwnedInv /\ StoredInv /\ [Next]_vars => StoredInv'
<1> SUFFICES ASSUME TypeInv, IdInv, OwnedInv, StoredInv, [Next]_vars PROVE StoredInv'
  OBVIOUS
<1>a. TypeOK /\ pc \in [Store -> PC] /\ IsMap(sessions, Session)
  BY DEF TypeInv, TypeOK
<1>1. ASSUME NEW s \in Store, Receive(s) \/ Lookup(s) \/ UpdateRun(s) \/ InsertRun(s)
      PROVE  StoredInv'
  <2>1. EarlyStep(s)
    BY <1>1, EarlySteps
  <2>2. stored' = stored
    BY <1>1 DEF Receive, Lookup, UpdateRun, InsertRun
  <2>3. ~stored[s]
    BY <2>1 DEF EarlyStep, Early, StoredInv
  <2> QED BY <2>1, <2>2, <2>3, StoredFrame DEF EarlyStep
<1>2. ASSUME NEW s \in Store,
             \/ GetTransaction(s) \/ AddReport(s) \/ WriteReport(s)
             \/ TouchReport(s) \/ RaiseInStore(s) \/ SetRunDuration(s)
             \/ FinishCheckerRun(s) \/ MarkFinished(s) \/ EndRunSession(s)
      PROVE  StoredInv'
  <2>1. SessionStep(s)
    BY <1>2, SessionSteps
  <2>2. stored' = stored
    BY <1>2 DEF GetTransaction, AddReport, WriteReport, TouchReport, RaiseInStore,
       SetRunDuration, FinishCheckerRun, MarkFinished, EndRunSession
  <2>3. ~stored[s]
    BY <2>1 DEF SessionStep, InHand, InSession, StoredInv
  <2> QED BY <2>1, <2>2, <2>3, StoredFrame DEF SessionStep
<1>3. ASSUME NEW s \in Store, StartRunSession(s) PROVE StoredInv'
  <2>1. /\ stored' = stored /\ pc[s] = "start"
        /\ \A d \in Store \ {s} : pc'[d] = pc[d]
        /\ DOMAIN sessions' = DOMAIN sessions \cup {rid[s]}
        /\ sessions'[rid[s]].txn = s
        /\ \A id \in DOMAIN sessions \ {rid[s]} : sessions'[id] = sessions[id]
    BY <1>3, <1>a DEF StartRunSession, Goto, Put
  <2>2. ~stored[s]
    BY <2>1 DEF StoredInv
  <2>3. \A id \in DOMAIN sessions' :
           \/ id \in DOMAIN sessions /\ sessions'[id].txn = sessions[id].txn
           \/ ~stored[sessions'[id].txn]
    BY <2>1, <2>2
  <2> QED BY <2>1, <2>2, <2>3, StoredFrame
<1>4. ASSUME NEW s \in Store, AbortSession(s) PROVE StoredInv'
  <2>1. /\ stored' = stored /\ pc[s] = "abort" /\ sessions' = sessions
        /\ \A d \in Store \ {s} : pc'[d] = pc[d]
    BY <1>4, <1>a DEF AbortSession, Goto, Ack
  <2>2. ~stored[s]
    BY <2>1 DEF StoredInv
  <2> QED BY <2>1, <2>2, StoredFrame
<1>5. ASSUME NEW s \in Store, Commit(s) PROVE StoredInv'
  <2>1. local[s] = s
    BY <1>5, OwnSession, MassStoreAssumption DEF Commit, TypeInv, ControlInv, InHand, InSession
  <2>2. /\ sessions' = sessions
        /\ pc'[s] \in {"drop", "acked"} /\ \A d \in Store \ {s} : pc'[d] = pc[d]
        /\ \A d \in Store \ {s} : stored'[d] = stored[d]
    <3>1. stored \in [Store -> BOOLEAN]
      BY <1>a DEF TypeOK
    <3> QED BY <1>5, <1>a, <3>1 DEF Commit, Goto, Ack
  <2>3. \A id \in DOMAIN sessions : sessions[id].txn \in Store
    BY DEF TypeInv, SessionInv, Handed
  <2> QED BY <2>2, <2>3 DEF StoredInv
<1>6. ASSUME NEW s \in Store, DropSession(s) PROVE StoredInv'
  <2>1. /\ stored' = stored /\ pc[s] = "drop" /\ pc'[s] = "acked"
        /\ \A d \in Store \ {s} : pc'[d] = pc[d]
        /\ DOMAIN sessions' \subseteq DOMAIN sessions
        /\ \A id \in DOMAIN sessions' : sessions'[id] = sessions[id]
    BY <1>6, <1>a DEF DropSession, Goto, Ack, Drop, Ongoing
  <2> QED BY <2>1, StoredFrame
<1>7. ASSUME NEW s \in Store, CommitFails(s) PROVE StoredInv'
  BY <1>7, <1>a DEF CommitFails, Calm, TypeOK
<1>8. ASSUME NEW s \in Store, Collect(s) PROVE StoredInv'
  BY <1>8, StoredFrame DEF Collect, callVars
<1>9. ASSUME NEW k \in DOMAIN sessions, GoStale(k) PROVE StoredInv'
  <2>1. stored' = stored /\ pc' = pc
    BY <1>9 DEF GoStale, callVars
  <2>2. /\ DOMAIN sessions' = DOMAIN sessions
        /\ \A id \in DOMAIN sessions : sessions'[id].txn = sessions[id].txn
    BY <1>9, <1>a, StaleFacts DEF GoStale
  <2> QED BY <2>1, <2>2, StoredFrame
<1>10. CASE Timer
  <2>1. stored' = stored /\ pc' = pc
    BY <1>10 DEF Timer, TimerWake, TimerNext, TimerAbort, TimerDel, callVars
  <2>2. \A id \in DOMAIN sessions' :
           id \in DOMAIN sessions /\ sessions'[id] = sessions[id]
    BY <1>10 DEF Timer, TimerWake, TimerNext, TimerAbort, TimerDel, Drop
  <2> QED BY <2>1, <2>2, StoredFrame
<1>11. CASE Crash
  <2>1. /\ stored' = stored /\ DOMAIN sessions' = {}
        /\ \A d \in Store : pc'[d] \in {"failed", pc[d]}
    BY <1>11 DEF Crash, Empty
  <2> QED BY <2>1 DEF StoredInv
<1>12. CASE UNCHANGED vars
  BY <1>12, StoredFrame DEF vars, callVars
<1> QED
  BY <1>1, <1>2, <1>3, <1>4, <1>5, <1>6, <1>7, <1>8, <1>9, <1>10, <1>11, <1>12
  DEF Next, Proceed

(* What a refused call was told: who holds the name.                       *)
Refused ==
  \A s \in Store :
    pc[s] = "lookup" /\ pc'[s] = "rejected" =>
      \E t \in {sessions[id].txn : id \in DOMAIN sessions} :
        /\ Db(t) = Db(s) /\ call[t].name = call[s].name
        /\ Running(t) \/ ~stored[t]

LEMMA RefusedForAReason ==
  ASSUME Calm, TypeInv, UniqueInv, OwnedInv, StoredInv, Next
  PROVE  Refused
<1> SUFFICES ASSUME NEW s \in Store, pc[s] = "lookup", pc'[s] = "rejected"
             PROVE  \E t \in {sessions[id].txn : id \in DOMAIN sessions} :
                      /\ Db(t) = Db(s) /\ call[t].name = call[s].name
                      /\ Running(t) \/ ~stored[t]
  BY DEF Refused
<1>a. /\ TypeOK /\ SessionInv /\ ControlInv /\ OwnerInv /\ NameInv
      /\ pc \in [Store -> PC]
  BY DEF TypeInv, OwnedInv, UniqueInv, TypeOK
<1>1. Lookup(s)
  <2>1. \A d \in Store : Lookup(d) => d = s \/ pc'[s] = pc[s]
    BY <1>a DEF Lookup, Goto
  <2>2. \A d \in Store : Receive(d) => pc'[s] = pc[s]
    BY <1>a DEF Receive, Goto
  <2>3. \A d \in Store :
          UpdateRun(d) \/ InsertRun(d) \/ StartRunSession(d) \/ GetTransaction(d)
          \/ AddReport(d) \/ WriteReport(d) \/ TouchReport(d) \/ RaiseInStore(d)
            => pc'[s] = pc[s]
    BY <1>a DEF UpdateRun, InsertRun, StartRunSession, GetTransaction, AddReport,
       WriteReport, TouchReport, RaiseInStore, Goto, Fail
  <2>4. \A d \in Store :
          SetRunDuration(d) \/ FinishCheckerRun(d) \/ MarkFinished(d)
          \/ AbortSession(d) \/ EndRunSession(d) \/ DropSession(d)
            => pc'[s] = pc[s]
    BY <1>a DEF SetRunDuration, FinishCheckerRun, MarkFinished, AbortSession,
       EndRunSession, DropSession, Goto, Fail, Ack
  <2>5. \A d \in Store : Commit(d) => pc'[s] = pc[s]
    BY <1>a DEF Commit, Goto, Ack
  <2>6. \A d \in Store : CommitFails(d) \/ Collect(d) => pc'[s] = pc[s]
    BY <1>a DEF CommitFails, Collect, Goto, Ack, callVars
  <2>7. (\E id \in DOMAIN sessions : GoStale(id)) \/ Timer => pc'[s] = pc[s]
    BY DEF GoStale, Timer, TimerWake, TimerNext, TimerAbort, TimerDel, callVars
  <2>8. Crash => pc'[s] = "failed"
    BY DEF Crash, Running, Final
  <2> QED
    BY <2>1, <2>2, <2>3, <2>4, <2>5, <2>6, <2>7, <2>8 DEF Next, Proceed
<1>2. PICK id \in Named(Db(s), call[s].name) : Ongoing(id)
  BY <1>1, <1>a DEF Lookup, Goto
<1> DEFINE t == sessions[id].txn
<1>3. id \in DOMAIN sessions /\ Handed(t) /\ rid[t] = id
  BY <1>2, <1>a DEF Ongoing, SessionInv
<1>4. t \in Store /\ pc[t] # "idle" /\ rid[t] # None
  BY <1>3, MassStoreAssumption DEF Handed, InSession
<1>5. Db(t) = Db(s)
  BY <1>4, OneDatabase
<1>6. call[t].name = call[s].name
  BY <1>2, <1>3, <1>4, <1>5, <1>a DEF Named, NameInv
<1>7. Running(t) \/ ~stored[t]
  BY <1>3, <1>a DEF OwnerInv, StoredInv, Running, InSession, Final
<1> QED BY <1>3, <1>5, <1>6, <1>7

(* With one product, stores that are never slow and commits that succeed,  *)
(* a call is refused only because of a store of that run that is going on  *)
(* or ended without storing (addCheckerRun, "Storage of NAME is already    *)
(* going").                                                                *)
THEOREM RefusedOnlyIfGoingCorrect ==
  ASSUME Calm
  PROVE  Spec => RefusedOnlyIfGoing
<1>1. Init => StoredInv
  BY DEF Init, StoredInv, Empty
<1>2. TypeInv /\ IdInv /\ OwnedInv /\ [Next]_vars => OwnedInv'
  BY OwnedStep
<1>3. TypeInv /\ IdInv /\ OwnedInv /\ StoredInv /\ [Next]_vars => StoredInv'
  BY StoredStep
<1>4. UniqueInv => IdInv
  BY DEF UniqueInv
<1>5. TypeInv /\ UniqueInv /\ OwnedInv /\ StoredInv /\ [Next]_vars => [Refused]_vars
  BY RefusedForAReason
<1>6. [][Refused]_vars => RefusedOnlyIfGoing
  BY PTL DEF RefusedOnlyIfGoing, Refused
<1> QED
  BY <1>1, <1>2, <1>3, <1>4, <1>5, <1>6, TypeInit, TypeStep, UniqueInit,
     UniqueStep, OwnedInit, PTL DEF Spec
-----------------------------------------------------------------------------
(* The refinement: RunStore, of which only Receive, a refusal, the commit  *)
(* and the answer are steps.                                               *)
Seen == <<[s \in Store |-> Request(s)], [s \in Store |-> State(s)],
          {s \in Store : stored[s]}, UNION {Results(p) : p \in Product}>>

PromiseStep == Promise!Next \/ UNCHANGED Seen

LEMMA PromiseInit == Init => Promise!Init
<1> SUFFICES ASSUME Init PROVE Promise!Init
  OBVIOUS
<1>1. [s \in Store |-> Request(s)] = [s \in Store |-> None]
  BY DEF Init, Request
<1>2. [s \in Store |-> State(s)] = [s \in Store |-> "idle"]
  BY DEF Init, State
<1>3. {s \in Store : stored[s]} = {}
  BY DEF Init
<1>4. UNION {Results(p) : p \in Product} = {}
  BY DEF Init, Results, Empty
<1> QED BY <1>1, <1>2, <1>3, <1>4 DEF Promise!Init

(* What a step without a commit or a new call leaves as it was.            *)
LEMMA SeenSame ==
  ASSUME UNCHANGED <<call, runs, stored>>,
         \A s \in Store : pc'[s] = "idle" <=> pc[s] = "idle"
  PROVE  UNCHANGED <<[s \in Store |-> Request(s)], {s \in Store : stored[s]},
                     UNION {Results(p) : p \in Product}>>
<1>1. \A s \in Store : Request(s)' = Request(s)
  BY DEF Request
<1>2. \A p \in Product : Results(p)' = Results(p)
  BY DEF Results
<1> QED BY <1>1, <1>2

(* A call that goes on, fails or is acknowledged.                          *)
LEMMA MovePromised ==
  ASSUME TypeInv, NEW s \in Store, Running(s), NEW to \in PC \ {"idle", "rejected"},
         pc' = [pc EXCEPT ![s] = to], UNCHANGED <<call, runs, stored>>
  PROVE  PromiseStep
<1>1. pc \in [Store -> PC] /\ pc[s] # "idle"
  BY DEF TypeInv, TypeOK, Running
<1>2. UNCHANGED <<[d \in Store |-> Request(d)], {d \in Store : stored[d]},
                  UNION {Results(p) : p \in Product}>>
  BY <1>1, SeenSame
<1>3. State(s) = "pending" /\ \A d \in Store \ {s} : State(d)' = State(d)
  BY <1>1 DEF State, Running
<1>4. CASE to \notin Final
  <2>1. \A d \in Store : State(d)' = State(d)
    BY <1>1, <1>3, <1>4 DEF State
  <2> QED BY <1>2, <2>1 DEF PromiseStep, Seen
<1>5. CASE to = "acked"
  <2>1. State(s)' = "acked"
    BY <1>1, <1>5 DEF State, Final
  <2>2. [d \in Store |-> State(d)]' = [[d \in Store |-> State(d)] EXCEPT ![s] = "acked"]
    BY <1>3, <2>1
  <2>3. Promise!Acknowledge(s)
    BY <1>2, <1>3, <2>2 DEF Promise!Acknowledge
  <2> QED BY <2>3 DEF PromiseStep, Promise!Next
<1>6. CASE to = "failed"
  <2>1. State(s)' = "failed"
    BY <1>1, <1>6 DEF State, Final
  <2>2. [d \in Store |-> State(d)]' = [[d \in Store |-> State(d)] EXCEPT ![s] = "failed"]
    BY <1>3, <2>1
  <2>3. Promise!Fail(s)
    BY <1>2, <1>3, <2>2 DEF Promise!Fail
  <2> QED BY <2>3 DEF PromiseStep, Promise!Next
<1> QED BY <1>4, <1>5, <1>6 DEF Final

LEMMA ReceivePromised ==
  ASSUME TypeInv, NEW s \in Store, Receive(s)
  PROVE  PromiseStep
<1>1. PICK c \in Call : call' = [call EXCEPT ![s] = c]
  BY DEF Receive
<1>2. /\ pc[s] = "idle" /\ pc' = [pc EXCEPT ![s] = "lookup"]
      /\ UNCHANGED <<runs, stored>>
      /\ pc \in [Store -> PC] /\ call \in [Store -> Call \cup {None}]
  BY DEF Receive, Goto, dbVars, TypeInv, TypeOK
<1> DEFINE q == [product |-> c.product, name |-> c.name, found |-> c.found]
<1>3. q \in Promise!Requests
  BY DEF Promise!Requests, Call
<1>4. Request(s)' = q /\ \A d \in Store \ {s} : Request(d)' = Request(d)
  BY <1>1, <1>2 DEF Request
<1>5. /\ State(s) = "idle" /\ State(s)' = "pending"
      /\ \A d \in Store \ {s} : State(d)' = State(d)
  BY <1>2 DEF State, Final
<1>6. \A p \in Product : Results(p)' = Results(p)
  BY <1>2 DEF Results
<1>7. [d \in Store |-> Request(d)]' = [[d \in Store |-> Request(d)] EXCEPT ![s] = q]
  BY <1>4
<1>8. [d \in Store |-> State(d)]' = [[d \in Store |-> State(d)] EXCEPT ![s] = "pending"]
  BY <1>5
<1>9. Promise!Ask(s)
  <2>1. UNCHANGED <<{d \in Store : stored[d]}, UNION {Results(p) : p \in Product}>>
    BY <1>2, <1>6
  <2>2. [d \in Store |-> State(d)][s] = "idle"
    BY <1>5
  <2> QED BY <1>3, <1>7, <1>8, <2>1, <2>2, Zenon DEF Promise!Ask
<1> QED BY <1>9 DEF PromiseStep, Promise!Next

(* A refused call has stored nothing, and its run is there.                *)
LEMMA RefusePromised ==
  ASSUME TypeInv, StoredInv, NEW s \in Store, Lookup(s)
  PROVE  PromiseStep
<1>1. /\ pc[s] = "lookup" /\ UNCHANGED <<call, runs, stored>>
      /\ pc \in [Store -> PC] /\ call[s] \in Call
  BY DEF Lookup, dbVars, TypeInv, TypeOK, ControlInv
<1>2. Running(s)
  BY <1>1 DEF Running, Final
<1>3. CASE pc' = [pc EXCEPT ![s] = "insert"] \/ pc' = [pc EXCEPT ![s] = "update"]
  BY <1>1, <1>2, <1>3, MovePromised DEF PC
<1>4. CASE pc' = [pc EXCEPT ![s] = "rejected"] /\ Named(Db(s), call[s].name) # {}
  <2>1. PICK id \in Named(Db(s), call[s].name) : TRUE
    BY <1>4
  <2> DEFINE r == [product |-> Db(s), name |-> runs[Db(s)][id].name,
                   found |-> runs[Db(s)][id].open]
  <2>2. Db(s) \in Product
    BY <1>1 DEF Db, Call
  <2>3. r \in UNION {Results(p) : p \in Product}
    BY <2>1, <2>2 DEF Named, Results
  <2>4. Promise!SameRun(r, [d \in Store |-> Request(d)][s])
    BY <1>1, <2>1 DEF Promise!SameRun, Request, Named, Db
  <2>5. /\ State(s) = "pending" /\ State(s)' = "rejected"
        /\ \A d \in Store \ {s} : State(d)' = State(d)
    BY <1>1, <1>4 DEF State, Final
  <2>6. [d \in Store |-> State(d)]' = [[d \in Store |-> State(d)] EXCEPT ![s] = "rejected"]
    BY <2>5
  <2>7. s \notin {d \in Store : stored[d]}
    BY <1>1 DEF StoredInv
  <2>8. UNCHANGED <<[d \in Store |-> Request(d)], {d \in Store : stored[d]},
                    UNION {Results(p) : p \in Product}>>
    BY <1>1, <1>4, SeenSame
  <2>9. Promise!Refuse(s)
    BY <2>3, <2>4, <2>5, <2>6, <2>7, <2>8 DEF Promise!Refuse
  <2> QED BY <2>9 DEF PromiseStep, Promise!Next
<1> QED BY <1>3, <1>4 DEF Lookup, Goto

(* The commit replaces the results of its run, and only those.             *)
LEMMA CommitPromised ==
  ASSUME TypeInv, IdInv, NameInv, OwnedInv, WholeInv, StoredInv,
         NEW s \in Store, Commit(s), UniqueNames'
  PROVE  PromiseStep
<1> DEFINE p0 == Db(s)
           i0 == rid[s]
           q == Request(s)
           All == UNION {Results(p) : p \in Product}
<1>1. /\ pc[s] = "commit" /\ pc'[s] = "drop" /\ Handed(s)
      /\ UNCHANGED <<call, rid>>
      /\ \A d \in Store \ {s} : pc'[d] = pc[d]
      /\ stored' = [stored EXCEPT ![s] = TRUE]
  BY CommitRuns
<1>2. /\ \A p \in Product \ {p0} : runs'[p] = runs[p]
      /\ DOMAIN runs'[p0] = DOMAIN runs[p0] \cup {i0}
      /\ \A id \in DOMAIN runs[p0] \ {i0} : runs'[p0][id] = runs[p0][id]
  BY CommitRuns
<1>3. runs'[p0][i0].name = call[s].name /\ runs'[p0][i0].open = call[s].found
  BY CommitRuns
<1>4. p0 \in Product /\ i0 # None
  BY <1>1, MassStoreAssumption DEF Handed, Db, Call
<1>5. q = [product |-> p0, name |-> call[s].name, found |-> call[s].found]
  BY <1>1 DEF Request, Db
<1>6. i0 \in DOMAIN runs[p0] => runs[p0][i0].name = call[s].name
  BY <1>4 DEF NameInv
<1>7. \A id \in DOMAIN runs'[p0] : runs'[p0][id].name = call[s].name => id = i0
  BY <1>2, <1>3, <1>4 DEF UniqueNames
<1>8. All' = {r \in All : ~Promise!SameRun(r, q)} \cup {q}
  <2>1. ASSUME NEW r \in All'
        PROVE  r \in {x \in All : ~Promise!SameRun(x, q)} \cup {q}
    <3>1. PICK p \in Product : r \in Results(p)'
      OBVIOUS
    <3>2. PICK id \in DOMAIN runs'[p] :
            r = [product |-> p, name |-> runs'[p][id].name, found |-> runs'[p][id].open]
      BY <3>1 DEF Results
    <3>3. CASE p = p0 /\ id = i0
      BY <1>3, <1>5, <3>2, <3>3
    <3>4. CASE ~(p = p0 /\ id = i0)
      <4>1. id \in DOMAIN runs[p] /\ runs'[p][id] = runs[p][id]
        BY <1>2, <3>4
      <4>2. r \in Results(p)
        BY <3>2, <4>1 DEF Results
      <4>3. ~Promise!SameRun(r, q)
        BY <1>5, <1>7, <3>2, <3>4 DEF Promise!SameRun
      <4> QED BY <4>2, <4>3
    <3> QED BY <3>3, <3>4
  <2>2. ASSUME NEW r \in All, ~Promise!SameRun(r, q)
        PROVE  r \in All'
    <3>1. PICK p \in Product : r \in Results(p)
      OBVIOUS
    <3>2. PICK id \in DOMAIN runs[p] :
            r = [product |-> p, name |-> runs[p][id].name, found |-> runs[p][id].open]
      BY <3>1 DEF Results
    <3>3. ~(p = p0 /\ id = i0)
      BY <1>5, <1>6, <2>2, <3>2 DEF Promise!SameRun
    <3>4. id \in DOMAIN runs'[p] /\ runs'[p][id] = runs[p][id]
      BY <1>2, <3>3
    <3>5. r \in Results(p)'
      BY <3>2, <3>4 DEF Results
    <3> QED BY <3>5
  <2>3. q \in All'
    <3>1. PICK p \in Product : p = p0
      BY <1>4
    <3>2. i0 \in DOMAIN runs'[p] /\ q = [product |-> p, name |-> runs'[p][i0].name,
                                          found |-> runs'[p][i0].open]
      BY <1>2, <1>3, <1>5, <3>1
    <3>3. q \in Results(p)'
      BY <3>2 DEF Results
    <3> QED BY <3>3
  <2> QED BY <2>1, <2>2, <2>3
<1>9. s \notin {d \in Store : stored[d]}
  BY <1>1 DEF StoredInv
<1>10. {d \in Store : stored[d]}' = {d \in Store : stored[d]} \cup {s}
  BY <1>1 DEF TypeInv, TypeOK
<1>11. /\ [d \in Store |-> Request(d)]' = [d \in Store |-> Request(d)]
       /\ [d \in Store |-> State(d)]' = [d \in Store |-> State(d)]
  <2>1. \A d \in Store : Request(d)' = Request(d) /\ State(d)' = State(d)
    BY <1>1 DEF Request, State, Final
  <2> QED BY <2>1
<1>12. [d \in Store |-> State(d)][s] = "pending" /\ [d \in Store |-> Request(d)][s] = q
  BY <1>1 DEF State, Final
<1>13. Promise!Apply(s)
  BY <1>8, <1>9, <1>10, <1>11, <1>12 DEF Promise!Apply
<1> QED BY <1>13 DEF PromiseStep, Promise!Next

(* A kill of the server fails whatever is pending, and takes nothing back. *)
LEMMA CrashPromised ==
  ASSUME TypeInv, Crash
  PROVE  PromiseStep
<1>1. UNCHANGED <<call, runs, stored>>
  BY DEF Crash
<1>2. pc' = [s \in Store |-> IF Running(s) THEN "failed" ELSE pc[s]]
  BY DEF Crash
<1>3. UNCHANGED <<[d \in Store |-> Request(d)], {d \in Store : stored[d]},
                  UNION {Results(p) : p \in Product}>>
  <2>1. \A s \in Store : pc'[s] = "idle" <=> pc[s] = "idle"
    BY <1>2 DEF Running
  <2> QED BY <1>1, <2>1, SeenSame
<1>4. \A s \in Store : State(s)' = IF State(s) = "pending" THEN "failed" ELSE State(s)
  BY <1>2 DEF State, Running, Final
<1>5. [d \in Store |-> State(d)]' =
        [d \in Store |-> IF [x \in Store |-> State(x)][d] = "pending" THEN "failed"
                         ELSE [x \in Store |-> State(x)][d]]
  BY <1>4
<1>6. Promise!Kill
  BY <1>3, <1>5 DEF Promise!Kill
<1> QED BY <1>6 DEF PromiseStep, Promise!Next

LEMMA PromiseNext ==
  ASSUME Calm, TypeInv, UniqueInv, OwnedInv, WholeInv, StoredInv, [Next]_vars, UniqueInv'
  PROVE  PromiseStep
<1>a. /\ IdInv /\ NameInv /\ UniqueNames'
      /\ TypeOK /\ pc \in [Store -> PC]
  BY DEF UniqueInv, TypeInv, TypeOK
<1>1. ASSUME NEW s \in Store, Running(s),
             \E to \in PC \ {"idle", "rejected"} : pc' = [pc EXCEPT ![s] = to],
             UNCHANGED <<call, runs, stored>>
      PROVE  PromiseStep
  BY <1>1, MovePromised
<1>2. ASSUME UNCHANGED <<pc, call, runs, stored>>
      PROVE  PromiseStep
  <2>1. \A s \in Store : State(s)' = State(s)
    BY <1>2 DEF State
  <2> QED BY <1>2, <2>1, SeenSame DEF PromiseStep, Seen
<1>3. ASSUME NEW s \in Store, UpdateRun(s) \/ InsertRun(s) \/ StartRunSession(s) \/ GetTransaction(s)
      PROVE  PromiseStep
  <2>1. Running(s) /\ UNCHANGED <<call, runs, stored>>
    BY <1>3 DEF UpdateRun, InsertRun, StartRunSession, GetTransaction, Running, Final, dbVars
  <2>2. \E to \in PC \ {"idle", "rejected"} : pc' = [pc EXCEPT ![s] = to]
    BY <1>3 DEF UpdateRun, InsertRun, StartRunSession, GetTransaction, Goto, Fail, PC, Final
  <2> QED BY <1>1, <2>1, <2>2
<1>4. ASSUME NEW s \in Store,
             AddReport(s) \/ WriteReport(s) \/ TouchReport(s) \/ RaiseInStore(s)
      PROVE  PromiseStep
  <2>1. Running(s) /\ UNCHANGED <<call, runs, stored>>
    BY <1>4 DEF AddReport, WriteReport, TouchReport, RaiseInStore, Running, Final, dbVars
  <2>2. \E to \in PC \ {"idle", "rejected"} : pc' = [pc EXCEPT ![s] = to]
    BY <1>4 DEF AddReport, WriteReport, TouchReport, RaiseInStore, Goto, Fail, PC, Final
  <2> QED BY <1>1, <2>1, <2>2
<1>5. ASSUME NEW s \in Store, SetRunDuration(s) \/ FinishCheckerRun(s) \/ MarkFinished(s)
      PROVE  PromiseStep
  <2>1. Running(s) /\ UNCHANGED <<call, runs, stored>>
    BY <1>5 DEF SetRunDuration, FinishCheckerRun, MarkFinished, Running, Final, dbVars
  <2>2. \E to \in PC \ {"idle", "rejected"} : pc' = [pc EXCEPT ![s] = to]
    BY <1>5 DEF SetRunDuration, FinishCheckerRun, MarkFinished, Goto, Fail, Ack, PC, Final
  <2> QED BY <1>1, <2>1, <2>2
<1>6. ASSUME NEW s \in Store, AbortSession(s) \/ EndRunSession(s) \/ DropSession(s)
      PROVE  PromiseStep
  <2>1. Running(s) /\ UNCHANGED <<call, runs, stored>>
    BY <1>6 DEF AbortSession, EndRunSession, DropSession, Running, Final, dbVars
  <2>2. \E to \in PC \ {"idle", "rejected"} : pc' = [pc EXCEPT ![s] = to]
    BY <1>6 DEF AbortSession, EndRunSession, DropSession, Goto, Ack, PC, Final
  <2> QED BY <1>1, <2>1, <2>2
<1>7. ASSUME NEW s \in Store, CommitFails(s) PROVE PromiseStep
  BY <1>7, <1>a DEF CommitFails, Calm, TypeOK
<1>8. ASSUME NEW s \in Store, Collect(s) PROVE PromiseStep
  BY <1>2, <1>8 DEF Collect, callVars
<1>9. ASSUME NEW id \in DOMAIN sessions, GoStale(id) PROVE PromiseStep
  BY <1>2, <1>9 DEF GoStale, callVars, dbVars
<1>10. CASE Timer
  BY <1>2, <1>10 DEF Timer, TimerWake, TimerNext, TimerAbort, TimerDel, callVars, dbVars
<1>11. CASE UNCHANGED vars
  BY <1>2, <1>11 DEF vars, callVars, dbVars
<1> QED
  BY <1>a, <1>3, <1>4, <1>5, <1>6, <1>7, <1>8, <1>9, <1>10, <1>11, ReceivePromised,
     RefusePromised, CommitPromised, CrashPromised DEF Next, Proceed

(* With one product, stores that are never slow and commits that succeed,  *)
(* each massStoreRun looks to callers and readers as if it had replaced    *)
(* the results of its run in one step between its request and its answer,  *)
(* at most once, and not at all if it was refused; for any number of       *)
(* calls, failures and kills.                                              *)
THEOREM ImplementsPromise ==
  ASSUME Calm
  PROVE  Spec => PromiseSpec
<1>1. Init => StoredInv
  BY DEF Init, StoredInv, Empty
<1>2. TypeInv /\ IdInv /\ OwnedInv /\ [Next]_vars => OwnedInv'
  BY OwnedStep
<1>3. TypeInv /\ IdInv /\ OwnedInv /\ StoredInv /\ [Next]_vars => StoredInv'
  BY StoredStep
<1>4. TypeInv /\ IdInv /\ OwnedInv /\ WholeInv /\ [Next]_vars => WholeInv'
  BY WholeStep
<1>5. UniqueInv => IdInv
  BY DEF UniqueInv
<1>6. TypeInv /\ UniqueInv /\ OwnedInv /\ WholeInv /\ StoredInv /\ [Next]_vars /\ UniqueInv'
        => [Promise!Next]_Seen
  BY PromiseNext DEF PromiseStep, Seen
<1> QED
  BY <1>1, <1>2, <1>3, <1>4, <1>5, <1>6, PromiseInit, TypeInit, TypeStep, UniqueInit,
     UniqueStep, OwnedInit, WholeInit, PTL DEF Spec, PromiseSpec, Promise!Spec, Seen
=============================================================================
