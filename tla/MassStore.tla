------------------------------ MODULE MassStore ------------------------------
(***************************************************************************)
(* Concurrent massStoreRun calls on one server: the threads of the pool,   *)
(* the StorageSession singleton they share, the timer thread that aborts   *)
(* idle storage sessions, and the database transactions they hold          *)
(* (server/api/report_server.py, analyze/store_handler.py).                *)
(*                                                                         *)
(* A call has one thread and one SQLAlchemy session, so a member of Store  *)
(* names the call, its thread and its transaction; a client that retries   *)
(* makes another call.  A dictionary operation or a database statement is  *)
(* one step.  The database is the PostgreSQL one, at READ COMMITTED.       *)
(*                                                                         *)
(* Abstraction: the files, the review statuses and the run history that a  *)
(* call also stores are left out, and a run is its open reports, those a   *)
(* store found (ReportStore has the detection statuses).  The rows of the  *)
(* reports table are not locked, the row of the run is.                    *)
(***************************************************************************)
EXTENDS Naturals, FiniteSets

CONSTANTS
  Store,        \* the calls of massStoreRun
  Product,      \* products served, each with a database of its own
  Name,         \* run names
  Bug,          \* reports a call may carry
  FirstId,      \* the run id the sequence of each database starts with
  MaxRaises,    \* bound: calls that raise while they process the reports
  MaxLostCommits,  \* bound: commits the database refuses or loses
  MaxCrashes,   \* bound: kills of the server process
  SlowStores,   \* may a call spend over 10 seconds between two session uses?
  None

ASSUME MassStoreAssumption ==
  /\ FirstId \in [Product -> Nat]
  /\ MaxRaises \in Nat /\ MaxLostCommits \in Nat /\ MaxCrashes \in Nat
  /\ SlowStores \in BOOLEAN
  /\ None \notin Store /\ None \notin Nat

VARIABLES
  pc,         \* where each call is
  call,       \* its arguments
  left,       \* the reports it still has to add
  item,       \* the report it is adding
  rid,        \* the run id addCheckerRun gave it
  local,      \* the transaction its current handler function holds
  sessions,   \* StorageSession.__sessions, by run id
  txn,        \* what each transaction wrote and has not committed
  runs,       \* the committed runs of each product's database
  nextId,     \* the sequence of run ids of each database
  timer,      \* the timer thread: its state and the keys it has visited
  raises, lost, crashes,   \* how often each has happened
  stored      \* history: did the call commit exactly its own results?

dbVars == <<txn, runs, nextId>>
counts == <<raises, lost, crashes>>
callVars == <<pc, call, left, item, rid, local>>
vars == <<callVars, sessions, dbVars, timer, counts, stored>>

Final == {"rejected", "failed", "acked"}

PC == {"idle", "lookup", "update", "insert", "start", "get", "add", "write",
       "touch", "finish", "mark", "abort", "end", "commit", "drop"}
      \cup Final

Call == [product : Product, name : Name, found : SUBSET Bug, timed : BOOLEAN]

ASSUME NoneAssumption == None \notin Call

Txn == [row : {"none", "inserted", "updated"}, finished : BOOLEAN,
        added : SUBSET Bug, gone : SUBSET Bug]

Begun == [row |-> "none", finished |-> FALSE, added |-> {}, gone |-> {}]

Session == [txn : Store, touched : SUBSET Bug, fresh : BOOLEAN]

Run == [name : Name, finished : BOOLEAN, open : SUBSET Bug]

TimerThread == [state : {"sleep", "scan", "abort", "del", "dead"},
                key : Nat \cup {None}, visited : SUBSET Nat, size : Nat]

IsMap(f, S) == /\ DOMAIN f \subseteq Nat
               /\ f \in [DOMAIN f -> S]

TypeOK ==
  /\ pc \in [Store -> PC]
  /\ call \in [Store -> Call \cup {None}]
  /\ left \in [Store -> SUBSET Bug]
  /\ item \in [Store -> Bug \cup {None}]
  /\ rid \in [Store -> Nat \cup {None}]
  /\ local \in [Store -> Store \cup {None}]
  /\ IsMap(sessions, Session)
  /\ txn \in [Store -> Txn]
  /\ runs = [p \in Product |-> runs[p]]
  /\ \A p \in Product : IsMap(runs[p], Run)
  /\ nextId \in [Product -> Nat]
  /\ timer \in TimerThread
  /\ raises \in Nat /\ lost \in Nat /\ crashes \in Nat
  /\ stored \in [Store -> BOOLEAN]

Empty == [k \in {} |-> None]
Asleep == [state |-> "sleep", key |-> None, visited |-> {}, size |-> 0]

Init ==
  /\ pc = [s \in Store |-> "idle"]
  /\ call = [s \in Store |-> None]
  /\ left = [s \in Store |-> {}]
  /\ item = [s \in Store |-> None]
  /\ rid = [s \in Store |-> None]
  /\ local = [s \in Store |-> None]
  /\ sessions = Empty
  /\ txn = [s \in Store |-> Begun]
  /\ runs = [p \in Product |-> Empty]
  /\ nextId = FirstId
  /\ timer = Asleep
  /\ raises = 0 /\ lost = 0 /\ crashes = 0
  /\ stored = [s \in Store |-> FALSE]

Put(f, k, v) == [x \in DOMAIN f \cup {k} |-> IF x = k THEN v ELSE f[x]]
Drop(f, k) == [x \in DOMAIN f \ {k} |-> f[x]]

-----------------------------------------------------------------------------
(* The database.                                                           *)

Db(t) == call[t].product
Running(s) == pc[s] \notin {"idle"} \cup Final

(* Mutant: names are not unique.                                           *)
NameNeverHeld(t) == FALSE

(* Transaction t waits for u: both are in one database, and u has written  *)
(* the row of the run id, or inserted the name, that t is about to write.  *)
RowHeldByOther(t, id) ==
  \E u \in Store \ {t} : /\ txn[u].row # "none"
                         /\ Db(u) = Db(t) /\ rid[u] = id

NameHeldByOther(t) ==
  \E u \in Store \ {t} : /\ txn[u].row = "inserted"
                         /\ Db(u) = Db(t) /\ call[u].name = call[t].name

(* The committed run of that name, and the run of t as t sees it.          *)
Named(p, n) == {id \in DOMAIN runs[p] : runs[p][id].name = n}

Visible(t) == txn[t].row = "inserted" \/ rid[t] \in DOMAIN runs[Db(t)]

CommittedOpen(t) ==
  IF rid[t] \in DOMAIN runs[Db(t)] THEN runs[Db(t)][rid[t]].open ELSE {}

OpenAfter(t) == (CommittedOpen(t) \cup txn[t].added) \ txn[t].gone

FinishedIn(t) ==
  IF txn[t].row = "none" THEN runs[Db(t)][rid[t]].finished ELSE txn[t].finished

(* Setting the duration writes the row of the run.                         *)
WriteDuration(t) ==
  /\ ~RowHeldByOther(t, rid[t])
  /\ txn' = [txn EXCEPT ![t] =
               [row |-> IF txn[t].row = "none" THEN "updated" ELSE txn[t].row,
                finished |-> TRUE, added |-> txn[t].added, gone |-> txn[t].gone]]

RunAfter(t) ==
  [name |-> call[t].name, finished |-> FinishedIn(t), open |-> OpenAfter(t)]

Rollback(t) == [txn EXCEPT ![t] = Begun]

-----------------------------------------------------------------------------
(* The StorageSession singleton.                                           *)

Ongoing(id) == id \in DOMAIN sessions          \* has_ongoing_run

Refresh(id) ==                                 \* get_transaction
  sessions' = [sessions EXCEPT ![id].fresh = TRUE]

Goto(s, to) == pc' = [pc EXCEPT ![s] = to]

(* The call raises: whatever it left in the dictionary stays there.        *)
Fail(s) == /\ Goto(s, "failed")
           /\ local' = [local EXCEPT ![s] = None]

(* finishCheckerRun logs the exception and returns False, which nobody     *)
(* looks at: the client gets the run id.                                   *)
Ack(s) == /\ Goto(s, "acked")
          /\ local' = [local EXCEPT ![s] = None]

-----------------------------------------------------------------------------
(* massStoreRun, up to addCheckerRun.                                      *)
Receive(s) ==
  /\ pc[s] = "idle"
  /\ \E c \in Call :
       /\ call' = [call EXCEPT ![s] = c]
       /\ left' = [left EXCEPT ![s] = c.found]
  /\ Goto(s, "lookup")
  /\ UNCHANGED <<item, rid, local, sessions, dbVars, timer, counts, stored>>

(* The run is queried by its name; a run with a session is refused.        *)
Lookup(s) ==
  /\ pc[s] = "lookup"
  /\ LET found == Named(Db(s), call[s].name)
     IN  \/ /\ found = {}
            /\ Goto(s, "insert")
            /\ UNCHANGED rid
         \/ \E id \in found :
              \/ /\ Ongoing(id)
                 /\ Goto(s, "rejected")
                 /\ UNCHANGED rid
              \/ /\ ~Ongoing(id)
                 /\ Goto(s, "update")
                 /\ rid' = [rid EXCEPT ![s] = id]
  /\ UNCHANGED <<call, left, item, local, sessions, dbVars, timer, counts, stored>>

(* Mutant: the UPDATE is not flushed, so it neither waits nor locks.       *)
UpdateRunNotFlushed(s) ==
  /\ pc[s] = "update"
  /\ txn' = [txn EXCEPT ![s] = Begun]
  /\ Goto(s, "start")
  /\ UNCHANGED <<call, left, item, rid, local, sessions, runs, nextId, timer, counts, stored>>

(* The flushed UPDATE of date, command and duration = -1.                  *)
UpdateRun(s) ==
  /\ pc[s] = "update"
  /\ ~RowHeldByOther(s, rid[s])
  /\ txn' = [txn EXCEPT ![s] = [Begun EXCEPT !.row = "updated"]]
  /\ Goto(s, "start")
  /\ UNCHANGED <<call, left, item, rid, local, sessions, runs, nextId, timer, counts, stored>>

(* Mutant: the id of the new run is not read back.                         *)
InsertRunForgetsId(s) ==
  /\ pc[s] = "insert"
  /\ ~NameHeldByOther(s)
  /\ nextId' = [nextId EXCEPT ![Db(s)] = @ + 1]
  /\ \/ /\ Named(Db(s), call[s].name) # {}
        /\ Fail(s)
        /\ UNCHANGED <<rid, txn>>
     \/ /\ Named(Db(s), call[s].name) = {}
        /\ txn' = [txn EXCEPT ![s] = [Begun EXCEPT !.row = "inserted"]]
        /\ Goto(s, "start")
        /\ UNCHANGED <<rid, local>>
  /\ UNCHANGED <<call, left, item, sessions, runs, timer, counts, stored>>

(* The flushed INSERT: it waits for another insert of the name, then fails *)
(* on UNIQUE(name) if that one was committed.  The sequence moves on.      *)
InsertRun(s) ==
  /\ pc[s] = "insert"
  /\ ~NameHeldByOther(s)
  /\ nextId' = [nextId EXCEPT ![Db(s)] = @ + 1]
  /\ \/ /\ Named(Db(s), call[s].name) # {}
        /\ Fail(s)
        /\ UNCHANGED <<rid, txn>>
     \/ /\ Named(Db(s), call[s].name) = {}
        /\ rid' = [rid EXCEPT ![s] = nextId[Db(s)]]
        /\ txn' = [txn EXCEPT ![s] = [Begun EXCEPT !.row = "inserted"]]
        /\ Goto(s, "start")
        /\ UNCHANGED local
  /\ UNCHANGED <<call, left, item, sessions, runs, timer, counts, stored>>

(* start_run_session: whatever the key held is overwritten.                *)
StartRunSession(s) ==
  /\ pc[s] = "start"
  /\ sessions' = Put(sessions, rid[s],
                     [txn |-> s, touched |-> {}, fresh |-> TRUE])
  /\ Goto(s, "get")
  /\ UNCHANGED <<call, left, item, rid, local, dbVars, timer, counts, stored>>

(* massStoreRun fetches the transaction it has just handed over.           *)
GetTransaction(s) ==
  /\ pc[s] = "get"
  /\ \/ Ongoing(rid[s]) /\ Refresh(rid[s]) /\ Goto(s, "add") /\ UNCHANGED local
     \/ ~Ongoing(rid[s]) /\ Fail(s) /\ UNCHANGED sessions
  /\ UNCHANGED <<call, left, item, rid, dbVars, timer, counts, stored>>

-----------------------------------------------------------------------------
(* addReport: get_transaction, the statements, touch_report.  Between them *)
(* other threads run.                                                      *)
AddReport(s) ==
  /\ pc[s] = "add"
  /\ \E b \in left[s] :
       /\ item' = [item EXCEPT ![s] = b]
       /\ left' = [left EXCEPT ![s] = @ \ {b}]
  /\ \/ /\ Ongoing(rid[s])
        /\ Refresh(rid[s])
        /\ local' = [local EXCEPT ![s] = sessions[rid[s]].txn]
        /\ Goto(s, "write")
     \/ ~Ongoing(rid[s]) /\ Fail(s) /\ UNCHANGED sessions
  /\ UNCHANGED <<call, rid, dbVars, timer, counts, stored>>

WriteReport(s) ==
  /\ pc[s] = "write"
  /\ txn' = [txn EXCEPT ![local[s]].added = @ \cup {item[s]}]
  /\ Goto(s, "touch")
  /\ UNCHANGED <<call, left, item, rid, local, sessions, runs, nextId, timer, counts, stored>>

TouchReport(s) ==
  /\ pc[s] = "touch"
  /\ \/ /\ Ongoing(rid[s])
        /\ sessions' = [sessions EXCEPT ![rid[s]].touched = @ \cup {item[s]}]
        /\ local' = [local EXCEPT ![s] = None]
        /\ Goto(s, "add")
     \/ ~Ongoing(rid[s]) /\ Fail(s) /\ UNCHANGED sessions
  /\ UNCHANGED <<call, left, item, rid, dbVars, timer, counts, stored>>

(* Anything that raises while the plist files are processed.               *)
RaiseInStore(s) ==
  /\ pc[s] = "add"
  /\ raises < MaxRaises
  /\ raises' = raises + 1
  /\ Fail(s)
  /\ UNCHANGED <<call, left, item, rid, sessions, dbVars, timer, lost, crashes, stored>>

-----------------------------------------------------------------------------
(* setRunDuration, called when the analyzer recorded durations.  Without a *)
(* session its handler raises a NameError (`return false').                *)
SetRunDuration(s) ==
  /\ pc[s] = "add" /\ left[s] = {} /\ call[s].timed
  /\ \/ /\ Ongoing(rid[s])
        /\ LET t == sessions[rid[s]].txn
           IN  IF Visible(t) THEN WriteDuration(t) ELSE UNCHANGED txn
        /\ Refresh(rid[s])
        /\ Goto(s, "finish")
        /\ UNCHANGED local
     \/ ~Ongoing(rid[s]) /\ Fail(s) /\ UNCHANGED <<sessions, txn>>
  /\ UNCHANGED <<call, left, item, rid, runs, nextId, timer, counts, stored>>

(* finishCheckerRun.                                                       *)
FinishCheckerRun(s) ==
  /\ \/ pc[s] = "finish"
     \/ pc[s] = "add" /\ left[s] = {} /\ ~call[s].timed
  /\ \/ /\ Ongoing(rid[s])
        /\ Refresh(rid[s])
        /\ local' = [local EXCEPT ![s] = sessions[rid[s]].txn]
        /\ Goto(s, "mark")
     \/ ~Ongoing(rid[s]) /\ Ack(s) /\ UNCHANGED sessions
  /\ UNCHANGED <<call, left, item, rid, dbVars, timer, counts, stored>>

(* Mutant: mark_finished is not called.                                    *)
MarkFinishedForgotten(s) ==
  /\ pc[s] = "mark"
  /\ LET t == local[s]
     IN  \/ /\ Visible(t)
            /\ UNCHANGED txn
            /\ Goto(s, "end")
         \/ ~Visible(t) /\ Goto(s, "abort") /\ UNCHANGED txn
  /\ UNCHANGED <<call, left, item, rid, local, sessions, runs, nextId, timer, counts, stored>>

MarkFinished(s) ==
  /\ pc[s] = "mark"
  /\ LET t == local[s]
     IN  \/ /\ Visible(t)
            /\ IF FinishedIn(t) THEN UNCHANGED txn ELSE WriteDuration(t)
            /\ Goto(s, "end")
         \/ ~Visible(t) /\ Goto(s, "abort") /\ UNCHANGED txn
  /\ UNCHANGED <<call, left, item, rid, local, sessions, runs, nextId, timer, counts, stored>>

(* abort_session, called because the run is gone.                          *)
AbortSession(s) ==
  /\ pc[s] = "abort"
  /\ \/ /\ Ongoing(rid[s])
        /\ txn' = Rollback(sessions[rid[s]].txn)
        /\ Goto(s, "drop")
        /\ UNCHANGED local
     \/ ~Ongoing(rid[s]) /\ Ack(s) /\ UNCHANGED txn
  /\ UNCHANGED <<call, left, item, rid, sessions, runs, nextId, timer, counts, stored>>

(* Mutant: the untouched reports are not resolved.                         *)
EndRunSessionKeepsOpen(s) ==
  /\ pc[s] = "end"
  /\ \/ /\ Ongoing(rid[s])
        /\ LET t == sessions[rid[s]].txn
           IN  /\ txn' = [txn EXCEPT ![t].gone =
                             {}]
               /\ local' = [local EXCEPT ![s] = t]
        /\ Goto(s, "commit")
     \/ ~Ongoing(rid[s]) /\ Ack(s) /\ UNCHANGED txn
  /\ UNCHANGED <<call, left, item, rid, sessions, runs, nextId, timer, counts, stored>>

(* end_run_session: the UPDATE of the untouched reports, the commit, and   *)
(* the removal of the key are three steps.                                 *)
EndRunSession(s) ==
  /\ pc[s] = "end"
  /\ \/ /\ Ongoing(rid[s])
        /\ LET t == sessions[rid[s]].txn
           IN  /\ txn' = [txn EXCEPT ![t].gone =
                             (CommittedOpen(t) \cup txn[t].added)
                               \ sessions[rid[s]].touched]
               /\ local' = [local EXCEPT ![s] = t]
        /\ Goto(s, "commit")
     \/ ~Ongoing(rid[s]) /\ Ack(s) /\ UNCHANGED txn
  /\ UNCHANGED <<call, left, item, rid, sessions, runs, nextId, timer, counts, stored>>

Commit(s) ==
  /\ pc[s] = "commit"
  /\ LET t == local[s]
     IN  /\ txn' = Rollback(t)        \* nothing is pending any more
         /\ \/ /\ Visible(t)
               /\ runs' = [runs EXCEPT ![Db(t)] = Put(@, rid[t], RunAfter(t))]
               /\ stored' = [stored EXCEPT ![s] =
                               @ \/ (t = s /\ OpenAfter(t) = call[s].found)]
               /\ Goto(s, "drop")
               /\ UNCHANGED local
            \/ /\ ~Visible(t)
               /\ IF txn[t].added = {} THEN Goto(s, "drop") /\ UNCHANGED local
                                       ELSE Ack(s)       \* no such run
               /\ UNCHANGED <<runs, stored>>
  /\ UNCHANGED <<call, left, item, rid, sessions, nextId, timer, counts>>

(* The database refuses or loses the commit; the exception is logged.      *)
CommitFails(s) ==
  /\ pc[s] = "commit"
  /\ lost < MaxLostCommits
  /\ lost' = lost + 1
  /\ txn' = Rollback(local[s])
  /\ Ack(s)
  /\ UNCHANGED <<call, left, item, rid, sessions, runs, nextId, timer, raises,
                 crashes, stored>>

(* Mutant: the key stays in the dictionary after the commit.               *)
DropSessionForgotten(s) ==
  /\ pc[s] = "drop"
  /\ UNCHANGED sessions
  /\ Ack(s)
  /\ UNCHANGED <<call, left, item, rid, dbVars, timer, counts, stored>>

DropSession(s) ==
  /\ pc[s] = "drop"
  /\ IF Ongoing(rid[s]) THEN sessions' = Drop(sessions, rid[s])
                        ELSE UNCHANGED sessions        \* KeyError, logged
  /\ Ack(s)
  /\ UNCHANGED <<call, left, item, rid, dbVars, timer, counts, stored>>

-----------------------------------------------------------------------------
InSession == {"get", "add", "write", "touch", "finish", "mark", "abort", "end",
              "commit", "drop"}

(* A key nobody works with; unless stores may be slow, only such a session *)
(* goes without use for more than 10 seconds.                              *)
Abandoned(id) == \A s \in Store : pc[s] \in InSession => rid[s] # id

GoStale(id) ==
  /\ id \in DOMAIN sessions
  /\ sessions[id].fresh
  /\ SlowStores \/ Abandoned(id)
  /\ sessions' = [sessions EXCEPT ![id].fresh = FALSE]
  /\ UNCHANGED <<callVars, dbVars, timer, counts, stored>>

(* The timer thread, _timeout_sessions: it iterates over the dictionary,   *)
(* which raises when its size has changed, and aborts the first session    *)
(* that has been idle too long.  An exception ends the chain of timers.    *)
TimerWake ==
  /\ timer.state = "sleep"
  /\ timer' = [state |-> "scan", key |-> None, visited |-> {},
               size |-> Cardinality(DOMAIN sessions)]
  /\ UNCHANGED <<callVars, sessions, dbVars, counts, stored>>

(* Mutant: no session is ever old enough.                                  *)
TimerNextNeverAborts ==
  /\ timer.state = "scan"
  /\ IF Cardinality(DOMAIN sessions) # timer.size
     THEN timer' = [timer EXCEPT !.state = "dead"]      \* RuntimeError
     ELSE IF DOMAIN sessions \subseteq timer.visited
     THEN timer' = Asleep
     ELSE \E id \in DOMAIN sessions \ timer.visited :
            timer' = [timer EXCEPT !.visited = @ \cup {id}]
  /\ UNCHANGED <<callVars, sessions, dbVars, counts, stored>>

TimerNext ==
  /\ timer.state = "scan"
  /\ IF Cardinality(DOMAIN sessions) # timer.size
     THEN timer' = [timer EXCEPT !.state = "dead"]      \* RuntimeError
     ELSE IF DOMAIN sessions \subseteq timer.visited
     THEN timer' = Asleep
     ELSE \E id \in DOMAIN sessions \ timer.visited :
            timer' = IF sessions[id].fresh
                     THEN [timer EXCEPT !.visited = @ \cup {id}]
                     ELSE [timer EXCEPT !.state = "abort", !.key = id]
  /\ UNCHANGED <<callVars, sessions, dbVars, counts, stored>>

TimerAbort ==
  /\ timer.state = "abort"
  /\ IF Ongoing(timer.key)
     THEN /\ txn' = Rollback(sessions[timer.key].txn)
          /\ timer' = [timer EXCEPT !.state = "del"]
     ELSE /\ timer' = [timer EXCEPT !.state = "dead"]    \* KeyError
          /\ UNCHANGED txn
  /\ UNCHANGED <<callVars, sessions, runs, nextId, counts, stored>>

(* Mutant: the aborted session stays in the dictionary.                    *)
TimerDelKeepsKey ==
  /\ timer.state = "del"
  /\ IF Ongoing(timer.key)
     THEN /\ timer' = Asleep
          /\ UNCHANGED sessions
     ELSE /\ timer' = [timer EXCEPT !.state = "dead"]    \* KeyError
          /\ UNCHANGED sessions
  /\ UNCHANGED <<callVars, dbVars, counts, stored>>

TimerDel ==
  /\ timer.state = "del"
  /\ IF Ongoing(timer.key)
     THEN /\ sessions' = Drop(sessions, timer.key)
          /\ timer' = Asleep
     ELSE /\ timer' = [timer EXCEPT !.state = "dead"]    \* KeyError
          /\ UNCHANGED sessions
  /\ UNCHANGED <<callVars, dbVars, counts, stored>>

(* The transaction of a call that has ended is rolled back once nothing    *)
(* refers to it.                                                           *)
Collect(t) ==
  /\ txn[t] # Begun
  /\ ~Running(t)
  /\ \A id \in DOMAIN sessions : sessions[id].txn # t
  /\ \A s \in Store : local[s] # t
  /\ txn' = Rollback(t)
  /\ UNCHANGED <<callVars, sessions, runs, nextId, timer, counts, stored>>

(* The server is killed and started again: the dictionary and the          *)
(* transactions are gone, the clients see an error.                        *)
Crash ==
  /\ crashes < MaxCrashes
  /\ crashes' = crashes + 1
  /\ pc' = [s \in Store |-> IF Running(s) THEN "failed" ELSE pc[s]]
  /\ local' = [s \in Store |-> None]
  /\ sessions' = Empty
  /\ txn' = [s \in Store |-> Begun]
  /\ timer' = Asleep
  /\ UNCHANGED <<call, left, item, rid, runs, nextId, raises, lost, stored>>

(* The steps a call takes by itself.                                       *)
Proceed(s) ==
  \/ Lookup(s) \/ UpdateRun(s) \/ InsertRun(s) \/ StartRunSession(s)
  \/ GetTransaction(s) \/ AddReport(s) \/ WriteReport(s) \/ TouchReport(s)
  \/ SetRunDuration(s) \/ FinishCheckerRun(s) \/ MarkFinished(s)
  \/ AbortSession(s) \/ EndRunSession(s) \/ Commit(s) \/ DropSession(s)

Timer == TimerWake \/ TimerNext \/ TimerAbort \/ TimerDel

Next ==
  \/ \E s \in Store : \/ Receive(s) \/ Proceed(s)
                      \/ RaiseInStore(s) \/ CommitFails(s) \/ Collect(s)
  \/ \E id \in DOMAIN sessions : GoStale(id)
  \/ Timer
  \/ Crash

Spec == Init /\ [][Next]_vars

(* Threads are scheduled, the timer fires every 10 seconds, and a session  *)
(* nobody uses gets old.                                                   *)
Fairness ==
  /\ \A s \in Store : WF_vars(Proceed(s)) /\ WF_vars(Collect(s))
  /\ WF_vars(Timer)
  /\ WF_vars(\E id \in DOMAIN sessions : Abandoned(id) /\ GoStale(id))

FairSpec == Spec /\ Fairness
-----------------------------------------------------------------------------
(* A handler only ever writes to and commits the transaction of its own    *)
(* call: no store adds reports to, marks or commits another one's.         *)
OwnTransaction == \A s \in Store : local[s] \in {None, s}

(* The results of a run are what one store of that run in that product     *)
(* found: never a mixture of two stores, never half of one (end_run_session*)
(* resolves and commits once, at the end).                                 *)
WholeResults ==
  \A p \in Product : \A id \in DOMAIN runs[p] :
    \E s \in Store : /\ call[s] # None /\ rid[s] = id
                    /\ call[s].product = p
                    /\ call[s].name = runs[p][id].name
                    /\ call[s].found = runs[p][id].open

(* run_db_model.py, "Seconds, -1 if unfinished": a run other requests can  *)
(* see has been finished, it never shows the -1 of a store in progress.    *)
CommittedRunsFinished ==
  \A p \in Product : \A id \in DOMAIN runs[p] : runs[p][id].finished

(* Two runs of a product never share a name (addCheckerRun against the     *)
(* race of two stores that both found no run).                             *)
UniqueNames ==
  \A p \in Product : \A i, j \in DOMAIN runs[p] :
    runs[p][i].name = runs[p][j].name => i = j

(* libhandlers/store.py prints "Storage finished successfully." when the   *)
(* call returns: then the results were committed, all of them.             *)
AckMeansStored == \A s \in Store : pc[s] = "acked" => stored[s]

(* addCheckerRun, "Storage of NAME is already going": a call is refused    *)
(* only because of a store of that run of that product that is still       *)
(* running, or that ended without storing and waits for the timer.         *)
RefusedOnlyIfGoing ==
  [][\A s \in Store :
       pc[s] = "lookup" /\ pc'[s] = "rejected" =>
         \E t \in {sessions[id].txn : id \in DOMAIN sessions} :
           /\ Db(t) = Db(s) /\ call[t].name = call[s].name
           /\ Running(t) \/ ~stored[t]]_vars

RunIds == {FirstId[p] + i : p \in Product, i \in 0..Cardinality(Store)}

(* The docstring of _timeout_sessions: a session nobody works with any     *)
(* more is timed out, so the run can be stored again.                      *)
AbandonedTimesOut ==
  \A id \in RunIds : id \in DOMAIN sessions /\ Abandoned(id)
                    ~> id \notin DOMAIN sessions \/ ~Abandoned(id)

(* The same, as long as the timer thread lives.                            *)
TimerFreesAbandoned ==
  \A id \in RunIds : id \in DOMAIN sessions /\ Abandoned(id)
                    ~> \/ id \notin DOMAIN sessions \/ ~Abandoned(id)
                       \/ timer.state = "dead"

(* Every call ends: whoever waits for the row or the name of a run gets    *)
(* it, or the timer thread is dead.                                        *)
CallsEnd ==
  \A s \in Store : pc[s] = "lookup" ~> pc[s] \in Final \/ timer.state = "dead"

(* The rows of the runs are well formed, and each run has one: two stores  *)
(* of a new run never both insert it (addCheckerRun).                      *)
RunsFit == TypeOK /\ UniqueNames

(* What other requests see of a run is one finished store, whole.          *)
CommittedIsWhole == WholeResults /\ CommittedRunsFinished

-----------------------------------------------------------------------------
(* The calls as callers and readers see them.                              *)
Request(s) ==
  IF pc[s] = "idle" THEN None
  ELSE [product |-> call[s].product, name |-> call[s].name, found |-> call[s].found]

State(s) == IF pc[s] = "idle" \/ pc[s] \in Final THEN pc[s] ELSE "pending"

Results(p) ==
  {[product |-> p, name |-> runs[p][id].name, found |-> runs[p][id].open] :
     id \in DOMAIN runs[p]}

Promise == INSTANCE RunStore
             WITH request <- [s \in Store |-> Request(s)],
                  state <- [s \in Store |-> State(s)],
                  applied <- {s \in Store : stored[s]},
                  results <- UNION {Results(p) : p \in Product}

(* Whatever stores, failures, the timer and kills do to each other, each   *)
(* call looks as if it had replaced the results of its run in one step     *)
(* between its request and its answer, at most once, and not at all if it  *)
(* was refused (the commit of end_run_session).                            *)
PromiseSpec == Promise!Spec
=============================================================================
