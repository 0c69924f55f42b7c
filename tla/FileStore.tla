----------------------------- MODULE FileStore -----------------------------
(***************************************************************************)
(* The source files of a product's reports: stores that send only the      *)
(* contents the server lacks, against removals of runs that delete the     *)
(* files no report refers to (libhandlers/store.py, addFileContent and     *)
(* addFileRecord in analyze/store_handler.py, getMissingContentHashes,     *)
(* massStoreRun and removeRunResults in server/api/report_server.py).      *)
(*                                                                         *)
(* A report stands for the file it is found in: a run has at most one per  *)
(* path.  The storage of reports itself is one step here; ReportStore and  *)
(* MassStore are about it.                                                 *)
(***************************************************************************)
EXTENDS Naturals, FiniteSets, FiniteSetsExt

CONSTANTS
  Store,       \* calls of massStoreRun, each made at most once
  Removal,     \* calls of removeRunResults, likewise
  Run,         \* names of runs
  Path, Hash,  \* paths of files, and hashes of what is in them
  OldRun,      \* the runs there are at the beginning: each has one report,
  OldPath, OldHash,  \* in this file
  Backend,     \* the kinds of database considered
  MaxCrashes,  \* bound: how often the server is killed
  None

ASSUME FileStoreAssumption ==
  /\ OldRun \in SUBSET Run /\ OldPath \in Path /\ OldHash \in Hash
  /\ IsFiniteSet(Store) /\ Store \cap Removal = {}
  /\ Backend \subseteq {"sqlite", "postgresql"} /\ MaxCrashes \in Nat
  /\ None \notin Path \cup Hash \cup Nat

VARIABLES
  backend,   \* the database of the product
  contents,  \* the hashes in file_contents
  files,     \* rows of files
  events,    \* rows of bug_path_events: the file each report refers to
  runs,      \* the state of each run
  pc,        \* where each call is
  job,       \* what each store was asked to do, and has done
  wipe,      \* what each removal was asked to do, and has done
  crashes

storeVars == <<job, wipe>>
vars == <<backend, contents, files, events, runs, pc, job, wipe, crashes>>

(* Only one transaction at a time writes.                                  *)
OneWriter == backend = "sqlite"

File == [id : Nat, path : Path, hash : Hash]

(* path and hash are those of the file the analyzer found the report in.   *)
Event == [run : Run, path : Path, hash : Hash, file : Nat]

Final == {"failed", "done"}

(* tree is file_to_hash of the client, zip the files it packs, todo those  *)
(* massStoreRun has not visited, at the one it is visiting, ids is         *)
(* file_path_to_id.                                                        *)
Job == [run : Run \cup {None}, tree : {job[s].tree : s \in Store},
        zip : SUBSET Path, todo : SUBSET Path, at : Path \cup {None},
        id : Nat, ids : {job[s].ids : s \in Store}]
ByPath(f, S) == DOMAIN f \subseteq Path /\ f \in [DOMAIN f -> S]

Nothing == [p \in {} |-> None]
NoJob == [run |-> None, tree |-> Nothing, zip |-> {}, todo |-> {},
          at |-> None, id |-> 0, ids |-> Nothing]

(* runs is runs_to_delete, doomed what a DELETE has found, gone and erased *)
(* the files and the contents it has deleted and not committed.            *)
Wipe == [todo : SUBSET Run, runs : SUBSET Run, doomed : SUBSET (Nat \cup Hash),
         gone : SUBSET Nat, erased : SUBSET Hash]
NoWipe == [todo |-> {}, runs |-> {}, doomed |-> {}, gone |-> {}, erased |-> {}]

StorePC == {"idle", "send", "next", "content", "insert_content", "file",
            "insert_file", "requery", "reload", "begin", "commit"} \cup Final
RemovalPC == {"idle", "mark", "delete", "files", "delete_files", "contents",
              "delete_contents", "commit"} \cup Final

TypeOK ==
  /\ backend \in Backend
  /\ contents \subseteq Hash
  /\ files \subseteq File
  /\ events \subseteq Event
  /\ runs \in [Run -> {"absent", "kept", "marked"}]
  /\ pc \in [Store \cup Removal -> StorePC \cup RemovalPC]
  /\ \A s \in Store : pc[s] \in StorePC
  /\ \A r \in Removal : pc[r] \in RemovalPC
  /\ job \in [Store -> Job]
  /\ \A s \in Store : ByPath(job[s].tree, Hash) /\ ByPath(job[s].ids, Nat)
  /\ wipe \in [Removal -> Wipe]
  /\ crashes \in Nat

Init ==
  /\ backend \in Backend
  /\ contents = IF OldRun = {} THEN {} ELSE {OldHash}
  /\ files = IF OldRun = {} THEN {} ELSE {[id |-> 1, path |-> OldPath, hash |-> OldHash]}
  /\ events = [run : OldRun, path : {OldPath}, hash : {OldHash}, file : {1}]
  /\ runs = [r \in Run |-> IF r \in OldRun THEN "kept" ELSE "absent"]
  /\ pc = [c \in Store \cup Removal |-> "idle"]
  /\ job = [s \in Store |-> NoJob]
  /\ wipe = [r \in Removal |-> NoWipe]
  /\ crashes = 0

-----------------------------------------------------------------------------
(* The database.                                                           *)

FileIds == {f.id : f \in files}

(* Mutant: the content does not matter.                                    *)
FilesAtPath(path, hash) == {f \in files : f.path = path}

FilesNamed(path, hash) == {f \in files : f.path = path /\ f.hash = hash}
Referenced == {e.file : e \in events}

KnownIds == FileIds \cup Referenced \cup {job[s].id : s \in Store}
            \cup UNION {{job[s].ids[p] : p \in DOMAIN job[s].ids} : s \in Store}

(* SQLite gives a new row the id after the largest one in the table,       *)
(* PostgreSQL one that was never given: any that nobody knows stands for   *)
(* it.                                                                     *)
NewId == IF OneWriter THEN 1 + Max({0} \cup FileIds)
         ELSE Min((1..(Cardinality(KnownIds) + 1)) \ KnownIds)

(* Mutant: the files to delete are found by a SELECT, which locks nothing.  *)
WritingAfterSelect(c) ==
  pc[c] \in IF c \in Store THEN {"commit"}
            ELSE {"contents", "delete_contents", "commit"}

Writing(c) ==
  pc[c] \in IF c \in Store THEN {"commit"}
            ELSE {"delete_files", "contents", "delete_contents", "commit"}

(* SQLite waits for any other transaction that writes (up to ten minutes). *)
MayWrite(c) == OneWriter => \A d \in (Store \cup Removal) \ {c} : ~Writing(d)

(* PostgreSQL waits for those that have deleted the very rows.             *)
HeldFile(id) == \E r \in Removal : id \in wipe[r].gone
HeldContent(hash) == \E r \in Removal : hash \in wipe[r].erased
HeldRun(run) == \E s \in Store : pc[s] = "commit" /\ job[s].run = run

Goto(c, to) == pc' = [pc EXCEPT ![c] = to]
PathAt(s) == job[s].at
HashAt(s) == job[s].tree[job[s].at]

-----------------------------------------------------------------------------
(* CodeChecker store: collect the sources of the reports with their        *)
(* hashes, and getMissingContentHashes.  A run that another store is       *)
(* storing is refused (MassStore).                                         *)
Ask(s) ==
  /\ pc[s] = "idle"
  /\ \E run \in Run, P \in (SUBSET Path) \ {{}} : \E tree \in [P -> Hash] :
       /\ \A t \in Store \ {s} : pc[t] \in Final \/ job[t].run # run
       /\ job' = [job EXCEPT ![s] = [@ EXCEPT !.run = run, !.tree = tree,
                    !.todo = {p \in P : tree[p] \notin contents}]]
  /\ Goto(s, "send")
  /\ UNCHANGED <<backend, contents, files, events, runs, wipe, crashes>>

(* The client packs the missing files and calls massStoreRun.              *)
Send(s) ==
  /\ pc[s] = "send"
  /\ job' = [job EXCEPT ![s] = [@ EXCEPT !.zip = job[s].todo,
                                         !.todo = DOMAIN job[s].tree]]
  /\ Goto(s, "next")
  /\ UNCHANGED <<backend, contents, files, events, runs, wipe, crashes>>

(* The loop of massStoreRun over content_hashes.json, in any order.        *)
NextFile(s) ==
  /\ pc[s] = "next"
  /\ \/ /\ job[s].todo = {}
        /\ Goto(s, "begin")
        /\ UNCHANGED job
     \/ \E p \in job[s].todo :
        /\ job' = [job EXCEPT ![s] = [@ EXCEPT !.at = p,
                                            !.todo = job[s].todo \ {p}]]
        /\ Goto(s, IF p \in job[s].zip THEN "content" ELSE "file")
  /\ UNCHANGED <<backend, contents, files, events, runs, wipe, crashes>>

QueryContent(s) ==
  /\ pc[s] = "content"
  /\ Goto(s, IF HashAt(s) \in contents THEN "file" ELSE "insert_content")
  /\ UNCHANGED <<backend, contents, files, events, runs, storeVars, crashes>>

(* INSERT and COMMIT; when another call has inserted the content, the      *)
(* IntegrityError only rolls back.                                         *)
InsertContent(s) ==
  /\ pc[s] = "insert_content"
  /\ MayWrite(s) /\ ~HeldContent(HashAt(s))
  /\ contents' = contents \cup {HashAt(s)}
  /\ Goto(s, "file")
  /\ UNCHANGED <<backend, files, events, runs, storeVars, crashes>>

(* The id of the file record becomes an entry of file_path_to_id.          *)
WithId(s, id) ==
  [p \in DOMAIN job[s].ids \cup {PathAt(s)} |->
     IF p = PathAt(s) THEN id ELSE job[s].ids[p]]

TakeId(s, id) ==
  /\ job' = [job EXCEPT ![s] = [@ EXCEPT !.at = None, !.id = 0, !.ids = WithId(s, id)]]
  /\ Goto(s, "next")

(* addFileRecord, and the second half of addFileContent.                   *)
QueryFile(s) ==
  /\ pc[s] = "file"
  /\ LET found == FilesNamed(PathAt(s), HashAt(s))
     IN  \/ \E f \in found : TakeId(s, f.id)
         \/ found = {} /\ Goto(s, "insert_file") /\ UNCHANGED job
  /\ UNCHANGED <<backend, contents, files, events, runs, wipe, crashes>>

(* INSERT and COMMIT, which raises IntegrityError if the file is there     *)
(* already or its content, by the foreign key, is not.                     *)
InsertFile(s) ==
  /\ pc[s] = "insert_file"
  /\ MayWrite(s) /\ ~HeldContent(HashAt(s))
  /\ \A f \in FilesNamed(PathAt(s), HashAt(s)) : ~HeldFile(f.id)
  /\ IF FilesNamed(PathAt(s), HashAt(s)) # {} \/ HashAt(s) \notin contents
     THEN Goto(s, "requery") /\ UNCHANGED <<files, job>>
     ELSE /\ files' = files \cup {[id |-> NewId, path |-> PathAt(s), hash |-> HashAt(s)]}
          /\ job' = [job EXCEPT ![s].id = NewId]
          /\ Goto(s, "reload")
  /\ UNCHANGED <<backend, contents, events, runs, wipe, crashes>>

(* Mutants: None is returned, or there is no second query.                 *)
RequeryReturnsNone(s) ==
  /\ pc[s] = "requery"
  /\ LET found == FilesNamed(PathAt(s), HashAt(s))
     IN  \/ \E f \in found : TakeId(s, f.id)
         \/ found = {} /\ TakeId(s, None)
  /\ UNCHANGED <<backend, contents, files, events, runs, wipe, crashes>>

RequeryMissing(s) ==
  /\ pc[s] = "requery"
  /\ Goto(s, "failed")
  /\ UNCHANGED <<backend, contents, files, events, runs, storeVars, crashes>>

(* one_or_none after the IntegrityError: with no record, the attribute id  *)
(* of None raises.                                                         *)
Requery(s) ==
  /\ pc[s] = "requery"
  /\ LET found == FilesNamed(PathAt(s), HashAt(s))
     IN  \/ \E f \in found : TakeId(s, f.id)
         \/ found = {} /\ Goto(s, "failed") /\ UNCHANGED job
  /\ UNCHANGED <<backend, contents, files, events, runs, wipe, crashes>>

(* The committed object is expired: its id is read from the database once  *)
(* more, which raises if the row is gone.                                  *)
Reload(s) ==
  /\ pc[s] = "reload"
  /\ IF job[s].id \in FileIds
     THEN TakeId(s, job[s].id)
     ELSE Goto(s, "failed") /\ UNCHANGED job
  /\ UNCHANGED <<backend, contents, files, events, runs, wipe, crashes>>

(* addCheckerRun opens the transaction of the store.                       *)
Begin(s) ==
  /\ pc[s] = "begin"
  /\ MayWrite(s)
  /\ Goto(s, "commit")
  /\ UNCHANGED <<backend, contents, files, events, runs, storeVars, crashes>>

StoredBy(s) ==
  {[run |-> job[s].run, path |-> p, hash |-> job[s].tree[p], file |-> job[s].ids[p]]
     : p \in DOMAIN job[s].tree}

Replaced(s) ==
  {e \in events : e.run = job[s].run /\ e.path \in DOMAIN job[s].tree}

IdsOf(s) == {job[s].ids[p] : p \in DOMAIN job[s].ids}

(* Mutant: no foreign key is checked.                                      *)
CommitStoreUnchecked(s) ==
  /\ pc[s] = "commit"
  /\ events' = (events \ Replaced(s)) \cup StoredBy(s)
  /\ runs' = [runs EXCEPT ![job[s].run] = IF @ = "absent" THEN "kept" ELSE @]
  /\ Goto(s, "done")
  /\ UNCHANGED <<backend, contents, files, storeVars, crashes>>

(* The reports are added, or found again with new events, and committed:   *)
(* the deferred foreign keys are checked now.  When one fails nothing is   *)
(* stored, and finishCheckerRun tells nobody.                              *)
CommitStore(s) ==
  /\ pc[s] = "commit"
  /\ \A id \in IdsOf(s) : ~HeldFile(id)
  /\ IF IdsOf(s) \subseteq FileIds
     THEN /\ events' = (events \ Replaced(s)) \cup StoredBy(s)
          /\ runs' = [runs EXCEPT ![job[s].run] = IF @ = "absent" THEN "kept" ELSE @]
     ELSE UNCHANGED <<events, runs>>
  /\ Goto(s, "done")
  /\ UNCHANGED <<backend, contents, files, storeVars, crashes>>

-----------------------------------------------------------------------------
(* removeRunResults(run_ids).                                              *)
Remove(r) ==
  /\ pc[r] = "idle"
  /\ \E T \in (SUBSET Run) \ {{}} : wipe' = [wipe EXCEPT ![r].todo = T]
  /\ Goto(r, "mark")
  /\ UNCHANGED <<backend, contents, files, events, runs, job, crashes>>

(* Mutant: a run is marked but not put into runs_to_delete.                *)
MarkNotListed(r) ==
  /\ pc[r] = "mark"
  /\ \/ /\ wipe[r].todo = {}
        /\ Goto(r, "delete")
        /\ UNCHANGED <<runs, wipe>>
     \/ \E run \in wipe[r].todo :
        /\ MayWrite(r) /\ ~HeldRun(run)
        /\ runs' = [runs EXCEPT ![run] = IF @ = "absent" THEN @ ELSE "marked"]
        /\ wipe' = [wipe EXCEPT ![r].todo = @ \ {run}]
        /\ UNCHANGED pc
  /\ UNCHANGED <<backend, contents, files, events, job, crashes>>

(* The first loop, in any order: can_delete is set and committed.  A run   *)
(* that is not there raises.                                               *)
Mark(r) ==
  /\ pc[r] = "mark"
  /\ \/ /\ wipe[r].todo = {}
        /\ Goto(r, "delete")
        /\ UNCHANGED <<runs, wipe>>
     \/ \E run \in wipe[r].todo :
        \/ /\ runs[run] = "absent"
           /\ Goto(r, "failed")
           /\ UNCHANGED <<runs, wipe>>
        \/ /\ runs[run] = "marked"
           /\ wipe' = [wipe EXCEPT ![r].todo = @ \ {run}]
           /\ UNCHANGED <<runs, pc>>
        \/ /\ runs[run] = "kept"
           /\ MayWrite(r) /\ ~HeldRun(run)
           /\ runs' = [runs EXCEPT ![run] = "marked"]
           /\ wipe' = [wipe EXCEPT ![r] = [@ EXCEPT !.todo = wipe[r].todo \ {run},
                                                    !.runs = wipe[r].runs \cup {run}]]
           /\ UNCHANGED pc
  /\ UNCHANGED <<backend, contents, files, events, job, crashes>>

(* The second loop: each run is deleted, with its reports, and committed.  *)
DeleteRun(r) ==
  /\ pc[r] = "delete"
  /\ \/ /\ wipe[r].runs = {}
        /\ Goto(r, "files")
        /\ UNCHANGED <<runs, events, wipe>>
     \/ \E run \in wipe[r].runs :
        /\ MayWrite(r) /\ ~HeldRun(run)
        /\ runs' = [runs EXCEPT ![run] = "absent"]
        /\ events' = {e \in events : e.run # run}
        /\ wipe' = [wipe EXCEPT ![r].runs = @ \ {run}]
        /\ UNCHANGED pc
  /\ UNCHANGED <<backend, contents, files, job, crashes>>

(* The DELETE of the files in no bug path reads them with its snapshot ... *)
CollectFiles(r) ==
  /\ pc[r] = "files"
  /\ MayWrite(r)
  /\ wipe' = [wipe EXCEPT ![r].doomed = FileIds \ Referenced]
  /\ Goto(r, "delete_files")
  /\ UNCHANGED <<backend, contents, files, events, runs, job, crashes>>

(* ... and deletes them.  Committed events that refer to them now will go  *)
(* with them, by ON DELETE CASCADE.                                        *)
DeleteFiles(r) ==
  /\ pc[r] = "delete_files"
  /\ \A id \in wipe[r].doomed : ~HeldFile(id)
  /\ wipe' = [wipe EXCEPT ![r] = [@ EXCEPT !.doomed = {},
                    !.gone = wipe[r].gone \cup (wipe[r].doomed \cap FileIds)]]
  /\ Goto(r, "contents")
  /\ UNCHANGED <<backend, contents, files, events, runs, job, crashes>>

(* Mutant: contents of the files just deleted count as used.               *)
CollectContentsTooFew(r) ==
  /\ pc[r] = "contents"
  /\ wipe' = [wipe EXCEPT ![r].doomed = contents \ {f.hash : f \in files}]
  /\ Goto(r, "delete_contents")
  /\ UNCHANGED <<backend, contents, files, events, runs, job, crashes>>

(* The contents that no file is left of, in the same way.                  *)
CollectContents(r) ==
  /\ pc[r] = "contents"
  /\ LET left == {f \in files : f.id \notin wipe[r].gone}
     IN  wipe' = [wipe EXCEPT ![r].doomed = contents \ {f.hash : f \in left}]
  /\ Goto(r, "delete_contents")
  /\ UNCHANGED <<backend, contents, files, events, runs, job, crashes>>

DeleteContents(r) ==
  /\ pc[r] = "delete_contents"
  /\ \A h \in wipe[r].doomed : ~HeldContent(h)
  /\ LET erased == wipe[r].doomed \cap contents
         cascade == {f \in files : f.hash \in erased}
     IN  /\ \A f \in cascade : \A q \in Removal \ {r} : f.id \notin wipe[q].gone
         /\ wipe' = [wipe EXCEPT ![r] = [@ EXCEPT !.erased = erased, !.doomed = {},
                                 !.gone = wipe[r].gone \cup {f.id : f \in cascade}]]
  /\ Goto(r, "commit")
  /\ UNCHANGED <<backend, contents, files, events, runs, job, crashes>>

(* Mutant: the last commit is missing.                                     *)
CommitRemovalForgotten(r) ==
  /\ pc[r] = "commit"
  /\ Goto(r, "done")
  /\ UNCHANGED <<backend, contents, files, events, runs, storeVars, crashes>>

CommitRemoval(r) ==
  /\ pc[r] = "commit"
  /\ files' = {f \in files : f.id \notin wipe[r].gone}
  /\ contents' = contents \ wipe[r].erased
  /\ events' = {e \in events : e.file \notin wipe[r].gone}
  /\ wipe' = [wipe EXCEPT ![r] = NoWipe]
  /\ Goto(r, "done")
  /\ UNCHANGED <<backend, runs, job, crashes>>

-----------------------------------------------------------------------------
(* The server is killed: whatever it was serving fails, and what was not   *)
(* committed is rolled back.                                               *)
Crash ==
  /\ crashes < MaxCrashes
  /\ crashes' = crashes + 1
  /\ pc' = [c \in DOMAIN pc |->
              IF pc[c] \in {"idle", "send"} \cup Final THEN pc[c] ELSE "failed"]
  /\ wipe' = [r \in Removal |-> IF pc[r] = "idle" THEN wipe[r] ELSE NoWipe]
  /\ UNCHANGED <<backend, contents, files, events, runs, job>>

ProceedStore(s) ==
  \/ Send(s) \/ NextFile(s) \/ QueryContent(s) \/ InsertContent(s)
  \/ QueryFile(s) \/ InsertFile(s) \/ Requery(s) \/ Reload(s)
  \/ Begin(s) \/ CommitStore(s)

ProceedRemoval(r) ==
  \/ Mark(r) \/ DeleteRun(r) \/ CollectFiles(r) \/ DeleteFiles(r)
  \/ CollectContents(r) \/ DeleteContents(r) \/ CommitRemoval(r)

Next ==
  \/ \E s \in Store : Ask(s) \/ ProceedStore(s)
  \/ \E r \in Removal : Remove(r) \/ ProceedRemoval(r)
  \/ Crash

(* Requests are served by threads that nothing but the database makes      *)
(* wait.                                                                   *)
Fairness == /\ \A s \in Store : WF_vars(ProceedStore(s))
            /\ \A r \in Removal : WF_vars(ProceedRemoval(r))

Spec == Init /\ [][Next]_vars
FairSpec == Spec /\ Fairness
-----------------------------------------------------------------------------
(* The rows fit together: what the foreign keys and the unique constraints *)
(* of run_db_model.py are for, whatever the interleaving of the            *)
(* transactions that insert and delete.                                    *)
RowsFit ==
  /\ \A e \in events : e.file \in FileIds /\ runs[e.run] # "absent"
  /\ \A f \in files : f.hash \in contents
  /\ \A f, g \in files : f.id = g.id \/ (f.path = g.path /\ f.hash = g.hash) => f = g

(* On PostgreSQL every event of a bug path refers to the file, and to the  *)
(* very content, the analyzer reported it in.  On SQLite, which gives the  *)
(* id of a file that was collected to another one, it may not.             *)
EventsInTheirFile ==
  ~OneWriter => \A e \in events : \E f \in files :
                  f.id = e.file /\ f.path = e.path /\ f.hash = e.hash

(* Removing runs deletes "files and contents that are not present in any   *)
(* bug paths": on SQLite, stored results are lost only with their run, or  *)
(* to a store of that run that finds the report again.  On PostgreSQL a    *)
(* store may commit while the DELETE is at work.                           *)
StoredKept ==
  [][OneWriter => \A e \in events \ events' :
       \/ \E s \in Store : /\ pc[s] = "commit" /\ pc'[s] = "done"
                           /\ job[s].run = e.run /\ e.path \in DOMAIN job[s].tree
       \/ runs'[e.run] = "absent"]_vars

(* On SQLite a removal leaves neither files nor contents behind that no    *)
(* report needs.                                                           *)
CollectsAll ==
  [][\A r \in Removal : OneWriter /\ pc[r] = "commit" /\ pc'[r] = "done" =>
       /\ {f.id : f \in files'} \subseteq {e.file : e \in events'}
       /\ contents' \subseteq {f.hash : f \in files'}]_vars

(* Stores that send the same files at the same time do not disturb each    *)
(* other: a store fails only if runs are removed or the server is killed.  *)
FailsOnlyIfRemoved ==
  (\E s \in Store : pc[s] = "failed") =>
    crashes > 0 \/ \E r \in Removal : pc[r] # "idle"

(* Contents the server said it has need not be sent: report_server.thrift  *)
(* on getMissingContentHashes.                                             *)
NotNecessaryToSend == \A s \in Store : pc[s] # "failed"

(* can_delete is false while "deletion is already in progress"             *)
(* (store_handler.py, addCheckerRun): a marked run is deleted, unless the  *)
(* removal fails.                                                          *)
MarkedIsDeleted ==
  \A run \in Run : runs[run] = "marked" ~>
    runs[run] = "absent" \/ \E r \in Removal : pc[r] = "failed"

(* Every store and every removal comes to its end.                         *)
CallsReturn == \A c \in Store \cup Removal : pc[c] # "idle" ~> pc[c] \in Final

(* Runs, events, files and contents always fit together (addFileContent    *)
(* against removeRunResults).                                              *)
RowsAgree == TypeOK /\ RowsFit /\ EventsInTheirFile

(* A removal takes its runs and what only they needed, all of it, and      *)
(* nothing else (removeRunResults).                                        *)
RemovesJustThat == StoredKept /\ CollectsAll

(* Nobody waits for ever, and what a removal began it ends.                *)
CallsEnd == CallsReturn /\ MarkedIsDeleted
=============================================================================
