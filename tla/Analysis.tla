------------------------------ MODULE Analysis ------------------------------
(***************************************************************************)
(* Repeated analyses of a build: libhandlers/analyze.py and check.py,      *)
(* analyze/analyzer.py, analyze/analysis_manager.py and the names of       *)
(* result files in analyzers/result_handler_base.py.                       *)
(*                                                                         *)
(* Every analysis of a build writes into one report directory.  A pool of  *)
(* worker processes takes the jobs (a compilation with an analyzer); each  *)
(* success leaves a plist and a .source file, each failure a zip.  When    *)
(* all are done the .source files are moved into the metadata, which is    *)
(* written last.  Between two analyses the sources change.                 *)
(***************************************************************************)
EXTENDS Naturals, FiniteSets

CONSTANTS
  Actions,     \* compilations that the build log may list
  Analyzers,
  Converters,  \* analyzers whose output is converted to a plist afterwards
  Workers,     \* worker processes of the pool
  Names,       \* (base name of the source, build command): names of results
  Spaced,      \* names that contain a space
  MaxAnalyses, \* bound: analyses that are begun
  MaxJobs,     \* bound: jobs of one analysis
  MaxRev,      \* bound: edits of one source
  None

ASSUME AnalysisAssumption ==
  /\ Converters \subseteq Analyzers
  /\ Spaced \subseteq Names
  /\ Workers # {}
  /\ IsFiniteSet(Actions)
  /\ MaxAnalyses \in Nat /\ MaxRev \in Nat
  /\ None \notin Actions /\ None \notin [by : Actions, rev : 0..MaxRev]

VARIABLES
  name,      \* the name of the results of each action, fixed
  rev,       \* revision of each source
  broken,    \* sources that no analyzer can process now
  plist,     \* report directory: results in each file, or None
  source,    \* report directory: content of the .source files
  zips,      \* report directory: failed/*.zip
  failedDir, \* whether failed/ exists
  meta,      \* metadata.json: absent, torn or whole, and its content
  mode,      \* "analyze", "check" or "temp"; "killed" once killed by force
  pc,        \* progress of the main process
  md,        \* its metadata in memory
  queue,     \* jobs not yet taken by a worker
  skips,     \* actions the skip file excludes
  worker,    \* what each worker does
  results,   \* results the pool has collected
  count      \* analyses begun

disk == <<plist, source, zips, failedDir, meta>>
code == <<name, rev, broken>>
main == <<mode, pc, md, skips, count>>
vars == <<code, disk, main, queue, worker, results>>

Jobs == [action : Actions, analyzer : Analyzers]
Files == Names \X Analyzers \X {"plain", "escaped"}

\* result_file of check(): the name the results shall have.
PlainFile(j) == <<name[j.action], j.analyzer, "plain">>

\* analyzer_result_file: spaces of the source are escaped in it.
ResultFile(j) ==
  <<name[j.action], j.analyzer,
    IF name[j.action] \in Spaced THEN "escaped" ELSE "plain">>

NoFile == [f \in Files |-> None]
Metadata(s) == [state |-> s, files |-> NoFile, failed |-> 0, reanalyzed |-> 0]
NoMetadata == Metadata("absent")
Idle == [pc |-> "idle"]
Results(j) == [by |-> j.action, rev |-> rev[j.action]]
Exists(f) == plist[f] # None

\* prepare_actions: the actions of the log, once for each enabled analyzer.
\* The order in which the pool takes them is that of the log, which may be any.
PrepareActions(log, enabled) == [action : log, analyzer : enabled]

TypeOK ==
  /\ name \in [Actions -> Names]
  /\ rev \in [Actions -> 0..MaxRev]
  /\ broken \subseteq Actions
  /\ plist \in [Files -> {None} \cup [by : Actions, rev : 0..MaxRev]]
  /\ source \in [Files -> {None} \cup Actions]
  /\ zips \subseteq Files
  /\ failedDir \in BOOLEAN
  /\ mode \in {"analyze", "check", "temp", "killed"}
  /\ pc \in {"idle", "pool", "gather", "dump", "write", "print"}
  /\ meta.state \in {"absent", "torn", "whole"}
  /\ meta.files \in [Files -> {None} \cup Actions]
  /\ md.files \in [Files -> {None} \cup Actions]
  /\ queue \subseteq Jobs
  /\ skips \subseteq Actions
  /\ \A w \in Workers :
       worker[w].pc \in {"idle", "run", "save", "clear", "fail", "mkdir", "pack"}
  /\ \A r \in results : r.job \in Jobs
  /\ count \in 0..MaxAnalyses

Init ==
  /\ name \in [Actions -> Names]
  /\ rev = [a \in Actions |-> 0]
  /\ broken = {}
  /\ plist = NoFile /\ source = NoFile /\ zips = {} /\ failedDir = FALSE
  /\ meta = NoMetadata
  /\ mode = "analyze" /\ pc = "idle" /\ md = NoMetadata /\ skips = {}
  /\ count = 0
  /\ queue = {} /\ results = {}
  /\ worker = [w \in Workers |-> Idle]

-----------------------------------------------------------------------------
(* The developer *)

\* A source is changed; it may become one that cannot be analysed.
Edit(a) ==
  /\ pc = "idle" /\ rev[a] < MaxRev
  /\ rev' = [rev EXCEPT ![a] = @ + 1]
  /\ broken' \in {broken \cup {a}, broken \ {a}}
  /\ UNCHANGED <<name, disk, main, queue, worker, results>>

-----------------------------------------------------------------------------
(* The main process *)

EmptyDir ==
  /\ plist' = NoFile /\ source' = NoFile /\ zips' = {}
  /\ failedDir' = FALSE /\ meta' = NoMetadata

(* Mutant: the names of earlier analyses are not read. *)
BeginForgetsNames(m, clean) ==
  /\ pc = "idle" /\ count < MaxAnalyses
  /\ m = "temp" => /\ plist = NoFile /\ source = NoFile
                   /\ ~failedDir /\ meta = NoMetadata
  /\ meta.state = "torn" => clean
  /\ IF clean THEN EmptyDir ELSE UNCHANGED disk
  /\ md' = Metadata("whole")
  /\ mode' = m
  /\ count' = count + 1
  /\ results' = {}
  /\ UNCHANGED <<code, worker>>

\* check: a report directory that is given, or a new temporary one (which is
\* modelled only while there is no other).  An unreadable metadata.json ends
\* the command, unless --clean (--force of check) has removed it.
Begin(m, clean) ==
  /\ pc = "idle" /\ count < MaxAnalyses
  /\ m = "temp" => /\ plist = NoFile /\ source = NoFile
                   /\ ~failedDir /\ meta = NoMetadata
  /\ meta.state = "torn" => clean
  /\ IF clean THEN EmptyDir ELSE UNCHANGED disk
  /\ md' = [state |-> "whole", files |-> IF clean THEN NoFile ELSE meta.files,
             failed |-> 0, reanalyzed |-> 0]
  /\ mode' = m
  /\ count' = count + 1
  /\ results' = {}
  /\ UNCHANGED <<code, worker>>

\* analyze.main and perform_analysis up to start_workers.
Start(m, clean, log, enabled, skipped) ==
  /\ Cardinality(log) * Cardinality(enabled) <= MaxJobs
  /\ Begin(m, clean)
  /\ queue' = PrepareActions(log, enabled)
  /\ skips' = skipped
  /\ pc' = "pool"

\* perform_analysis gives up on the CTU options: analyze.main goes on and
\* writes the metadata.
Refuse(m, clean) ==
  /\ Begin(m, clean)
  /\ pc' = "dump"
  /\ UNCHANGED <<queue, skips>>

Failed(r) == r.code # 0 /\ ~r.skipped

(* Mutant: the counters of failed and repeated jobs are swapped. *)
AllDoneSwapped ==
  /\ pc = "pool" /\ queue = {}
  /\ \A w \in Workers : worker[w] = Idle
  /\ md' = [md EXCEPT
       !.failed = Cardinality({r \in results : Failed(r) /\ r.reanalyzed}),
       !.reanalyzed = Cardinality({r \in results : ~r.skipped /\ ~r.reanalyzed})]
  /\ pc' = "gather"
  /\ UNCHANGED <<code, disk, mode, skips, count, queue, worker, results>>

\* The callback of map_async: worker_result_handler up to the loop.  It counts
\* a job that had a result before only as analysed again.
AllDone ==
  /\ pc = "pool" /\ queue = {}
  /\ \A w \in Workers : worker[w] = Idle
  /\ md' = [state |-> md.state, files |-> md.files,
             failed |-> Cardinality({r \in results : Failed(r) /\ ~r.reanalyzed}),
             reanalyzed |->
               Cardinality({r \in results : ~r.skipped /\ r.reanalyzed})]
  /\ pc' = "gather"
  /\ UNCHANGED <<code, disk, mode, skips, count, queue, worker, results>>

(* Mutant: every name of the loop gets the source that is read last. *)
GatherLast ==
  /\ pc = "gather"
  /\ \E f \in Files :
       /\ source[f] # None
       /\ md' = [md EXCEPT !.files =
                   [g \in Files |-> IF source[g] # None THEN source[f] ELSE @[g]]]
       /\ source' = NoFile
  /\ UNCHANGED <<code, plist, zips, failedDir, meta, mode, pc, skips, count,
                 queue, worker, results>>

\* worker_result_handler, the loop over *.source.  (The loop over *.error
\* finds nothing: failures leave zips.)
Gather ==
  /\ pc = "gather"
  /\ \E f \in Files :
       /\ source[f] # None
       /\ md' = [md EXCEPT !.files[f] = source[f]]
       /\ source' = [source EXCEPT ![f] = None]
  /\ UNCHANGED <<code, plist, zips, failedDir, meta, mode, pc, skips, count,
                 queue, worker, results>>

Gathered ==
  /\ pc = "gather" /\ source = NoFile
  /\ pc' = "dump"
  /\ UNCHANGED <<code, disk, mode, md, skips, count, queue, worker, results>>

\* The process ends and what it has in memory goes.
Exit == pc' = "idle" /\ md' = NoMetadata /\ skips' = {}

\* open(metadata_file, 'w') empties the file ...
Truncate ==
  /\ pc = "dump"
  /\ meta' = Metadata("torn") /\ pc' = "write"
  /\ UNCHANGED <<code, plist, source, zips, failedDir, mode, md, skips, count,
                 queue, worker, results>>

\* ... and json.dump fills it.  check goes on with parse.
Dump ==
  /\ pc = "write"
  /\ meta' = md
  /\ IF mode = "analyze" THEN Exit ELSE pc' = "print" /\ UNCHANGED <<md, skips>>
  /\ UNCHANGED <<code, plist, source, zips, failedDir, mode, count, queue,
                 worker, results>>

\* check: parse prints the reports; a temporary directory is removed.
PrintResults ==
  /\ pc = "print"
  /\ IF mode = "temp" THEN EmptyDir ELSE UNCHANGED disk
  /\ Exit
  /\ UNCHANGED <<code, mode, count, queue, worker, results>>

\* What parse takes for the source of the results in a file.
NameOf(f) ==
  IF meta.files[f] # None THEN meta.files[f] ELSE "UNKNOWN"

\* Everything stops at once, the workers and their analyzers too; a job that
\* was not finished has no result.
AllStop ==
  /\ pc # "idle"
  /\ Exit
  /\ queue' = {} /\ results' = {}
  /\ worker' = [w \in Workers |-> Idle]
  /\ UNCHANGED <<code, count>>

(* Mutant: an interrupted check leaves its temporary directory. *)
InterruptLeavesDir ==
  /\ AllStop
  /\ UNCHANGED <<disk, mode>>

\* SIGINT: the handler of start_workers ends the pool and exits; check removes
\* its temporary directory on the way.
Interrupt ==
  /\ AllStop
  /\ IF mode = "temp" THEN EmptyDir ELSE UNCHANGED disk
  /\ UNCHANGED mode

\* SIGKILL or a power failure.
Kill ==
  /\ AllStop
  /\ mode' = "killed"
  /\ UNCHANGED disk

-----------------------------------------------------------------------------
(* The workers *)

WorkerFrame == <<code, main, queue>>

Return(w, code_, skipped_) ==
  /\ worker' = [worker EXCEPT ![w] = Idle]
  /\ results' = results \cup
       {[job |-> worker[w].job, code |-> code_, skipped |-> skipped_,
         reanalyzed |-> worker[w].reanalyzed, rev |-> rev[worker[w].job.action]]}

\* check(): a skipped source is done at once; otherwise it is noted whether
\* there is a result already.
Take(w) ==
  /\ pc = "pool" /\ worker[w] = Idle
  /\ \E j \in queue :
    /\ queue' = queue \ {j}
    /\ IF j.action \in skips
       THEN /\ results' = results \cup
                 {[job |-> j, code |-> 0, skipped |-> TRUE, reanalyzed |-> FALSE,
                   rev |-> rev[j.action]]}
            /\ UNCHANGED worker
       ELSE /\ worker' = [worker EXCEPT ![w] =
                 [pc |-> "run", job |-> j, reanalyzed |-> Exists(ResultFile(j))]]
            /\ UNCHANGED results
  /\ UNCHANGED <<code, disk, main>>

\* SourceAnalyzer.analyze: clang writes the plist itself, without the escapes;
\* the output of a converter is kept in memory.
Analyze(w) ==
  LET j == worker[w].job IN
  /\ worker[w].pc = "run"
  /\ plist' = IF j.action \in broken \/ j.analyzer \in Converters THEN plist
              ELSE [plist EXCEPT ![PlainFile(j)] = Results(j)]
  /\ worker' = [worker EXCEPT ![w].pc =
                  IF j.action \in broken THEN "fail" ELSE "save"]
  /\ UNCHANGED <<WorkerFrame, source, zips, failedDir, meta, results>>

(* Mutant: the output is converted only if there is no file yet. *)
PostprocessedOnce(j) ==
  IF j.analyzer \in Converters /\ ~Exists(ResultFile(j))
  THEN [plist EXCEPT ![ResultFile(j)] = Results(j)] ELSE plist

\* Results after postprocess_result, which converts into analyzer_result_file.
Postprocessed(j) ==
  IF j.analyzer \in Converters
  THEN [plist EXCEPT ![ResultFile(j)] = Results(j)] ELSE plist

(* Mutant: the converted file is removed if the name is taken. *)
RenamedOrRemoved(j, p) ==
  IF p[ResultFile(j)] # None /\ ResultFile(j) # PlainFile(j)
  THEN [p EXCEPT ![PlainFile(j)] = IF @ = None THEN p[ResultFile(j)] ELSE @,
                 ![ResultFile(j)] = None]
  ELSE p

\* The file is renamed only if there is none with the right name.
Renamed(j, p) ==
  IF p[ResultFile(j)] # None /\ p[PlainFile(j)] = None
  THEN [f \in Files |-> IF f = PlainFile(j) THEN p[ResultFile(j)]
                         ELSE IF f = ResultFile(j) THEN None ELSE p[f]]
  ELSE p

Save(w) ==
  LET j == worker[w].job IN
  /\ worker[w].pc = "save"
  /\ plist' = Renamed(j, Postprocessed(j))
  /\ source' = [source EXCEPT ![PlainFile(j)] = j.action]
  /\ worker' = [worker EXCEPT ![w].pc = "clear"]
  /\ UNCHANGED <<WorkerFrame, zips, failedDir, meta, results>>

(* Mutant: the zip of an earlier failure stays. *)
ClearKeepsZip(w) ==
  /\ worker[w].pc = "clear"
  /\ Return(w, 0, FALSE)
  /\ UNCHANGED <<WorkerFrame, plist, source, zips, failedDir, meta>>

\* The zip of an earlier failure is removed.
Clear(w) ==
  /\ worker[w].pc = "clear"
  /\ zips' = zips \ {PlainFile(worker[w].job)}
  /\ Return(w, 0, FALSE)
  /\ UNCHANGED <<WorkerFrame, plist, source, failedDir, meta>>

\* The failed directory is made if it is not there: a look, then makedirs.
LookForFailedDir(w) ==
  /\ worker[w].pc = "fail"
  /\ worker' = [worker EXCEPT ![w].pc = IF failedDir THEN "pack" ELSE "mkdir"]
  /\ UNCHANGED <<WorkerFrame, disk, results>>

\* makedirs raises if another worker was faster: the job ends there.
MakeFailedDir(w) ==
  /\ worker[w].pc = "mkdir"
  /\ failedDir' = TRUE
  /\ IF failedDir
     THEN Return(w, 1, FALSE)
     ELSE worker' = [worker EXCEPT ![w].pc = "pack"] /\ UNCHANGED results
  /\ UNCHANGED <<WorkerFrame, plist, source, zips, meta>>

(* Mutant: the zip has the name of the source. *)
PackBySource(w) ==
  /\ worker[w].pc = "pack"
  /\ zips' = zips \cup {worker[w].job.action}
  /\ Return(w, 1, FALSE)
  /\ UNCHANGED <<WorkerFrame, plist, source, failedDir, meta>>

\* The zip is written.  The file that is removed then is <name>.plist.plist in
\* the working directory, which nobody writes: old results stay.
Pack(w) ==
  /\ worker[w].pc = "pack"
  /\ zips' = zips \cup {PlainFile(worker[w].job)}
  /\ Return(w, 1, FALSE)
  /\ UNCHANGED <<WorkerFrame, plist, source, failedDir, meta>>

Work(w) ==
  \/ Take(w) \/ Analyze(w) \/ Save(w) \/ Clear(w)
  \/ LookForFailedDir(w) \/ MakeFailedDir(w) \/ Pack(w)

MainStep ==
  AllDone \/ Gather \/ Gathered \/ Truncate \/ Dump \/ PrintResults

Command ==
  \E m \in {"analyze", "check", "temp"}, clean \in BOOLEAN :
    \/ \E log \in (SUBSET Actions) \ {{}}, enabled \in (SUBSET Analyzers) \ {{}} :
         \E skipped \in SUBSET log : Start(m, clean, log, enabled, skipped)
    \/ Refuse(m, clean)

Next ==
  \/ \E a \in Actions : Edit(a)
  \/ Command
  \/ MainStep
  \/ \E w \in Workers : Work(w)
  \/ Interrupt \/ Kill

Spec == Init /\ [][Next]_vars

-----------------------------------------------------------------------------
(* Properties *)

\* The last analysis got to its end and its results are complete.
Complete == pc = "idle" /\ results # {} /\ mode \in {"analyze", "check"}

Alone(r) == \A q \in results : q.job.analyzer = r.job.analyzer /\ ~q.skipped
              /\ name[q.job.action] = name[r.job.action] => q = r
Succeeded(r) == r.code = 0 /\ ~r.skipped
Doubled(f) == f[1] \in Spaced /\ f[2] \in Converters
ResultOf(r) == [by |-> r.job.action, rev |-> r.rev]

\* After a complete analysis the results of every job that succeeded are in
\* the directory, in the state of the source that was analysed, unless another
\* job of the same analysis has the same name of results, which holds no
\* directory (result_handler_base.py:177).
ResultsThere ==
  Complete => \A r \in results : Succeeded(r) /\ Alone(r) =>
    ResultOf(r) \in {plist[PlainFile(r.job)], plist[ResultFile(r.job)]}

\* Results that are older than the last complete analysis stay in its
\* directory only for a reason: the job failed (the removal in check() misses
\* the file), was skipped or is no longer in the log, or the rename of a
\* converted file found the old one in its place.
StaleForAReason ==
  Complete => \A f \in Files :
    plist[f] # None /\ plist[f] \notin {ResultOf(r) : r \in results} =>
      \/ Doubled(f)
      \/ \A r \in results : PlainFile(r.job) = f => ~Succeeded(r)

\* The summary and the metadata count a job that fails as analysed again if it
\* had results, so a failure nobody counts is one whose old results are still
\* there, to be printed and stored.
SilentFailureIsStale ==
  Complete /\ meta.failed = 0 =>
    \A r \in results : Failed(r) => Exists(ResultFile(r.job))

\* After a complete analysis a job that succeeded has no zip.  One that failed
\* has its zip for debugging, except when another failing job made the
\* directory between its look and its makedirs; that other job has its own
\* zip, unless it shares its name of results with a job that succeeded.
ZipIffFailed ==
  Complete => \A r \in results : Alone(r) =>
    /\ Succeeded(r) => PlainFile(r.job) \notin zips
    /\ Failed(r) /\ PlainFile(r.job) \notin zips =>
         \E q \in results : /\ q # r /\ Failed(q)
                            /\ Alone(q) => PlainFile(q.job) \in zips

\* The names in metadata.json are right: results whose name no other action
\* shares are attributed to the action that has produced them, also when the
\* .source file was left by an analysis that was interrupted.
NamesAreRight ==
  pc = "idle" =>
    \A f \in Files : Exists(f) /\ NameOf(f) # "UNKNOWN"
                       /\ Cardinality({a \in Actions : name[a] = f[1]}) = 1
      => NameOf(f) = plist[f].by

\* Results that have a name, in a .source file or in the metadata, never lose
\* it while they stay, unless the process is stopped after it began to gather
\* the .source files: from then on the names are in memory only.
Named(f) ==
  \/ source[f] # None
  \/ meta.files[f] # None
  \/ pc \in {"gather", "dump", "write"} /\ md.files[f] # None
NamesStay ==
  [][\A f \in Files : Named(f) /\ Exists(f) /\ Exists(f)' =>
       \/ Named(f)'
       \/ pc \in {"gather", "dump", "write"} /\ pc' = "idle"]_vars

\* A check without an output directory leaves nothing behind, whatever ends it
\* short of a kill.
TempRemoved ==
  pc = "idle" /\ mode = "temp" =>
    plist = NoFile /\ source = NoFile /\ zips = {} /\ meta = NoMetadata

\* The results in the directory are those of the last analysis, and what is
\* not has a reason (check, worker_result_handler).
ResultsAreRight == ResultsThere /\ StaleForAReason /\ SilentFailureIsStale

\* The rest of the directory agrees with what the jobs did.
DirectoryAgrees == TypeOK /\ ZipIffFailed /\ NamesAreRight /\ TempRemoved
=============================================================================
