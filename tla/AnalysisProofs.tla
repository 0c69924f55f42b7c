--------------------------- MODULE AnalysisProofs ---------------------------
(***************************************************************************)
(* Theorems about Analysis for any numbers of compilations, analyzers,     *)
(* names, jobs, analyses and worker processes: the results, the zips and   *)
(* the names in the report directory.  And about the tools around an       *)
(* analysis, which share no state with it or with each other: the function *)
(* maps of CTU, the choice of checkers, and what a parse hides.            *)
(***************************************************************************)
EXTENDS Analysis, Checkers, CtuMap, Suppression, FiniteSetTheorems, TLAPS

Reports == [by : Actions, rev : 0..MaxRev]
Metas == [state : {"absent", "torn", "whole"},
          files : [Files -> {None} \cup Actions],
          failed : Nat, reanalyzed : Nat]
Busy == [pc : {"run", "save", "clear", "fail", "mkdir", "pack"},
         job : Jobs, reanalyzed : BOOLEAN]
Outcomes == [job : Jobs, code : {0, 1}, skipped : BOOLEAN,
             reanalyzed : BOOLEAN, rev : 0..MaxRev]

TypeInv ==
  /\ name \in [Actions -> Names]
  /\ rev \in [Actions -> 0..MaxRev]
  /\ broken \subseteq Actions
  /\ plist \in [Files -> {None} \cup Reports]
  /\ source \in [Files -> {None} \cup Actions]
  /\ zips \subseteq Files
  /\ failedDir \in BOOLEAN
  /\ mode \in {"analyze", "check", "temp", "killed"}
  /\ pc \in {"idle", "pool", "gather", "dump", "write", "print"}
  /\ meta \in Metas /\ md \in Metas
  /\ queue \subseteq Jobs
  /\ skips \subseteq Actions
  /\ worker \in [Workers -> {Idle} \cup Busy]
  /\ results \subseteq Outcomes /\ IsFiniteSet(results)
  /\ count \in 0..MaxAnalyses

(* The pool works in its phase only, on each job once.                     *)
Running(w) == worker[w] # Idle

AtRest == pc # "pool" => queue = {} /\ \A w \in Workers : ~Running(w)

JobsApart ==
  /\ \A w \in Workers : Running(w) =>
       /\ worker[w].job \notin queue
       /\ \A r \in results : r.job # worker[w].job
       /\ \A v \in Workers : Running(v) /\ v # w => worker[v].job # worker[w].job
  /\ \A r \in results : r.job \notin queue

(* Whatever names a source of a file names one with results of that name.  *)
NamesFit ==
  \A f \in Files :
    /\ plist[f] # None => name[plist[f].by] = f[1]
    /\ source[f] # None => name[source[f]] = f[1]
    /\ md.files[f] # None => name[md.files[f]] = f[1]
    /\ meta.files[f] # None => name[meta.files[f]] = f[1]

(* A converted file that was not renamed found another one in its place.   *)
EscapedHasPlain ==
  \A n \in Names, z \in Analyzers :
    Exists(<<n, z, "escaped">>) => Exists(<<n, z, "plain">>)

(* The names of earlier analyses are in memory when they are overwritten.  *)
MdKeeps ==
  pc \in {"pool", "gather", "dump", "write"} =>
    \A f \in Files : meta.files[f] # None => md.files[f] # None

FailedAnew == {r \in results : Failed(r) /\ ~r.reanalyzed}

CountsRight ==
  /\ pc \in {"gather", "dump", "write"} => md.failed = Cardinality(FailedAnew)
  /\ pc \in {"print", "idle"} /\ results # {} /\ mode # "temp" =>
       meta.failed = Cardinality(FailedAnew)

(* The directory is not one that check has removed.                        *)
Live == ~(pc = "idle" /\ mode = "temp")

(* Only this job of the analysis has (had) its name of results.            *)
Sole(j) ==
  /\ \A w \in Workers :
       Running(w) /\ PlainFile(worker[w].job) = PlainFile(j) => worker[w].job = j
  /\ \A r \in results :
       ~r.skipped /\ PlainFile(r.job) = PlainFile(j) => r.job = j

There(j, x) == x \in {plist[PlainFile(j)], plist[ResultFile(j)]}

(* The results of the job are in the directory, but it is not finished.    *)
Written(w) ==
  \/ worker[w].pc = "clear"
  \/ worker[w].pc = "save" /\ worker[w].job.analyzer \notin Converters

FromNow == {ResultOf(r) : r \in results} \cup
           {Results(worker[w].job) : w \in {v \in Workers : Written(v)}}

IsNew(j) == ~Doubled(PlainFile(j)) => plist[PlainFile(j)] \in FromNow

(* Another job that failed has made the directory of the zips.             *)
Raced(j) ==
  \/ \E w \in Workers : worker[w].pc = "pack" /\ worker[w].job # j
  \/ \E q \in results : /\ Failed(q) /\ q.job # j
                        /\ Sole(q.job) => PlainFile(q.job) \in zips

OutcomeOf(r) ==
  /\ r.reanalyzed => Exists(ResultFile(r.job))
  /\ Succeeded(r) => /\ Sole(r.job) => There(r.job, ResultOf(r))
                     /\ IsNew(r.job)
                     /\ Sole(r.job) => PlainFile(r.job) \notin zips
  /\ Failed(r) /\ Sole(r.job) /\ PlainFile(r.job) \notin zips => Raced(r.job)

WorkOf(w) ==
  /\ Running(w) /\ worker[w].reanalyzed => Exists(ResultFile(worker[w].job))
  /\ Written(w) =>
       /\ Sole(worker[w].job) => There(worker[w].job, Results(worker[w].job))
       /\ IsNew(worker[w].job)
  /\ worker[w].pc = "mkdir" /\ failedDir => Raced(worker[w].job)

Inv ==
  /\ TypeInv
  /\ AtRest
  /\ JobsApart
  /\ NamesFit
  /\ EscapedHasPlain
  /\ MdKeeps
  /\ TempRemoved
  /\ CountsRight
  /\ \A r \in results : Live => OutcomeOf(r)
  /\ \A w \in Workers : WorkOf(w)
-----------------------------------------------------------------------------
(* Values and their types.                                                 *)

LEMMA Values ==
  /\ None \notin Actions /\ None \notin Reports
  /\ NoFile \in [Files -> {None} \cup Actions]
  /\ NoFile \in [Files -> {None} \cup Reports]
  /\ NoMetadata \in Metas /\ Metadata("torn") \in Metas
  /\ \A f \in Files : /\ NoMetadata.files[f] = None /\ NoFile[f] = None
                       /\ Metadata("torn").files[f] = None
  /\ Idle.pc = "idle" /\ \A b \in Busy : b # Idle /\ b.pc # "idle"
  /\ \A w \in [Workers -> {Idle}] : w = [v \in Workers |-> Idle]
  BY AnalysisAssumption
  DEF Reports, NoFile, NoMetadata, Metadata, Metas, Idle, Busy

LEMMA FilesTyped ==
  ASSUME TypeInv, NEW j \in Jobs
  PROVE  /\ j.action \in Actions /\ j.analyzer \in Analyzers
         /\ name[j.action] \in Names
         /\ PlainFile(j) = <<name[j.action], j.analyzer, "plain">>
         /\ \/ /\ name[j.action] \in Spaced
               /\ ResultFile(j) = <<name[j.action], j.analyzer, "escaped">>
            \/ /\ name[j.action] \notin Spaced
               /\ ResultFile(j) = PlainFile(j)
         /\ PlainFile(j) \in Files /\ ResultFile(j) \in Files
         /\ PlainFile(j)[1] = name[j.action] /\ ResultFile(j)[1] = name[j.action]
         /\ Doubled(PlainFile(j)) <=>
              name[j.action] \in Spaced /\ j.analyzer \in Converters
         /\ Results(j) \in Reports /\ Results(j) # None
         /\ Results(j).by = j.action
  <1>1. j.action \in Actions /\ j.analyzer \in Analyzers
    BY DEF Jobs
  <1>2. name[j.action] \in Names /\ rev[j.action] \in 0..MaxRev
    BY <1>1 DEF TypeInv
  <1>3. Results(j) \in Reports /\ Results(j).by = j.action
    BY <1>1, <1>2 DEF Results, Reports
  <1>4. Results(j) # None
    BY <1>3, Values
  <1>5. PlainFile(j) \in Files /\ ResultFile(j) \in Files
    BY <1>1, <1>2 DEF PlainFile, ResultFile, Files
  <1> QED
    BY <1>1, <1>2, <1>3, <1>4, <1>5 DEF PlainFile, ResultFile, Doubled

LEMMA FilesApart ==
  ASSUME TypeInv, NEW j \in Jobs, NEW k \in Jobs
  PROVE  /\ PlainFile(j) = PlainFile(k) => ResultFile(j) = ResultFile(k)
         /\ PlainFile(j) # PlainFile(k) =>
              {PlainFile(j), ResultFile(j)} \cap {PlainFile(k), ResultFile(k)} = {}
         /\ PlainFile(j) = PlainFile(k) <=>
              name[j.action] = name[k.action] /\ j.analyzer = k.analyzer
  BY FilesTyped DEF PlainFile, ResultFile

LEMMA WorkerTyped ==
  ASSUME TypeInv, NEW w \in Workers
  PROVE  /\ Running(w) <=> worker[w].pc # "idle"
         /\ Running(w) => worker[w] \in Busy /\ worker[w].job \in Jobs
  BY Values DEF TypeInv, Running, Busy

LEMMA ResultTyped ==
  ASSUME TypeInv, NEW r \in results
  PROVE  /\ r.job \in Jobs /\ r.code \in {0, 1} /\ r.skipped \in BOOLEAN
         /\ r.reanalyzed \in BOOLEAN /\ r.rev \in 0..MaxRev
         /\ ~(Succeeded(r) /\ Failed(r))
         /\ Succeeded(r) \/ Failed(r) <=> ~r.skipped
  BY DEF TypeInv, Outcomes, Succeeded, Failed
-----------------------------------------------------------------------------
(* What one step of a worker changes.                                      *)

LEMMA WorkFrame ==
  ASSUME Inv, NEW w \in Workers, Work(w)
  PROVE  /\ UNCHANGED <<code, main, meta>>
         /\ pc = "pool"
         /\ results \subseteq results'
         /\ \A v \in Workers : v # w => worker'[v] = worker[v]
  <1>1. TypeInv /\ AtRest /\ (Running(w) <=> worker[w].pc # "idle")
    BY WorkerTyped DEF Inv
  <1>2. worker \in [Workers -> {Idle} \cup Busy]
    BY <1>1 DEF TypeInv
  <1>3. pc = "pool"
    BY <1>1 DEF AtRest, Work, Take, Analyze, Save, Clear, LookForFailedDir,
                MakeFailedDir, Pack
  <1>4. UNCHANGED <<code, main, meta>>
    BY DEF Work, Take, Analyze, Save, Clear, LookForFailedDir, MakeFailedDir,
           Pack, WorkerFrame, disk
  <1>5. results \subseteq results'
    BY DEF Work, Take, Analyze, Save, Clear, LookForFailedDir, MakeFailedDir,
           Pack, Return
  <1>6. \A v \in Workers : v # w => worker'[v] = worker[v]
    BY <1>2 DEF Work, Take, Analyze, Save, Clear, LookForFailedDir,
                MakeFailedDir, Pack, Return
  <1> QED
    BY <1>3, <1>4, <1>5, <1>6

(* Where the worker itself goes.                                           *)
LEMMA Takes ==
  ASSUME Inv, NEW w \in Workers, Take(w)
  PROVE  /\ ~Running(w)
         /\ \E j \in queue :
              /\ queue' = queue \ {j}
              /\ \/ /\ worker' = worker
                    /\ results' = results \cup
                         {[job |-> j, code |-> 0, skipped |-> TRUE,
                           reanalyzed |-> FALSE, rev |-> rev[j.action]]}
                 \/ /\ results' = results
                    /\ worker'[w] = [pc |-> "run", job |-> j,
                                     reanalyzed |-> Exists(ResultFile(j))]
  <1>1. worker \in [Workers -> {Idle} \cup Busy]
    BY DEF Inv, TypeInv
  <1> QED
    BY <1>1 DEF Take, Running

LEMMA BusyIs ==
  ASSUME Inv, NEW w \in Workers, Work(w), ~Take(w)
  PROVE  /\ Running(w) /\ queue' = queue
         /\ worker \in [Workers -> {Idle} \cup Busy]
         /\ worker[w] \in Busy /\ worker[w].job \in Jobs
  <1>1. TypeInv
    BY DEF Inv
  <1>2. Running(w)
    BY <1>1, WorkerTyped DEF Work, Analyze, Save, Clear, LookForFailedDir,
                             MakeFailedDir, Pack
  <1>3. queue' = queue
    BY DEF Work, Analyze, Save, Clear, LookForFailedDir, MakeFailedDir, Pack,
           WorkerFrame
  <1> QED
    BY <1>1, <1>2, <1>3, WorkerTyped DEF TypeInv

Finishes(w) == Clear(w) \/ Pack(w) \/ (MakeFailedDir(w) /\ failedDir)

LEMMA GoesOn ==
  ASSUME Inv, NEW w \in Workers, Work(w), ~Take(w), ~Finishes(w)
  PROVE  /\ results' = results
         /\ \E p \in {"save", "fail", "clear", "pack", "mkdir"} :
              /\ worker'[w] = [pc |-> p, job |-> worker[w].job,
                               reanalyzed |-> worker[w].reanalyzed]
              /\ p \in {"save", "fail"} => Analyze(w)
              /\ p = "clear" => Save(w)
              /\ p = "mkdir" => LookForFailedDir(w) /\ ~failedDir
  <1>1. /\ worker \in [Workers -> {Idle} \cup Busy]
        /\ worker[w] \in Busy
    BY BusyIs
  <1>2. CASE Analyze(w)
    BY <1>1, <1>2 DEF Analyze, Busy
  <1>3. CASE Save(w)
    BY <1>1, <1>3 DEF Save, Busy
  <1>4. CASE LookForFailedDir(w)
    BY <1>1, <1>4 DEF LookForFailedDir, Busy
  <1>5. CASE MakeFailedDir(w) /\ ~failedDir
    BY <1>1, <1>5 DEF MakeFailedDir, Busy
  <1>6. Analyze(w) \/ Save(w) \/ LookForFailedDir(w) \/ MakeFailedDir(w)
    BY DEF Work, Finishes
  <1>7. MakeFailedDir(w) => ~failedDir
    BY DEF Finishes
  <1> QED
    BY <1>2, <1>3, <1>4, <1>5, <1>6, <1>7

LEMMA Ends ==
  ASSUME Inv, NEW w \in Workers, Finishes(w)
  PROVE  /\ ~Take(w)
         /\ worker'[w] = Idle
         /\ \E c \in {0, 1} :
              /\ c = 0 <=> Clear(w)
              /\ results' = results \cup
                   {[job |-> worker[w].job, code |-> c, skipped |-> FALSE,
                     reanalyzed |-> worker[w].reanalyzed,
                     rev |-> rev[worker[w].job.action]]}
  <1>1. worker \in [Workers -> {Idle} \cup Busy]
    BY DEF Inv, TypeInv
  <1>2. ~Take(w)
    <2>1. worker[w].pc \in {"clear", "pack", "mkdir"}
      BY DEF Finishes, Clear, Pack, MakeFailedDir
    <2>2. Idle.pc = "idle"
      BY DEF Idle
    <2>3. Take(w) => worker[w] = Idle
      BY DEF Take
    <2> QED
      BY <2>1, <2>2, <2>3
  <1>3. ASSUME Clear(w)
        PROVE  worker'[w] = Idle /\ results' = results \cup
                 {[job |-> worker[w].job, code |-> 0, skipped |-> FALSE,
                   reanalyzed |-> worker[w].reanalyzed,
                   rev |-> rev[worker[w].job.action]]}
    BY <1>1, <1>3 DEF Clear, Return
  <1>4. ASSUME Pack(w) \/ (MakeFailedDir(w) /\ failedDir)
        PROVE  worker'[w] = Idle /\ ~Clear(w) /\ results' = results \cup
                 {[job |-> worker[w].job, code |-> 1, skipped |-> FALSE,
                   reanalyzed |-> worker[w].reanalyzed,
                   rev |-> rev[worker[w].job.action]]}
    BY <1>1, <1>4 DEF Pack, MakeFailedDir, Return, Clear
  <1> QED
    BY <1>2, <1>3, <1>4 DEF Finishes

LEMMA Returned ==
  ASSUME Inv, NEW w \in Workers, Work(w), NEW r \in results', r \notin results
  PROVE  \/ /\ Take(w) /\ r.job \in queue /\ r.skipped /\ ~r.reanalyzed
            /\ r.code = 0 /\ r.rev = rev[r.job.action] /\ worker' = worker
         \/ /\ Running(w) /\ worker'[w] = Idle /\ r.job = worker[w].job
            /\ r.reanalyzed = worker[w].reanalyzed /\ ~r.skipped
            /\ r.rev = rev[r.job.action]
            /\ \/ Clear(w) /\ r.code = 0
               \/ (Pack(w) \/ (MakeFailedDir(w) /\ failedDir)) /\ r.code = 1
  <1>1. CASE Take(w)
    <2>1. PICK j \in queue :
             \/ /\ worker' = worker
                /\ results' = results \cup
                     {[job |-> j, code |-> 0, skipped |-> TRUE,
                       reanalyzed |-> FALSE, rev |-> rev[j.action]]}
             \/ results' = results
      BY <1>1, Takes
    <2> QED
      BY <1>1, <2>1
  <1>2. CASE Finishes(w)
    <2>1. PICK c \in {0, 1} :
            /\ c = 0 <=> Clear(w)
            /\ results' = results \cup
                 {[job |-> worker[w].job, code |-> c, skipped |-> FALSE,
                   reanalyzed |-> worker[w].reanalyzed,
                   rev |-> rev[worker[w].job.action]]}
      BY <1>2, Ends
    <2>2. worker'[w] = Idle /\ ~Take(w)
      BY <1>2, Ends
    <2>3. Running(w)
      BY <2>2, BusyIs
    <2> QED
      BY <1>2, <2>1, <2>2, <2>3 DEF Finishes
  <1>3. CASE ~Take(w) /\ ~Finishes(w)
    <2>1. results' = results
      BY <1>3, GoesOn
    <2> QED
      BY <2>1
  <1> QED
    BY <1>1, <1>2, <1>3

(* A job that was being done is still done, or it has a result.            *)
LEMMA JobKept ==
  ASSUME Inv, NEW w \in Workers, Work(w), NEW v \in Workers, Running(v)
  PROVE  \/ Running(v)' /\ worker'[v].job = worker[v].job
         \/ v = w /\ \E r \in results' : ~r.skipped /\ r.job = worker[v].job
  <1>1. v # w => worker'[v] = worker[v]
    BY WorkFrame
  <1>2. CASE v # w
    BY <1>1, <1>2 DEF Running
  <1>3. CASE v = w
    <2>1. ~Take(w)
      BY <1>3, Takes
    <2>2. CASE Finishes(w)
      <3>1. PICK c \in {0, 1} : results' = results \cup
               {[job |-> worker[w].job, code |-> c, skipped |-> FALSE,
                 reanalyzed |-> worker[w].reanalyzed,
                 rev |-> rev[worker[w].job.action]]}
        BY <2>2, Ends
      <3>2. PICK r \in results' :
               r = [job |-> worker[w].job, code |-> c, skipped |-> FALSE,
                    reanalyzed |-> worker[w].reanalyzed,
                    rev |-> rev[worker[w].job.action]]
        BY <3>1
      <3>3. ~r.skipped /\ r.job = worker[w].job
        BY <3>2
      <3> QED
        BY <1>3, <3>3
    <2>3. CASE ~Finishes(w)
      <3>1. PICK p \in {"save", "fail", "clear", "pack", "mkdir"} :
               worker'[w] = [pc |-> p, job |-> worker[w].job,
                             reanalyzed |-> worker[w].reanalyzed]
        BY <2>1, <2>3, GoesOn
      <3> QED
        BY <1>3, <3>1 DEF Running, Idle
    <2> QED
      BY <2>2, <2>3
  <1> QED
    BY <1>2, <1>3

LEMMA WorkApart ==
  ASSUME Inv, NEW w \in Workers, Work(w)
  PROVE  AtRest' /\ JobsApart'
  <1>1. /\ UNCHANGED <<code, main, meta>> /\ pc = "pool"
        /\ \A v \in Workers : v # w => worker'[v] = worker[v]
    BY WorkFrame
  <1>2. AtRest'
    BY <1>1 DEF AtRest, main
  <1>3. JobsApart
    BY DEF Inv
  <1>4. CASE Take(w)
    <2>1. ~Running(w)
      BY <1>4, Takes
    <2>2. PICK j \in queue :
             /\ queue' = queue \ {j}
             /\ \/ /\ worker' = worker
                   /\ results' = results \cup
                        {[job |-> j, code |-> 0, skipped |-> TRUE,
                          reanalyzed |-> FALSE, rev |-> rev[j.action]]}
                \/ /\ results' = results
                   /\ worker'[w] = [pc |-> "run", job |-> j,
                                    reanalyzed |-> Exists(ResultFile(j))]
      BY <1>4, Takes
    <2>3. CASE /\ worker' = worker
               /\ results' = results \cup
                    {[job |-> j, code |-> 0, skipped |-> TRUE,
                      reanalyzed |-> FALSE, rev |-> rev[j.action]]}
      <3>1. \A r \in results' : r \in results \/ r.job = j
        BY <2>3
      <3>2. \A v \in Workers : Running(v)' <=> Running(v)
        BY <2>3 DEF Running
      <3>3. \A v \in Workers : Running(v) => worker[v].job # j
        BY <1>3, <2>2 DEF JobsApart
      <3>4. \A r \in results' : r.job \notin queue'
        BY <1>3, <2>2, <3>1 DEF JobsApart
      <3>5. ASSUME NEW v \in Workers, Running(v)
            PROVE  /\ worker'[v].job \notin queue'
                   /\ \A r \in results' : r.job # worker'[v].job
                   /\ \A u \in Workers : Running(u) /\ u # v =>
                        worker'[u].job # worker'[v].job
        BY <1>3, <2>2, <2>3, <3>1, <3>3, <3>5 DEF JobsApart
      <3>6. JobsApart'
        BY <3>2, <3>4, <3>5 DEF JobsApart
      <3> QED
        BY <1>2, <3>6
    <2>4. CASE /\ results' = results
               /\ worker'[w] = [pc |-> "run", job |-> j,
                                reanalyzed |-> Exists(ResultFile(j))]
      <3>1. worker'[w].job = j
        BY <2>4
      <3>2. \A v \in Workers : Running(v)' => v = w \/ Running(v)
        BY <1>1 DEF Running
      <3>3. \A r \in results' : r.job \notin queue' /\ r.job # j
        BY <1>3, <2>2, <2>4 DEF JobsApart
      <3>4. j \notin queue' /\ \A v \in Workers : Running(v) => worker[v].job # j
        BY <1>3, <2>2 DEF JobsApart
      <3>5. ASSUME NEW v \in Workers, v # w, Running(v)'
            PROVE  /\ worker'[v].job = worker[v].job
                   /\ worker'[v].job \notin queue'
                   /\ \A r \in results' : r.job # worker'[v].job
                   /\ worker'[v].job # j
                   /\ \A u \in Workers : Running(u)' /\ u # v =>
                        worker'[u].job # worker'[v].job
        <4>1. Running(v) /\ worker'[v] = worker[v]
          BY <1>1, <3>2, <3>5
        <4>2. /\ worker[v].job \notin queue
              /\ \A r \in results : r.job # worker[v].job
              /\ \A u \in Workers : Running(u) /\ u # v =>
                   worker[u].job # worker[v].job
          BY <1>3, <4>1 DEF JobsApart
        <4>3. worker[v].job # j
          BY <2>2, <4>2
        <4> QED
          BY <1>1, <2>2, <2>4, <3>1, <3>2, <4>1, <4>2, <4>3
      <3>6. ASSUME NEW v \in Workers, Running(v)'
            PROVE  /\ worker'[v].job \notin queue'
                   /\ \A r \in results' : r.job # worker'[v].job
                   /\ \A u \in Workers : Running(u)' /\ u # v =>
                        worker'[u].job # worker'[v].job
        BY <3>1, <3>3, <3>4, <3>5, <3>6
      <3>7. JobsApart'
        BY <3>3, <3>6 DEF JobsApart
      <3> QED
        BY <1>2, <3>7
    <2> QED
      BY <1>2, <2>2, <2>3, <2>4
  <1>5. CASE ~Take(w)
    <2>1. Running(w) /\ queue' = queue
      BY <1>5, BusyIs
    <2>2. \A v \in Workers : v # w => (Running(v)' <=> Running(v))
      BY <1>1 DEF Running
    <2>3. CASE Finishes(w)
      <3>1. worker'[w] = Idle
        BY <2>3, Ends
      <3>2. ~Running(w)'
        BY <3>1 DEF Running
      <3>3. \A r \in results' : r \in results \/ r.job = worker[w].job
        BY <1>5, Returned
      <3> QED
        BY <1>1, <1>2, <1>3, <2>1, <2>2, <3>2, <3>3 DEF JobsApart
    <2>4. CASE ~Finishes(w)
      <3>1. results' = results
        BY <1>5, <2>4, GoesOn
      <3>2. PICK p \in {"save", "fail", "clear", "pack", "mkdir"} :
               worker'[w] = [pc |-> p, job |-> worker[w].job,
                             reanalyzed |-> worker[w].reanalyzed]
        BY <1>5, <2>4, GoesOn
      <3>3. worker'[w].job = worker[w].job
        BY <3>2
      <3> QED
        BY <1>1, <1>2, <1>3, <2>1, <2>2, <3>1, <3>3 DEF JobsApart
    <2> QED
      BY <2>3, <2>4
  <1> QED
    BY <1>4, <1>5

(* What one job writes over the results of the directory.                  *)
LEMMA Saved ==
  ASSUME Inv, NEW w \in Workers, Save(w)
  PROVE  LET j == worker[w].job
         IN  /\ plist' \in [Files -> {None} \cup Reports]
             /\ \A f \in Files : f \notin {PlainFile(j), ResultFile(j)} =>
                  plist'[f] = plist[f]
             /\ \A f \in Files : plist'[f] \in {plist[f], Results(j), None}
             /\ j.analyzer \notin Converters => plist' = plist
             /\ j.analyzer \in Converters =>
                  /\ Results(j) \in {plist'[PlainFile(j)], plist'[ResultFile(j)]}
                  /\ name[j.action] \notin Spaced =>
                       plist'[PlainFile(j)] = Results(j)
             /\ plist'[PlainFile(j)] = None => plist'[ResultFile(j)] = None
             /\ \A f \in Files : Exists(f) => plist'[f] # None
  <1>1. /\ TypeInv /\ EscapedHasPlain
        /\ plist \in [Files -> {None} \cup Reports]
    BY DEF Inv, TypeInv
  <1>2. Running(w) /\ worker[w].job \in Jobs
    BY <1>1, WorkerTyped DEF Save
  <1>3. PICK j \in Jobs : j = worker[w].job
    BY <1>2
  <1>4. plist' = Renamed(j, Postprocessed(j))
    BY <1>3 DEF Save
  <1>5. PICK p \in [Files -> {None} \cup Reports] : p = Postprocessed(j)
    <2>1. Results(j) \in Reports
      BY <1>1, FilesTyped
    <2> QED
      BY <1>1, <2>1 DEF Postprocessed
  <1>6. PICK P \in Files, R \in Files :
          /\ P = PlainFile(j) /\ R = ResultFile(j)
          /\ Results(j) # None /\ None \notin Reports
          /\ R = P <=> name[j.action] \notin Spaced
    <2>1. name[j.action] \in Spaced => ResultFile(j) # PlainFile(j)
      BY <1>1, FilesTyped
    <2> QED
      BY <1>1, <2>1, FilesTyped, Values
  <1>7. plist[P] = None => plist[R] = None
    BY <1>1, <1>6, FilesTyped DEF EscapedHasPlain, Exists
  <1>8. p = IF j.analyzer \in Converters
            THEN [plist EXCEPT ![R] = Results(j)] ELSE plist
    BY <1>5, <1>6 DEF Postprocessed
  <1>9. plist' = IF p[R] # None /\ p[P] = None
                 THEN [f \in Files |-> IF f = P THEN p[R]
                                         ELSE IF f = R THEN None ELSE p[f]]
                 ELSE p
    BY <1>4, <1>5, <1>6 DEF Renamed
  <1>10. CASE j.analyzer \notin Converters
    <2>1. plist' = plist
      BY <1>7, <1>8, <1>9, <1>10
    <2> QED
      BY <1>1, <1>3, <1>6, <1>7, <1>10, <2>1 DEF Exists
  <1>11. CASE j.analyzer \in Converters /\ p[P] = None
    <2>1. R # P /\ p[R] = Results(j)
      BY <1>1, <1>6, <1>8, <1>11
    <2>2. plist[P] = None /\ plist[R] = None
      BY <1>1, <1>7, <1>8, <1>11, <2>1
    <2>3. /\ plist'[P] = Results(j) /\ plist'[R] = None
          /\ \A f \in Files : f \notin {P, R} => plist'[f] = plist[f]
          /\ plist' \in [Files -> {None} \cup Reports]
      BY <1>1, <1>5, <1>6, <1>8, <1>9, <1>11, <2>1
    <2> QED
      BY <1>1, <1>3, <1>6, <1>11, <2>1, <2>2, <2>3 DEF Exists
  <1>12. CASE j.analyzer \in Converters /\ p[P] # None
    <2>1. plist' = [plist EXCEPT ![R] = Results(j)]
      BY <1>8, <1>9, <1>12
    <2>2. plist'[R] = Results(j) /\ plist'[P] # None
      BY <1>1, <1>6, <1>8, <1>12, <2>1
    <2> QED
      BY <1>1, <1>3, <1>5, <1>6, <1>8, <1>12, <2>1, <2>2 DEF Exists
  <1> QED
    BY <1>10, <1>11, <1>12

LEMMA PlistStays ==
  ASSUME Inv, NEW w \in Workers, Work(w), ~Analyze(w), ~Save(w)
  PROVE  UNCHANGED <<plist, source>>
  BY DEF Work, Take, Clear, LookForFailedDir, MakeFailedDir, Pack, disk

LEMMA Analyzed ==
  ASSUME Inv, NEW w \in Workers, Analyze(w)
  PROVE  LET j == worker[w].job
         IN  /\ plist' \in [Files -> {None} \cup Reports]
             /\ \A f \in Files : f # PlainFile(j) => plist'[f] = plist[f]
             /\ plist'[PlainFile(j)] \in {plist[PlainFile(j)], Results(j)}
             /\ worker'[w].pc = "save" /\ j.analyzer \notin Converters =>
                  plist'[PlainFile(j)] = Results(j)
  <1>1. /\ TypeInv
        /\ plist \in [Files -> {None} \cup Reports]
        /\ worker \in [Workers -> {Idle} \cup Busy]
    BY DEF Inv, TypeInv
  <1>2. worker[w] \in Busy /\ worker[w].job \in Jobs
    BY <1>1, WorkerTyped DEF Analyze
  <1>3. PICK j \in Jobs : j = worker[w].job
    BY <1>2
  <1>4. PICK P \in Files, x \in Reports : P = PlainFile(j) /\ x = Results(j)
    BY <1>1, FilesTyped
  <1>5. plist' = IF j.action \in broken \/ j.analyzer \in Converters THEN plist
                 ELSE [plist EXCEPT ![P] = x]
    BY <1>3, <1>4 DEF Analyze
  <1>6. worker'[w].pc = "save" => j.action \notin broken
    BY <1>1, <1>2, <1>3 DEF Analyze, Busy
  <1> QED
    BY <1>1, <1>3, <1>4, <1>5, <1>6

(* Whatever a worker does to the results, it does to those of its job, and *)
(* no file goes.                                                           *)
LEMMA PlistGoes ==
  ASSUME Inv, NEW w \in Workers, Work(w)
  PROVE  /\ plist' \in [Files -> {None} \cup Reports]
         /\ \A f \in Files : Exists(f) => plist'[f] # None
         /\ \A f \in Files : \/ plist'[f] = plist[f]
                             \/ /\ Analyze(w) \/ Save(w)
                                /\ f \in {PlainFile(worker[w].job),
                                          ResultFile(worker[w].job)}
                                /\ plist'[f] \in {Results(worker[w].job), None}
         /\ \A k \in Jobs : plist'[PlainFile(k)] = None =>
                              plist'[ResultFile(k)] = None
  <1>1. /\ TypeInv /\ EscapedHasPlain
        /\ plist \in [Files -> {None} \cup Reports]
    BY DEF Inv, TypeInv
  <1>2. \A k \in Jobs : /\ PlainFile(k) \in Files /\ ResultFile(k) \in Files
                        /\ plist[PlainFile(k)] = None => plist[ResultFile(k)] = None
    <2> SUFFICES ASSUME NEW k \in Jobs
                 PROVE  /\ PlainFile(k) \in Files /\ ResultFile(k) \in Files
                        /\ plist[PlainFile(k)] = None => plist[ResultFile(k)] = None
      OBVIOUS
    <2> QED
      BY <1>1, FilesTyped DEF EscapedHasPlain, Exists
  <1>3. CASE ~Analyze(w) /\ ~Save(w)
    <2>1. plist' = plist
      BY <1>3, PlistStays
    <2>2. \A k \in Jobs : plist'[PlainFile(k)] = None =>
                            plist'[ResultFile(k)] = None
      BY <1>2, <2>1
    <2>3. \A f \in Files : Exists(f) => plist'[f] # None
      BY <2>1 DEF Exists
    <2>4. \A f \in Files : plist'[f] = plist[f]
      BY <2>1
    <2> QED
      BY <1>1, <2>1, <2>2, <2>3, <2>4
  <1>4. CASE Analyze(w) \/ Save(w)
    <2>1. worker[w].job \in Jobs
      BY <1>1, <1>4, WorkerTyped DEF Analyze, Save
    <2>2. PICK j \in Jobs : j = worker[w].job
      BY <2>1
    <2>3. PICK P \in Files, R \in Files, x \in Reports :
            P = PlainFile(j) /\ R = ResultFile(j) /\ x = Results(j) /\ x # None
      BY <1>1, FilesTyped
    <2>4. /\ plist' \in [Files -> {None} \cup Reports]
          /\ \A f \in Files : f \notin {P, R} => plist'[f] = plist[f]
          /\ \A f \in Files : plist'[f] \in {plist[f], x, None}
          /\ plist'[P] = None => plist'[R] = None
          /\ \A f \in Files : plist[f] # None => plist'[f] # None
      <3>1. CASE Save(w)
        BY <2>2, <2>3, <3>1, Saved DEF Exists
      <3>2. CASE Analyze(w)
        <4>1. /\ plist' \in [Files -> {None} \cup Reports]
              /\ \A f \in Files : f # P => plist'[f] = plist[f]
              /\ plist'[P] \in {plist[P], x}
          BY <2>2, <2>3, <3>2, Analyzed
        <4>2. plist[P] = None => plist[R] = None
          BY <1>2, <2>3
        <4> QED
          BY <1>1, <2>3, <4>1, <4>2
      <3> QED
        BY <1>4, <3>1, <3>2
    <2>5. ASSUME NEW k \in Jobs, plist'[PlainFile(k)] = None
          PROVE  plist'[ResultFile(k)] = None
      <3>1. CASE PlainFile(k) = P
        BY <1>1, <2>3, <2>4, <2>5, <3>1, FilesApart
      <3>2. CASE PlainFile(k) # P
        <4>1. PlainFile(k) \notin {P, R} /\ ResultFile(k) \notin {P, R}
          BY <1>1, <2>3, <3>2, FilesApart
        <4> QED
          BY <1>2, <2>4, <2>5, <4>1
      <3> QED
        BY <3>1, <3>2
    <2>6. \A f \in Files : Exists(f) => plist'[f] # None
      BY <2>4 DEF Exists
    <2>7. \A f \in Files :
             \/ plist'[f] = plist[f]
             \/ /\ Analyze(w) \/ Save(w)
                /\ f \in {PlainFile(worker[w].job), ResultFile(worker[w].job)}
                /\ plist'[f] \in {Results(worker[w].job), None}
      BY <1>4, <2>2, <2>3, <2>4
    <2> QED
      BY <2>4, <2>5, <2>6, <2>7
  <1> QED
    BY <1>3, <1>4

LEMMA WorkFiles ==
  ASSUME Inv, NEW w \in Workers, Work(w)
  PROVE  EscapedHasPlain' /\ NamesFit'
  <1>1. TypeInv /\ NamesFit /\ EscapedHasPlain
    BY DEF Inv
  <1>2. UNCHANGED <<name, md, meta>>
    BY WorkFrame DEF code, main
  <1>3. EscapedHasPlain'
    <2> SUFFICES ASSUME NEW n \in Names, NEW z \in Analyzers,
                        plist'[<<n, z, "escaped">>] # None
                 PROVE  plist'[<<n, z, "plain">>] # None
      BY DEF EscapedHasPlain, Exists
    <2>1. <<n, z, "escaped">> \in Files /\ <<n, z, "plain">> \in Files
      BY DEF Files
    <2>2. CASE plist[<<n, z, "plain">>] # None
      BY <2>1, <2>2, PlistGoes DEF Exists
    <2>3. CASE plist[<<n, z, "plain">>] = None
      <3>1. plist[<<n, z, "escaped">>] = None
        BY <1>1, <2>3 DEF EscapedHasPlain, Exists
      <3>2. /\ Analyze(w) \/ Save(w)
            /\ <<n, z, "escaped">> \in {PlainFile(worker[w].job),
                                       ResultFile(worker[w].job)}
        BY <2>1, <3>1, PlistGoes
      <3>3. worker[w].job \in Jobs
        BY <1>1, <3>2, WorkerTyped DEF Analyze, Save
      <3>4. /\ <<n, z, "escaped">> = ResultFile(worker[w].job)
            /\ <<n, z, "plain">> = PlainFile(worker[w].job)
        BY <1>1, <3>2, <3>3, FilesTyped
      <3> QED
        BY <3>3, <3>4, PlistGoes
    <2> QED
      BY <2>2, <2>3
  <1>4. \A f \in Files : plist'[f] # None => name[plist'[f].by] = f[1]
    <2> SUFFICES ASSUME NEW f \in Files, plist'[f] # None, plist'[f] # plist[f]
                 PROVE  name[plist'[f].by] = f[1]
      BY <1>1 DEF NamesFit
    <2>1. /\ Analyze(w) \/ Save(w)
          /\ f \in {PlainFile(worker[w].job), ResultFile(worker[w].job)}
          /\ plist'[f] = Results(worker[w].job)
      BY PlistGoes
    <2>2. worker[w].job \in Jobs
      BY <1>1, <2>1, WorkerTyped DEF Analyze, Save
    <2> QED
      BY <1>1, <2>1, <2>2, FilesTyped
  <1>5. \A f \in Files : source'[f] # None => name[source'[f]] = f[1]
    <2>1. CASE Save(w)
      <3>1. worker[w].job \in Jobs
        BY <1>1, <2>1, WorkerTyped DEF Save
      <3>2. PICK j \in Jobs : j = worker[w].job
        BY <3>1
      <3>3. PICK P \in Files : P = PlainFile(j) /\ P[1] = name[j.action]
        BY <1>1, FilesTyped
      <3>4. source' = [source EXCEPT ![P] = j.action]
        BY <2>1, <3>2, <3>3 DEF Save
      <3>5. source \in [Files -> {None} \cup Actions]
        BY <1>1 DEF TypeInv
      <3> QED
        BY <1>1, <3>3, <3>4, <3>5 DEF NamesFit
    <2>2. CASE ~Save(w)
      <3>1. source' = source
        BY <2>2 DEF Work, Take, Analyze, Clear, LookForFailedDir,
                    MakeFailedDir, Pack, disk
      <3> QED
        BY <1>1, <3>1 DEF NamesFit
    <2> QED
      BY <2>1, <2>2
  <1>6. NamesFit'
    BY <1>1, <1>2, <1>4, <1>5 DEF NamesFit
  <1> QED
    BY <1>3, <1>6

LEMMA WorkTyped ==
  ASSUME Inv, NEW w \in Workers, Work(w)
  PROVE  TypeInv'
  <1>1. TypeInv
    BY DEF Inv
  <1>2. UNCHANGED <<code, main, meta>>
    BY WorkFrame
  <1>3. plist' \in [Files -> {None} \cup Reports]
    BY PlistGoes
  <1>4. CASE Take(w)
    <2>1. PICK j \in queue :
             /\ queue' = queue \ {j}
             /\ \/ /\ worker' = worker
                   /\ results' = results \cup
                        {[job |-> j, code |-> 0, skipped |-> TRUE,
                          reanalyzed |-> FALSE, rev |-> rev[j.action]]}
                \/ /\ results' = results
                   /\ worker'[w] = [pc |-> "run", job |-> j,
                                    reanalyzed |-> Exists(ResultFile(j))]
      BY <1>4, Takes
    <2>2. j \in Jobs /\ rev[j.action] \in 0..MaxRev
      BY <1>1, <2>1, FilesTyped DEF TypeInv
    <2>3. results' \subseteq Outcomes /\ IsFiniteSet(results')
      <3>1. [job |-> j, code |-> 0, skipped |-> TRUE, reanalyzed |-> FALSE,
             rev |-> rev[j.action]] \in Outcomes
        BY <2>2 DEF Outcomes
      <3>2. results \subseteq Outcomes /\ IsFiniteSet(results)
        BY <1>1 DEF TypeInv
      <3> QED
        BY <2>1, <3>1, <3>2, FS_AddElement
    <2>4. worker' \in [Workers -> {Idle} \cup Busy]
      <3>1. [pc |-> "run", job |-> j, reanalyzed |-> Exists(ResultFile(j))] \in Busy
        BY <2>2 DEF Busy, Exists
      <3>2. /\ worker \in [Workers -> {Idle} \cup Busy]
            /\ \/ worker' = worker
               \/ \E k \in queue : worker' = [worker EXCEPT ![w] =
                    [pc |-> "run", job |-> k, reanalyzed |-> Exists(ResultFile(k))]]
        BY <1>1, <1>4 DEF Take, TypeInv
      <3>3. \A k \in queue :
              [pc |-> "run", job |-> k, reanalyzed |-> Exists(ResultFile(k))] \in Busy
        BY <1>1 DEF Busy, Exists, TypeInv
      <3> QED
        BY <3>2, <3>3
    <2>5. UNCHANGED disk /\ queue' \subseteq Jobs
      BY <1>1, <1>4, <2>1 DEF Take, TypeInv
    <2> QED
      BY <1>1, <1>2, <1>3, <2>3, <2>4, <2>5 DEF TypeInv, code, main, disk
  <1>5. CASE ~Take(w)
    <2>1. /\ Running(w) /\ queue' = queue
          /\ worker \in [Workers -> {Idle} \cup Busy]
          /\ worker[w] \in Busy /\ worker[w].job \in Jobs
      BY <1>5, BusyIs
    <2>2. PICK j \in Jobs : j = worker[w].job
      BY <2>1
    <2>3. PICK P \in Files : P = PlainFile(j)
      BY <1>1, FilesTyped
    <2>4. j.action \in Actions /\ rev[j.action] \in 0..MaxRev
      BY <1>1, FilesTyped DEF TypeInv
    <2>5. results' \subseteq Outcomes /\ IsFiniteSet(results')
      <3>1. CASE Finishes(w)
        <4>1. PICK c \in {0, 1} : results' = results \cup
                {[job |-> j, code |-> c, skipped |-> FALSE,
                  reanalyzed |-> worker[w].reanalyzed, rev |-> rev[j.action]]}
          BY <2>2, <3>1, Ends
        <4>2. [job |-> j, code |-> c, skipped |-> FALSE,
               reanalyzed |-> worker[w].reanalyzed, rev |-> rev[j.action]]
                 \in Outcomes
          BY <2>1, <2>4 DEF Outcomes, Busy
        <4>3. results \subseteq Outcomes /\ IsFiniteSet(results)
          BY <1>1 DEF TypeInv
        <4> QED
          BY <4>1, <4>2, <4>3, FS_AddElement
      <3>2. CASE ~Finishes(w)
        <4>1. results' = results
          BY <1>5, <3>2, GoesOn
        <4> QED
          BY <1>1, <4>1 DEF TypeInv
      <3> QED
        BY <3>1, <3>2
    <2>6. worker' \in [Workers -> {Idle} \cup Busy]
      <3>1. worker' = [worker EXCEPT ![w] = worker'[w]]
        <4>1. DOMAIN worker' = Workers /\ worker' = [v \in Workers |-> worker'[v]]
          BY <1>5, <2>1 DEF Work, Analyze, Save, Clear, LookForFailedDir,
                            MakeFailedDir, Pack, Return
        <4> QED
          BY <2>1, <4>1, WorkFrame
      <3>2. worker'[w] \in {Idle} \cup Busy
        <4>1. CASE Finishes(w)
          BY <4>1, Ends
        <4>2. CASE ~Finishes(w)
          <5>1. PICK p \in {"save", "fail", "clear", "pack", "mkdir"} :
                  worker'[w] = [pc |-> p, job |-> worker[w].job,
                                reanalyzed |-> worker[w].reanalyzed]
            BY <1>5, <4>2, GoesOn
          <5> QED
            BY <2>1, <5>1 DEF Busy
        <4> QED
          BY <4>1, <4>2
      <3> QED
        BY <2>1, <3>1, <3>2
    <2>7. source' \in [Files -> {None} \cup Actions]
      <3>1. CASE Save(w)
        <4>1. source' = [source EXCEPT ![P] = j.action]
          BY <2>2, <2>3, <3>1 DEF Save
        <4> QED
          BY <1>1, <2>4, <4>1 DEF TypeInv
      <3>2. CASE ~Save(w)
        BY <1>1, <1>5, <3>2 DEF Work, Analyze, Clear, LookForFailedDir,
                                MakeFailedDir, Pack, disk, TypeInv
      <3> QED
        BY <3>1, <3>2
    <2>8. zips' \subseteq Files /\ failedDir' \in BOOLEAN
      <3>1. /\ zips' \in {zips, zips \ {P}, zips \cup {P}}
            /\ failedDir' \in {failedDir, TRUE}
        BY <1>5, <2>2, <2>3 DEF Work, Analyze, Save, Clear, LookForFailedDir,
                                MakeFailedDir, Pack, disk
      <3> QED
        BY <1>1, <2>3, <3>1 DEF TypeInv
    <2> QED
      BY <1>1, <1>2, <1>3, <2>1, <2>5, <2>6, <2>7, <2>8 DEF TypeInv, code, main
  <1> QED
    BY <1>4, <1>5

LEMMA WorkKeeps ==
  ASSUME Inv, NEW w \in Workers, Work(w)
  PROVE  MdKeeps' /\ TempRemoved' /\ CountsRight'
  <1>1. UNCHANGED <<pc, md, meta>> /\ pc = "pool"
    BY WorkFrame DEF main
  <1>2. MdKeeps' /\ TempRemoved' /\ CountsRight'
    BY <1>1 DEF Inv, MdKeeps, TempRemoved, CountsRight
  <1> QED
    BY <1>2
-----------------------------------------------------------------------------
(* What a worker's step does to the promises about the other jobs.         *)

LEMMA SoleShrinks ==
  ASSUME Inv, NEW w \in Workers, Work(w), NEW j \in Jobs, Sole(j)'
  PROVE  Sole(j)
  <1>1. name' = name /\ results \subseteq results'
    BY WorkFrame DEF code
  <1>2. \A k \in Jobs : PlainFile(k)' = PlainFile(k)
    BY <1>1 DEF PlainFile
  <1>3. TypeInv
    BY DEF Inv
  <1>4. PlainFile(j)' = PlainFile(j)
    BY <1>2
  <1>5. ASSUME NEW r \in results', ~r.skipped, r.job \in Jobs,
               PlainFile(r.job) = PlainFile(j)
        PROVE  r.job = j
    <2>1. PlainFile(r.job)' = PlainFile(r.job)
      BY <1>1 DEF PlainFile
    <2> QED
      BY <1>4, <1>5, <2>1 DEF Sole
  <1>6. ASSUME NEW r \in results, ~r.skipped, PlainFile(r.job) = PlainFile(j)
        PROVE  r.job = j
    BY <1>1, <1>3, <1>5, <1>6, ResultTyped
  <1>7. ASSUME NEW v \in Workers, Running(v),
               PlainFile(worker[v].job) = PlainFile(j)
        PROVE  worker[v].job = j
    <2>1. worker[v].job \in Jobs
      BY <1>3, <1>7, WorkerTyped
    <2>2. CASE Running(v)' /\ worker'[v].job = worker[v].job
      <3>1. PlainFile(worker[v].job)' = PlainFile(worker[v].job)
        BY <1>1, <2>2 DEF PlainFile
      <3> QED
        BY <1>4, <1>7, <2>2, <3>1 DEF Sole
    <2>3. CASE \E r \in results' : ~r.skipped /\ r.job = worker[v].job
      BY <1>5, <1>7, <2>1, <2>3
    <2> QED
      BY <1>7, <2>2, <2>3, JobKept
  <1> QED
    BY <1>6, <1>7 DEF Sole

(* A job that stays alone has its files for itself.                        *)
LEMMA SoleApart ==
  ASSUME Inv, NEW w \in Workers, Work(w), ~Take(w),
         NEW j \in Jobs, Sole(j)', j # worker[w].job
  PROVE  /\ {PlainFile(j), ResultFile(j)} \cap
              {PlainFile(worker[w].job), ResultFile(worker[w].job)} = {}
         /\ plist'[PlainFile(j)] = plist[PlainFile(j)]
         /\ plist'[ResultFile(j)] = plist[ResultFile(j)]
  <1>1. TypeInv /\ Sole(j) /\ Running(w) /\ worker[w].job \in Jobs
    BY SoleShrinks, BusyIs DEF Inv
  <1>2. PlainFile(worker[w].job) # PlainFile(j)
    BY <1>1 DEF Sole
  <1>3. {PlainFile(j), ResultFile(j)} \cap
              {PlainFile(worker[w].job), ResultFile(worker[w].job)} = {}
    BY <1>1, <1>2, FilesApart
  <1>4. PlainFile(j) \in Files /\ ResultFile(j) \in Files
    BY <1>1, FilesTyped
  <1>5. /\ plist'[PlainFile(j)] = plist[PlainFile(j)]
        /\ plist'[ResultFile(j)] = plist[ResultFile(j)]
    BY <1>3, <1>4, PlistGoes
  <1> QED
    BY <1>3, <1>5

LEMMA FilesStay ==
  ASSUME Inv, NEW w \in Workers, Work(w), NEW j \in Jobs
  PROVE  /\ PlainFile(j)' = PlainFile(j) /\ ResultFile(j)' = ResultFile(j)
         /\ Results(j)' = Results(j)
  <1>1. name' = name /\ rev' = rev
    BY WorkFrame DEF code
  <1> QED
    BY <1>1 DEF PlainFile, ResultFile, Results

LEMMA ThereStays ==
  ASSUME Inv, NEW w \in Workers, Work(w), NEW j \in Jobs, NEW x,
         Sole(j)', Running(w) => j # worker[w].job, There(j, x)
  PROVE  There(j, x)'
  <1>1. PlainFile(j)' = PlainFile(j) /\ ResultFile(j)' = ResultFile(j)
    BY FilesStay
  <1>2. CASE Take(w)
    <2>1. plist' = plist
      BY <1>2 DEF Take, disk
    <2> QED
      BY <1>1, <2>1 DEF There
  <1>3. CASE ~Take(w)
    <2>1. j # worker[w].job
      BY <1>3, BusyIs
    <2>2. /\ plist'[PlainFile(j)] = plist[PlainFile(j)]
          /\ plist'[ResultFile(j)] = plist[ResultFile(j)]
      BY <1>3, <2>1, SoleApart
    <2> QED
      BY <1>1, <2>2 DEF There
  <1> QED
    BY <1>2, <1>3

LEMMA WrittenStays ==
  ASSUME Inv, NEW w \in Workers, Work(w), NEW v \in Workers, Written(v)
  PROVE  \/ Written(v)' /\ worker'[v].job = worker[v].job
         \/ /\ v = w /\ Clear(w)
            /\ \E r \in results' : ResultOf(r) = Results(worker[v].job)
  <1>1. CASE v # w
    <2>1. worker'[v] = worker[v]
      BY <1>1, WorkFrame
    <2> QED
      BY <2>1 DEF Written
  <1>2. CASE v = w
    <2>1. worker[w].pc \in {"save", "clear"}
      BY <1>2 DEF Written
    <2>2. Save(w) \/ Clear(w)
      <3>1. ~Take(w)
        BY <2>1 DEF Take, Idle
      <3>2. /\ ~Analyze(w) /\ ~LookForFailedDir(w) /\ ~MakeFailedDir(w)
            /\ ~Pack(w)
        BY <2>1 DEF Analyze, LookForFailedDir, MakeFailedDir, Pack
      <3> QED
        BY <3>1, <3>2 DEF Work
    <2>3. CASE Clear(w)
      <3>1. PICK c \in {0, 1} : results' = results \cup
                 {[job |-> worker[w].job, code |-> c, skipped |-> FALSE,
                   reanalyzed |-> worker[w].reanalyzed,
                   rev |-> rev[worker[w].job.action]]}
        BY <2>3, Ends DEF Finishes
      <3>2. PICK r \in results' :
                 r = [job |-> worker[w].job, code |-> c, skipped |-> FALSE,
                      reanalyzed |-> worker[w].reanalyzed,
                      rev |-> rev[worker[w].job.action]]
        BY <3>1
      <3>3. ResultOf(r) = Results(worker[v].job)
        BY <1>2, <3>2 DEF ResultOf, Results
      <3> QED
        BY <1>2, <2>3, <3>3
    <2>4. CASE Save(w)
      <3>1. TypeInv /\ Running(w)
        BY <2>1, WorkerTyped DEF Inv
      <3>2. /\ worker \in [Workers -> {Idle} \cup Busy]
            /\ worker[w] \in Busy
        BY <3>1, WorkerTyped DEF TypeInv
      <3>3. worker'[w].pc = "clear" /\ worker'[w].job = worker[w].job
        BY <2>4, <3>2 DEF Save, Busy
      <3> QED
        BY <1>2, <3>3 DEF Written
    <2> QED
      BY <2>2, <2>3, <2>4
  <1> QED
    BY <1>1, <1>2

LEMMA FromNowGrows ==
  ASSUME Inv, NEW w \in Workers, Work(w), NEW x \in FromNow
  PROVE  x \in FromNow'
  <1>1. results \subseteq results' /\ rev' = rev
    BY WorkFrame DEF code
  <1>2. CASE \E r \in results : x = ResultOf(r)
    <2>1. PICK r \in results' : x = ResultOf(r)
      BY <1>1, <1>2
    <2>2. ResultOf(r)' = ResultOf(r)
      BY DEF ResultOf
    <2> QED
      BY <2>1, <2>2 DEF FromNow, ResultOf
  <1>3. CASE \E v \in Workers : Written(v) /\ x = Results(worker[v].job)
    <2>1. PICK v \in Workers : Written(v) /\ x = Results(worker[v].job)
      BY <1>3
    <2>2. CASE Written(v)' /\ worker'[v].job = worker[v].job
      <3>1. x = Results(worker[v].job)'
        BY <1>1, <2>1, <2>2 DEF Results
      <3> QED
        BY <2>2, <3>1 DEF FromNow
    <2>3. CASE \E r \in results' : ResultOf(r) = Results(worker[v].job)
      BY <2>1, <2>3 DEF FromNow, ResultOf
    <2> QED
      BY <2>1, <2>2, <2>3, WrittenStays
  <1> QED
    BY <1>2, <1>3 DEF FromNow

(* New results are written by a job that is going to succeed.              *)
LEMMA NewStays ==
  ASSUME Inv, NEW w \in Workers, Work(w), NEW j \in Jobs,
         IsNew(j) \/ (Running(w) /\ worker[w].job = j /\ Written(w)' /\ ~Written(w))
  PROVE  IsNew(j)'
  <1>1. TypeInv
    BY DEF Inv
  <1>2. PICK P \in Files : P = PlainFile(j) /\ PlainFile(j)' = P
    BY <1>1, FilesTyped, FilesStay
  <1>3. Doubled(P)' = Doubled(P)
    BY DEF Doubled
  <1> SUFFICES ASSUME ~Doubled(P)
               PROVE  plist'[P] \in FromNow'
    BY <1>2, <1>3 DEF IsNew
  <1>4. ASSUME Running(w), Written(w)', PlainFile(worker[w].job) = P,
               worker'[w].job = worker[w].job,
               plist'[P] = Results(worker[w].job)
        PROVE  plist'[P] \in FromNow'
    <2>1. worker[w].job \in Jobs
      BY <1>1, <1>4, WorkerTyped
    <2>2. Results(worker[w].job)' = plist'[P]
      BY <1>4, <2>1, WorkFrame DEF Results, code
    <2> QED
      BY <1>4, <2>2 DEF FromNow
  <1>5. ASSUME plist'[P] = plist[P], IsNew(j)
        PROVE  plist'[P] \in FromNow'
    <2>1. plist[P] \in FromNow
      BY <1>2, <1>5 DEF IsNew
    <2> QED
      BY <1>5, <2>1, FromNowGrows
  <1>6. CASE Save(w)
    <2>1. /\ Running(w) /\ worker[w].job \in Jobs
          /\ worker \in [Workers -> {Idle} \cup Busy] /\ worker[w] \in Busy
      BY <1>1, <1>6, WorkerTyped DEF Save, TypeInv
    <2>2. worker'[w].pc = "clear" /\ worker'[w].job = worker[w].job
      BY <1>6, <2>1 DEF Save, Busy
    <2>3. Written(w)'
      BY <2>2 DEF Written
    <2>4. CASE worker[w].job.analyzer \notin Converters
      <3>1. plist' = plist
        BY <1>6, <2>4, Saved
      <3>2. Written(w)
        BY <1>6, <2>4 DEF Save, Written
      <3> QED
        BY <1>5, <3>1, <3>2
    <2>5. CASE worker[w].job.analyzer \in Converters
      <3>1. CASE PlainFile(worker[w].job) = P
        <4>1. name[worker[w].job.action] \notin Spaced
          BY <1>1, <2>1, <2>5, <3>1, FilesTyped
        <4>2. plist'[P] = Results(worker[w].job)
          BY <1>6, <2>5, <3>1, <4>1, Saved
        <4> QED
          BY <1>4, <2>1, <2>2, <2>3, <3>1, <4>2
      <3>2. CASE PlainFile(worker[w].job) # P
        <4>1. P \notin {PlainFile(worker[w].job), ResultFile(worker[w].job)}
          BY <1>1, <1>2, <2>1, <3>2, FilesApart
        <4>2. plist'[P] = plist[P]
          BY <1>6, <4>1, Saved
        <4>3. IsNew(j)
          BY <1>2, <3>2
        <4> QED
          BY <1>5, <4>2, <4>3
      <3> QED
        BY <3>1, <3>2
    <2> QED
      BY <2>4, <2>5
  <1>7. CASE Analyze(w)
    <2>1. /\ Running(w) /\ worker[w].job \in Jobs
          /\ worker \in [Workers -> {Idle} \cup Busy] /\ worker[w] \in Busy
      BY <1>1, <1>7, WorkerTyped DEF Analyze, TypeInv
    <2>2. /\ worker'[w].pc = "save" \/ worker'[w].pc = "fail"
          /\ worker'[w].job = worker[w].job
          /\ worker'[w].pc = "fail" => plist' = plist
      BY <1>7, <2>1 DEF Analyze, Busy
    <2>3. CASE P = PlainFile(worker[w].job) /\ worker'[w].pc = "save"
               /\ worker[w].job.analyzer \notin Converters
      <3>1. plist'[P] = Results(worker[w].job)
        BY <1>7, <2>3, Analyzed
      <3>2. Written(w)'
        BY <2>2, <2>3 DEF Written
      <3> QED
        BY <1>4, <2>1, <2>2, <2>3, <3>1, <3>2
    <2>4. CASE ~(P = PlainFile(worker[w].job) /\ worker'[w].pc = "save"
                 /\ worker[w].job.analyzer \notin Converters)
      <3>1. plist'[P] = plist[P]
        <4>1. CASE P # PlainFile(worker[w].job)
          BY <1>7, <4>1, Analyzed
        <4>2. CASE worker[w].job.analyzer \in Converters
          BY <1>7, <4>2 DEF Analyze
        <4>3. CASE worker'[w].pc = "fail"
          BY <2>2, <4>3
        <4> QED
          BY <2>2, <2>4, <4>1, <4>2, <4>3
      <3>2. IsNew(j)
        <4>1. CASE worker[w].job = j /\ Written(w)'
          <5>1. P # PlainFile(worker[w].job) \/ ~Written(w)'
            BY <2>2, <2>4 DEF Written
          <5> QED
            BY <1>2, <4>1, <5>1
        <4> QED
          BY <4>1
      <3> QED
        BY <1>5, <3>1, <3>2
    <2> QED
      BY <2>3, <2>4
  <1>8. CASE ~Analyze(w) /\ ~Save(w)
    <2>1. plist' = plist
      BY <1>8, PlistStays
    <2>2. Written(w)' => Written(w)
      <3>1. CASE Take(w)
        <4>1. PICK k \in queue :
                 \/ worker' = worker
                 \/ worker'[w] = [pc |-> "run", job |-> k,
                                  reanalyzed |-> Exists(ResultFile(k))]
          BY <3>1, Takes
        <4> QED
          BY <4>1 DEF Written
      <3>2. CASE Finishes(w)
        BY <3>2, Ends DEF Written, Idle
      <3>3. CASE ~Take(w) /\ ~Finishes(w)
        <4>1. PICK p \in {"save", "fail", "clear", "pack", "mkdir"} :
                /\ worker'[w] = [pc |-> p, job |-> worker[w].job,
                                 reanalyzed |-> worker[w].reanalyzed]
                /\ p \in {"save", "fail"} => Analyze(w)
                /\ p = "clear" => Save(w)
          BY <3>3, GoesOn
        <4>2. p \in {"pack", "mkdir"}
          BY <1>8, <4>1
        <4> QED
          BY <4>1, <4>2 DEF Written
      <3> QED
        BY <3>1, <3>2, <3>3
    <2> QED
      BY <1>5, <2>1, <2>2
  <1> QED
    BY <1>6, <1>7, <1>8

(* The zip of a job that stays alone is its own affair.                    *)
LEMMA ZipStays ==
  ASSUME Inv, NEW w \in Workers, Work(w), NEW r \in results, ~r.skipped,
         Sole(r.job)'
  PROVE  PlainFile(r.job) \in zips' <=> PlainFile(r.job) \in zips
  <1>1. TypeInv /\ JobsApart
    BY DEF Inv
  <1>2. r.job \in Jobs
    BY <1>1, ResultTyped
  <1>3. CASE Take(w)
    BY <1>3 DEF Take, disk
  <1>4. CASE ~Take(w)
    <2>1. Running(w) /\ worker[w].job \in Jobs
      BY <1>4, BusyIs
    <2>2. Sole(r.job) /\ r.job # worker[w].job
      BY <1>1, <1>2, <2>1, SoleShrinks DEF JobsApart
    <2>3. PlainFile(worker[w].job) # PlainFile(r.job)
      BY <2>1, <2>2 DEF Sole
    <2>4. zips' \in {zips, zips \ {PlainFile(worker[w].job)},
                     zips \cup {PlainFile(worker[w].job)}}
      BY <1>4 DEF Work, Analyze, Save, Clear, LookForFailedDir, MakeFailedDir,
                  Pack, disk
    <2> QED
      BY <2>3, <2>4
  <1> QED
    BY <1>3, <1>4

LEMMA RacedStays ==
  ASSUME Inv, NEW w \in Workers, Work(w), NEW j \in Jobs, Raced(j)
  PROVE  Raced(j)'
  <1>1. TypeInv /\ results \subseteq results'
    BY WorkFrame DEF Inv
  <1>2. CASE \E v \in Workers : worker[v].pc = "pack" /\ worker[v].job # j
    <2>1. PICK v \in Workers : worker[v].pc = "pack" /\ worker[v].job # j
      BY <1>2
    <2>2. CASE v # w
      <3>1. worker'[v] = worker[v]
        BY <2>2, WorkFrame
      <3> QED
        BY <2>1, <3>1 DEF Raced
    <2>3. CASE v = w
      <3>1. Running(w)
        BY <1>1, <2>1, <2>3, WorkerTyped
      <3>2. Pack(w)
        <4>1. ~Take(w)
          BY <3>1, Takes
        <4> QED
          BY <2>1, <2>3, <4>1 DEF Work, Analyze, Save, Clear, LookForFailedDir,
                                  MakeFailedDir
      <3>3. PICK c \in {0, 1} :
              /\ c = 0 <=> Clear(w)
              /\ results' = results \cup
                   {[job |-> worker[w].job, code |-> c, skipped |-> FALSE,
                     reanalyzed |-> worker[w].reanalyzed,
                     rev |-> rev[worker[w].job.action]]}
        BY <3>2, Ends DEF Finishes
      <3>4. c = 1
        BY <2>1, <2>3, <3>3 DEF Clear
      <3>5. PICK q \in results' :
              q = [job |-> worker[w].job, code |-> c, skipped |-> FALSE,
                   reanalyzed |-> worker[w].reanalyzed,
                   rev |-> rev[worker[w].job.action]]
        BY <3>3
      <3>6. Failed(q) /\ q.job = worker[w].job
        BY <3>4, <3>5 DEF Failed
      <3>7. PlainFile(q.job) \in zips'
        BY <3>2, <3>6 DEF Pack
      <3>8. PlainFile(q.job)' = PlainFile(q.job)
        BY WorkFrame DEF PlainFile, code
      <3>9. Failed(q)'
        BY <3>6 DEF Failed
      <3> QED
        BY <2>1, <2>3, <3>6, <3>7, <3>8, <3>9 DEF Raced
    <2> QED
      BY <2>2, <2>3
  <1>3. CASE \E q \in results : /\ Failed(q) /\ q.job # j
                                /\ Sole(q.job) => PlainFile(q.job) \in zips
    <2>1. PICK q \in results : /\ Failed(q) /\ q.job # j
                               /\ Sole(q.job) => PlainFile(q.job) \in zips
      BY <1>3
    <2>2. q.job \in Jobs /\ ~q.skipped
      BY <1>1, <2>1, ResultTyped DEF Failed
    <2>3. PICK k \in Jobs : k = q.job
      BY <2>2
    <2>4. Sole(k)' => PlainFile(k) \in zips'
      BY <2>1, <2>2, <2>3, SoleShrinks, ZipStays
    <2>5. PlainFile(k)' = PlainFile(k) /\ Failed(q)'
      BY <2>1, FilesStay DEF Failed
    <2>6. q \in results' /\ q.job = k /\ k # j
      BY <1>1, <2>1, <2>3
    <2>7. (Sole(k) => PlainFile(k) \in zips)'
      BY <2>4, <2>5
    <2> QED
      BY <2>5, <2>6, <2>7 DEF Raced, Failed
  <1> QED
    BY <1>2, <1>3 DEF Raced

LEMMA WorkOutcomes ==
  ASSUME Inv, NEW w \in Workers, Work(w), NEW r \in results'
  PROVE  OutcomeOf(r)'
  <1>1. TypeInv /\ TypeInv' /\ pc = "pool" /\ JobsApart
    BY WorkTyped, WorkFrame DEF Inv
  <1>2. r.job \in Jobs /\ ~(Succeeded(r) /\ Failed(r))
    <2>1. r \in Outcomes
      BY <1>1 DEF TypeInv
    <2> QED
      BY <2>1 DEF Outcomes, Succeeded, Failed
  <1>3. PICK j \in Jobs : j = r.job
    BY <1>2
  <1>4. /\ PlainFile(j)' = PlainFile(j) /\ ResultFile(j)' = ResultFile(j)
        /\ PlainFile(j) \in Files /\ ResultFile(j) \in Files
    BY <1>1, FilesStay, FilesTyped
  <1>5. OutcomeOf(r)' <=>
          /\ r.reanalyzed => Exists(ResultFile(j))'
          /\ Succeeded(r) => /\ Sole(j)' => There(j, ResultOf(r))'
                             /\ IsNew(j)'
                             /\ Sole(j)' => PlainFile(j) \notin zips'
          /\ (Failed(r) /\ Sole(j)' /\ PlainFile(j) \notin zips') => Raced(j)'
    BY <1>3, <1>4 DEF OutcomeOf, Succeeded, Failed, There, ResultOf, Sole, Raced,
                      IsNew, Exists
  <1>6. Exists(ResultFile(j)) => Exists(ResultFile(j))'
    BY <1>4, PlistGoes DEF Exists
  <1>7. CASE r \in results
    <2>1. Live
      BY <1>1 DEF Live
    <2>2. OutcomeOf(r)
      BY <1>7, <2>1 DEF Inv
    <2>3. Running(w) => j # worker[w].job
      BY <1>1, <1>3, <1>7 DEF JobsApart
    <2>4. ASSUME Succeeded(r)
          PROVE  /\ Sole(j)' => There(j, ResultOf(r))'
                 /\ IsNew(j)'
                 /\ Sole(j)' => PlainFile(j) \notin zips'
      <3>1. ~r.skipped /\ IsNew(j)
        BY <1>3, <2>2, <2>4 DEF Succeeded, OutcomeOf
      <3>2. IsNew(j)'
        BY <3>1, NewStays
      <3>3. ASSUME Sole(j)'
            PROVE  There(j, ResultOf(r))' /\ PlainFile(j) \notin zips'
        <4>1. Sole(j)
          BY <3>3, SoleShrinks
        <4>2. There(j, ResultOf(r)) /\ PlainFile(j) \notin zips
          BY <1>3, <2>2, <2>4, <4>1 DEF OutcomeOf
        <4>3. PICK x : x = ResultOf(r)
          OBVIOUS
        <4>4. There(j, x)'
          BY <2>3, <3>3, <4>2, <4>3, ThereStays
        <4>5. PlainFile(j) \notin zips'
          BY <1>3, <1>7, <3>1, <3>3, <4>2, ZipStays
        <4> QED
          BY <4>3, <4>4, <4>5 DEF There, ResultOf
      <3> QED
        BY <3>2, <3>3
    <2>5. ASSUME Failed(r), Sole(j)', PlainFile(j) \notin zips'
          PROVE  Raced(j)'
      <3>1. Sole(j) /\ PlainFile(j) \notin zips
        BY <1>3, <1>7, <2>5, SoleShrinks, ZipStays DEF Failed
      <3>2. Raced(j)
        BY <1>3, <2>2, <2>5, <3>1 DEF OutcomeOf
      <3> QED
        BY <3>2, RacedStays
    <2>6. r.reanalyzed => Exists(ResultFile(j))
      BY <1>3, <2>2 DEF OutcomeOf
    <2> QED
      BY <1>5, <1>6, <2>4, <2>5, <2>6
  <1>8. CASE r \notin results /\ Take(w)
    <2>1. r.skipped /\ ~r.reanalyzed
      BY <1>8, Returned, Takes
    <2> QED
      BY <1>5, <2>1 DEF Succeeded, Failed
  <1>9. CASE r \notin results /\ ~Take(w)
    <2>1. /\ Running(w) /\ j = worker[w].job /\ ~r.skipped
          /\ r.reanalyzed = worker[w].reanalyzed /\ r.rev = rev[j.action]
          /\ \/ Clear(w) /\ r.code = 0
             \/ (Pack(w) \/ (MakeFailedDir(w) /\ failedDir)) /\ r.code = 1
      BY <1>3, <1>9, Returned
    <2>2. WorkOf(w)
      BY DEF Inv
    <2>3. r.reanalyzed => Exists(ResultFile(j))
      BY <2>1, <2>2 DEF WorkOf
    <2>4. CASE Clear(w) /\ r.code = 0
      <3>1. Written(w) /\ plist' = plist
        BY <2>4 DEF Clear, Written
      <3>2. IsNew(j)'
        BY <2>1, <2>2, <3>1, NewStays DEF WorkOf
      <3>3. PlainFile(j) \notin zips'
        BY <2>1, <2>4 DEF Clear
      <3>4. ASSUME Sole(j)'
            PROVE  There(j, ResultOf(r))'
        <4>1. There(j, Results(j))
          BY <2>1, <2>2, <3>1, <3>4, SoleShrinks DEF WorkOf
        <4>2. ResultOf(r) = Results(j)
          BY <1>3, <2>1 DEF ResultOf, Results
        <4> QED
          BY <1>4, <3>1, <4>1, <4>2 DEF There, ResultOf
      <3> QED
        BY <1>5, <1>6, <2>3, <2>4, <3>2, <3>3, <3>4 DEF Failed
    <2>5. CASE Pack(w) /\ r.code = 1
      <3>1. PlainFile(j) \in zips'
        BY <2>1, <2>5 DEF Pack
      <3> QED
        BY <1>5, <1>6, <2>3, <2>5, <3>1 DEF Succeeded
    <2>6. CASE MakeFailedDir(w) /\ failedDir /\ r.code = 1
      <3>1. Raced(j)
        BY <2>1, <2>2, <2>6 DEF WorkOf, MakeFailedDir
      <3>2. Raced(j)'
        BY <3>1, RacedStays
      <3> QED
        BY <1>5, <1>6, <2>3, <2>6, <3>2 DEF Succeeded
    <2> QED
      BY <2>1, <2>4, <2>5, <2>6
  <1> QED
    BY <1>7, <1>8, <1>9

LEMMA WorkOther ==
  ASSUME Inv, NEW w \in Workers, Work(w), NEW v \in Workers, v # w
  PROVE  WorkOf(v)'
  <1>1. TypeInv /\ JobsApart /\ WorkOf(v) /\ worker'[v] = worker[v]
    BY WorkFrame DEF Inv
  <1>2. Running(v)' = Running(v) /\ Written(v)' = Written(v)
    BY <1>1 DEF Running, Written
  <1>3. CASE ~Running(v)
    <2>1. worker[v].pc = "idle"
      BY <1>1, <1>3, WorkerTyped
    <2> QED
      BY <1>1, <1>2, <1>3, <2>1 DEF WorkOf, Written
  <1>4. CASE Running(v)
    <2>1. worker[v].job \in Jobs
      BY <1>1, <1>4, WorkerTyped
    <2>2. PICK j \in Jobs : j = worker[v].job
      BY <2>1
    <2>3. /\ PlainFile(j)' = PlainFile(j) /\ ResultFile(j)' = ResultFile(j)
          /\ Results(j)' = Results(j) /\ ResultFile(j) \in Files
      BY <1>1, FilesStay, FilesTyped
    <2>4. Running(w) => j # worker[w].job
      BY <1>1, <1>4, <2>2 DEF JobsApart
    <2>5. Exists(ResultFile(j)) => Exists(ResultFile(j))'
      BY <2>3, PlistGoes DEF Exists
    <2>6. ASSUME Written(v), Sole(j)'
          PROVE  There(j, Results(j))'
      <3>1. There(j, Results(j))
        BY <1>1, <2>2, <2>6, SoleShrinks DEF WorkOf
      <3>2. PICK x : x = Results(j)
        OBVIOUS
      <3>3. There(j, x)'
        BY <2>4, <2>6, <3>1, <3>2, ThereStays
      <3> QED
        BY <2>3, <3>2, <3>3 DEF There
    <2>7. Written(v) => IsNew(j)'
      BY <1>1, <2>2, NewStays DEF WorkOf
    <2>8. ASSUME worker[v].pc = "mkdir", failedDir'
          PROVE  Raced(j)'
      <3>1. CASE failedDir
        <4>1. Raced(j)
          BY <1>1, <2>2, <2>8, <3>1 DEF WorkOf
        <4> QED
          BY <4>1, RacedStays
      <3>2. CASE ~failedDir
        <4>1. MakeFailedDir(w)
          BY <2>8, <3>2 DEF Work, Take, Analyze, Save, Clear, LookForFailedDir,
                            Pack, disk
        <4>2. ~Take(w) /\ ~Finishes(w) /\ ~Analyze(w) /\ ~Save(w)
              /\ ~LookForFailedDir(w)
          BY <3>2, <4>1 DEF MakeFailedDir, Take, Finishes, Clear, Pack, Idle,
                            Analyze, Save, LookForFailedDir
        <4>3. PICK p \in {"save", "fail", "clear", "pack", "mkdir"} :
                /\ worker'[w] = [pc |-> p, job |-> worker[w].job,
                                 reanalyzed |-> worker[w].reanalyzed]
                /\ p \in {"save", "fail"} => Analyze(w)
                /\ p = "clear" => Save(w)
                /\ p = "mkdir" => LookForFailedDir(w)
          BY <4>2, GoesOn
        <4>4. worker'[w].pc = "pack" /\ worker'[w].job = worker[w].job
          BY <4>2, <4>3
        <4>5. Running(w)
          BY <4>2, BusyIs
        <4> QED
          BY <2>4, <4>4, <4>5 DEF Raced
      <3> QED
        BY <3>1, <3>2
    <2>9. /\ (Running(v) /\ worker[v].reanalyzed) => Exists(ResultFile(j))'
          /\ Written(v) => /\ Sole(j)' => There(j, Results(j))'
                           /\ IsNew(j)'
          /\ (worker[v].pc = "mkdir" /\ failedDir') => Raced(j)'
      BY <1>1, <2>2, <2>5, <2>6, <2>7, <2>8 DEF WorkOf
    <2>10. worker'[v].job = j
      BY <1>1, <2>2
    <2>11. Exists(ResultFile(worker[v].job))' <=> Exists(ResultFile(j))'
      BY <2>10 DEF Exists, ResultFile
    <2>12. Sole(worker[v].job)' <=> Sole(j)'
      BY <2>10 DEF Sole, PlainFile
    <2>13. IsNew(worker[v].job)' <=> IsNew(j)'
      BY <2>10 DEF IsNew, PlainFile, Doubled
    <2>14. There(worker[v].job, Results(worker[v].job))' <=> There(j, Results(j))'
      BY <2>10 DEF There, Results, PlainFile, ResultFile
    <2>15. Raced(worker[v].job)' <=> Raced(j)'
      BY <2>10 DEF Raced
    <2> QED
      BY <1>1, <1>2, <2>9, <2>11, <2>12, <2>13, <2>14, <2>15 DEF WorkOf
  <1> QED
    BY <1>3, <1>4

LEMMA WorkSelf ==
  ASSUME Inv, NEW w \in Workers, Work(w)
  PROVE  WorkOf(w)'
  <1>1. TypeInv /\ TypeInv' /\ WorkOf(w) /\ EscapedHasPlain
    BY WorkTyped DEF Inv
  <1>2. CASE Take(w)
    <2>1. PICK j \in queue :
             \/ worker' = worker
             \/ worker'[w] = [pc |-> "run", job |-> j,
                              reanalyzed |-> Exists(ResultFile(j))]
      BY <1>2, Takes
    <2>2. UNCHANGED <<name, plist>> /\ ~Running(w)
      BY <1>2, Takes DEF Take, code, disk
    <2>3. CASE worker' = worker
      <3>1. ~Running(w)' /\ worker'[w].pc = "idle"
        BY <1>1, <2>2, <2>3, WorkerTyped DEF Running
      <3> QED
        BY <3>1 DEF WorkOf, Written
    <2>4. CASE worker'[w] = [pc |-> "run", job |-> j,
                             reanalyzed |-> Exists(ResultFile(j))]
      <3>1. worker'[w].pc = "run" /\ worker'[w].job = j
            /\ worker'[w].reanalyzed = Exists(ResultFile(j))
        BY <2>4
      <3>2. Exists(ResultFile(worker[w].job))' <=> Exists(ResultFile(j))
        BY <2>2, <3>1 DEF Exists, ResultFile
      <3> QED
        BY <3>1, <3>2 DEF WorkOf, Written
    <2> QED
      BY <2>1, <2>3, <2>4
  <1>3. CASE Finishes(w)
    <2>1. worker'[w] = Idle
      BY <1>3, Ends
    <2>2. ~Running(w)' /\ worker'[w].pc = "idle"
      BY <2>1 DEF Running, Idle
    <2> QED
      BY <2>2 DEF WorkOf, Written
  <1>4. CASE ~Take(w) /\ ~Finishes(w)
    <2>1. PICK p \in {"save", "fail", "clear", "pack", "mkdir"} :
            /\ worker'[w] = [pc |-> p, job |-> worker[w].job,
                             reanalyzed |-> worker[w].reanalyzed]
            /\ p \in {"save", "fail"} => Analyze(w)
            /\ p = "clear" => Save(w)
            /\ p = "mkdir" => LookForFailedDir(w) /\ ~failedDir
      BY <1>4, GoesOn
    <2>2. Running(w) /\ worker[w].job \in Jobs
      BY <1>4, BusyIs
    <2>3. PICK j \in Jobs : j = worker[w].job /\ j = worker'[w].job
      BY <2>1, <2>2
    <2>4. /\ PlainFile(j)' = PlainFile(j) /\ ResultFile(j)' = ResultFile(j)
          /\ Results(j)' = Results(j) /\ ResultFile(j) \in Files
      BY <1>1, FilesStay, FilesTyped
    <2>5. worker'[w].reanalyzed => Exists(ResultFile(j))'
      <3>1. worker'[w].reanalyzed => Exists(ResultFile(j))
        BY <1>1, <2>1, <2>2, <2>3 DEF WorkOf
      <3> QED
        BY <2>4, <3>1, PlistGoes DEF Exists
    <2>6. ASSUME Written(w)'
          PROVE  IsNew(j)' /\ (Sole(j)' => There(j, Results(j))')
      <3>1. IsNew(j)'
        <4>1. CASE Written(w)
          BY <1>1, <2>3, <4>1, NewStays DEF WorkOf
        <4>2. CASE ~Written(w)
          BY <2>2, <2>3, <2>6, <4>2, NewStays
        <4> QED
          BY <4>1, <4>2
      <3>2. ASSUME Sole(j)'
            PROVE  There(j, Results(j))'
        <4>1. p = "clear" \/ (p = "save" /\ j.analyzer \notin Converters)
          BY <2>1, <2>3, <2>6 DEF Written
        <4>2. CASE p = "save" /\ j.analyzer \notin Converters
          <5>1. worker'[w].pc = "save" /\ Analyze(w)
            BY <2>1, <4>2
          <5>2. plist'[PlainFile(j)] = Results(j)
            BY <2>3, <4>2, <5>1, Analyzed
          <5> QED
            BY <2>4, <5>2 DEF There
        <4>3. CASE p = "clear" /\ j.analyzer \in Converters
          <5>1. Results(j) \in {plist'[PlainFile(j)], plist'[ResultFile(j)]}
            BY <2>1, <2>3, <4>3, Saved
          <5> QED
            BY <2>4, <5>1 DEF There
        <4>4. CASE p = "clear" /\ j.analyzer \notin Converters
          <5>1. Save(w) /\ plist' = plist
            BY <2>1, <2>3, <4>4, Saved
          <5>2. Written(w)
            BY <2>3, <4>4, <5>1 DEF Save, Written
          <5>3. There(j, Results(j))
            BY <1>1, <2>3, <3>2, <5>2, SoleShrinks DEF WorkOf
          <5> QED
            BY <2>4, <5>1, <5>3 DEF There
        <4> QED
          BY <4>1, <4>2, <4>3, <4>4
      <3> QED
        BY <3>1, <3>2
    <2>7. ~(worker'[w].pc = "mkdir" /\ failedDir')
      <3>1. p = "mkdir" => ~failedDir'
        BY <2>1 DEF LookForFailedDir, disk
      <3> QED
        BY <2>1, <3>1
    <2>8. worker'[w].job = j
      BY <2>3
    <2>9. Exists(ResultFile(worker[w].job))' <=> Exists(ResultFile(j))'
      BY <2>8 DEF Exists, ResultFile
    <2>10. Sole(worker[w].job)' <=> Sole(j)'
      BY <2>8 DEF Sole, PlainFile
    <2>11. IsNew(worker[w].job)' <=> IsNew(j)'
      BY <2>8 DEF IsNew, PlainFile, Doubled
    <2>12. There(worker[w].job, Results(worker[w].job))' <=> There(j, Results(j))'
      BY <2>8 DEF There, Results, PlainFile, ResultFile
    <2> QED
      BY <2>5, <2>6, <2>7, <2>9, <2>10, <2>11, <2>12 DEF WorkOf
  <1> QED
    BY <1>2, <1>3, <1>4

LEMMA WorkInv ==
  ASSUME Inv, NEW w \in Workers, Work(w)
  PROVE  Inv'
  <1>1. \A v \in Workers : WorkOf(v)'
    BY WorkOther, WorkSelf
  <1>2. \A r \in results' : OutcomeOf(r)'
    BY WorkOutcomes
  <1>3. TypeInv' /\ AtRest' /\ JobsApart' /\ NamesFit' /\ EscapedHasPlain'
        /\ MdKeeps' /\ TempRemoved' /\ CountsRight'
    BY WorkTyped, WorkApart, WorkFiles, WorkKeeps
  <1> QED
    BY <1>1, <1>2, <1>3 DEF Inv
-----------------------------------------------------------------------------
(* Steps of the main process and of the developer.                         *)

LEMMA Quiet ==
  ASSUME Inv, UNCHANGED <<name, plist, zips, failedDir, queue, worker, results>>,
         rev' = rev \/ pc # "pool",
         pc' = pc \/ \A w \in Workers : worker[w] = Idle,
         pc' = pc \/ queue = {},
         Live' => Live
  PROVE  /\ AtRest' /\ JobsApart' /\ EscapedHasPlain'
         /\ \A r \in results' : Live' => OutcomeOf(r)'
         /\ \A w \in Workers : WorkOf(w)'
  <1>1. TypeInv /\ AtRest /\ JobsApart /\ EscapedHasPlain
    BY DEF Inv
  <1>2. AtRest' /\ JobsApart' /\ EscapedHasPlain'
    BY <1>1 DEF AtRest, JobsApart, EscapedHasPlain, Running, Exists
  <1>3. \A w \in Workers : Written(w)' = Written(w) /\ Running(w)' = Running(w)
    BY DEF Written, Running
  <1>4. FromNow' = FromNow
    <2>1. CASE rev' = rev
      BY <2>1 DEF FromNow, ResultOf, Results, Written
    <2>2. CASE pc # "pool"
      <3>1. \A w \in Workers : worker[w].pc = "idle"
        BY <1>1, <2>2, WorkerTyped DEF AtRest
      <3>2. {v \in Workers : Written(v)} = {} /\ {v \in Workers : Written(v)}' = {}
        BY <3>1 DEF Written
      <3>3. FromNow = {ResultOf(r) : r \in results}
        BY <3>2 DEF FromNow
      <3>4. FromNow' = {ResultOf(r) : r \in results}
        BY <3>2 DEF FromNow, ResultOf
      <3> QED
        BY <3>3, <3>4
    <2> QED
      BY <2>1, <2>2
  <1>5. ASSUME NEW j
        PROVE  /\ PlainFile(j)' = PlainFile(j) /\ ResultFile(j)' = ResultFile(j)
               /\ Exists(ResultFile(j))' = Exists(ResultFile(j))
               /\ Sole(j)' = Sole(j) /\ IsNew(j)' = IsNew(j)
               /\ \A x : There(j, x)' = There(j, x)
    <2>1. PlainFile(j)' = PlainFile(j) /\ ResultFile(j)' = ResultFile(j)
      BY DEF PlainFile, ResultFile
    <2>2. Sole(j)' = Sole(j)
      BY DEF Sole, PlainFile, Running
    <2>3. IsNew(j)' = IsNew(j)
      BY <1>4, <2>1 DEF IsNew, Doubled
    <2> QED
      BY <2>1, <2>2, <2>3 DEF Exists, There
  <1>6. ASSUME NEW j
        PROVE  Raced(j)' = Raced(j)
    <2>1. \A q \in results : (Sole(q.job) => PlainFile(q.job) \in zips)'
                               = (Sole(q.job) => PlainFile(q.job) \in zips)
      BY DEF Sole, PlainFile, Running
    <2>2. Raced(j)' <=>
            \/ \E w \in Workers : worker[w].pc = "pack" /\ worker[w].job # j
            \/ \E q \in results : /\ Failed(q) /\ q.job # j
                                  /\ (Sole(q.job) => PlainFile(q.job) \in zips)'
      BY DEF Raced, Failed
    <2>3. Raced(j)' <=> Raced(j)
      BY <2>1, <2>2 DEF Raced
    <2> QED
      BY <2>3 DEF Raced
  <1>7. ASSUME NEW r \in results', Live'
        PROVE  OutcomeOf(r)'
    <2>1. OutcomeOf(r)
      BY <1>7 DEF Inv
    <2>2. PICK j \in Jobs : j = r.job
      BY <1>1, <1>7, ResultTyped
    <2>3. PICK x : x = ResultOf(r)
      OBVIOUS
    <2>4. /\ r.reanalyzed => Exists(ResultFile(j))
          /\ Succeeded(r) => /\ Sole(j) => There(j, x)
                             /\ IsNew(j)
                             /\ Sole(j) => PlainFile(j) \notin zips
          /\ Failed(r) /\ Sole(j) /\ PlainFile(j) \notin zips => Raced(j)
      BY <2>1, <2>2, <2>3 DEF OutcomeOf
    <2>5. /\ r.reanalyzed => Exists(ResultFile(j))'
          /\ Succeeded(r) => /\ Sole(j)' => There(j, x)'
                             /\ IsNew(j)'
                             /\ Sole(j)' => PlainFile(j)' \notin zips'
          /\ (Failed(r) /\ Sole(j)' /\ PlainFile(j)' \notin zips') => Raced(j)'
      BY <1>5, <1>6, <2>4
    <2> QED
      BY <2>2, <2>3, <2>5 DEF OutcomeOf, Succeeded, Failed, ResultOf
  <1>8. ASSUME NEW w \in Workers
        PROVE  WorkOf(w)'
    <2>1. CASE ~Running(w)
      <3>1. worker[w].pc = "idle"
        BY <1>1, <2>1, WorkerTyped
      <3> QED
        BY <1>3, <2>1, <3>1 DEF WorkOf, Written
    <2>2. CASE Running(w)
      <3>1. rev' = rev
        BY <1>1, <2>2 DEF AtRest
      <3>2. PICK j : j = worker[w].job
        OBVIOUS
      <3>3. Results(j)' = Results(j) /\ worker'[w] = worker[w]
        BY <3>1 DEF Results
      <3>4. /\ (Running(w) /\ worker[w].reanalyzed) => Exists(ResultFile(j))'
            /\ Written(w) => /\ Sole(j)' => There(j, Results(j))'
                             /\ IsNew(j)'
            /\ (worker[w].pc = "mkdir" /\ failedDir) => Raced(j)'
        <4>1. WorkOf(w)
          BY DEF Inv
        <4>2. There(j, Results(j))' = There(j, Results(j))
          BY <1>5, <3>3 DEF There
        <4> QED
          BY <1>5, <1>6, <3>2, <4>1, <4>2 DEF WorkOf
      <3>5. worker'[w].job = j
        BY <3>2, <3>3
      <3>6. Exists(ResultFile(worker[w].job))' <=> Exists(ResultFile(j))'
        BY <3>5 DEF Exists, ResultFile
      <3>7. Sole(worker[w].job)' <=> Sole(j)'
        BY <3>5 DEF Sole, PlainFile
      <3>8. IsNew(worker[w].job)' <=> IsNew(j)'
        BY <3>5 DEF IsNew, PlainFile, Doubled
      <3>9. There(worker[w].job, Results(worker[w].job))' <=> There(j, Results(j))'
        BY <3>5 DEF There, Results, PlainFile, ResultFile
      <3>10. Raced(worker[w].job)' <=> Raced(j)'
        BY <3>5 DEF Raced
      <3> QED
        BY <1>3, <3>3, <3>4, <3>6, <3>7, <3>8, <3>9, <3>10 DEF WorkOf
    <2> QED
      BY <2>1, <2>2
  <1> QED
    BY <1>2, <1>7, <1>8

(* No results and no workers: nothing is promised.                         *)
LEMMA Wiped ==
  ASSUME queue' \subseteq Jobs, pc' = "pool" \/ queue' = {}, results' = {},
         \A w \in Workers : worker'[w] = Idle
  PROVE  /\ AtRest' /\ JobsApart'
         /\ \A r \in results' : Live' => OutcomeOf(r)'
         /\ \A w \in Workers : WorkOf(w)'
         /\ Cardinality(FailedAnew') = 0
  <1>1. \A w \in Workers : worker'[w].pc = "idle" /\ ~Running(w)' /\ ~Written(w)'
    BY DEF Idle, Running, Written
  <1>2. \A w \in Workers : WorkOf(w)'
    BY <1>1 DEF WorkOf
  <1>3. AtRest' /\ JobsApart'
    BY <1>1 DEF AtRest, JobsApart
  <1>4. FailedAnew' = {}
    BY DEF FailedAnew
  <1>5. Cardinality(FailedAnew') = 0
    BY <1>4, FS_EmptySet
  <1> QED
    BY <1>2, <1>3, <1>5

LEMMA Emptied ==
  ASSUME EmptyDir
  PROVE  /\ plist' \in [Files -> {None} \cup Reports]
         /\ source' \in [Files -> {None} \cup Actions]
         /\ zips' \subseteq Files /\ failedDir' \in BOOLEAN /\ meta' \in Metas
         /\ EscapedHasPlain'
         /\ \A f \in Files : /\ plist'[f] = None /\ source'[f] = None
                             /\ meta'.files[f] = None
  <1>1. /\ plist' \in [Files -> {None} \cup Reports]
        /\ source' \in [Files -> {None} \cup Actions]
        /\ zips' \subseteq Files /\ failedDir' \in BOOLEAN /\ meta' \in Metas
        /\ \A f \in Files : /\ plist'[f] = None /\ source'[f] = None
                            /\ meta'.files[f] = None
    BY Values DEF EmptyDir
  <1>2. EscapedHasPlain'
    BY <1>1 DEF EscapedHasPlain, Exists, Files
  <1> QED
    BY <1>1, <1>2

LEMMA EditInv ==
  ASSUME Inv, NEW a \in Actions, Edit(a)
  PROVE  Inv'
  <1>1. TypeInv /\ pc = "idle"
    BY DEF Inv, Edit
  <1>2. UNCHANGED <<name, disk, main, queue, worker, results>>
    BY DEF Edit
  <1>3. /\ rev' \in [Actions -> 0..MaxRev] /\ broken' \subseteq Actions
    BY <1>1, AnalysisAssumption DEF Edit, TypeInv
  <1>4. TypeInv'
    BY <1>1, <1>2, <1>3 DEF TypeInv, disk, main
  <1>5. NamesFit' /\ MdKeeps' /\ TempRemoved' /\ CountsRight'
    BY <1>2 DEF Inv, NamesFit, MdKeeps, TempRemoved, CountsRight, FailedAnew,
                Failed, disk, main
  <1>6. /\ AtRest' /\ JobsApart' /\ EscapedHasPlain'
        /\ \A r \in results' : Live' => OutcomeOf(r)'
        /\ \A w \in Workers : WorkOf(w)'
    <2>1. Live' = Live
      BY <1>2 DEF Live, main
    <2> QED
      BY <1>1, <1>2, <2>1, Quiet DEF disk, main
  <1> QED
    BY <1>4, <1>5, <1>6 DEF Inv

LEMMA BeginInv ==
  ASSUME Inv, NEW m \in {"analyze", "check", "temp"}, NEW clean \in BOOLEAN,
         Begin(m, clean), pc' \in {"pool", "dump"},
         queue' \subseteq Jobs, pc' = "pool" \/ queue' = {},
         skips' \subseteq Actions
  PROVE  Inv'
  <1>1. TypeInv /\ AtRest /\ NamesFit /\ EscapedHasPlain /\ pc = "idle"
    BY DEF Inv, Begin
  <1>2. UNCHANGED <<code, worker>> /\ results' = {} /\ mode' = m
        /\ count' = count + 1 /\ count < MaxAnalyses
    BY DEF Begin
  <1>3. \A w \in Workers : worker'[w] = Idle
    BY <1>1, <1>2 DEF AtRest, Running
  <1>4. /\ AtRest' /\ JobsApart'
        /\ \A r \in results' : Live' => OutcomeOf(r)'
        /\ \A w \in Workers : WorkOf(w)'
        /\ Cardinality(FailedAnew') = 0
    BY <1>2, <1>3, Wiped
  <1>5. md' = [state |-> "whole", files |-> IF clean THEN NoFile ELSE meta.files,
               failed |-> 0, reanalyzed |-> 0]
    BY DEF Begin
  <1>6. /\ plist' \in [Files -> {None} \cup Reports]
        /\ source' \in [Files -> {None} \cup Actions]
        /\ zips' \subseteq Files /\ failedDir' \in BOOLEAN /\ meta' \in Metas
        /\ EscapedHasPlain'
        /\ \A f \in Files : /\ plist'[f] \in {plist[f], None}
                            /\ source'[f] \in {source[f], None}
                            /\ meta'.files[f] \in {md'.files[f], None}
                            /\ md'.files[f] \in {meta.files[f], None}
    <2>1. CASE clean
      <3>1. EmptyDir
        BY <2>1 DEF Begin
      <3>2. \A f \in Files : md'.files[f] = None
        BY <1>5, <2>1, Values
      <3> QED
        BY <3>1, <3>2, Emptied
    <2>2. CASE ~clean
      <3>1. UNCHANGED disk
        BY <2>2 DEF Begin
      <3>2. EscapedHasPlain'
        BY <1>1, <3>1 DEF EscapedHasPlain, Exists, disk
      <3>3. md'.files = meta.files
        BY <1>5, <2>2
      <3> QED
        BY <1>1, <3>1, <3>2, <3>3 DEF TypeInv, disk
    <2> QED
      BY <2>1, <2>2
  <1>7. md' \in Metas
    <2>1. meta.files \in [Files -> {None} \cup Actions]
      BY <1>1 DEF TypeInv, Metas
    <2> QED
      BY <1>5, <2>1, Values DEF Metas
  <1>8. TypeInv'
    <2>1. results' \subseteq Outcomes /\ IsFiniteSet(results')
      BY <1>2, FS_EmptySet
    <2>2. count' \in 0..MaxAnalyses
      BY <1>1, <1>2, AnalysisAssumption DEF TypeInv
    <2> QED
      BY <1>1, <1>2, <1>6, <1>7, <2>1, <2>2 DEF TypeInv, code
  <1>9. NamesFit'
    BY <1>1, <1>2, <1>6 DEF NamesFit, code
  <1>10. MdKeeps' /\ TempRemoved' /\ CountsRight'
    <2>1. MdKeeps'
      BY <1>6 DEF MdKeeps
    <2>2. md'.failed = 0
      BY <1>5
    <2> QED
      BY <1>4, <2>1, <2>2 DEF TempRemoved, CountsRight
  <1> QED
    BY <1>4, <1>6, <1>8, <1>9, <1>10 DEF Inv

LEMMA CommandInv ==
  ASSUME Inv, Command
  PROVE  Inv'
  <1>1. PICK m \in {"analyze", "check", "temp"}, clean \in BOOLEAN :
          \/ \E log \in (SUBSET Actions) \ {{}}, analyzers \in (SUBSET Analyzers) \ {{}} :
               \E unseen \in SUBSET log : Start(m, clean, log, analyzers, unseen)
          \/ Refuse(m, clean)
    BY DEF Command
  <1>2. CASE Refuse(m, clean)
    <2>1. Begin(m, clean) /\ pc' = "dump" /\ UNCHANGED <<queue, skips>>
      BY <1>2 DEF Refuse
    <2>2. queue = {} /\ skips \subseteq Actions
      BY <2>1 DEF Begin, Inv, AtRest, TypeInv
    <2> QED
      BY <2>1, <2>2, BeginInv
  <1>3. ASSUME NEW log \in (SUBSET Actions) \ {{}},
               NEW analyzers \in (SUBSET Analyzers) \ {{}},
               NEW unseen \in SUBSET log, Start(m, clean, log, analyzers, unseen)
        PROVE  Inv'
    <2>1. Begin(m, clean) /\ pc' = "pool"
      BY <1>3 DEF Start
    <2>2. queue' \subseteq Jobs /\ skips' \subseteq Actions
      BY <1>3 DEF Start, PrepareActions, Jobs
    <2> QED
      BY <2>1, <2>2, BeginInv
  <1> QED
    BY <1>1, <1>2, <1>3

LEMMA MetasTyped ==
  ASSUME TypeInv
  PROVE  /\ md.files \in [Files -> {None} \cup Actions]
         /\ meta.files \in [Files -> {None} \cup Actions]
         /\ md.state \in {"absent", "torn", "whole"}
         /\ md.failed \in Nat /\ md.reanalyzed \in Nat
  BY DEF TypeInv, Metas

LEMMA AllDoneInv ==
  ASSUME Inv, AllDone
  PROVE  Inv'
  <1>1. TypeInv /\ NamesFit /\ MdKeeps /\ pc = "pool" /\ pc' = "gather"
        /\ queue = {} /\ \A w \in Workers : worker[w] = Idle
    BY DEF Inv, AllDone
  <1>2. UNCHANGED <<code, disk, mode, skips, count, queue, worker, results>>
    BY DEF AllDone
  <1>3. PICK F, G : /\ F = {r \in results : Failed(r) /\ ~r.reanalyzed}
                    /\ G = {r \in results : ~r.skipped /\ r.reanalyzed}
    OBVIOUS
  <1>4. Cardinality(F) \in Nat /\ Cardinality(G) \in Nat
    <2>1. IsFiniteSet(results) /\ F \subseteq results /\ G \subseteq results
      BY <1>1, <1>3 DEF TypeInv
    <2> QED
      BY <2>1, FS_Subset, FS_CardinalityType
  <1>5. md' = [state |-> md.state, files |-> md.files, failed |-> Cardinality(F),
               reanalyzed |-> Cardinality(G)]
    BY <1>3 DEF AllDone
  <1>6. md' \in Metas /\ md'.files = md.files /\ md'.failed = Cardinality(F)
    BY <1>1, <1>4, <1>5, MetasTyped DEF Metas
  <1>7. TypeInv'
    BY <1>1, <1>2, <1>6 DEF TypeInv, code, disk
  <1>8. FailedAnew' = F
    BY <1>2, <1>3 DEF FailedAnew, Failed
  <1>9. NamesFit' /\ MdKeeps' /\ TempRemoved' /\ CountsRight'
    BY <1>1, <1>2, <1>6, <1>8 DEF NamesFit, MdKeeps, TempRemoved, CountsRight,
                                  code, disk
  <1>10. /\ AtRest' /\ JobsApart' /\ EscapedHasPlain'
         /\ \A r \in results' : Live' => OutcomeOf(r)'
         /\ \A w \in Workers : WorkOf(w)'
    <2>1. Live
      BY <1>1 DEF Live
    <2> QED
      BY <1>1, <1>2, <2>1, Quiet DEF code, disk
  <1> QED
    BY <1>7, <1>9, <1>10 DEF Inv

(* The steps after the pool, which leave the results alone.                *)
LEMMA Afterwards ==
  ASSUME Inv, UNCHANGED <<code, plist, zips, failedDir, queue, worker, results>>,
         pc # "pool", pc' # "pool", Live' => Live,
         UNCHANGED <<count>>,
         source' \in [Files -> {None} \cup Actions], meta' \in Metas, md' \in Metas,
         mode' = mode, skips' \subseteq Actions,
         pc' \in {"idle", "gather", "dump", "write", "print"},
         \A f \in Files :
           /\ source'[f] # None => name[source'[f]] = f[1]
           /\ md'.files[f] # None => name[md'.files[f]] = f[1]
           /\ meta'.files[f] # None => name[meta'.files[f]] = f[1],
         MdKeeps', TempRemoved', CountsRight'
  PROVE  Inv'
  <1>1. TypeInv /\ AtRest /\ NamesFit
    BY DEF Inv
  <1>2. queue = {} /\ \A w \in Workers : worker[w] = Idle
    BY <1>1 DEF AtRest, Running
  <1>3. /\ AtRest' /\ JobsApart' /\ EscapedHasPlain'
        /\ \A r \in results' : Live' => OutcomeOf(r)'
        /\ \A w \in Workers : WorkOf(w)'
    BY <1>2, Quiet DEF code
  <1>4. TypeInv'
    BY <1>1 DEF TypeInv, code
  <1>5. NamesFit'
    BY <1>1 DEF NamesFit, code
  <1> QED
    BY <1>3, <1>4, <1>5 DEF Inv

LEMMA GatherInv ==
  ASSUME Inv, Gather
  PROVE  Inv'
  <1>1. TypeInv /\ NamesFit /\ MdKeeps /\ pc = "gather" /\ pc' = "gather"
        /\ mode' = mode /\ meta' = meta /\ skips' = skips
    BY DEF Inv, Gather
  <1>2. UNCHANGED <<code, plist, zips, failedDir, queue, worker, results, count>>
    BY DEF Gather
  <1>3. PICK f \in Files :
          /\ source[f] # None
          /\ md' = [md EXCEPT !.files[f] = source[f]]
          /\ source' = [source EXCEPT ![f] = None]
    BY DEF Gather
  <1>4. md \in Metas /\ source \in [Files -> {None} \cup Actions]
    BY <1>1 DEF TypeInv
  <1>5. /\ md' \in Metas /\ source' \in [Files -> {None} \cup Actions]
        /\ md'.failed = md.failed
        /\ md'.files[f] = source[f]
        /\ \A g \in Files : g # f => md'.files[g] = md.files[g]
        /\ \A g \in Files : source'[g] \in {None, source[g]}
    BY <1>3, <1>4 DEF Metas
  <1>6. MdKeeps'
    BY <1>1, <1>3, <1>5 DEF MdKeeps
  <1>7. TempRemoved' /\ CountsRight'
    BY <1>1, <1>2, <1>5 DEF TempRemoved, CountsRight, FailedAnew, Failed, Inv
  <1>8. \A g \in Files :
           /\ source'[g] # None => name[source'[g]] = g[1]
           /\ md'.files[g] # None => name[md'.files[g]] = g[1]
           /\ meta'.files[g] # None => name[meta'.files[g]] = g[1]
    BY <1>1, <1>3, <1>5 DEF NamesFit
  <1>9. Live /\ skips' \subseteq Actions /\ meta' \in Metas
    BY <1>1 DEF Live, TypeInv
  <1> QED
    BY <1>1, <1>2, <1>5, <1>6, <1>7, <1>8, <1>9, Afterwards

LEMMA GatheredInv ==
  ASSUME Inv, Gathered
  PROVE  Inv'
  <1>1. TypeInv /\ NamesFit /\ MdKeeps /\ pc = "gather" /\ pc' = "dump"
    BY DEF Inv, Gathered
  <1>2. UNCHANGED <<code, disk, mode, md, skips, count, queue, worker, results>>
    BY DEF Gathered
  <1>3. MdKeeps' /\ TempRemoved' /\ CountsRight'
    BY <1>1, <1>2 DEF MdKeeps, TempRemoved, CountsRight, FailedAnew, Failed, Inv,
                      disk
  <1>4. /\ Live /\ source' \in [Files -> {None} \cup Actions]
        /\ meta' \in Metas /\ md' \in Metas /\ skips' \subseteq Actions
        /\ \A g \in Files :
             /\ source'[g] # None => name[source'[g]] = g[1]
             /\ md'.files[g] # None => name[md'.files[g]] = g[1]
             /\ meta'.files[g] # None => name[meta'.files[g]] = g[1]
    BY <1>1, <1>2 DEF Live, TypeInv, NamesFit, disk
  <1> QED
    BY <1>1, <1>2, <1>3, <1>4, Afterwards DEF disk

LEMMA TruncateInv ==
  ASSUME Inv, Truncate
  PROVE  Inv'
  <1>1. TypeInv /\ NamesFit /\ MdKeeps /\ pc = "dump" /\ pc' = "write"
        /\ meta' = Metadata("torn")
    BY DEF Inv, Truncate
  <1>2. UNCHANGED <<code, plist, source, zips, failedDir, mode, md, skips, count,
                    queue, worker, results>>
    BY DEF Truncate
  <1>3. meta' \in Metas /\ \A f \in Files : meta'.files[f] = None
    BY <1>1, Values
  <1>4. MdKeeps' /\ TempRemoved' /\ CountsRight'
    BY <1>1, <1>2, <1>3 DEF MdKeeps, TempRemoved, CountsRight, FailedAnew, Failed,
                            Inv
  <1>5. /\ Live /\ source' \in [Files -> {None} \cup Actions]
        /\ md' \in Metas /\ skips' \subseteq Actions
        /\ \A g \in Files :
             /\ source'[g] # None => name[source'[g]] = g[1]
             /\ md'.files[g] # None => name[md'.files[g]] = g[1]
             /\ meta'.files[g] # None => name[meta'.files[g]] = g[1]
    BY <1>1, <1>2, <1>3 DEF Live, TypeInv, NamesFit
  <1> QED
    BY <1>1, <1>2, <1>3, <1>4, <1>5, Afterwards

LEMMA DumpInv ==
  ASSUME Inv, Dump
  PROVE  Inv'
  <1>1. TypeInv /\ NamesFit /\ pc = "write" /\ meta' = md
        /\ \/ /\ mode = "analyze" /\ pc' = "idle" /\ md' = NoMetadata
              /\ skips' = {}
           \/ mode # "analyze" /\ pc' = "print" /\ md' = md /\ skips' = skips
    BY DEF Inv, Dump, Exit
  <1>2. UNCHANGED <<code, plist, source, zips, failedDir, mode, count, queue,
                    worker, results>>
    BY DEF Dump
  <1>3. md.failed = Cardinality(FailedAnew)
    BY <1>1 DEF Inv, CountsRight
  <1>4. FailedAnew' = FailedAnew
    BY <1>2 DEF FailedAnew, Failed
  <1>5. MdKeeps' /\ TempRemoved' /\ CountsRight'
    BY <1>1, <1>2, <1>3, <1>4 DEF MdKeeps, TempRemoved, CountsRight
  <1>6. /\ Live /\ source' \in [Files -> {None} \cup Actions]
        /\ meta' \in Metas /\ md' \in Metas /\ skips' \subseteq Actions
    BY <1>1, <1>2, Values DEF Live, TypeInv
  <1>7. \A g \in Files :
             /\ source'[g] # None => name[source'[g]] = g[1]
             /\ md'.files[g] # None => name[md'.files[g]] = g[1]
             /\ meta'.files[g] # None => name[meta'.files[g]] = g[1]
    BY <1>1, <1>2, Values DEF NamesFit
  <1> QED
    BY <1>1, <1>2, <1>5, <1>6, <1>7, Afterwards

LEMMA PrintInv ==
  ASSUME Inv, PrintResults
  PROVE  Inv'
  <1>1. TypeInv /\ NamesFit /\ AtRest /\ pc = "print" /\ pc' = "idle"
        /\ md' = NoMetadata /\ skips' = {}
    BY DEF Inv, PrintResults, Exit
  <1>2. UNCHANGED <<code, mode, count, queue, worker, results>>
    BY DEF PrintResults
  <1>3. FailedAnew' = FailedAnew
    BY <1>2 DEF FailedAnew, Failed
  <1>4. CASE mode # "temp"
    <2>1. UNCHANGED disk
      BY <1>4 DEF PrintResults
    <2>2. MdKeeps' /\ TempRemoved' /\ CountsRight'
      BY <1>1, <1>2, <1>3, <1>4, <2>1
      DEF MdKeeps, TempRemoved, CountsRight, Inv, disk
    <2>3. /\ Live /\ source' \in [Files -> {None} \cup Actions]
          /\ meta' \in Metas /\ md' \in Metas /\ skips' \subseteq Actions
      BY <1>1, <1>2, <2>1, Values DEF Live, TypeInv, disk
    <2>4. \A g \in Files :
               /\ source'[g] # None => name[source'[g]] = g[1]
               /\ md'.files[g] # None => name[md'.files[g]] = g[1]
               /\ meta'.files[g] # None => name[meta'.files[g]] = g[1]
      BY <1>1, <1>2, <2>1, Values DEF NamesFit, disk
    <2> QED
      BY <1>1, <1>2, <2>1, <2>2, <2>3, <2>4, Afterwards DEF disk
  <1>5. CASE mode = "temp"
    <2>1. EmptyDir /\ ~Live'
      BY <1>1, <1>2, <1>5 DEF PrintResults, Live
    <2>2. \A w \in Workers : worker'[w] = Idle /\ queue' = {}
      BY <1>1, <1>2 DEF AtRest, Running
    <2>3. queue' = {}
      BY <1>1, <1>2 DEF AtRest
    <2>4. \A w \in Workers :
            worker'[w].pc = "idle" /\ ~Running(w)' /\ ~Written(w)'
      BY <2>2 DEF Idle, Running, Written
    <2>5. AtRest' /\ JobsApart' /\ \A w \in Workers : WorkOf(w)'
      BY <2>3, <2>4 DEF AtRest, JobsApart, WorkOf
    <2>6. MdKeeps' /\ TempRemoved' /\ CountsRight'
      BY <1>1, <1>2, <1>5, <2>1
      DEF MdKeeps, TempRemoved, CountsRight, EmptyDir
    <2>7. TypeInv'
      BY <1>1, <1>2, <2>1, Emptied, Values DEF TypeInv, code
    <2>8. NamesFit'
      BY <1>1, <1>2, <2>1, Emptied, Values DEF NamesFit
    <2>9. EscapedHasPlain'
      BY <2>1, Emptied
    <2> QED
      BY <2>1, <2>5, <2>6, <2>7, <2>8, <2>9 DEF Inv
  <1> QED
    BY <1>4, <1>5

LEMMA StopInv ==
  ASSUME Inv, Interrupt \/ Kill
  PROVE  Inv'
  <1>1. TypeInv /\ NamesFit /\ EscapedHasPlain /\ pc # "idle" /\ pc' = "idle"
        /\ md' = NoMetadata /\ skips' = {} /\ queue' = {} /\ results' = {}
        /\ UNCHANGED <<code, count>>
    BY DEF Inv, Interrupt, Kill, AllStop, Exit
  <1>2. worker' = [w \in Workers |-> Idle]
    BY DEF Interrupt, Kill, AllStop
  <1>3. /\ AtRest' /\ JobsApart'
        /\ \A r \in results' : Live' => OutcomeOf(r)'
        /\ \A w \in Workers : WorkOf(w)'
        /\ Cardinality(FailedAnew') = 0
    BY <1>1, <1>2, Wiped
  <1>4. /\ mode' = mode \/ mode' = "killed"
        /\ \/ EmptyDir
           \/ UNCHANGED disk /\ mode' # "temp"
    BY DEF Interrupt, Kill
  <1>5. /\ plist' \in [Files -> {None} \cup Reports]
        /\ source' \in [Files -> {None} \cup Actions]
        /\ zips' \subseteq Files /\ failedDir' \in BOOLEAN /\ meta' \in Metas
        /\ EscapedHasPlain'
        /\ \A f \in Files : /\ plist'[f] \in {plist[f], None}
                            /\ source'[f] \in {source[f], None}
                            /\ meta'.files[f] \in {meta.files[f], None}
    <2>1. CASE EmptyDir
      BY <2>1, Emptied
    <2>2. CASE UNCHANGED disk
      <3>1. EscapedHasPlain'
        BY <1>1, <2>2 DEF EscapedHasPlain, Exists, disk
      <3> QED
        BY <1>1, <2>2, <3>1 DEF TypeInv, disk
    <2> QED
      BY <1>4, <2>1, <2>2
  <1>6. TypeInv'
    <2>1. results' \subseteq Outcomes /\ IsFiniteSet(results')
      BY <1>1, FS_EmptySet
    <2>2. mode' \in {"analyze", "check", "temp", "killed"}
      BY <1>1, <1>4 DEF TypeInv
    <2>3. worker' \in [Workers -> {Idle} \cup Busy]
      BY <1>2
    <2> QED
      BY <1>1, <1>5, <2>1, <2>2, <2>3, Values DEF TypeInv, code
  <1>7. NamesFit'
    BY <1>1, <1>5, Values DEF NamesFit, code
  <1>8. MdKeeps' /\ TempRemoved' /\ CountsRight'
    BY <1>1, <1>4 DEF MdKeeps, TempRemoved, CountsRight, EmptyDir
  <1> QED
    BY <1>3, <1>5, <1>6, <1>7, <1>8 DEF Inv

-----------------------------------------------------------------------------
(* The invariant.                                                          *)

LEMMA InvInit ==
  ASSUME Init
  PROVE  Inv
  <1>1. worker = [w \in Workers |-> Idle] /\ queue = {} /\ results = {}
        /\ pc = "idle" /\ mode = "analyze"
    BY DEF Init
  <1>2. \A w \in Workers : worker[w].pc = "idle" /\ ~Running(w) /\ ~Written(w)
    BY <1>1 DEF Idle, Running, Written
  <1>3. AtRest /\ JobsApart /\ \A w \in Workers : WorkOf(w)
    BY <1>1, <1>2 DEF AtRest, JobsApart, WorkOf
  <1>4. /\ meta = NoMetadata /\ md = NoMetadata
        /\ plist = NoFile /\ source = NoFile
        /\ \A f \in Files : plist[f] = None /\ source[f] = None
                            /\ meta.files[f] = None /\ md.files[f] = None
    BY Values DEF Init
  <1>5. NamesFit /\ EscapedHasPlain /\ MdKeeps /\ TempRemoved /\ CountsRight
    BY <1>1, <1>4 DEF NamesFit, EscapedHasPlain, MdKeeps, TempRemoved,
                      CountsRight, Exists, Files
  <1>6. TypeInv
    <2>1. results \subseteq Outcomes /\ IsFiniteSet(results)
      BY <1>1, FS_EmptySet
    <2>2. /\ rev \in [Actions -> 0..MaxRev] /\ count \in 0..MaxAnalyses
      BY AnalysisAssumption DEF Init
    <2> QED
      BY <1>1, <1>4, <2>1, <2>2, Values DEF Init, TypeInv
  <1> QED
    BY <1>1, <1>3, <1>5, <1>6 DEF Inv

LEMMA InvNext ==
  ASSUME Inv, [Next]_vars
  PROVE  Inv'
  <1>1. ASSUME NEW a \in Actions, Edit(a)
        PROVE  Inv'
    BY <1>1, EditInv
  <1>2. CASE Command
    BY <1>2, CommandInv
  <1>3. CASE MainStep
    BY <1>3, AllDoneInv, GatherInv, GatheredInv, TruncateInv, DumpInv, PrintInv
    DEF MainStep
  <1>4. ASSUME NEW w \in Workers, Work(w)
        PROVE  Inv'
    BY <1>4, WorkInv
  <1>5. CASE Interrupt \/ Kill
    BY <1>5, StopInv
  <1>6. CASE UNCHANGED vars
    <2>1. UNCHANGED <<name, rev, broken, plist, source, zips, failedDir, meta, mode,
                      pc, md, skips, count, queue, worker, results>>
      BY <1>6 DEF vars, code, disk, main
    <2>2. /\ AtRest' /\ JobsApart' /\ EscapedHasPlain'
          /\ \A r \in results' : Live' => OutcomeOf(r)'
          /\ \A w \in Workers : WorkOf(w)'
      BY <2>1, Quiet DEF Live
    <2>3. TypeInv' /\ NamesFit' /\ MdKeeps' /\ TempRemoved' /\ CountsRight'
      BY <2>1 DEF Inv, TypeInv, NamesFit, MdKeeps, TempRemoved, CountsRight,
                  FailedAnew, Failed
    <2> QED
      BY <2>2, <2>3 DEF Inv
  <1> QED
    BY <1>1, <1>2, <1>3, <1>4, <1>5, <1>6 DEF Next

THEOREM Invariance == Spec => []Inv
  BY InvInit, InvNext, PTL DEF Spec

-----------------------------------------------------------------------------
(* The properties.                                                         *)

LEMMA AloneIsSole ==
  ASSUME Inv, pc = "idle", NEW r \in results, Alone(r)
  PROVE  Sole(r.job)
  <1>1. TypeInv /\ \A w \in Workers : ~Running(w)
    BY DEF Inv, AtRest
  <1>2. ASSUME NEW q \in results, ~q.skipped,
               PlainFile(q.job) = PlainFile(r.job)
        PROVE  q.job = r.job
    <2>1. q.job \in Jobs /\ r.job \in Jobs
      BY <1>1, ResultTyped
    <2>2. /\ name[q.job.action] = name[r.job.action]
          /\ q.job.analyzer = r.job.analyzer
      BY <1>1, <1>2, <2>1, FilesApart
    <2> QED
      BY <1>2, <2>2 DEF Alone
  <1> QED
    BY <1>1, <1>2 DEF Sole

LEMMA ResultsAreRightInv ==
  ASSUME Inv
  PROVE  ResultsAreRight
  <1> SUFFICES ASSUME Complete
               PROVE  ResultsAreRight
    BY DEF ResultsAreRight, ResultsThere, StaleForAReason, SilentFailureIsStale
  <1>1. /\ TypeInv /\ AtRest /\ CountsRight /\ pc = "idle" /\ results # {}
        /\ mode # "temp" /\ \A w \in Workers : worker[w] = Idle
        /\ \A r \in results : OutcomeOf(r)
    BY DEF Inv, Complete, Live, AtRest, Running
  <1>2. ResultsThere
    <2> SUFFICES ASSUME NEW r \in results, Succeeded(r), Alone(r)
                 PROVE  ResultOf(r) \in {plist[PlainFile(r.job)],
                                         plist[ResultFile(r.job)]}
      BY DEF ResultsThere
    <2>1. Sole(r.job)
      BY <1>1, AloneIsSole
    <2> QED
      BY <1>1, <2>1 DEF OutcomeOf, There
  <1>3. FromNow = {ResultOf(r) : r \in results}
    <2>1. \A w \in Workers : ~Written(w)
      BY <1>1 DEF Written, Idle
    <2> QED
      BY <2>1 DEF FromNow
  <1>4. StaleForAReason
    <2> SUFFICES ASSUME NEW f \in Files, ~Doubled(f),
                        NEW r \in results, PlainFile(r.job) = f, Succeeded(r)
                 PROVE  plist[f] \in {ResultOf(q) : q \in results}
      BY DEF StaleForAReason
    <2>1. IsNew(r.job)
      BY <1>1 DEF OutcomeOf
    <2> QED
      BY <1>3, <2>1 DEF IsNew
  <1>5. SilentFailureIsStale
    <2> SUFFICES ASSUME meta.failed = 0, NEW r \in results, Failed(r)
                 PROVE  Exists(ResultFile(r.job))
      BY DEF SilentFailureIsStale
    <2>1. Cardinality(FailedAnew) = 0
      BY <1>1 DEF CountsRight
    <2>2. IsFiniteSet(FailedAnew)
      <3>1. IsFiniteSet(results) /\ FailedAnew \subseteq results
        BY <1>1 DEF TypeInv, FailedAnew
      <3> QED
        BY <3>1, FS_Subset
    <2>3. FailedAnew = {}
      BY <2>1, <2>2, FS_EmptySet
    <2>4. r.reanalyzed
      BY <2>3 DEF FailedAnew
    <2> QED
      BY <1>1, <2>4 DEF OutcomeOf
  <1> QED
    BY <1>2, <1>4, <1>5 DEF ResultsAreRight

LEMMA DirectoryAgreesInv ==
  ASSUME Inv
  PROVE  DirectoryAgrees
  <1>1. TypeInv /\ NamesFit /\ TempRemoved
    BY DEF Inv
  <1>2. TypeOK
    <2>1. \A w \in Workers : worker[w].pc \in
            {"idle", "run", "save", "clear", "fail", "mkdir", "pack"}
      BY <1>1 DEF TypeInv, Busy, Idle
    <2>2. \A r \in results : r.job \in Jobs
      BY <1>1, ResultTyped
    <2> QED
      BY <1>1, <2>1, <2>2 DEF TypeOK, TypeInv, Metas, Reports
  <1>3. ZipIffFailed
    <2> SUFFICES ASSUME Complete, NEW r \in results, Alone(r)
                 PROVE  /\ Succeeded(r) => PlainFile(r.job) \notin zips
                        /\ Failed(r) /\ PlainFile(r.job) \notin zips =>
                             \E q \in results :
                                /\ q # r /\ Failed(q)
                                /\ Alone(q) => PlainFile(q.job) \in zips
      BY DEF ZipIffFailed
    <2>1. /\ pc = "idle" /\ OutcomeOf(r) /\ \A w \in Workers : worker[w].pc = "idle"
      BY DEF Inv, Complete, Live, AtRest, Running, Idle
    <2>2. Sole(r.job)
      BY <2>1, AloneIsSole
    <2>3. ASSUME Failed(r), PlainFile(r.job) \notin zips
          PROVE  \E q \in results : /\ q # r /\ Failed(q)
                                    /\ Alone(q) => PlainFile(q.job) \in zips
      <3>1. Raced(r.job)
        BY <2>1, <2>2, <2>3 DEF OutcomeOf
      <3>2. PICK q \in results : /\ Failed(q) /\ q.job # r.job
                                 /\ Sole(q.job) => PlainFile(q.job) \in zips
        BY <2>1, <3>1 DEF Raced
      <3>3. Alone(q) => PlainFile(q.job) \in zips
        BY <2>1, <3>2, AloneIsSole
      <3> QED
        BY <3>2, <3>3
    <2> QED
      BY <2>1, <2>2, <2>3 DEF OutcomeOf
  <1>4. NamesAreRight
    <2> SUFFICES ASSUME NEW f \in Files, Exists(f), NameOf(f) # "UNKNOWN",
                        Cardinality({a \in Actions : name[a] = f[1]}) = 1
                 PROVE  NameOf(f) = plist[f].by
      BY DEF NamesAreRight
    <2>1. meta.files[f] # None /\ NameOf(f) = meta.files[f]
      BY DEF NameOf
    <2>2. /\ meta.files[f] \in Actions /\ name[meta.files[f]] = f[1]
          /\ plist[f].by \in Actions /\ name[plist[f].by] = f[1]
      BY <1>1, <2>1 DEF NamesFit, Exists, TypeInv, Metas, Reports
    <2>3. IsFiniteSet({a \in Actions : name[a] = f[1]})
      BY AnalysisAssumption, FS_Subset
    <2>4. PICK a : {b \in Actions : name[b] = f[1]} = {a}
      BY <2>3, FS_Singleton
    <2> QED
      BY <2>1, <2>2, <2>4
  <1> QED
    BY <1>1, <1>2, <1>3, <1>4 DEF DirectoryAgrees

(* For any numbers of compilations, analyzers, workers and analyses, after *)
(* a complete analysis the report directory has the results of every job   *)
(* that succeeded and holds its name alone, older results stay only where  *)
(* a job failed or a converted file was doubled, and a failure that the    *)
(* summary does not count has its old results still there (check,          *)
(* worker_result_handler).                                                 *)
THEOREM ResultsAreRightCorrect == Spec => []ResultsAreRight
  BY Invariance, ResultsAreRightInv, PTL

(* The zips tell the failed jobs but for the race for their directory, the *)
(* metadata names no wrong source, a temporary directory does not outlive  *)
(* its check (check, worker_result_handler, check.main).                   *)
THEOREM DirectoryAgreesCorrect == Spec => []DirectoryAgrees
  BY Invariance, DirectoryAgreesInv, PTL

NamesStayStep ==
  \A f \in Files : Named(f) /\ Exists(f) /\ Exists(f)' =>
    \/ Named(f)'
    \/ pc \in {"gather", "dump", "write"} /\ pc' = "idle"

LEMMA NamesStayNext ==
  ASSUME Inv, [Next]_vars
  PROVE  NamesStayStep
  <1> SUFFICES ASSUME NEW f \in Files, Named(f), Exists(f)',
                      ~(pc \in {"gather", "dump", "write"} /\ pc' = "idle")
               PROVE  Named(f)'
    BY DEF NamesStayStep
  <1>1. TypeInv /\ MdKeeps
    BY DEF Inv
  <1>2. CASE \E a \in Actions : Edit(a)
    BY <1>2 DEF Edit, Named, disk, main
  <1>3. CASE Command
    <2>1. PICK m \in {"analyze", "check", "temp"}, clean \in BOOLEAN :
            Begin(m, clean)
      BY <1>3 DEF Command, Start, Refuse
    <2>2. ~clean
      <3>1. clean => plist' = NoFile
        BY <2>1 DEF Begin, EmptyDir
      <3> QED
        BY <3>1, Values DEF Exists
    <2>3. UNCHANGED disk /\ pc = "idle"
      BY <2>1, <2>2 DEF Begin
    <2> QED
      BY <2>3 DEF Named, disk
  <1>4. CASE AllDone
    <2>1. md'.files = md.files
      BY <1>4 DEF AllDone
    <2> QED
      BY <1>4, <2>1 DEF AllDone, Named, disk
  <1>5. CASE Gather
    <2>1. PICK g \in Files :
            /\ source[g] # None
            /\ md' = [md EXCEPT !.files[g] = source[g]]
            /\ source' = [source EXCEPT ![g] = None]
      BY <1>5 DEF Gather
    <2>2. /\ md.files \in [Files -> {None} \cup Actions] /\ md \in Metas
          /\ source \in [Files -> {None} \cup Actions]
      BY <1>1, MetasTyped DEF TypeInv
    <2>3. /\ md'.files[g] = source[g]
          /\ \A h \in Files : h # g => md'.files[h] = md.files[h]
                                       /\ source'[h] = source[h]
      BY <2>1, <2>2 DEF Metas
    <2>4. pc = "gather" /\ pc' = "gather" /\ meta' = meta
      BY <1>5 DEF Gather
    <2> QED
      BY <2>1, <2>3, <2>4 DEF Named
  <1>6. CASE Gathered
    BY <1>6 DEF Gathered, Named, disk
  <1>7. CASE Truncate
    <2>1. pc = "dump" /\ pc' = "write" /\ md' = md /\ source' = source
      BY <1>7 DEF Truncate
    <2> QED
      BY <1>1, <2>1 DEF Named, MdKeeps
  <1>8. CASE Dump
    <2>1. pc = "write" /\ meta' = md /\ source' = source
      BY <1>8 DEF Dump
    <2> QED
      BY <1>1, <2>1 DEF Named, MdKeeps
  <1>9. CASE PrintResults
    <2>1. mode # "temp"
      <3>1. mode = "temp" => plist' = NoFile
        BY <1>9 DEF PrintResults, EmptyDir
      <3> QED
        BY <3>1, Values DEF Exists
    <2>2. UNCHANGED disk /\ pc = "print"
      BY <1>9, <2>1 DEF PrintResults
    <2> QED
      BY <2>2 DEF Named, disk
  <1>10. ASSUME NEW w \in Workers, Work(w)
         PROVE  Named(f)'
    <2>1. UNCHANGED <<pc, md, meta>>
      BY <1>10, WorkFrame DEF main
    <2>2. source[f] # None => source'[f] # None
      <3>1. CASE Save(w)
        <4>1. worker[w].job \in Jobs
          BY <1>1, <3>1, WorkerTyped DEF Save
        <4>2. PICK j \in Jobs : j = worker[w].job
          BY <4>1
        <4>3. PICK P \in Files, a \in Actions :
                P = PlainFile(j) /\ a = j.action /\ a # None
          BY <1>1, FilesTyped, Values
        <4>4. source' = [source EXCEPT ![P] = a]
          BY <3>1, <4>2, <4>3 DEF Save
        <4>5. source \in [Files -> {None} \cup Actions]
          BY <1>1 DEF TypeInv
        <4> QED
          BY <4>3, <4>4, <4>5
      <3>2. CASE ~Save(w)
        BY <1>10, <3>2 DEF Work, Take, Analyze, Clear, LookForFailedDir,
                           MakeFailedDir, Pack, disk
      <3> QED
        BY <3>1, <3>2
    <2> QED
      BY <2>1, <2>2 DEF Named
  <1>11. CASE Interrupt \/ Kill
    <2>1. UNCHANGED disk
      <3>1. EmptyDir => plist' = NoFile
        BY DEF EmptyDir
      <3>2. UNCHANGED disk \/ EmptyDir
        BY <1>11 DEF Interrupt, Kill
      <3> QED
        BY <3>1, <3>2, Values DEF Exists
    <2>2. pc' = "idle"
      BY <1>11 DEF Interrupt, Kill, AllStop, Exit
    <2> QED
      BY <2>1, <2>2 DEF Named, disk
  <1>12. CASE UNCHANGED vars
    BY <1>12 DEF Named, vars, disk, main
  <1> QED
    BY <1>2, <1>3, <1>4, <1>5, <1>6, <1>7, <1>8, <1>9, <1>10, <1>11, <1>12
    DEF Next, MainStep

(* The name of the source of any results, once there is one, stays as long *)
(* as the results, unless the process is stopped while the names are in    *)
(* its memory only (worker_result_handler).                                *)
THEOREM NamesStayCorrect == Spec => NamesStay
  <1>1. Inv /\ [Next]_vars => [NamesStayStep]_vars
    BY NamesStayNext
  <1>2. Spec => [][NamesStayStep]_vars
    BY <1>1, Invariance, PTL DEF Spec
  <1> QED
    BY <1>2 DEF NamesStay, NamesStayStep

-----------------------------------------------------------------------------
(***************************************************************************)
(* The collection of cross translation unit data.                          *)
(***************************************************************************)

Defined == UNION {d[SourceOf[u]] : d \in Builds, u \in Unit}
MapLine == Defined \X Sources
TempFile == [unit : Unit, arch : Archs, lines : SUBSET MapLine]

CtuTyped ==
  /\ phase \in {"idle", "collect", "merge", "ready", "stopped"}
  /\ job \in [Unit -> {"todo", "ast", "done"}]
  /\ asts \cup unwritten \subseteq Archs \X Sources
  /\ temp \subseteq TempFile
  /\ map \in [Archs -> (SUBSET MapLine) \cup {NoMap}]
  /\ folders \subseteq Archs
  /\ mapped \subseteq Archs \X Defined \X Sources
  /\ defines \in Builds

PoolFits == IsFiniteSet(AtWork) /\ Cardinality(AtWork) <= PoolSize

(* A compilation that has its AST, or has failed to write it, has a folder;*)
(* what it maps is mapped to that AST.                                     *)
AstsMade ==
  /\ \A u \in Unit : job[u] = "ast" => ArchOf[u] \in folders /\ Place(u) \in asts \cup unwritten
  /\ \A m \in mapped : <<m[1], m[3]>> \in asts \cup unwritten

(* Until its architecture is merged a temporary file stays, and together   *)
(* they hold what was found.                                               *)
Found(a) == {<<m[2], m[3]>> : m \in {x \in mapped : x[1] = a}}
TempsHold ==
  /\ \A t \in temp : t.arch \in folders /\ map[t.arch] = NoMap
  /\ \A a \in Archs : map[a] = NoMap => LinesOf(a) = Found(a)
  /\ phase \in {"idle", "collect"} => \A a \in Archs : map[a] = NoMap

CtuInv == CtuTyped /\ PoolFits /\ AstsMade /\ TempsHold /\ MapIsOfThisCollect /\ ReadyIsWhole

LEMMA SourcesOf ==
  ASSUME NEW u \in Unit
  PROVE  ArchOf[u] \in Archs /\ SourceOf[u] \in Sources /\ Place(u) \in Archs \X Sources
  BY DEF Archs, Sources, Place

(* Where a collection begins, and where its folder has been removed.       *)
LEMMA ClearedInv ==
  ASSUME defines' \in Builds, phase' \in {"idle", "collect"},
         job' \in [Unit -> {"todo", "done"}],
         asts' = {}, temp' = {}, folders' = {}, mapped' = {}, unwritten' = {},
         map' = [a \in Archs |-> NoMap]
  PROVE  CtuInv'
<1>1. CtuTyped'
  BY DEF CtuTyped
<1>2. PoolFits'
  <2>1. AtWork' = {}
    BY DEF AtWork
  <2> QED BY <2>1, FS_EmptySet, CtuAssumption DEF PoolFits
<1>3. AstsMade'
  BY DEF AstsMade
<1>4. TempsHold'
  <2>1. \A a \in Archs : LinesOf(a)' = {} /\ Found(a)' = {}
    BY DEF LinesOf, Found
  <2> QED BY <2>1 DEF TempsHold
<1>5. MapIsOfThisCollect' /\ ReadyIsWhole'
  BY DEF MapIsOfThisCollect, ReadyIsWhole
<1> QED BY <1>1, <1>2, <1>3, <1>4, <1>5 DEF CtuInv

LEMMA CtuInitInv == CtuInit => CtuInv
<1> SUFFICES ASSUME CtuInit PROVE CtuInv
  OBVIOUS
<1>1. CtuTyped
  BY DEF CtuInit, CtuTyped
<1>2. PoolFits
  <2>1. AtWork = {}
    BY DEF CtuInit, AtWork
  <2> QED BY <2>1, FS_EmptySet, CtuAssumption DEF PoolFits
<1>3. AstsMade
  BY DEF CtuInit, AstsMade
<1>4. TempsHold
  <2>1. \A a \in Archs : LinesOf(a) = {} /\ Found(a) = {}
    BY DEF CtuInit, LinesOf, Found
  <2> QED BY <2>1 DEF CtuInit, TempsHold
<1>5. MapIsOfThisCollect /\ ReadyIsWhole
  BY DEF CtuInit, MapIsOfThisCollect, ReadyIsWhole
<1> QED BY <1>1, <1>2, <1>3, <1>4, <1>5 DEF CtuInv

LEMMA BeginCollectInv ==
  ASSUME CtuInv, BeginCollect
  PROVE  CtuInv'
<1>1. job' \in [Unit -> {"todo", "done"}]
  BY DEF BeginCollect
<1> QED BY <1>1, ClearedInv DEF BeginCollect

LEMMA RemoveFolderInv ==
  ASSUME CtuInv, RemoveFolder
  PROVE  CtuInv'
<1>1. job' \in [Unit -> {"todo", "done"}] /\ defines' \in Builds
  BY DEF RemoveFolder, CtuInv, CtuTyped
<1> QED BY <1>1, ClearedInv DEF RemoveFolder

LEMMA GenerateAstInv ==
  ASSUME CtuInv, NEW u \in Unit, GenerateAst(u)
  PROVE  CtuInv'
<1>1. /\ phase = "collect" /\ job[u] = "todo" /\ Cardinality(AtWork) < PoolSize
      /\ job' = [job EXCEPT ![u] = "ast"] /\ folders' = folders \cup {ArchOf[u]}
      /\ UNCHANGED <<defines, skipped, phase, temp, map, mapped, collects>>
      /\ asts' \cup unwritten' = asts \cup unwritten \cup {Place(u)}
  BY DEF GenerateAst
<1>2. CtuTyped'
  BY <1>1, SourcesOf DEF CtuInv, CtuTyped
<1>3. PoolFits'
  <2>1. AtWork' = AtWork \cup {u} /\ u \notin AtWork
    BY <1>1 DEF AtWork, CtuInv, CtuTyped
  <2>2. IsFiniteSet(AtWork) /\ Cardinality(AtWork) \in Nat /\ PoolSize \in Nat
    BY FS_CardinalityType, CtuAssumption DEF CtuInv, PoolFits
  <2>3. IsFiniteSet(AtWork \cup {u}) /\ Cardinality(AtWork \cup {u}) = Cardinality(AtWork) + 1
    BY <2>1, <2>2, FS_AddElement
  <2> QED BY <1>1, <2>1, <2>2, <2>3 DEF PoolFits
<1>4. AstsMade'
  <2>1. \A v \in Unit : job'[v] = "ast" =>
          ArchOf[v] \in folders' /\ Place(v) \in asts' \cup unwritten'
    BY <1>1 DEF CtuInv, CtuTyped, AstsMade
  <2>2. \A m \in mapped : <<m[1], m[3]>> \in asts' \cup unwritten'
    BY <1>1 DEF CtuInv, AstsMade
  <2> QED BY <1>1, <2>1, <2>2 DEF AstsMade, Place
<1>5. TempsHold'
  BY <1>1 DEF CtuInv, TempsHold, LinesOf, Found
<1>6. MapIsOfThisCollect' /\ ReadyIsWhole'
  BY <1>1 DEF CtuInv, MapIsOfThisCollect, ReadyIsWhole
<1> QED BY <1>2, <1>3, <1>4, <1>5, <1>6 DEF CtuInv

LEMMA MapFunctionsInv ==
  ASSUME CtuInv, NEW u \in Unit, MapFunctions(u)
  PROVE  CtuInv'
<1>1. /\ phase = "collect" /\ job[u] = "ast" /\ job' = [job EXCEPT ![u] = "done"]
      /\ UNCHANGED <<defines, skipped, phase, asts, map, folders, unwritten, collects>>
  BY DEF MapFunctions
<1>2. PICK lines : lines = {<<f, SourceOf[u]>> : f \in defines[SourceOf[u]]}
  OBVIOUS
<1>3. \/ /\ temp' = IF lines = {} THEN temp
                    ELSE temp \cup {[unit |-> u, arch |-> ArchOf[u], lines |-> lines]}
         /\ mapped' = mapped \cup {<<ArchOf[u], l[1], l[2]>> : l \in lines}
      \/ temp' = temp /\ mapped' = mapped
  BY <1>2 DEF MapFunctions
<1>4. lines \subseteq MapLine /\ \A l \in lines : l[2] = SourceOf[u]
  <2>1. defines[SourceOf[u]] \subseteq Defined
    BY DEF CtuInv, CtuTyped, Defined
  <2> QED BY <1>2, <2>1, SourcesOf DEF MapLine
<1>5. CtuTyped'
  <2>1. [unit |-> u, arch |-> ArchOf[u], lines |-> lines] \in TempFile
    BY <1>4, SourcesOf DEF TempFile
  <2>2. \A l \in lines : <<ArchOf[u], l[1], l[2]>> \in Archs \X Defined \X Sources
    BY <1>4, SourcesOf DEF MapLine
  <2>3. temp' \subseteq TempFile /\ mapped' \subseteq Archs \X Defined \X Sources
    BY <1>3, <2>1, <2>2 DEF CtuInv, CtuTyped
  <2> QED BY <1>1, <2>3 DEF CtuInv, CtuTyped
<1>6. PoolFits'
  <2>1. AtWork' \subseteq AtWork
    BY <1>1 DEF AtWork, CtuInv, CtuTyped
  <2>2. IsFiniteSet(AtWork) /\ Cardinality(AtWork) \in Nat /\ PoolSize \in Nat
    BY FS_CardinalityType, CtuAssumption DEF CtuInv, PoolFits
  <2>3. IsFiniteSet(AtWork') /\ Cardinality(AtWork') <= Cardinality(AtWork)
    BY <2>1, <2>2, FS_Subset
  <2>4. Cardinality(AtWork') \in Nat
    BY <2>3, FS_CardinalityType
  <2> QED BY <2>2, <2>3, <2>4 DEF CtuInv, PoolFits
<1>7. AstsMade'
  <2>1. <<ArchOf[u], SourceOf[u]>> \in asts \cup unwritten /\ ArchOf[u] \in folders
    BY <1>1 DEF CtuInv, AstsMade, Place
  <2>2. ASSUME NEW m \in mapped' PROVE <<m[1], m[3]>> \in asts \cup unwritten
    <3>1. CASE m \in mapped
      BY <3>1 DEF CtuInv, AstsMade
    <3>2. CASE m \notin mapped
      BY <1>3, <1>4, <2>1, <3>2
    <3> QED BY <3>1, <3>2
  <2>3. \A v \in Unit : job'[v] = "ast" =>
          ArchOf[v] \in folders /\ Place(v) \in asts \cup unwritten
    BY <1>1 DEF CtuInv, CtuTyped, AstsMade
  <2> QED BY <1>1, <2>2, <2>3 DEF AstsMade, Place
<1>8. \A a \in Archs : map[a] = NoMap
  BY <1>1 DEF CtuInv, TempsHold
<1>9. TempsHold'
  <2>1. ArchOf[u] \in folders /\ ArchOf[u] \in Archs
    BY <1>1, SourcesOf DEF CtuInv, AstsMade
  <2>2. \A t \in temp' : t.arch \in folders /\ map[t.arch] = NoMap
    BY <1>3, <1>8, <2>1 DEF CtuInv, TempsHold
  <2>3. ASSUME NEW a \in Archs PROVE LinesOf(a)' = Found(a)'
    <3>1. LinesOf(a) = Found(a)
      BY <1>8 DEF CtuInv, TempsHold
    <3>2. CASE temp' = temp /\ mapped' = mapped
      BY <3>1, <3>2 DEF LinesOf, Found
    <3>3. CASE /\ temp' = IF lines = {} THEN temp
                          ELSE temp \cup {[unit |-> u, arch |-> ArchOf[u], lines |-> lines]}
               /\ mapped' = mapped \cup {<<ArchOf[u], l[1], l[2]>> : l \in lines}
      <4>1. PICK file : file = [unit |-> u, arch |-> ArchOf[u], lines |-> lines]
        OBVIOUS
      <4>2. file.arch = ArchOf[u] /\ file.lines = lines
        BY <4>1
      <4>3. ASSUME NEW l
            PROVE  l \in LinesOf(a)' <=> l \in LinesOf(a) \/ (l \in lines /\ a = ArchOf[u])
        <5>1. l \in LinesOf(a)' <=> \E t \in temp' : t.arch = a /\ l \in t.lines
          BY DEF LinesOf
        <5>2. l \in LinesOf(a) <=> \E t \in temp : t.arch = a /\ l \in t.lines
          BY DEF LinesOf
        <5>3. temp' = IF lines = {} THEN temp ELSE temp \cup {file}
          BY <3>3, <4>1
        <5> QED BY <4>2, <5>1, <5>2, <5>3
      <4>4. ASSUME NEW l
            PROVE  l \in Found(a)' <=> l \in Found(a) \/ (l \in lines /\ a = ArchOf[u])
        <5>1. l \in Found(a)' <=> \E y \in mapped' : y[1] = a /\ l = <<y[2], y[3]>>
          BY DEF Found
        <5>2. l \in Found(a) <=> \E y \in mapped : y[1] = a /\ l = <<y[2], y[3]>>
          BY DEF Found
        <5>3. \A k \in lines : k = <<k[1], k[2]>>
          BY <1>4 DEF MapLine
        <5>4. ASSUME l \in lines, a = ArchOf[u] PROVE l \in Found(a)'
          <6>1. <<ArchOf[u], l[1], l[2]>> \in mapped'
            BY <3>3, <5>4
          <6> QED BY <5>1, <5>3, <5>4, <6>1
        <5>5. ASSUME NEW y \in mapped', y[1] = a, l = <<y[2], y[3]>>, y \notin mapped
              PROVE  l \in lines /\ a = ArchOf[u]
          <6>1. PICK k \in lines : y = <<ArchOf[u], k[1], k[2]>>
            BY <3>3, <5>5
          <6> QED BY <5>3, <5>5, <6>1
        <5> QED BY <3>3, <5>1, <5>2, <5>4, <5>5
      <4>5. \A l : l \in LinesOf(a)' <=> l \in Found(a)'
        BY <3>1, <4>3, <4>4
      <4> QED BY <4>5 DEF LinesOf, Found
    <3> QED BY <1>3, <3>2, <3>3
  <2> QED BY <1>1, <1>8, <2>2, <2>3 DEF TempsHold
<1>10. MapIsOfThisCollect' /\ ReadyIsWhole'
  BY <1>1, <1>8 DEF MapIsOfThisCollect, ReadyIsWhole
<1> QED BY <1>5, <1>6, <1>7, <1>9, <1>10 DEF CtuInv

LEMMA MergeArchInv ==
  ASSUME CtuInv, NEW a \in Archs, MergeArch(a)
  PROVE  CtuInv'
<1>1. /\ phase = "merge" /\ a \in folders /\ map[a] = NoMap
      /\ map' = [map EXCEPT ![a] = GlobalMap(a)] /\ temp' = {t \in temp : t.arch # a}
      /\ UNCHANGED <<defines, skipped, phase, job, asts, folders, mapped, unwritten>>
  BY DEF MergeArch
<1>2. LinesOf(a) = Found(a) /\ GlobalMap(a) \subseteq LinesOf(a) /\ LinesOf(a) \subseteq MapLine
  <2>1. LinesOf(a) = Found(a)
    BY <1>1 DEF CtuInv, TempsHold
  <2>2. GlobalMap(a) \subseteq LinesOf(a)
    BY DEF GlobalMap
  <2>3. LinesOf(a) \subseteq MapLine
    BY DEF LinesOf, CtuInv, CtuTyped, TempFile
  <2> QED BY <2>1, <2>2, <2>3
<1>3. GlobalMap(a) # NoMap
  <2>1. NoMap \notin SUBSET MapLine
    BY CtuAssumption DEF MapLine, Defined, Sources
  <2> QED BY <1>2, <2>1
<1>4. /\ map' \in [Archs -> (SUBSET MapLine) \cup {NoMap}]
      /\ map'[a] = GlobalMap(a) /\ \A b \in Archs \ {a} : map'[b] = map[b]
  BY <1>1, <1>2 DEF CtuInv, CtuTyped
<1>5. CtuTyped'
  BY <1>1, <1>4 DEF CtuInv, CtuTyped
<1>6. PoolFits' /\ AstsMade'
  BY <1>1 DEF CtuInv, PoolFits, AtWork, AstsMade, Place
<1>7. TempsHold'
  <2>1. \A t \in temp' : t.arch \in folders /\ map'[t.arch] = NoMap
    <3>1. \A t \in temp' : t \in temp /\ t.arch # a /\ t.arch \in Archs
      BY <1>1 DEF CtuInv, CtuTyped, TempFile
    <3> QED BY <1>4, <3>1 DEF CtuInv, TempsHold
  <2>2. ASSUME NEW b \in Archs, map'[b] = NoMap PROVE LinesOf(b)' = Found(b)'
    <3>1. b # a /\ map[b] = NoMap
      BY <1>3, <1>4, <2>2
    <3>2. LinesOf(b)' = LinesOf(b) /\ Found(b)' = Found(b)
      BY <1>1, <3>1 DEF LinesOf, Found
    <3> QED BY <3>1, <3>2 DEF CtuInv, TempsHold
  <2> QED BY <1>1, <2>1, <2>2 DEF TempsHold
<1>8. MapIsOfThisCollect'
  <2> SUFFICES ASSUME NEW b \in Archs, map'[b] # NoMap
               PROVE  map'[b] = {<<m[2], m[3]>> : m \in
                        {x \in mapped : x[1] = b /\ \A y \in mapped :
                           y[1] = b /\ y[2] = x[2] => y[3] = x[3]}}
    BY <1>1 DEF MapIsOfThisCollect
  <2>1. CASE b # a
    BY <1>4, <2>1 DEF CtuInv, MapIsOfThisCollect
  <2>2. CASE b = a
    <3>1. ASSUME NEW l
          PROVE  l \in GlobalMap(a) <=>
                   \E x \in mapped : /\ x[1] = a /\ l = <<x[2], x[3]>>
                                     /\ \A y \in mapped :
                                          y[1] = a /\ y[2] = x[2] => y[3] = x[3]
      <4>1. l \in GlobalMap(a) <=>
              l \in Found(a) /\ \A k \in Found(a) : k[1] = l[1] => k[2] = l[2]
        BY <1>2 DEF GlobalMap
      <4>2. \A k : k \in Found(a) <=> \E y \in mapped : y[1] = a /\ k = <<y[2], y[3]>>
        BY DEF Found
      <4>3. ASSUME NEW x \in mapped, x[1] = a, l = <<x[2], x[3]>>
            PROVE  (\A k \in Found(a) : k[1] = l[1] => k[2] = l[2]) <=>
                     \A y \in mapped : y[1] = a /\ y[2] = x[2] => y[3] = x[3]
        <5>1. l[1] = x[2] /\ l[2] = x[3]
          BY <4>3
        <5>2. ASSUME NEW y \in mapped, y[1] = a, y[2] = x[2],
                     \A k \in Found(a) : k[1] = l[1] => k[2] = l[2]
              PROVE  y[3] = x[3]
          <6>1. <<y[2], y[3]>> \in Found(a)
            BY <4>2, <5>2
          <6> QED BY <5>1, <5>2, <6>1
        <5>3. ASSUME NEW k \in Found(a), k[1] = l[1],
                     \A y \in mapped : y[1] = a /\ y[2] = x[2] => y[3] = x[3]
              PROVE  k[2] = l[2]
          <6>1. PICK y \in mapped : y[1] = a /\ k = <<y[2], y[3]>>
            BY <4>2
          <6> QED BY <5>1, <5>3, <6>1
        <5> QED BY <5>2, <5>3
      <4> QED BY <4>1, <4>2, <4>3
    <3> QED BY <1>4, <2>2, <3>1
  <2> QED BY <2>1, <2>2
<1>9. ReadyIsWhole'
  BY <1>1 DEF ReadyIsWhole
<1> QED BY <1>5, <1>6, <1>7, <1>8, <1>9 DEF CtuInv

(* The steps that only change the phase.                                   *)
LEMMA PhaseInv ==
  ASSUME CtuInv, phase' \in {"merge", "ready", "stopped"},
         UNCHANGED <<defines, skipped, job, asts, temp, map, folders, mapped, unwritten>>,
         phase' = "ready" => \A a \in folders : map[a] # NoMap
  PROVE  CtuInv'
<1>1. CtuTyped' /\ PoolFits' /\ AstsMade' /\ MapIsOfThisCollect'
  BY DEF CtuInv, CtuTyped, PoolFits, AtWork, AstsMade, Place, MapIsOfThisCollect
<1>2. TempsHold'
  <2>1. \A a \in Archs : LinesOf(a)' = LinesOf(a) /\ Found(a)' = Found(a)
    BY DEF LinesOf, Found
  <2> QED BY <2>1 DEF CtuInv, TempsHold
<1>3. ReadyIsWhole'
  BY DEF CtuInv, TempsHold, ReadyIsWhole
<1> QED BY <1>1, <1>2, <1>3 DEF CtuInv

LEMMA CtuNextInv == CtuInv /\ [CtuNext]_ctuVars => CtuInv'
<1> SUFFICES ASSUME CtuInv, [CtuNext]_ctuVars PROVE CtuInv'
  OBVIOUS
<1>1. CASE BeginCollect
  BY <1>1, BeginCollectInv
<1>2. CASE BeginMerge
  BY <1>2, PhaseInv DEF BeginMerge
<1>3. CASE EndMerge
  BY <1>3, PhaseInv DEF EndMerge
<1>4. CASE Stop
  BY <1>4, PhaseInv DEF Stop
<1>5. CASE RemoveFolder
  BY <1>5, RemoveFolderInv
<1>6. ASSUME NEW u \in Unit, GenerateAst(u) PROVE CtuInv'
  BY <1>6, GenerateAstInv
<1>7. ASSUME NEW u \in Unit, MapFunctions(u) PROVE CtuInv'
  BY <1>7, MapFunctionsInv
<1>8. ASSUME NEW a \in Archs, MergeArch(a) PROVE CtuInv'
  BY <1>8, MergeArchInv
<1>9. CASE UNCHANGED ctuVars
  <2>1. UNCHANGED <<defines, skipped, phase, job, asts, temp, map, folders, mapped, unwritten>>
    BY <1>9 DEF ctuVars
  <2>2. CtuTyped' /\ PoolFits' /\ AstsMade' /\ MapIsOfThisCollect' /\ ReadyIsWhole'
    BY <2>1 DEF CtuInv, CtuTyped, PoolFits, AtWork, AstsMade, Place, MapIsOfThisCollect,
                ReadyIsWhole
  <2>3. TempsHold'
    <3>1. \A a \in Archs : LinesOf(a)' = LinesOf(a) /\ Found(a)' = Found(a)
      BY <2>1 DEF LinesOf, Found
    <3> QED BY <2>1, <3>1 DEF CtuInv, TempsHold
  <2> QED BY <2>2, <2>3 DEF CtuInv
<1> QED BY <1>1, <1>2, <1>3, <1>4, <1>5, <1>6, <1>7, <1>8, <1>9 DEF CtuNext

LEMMA CtuInvRight == CtuInv => MapsRight
<1> SUFFICES ASSUME CtuInv PROVE MapsRight
  OBVIOUS
<1>1. CtuTypeOK
  BY DEF CtuInv, CtuTyped, PoolFits, CtuTypeOK
<1>2. MapHasAsts
  <2>1. ASSUME NEW a \in Archs, map[a] # NoMap, NEW l \in map[a]
        PROVE  <<a, l[2]>> \in asts \cup unwritten
    <3>1. PICK m \in mapped : m[1] = a /\ l = <<m[2], m[3]>>
      BY <2>1 DEF CtuInv, MapIsOfThisCollect
    <3>2. <<m[1], m[3]>> \in asts \cup unwritten
      BY DEF CtuInv, AstsMade
    <3> QED BY <3>1, <3>2
  <2> QED BY <2>1 DEF MapHasAsts
<1> QED BY <1>1, <1>2 DEF CtuInv, MapsRight

(* The function maps an analysis uses are those of the last collection,    *)
(* whole, with one AST for each function, for any number of compilations,  *)
(* workers and collections that fail or are stopped (do_ctu_collect).      *)
THEOREM MapsRightCorrect == CtuSpec => []MapsRight
<1>1. CtuInit => CtuInv
  BY CtuInitInv
<1>2. CtuInv /\ [CtuNext]_ctuVars => CtuInv'
  BY CtuNextInv
<1>3. CtuInv => MapsRight
  BY CtuInvRight
<1> QED BY <1>1, <1>2, <1>3, PTL DEF CtuSpec
-----------------------------------------------------------------------------
(* Checkers: the options in any number.                                    *)

(* Whether the option of that place is the last one about a checker.       *)
IsLast(i, c) == /\ i \in DOMAIN given
                /\ Touches(given[i], c)
                /\ \A j \in DOMAIN given : Touches(given[j], c) => j <= i

ByDefault(c) == c \in Profile["default"] \/ (enableAll /\ c \notin Guarded)

(* The last option about a checker decides, stated without a choice.       *)
Decided(c) ==
  \/ /\ \A i \in DOMAIN given : ~Touches(given[i], c)
     /\ c \in enabled <=> ByDefault(c)
  \/ \E i \in DOMAIN given : IsLast(i, c) /\ (c \in enabled <=> given[i].on)

CheckersInv ==
  /\ CheckersTypeOK
  /\ given \in Seq([name : DOMAIN Under \cup DOMAIN Profile, on : BOOLEAN])
  /\ setup = "analyzers" => enabled = {}
  /\ setup \in {"analyzers", "defaults"} => given = <<>>
  /\ setup \in {"options", "ready"} =>
       \A c \in Known : Longer(c) = {} => Decided(c)

LEMMA CheckersInitInv == CheckersInit => CheckersInv
  BY DEF CheckersInit, CheckersInv, CheckersTypeOK, Known

(* A checker whose name begins with no other one's is meant by the names   *)
(* that a list of checkers holds, or by none.                              *)
LEMMA BeginsExact ==
  ASSUME NEW names, names \subseteq Checker, NEW c \in Known, Longer(c) = {}
  PROVE  c \in Begins(names) <=> c \in names
<1>1. c \in Checker
  BY DEF Known
<1>2. ASSUME c \in names PROVE c \in Begins(names)
  BY <1>1, <1>2, CheckersAssumption DEF Begins
<1>3. ASSUME c \in Begins(names) PROVE c \in names
  <2>1. PICK n \in names : c \in Under[n]
    BY <1>3 DEF Begins
  <2> QED BY <2>1 DEF Longer
<1> QED BY <1>2, <1>3

LEMMA MeantTouches ==
  ASSUME NEW n \in DOMAIN Under \cup DOMAIN Profile, NEW on, NEW c \in Known, Longer(c) = {}
  PROVE  c \in Meant(n) <=> Touches([name |-> n, on |-> on], c)
<1>1. CASE n \in DOMAIN Profile
  <2>1. Profile[n] \subseteq Checker
    BY <1>1, CheckersAssumption
  <2>2. c \in Begins(Profile[n]) <=> c \in Profile[n]
    BY <2>1, BeginsExact
  <2> QED BY <1>1, <2>2 DEF Meant, Touches
<1>2. CASE n \notin DOMAIN Profile
  BY <1>2 DEF Meant, Touches, Begins
<1> QED BY <1>1, <1>2

LEMMA DefaultsDecide ==
  ASSUME CheckersInv, SetDefaults
  PROVE  CheckersInv'
<1>1. /\ given = <<>> /\ given' = <<>> /\ setup' = "options"
      /\ usable' = usable /\ enableAll' = enableAll
      /\ enabled' = Begins(Profile["default"])
                    \cup (IF enableAll THEN Begins(Known \ Guarded) ELSE {})
  BY DEF SetDefaults, CheckersInv
<1>2. enabled' \subseteq Known /\ Known' = Known
  BY <1>1 DEF Begins, Known
<1>3. ASSUME NEW c \in Known, Longer(c) = {} PROVE Decided(c)'
  <2>1. /\ c \in Begins(Profile["default"]) <=> c \in Profile["default"]
        /\ c \in Begins(Known \ Guarded) <=> c \notin Guarded
    <3>1. Profile["default"] \subseteq Checker /\ Known \ Guarded \subseteq Checker
      BY CheckersAssumption DEF Known
    <3> QED BY <1>3, <3>1, BeginsExact
  <2>2. c \in enabled' <=> ByDefault(c)'
    BY <1>1, <2>1 DEF ByDefault
  <2> QED BY <1>1, <2>2 DEF Decided
<1>4. CheckersTypeOK'
  BY <1>1, <1>2 DEF CheckersInv, CheckersTypeOK
<1>5. given' \in Seq([name : DOMAIN Under \cup DOMAIN Profile, on : BOOLEAN])
  BY <1>1 DEF CheckersInv
<1>6. \A c \in Known' : Longer(c)' = {} => Decided(c)'
  BY <1>2, <1>3 DEF Longer
<1> QED BY <1>1, <1>4, <1>5, <1>6 DEF CheckersInv

(* An option decides of the checkers it is about and of no others.         *)
LEMMA OptionDecides ==
  ASSUME CheckersInv, NEW n \in DOMAIN Under \cup DOMAIN Profile, NEW on \in BOOLEAN,
         SetOption(n, on)
  PROVE  CheckersInv'
<1> DEFINE o == [name |-> n, on |-> on]
           S == [name : DOMAIN Under \cup DOMAIN Profile, on : BOOLEAN]
<1>1. /\ setup = "options" /\ setup' = "options"
      /\ usable' = usable /\ enableAll' = enableAll
      /\ given \in Seq(S) /\ given' = Append(given, o)
      /\ enabled \subseteq Known
      /\ enabled' = IF on THEN enabled \cup Meant(n) ELSE enabled \ Meant(n)
  BY DEF SetOption, CheckersInv, CheckersTypeOK
<1>2. /\ Known' = Known /\ given' \in Seq(S)
      /\ Len(given) \in Nat
      /\ DOMAIN given = 1 .. Len(given) /\ DOMAIN given' = 1 .. Len(given) + 1
      /\ \A i \in DOMAIN given : given'[i] = given[i]
      /\ given'[Len(given) + 1] = o
  BY <1>1 DEF Known
<1>3. enabled' \subseteq Known
  BY <1>1 DEF Meant, Begins
<1>4. ASSUME NEW c \in Known, Longer(c) = {} PROVE Decided(c)'
  <2>1. Decided(c)
    BY <1>1, <1>4 DEF CheckersInv
  <2>2. c \in Meant(n) <=> Touches(o, c)
    BY <1>4, MeantTouches
  <2>3. CASE Touches(o, c)
    <3>1. PICK k \in DOMAIN given' : k = Len(given) + 1
      BY <1>2
    <3>2. Touches(given'[k], c) /\ \A j \in DOMAIN given' : j <= k
      BY <1>2, <2>3, <3>1
    <3>3. IsLast(k, c)'
      BY <3>2 DEF IsLast
    <3>4. c \in enabled' <=> given'[k].on
      BY <1>1, <1>2, <2>2, <2>3, <3>1
    <3> QED BY <3>3, <3>4 DEF Decided
  <2>4. CASE ~Touches(o, c)
    <3>1. c \in enabled' <=> c \in enabled
      BY <1>1, <2>2, <2>4
    <3>2. CASE \A i \in DOMAIN given : ~Touches(given[i], c)
      <4>1. c \in enabled <=> ByDefault(c)
        BY <2>1, <3>2 DEF Decided, IsLast
      <4>2. \A i \in DOMAIN given' : ~Touches(given'[i], c)
        BY <1>2, <2>4, <3>2
      <4> QED BY <1>1, <3>1, <4>1, <4>2 DEF Decided, ByDefault, Touches
    <3>3. CASE \E i \in DOMAIN given : IsLast(i, c) /\ (c \in enabled <=> given[i].on)
      <4>1. PICK i \in DOMAIN given : IsLast(i, c) /\ (c \in enabled <=> given[i].on)
        BY <3>3
      <4>2. IsLast(i, c)'
        BY <1>2, <2>4, <4>1 DEF IsLast, Touches
      <4> QED BY <1>2, <3>1, <4>1, <4>2 DEF Decided
    <3> QED BY <2>1, <3>2, <3>3 DEF Decided
  <2> QED BY <2>3, <2>4
<1>5. CheckersTypeOK'
  BY <1>1, <1>2, <1>3 DEF CheckersInv, CheckersTypeOK
<1>6. \A c \in Known' : Longer(c)' = {} => Decided(c)'
  BY <1>2, <1>4 DEF Longer
<1> QED BY <1>1, <1>2, <1>5, <1>6 DEF CheckersInv

LEMMA CheckersNextInv == CheckersInv /\ [CheckersNext]_checkerVars => CheckersInv'
<1> SUFFICES ASSUME CheckersInv, [CheckersNext]_checkerVars PROVE CheckersInv'
  OBVIOUS
<1>1. CASE CheckAnalyzers
  BY <1>1 DEF CheckAnalyzers, CheckersInv, CheckersTypeOK, Known
<1>2. CASE SetDefaults
  BY <1>2, DefaultsDecide
<1>3. ASSUME UNCHANGED <<usable, enableAll, given, enabled>>,
             \/ setup' = setup \/ setup' = "refused" 
             \/ setup = "options" /\ setup' = "ready"
      PROVE  CheckersInv'
  BY <1>3 DEF CheckersInv, CheckersTypeOK, Known, Decided, IsLast, ByDefault, Touches, Longer
<1>4. CASE Ready
  BY <1>3, <1>4 DEF Ready
<1>5. ASSUME NEW n \in DOMAIN Under \cup DOMAIN Profile, RefuseProfile(n)
      PROVE  CheckersInv'
  BY <1>3, <1>5 DEF RefuseProfile
<1>6. ASSUME NEW n \in DOMAIN Under \cup DOMAIN Profile, NEW on \in BOOLEAN,
             SetOption(n, on)
      PROVE  CheckersInv'
  BY <1>6, OptionDecides
<1>7. CASE UNCHANGED checkerVars
  BY <1>3, <1>7 DEF checkerVars
<1> QED BY <1>1, <1>2, <1>4, <1>5, <1>6, <1>7 DEF CheckersNext

LEMMA CheckersInvDecides == CheckersInv => CheckersChosen
<1> SUFFICES ASSUME CheckersInv, setup \in {"options", "ready"},
                    NEW c \in Known, Longer(c) = {}
             PROVE
      LET about == {i \in DOMAIN given : Touches(given[i], c)}
          last == CHOOSE i \in about : \A j \in about : j <= i
      IN c \in enabled <=> IF about # {} THEN given[last].on ELSE ByDefault(c)
  BY DEF CheckersChosen, CheckersInv, LastOptionDecides, ByDefault
<1> DEFINE about == {i \in DOMAIN given : Touches(given[i], c)}
           last == CHOOSE i \in about : \A j \in about : j <= i
<1>1. Decided(c)
  BY DEF CheckersInv
<1>2. CASE about = {}
  BY <1>1, <1>2 DEF Decided, IsLast
<1>3. CASE about # {}
  <2>1. PICK i \in DOMAIN given : IsLast(i, c) /\ (c \in enabled <=> given[i].on)
    BY <1>1, <1>3 DEF Decided
  <2>2. DOMAIN given \subseteq Nat
    BY DEF CheckersInv
  <2>3. i \in about /\ \A j \in about : j <= i
    BY <2>1 DEF IsLast
  <2>4. last \in about /\ \A j \in about : j <= last
    BY <2>3
  <2>5. last = i
    <3>1. i \in Nat /\ last \in Nat /\ i <= last /\ last <= i
      BY <2>2, <2>3, <2>4
    <3> HIDE DEF last
    <3> QED BY <3>1
  <2> QED BY <1>3, <2>1, <2>5
<1> QED BY <1>2, <1>3

(* The checkers that are on are those the last option about each of them   *)
(* asks for, and by default those of the default profile and of            *)
(* --enable-all, for all sets of checkers, groups and profiles, options in *)
(* any number and analyzers that cannot be run (initialize_checkers).      *)
THEOREM CheckersChosenCorrect == CheckersSpec => []CheckersChosen
<1>1. CheckersInit => CheckersInv
  BY CheckersInitInv
<1>2. CheckersInv /\ [CheckersNext]_checkerVars => CheckersInv'
  BY CheckersNextInv
<1>3. CheckersInv => CheckersChosen
  BY CheckersInvDecides
<1> QED BY <1>1, <1>2, <1>3, PTL DEF CheckersSpec
-----------------------------------------------------------------------------
(* Suppression: what a parse hides and shows.                              *)

(* The entries of the suppress file, none without a file.                  *)
OnFile == IF sfile = NoSuppressFile THEN {} ELSE Data(sfile)

HiddenRightly(r) ==
  CommentSays(r) \/ \E l \in Lines : l.hash = HashOfReport[r] /\ l.base = BaseOfReport[r] /\ ~l.bar

ShownRightly(r) ==
  CommentSays(r) =>
    \E i \in Marker(above[r]) : above[r][i].bracket \/ CheckerOfReport[r] \notin ToSet(above[r][i].names)

Exported(r) ==
  \/ Suppressed(OnFile, r)
  \/ CommentOf(r).bar
  \/ \E l \in Lines : l.hash = HashOfReport[r] /\ l.base = ""

(* Hidden reports stay hidden rightly, since lines are only added to the   *)
(* suppress file and comments are not edited during a parse; what a parse  *)
(* holds in memory is on file.                                             *)
SuppInv ==
  /\ SuppTypeOK
  /\ skiplist \in SkipLists
  /\ sfile \in {NoSuppressFile} \cup Seq(FileLine)
  /\ memory \subseteq OnFile
  /\ handler # "off" => /\ left \cup hidden \cup shown = InPlists
                        /\ \A r \in hidden : HiddenRightly(r)
                        /\ \A r \in shown : ShownRightly(r)
  /\ handler = "write" => \A r \in hidden : Exported(r)

LEMMA NatMin ==
  ASSUME NEW S, S \subseteq Nat, S # {}
  PROVE  Min(S) \in S /\ \A y \in S : Min(S) <= y
<1>1. PICK x \in S : \A y \in S : ~(<<y, x>> \in OpToRel(<, Nat))
  <2>1. IsWellFoundedOn(OpToRel(<, Nat), Nat)
    BY NatLessThanWellFounded
  <2> QED BY <2>1, WFMin
<1>2. \A y \in S : ~(y < x)
  BY <1>1 DEF OpToRel
<1>3. x \in S /\ \A y \in S : x <= y
  BY <1>2
<1> QED BY <1>3 DEF Min

(* A path is skipped unless each line that would skip it comes after one   *)
(* that keeps it.                                                          *)
LEMMA FirstMatchDecides ==
  ASSUME NEW rules \in Seq(Rule), NEW path
  PROVE  ~ShouldSkip(rules, path)
           <=> \A i \in DOMAIN rules :
                 path \in rules[i].paths /\ rules[i].sign = "-"
                   => \E j \in 1 .. i - 1 : path \in rules[j].paths /\ rules[j].sign = "+"
<1> DEFINE m == {i \in DOMAIN rules : path \in rules[i].paths}
<1>1. /\ DOMAIN rules = 1 .. Len(rules) /\ Len(rules) \in Nat
      /\ \A i \in DOMAIN rules : rules[i].sign \in {"+", "-"}
  <2>1. \A i \in DOMAIN rules : rules[i] \in Rule
    OBVIOUS
  <2> QED BY <2>1 DEF Rule
<1>2. CASE m = {}
  BY <1>2 DEF ShouldSkip
<1>3. CASE m # {}
  <2>1. PICK first \in m : first = Min(m) /\ \A y \in m : first <= y
    <3>1. m \subseteq Nat
      BY <1>1
    <3> QED BY <1>3, <3>1, NatMin
  <2>2. ShouldSkip(rules, path) <=> rules[first].sign = "-"
    BY <1>3, <2>1 DEF ShouldSkip
  <2>3. CASE rules[first].sign = "-"
    <3>1. \A j \in 1 .. first - 1 : path \notin rules[j].paths
      <4> SUFFICES ASSUME NEW j \in 1 .. first - 1, path \in rules[j].paths PROVE FALSE
        OBVIOUS
      <4>1. first \in 1 .. Len(rules)
        BY <1>1, <2>1
      <4>2. j \in m /\ ~(first <= j)
        BY <1>1, <4>1
      <4> QED BY <2>1, <4>2
    <3> QED BY <2>1, <2>2, <2>3, <3>1
  <2>4. CASE rules[first].sign # "-"
    <3>1. rules[first].sign = "+"
      BY <1>1, <2>1, <2>4
    <3>2. ASSUME NEW i \in DOMAIN rules, path \in rules[i].paths, rules[i].sign = "-"
          PROVE  \E j \in 1 .. i - 1 : path \in rules[j].paths /\ rules[j].sign = "+"
      <4>1. first <= i /\ first # i
        BY <2>1, <2>4, <3>2
      <4>2. first \in 1 .. i - 1
        BY <1>1, <2>1, <4>1
      <4> QED BY <2>1, <3>1, <4>2
    <3> QED BY <2>2, <2>4, <3>2
  <2> QED BY <2>3, <2>4
<1> QED BY <1>2, <1>3
-----------------------------------------------------------------------------
(* Adding a line.                                                          *)
LEMMA LineAdded ==
  ASSUME NEW lines \in Seq(FileLine), NEW l \in FileLine
  PROVE  /\ Append(lines, l) \in Seq(FileLine)
         /\ ToSet(Append(lines, l)) = ToSet(lines) \cup {l}
         /\ Data(lines) \subseteq Data(Append(lines, l))
         /\ ~l.bar => [hash |-> l.hash, base |-> l.base, pad |-> l.pad] \in Data(Append(lines, l))
<1>1. Append(lines, l) \in Seq(FileLine)
  OBVIOUS
<1>2. ToSet(Append(lines, l)) = ToSet(lines) \cup {l}
  <2>1. /\ DOMAIN lines = 1 .. Len(lines) /\ Len(lines) \in Nat
        /\ DOMAIN Append(lines, l) = 1 .. Len(lines) + 1
        /\ \A i \in DOMAIN lines : Append(lines, l)[i] = lines[i]
        /\ Append(lines, l)[Len(lines) + 1] = l
    OBVIOUS
  <2>2. DOMAIN Append(lines, l) = DOMAIN lines \cup {Len(lines) + 1}
    BY <2>1
  <2> HIDE <1>1
  <2> QED BY <2>1, <2>2 DEF ToSet
<1> QED BY <1>1, <1>2 DEF Data

(* The names that are read are among those of the comment.                 *)
LEMMA NamesOfLine ==
  ASSUME NEW line, line.names \in Seq(STRING)
  PROVE  /\ NamesIn(line) \subseteq ToSet(line.names)
         /\ ~line.bracket => NamesIn(line) = ToSet(line.names)
<1> DEFINE s == line.names
<1>1. ToSet(Front(s)) \subseteq ToSet(s)
  <2>1. \A i \in DOMAIN Front(s) : i \in DOMAIN s /\ Front(s)[i] = s[i]
    BY DEF Front
  <2> QED BY <2>1 DEF ToSet
<1> QED BY <1>1 DEF NamesIn

(* What the code takes from a comment, its reader does too; the converse   *)
(* holds but for what ShownRightly names.                                  *)
LEMMA CommentsRead ==
  ASSUME NEW r \in Report, above[r] \in Seq(LineAbove)
  PROVE  /\ SourceSuppressed(r) => CommentSays(r)
         /\ ~SourceSuppressed(r) => ShownRightly(r)
         /\ SourceSuppressed(r) => CommentOf(r).bar \in BOOLEAN
<1>1. /\ DOMAIN above[r] = 1 .. Len(above[r]) /\ Len(above[r]) \in Nat
      /\ \A i \in DOMAIN above[r] :
           /\ above[r][i].names \in Seq(STRING)
           /\ above[r][i].bar \in BOOLEAN /\ above[r][i].bracket \in BOOLEAN
  <2>1. \A i \in DOMAIN above[r] : above[r][i] \in LineAbove
    OBVIOUS
  <2> QED BY <2>1 DEF LineAbove
<1>2. \A i \in DOMAIN above[r] :
        i \in Marker(above[r])
          <=> above[r][i].is = "marker" /\ ~\E j \in 1 .. i - 1 : above[r][j].is # "comment"
  BY DEF Marker, MarkersAbove
<1>3. Marker(above[r]) \subseteq DOMAIN above[r]
  BY DEF Marker, MarkersAbove
<1>4. ASSUME SourceSuppressed(r) PROVE CommentSays(r)
  <2>1. PICK i \in Marker(above[r]) :
          CheckerOfReport[r] \in NamesIn(above[r][i]) \/ NamesIn(above[r][i]) = {"all"}
    BY <1>4 DEF SourceSuppressed
  <2>2. NamesIn(above[r][i]) \subseteq ToSet(above[r][i].names)
    BY <1>1, <1>3, NamesOfLine
  <2>3. ToSet(above[r][i].names) \cap {"all", CheckerOfReport[r]} # {}
    BY <2>1, <2>2
  <2> QED BY <1>2, <1>3, <2>3 DEF CommentSays
<1>5. ASSUME ~SourceSuppressed(r), CommentSays(r)
      PROVE  \E i \in Marker(above[r]) :
               above[r][i].bracket \/ CheckerOfReport[r] \notin ToSet(above[r][i].names)
  <2>1. PICK i \in Marker(above[r]) : ToSet(above[r][i].names) \cap {"all", CheckerOfReport[r]} # {}
    BY <1>2, <1>5 DEF CommentSays
  <2>2. CheckerOfReport[r] \notin NamesIn(above[r][i])
    BY <1>5, <2>1 DEF SourceSuppressed
  <2>3. above[r][i].bracket \/ NamesIn(above[r][i]) = ToSet(above[r][i].names)
    BY <1>1, <1>3, <2>1, NamesOfLine
  <2> QED BY <2>1, <2>2, <2>3
<1>6. ASSUME SourceSuppressed(r) PROVE CommentOf(r).bar \in BOOLEAN
  BY <1>1, <1>3, <1>6 DEF SourceSuppressed, CommentOf
<1> QED BY <1>4, <1>5, <1>6 DEF ShownRightly
-----------------------------------------------------------------------------
LEMMA LinesAbove ==
  ASSUME SuppTypeOK, NEW r \in Report
  PROVE  above[r] \in Seq(LineAbove)
<1>1. above[r] \in Comments \/ above[r] = <<>>
  BY DEF SuppTypeOK
<1>2. <<>> \in Seq(LineAbove)
  OBVIOUS
<1> QED BY <1>1, <1>2, SuppAssumption

LEMMA SuppInitInv == SuppInit => SuppInv
<1> SUFFICES ASSUME SuppInit PROVE SuppInv
  OBVIOUS
<1>1. above \in [Report -> Comments \cup {<<>>}]
  BY DEF SuppInit
<1> QED BY <1>1 DEF SuppInit, SuppInv, SuppTypeOK

(* As long as no comment is edited and no line is taken out of the file,   *)
(* what a parse has done stays right.                                      *)
LEMMA StaysRight ==
  ASSUME UNCHANGED above, Lines \subseteq Lines', NEW r
  PROVE  /\ HiddenRightly(r) => HiddenRightly(r)'
         /\ ShownRightly(r) => ShownRightly(r)'
         /\ OnFile \subseteq OnFile' /\ Exported(r) => Exported(r)'
  BY DEF HiddenRightly, ShownRightly, Exported, CommentSays, CommentOf, Suppressed

(* A line is added to the file.                                            *)
LEMMA FileGrows ==
  ASSUME sfile \in Seq(FileLine), NEW l \in FileLine, sfile' = Append(sfile, l)
  PROVE  /\ sfile' \in Seq(FileLine) /\ sfile' # NoSuppressFile
         /\ Lines' = Lines \cup {l} /\ OnFile \subseteq OnFile'
         /\ OnFile = Data(sfile) /\ OnFile' = Data(sfile')
         /\ ~l.bar => [hash |-> l.hash, base |-> l.base, pad |-> l.pad] \in OnFile'
<1>1. sfile # NoSuppressFile /\ sfile' \in Seq(FileLine) /\ sfile' # NoSuppressFile
  BY LineAdded, SuppAssumption
<1> QED BY <1>1, LineAdded DEF Lines, OnFile

LEMMA BeginRight ==
  ASSUME SuppInv, NEW named \in BOOLEAN, NEW export \in BOOLEAN, BeginParse(named, export)
  PROVE  SuppInv'
<1>1. /\ handler' = IF ~named \/ (sfile = NoSuppressFile /\ ~export) THEN "none"
                    ELSE IF export THEN "write" ELSE "read"
      /\ sfile' = IF sfile = NoSuppressFile /\ export THEN <<>> ELSE sfile
      /\ memory' = IF handler' = "none" THEN {} ELSE Data(sfile')
      /\ left' = InPlists /\ hidden' = {} /\ shown' = {}
      /\ UNCHANGED <<skiplist, above, edits>>
  BY DEF BeginParse
<1>2. sfile' \in {NoSuppressFile} \cup Seq(FileLine)
  BY <1>1 DEF SuppInv
<1>3. handler' \in {"none", "read", "write"}
      /\ (handler' # "none" => sfile' # NoSuppressFile)
  <2>1. <<>> \in Seq(FileLine)
    OBVIOUS
  <2> QED BY <1>1, <2>1, SuppAssumption
<1>4. InPlists' = InPlists /\ InPlists \subseteq Report
  BY <1>1 DEF InPlists
<1>5. memory' \subseteq OnFile'
  BY <1>1, <1>3 DEF OnFile
<1>6. SuppTypeOK'
  BY <1>1, <1>3, <1>4 DEF SuppInv, SuppTypeOK
<1>7. left' \cup hidden' \cup shown' = InPlists'
  BY <1>1, <1>4
<1> QED BY <1>1, <1>2, <1>5, <1>6, <1>7 DEF SuppInv

LEMMA HideByFileRight ==
  ASSUME SuppInv, NEW r \in Report, HideByFile(r)
  PROVE  SuppInv'
<1>1. /\ handler # "off" /\ r \in left /\ left' = left \ {r} /\ hidden' = hidden \cup {r}
      /\ Suppressed(memory, r)
      /\ UNCHANGED <<skiplist, above, sfile, memory, handler, shown>>
  BY DEF HideByFile, Look
<1>2. Suppressed(OnFile, r)
  BY <1>1 DEF SuppInv, Suppressed
<1>3. HiddenRightly(r)
  <2>1. PICK l \in Lines : /\ ~l.bar
                           /\ [hash |-> HashOfReport[r], base |-> BaseOfReport[r], pad |-> FALSE]
                                = [hash |-> l.hash, base |-> l.base, pad |-> l.pad]
    BY <1>2 DEF Suppressed, OnFile, Data, Lines
  <2> QED BY <2>1 DEF HiddenRightly
<1>4. OnFile' = OnFile /\ Lines' = Lines /\ InPlists' = InPlists
  BY <1>1 DEF OnFile, Lines, InPlists
<1>5. \A d : /\ HiddenRightly(d) => HiddenRightly(d)'
             /\ ShownRightly(d) => ShownRightly(d)'
             /\ Exported(d) => Exported(d)'
  BY <1>1, <1>4, StaysRight
<1>6. Exported(r)
  BY <1>2 DEF Exported
<1>7. SuppTypeOK'
  BY <1>1 DEF SuppInv, SuppTypeOK
<1> QED BY <1>1, <1>3, <1>4, <1>5, <1>6, <1>7 DEF SuppInv

LEMMA HideByCommentRight ==
  ASSUME SuppInv, NEW r \in Report, HideByComment(r)
  PROVE  SuppInv'
<1>1. /\ handler # "off" /\ r \in left /\ left' = left \ {r} /\ hidden' = hidden \cup {r}
      /\ SourceSuppressed(r)
      /\ sfile' = IF handler = "write" THEN Write(sfile, r) ELSE sfile
      /\ memory' = IF handler = "write" THEN Data(sfile') ELSE memory
      /\ UNCHANGED <<skiplist, above, handler, shown>>
  BY DEF HideByComment, Look
<1>2. above[r] \in Seq(LineAbove)
  BY LinesAbove DEF SuppInv
<1>3. CommentSays(r) /\ CommentOf(r).bar \in BOOLEAN
  BY <1>1, <1>2, CommentsRead
<1>4. EntryFor(r) \in FileLine
  BY <1>3 DEF EntryFor, FileLine
<1>5. handler = "write" => sfile \in Seq(FileLine)
  BY DEF SuppInv, SuppTypeOK
<1>6. /\ sfile' \in {NoSuppressFile} \cup Seq(FileLine)
      /\ sfile # NoSuppressFile => sfile' # NoSuppressFile
      /\ Lines \subseteq Lines' /\ OnFile \subseteq OnFile' /\ memory' \subseteq OnFile'
      /\ handler = "write" => Exported(r)'
  <2>1. CASE sfile' = Append(sfile, EntryFor(r)) /\ handler = "write"
    <3>1. /\ sfile' \in Seq(FileLine) /\ sfile' # NoSuppressFile
          /\ Lines \subseteq Lines' /\ OnFile \subseteq OnFile' /\ OnFile' = Data(sfile')
          /\ ~EntryFor(r).bar =>
               [hash |-> EntryFor(r).hash, base |-> EntryFor(r).base, pad |-> EntryFor(r).pad]
                 \in OnFile'
      BY <1>4, <1>5, <2>1, FileGrows
    <3>2. Suppressed(OnFile', r) \/ CommentOf(r).bar
      BY <3>1 DEF EntryFor, Suppressed
    <3>3. CommentOf(r)' = CommentOf(r)
      BY <1>1 DEF CommentOf
    <3> QED BY <1>1, <2>1, <3>1, <3>2, <3>3 DEF Exported
  <2>2. CASE sfile' = sfile
    <3>1. Lines' = Lines /\ OnFile' = OnFile
      BY <2>2 DEF Lines, OnFile
    <3>2. memory' \subseteq OnFile'
      <4>1. CASE handler = "write"
        <5>1. OnFile = Data(sfile)
          BY <1>5, <4>1, SuppAssumption DEF OnFile
        <5> QED BY <1>1, <2>2, <3>1, <4>1, <5>1
      <4>2. CASE handler # "write"
        BY <1>1, <3>1, <4>2 DEF SuppInv
      <4> QED BY <4>1, <4>2
    <3>3. ASSUME handler = "write" PROVE Exported(r)'
      <4>1. sfile \in Seq(FileLine) /\ sfile # NoSuppressFile
        BY <1>5, <3>3, SuppAssumption
      <4>2. \/ Suppressed(Data(sfile), r)
            \/ \E d \in Data(sfile) : d.hash = HashOfReport[r] /\ d.base = ""
            \/ sfile = Append(sfile, EntryFor(r))
        BY <1>1, <2>2, <3>3 DEF Write
      <4>3. sfile # Append(sfile, EntryFor(r))
        <5>1. Len(Append(sfile, EntryFor(r))) = Len(sfile) + 1 /\ Len(sfile) \in Nat
          BY <1>4, <4>1
        <5> QED BY <5>1
      <4>4. CASE Suppressed(Data(sfile), r)
        BY <2>2, <4>1, <4>4 DEF Exported, OnFile
      <4>5. CASE \E d \in Data(sfile) : d.hash = HashOfReport[r] /\ d.base = ""
        <5>1. \E l \in Lines : l.hash = HashOfReport[r] /\ l.base = ""
          <6>1. PICK d \in Data(sfile) : d.hash = HashOfReport[r] /\ d.base = ""
            BY <4>5
          <6>2. PICK k \in ToSet(sfile) : d = [hash |-> k.hash, base |-> k.base, pad |-> k.pad]
            BY <6>1 DEF Data
          <6>3. d.hash = k.hash /\ d.base = k.base
            BY <6>2
          <6>4. k.hash = HashOfReport[r] /\ k.base = ""
            BY <6>1, <6>3
          <6> QED BY <4>1, <6>4 DEF Lines
        <5> QED BY <3>1, <5>1 DEF Exported
      <4> QED BY <4>2, <4>3, <4>4, <4>5
    <3> QED BY <2>2, <3>1, <3>2, <3>3 DEF SuppInv
  <2> QED BY <1>1, <2>1, <2>2 DEF Write
<1>7. HiddenRightly(r)'
  <2>1. CommentSays(r)'
    BY <1>1, <1>3 DEF CommentSays
  <2> QED BY <2>1 DEF HiddenRightly
<1>8. \A d : /\ HiddenRightly(d) => HiddenRightly(d)'
             /\ ShownRightly(d) => ShownRightly(d)'
             /\ Exported(d) => Exported(d)'
  BY <1>1, <1>6, StaysRight
<1>9. InPlists' = InPlists
  BY <1>1 DEF InPlists
<1>10. SuppTypeOK'
  BY <1>1, <1>6 DEF SuppInv, SuppTypeOK
<1> QED BY <1>1, <1>6, <1>7, <1>8, <1>9, <1>10 DEF SuppInv

LEMMA ShowRight ==
  ASSUME SuppInv, NEW r \in Report, Show(r)
  PROVE  SuppInv'
<1>1. /\ handler # "off" /\ r \in left /\ left' = left \ {r} /\ shown' = shown \cup {r}
      /\ ~SourceSuppressed(r)
      /\ UNCHANGED <<skiplist, above, sfile, memory, handler, hidden>>
  BY DEF Show, Look
<1>2. above[r] \in Seq(LineAbove)
  BY LinesAbove DEF SuppInv
<1>3. ShownRightly(r)
  BY <1>1, <1>2, CommentsRead
<1>4. OnFile' = OnFile /\ Lines' = Lines /\ InPlists' = InPlists
  BY <1>1 DEF OnFile, Lines, InPlists
<1>5. \A d : /\ HiddenRightly(d) => HiddenRightly(d)'
             /\ ShownRightly(d) => ShownRightly(d)'
             /\ Exported(d) => Exported(d)'
  BY <1>1, <1>4, StaysRight
<1>6. SuppTypeOK'
  BY <1>1 DEF SuppInv, SuppTypeOK
<1> QED BY <1>1, <1>3, <1>4, <1>5, <1>6 DEF SuppInv

LEMMA EditRight ==
  ASSUME SuppInv, NEW l \in Edits, EditFile(l)
  PROVE  SuppInv'
<1>1. /\ sfile' = Append(IF sfile = NoSuppressFile THEN <<>> ELSE sfile, l)
      /\ UNCHANGED <<skiplist, above, memory, handler, left, hidden, shown>>
  BY DEF EditFile
<1>2. l \in FileLine
  BY DEF FileLine
<1>3. /\ sfile' \in Seq(FileLine) /\ sfile' # NoSuppressFile
      /\ Lines \subseteq Lines' /\ OnFile \subseteq OnFile'
  <2>1. CASE sfile = NoSuppressFile
    <3>1. sfile' \in Seq(FileLine)
      BY <1>1, <1>2, <2>1
    <3>2. Lines = {} /\ OnFile = {}
      BY <2>1 DEF Lines, OnFile
    <3> QED BY <3>1, <3>2, SuppAssumption
  <2>2. CASE sfile \in Seq(FileLine)
    <3>1. sfile' = Append(sfile, l)
      BY <1>1, <2>2, SuppAssumption
    <3> QED BY <1>2, <2>2, <3>1, FileGrows
  <2> QED BY <2>1, <2>2 DEF SuppInv
<1>4. \A d : /\ HiddenRightly(d) => HiddenRightly(d)'
             /\ ShownRightly(d) => ShownRightly(d)'
             /\ Exported(d) => Exported(d)'
  BY <1>1, <1>3, StaysRight
<1>5. InPlists' = InPlists
  BY <1>1 DEF InPlists
<1>6. SuppTypeOK'
  BY <1>1, <1>3 DEF SuppInv, SuppTypeOK
<1> QED BY <1>1, <1>3, <1>4, <1>5, <1>6 DEF SuppInv

LEMMA SuppNextInv == SuppInv /\ [SuppNext]_suppVars => SuppInv'
<1> SUFFICES ASSUME SuppInv, [SuppNext]_suppVars PROVE SuppInv'
  OBVIOUS
<1>1. CASE EndParse
  <2>1. /\ handler' = "off" /\ memory' = {}
        /\ UNCHANGED <<skiplist, above, sfile, left, hidden, shown>>
    BY <1>1 DEF EndParse
  <2> QED BY <2>1 DEF SuppInv, SuppTypeOK
<1>2. ASSUME NEW r \in Report, Uncomment(r) PROVE SuppInv'
  <2>1. /\ handler = "off" /\ handler' = "off" /\ above' = [above EXCEPT ![r] = <<>>]
        /\ UNCHANGED <<skiplist, sfile, memory, left, hidden, shown>>
    BY <1>2 DEF Uncomment
  <2>2. above' \in [Report -> Comments \cup {<<>>}]
    BY <2>1 DEF SuppInv, SuppTypeOK
  <2>3. OnFile' = OnFile
    BY <2>1 DEF OnFile
  <2> QED BY <2>1, <2>2, <2>3 DEF SuppInv, SuppTypeOK
<1>3. CASE UNCHANGED suppVars
  <2>1. UNCHANGED <<skiplist, above, sfile, memory, handler, left, hidden, shown>>
    BY <1>3 DEF suppVars
  <2>2. OnFile' = OnFile /\ Lines' = Lines /\ InPlists' = InPlists
    BY <2>1 DEF OnFile, Lines, InPlists
  <2>3. \A d : /\ HiddenRightly(d) => HiddenRightly(d)'
               /\ ShownRightly(d) => ShownRightly(d)'
               /\ Exported(d) => Exported(d)'
    BY <2>1, <2>2, StaysRight
  <2>4. SuppTypeOK'
    BY <2>1 DEF SuppInv, SuppTypeOK
  <2> QED BY <2>1, <2>2, <2>3, <2>4 DEF SuppInv
<1> QED BY <1>1, <1>2, <1>3, BeginRight, HideByFileRight, HideByCommentRight, ShowRight,
           EditRight DEF SuppNext

LEMMA SuppInvHides == SuppInv => ReportsHidden
<1> SUFFICES ASSUME SuppInv PROVE ReportsHidden
  OBVIOUS
<1>1. HiddenForAReason
  BY DEF SuppInv, HiddenForAReason, HiddenRightly, ShownRightly
<1>2. LooksAtTheRest
  <2> SUFFICES ASSUME handler # "off", NEW r \in Report
               PROVE  r \in left \cup hidden \cup shown
                        <=> \A i \in DOMAIN skiplist :
                              PathOfReport[r] \in skiplist[i].paths /\ skiplist[i].sign = "-"
                                => \E j \in 1 .. i - 1 :
                                     PathOfReport[r] \in skiplist[j].paths /\ skiplist[j].sign = "+"
    BY DEF LooksAtTheRest
  <2>1. skiplist \in Seq(Rule)
    BY SuppAssumption DEF SuppInv
  <2>2. r \in left \cup hidden \cup shown <=> ~ShouldSkip(skiplist, PathOfReport[r])
    BY DEF SuppInv, InPlists
  <2> QED BY <2>1, <2>2, FirstMatchDecides
<1>3. ExportHolds
  <2>1. handler = "write" => OnFile = Data(sfile)
    BY DEF SuppInv, SuppTypeOK, OnFile
  <2> QED BY <2>1 DEF SuppInv, ExportHolds, Exported
<1> QED BY <1>1, <1>2, <1>3 DEF SuppInv, ReportsHidden

(* A parse looks at the reports that the skip list leaves and at no        *)
(* others, hides those that a line of the suppress file or a comment       *)
(* suppresses and shows the rest, and what it hid for a comment is in the  *)
(* file it was to write, for all reports, skip lists and comments, orders  *)
(* of the reports and edits of the file (PlistToStdout).                   *)
THEOREM ReportsHiddenCorrect == SuppSpec => []ReportsHidden
<1>1. SuppInit => SuppInv
  BY SuppInitInv
<1>2. SuppInv /\ [SuppNext]_suppVars => SuppInv'
  BY SuppNextInv
<1>3. SuppInv => ReportsHidden
  BY SuppInvHides
<1> QED BY <1>1, <1>2, <1>3, PTL DEF SuppSpec
=============================================================================
