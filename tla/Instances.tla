----------------------------- MODULE Instances -----------------------------
(***************************************************************************)
(* The file in a user's home directory that lists the user's servers       *)
(* (server/instance_manager.py), with the commands that list and stop      *)
(* servers (libhandlers/server.py).  Hosts may share the home directory.   *)
(*                                                                         *)
(* A process that changes the file locks it, reads it, drops the records   *)
(* of dead processes, truncates it and unlocks it; what it has written is  *)
(* flushed when the file is closed, after that.  The file is created       *)
(* without the lock.  Records name a process by host and id, and the       *)
(* system gives ids again.                                                 *)
(***************************************************************************)
EXTENDS Naturals, FiniteSets

CONSTANTS
  Host,
  Pid,
  Place,         \* a workspace and a port
  MaxProcesses,  \* bound: processes that are begun
  MaxKills,      \* bound: processes that are killed by nobody's stop
  Nobody

ASSUME InstancesAssumption ==
  Nobody \notin Host \X Pid /\ MaxProcesses \in Nat /\ MaxKills \in Nat

VARIABLES
  proc,     \* what runs under each process id of each host
  file,     \* .codechecker.instances.json
  lock,     \* who has the exclusive lock, or Nobody
  begun,    \* processes begun so far
  kills,    \* processes killed so far
  damage    \* history: what has happened to the file that should not

instVars == <<proc, file, lock, begun, kills, damage>>

Id == Host \X Pid
Record == [id : Id, place : Place]
InstFile(s, r) == [state |-> s, recs |-> r]
Servers == {i \in Id : proc[i].kind = "server"}
Serving == {i \in Servers : proc[i].pc = "serve"}
Writing == {i \in Id : proc[i].pc \in {"fill", "flush"}}
RecordOf(i) == [id |-> i, place |-> proc[i].place]

(* kind: "bare" is a program whose command line is one word, "other" any   *)
(* program but CodeChecker.  job: what a server does to the file, or what  *)
(* a command is for.  recs: the list a process has read or will write.     *)
(* no: when the process was begun.  History of a stop: before, the servers *)
(* it should end, seen, the servers that were serving when it read.        *)
Nothing == [kind |-> "none", pc |-> "none", job |-> "none", place |-> Nobody,
            recs |-> {}, no |-> 0, seen |-> {}, before |-> {}]

InstTypeOK ==
  /\ \A i \in Id :
       /\ proc[i].kind \in {"none", "server", "command", "bare", "other"}
       /\ proc[i].pc \in {"none", "exists", "make", "fill", "lock", "rewrite",
                          "flush", "serve", "list", "kill"}
       /\ proc[i].job \in {"none", "register", "unregister", "list", "stop", "stop_all"}
       /\ proc[i].recs \subseteq Record
  /\ file.state \in {"absent", "empty", "ok", "garbage"} /\ file.recs \subseteq Record
  /\ lock \in Id \cup {Nobody}
  /\ begun \in 0..MaxProcesses /\ kills \in 0..MaxKills
  /\ damage \subseteq {"created twice", "cut", "same pid"}

InstInit ==
  /\ proc = [i \in Id |-> Nothing]
  /\ file = InstFile("absent", {})
  /\ lock = Nobody
  /\ begun = 0 /\ kills = 0 /\ damage = {}

-----------------------------------------------------------------------------

\* A process begins under a free id.
BeginProcess(i, p) ==
  /\ proc[i] = Nothing /\ begun < MaxProcesses
  /\ begun' = begun + 1
  /\ proc' = [proc EXCEPT ![i] = [p EXCEPT !.no = begun + 1]]
  /\ UNCHANGED <<file, lock, kills, damage>>

\* start_server: the port is bound before register is called, a second server
\* on it ends there.
StartServer(i, place) ==
  /\ \A j \in Servers : j[1] = i[1] => proc[j].place # place
  /\ BeginProcess(i, [Nothing EXCEPT !.kind = "server", !.pc = "exists",
                               !.job = "register", !.place = place])

StartOther(i) ==
  \E k \in {"bare", "other"} : BeginProcess(i, [Nothing EXCEPT !.kind = k])

\* server --list, --stop and --stop-all: __instance_management.
StartCommand(i, job, place) ==
  LET meant == {s \in Serving : s[1] = i[1] /\ (job = "stop" => proc[s].place = place)}
  IN BeginProcess(i, [Nothing EXCEPT
       !.kind = "command", !.pc = "list", !.job = job, !.place = place,
       !.before = IF job = "list" THEN {} ELSE {<<s, proc[s].no>> : s \in meant}])

\* The process is over; its lock goes with it.
Ended(i) ==
  /\ proc' = [proc EXCEPT ![i] = Nothing]
  /\ lock' = IF lock = i THEN Nobody ELSE lock

\* What i has not flushed is lost: the file stays as the truncation left it.
Cut(i) == damage' = IF i \in Writing THEN damage \cup {"cut"} ELSE damage

EndOther(i) ==
  /\ proc[i].kind \in {"bare", "other"}
  /\ Ended(i) /\ UNCHANGED <<file, begun, kills, damage>>

Die(i) ==
  /\ proc[i] # Nothing /\ proc[i].kind \notin {"bare", "other"} /\ kills < MaxKills
  /\ kills' = kills + 1
  /\ Ended(i) /\ Cut(i)
  /\ UNCHANGED <<file, begun>>

\* Ctrl-C: the exit handler unregisters.
InterruptServer(i) ==
  /\ i \in Serving
  /\ proc' = [proc EXCEPT ![i] = [proc[i] EXCEPT !.pc = "exists", !.job = "unregister"]]
  /\ UNCHANGED <<file, lock, begun, kills, damage>>

-----------------------------------------------------------------------------
(* The file *)

Goto(i, pc) == proc' = [proc EXCEPT ![i].pc = pc]

\* __makeInstanceDescriptorFile: does it exist?
LookForFile(i) ==
  /\ proc[i].pc = "exists"
  /\ Goto(i, IF file.state = "absent" THEN "make" ELSE "lock")
  /\ UNCHANGED <<file, lock, begun, kills, damage>>

\* open(descriptor, 'w') truncates what may be there by now.
MakeFile(i) ==
  /\ proc[i].pc = "make"
  /\ damage' = IF file.state = "absent" THEN damage ELSE damage \cup {"created twice"}
  /\ file' = InstFile("empty", {})
  /\ Goto(i, "fill")
  /\ UNCHANGED <<lock, begun, kills>>

\* What is flushed begins at the start of the file and ends where it ends:
\* what was longer keeps its tail.
Overwrite(recs) ==
  LET n == Cardinality(recs)
      o == Cardinality(file.recs)
      whole == InstFile("ok", recs)
      mixed == InstFile("garbage", {})
  IN IF file.state \in {"absent", "empty"} THEN {whole}
     ELSE IF file.state = "garbage" THEN {whole, mixed}
     ELSE IF n > o \/ (n = 0 /\ o = 0) THEN {whole}
     ELSE IF n < o THEN {mixed} ELSE {whole, mixed}

Fill(i) ==
  /\ proc[i].pc = "fill"
  /\ file' \in Overwrite({})
  /\ Goto(i, "lock")
  /\ UNCHANGED <<lock, begun, kills, damage>>

\* __checkInstance on host h: a record of another host counts as alive.
CheckInstance(h, r) == r.id[1] # h \/ proc[r.id].kind \in {"server", "command"}

\* cmdline()[1] raises IndexError.
Raises(h, recs) == \E r \in recs : r.id[1] = h /\ proc[r.id].kind = "bare"
Unreadable == file.state # "ok"

(* Mutant: earlier records of the process id are not dropped. *)
RemainingKeepsPid(i) == file.recs \ {r \in file.recs : proc[i].job = "unregister" /\ r.id = i}

\* Records that neither have the id that is registered, on any host, nor are
\* the one that is removed.
Remaining(i) ==
  IF proc[i].job = "register" THEN {r \in file.recs : r.id[2] # i[2]}
  ELSE {r \in file.recs : r.id # i}

(* Mutant: the lock is shared. *)
ReadShared(i) ==
  /\ proc[i].pc = "lock"
  /\ IF Unreadable \/ Raises(i[1], Remaining(i))
     THEN /\ Ended(i) /\ UNCHANGED damage
     ELSE /\ lock' = i
          /\ proc' = [proc EXCEPT ![i] = [proc[i] EXCEPT !.pc = "rewrite",
               !.recs = {r \in Remaining(i) : CheckInstance(i[1], r)} \cup
                 (IF proc[i].job = "register" THEN {RecordOf(i)} ELSE {})]]
          /\ damage' = damage \cup
               (IF \E r \in file.recs \ Remaining(i) : r.id[1] # i[1]
                THEN {"same pid"} ELSE {})
  /\ UNCHANGED <<file, begun, kills>>

\* __rewriteInstanceFile: lock, read and select.  Of what may be raised only
\* IOError is caught: a server that registers ends.
Read(i) ==
  /\ proc[i].pc = "lock" /\ lock = Nobody
  /\ IF Unreadable \/ Raises(i[1], Remaining(i))
     THEN /\ Ended(i) /\ UNCHANGED damage
     ELSE /\ lock' = i
          /\ proc' = [proc EXCEPT ![i] = [proc[i] EXCEPT !.pc = "rewrite",
               !.recs = {r \in Remaining(i) : CheckInstance(i[1], r)} \cup
                 (IF proc[i].job = "register" THEN {RecordOf(i)} ELSE {})]]
          /\ damage' = damage \cup
               (IF \E r \in file.recs \ Remaining(i) : r.id[1] # i[1]
                THEN {"same pid"} ELSE {})
  /\ UNCHANGED <<file, begun, kills>>

\* truncate takes effect, dump fills a buffer, the lock is released.
Rewrite(i) ==
  /\ proc[i].pc = "rewrite"
  /\ file' = InstFile("empty", {})
  /\ lock' = Nobody
  /\ Goto(i, "flush")
  /\ UNCHANGED <<begun, kills, damage>>

(* Mutant: what is written is not closed, so never flushed. *)
FlushNothing(i) ==
  /\ proc[i].pc = "flush"
  /\ proc' = [proc EXCEPT ![i] =
       IF proc[i].job = "register" THEN [proc[i] EXCEPT !.pc = "serve", !.recs = {}] ELSE Nothing]
  /\ UNCHANGED <<file, lock, begun, kills, damage>>

\* The file is closed; a server serves, or has unregistered and is over.
Flush(i) ==
  /\ proc[i].pc = "flush"
  /\ file' \in Overwrite(proc[i].recs)
  /\ proc' = [proc EXCEPT ![i] =
       IF proc[i].job = "register" THEN [proc[i] EXCEPT !.pc = "serve", !.recs = {}] ELSE Nothing]
  /\ UNCHANGED <<lock, begun, kills, damage>>

-----------------------------------------------------------------------------
(* Commands *)

(* Mutant: stop takes the first server of the workspace and port only if it *)
(* is the only one that is listed.                                          *)
MeantIfAlone(i) ==
  {r \in file.recs : CheckInstance(i[1], r) /\ r.id[1] = i[1]
     /\ (proc[i].job = "stop" => r.place = proc[i].place /\ Cardinality(file.recs) = 1)}

\* The listed servers a stop is meant for: those of its host, for --stop of
\* its workspace and port.
Meant(i) ==
  {r \in file.recs : CheckInstance(i[1], r) /\ r.id[1] = i[1]
                       /\ (proc[i].job = "stop" => r.place = proc[i].place)}

\* list(): a shared lock, so not while another process rewrites the file.
ListInstances(i) ==
  /\ proc[i].pc = "list" /\ lock = Nobody
  /\ IF \/ proc[i].job = "list"
        \/ file.state # "absent" /\ (Unreadable \/ Raises(i[1], file.recs))
     THEN Ended(i)
     ELSE /\ proc' = [proc EXCEPT ![i] =
               [proc[i] EXCEPT !.pc = "kill", !.recs = Meant(i),
                               !.seen = {<<s, proc[s].no>> : s \in Serving}]]
          /\ UNCHANGED lock
  /\ UNCHANGED <<file, begun, kills, damage>>

\* kill_process_tree: SIGTERM, which servers do not handle.  A process that is
\* gone by now raises NoSuchProcess and ends the command.
KillOne(i) ==
  /\ proc[i].pc = "kill"
  /\ \E r \in proc[i].recs :
       IF proc[r.id] = Nothing
       THEN Ended(i) /\ UNCHANGED damage
       ELSE /\ proc' = [[proc EXCEPT ![i].recs = proc[i].recs \ {r}] EXCEPT ![r.id] = Nothing]
            /\ lock' = IF lock = r.id THEN Nobody ELSE lock
            /\ Cut(r.id)
  /\ UNCHANGED <<file, begun, kills>>

\* All are stopped: exit code 0.
StopDone(i) ==
  /\ proc[i].pc = "kill" /\ proc[i].recs = {}
  /\ Ended(i)
  /\ UNCHANGED <<file, begun, kills, damage>>

InstNext ==
  \E i \in Id :
    \/ \E p \in Place : StartServer(i, p)
    \/ StartOther(i) \/ EndOther(i)
    \/ \E p \in Place, job \in {"list", "stop", "stop_all"} : StartCommand(i, job, p)
    \/ InterruptServer(i) \/ Die(i)
    \/ LookForFile(i) \/ MakeFile(i) \/ Fill(i)
    \/ Read(i) \/ Rewrite(i) \/ Flush(i)
    \/ ListInstances(i) \/ KillOne(i) \/ StopDone(i)

InstSpec == InstInit /\ [][InstNext]_instVars

-----------------------------------------------------------------------------
(* Properties *)

\* Between rewrites the file is readable, so that servers can start and be
\* stopped, unless it was created twice or a process was killed between the
\* truncation and the flush.
ReadableAtRest ==
  damage = {} /\ Writing = {} => file.state \in {"absent", "ok"}

\* A serving server is listed, in the file or in what a process is about to
\* flush: no start or end of another one loses it, unless the file was damaged
\* or a server with the same process id was registered on another host.
LiveListed ==
  damage = {} => \A i \in Serving :
    \/ RecordOf(i) \in file.recs
    \/ \E j \in Writing : RecordOf(i) \in proc[j].recs

\* A stop that ends with exit code 0 has ended the servers it was meant for
\* that were serving when it began.
StopEndsThem ==
  [][damage = {} =>
       \A i \in Id : proc[i].pc = "kill" /\ proc[i].recs = {} /\ proc'[i] = Nothing =>
         \A b \in proc[i].before : proc'[b[1]].no # b[2]]_instVars

\* --stop ends no server that served another workspace or port when it read
\* the list, although process ids are given again: a new server has dropped
\* the record of the id's former owner.
StopSparesOthers ==
  [][damage = {} =>
       \A i \in Id, j \in Serving :
         proc[i].job = "stop" /\ <<j, proc[j].no>> \in proc[i].seen
           /\ proc'[i] # Nothing /\ proc'[i].recs # proc[i].recs
           /\ proc'[j] = Nothing
         => proc[j].place = proc[i].place]_instVars

\* The file lists the servers that serve (instance_manager.py).
ServersListed == InstTypeOK /\ ReadableAtRest /\ LiveListed

\* The commands that stop servers end those they are meant for and no others.
StopsJustThem == StopEndsThem /\ StopSparesOthers
=============================================================================
