---------------------------- MODULE ServerStart ----------------------------
(***************************************************************************)
(* The start of servers on one configuration directory: main of            *)
(* libhandlers/server.py, the creation of databases in                     *)
(* server/database/database.py and start_server in server/server.py.       *)
(* A start creates what is not there: the configuration database, the      *)
(* default product with its database, the superuser's credentials.  No two *)
(* of these steps are one, and nothing keeps a second start away.          *)
(*                                                                         *)
(* The configuration database is SQLite, whose statements that create      *)
(* tables take effect at once.                                             *)
(***************************************************************************)
EXTENDS Naturals, FiniteSets

CONSTANTS
  Start,      \* starts of a server, by the number of the process
  Port,       \* the port of each start
  MaxCuts,    \* bound: starts that are killed
  MaxTogether, \* bound: starts that are going on at a time
  Unset

ASSUME ServerStartAssumption ==
  Start \subseteq Nat /\ Unset \notin Start /\ MaxCuts \in Nat

VARIABLES
  srv,      \* each start
  db,       \* the databases "config" and "default", as files
  product,  \* the default product in the table: "none", "there" or "removed"
  root,     \* root.user
  cuts,     \* starts killed so far
  met       \* history: starts that have overlapped another one

startVars == <<srv, db, product, root, cuts, met>>

\* exists: the file; tables: those of the model; head: alembic's version;
\* version: the row in db_version.
Database == [exists : BOOLEAN, tables : BOOLEAN, head : BOOLEAN, version : BOOLEAN]
NoDatabase == [exists |-> FALSE, tables |-> FALSE, head |-> FALSE, version |-> FALSE]
Complete == [exists |-> TRUE, tables |-> TRUE, head |-> TRUE, version |-> TRUE]

\* no: how often the file has been removed; who has an earlier one open does
\* not write to this one.
NoRoot(n) == [exists |-> FALSE, sha |-> Unset, readonly |-> FALSE, no |-> n]
Removed == IF root.exists THEN NoRoot(root.no + 1) ELSE root

Phases == {"version", "tables", "commit", "row"}
Over == {"not begun", "serve", "failed", "ended", "killed"}
Starting == {s \in Start : srv[s].pc \notin Over}

StartTypeOK ==
  /\ \A s \in Start :
       /\ srv[s].pc \in Over \cup Phases \cup
            {"begin", "product", "root", "make", "write", "chmod", "load", "bind"}
       /\ srv[s].on \in {"config", "default"}
       /\ srv[s].add \in BOOLEAN /\ srv[s].first \in BOOLEAN /\ srv[s].reset \in BOOLEAN
       /\ srv[s].sha \in Start \cup {Unset}
  /\ db \in [{"config", "default"} -> Database]
  /\ product \in {"none", "there", "removed"}
  /\ root \in [exists : BOOLEAN, sha : Start \cup {Unset}, readonly : BOOLEAN, no : Nat]
  /\ cuts \in 0..MaxCuts /\ met \subseteq Start

StartInit ==
  /\ srv = [s \in Start |-> [pc |-> "not begun", on |-> "config", add |-> FALSE,
              first |-> FALSE, reset |-> FALSE, sha |-> Unset, file |-> 0]]
  /\ db = [d \in {"config", "default"} |-> NoDatabase]
  /\ product = "none"
  /\ root = NoRoot(0)
  /\ cuts = 0 /\ met = {}

-----------------------------------------------------------------------------

StartAt(s, pc) == srv[s].pc = pc

\* What a process no longer needs is forgotten.
To(s, pc) ==
  srv' = [srv EXCEPT ![s] =
    [pc    |-> pc,
     add   |-> IF pc \in Phases THEN srv[s].add ELSE FALSE,
     first |-> IF pc \in Phases THEN srv[s].first ELSE FALSE,
     on    |-> IF pc \in Phases THEN srv[s].on ELSE "config",
     file  |-> IF pc = "write" THEN srv[s].file ELSE 0,
     sha   |-> IF pc \in {"failed", "ended", "killed"} THEN Unset ELSE srv[s].sha,
     reset |-> srv[s].reset]]
Rest == UNCHANGED <<cuts, met>>

Launch(s) ==
  /\ StartAt(s, "not begun") /\ \A t \in Start : t < s => ~StartAt(t, "not begun")
  /\ Cardinality(Starting) < MaxTogether
  /\ srv' = [srv EXCEPT ![s].pc = "begin"]
  /\ met' = IF Starting = {} THEN met ELSE met \cup Starting \cup {s}
  /\ UNCHANGED <<db, product, root, cuts>>

(* Mutant: the default product does not depend on what is there. *)
BeginAlwaysFirst(s, reset) ==
  /\ StartAt(s, "begin")
  /\ root' = IF reset THEN Removed ELSE root
  /\ srv' = [srv EXCEPT ![s] =
       [@ EXCEPT !.pc = "version", !.reset = reset, !.first = TRUE]]
  /\ UNCHANGED <<db, product>> /\ Rest

\* main: --reset-root; create_default_product.
Begin(s, reset) ==
  /\ StartAt(s, "begin")
  /\ root' = IF reset THEN Removed ELSE root
  /\ srv' = [srv EXCEPT ![s] =
       [@ EXCEPT !.pc = "version", !.reset = reset,
                 !.first = ~db["config"].exists /\ ~db["default"].exists]]
  /\ UNCHANGED <<db, product>> /\ Rest

\* check_db_version: the connection creates the file.
CheckDbVersion(s) ==
  LET d == srv[s].on IN
  /\ StartAt(s, "version")
  /\ db' = [db EXCEPT ![d].exists = TRUE]
  /\ IF db[d].tables /\ ~db[d].version
     THEN To(s, "failed")
     ELSE srv' = [srv EXCEPT ![s] = [@ EXCEPT !.pc = "tables", !.add = ~db[d].tables]]
  /\ UNCHANGED <<product, root>> /\ Rest

\* _create_or_update_schema: the migrations create the tables, which fails if
\* they are there although no migration is recorded.
CreateTables(s) ==
  LET d == srv[s].on IN
  /\ StartAt(s, "tables")
  /\ IF db[d].tables /\ ~db[d].head
     THEN To(s, "failed") /\ UNCHANGED db
     ELSE To(s, "commit") /\ db' = [db EXCEPT ![d].tables = TRUE]
  /\ UNCHANGED <<product, root>> /\ Rest

(* Mutant: the migrations are not committed. *)
CommitNothing(s) ==
  /\ StartAt(s, "commit")
  /\ To(s, "row")
  /\ UNCHANGED <<db, product, root>> /\ Rest

CommitMigrations(s) ==
  /\ StartAt(s, "commit")
  /\ db' = [db EXCEPT ![srv[s].on].head = TRUE]
  /\ To(s, "row")
  /\ UNCHANGED <<product, root>> /\ Rest

\* _add_version, if check_db_version found no table: the row is a key.  After
\* the configuration database, that of the default product.
AddVersion(s) ==
  LET d == srv[s].on
      next == IF d = "default" THEN "product"
              ELSE IF srv[s].first THEN "version" ELSE "root"
  IN
  /\ StartAt(s, "row")
  /\ IF srv[s].add /\ db[d].version
     THEN To(s, "failed") /\ UNCHANGED db
     ELSE /\ IF next = "version"
             THEN srv' = [srv EXCEPT ![s] = [@ EXCEPT !.pc = next, !.on = "default"]]
             ELSE To(s, next)
          /\ db' = [db EXCEPT ![d].version = db[d].version \/ srv[s].add]
  /\ UNCHANGED <<product, root>> /\ Rest

\* add_initial_run_database raises if there is a product, and the commit if
\* another start has been faster.
AddProduct(s) ==
  /\ StartAt(s, "product")
  /\ IF product = "there" THEN To(s, "failed") /\ UNCHANGED product
     ELSE To(s, "root") /\ product' = "there"
  /\ UNCHANGED <<db, root>> /\ Rest

LookForRoot(s) ==
  /\ StartAt(s, "root")
  /\ To(s, IF root.exists THEN "load" ELSE "make")
  /\ UNCHANGED <<db, product, root>> /\ Rest

\* start_server reads root.user.  What cannot be opened is made anew; it has
\* been removed by a reset.
LoadRoot(s) ==
  /\ StartAt(s, "load")
  /\ srv' = IF root.exists
            THEN [srv EXCEPT ![s] = [@ EXCEPT !.pc = "bind", !.sha = root.sha]]
            ELSE [srv EXCEPT ![s].pc = "make"]
  /\ UNCHANGED <<db, product, root>> /\ Rest

(* Mutant: a file that is there is truncated although it is read-only. *)
MakeRootAnyway(s) ==
  /\ StartAt(s, "make")
  /\ srv' = [srv EXCEPT ![s] = [@ EXCEPT !.pc = "write", !.file = root.no]]
  /\ root' = [root EXCEPT !.exists = TRUE, !.sha = Unset]
  /\ UNCHANGED <<db, product>> /\ Rest

\* __make_root_file: open(root_file, 'w') fails if it is read-only.
MakeRoot(s) ==
  /\ StartAt(s, "make")
  /\ IF root.readonly THEN To(s, "failed") /\ UNCHANGED root
     ELSE /\ srv' = [srv EXCEPT ![s] = [@ EXCEPT !.pc = "write", !.file = root.no]]
          /\ root' = [root EXCEPT !.exists = TRUE, !.sha = Unset]
  /\ UNCHANGED <<db, product>> /\ Rest

(* Mutant: the name is written in place of the hash. *)
WriteRootName(s) ==
  /\ StartAt(s, "write")
  /\ srv' = [srv EXCEPT ![s] = [@ EXCEPT !.pc = "chmod", !.sha = s, !.file = 0]]
  /\ root' = IF root.no = srv[s].file THEN [root EXCEPT !.sha = Port[s]] ELSE root
  /\ UNCHANGED <<db, product>> /\ Rest

(* Mutant: the credentials are not written. *)
WriteRootNot(s) ==
  /\ StartAt(s, "write")
  /\ srv' = [srv EXCEPT ![s] = [@ EXCEPT !.pc = "chmod", !.sha = s, !.file = 0]]
  /\ UNCHANGED <<db, product, root>> /\ Rest

\* The file is closed and has the new credentials: those of this start.  One
\* that a reset has removed meanwhile does not come back.
WriteRoot(s) ==
  /\ StartAt(s, "write")
  /\ srv' = [srv EXCEPT ![s] = [@ EXCEPT !.pc = "chmod", !.sha = s, !.file = 0]]
  /\ root' = IF root.no = srv[s].file THEN [root EXCEPT !.sha = s] ELSE root
  /\ UNCHANGED <<db, product>> /\ Rest

\* os.chmod fails if the file is gone.
ProtectRoot(s) ==
  /\ StartAt(s, "chmod")
  /\ IF root.exists THEN To(s, "bind") /\ root' = [root EXCEPT !.readonly = TRUE]
     ELSE To(s, "failed") /\ UNCHANGED root
  /\ UNCHANGED <<db, product>> /\ Rest

\* CCSimpleHttpServer binds the port.
Bind(s) ==
  /\ StartAt(s, "bind")
  /\ To(s, IF \E t \in Start : StartAt(t, "serve") /\ Port[t] = Port[s]
           THEN "failed" ELSE "serve")
  /\ UNCHANGED <<db, product, root>> /\ Rest

\* The owner removes the product; its database stays.
RemoveProduct(s) ==
  /\ StartAt(s, "serve") /\ product = "there"
  /\ product' = "removed"
  /\ UNCHANGED <<srv, db, root>> /\ Rest

Quit(s) ==
  /\ StartAt(s, "serve") /\ To(s, "ended")
  /\ UNCHANGED <<db, product, root>> /\ Rest

CutStart(s) ==
  /\ s \in Starting /\ cuts < MaxCuts
  /\ cuts' = cuts + 1
  /\ To(s, "killed")
  /\ UNCHANGED <<db, product, root, met>>

Advance(s) ==
  \/ \E reset \in BOOLEAN : Begin(s, reset)
  \/ CheckDbVersion(s) \/ CreateTables(s) \/ CommitMigrations(s)
  \/ AddVersion(s) \/ AddProduct(s) \/ LookForRoot(s) \/ LoadRoot(s)
  \/ MakeRoot(s) \/ WriteRoot(s) \/ ProtectRoot(s) \/ Bind(s)

StartNext ==
  \E s \in Start :
    \/ Launch(s)
    \/ Advance(s) \/ RemoveProduct(s) \/ Quit(s) \/ CutStart(s)

StartSpec == StartInit /\ [][StartNext]_startVars

-----------------------------------------------------------------------------
(* Properties *)

Killed == {s \in Start : StartAt(s, "killed")}

\* A start fails only because another one was going on at the same time,
\* serves on its port, or was killed on its way: what an undisturbed start
\* leaves behind never keeps the next one from starting.
FailsForAReason ==
  \A s \in Start : StartAt(s, "failed") =>
    \/ s \in met
    \/ \E t \in Killed : t < s
    \/ \E t \in Start : t < s /\ Port[t] = Port[s]

\* When no start is going on, a directory in which none was killed and no two
\* met is complete: both databases, the default product and credentials.
CompleteAtRest ==
  Starting = {} /\ Killed = {} /\ met = {} /\ db["config"].exists =>
    /\ db["config"] = Complete /\ db["default"] = Complete /\ product # "none"
    /\ root.exists /\ root.sha # Unset /\ root.readonly

\* A server accepts the credentials that root.user holds, which are those its
\* log told the owner: unless its start met another one, one was killed, or a
\* later start has reset them.
RootAgrees ==
  \A s \in Start : StartAt(s, "serve") =>
    \/ srv[s].sha # Unset /\ root.exists /\ srv[s].sha = root.sha
    \/ s \in met \/ \E t \in Killed : t < s
    \/ \E t \in Start : t > s /\ srv[t].reset

\* Whoever has met whom, credentials that are in a protected file are changed
\* only by a start that resets them, or by one that had opened the file for
\* writing before it was protected.
RootStays ==
  [][root.readonly /\ root'.sha # root.sha =>
       \E s \in Start :
         \/ StartAt(s, "begin") /\ ~root'.exists
         \/ StartAt(s, "write") /\ s \in met]_startVars

\* The default product is for a new installation: a start makes it neither
\* when it has been removed nor after a server has served from the directory,
\* unless starts met or were killed.
ProductForNewOnly ==
  [][product' = "there" /\ product # "there" =>
       \/ met # {} \/ Killed # {}
       \/ product = "none" /\ \A s \in Start : srv[s].pc \notin {"serve", "ended"}]_startVars

\* Starts that are left alone work and leave a complete directory (main of
\* libhandlers/server.py).
StartsWork == StartTypeOK /\ FailsForAReason /\ CompleteAtRest /\ RootAgrees

\* What a first start made is not made again (start_server,
\* add_initial_run_database).
InstallsOnce == RootStays /\ ProductForNewOnly
=============================================================================
