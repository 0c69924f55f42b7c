---------------------------- MODULE Permissions ----------------------------
(***************************************************************************)
(* Permissions of one product and of the server: concurrent addPermission  *)
(* and removePermission calls over the permission tables of the            *)
(* configuration database (server/permissions.py,                          *)
(* server/api/authentication.py, server/database/config_db_model.py).      *)
(*                                                                         *)
(* Each call is one database transaction; a query or a flush is one step.  *)
(* On SQLite a transaction that has written excludes every other writer    *)
(* until it ends ("sqlite"), on PostgreSQL it does not.  Names of users   *)
(* and of groups are told apart by their sets, not by is_group.            *)
(***************************************************************************)
EXTENDS Naturals, FiniteSets, FiniteSetsExt

CONSTANTS
  User, Group,   \* names permissions can be given to
  MemberOf,      \* the groups of each user
  Root,          \* the login session of the master superuser
  Guest,         \* no session: authentication is disabled
  Star,          \* the name '*'
  Call,          \* API calls going on at a time
  Caller,        \* bound: the sessions that call
  Edited,        \* bound: the permissions they edit
  MaxId,         \* bound: no call is made once a primary key is larger
  Backend,       \* the kinds of configuration database considered
  None

ASSUME PermissionsAssumption ==
  /\ MemberOf \in [User -> SUBSET Group]
  /\ User \cap Group = {}
  /\ {Root, Guest} \cap User = {}
  /\ Star \notin User \cup Group
  /\ Caller \subseteq User \cup {Root, Guest}
  /\ IsFiniteSet(Call)
  /\ MaxId \in Nat
  /\ Backend \subseteq {"sqlite", "postgresql"}

Perm == {"SUPERUSER", "PRODUCT_ADMIN", "PRODUCT_STORE", "PRODUCT_ACCESS"}

default_enable == {"PRODUCT_STORE", "PRODUCT_ACCESS"}

inherited_from ==
  [p \in Perm |->
     CASE p = "SUPERUSER"      -> {}
       [] p = "PRODUCT_ADMIN"  -> {"SUPERUSER"}
       [] p = "PRODUCT_STORE"  -> {"SUPERUSER", "PRODUCT_ADMIN"}
       [] p = "PRODUCT_ACCESS" -> {"SUPERUSER", "PRODUCT_ADMIN", "PRODUCT_STORE"}]

managed_by ==
  [p \in Perm |-> IF p \in default_enable THEN {"SUPERUSER", "PRODUCT_ADMIN"}
                                          ELSE {"SUPERUSER"}]

Session == User \cup {Root, Guest}
Name == User \cup Group

VARIABLES
  backend,   \* the configuration database the server was started with
  rows,      \* committed rows of the permission tables
  pc,        \* where each call is
  req,       \* its arguments and its session
  record,    \* the row it is about to delete
  new, gone  \* rows it has inserted and keys it has deleted, uncommitted

vars == <<backend, rows, pc, req, record, new, gone>>

(* Only one transaction at a time writes.                                  *)
OneWriter == backend = "sqlite"

Row == [id : Nat, perm : Perm, who : Name \cup {Star}]

Table == {"permissions_system", "permissions_product"}
TableOf(p) == IF p = "SUPERUSER" THEN "permissions_system"
                                 ELSE "permissions_product"
Key == Table \X Nat
KeyOf(r) == <<TableOf(r.perm), r.id>>

Request == [op : {"add", "remove"}, perm : Edited \cap Perm, who : Name, by : Caller]

ASSUME NoneAssumption == None \notin Request /\ None \notin Row

(* c has written, and its transaction is not over.                         *)
Writing(c) == pc[c] \in {"list", "default", "commit"}

TypeOK ==
  /\ backend \in Backend
  /\ rows \in SUBSET Row
  /\ pc \in [Call -> {"idle", "manage", "query", "write", "list", "default", "commit"}]
  /\ req \in [Call -> Request \cup {None}]
  /\ record \in [Call -> Row \cup {None}]
  /\ new \in [Call -> SUBSET Row]
  /\ gone \in [Call -> SUBSET Key]
  /\ \A c \in Call : /\ pc[c] = "idle" <=> req[c] = None
                     /\ pc[c] \in {"list", "default"} => req[c].perm \in default_enable
                     /\ new[c] # {} \/ gone[c] # {} => Writing(c)

Marker(p, id) == [id |-> id, perm |-> p, who |-> Star]

(* A server that has been started with a product: initialise_defaults has  *)
(* given the permissions that are granted by default to '*'.               *)
Init ==
  /\ backend \in Backend
  /\ rows = {Marker("PRODUCT_STORE", 1), Marker("PRODUCT_ACCESS", 2)}
  /\ pc = [c \in Call |-> "idle"]
  /\ req = [c \in Call |-> None]
  /\ record = [c \in Call |-> None]
  /\ new = [c \in Call |-> {}]
  /\ gone = [c \in Call |-> {}]

-----------------------------------------------------------------------------
(* Queries over a set of rows.                                             *)
RowsOf(R, p) == {r \in R : r.perm = p}

(* Mutant: the filter on the name is forgotten.                            *)
RowsForAnybody(R, p, who) == RowsOf(R, p)

RowsFor(R, p, who) == {r \in R : r.perm = p /\ r.who = who}
Users(R, p) == {r \in R : r.perm = p /\ r.who \notin Group}   \* '*' included
Groups(R, p) == {r \in R : r.perm = p /\ r.who \in Group}

NamesOf(s) == IF s \in User THEN {s} \cup MemberOf[s] ELSE {}

has_permission(R, p, s) ==
  IF s = Guest THEN p \in default_enable
  ELSE \/ s = Root /\ p = "SUPERUSER"
       \/ \E who \in NamesOf(s) : RowsFor(R, p, who) # {}
       \/ p \in default_enable /\ RowsFor(R, p, Star) # {}

(* The walk along the inheritance visits everything inherited from.        *)
Ancestors(p) ==
  LET step(Q) == Q \cup UNION {inherited_from[q] : q \in Q}
  IN  step(step(step({p})))

require_permission(R, p, s) == \E q \in Ancestors(p) : has_permission(R, q, s)

require_manager(R, p, s) == \E q \in managed_by[p] : has_permission(R, q, s)

(* What a call's own transaction sees.                                     *)
View(c) == {r \in rows : KeyOf(r) \notin gone[c]} \cup new[c]

(* The primary key of a row that c inserts.  SQLite takes the one after    *)
(* the largest in the table, PostgreSQL one that was never taken: any that *)
(* no row and no call knows of stands for it.                              *)
IdsIn(R, p) == {r.id : r \in {x \in R : TableOf(x.perm) = TableOf(p)}}

KnownIds(p) ==
  IdsIn(rows \cup ({record[c] : c \in Call} \ {None})
             \cup UNION {new[c] : c \in Call}, p)
  \cup {k[2] : k \in UNION {gone[c] : c \in Call}}

NewId(c, p) ==
  IF OneWriter THEN 1 + Max({0} \cup IdsIn(View(c), p))
  ELSE Min((1..(Cardinality(KnownIds(p)) + 1)) \ KnownIds(p))

Goto(c, to) == pc' = [pc EXCEPT ![c] = to] /\ UNCHANGED <<req, record>>

(* The call returns or raises, and its transaction is over.                *)
Finish(c) ==
  /\ pc' = [pc EXCEPT ![c] = "idle"]
  /\ req' = [req EXCEPT ![c] = None]
  /\ record' = [record EXCEPT ![c] = None]
  /\ new' = [new EXCEPT ![c] = {}]
  /\ gone' = [gone EXCEPT ![c] = {}]

(* SQLite: no other writer.  PostgreSQL: only who deletes the same row     *)
(* waits.                                                                  *)
MayWrite(c, keys) ==
  \A d \in Call \ {c} :
    Writing(d) => ~OneWriter /\ gone[d] \cap keys = {}

-----------------------------------------------------------------------------
(* addPermission or removePermission is called, while keys are small.      *)
Receive(c) ==
  /\ pc[c] = "idle"
  /\ \A r \in rows : r.id <= MaxId
  /\ \E r \in Request : req' = [req EXCEPT ![c] = r]
  /\ pc' = [pc EXCEPT ![c] = "manage"]
  /\ UNCHANGED <<backend, rows, record, new, gone>>

RequireManager(c) ==
  /\ pc[c] = "manage"
  /\ IF require_manager(rows, req[c].perm, req[c].by)
     THEN Goto(c, "query") /\ UNCHANGED <<new, gone>>
     ELSE Finish(c)
  /\ UNCHANGED <<backend, rows>>

(* __get_perm_record: one_or_none raises when there are several rows.  A   *)
(* row to be added that is there, or one to be removed that is not, is an  *)
(* error that is only logged.                                              *)
GetPermRecord(c) ==
  /\ pc[c] = "query"
  /\ LET found == RowsFor(rows, req[c].perm, req[c].who)
     IN  \/ /\ req[c].op = "add" /\ found = {}
            /\ Goto(c, "write")
            /\ UNCHANGED <<new, gone>>
         \/ /\ req[c].op = "remove" /\ Cardinality(found) = 1
            /\ pc' = [pc EXCEPT ![c] = "write"]
            /\ \E r \in found : record' = [record EXCEPT ![c] = r]
            /\ UNCHANGED <<req, new, gone>>
         \/ /\ IF req[c].op = "add" THEN found # {} ELSE Cardinality(found) # 1
            /\ Finish(c)
  /\ UNCHANGED <<backend, rows>>

(* Mutant: the condition on default_enable is forgotten.                   *)
AfterWriteAlways(c) == "list"

AfterWrite(c) == IF req[c].perm \in default_enable THEN "list" ELSE "commit"

(* The flushed INSERT.  No constraint says that the name is not there.     *)
InsertRecord(c) ==
  /\ pc[c] = "write" /\ req[c].op = "add"
  /\ MayWrite(c, {})
  /\ new' = [new EXCEPT ![c] = {[id |-> NewId(c, req[c].perm),
                                 perm |-> req[c].perm, who |-> req[c].who]}]
  /\ Goto(c, AfterWrite(c))
  /\ UNCHANGED <<backend, rows, gone>>

(* The flushed DELETE, by primary key: a row that another call has deleted *)
(* in the meantime only makes SQLAlchemy warn.                             *)
DeleteRecord(c) ==
  /\ pc[c] = "write" /\ req[c].op = "remove"
  /\ MayWrite(c, {KeyOf(record[c])})
  /\ gone' = [gone EXCEPT ![c] = {KeyOf(record[c])}]
  /\ Goto(c, AfterWrite(c))
  /\ UNCHANGED <<backend, rows, new>>

(* Mutant: groups are forgotten in the condition.                          *)
FirstGrantOfUser(c) ==
  /\ req[c].who \notin Group
  /\ Cardinality(Users(View(c), req[c].perm)) = 2
  /\ Groups(View(c), req[c].perm) = {}

(* Is the name just added the first one?  As the code counts it.           *)
FirstGrant(c) ==
  LET users == Cardinality(Users(View(c), req[c].perm))
      groups == Cardinality(Groups(View(c), req[c].perm))
  IN  IF req[c].who \in Group THEN users = 1 /\ groups = 1
                              ELSE users = 2 /\ groups = 0

(* list_permitted: '*' has to go when the first grant is added, and to     *)
(* come when the last one is removed.                                      *)
ListPermitted(c) ==
  /\ pc[c] = "list"
  /\ IF \/ req[c].op = "add" /\ FirstGrant(c)
        \/ req[c].op = "remove" /\ RowsOf(View(c), req[c].perm) = {}
     THEN Goto(c, "default")
     ELSE Goto(c, "commit")
  /\ UNCHANGED <<backend, rows, new, gone>>

(* The invariant for default_enable: the row of '*' is looked up, which    *)
(* raises when there are several, and deleted or, if missing, inserted.    *)
SetDefault(c) ==
  /\ pc[c] = "default"
  /\ LET markers == RowsFor(View(c), req[c].perm, Star)
     IN  IF Cardinality(markers) > 1
         THEN Finish(c)
         ELSE \/ /\ req[c].op = "add"
                 /\ gone' = [gone EXCEPT ![c] = @ \cup {KeyOf(r) : r \in markers}]
                 /\ Goto(c, "commit")
                 /\ UNCHANGED new
              \/ /\ req[c].op = "remove"
                 /\ new' = [new EXCEPT ![c] =
                      IF markers = {}
                      THEN @ \cup {Marker(req[c].perm, NewId(c, req[c].perm))} ELSE @]
                 /\ Goto(c, "commit")
                 /\ UNCHANGED gone
  /\ UNCHANGED <<backend, rows>>

Commit(c) ==
  /\ pc[c] = "commit"
  /\ rows' = View(c)
  /\ Finish(c)
  /\ UNCHANGED backend

(* The server is killed and started again, which runs initialise_defaults  *)
(* for the server and for the product.                                     *)
Lacking == {p \in default_enable : RowsOf(rows, p) = {}}

Restart ==
  /\ pc' = [c \in Call |-> "idle"]
  /\ req' = [c \in Call |-> None]
  /\ record' = [c \in Call |-> None]
  /\ new' = [c \in Call |-> {}]
  /\ gone' = [c \in Call |-> {}]
  /\ LET last == Max({0} \cup IdsIn(rows, "PRODUCT_ACCESS"))
     IN  rows' = {r \in rows : r.who # Star \/ r.perm \in default_enable}
                   \cup {Marker(p, last + (IF p = "PRODUCT_STORE" THEN 1 ELSE 2))
                           : p \in Lacking}
  /\ UNCHANGED backend

Proceed(c) ==
  \/ RequireManager(c) \/ GetPermRecord(c) \/ InsertRecord(c)
  \/ DeleteRecord(c) \/ ListPermitted(c) \/ SetDefault(c) \/ Commit(c)

Next == \/ \E c \in Call : Receive(c) \/ Proceed(c)
        \/ Restart

Spec == Init /\ [][Next]_vars
-----------------------------------------------------------------------------
Granted(p) == {r \in rows : r.perm = p /\ r.who # Star}

(* permissions.py, has_permission: "No-one has the permission" is a row    *)
(* for '*', "this invariant kept up by add() and remove()".  On SQLite a   *)
(* call that has edited a permission leaves it either everybody's or of    *)
(* those it was given to, whatever other calls did meanwhile.  On          *)
(* PostgreSQL calls that overlap do not see each other's rows, and may     *)
(* leave both or neither.                                                  *)
EditSetsDefault ==
  [][\A c \in Call : OneWriter /\ Commit(c) =>
       LET p == req[c].perm
           others == {r \in rows' : r.perm = p /\ r.who # Star}
       IN  IF p \in default_enable
           THEN Cardinality(RowsFor(rows', p, Star)) = (IF others = {} THEN 1 ELSE 0)
           ELSE RowsFor(rows', p, Star) = {}]_vars

(* docs/permissions.md, "Default value" and "Permission inheritance": once *)
(* a permission is given to somebody, only who was given it has it, or who *)
(* was given one that implies it.                                          *)
InheritedIsExplicit ==
  \A p \in default_enable, u \in User :
    Granted(p) # {} /\ require_permission(rows, p, u) =>
      \E q \in Ancestors(p) : \E r \in Granted(q) : r.who \in NamesOf(u)

(* On PostgreSQL a grant is lost to no other call: a name keeps a          *)
(* permission until a removal of that very permission of that name is      *)
(* committed.  On SQLite the key of the row that a removal has read may be *)
(* another row's when it deletes.                                          *)
GrantsKept ==
  [][\A r \in rows : ~OneWriter /\ r.who # Star /\ r \notin rows' =>
       \E c \in Call : /\ pc[c] = "commit" /\ pc'[c] = "idle"
                       /\ req[c].op = "remove"
                       /\ req[c].perm = r.perm /\ req[c].who = r.who]_vars
=============================================================================
