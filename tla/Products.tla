------------------------------ MODULE Products ------------------------------
(***************************************************************************)
(* The products of a server: the table of the configuration database and   *)
(* the dictionary of connections that requests are routed by               *)
(* (server/server.py), changed by addProduct, editProduct and              *)
(* removeProduct (server/api/product_server.py) while requests reconnect   *)
(* products whose database was not reachable.                              *)
(*                                                                         *)
(* A change is a sequence of steps, each of the table or of the            *)
(* dictionary; nothing holds them together but the commit of the table.    *)
(* Names, descriptions and who may make the change are left out.           *)
(***************************************************************************)
EXTENDS Naturals, FiniteSetsExt

CONSTANTS
  Admin,     \* threads with a call that changes the products
  Client,    \* threads with a request to a product
  Endpoint,  \* endpoints of products
  Test,      \* the random endpoints an edit tries the new settings under
  Db,        \* databases
  Password,  \* whether connections come with a password
  CommitsFail,  \* whether a commit may fail
  MaxId,     \* bound: ids of products
  Late,      \* bound: changes that begin while something is spoilt
  None

Connection == [db : Db, password : Password]

ASSUME ProductAssumption ==
  /\ Admin \cap Client = {} /\ Endpoint \cap Test = {}
  /\ Password \subseteq BOOLEAN
  /\ CommitsFail \in BOOLEAN /\ MaxId \in Nat
  /\ None \notin Admin \cup Client \cup Endpoint \cup Test

VARIABLES
  table,   \* products in the configuration database
  prods,   \* __products of the server: an object of class Product each
  pc, arg, \* of each thread: where it is and its call
  held,    \* the endpoint whose object a thread uses
  own,     \* that object, if it is in the dictionary no more
  spoilt   \* history: endpoints of changes that have met or failed

vars == <<table, prods, pc, arg, held, own, spoilt>>

Call == Admin \cup Client
Name == Endpoint \cup Test

Row == [id : Nat \ {0}, endpoint : Endpoint, conn : Connection]

(* state is __connected and __last_connect_attempt: a failed product may   *)
(* not be connected before CONNECT_RETRY_TIMEOUT is over, a waiting one may *)
(* again.                                                                  *)
Product == [id : Nat, conn : Connection,
            state : {"new", "connected", "failed", "waiting"}]

ASSUME NoneAssumption == None \notin Product

NewProduct(i, d, state) == [id |-> i, conn |-> d, state |-> state]

(* from and was are the endpoint and connection an edit or a removal finds,*)
(* to the endpoint the product will have, test the one the settings are    *)
(* tried under, final whether they are tried no more.                      *)
Argument == [kind : {"add", "edit", "remove"}, id : Nat,
             from : Endpoint \cup {None}, to : Endpoint \cup {None},
             test : Name \cup {None}, conn : Connection \cup {None},
             was : Connection \cup {None}, final : BOOLEAN]
NoArgument == [kind |-> "add", id |-> 0, from |-> None, to |-> None,
               test |-> None, conn |-> None, was |-> None, final |-> FALSE]

Removing == {"undo", "untest", "unset", "remove"}
AdminPC == Removing \cup {"idle", "setup", "connecting", "check", "insert",
                          "reload", "update", "delete"}
ClientPC == {"idle", "connect", "connecting"}

TypeOK ==
  /\ table \subseteq Row
  /\ \A r, t \in table : r.id = t.id \/ r.endpoint = t.endpoint => r = t
  /\ prods \in [Name -> Product \cup {None}]
  /\ pc \in [Call -> AdminPC \cup ClientPC]
  /\ arg \in [Admin -> Argument] /\ held \in [Call -> Name \cup {None}]
  /\ own \in [Call -> Product \cup {None}]
  /\ spoilt \subseteq Name

RowOf(e) == CHOOSE r \in table : r.endpoint = e
Endpoints == {r.endpoint : r \in table}

(* The server starts: every row of the table gets an object, and connects. *)
Starts(P) ==
  \E ok \in SUBSET Endpoints :
    P = [e \in Name |->
          IF e \in Endpoints
          THEN NewProduct(RowOf(e).id, RowOf(e).conn,
                          IF e \in ok THEN "connected" ELSE "failed")
          ELSE None]

(* No product is configured when the server is installed with PostgreSQL.  *)
Init ==
  /\ table = {} /\ Starts(prods)
  /\ pc = [c \in Call |-> "idle"] /\ arg = [c \in Admin |-> NoArgument]
  /\ held = [c \in Call |-> None] /\ own = [c \in Call |-> None]
  /\ spoilt = {}

Move(c, p) == pc' = [pc EXCEPT ![c] = p]

(* The call returns or raises.                                             *)
End(c) ==
  /\ Move(c, "idle")
  /\ held' = [held EXCEPT ![c] = None] /\ own' = [own EXCEPT ![c] = None]
  /\ arg' = IF c \in Admin THEN [arg EXCEPT ![c] = NoArgument] ELSE arg

(* The endpoints a change is about.                                        *)
Concern(c) == {arg[c].from, arg[c].to, arg[c].test} \ {None}
Busy(e) == \E c \in Admin : e \in Concern(c)

(* A change that concerns what another one under way does, or what is      *)
(* spoilt, spoils all of that.                                             *)
Meeting(E) == {c \in Admin : Concern(c) \cap E # {}}
Spoil(E) ==
  spoilt' = IF Meeting(E) = {} /\ E \cap spoilt = {} THEN spoilt
            ELSE spoilt \cup E \cup UNION {Concern(c) : c \in Meeting(E)}

(* SQLite gives the id of a deleted row again: a change under way that     *)
(* still has it will take the new row for its own, so the endpoint of that *)
(* is spoilt.                                                              *)
NewId == 1 + Max({0} \cup {r.id : r \in table})
GivenAgain == \E d \in Admin : arg[d].id = NewId

(* Bound: once something is spoilt only some changes begin before a        *)
(* restart: Late has their kinds, each with whether it concerns what is    *)
(* spoilt and whether another change still has the next id.                *)
Receive(c, a, p) ==
  LET E == {a.from, a.to, a.test} \ {None}
  IN  /\ pc[c] = "idle"
      /\ \/ spoilt = {}
         \/ <<a.kind, E \cap spoilt # {}, GivenAgain>> \in Late
      /\ Move(c, p)
      /\ arg' = [arg EXCEPT ![c] = a]
      /\ Spoil(E)
      /\ UNCHANGED <<table, prods, held, own>>

(* addProduct refuses an endpoint that is in the dictionary; the new       *)
(* product is connected before there is a row for it.                      *)
AddProduct(c) ==
  \E e \in Endpoint, d \in Connection :
    /\ prods[e] = None
    /\ Receive(c, [kind |-> "add", id |-> 0, from |-> None,
                   to |-> e, test |-> e, conn |-> d, was |-> None,
                   final |-> FALSE], "setup")

(* editProduct, where the product has to be reconnected.  Without a         *)
(* password from the caller there is none in the new connection: the old   *)
(* one is looked for under a name its arguments do not have.               *)
EditProduct(c) ==
  \E r \in table, e \in Endpoint, t \in Test, d \in Connection :
    /\ e # r.endpoint => prods[e] = None
    /\ e # r.endpoint \/ d # r.conn
    /\ Receive(c, [kind |-> "edit", id |-> r.id, from |-> r.endpoint,
                   to |-> e, test |-> t, conn |-> d, was |-> r.conn,
                   final |-> FALSE], "setup")

RemoveProduct(c) ==
  \E r \in table :
    Receive(c, [kind |-> "remove", id |-> r.id, from |-> r.endpoint,
                to |-> None, test |-> None, conn |-> None, was |-> None,
                final |-> FALSE], "remove")

(* add_product: a new object in the dictionary, or an exception.           *)
Target(c) == IF arg[c].final THEN arg[c].to ELSE arg[c].test

AddToServer(c) ==
  /\ pc[c] = "setup"
  /\ IF Target(c) = None \/ prods[Target(c)] # None
     THEN End(c) /\ UNCHANGED prods
     ELSE /\ prods' = [prods EXCEPT ![Target(c)] =
                         NewProduct(arg[c].id, arg[c].conn, "new")]
          /\ held' = [held EXCEPT ![c] = Target(c)]
          /\ Move(c, "connecting") /\ UNCHANGED <<arg, own>>
  /\ UNCHANGED <<table, spoilt>>

(* connect, of a new object or for a request: it takes its time, and       *)
(* others may connect the same object meanwhile.  After a failure nobody   *)
(* tries for a while.  The request is then answered.                       *)
Connect(c) ==
  /\ pc[c] = "connect"
  /\ LET p == IF own[c] = None THEN prods[held[c]] ELSE own[c]
     IN  IF p.state \in {"connected", "failed"}
         THEN End(c)
         ELSE Move(c, "connecting") /\ UNCHANGED <<held, own, arg>>
  /\ UNCHANGED <<table, prods, spoilt>>

ConnectEnds(c, state) ==
  /\ pc[c] = "connecting"
  /\ prods' = IF own[c] = None
              THEN [prods EXCEPT ![held[c]].state = state] ELSE prods
  /\ IF c \in Client \/ arg[c].final
     THEN End(c)
     ELSE /\ Move(c, "check") /\ UNCHANGED arg
          /\ held' = [held EXCEPT ![c] = None]
          /\ own' = [own EXCEPT ![c] = None]
  /\ UNCHANGED <<table, spoilt>>

ConnectSucceeds(c) == ConnectEnds(c, "connected")
ConnectFails(c) == ConnectEnds(c, "failed")

(* The connection that is in the dictionary now is looked at.              *)
CheckConnection(c) ==
  /\ pc[c] = "check"
  /\ LET p == prods[arg[c].test]
     IN  IF p = None
         THEN End(c)
         ELSE /\ Move(c, IF p.state \in {"failed", "waiting"} THEN "undo"
                         ELSE IF arg[c].kind = "add" THEN "insert"
                         ELSE "untest")
              /\ UNCHANGED <<held, own, arg>>
  /\ UNCHANGED <<table, prods, spoilt>>

(* remove_product tears the connection down and forgets the object; it     *)
(* raises ValueError if there is none.                                     *)
Forgotten(c) == IF pc[c] = "remove" THEN arg[c].from ELSE arg[c].test

AfterRemoval(c) ==
  CASE pc[c] = "undo" -> "idle"
    [] pc[c] = "untest" -> "update"
    [] pc[c] = "unset" -> "reload"
    [] pc[c] = "remove" -> IF arg[c].kind = "remove" THEN "delete" ELSE "setup"

RemoveFromServer(c) ==
  /\ pc[c] \in Removing
  /\ LET e == Forgotten(c)
     IN  IF prods[e] = None
         THEN End(c) /\ UNCHANGED prods
         ELSE /\ prods' = [prods EXCEPT ![e] = None]
              /\ own' = [d \in Call |-> IF held[d] = e /\ own[d] = None
                                        THEN prods[e] ELSE own[d]]
              /\ Move(c, AfterRemoval(c))
              /\ arg' = IF pc[c] = "undo"
                        THEN [arg EXCEPT ![c] = NoArgument] ELSE arg
              /\ UNCHANGED held
  /\ UNCHANGED <<table, spoilt>>

(* A commit that fails leaves the dictionary as it is.                     *)
CommitFails(c) ==
  /\ CommitsFail /\ pc[c] \in {"insert", "update", "delete"}
  /\ spoilt' = spoilt \cup Concern(c)
  /\ End(c)
  /\ UNCHANGED <<table, prods>>

(* A row for the new product, with the next id.                            *)
InsertRow(c) ==
  /\ pc[c] = "insert" /\ NewId <= MaxId
  /\ IF arg[c].to \in Endpoints
     THEN End(c) /\ UNCHANGED <<table, spoilt>>
     ELSE /\ table' = table \cup
                 {[id |-> NewId,
                   endpoint |-> arg[c].to, conn |-> arg[c].conn]}
          /\ spoilt' = IF GivenAgain THEN spoilt \cup Concern(c) ELSE spoilt
          /\ Move(c, "unset") /\ UNCHANGED <<held, own, arg>>
  /\ UNCHANGED prods

(* The row is read again after the commit: by its endpoint in addProduct,  *)
(* by its id in editProduct, where it is missed only when it is used.      *)
Reread(c) ==
  {r \in table : IF arg[c].kind = "add"
                 THEN r.endpoint = arg[c].to ELSE r.id = arg[c].id}

ReloadRow(c) ==
  /\ pc[c] = "reload"
  /\ \/ \E r \in Reread(c) :
          /\ arg' = [arg EXCEPT ![c] =
               [@ EXCEPT !.final = TRUE, !.id = r.id, !.to = r.endpoint,
                         !.conn = r.conn]]
          /\ Move(c, IF arg[c].kind = "add" THEN "setup" ELSE "remove")
          /\ UNCHANGED <<held, own>>
     \/ /\ Reread(c) = {} /\ arg[c].kind = "add"
        /\ End(c)
     \/ /\ Reread(c) = {} /\ arg[c].kind = "edit"
        /\ arg' = [arg EXCEPT ![c] = [@ EXCEPT !.final = TRUE, !.to = None]]
        /\ Move(c, "remove") /\ UNCHANGED <<held, own>>
  /\ UNCHANGED <<table, prods, spoilt>>

(* The edited product, where only what has changed is written.             *)
Edited(r, c) ==
  [id |-> r.id,
   endpoint |-> IF arg[c].to = arg[c].from THEN r.endpoint ELSE arg[c].to,
   conn |-> IF arg[c].conn = arg[c].was THEN r.conn ELSE arg[c].conn]

Clash(R, T) == \E r \in R, t \in T : r.endpoint = t.endpoint

(* Mutant: the edited product is added to the table as a new object.       *)
UpdateRowAdds(c) ==
  /\ pc[c] = "update"
  /\ LET mine == {r \in table : r.id = arg[c].id}
         edited == {Edited(r, c) : r \in mine}
     IN  IF mine = {} \/ Clash(table \ mine, edited)
         THEN End(c) /\ UNCHANGED table
         ELSE /\ table' = table \cup edited
              /\ Move(c, "reload") /\ UNCHANGED <<held, own, arg>>
  /\ UNCHANGED <<prods, spoilt>>

(* Mutant: the product is not connected again.                             *)
UpdateRowOnly(c) ==
  /\ pc[c] = "update"
  /\ LET mine == {r \in table : r.id = arg[c].id}
         edited == {Edited(r, c) : r \in mine}
     IN  IF mine = {} \/ Clash(table \ mine, edited)
         THEN UNCHANGED table
         ELSE table' = (table \ mine) \cup edited
  /\ End(c)
  /\ UNCHANGED <<prods, spoilt>>

(* The row may be gone by now, and its new endpoint taken.                 *)
UpdateRow(c) ==
  /\ pc[c] = "update"
  /\ LET mine == {r \in table : r.id = arg[c].id}
         edited == {Edited(r, c) : r \in mine}
     IN  IF mine = {} \/ Clash(table \ mine, edited)
         THEN End(c) /\ UNCHANGED table
         ELSE /\ table' = (table \ mine) \cup edited
              /\ Move(c, "reload") /\ UNCHANGED <<held, own, arg>>
  /\ UNCHANGED <<prods, spoilt>>

DeleteRow(c) ==
  /\ pc[c] = "delete"
  /\ table' = {r \in table : r.id # arg[c].id}
  /\ End(c)
  /\ UNCHANGED <<prods, spoilt>>

(* do_POST and getProducts look the product up, and connect it if it is    *)
(* not connected.                                                          *)
Route(c, e) ==
  /\ pc[c] = "idle" /\ prods[e] # None /\ prods[e].state # "connected"
  /\ held' = [held EXCEPT ![c] = e]
  /\ Move(c, "connect")
  /\ UNCHANGED <<table, prods, arg, own, spoilt>>

(* CONNECT_RETRY_TIMEOUT is over.                                          *)
RetryTimeout(e) ==
  /\ prods[e] # None /\ prods[e].state = "failed"
  /\ prods' = [prods EXCEPT ![e].state = "waiting"]
  /\ UNCHANGED <<table, pc, arg, held, own, spoilt>>

(* The server is killed and started again.                                 *)
Restart ==
  /\ Starts(prods')
  /\ pc' = [c \in Call |-> "idle"] /\ arg' = [c \in Admin |-> NoArgument]
  /\ held' = [c \in Call |-> None] /\ own' = [c \in Call |-> None]
  /\ spoilt' = {}
  /\ UNCHANGED table

Change(c) ==
  \/ AddToServer(c) \/ CheckConnection(c) \/ RemoveFromServer(c)
  \/ InsertRow(c) \/ ReloadRow(c) \/ UpdateRow(c) \/ DeleteRow(c)

Step(c) == Connect(c) \/ ConnectSucceeds(c) \/ ConnectFails(c)

Next ==
  \/ \E c \in Admin : \/ AddProduct(c) \/ EditProduct(c) \/ RemoveProduct(c)
                      \/ Change(c) \/ CommitFails(c)
  \/ \E c \in Client, e \in Endpoint : Route(c, e)
  \/ \E c \in Call : Step(c)
  \/ \E e \in Endpoint : RetryTimeout(e)
  \/ Restart

Spec == Init /\ [][Next]_vars
-----------------------------------------------------------------------------
Served(e) ==
  IF prods[e] = None THEN {}
  ELSE {[id |-> prods[e].id, endpoint |-> e, conn |-> prods[e].conn]}

(* While no change of an endpoint is under way, requests to it go to the   *)
(* database the table names, or nowhere if it names none.  Overlapping     *)
(* changes, a commit that fails and an id that is given again while a      *)
(* change goes on that has it spoil that for their own endpoints, until a  *)
(* restart, and for no others.                                             *)
ServedFromTable ==
  \A e \in Name \ spoilt :
    ~Busy(e) => Served(e) = {r \in table : r.endpoint = e}

(* addProduct, "we use the actual database-backed configuration entry to   *)
(* handle connections": the connection is what the table says, whatever    *)
(* changes are made at the same time.                                      *)
DatabaseBacked ==
  (\A c \in Admin : pc[c] = "idle") =>
    \A e \in Name : Served(e) = {r \in table : r.endpoint = e}

(* editProduct, "the password was not changed. Retrieving from old          *)
(* configuration": an edit without a password keeps the one there was.     *)
PasswordKept ==
  [][\A r \in table, t \in table' :
        /\ r.id = t.id /\ r.conn.db = t.conn.db
        /\ r.conn.password
        => t.conn.password]_vars

(* The table and the dictionary of connections agree (addProduct,          *)
(* editProduct, removeProduct).                                            *)
TableServed == TypeOK /\ ServedFromTable
=============================================================================
