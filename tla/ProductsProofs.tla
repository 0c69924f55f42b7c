--------------------------- MODULE ProductsProofs ---------------------------
(***************************************************************************)
(* Theorems about Products for any number of changes at a time, requests,  *)
(* endpoints and databases, on servers whose commits may fail: whatever    *)
(* is not spoilt by changes that meet is served from the table.            *)
(***************************************************************************)
EXTENDS Products, FiniteSetTheorems, WellFoundedInduction, TLAPS

Kind == {"add", "edit", "remove"}

(* What the control state of a change says of its arguments.               *)
Adding(c) ==
  /\ arg[c].from = None /\ arg[c].test \in Endpoint
  /\ arg[c].to = arg[c].test /\ arg[c].conn \in Connection
  /\ pc[c] \in {"setup", "connecting", "check", "undo", "insert", "unset",
                "reload"}
  /\ arg[c].final => pc[c] \in {"setup", "connecting"}
  /\ ~arg[c].final => arg[c].id = 0

Editing(c) ==
  /\ arg[c].from \in Endpoint /\ arg[c].test \in Test
  /\ arg[c].conn \in Connection /\ arg[c].was \in Connection
  /\ pc[c] \in {"setup", "connecting", "check", "undo", "untest", "update",
                "reload", "remove"}
  /\ arg[c].final => pc[c] \in {"setup", "connecting", "remove"}
  /\ ~arg[c].final => pc[c] # "remove" /\ arg[c].to \in Endpoint

ARemoval(c) ==
  /\ arg[c].from \in Endpoint /\ arg[c].to = None /\ arg[c].test = None
  /\ ~arg[c].final /\ pc[c] \in {"remove", "delete"}

ControlOf(c) ==
  IF pc[c] = "idle" THEN arg[c] = NoArgument
  ELSE CASE arg[c].kind = "add" -> Adding(c)
         [] arg[c].kind = "edit" -> Editing(c)
         [] arg[c].kind = "remove" -> ARemoval(c)

(* The object a thread uses is in the dictionary, or it has it itself.     *)
HeldOf(c) ==
  IF pc[c] \in {"connect", "connecting"}
  THEN held[c] \in Name /\ (own[c] = None => prods[held[c]] # None)
  ELSE held[c] = None /\ own[c] = None

(* Who holds the id of a row is about its endpoint, or that is spoilt.     *)
IdOf(c) ==
  \A r \in table : r.id = arg[c].id => r.endpoint \in Concern(c) \cup spoilt

(* All of a change is spoilt or nothing, and what is not is its own.       *)
Clean(c) == Concern(c) \cap spoilt = {}

ApartOf(c) ==
  /\ Clean(c) \/ Concern(c) \subseteq spoilt
  /\ Clean(c) => \A d \in Admin \ {c} : Concern(c) \cap Concern(d) = {}

At(e) == {r \in table : r.endpoint = e}
Agrees(e) == Served(e) = At(e)

RowFor(c, e, d) == [id |-> arg[c].id, endpoint |-> e, conn |-> d]

(* How far a change has come that nobody disturbs: on which of its         *)
(* endpoints the table and the dictionary agree, and what they have.       *)
AddingWell(c) ==
  LET e == arg[c].test
  IN  IF arg[c].final
      THEN /\ pc[c] = "setup" => /\ Served(e) = {}
                                 /\ At(e) = {RowFor(c, e, arg[c].conn)}
           /\ pc[c] = "connecting" => Agrees(e)
      ELSE /\ pc[c] = "setup" => Agrees(e)
           /\ pc[c] \in {"connecting", "check", "undo", "insert"} =>
                Served(e) # {} /\ At(e) = {}
           /\ pc[c] = "unset" => Served(e) # {} /\ At(e) # {}
           /\ pc[c] = "reload" => Served(e) = {} /\ At(e) # {}

EditingWell(c) ==
  LET from == arg[c].from
      to == arg[c].to
      test == arg[c].test
      Found == /\ Agrees(from) /\ Agrees(to)
               /\ At(from) = {RowFor(c, from, arg[c].was)}
               /\ to # from => At(to) = {}
      Written == /\ Agrees(test) /\ Served(from) # {}
                 /\ At(to) = {RowFor(c, to, arg[c].conn)}
                 /\ to # from => Served(to) = {} /\ At(from) = {}
  IN  /\ to \in Endpoint
      /\ IF arg[c].final
         THEN /\ pc[c] = "remove" => Written
              /\ pc[c] = "setup" =>
                   /\ Agrees(test) /\ Served(to) = {}
                   /\ At(to) = {RowFor(c, to, arg[c].conn)}
                   /\ to # from => Agrees(from)
              /\ pc[c] = "connecting" =>
                   Agrees(from) /\ Agrees(to) /\ Agrees(test)
         ELSE /\ pc[c] \in {"setup", "update"} => Found /\ Agrees(test)
              /\ pc[c] \in {"connecting", "check", "undo", "untest"} =>
                   Found /\ Served(test) # {}
              /\ pc[c] = "reload" => Written

RemovalWell(c) ==
  LET e == arg[c].from
  IN  /\ At(e) # {} /\ \A r \in At(e) : r.id = arg[c].id
      /\ pc[c] = "remove" => Agrees(e)
      /\ pc[c] = "delete" => Served(e) = {}

WellOf(c) ==
  Clean(c) /\ pc[c] # "idle" =>
    /\ arg[c].kind = "add" => AddingWell(c)
    /\ arg[c].kind = "edit" => EditingWell(c)
    /\ arg[c].kind = "remove" => RemovalWell(c)

ChangeOf(c) == ControlOf(c) /\ IdOf(c) /\ ApartOf(c) /\ WellOf(c)

Inv == /\ TypeOK
       /\ IsFiniteSet(table)
       /\ \A c \in Call : HeldOf(c)
       /\ \A c \in Admin : ChangeOf(c)
       /\ ServedFromTable
-----------------------------------------------------------------------------
(* What a step leaves alone.                                               *)
Stays(e) == At(e)' = At(e) /\ Served(e)' = Served(e)

Same(d) == pc'[d] = pc[d] /\ arg'[d] = arg[d]

(* A step of a change: it leaves alone what it is not about, but for what  *)
(* is spoilt, and what it has been about agrees when it leaves that.       *)
Keeps(c) ==
  /\ \A d \in Admin \ {c} : Same(d)
  /\ spoilt \subseteq spoilt' /\ spoilt' \subseteq spoilt \cup Concern(c)
  /\ Concern(c)' \subseteq Concern(c) \cup spoilt'
  /\ \A e \in Name \ (Concern(c) \cup spoilt) : Stays(e)
  /\ \A e \in Concern(c) \ (Concern(c)' \cup spoilt') : Agrees(e)'

LEMMA NoneIsNoName == None \notin Name /\ None \notin Endpoint /\ None \notin Test
  BY ProductAssumption DEF Name

LEMMA ServedFacts ==
  ASSUME NEW e
  PROVE  /\ Served(e) = {} <=> prods[e] = None
         /\ prods[e] # None =>
              Served(e) = {[id |-> prods[e].id, endpoint |-> e,
                            conn |-> prods[e].conn]}
  BY DEF Served

LEMMA SameProduct ==
  ASSUME NEW e, prods'[e] = prods[e]
  PROVE  Served(e)' = Served(e)
  BY DEF Served

LEMMA SameTable ==
  ASSUME table' = table
  PROVE  \A e : At(e)' = At(e)
  BY DEF At

LEMMA ConcernIn ==
  ASSUME TypeOK, NEW c \in Admin
  PROVE  Concern(c) \subseteq Name
  BY DEF TypeOK, Argument, Concern, Name

LEMMA Members ==
  ASSUME NEW c \in Admin, TypeOK, ControlOf(c), pc[c] # "idle"
  PROVE  /\ arg[c].kind \in Kind
         /\ arg[c].kind = "add" => Adding(c) /\ Concern(c) = {arg[c].test}
         /\ arg[c].kind = "edit" =>
              /\ Editing(c)
              /\ arg[c].from \in Concern(c) /\ arg[c].test \in Concern(c)
              /\ arg[c].to \in Endpoint => arg[c].to \in Concern(c)
              /\ \A e \in Concern(c) : e \in {arg[c].from, arg[c].to, arg[c].test}
              /\ arg[c].test # arg[c].from /\ arg[c].test # arg[c].to
         /\ arg[c].kind = "remove" =>
              ARemoval(c) /\ Concern(c) = {arg[c].from}
  <1>1. arg[c] \in Argument
    BY DEF TypeOK
  <1>2. arg[c].kind \in Kind
    BY <1>1 DEF Argument, Kind
  <1>3. /\ arg[c].kind = "add" => Adding(c)
        /\ arg[c].kind = "edit" => Editing(c)
        /\ arg[c].kind = "remove" => ARemoval(c)
    BY <1>2 DEF ControlOf, Kind
  <1>4. arg[c].to \in Endpoint \cup {None}
    BY <1>1 DEF Argument
  <1> QED
    BY <1>2, <1>3, <1>4, NoneIsNoName, ProductAssumption
       DEF Concern, Adding, Editing, ARemoval

(* Whatever stays as it was for a change, the change stays well.           *)
LEMMA StaysWell ==
  ASSUME Inv, NEW d \in Admin, Same(d), Clean(d)' => Clean(d),
         Clean(d) => \A e \in Concern(d) : Stays(e)
  PROVE  ControlOf(d)' /\ WellOf(d)'
  <1>1. ControlOf(d) /\ WellOf(d) /\ TypeOK
    BY DEF Inv, ChangeOf
  <1>2. ControlOf(d)'
    BY <1>1 DEF ControlOf, Same, Adding, Editing, ARemoval
  <1>3. ASSUME Clean(d)', pc[d] # "idle"
        PROVE  /\ arg[d].kind = "add" => AddingWell(d)'
               /\ arg[d].kind = "edit" => EditingWell(d)'
               /\ arg[d].kind = "remove" => RemovalWell(d)'
    <2>1. /\ arg[d].kind = "add" => AddingWell(d)
          /\ arg[d].kind = "edit" => EditingWell(d)
          /\ arg[d].kind = "remove" => RemovalWell(d)
      BY <1>1, <1>3 DEF WellOf
    <2>2. \A e \in Concern(d) : Stays(e)
      BY <1>3
    <2>3. /\ arg[d].kind = "add" => Concern(d) = {arg[d].test}
          /\ arg[d].kind = "edit" =>
               /\ arg[d].from \in Concern(d) /\ arg[d].test \in Concern(d)
               /\ arg[d].to \in Endpoint => arg[d].to \in Concern(d)
          /\ arg[d].kind = "remove" => Concern(d) = {arg[d].from}
      BY <1>1, <1>3, Members
    <2>4. \A e, x : RowFor(d, e, x)' = RowFor(d, e, x)
      BY DEF RowFor, Same
    <2>5. CASE arg[d].kind = "add"
      <3>1. Stays(arg[d].test)
        BY <2>2, <2>3, <2>5
      <3> QED
        BY <2>1, <2>4, <2>5, <3>1 DEF AddingWell, Stays, Same, Agrees, RowFor
    <2>6. CASE arg[d].kind = "edit"
      <3>1. arg[d].to \in Endpoint
        BY <2>1, <2>6 DEF EditingWell
      <3>2. Stays(arg[d].from) /\ Stays(arg[d].test) /\ Stays(arg[d].to)
        BY <2>2, <2>3, <2>6, <3>1
      <3> QED
        BY <2>1, <2>4, <2>6, <3>1, <3>2
           DEF EditingWell, Stays, Same, Agrees, RowFor
    <2>7. CASE arg[d].kind = "remove"
      <3>1. Stays(arg[d].from)
        BY <2>2, <2>3, <2>7
      <3> QED
        BY <2>1, <2>7, <3>1 DEF RemovalWell, Stays, Same, Agrees
    <2> QED
      BY <2>5, <2>6, <2>7
  <1>4. WellOf(d)'
    BY <1>3 DEF WellOf, Same
  <1> QED
    BY <1>2, <1>4

(* A step that is no change's.                                             *)
LEMMA NoChange ==
  ASSUME Inv, \A d \in Admin : Same(d), UNCHANGED <<table, spoilt>>,
         \A e \in Name : Served(e)' = Served(e)
  PROVE  (\A d \in Admin : ChangeOf(d)') /\ ServedFromTable'
  <1>1. \A e \in Name : Stays(e)
    BY SameTable DEF Stays
  <1>2. \A d \in Admin : Concern(d)' = Concern(d)
    BY DEF Concern, Same
  <1>3. ASSUME NEW d \in Admin
        PROVE  ChangeOf(d)'
    <2>1. ControlOf(d)' /\ WellOf(d)'
      BY <1>1, <1>2, StaysWell, ConcernIn DEF Inv, Clean
    <2>2. IdOf(d)' /\ ApartOf(d)'
      BY <1>2 DEF Inv, ChangeOf, IdOf, ApartOf, Same, Clean
    <2> QED
      BY <2>1, <2>2 DEF ChangeOf
  <1>4. ServedFromTable'
    BY <1>1, <1>2 DEF Inv, ServedFromTable, Busy, Stays, At
  <1> QED
    BY <1>3, <1>4

(* A step of a change.                                                     *)
LEMMA Others ==
  ASSUME Inv, NEW c \in Admin, Keeps(c), NEW d \in Admin \ {c}
  PROVE  ControlOf(d)' /\ ApartOf(d)' /\ WellOf(d)'
  <1>1. ApartOf(d) /\ Concern(d)' = Concern(d) /\ Same(d)
    BY DEF Inv, ChangeOf, Keeps, Same, Concern
  <1>2. Concern(d) \subseteq Name
    BY ConcernIn DEF Inv
  <1>3. Clean(d)' => Clean(d)
    BY <1>1 DEF Clean, Keeps
  <1>4. Clean(d) => Concern(d) \cap (Concern(c) \cup spoilt) = {}
    BY <1>1 DEF ApartOf, Clean
  <1>5. ControlOf(d)' /\ WellOf(d)'
    BY <1>1, <1>2, <1>3, <1>4, StaysWell DEF Keeps
  <1>6. \A g \in Admin \ {d} :
          \/ Concern(g)' = Concern(g)
          \/ g = c /\ Concern(g)' \subseteq Concern(c) \cup spoilt'
    BY DEF Keeps, Same, Concern
  <1>7. ApartOf(d)'
    BY <1>1, <1>3, <1>4, <1>6 DEF ApartOf, Clean, Keeps
  <1> QED
    BY <1>5, <1>7

LEMMA ByChange ==
  ASSUME Inv, NEW c \in Admin, Keeps(c), TypeOK', IsFiniteSet(table)',
         \A d \in Call : HeldOf(d)',
         \A d \in Admin \ {c} : IdOf(d)', ChangeOf(c)'
  PROVE  Inv'
  <1>1. \A d \in Admin : ChangeOf(d)'
    BY Others DEF ChangeOf
  <1>2. ServedFromTable'
    <2> SUFFICES ASSUME NEW e \in Name \ spoilt', ~Busy(e)'
                 PROVE  Agrees(e)'
      BY DEF ServedFromTable, Agrees, At
    <2>1. e \notin spoilt /\ e \notin Concern(c)'
      BY DEF Keeps, Busy
    <2>2. CASE e \in Concern(c)
      BY <2>1, <2>2 DEF Keeps
    <2>3. CASE e \notin Concern(c)
      <3>1. \A d \in Admin \ {c} : Concern(d)' = Concern(d)
        BY DEF Keeps, Same, Concern
      <3>2. ~Busy(e)
        BY <2>3, <3>1 DEF Busy
      <3>3. Agrees(e)
        BY <2>1, <3>2 DEF Inv, ServedFromTable, Agrees, At
      <3> QED
        BY <2>1, <2>3, <3>3 DEF Keeps, Stays, Agrees
    <2> QED
      BY <2>2, <2>3
  <1> QED
    BY <1>1, <1>2 DEF Inv
-----------------------------------------------------------------------------
(* Calls arrive.                                                           *)
LEMMA RowOfTable ==
  ASSUME TypeOK, NEW r \in table
  PROVE  /\ r \in Row /\ r.endpoint \in Endpoint /\ r.conn \in Connection
         /\ r.id \in Nat \ {0}
         /\ r = [id |-> r.id, endpoint |-> r.endpoint, conn |-> r.conn]
         /\ At(r.endpoint) = {r}
         /\ \A t \in table : t.id = r.id => t = r
  <1>1. r \in Row /\ \A t \in table : t.endpoint = r.endpoint \/ t.id = r.id => t = r
    BY DEF TypeOK
  <1>2. At(r.endpoint) = {r}
    BY <1>1 DEF At
  <1> QED
    BY <1>1, <1>2 DEF Row

LEMMA ReceiveKeeps ==
  ASSUME Inv, NEW c \in Admin, NEW a \in Argument, NEW p \in AdminPC,
         Receive(c, a, p), p \notin {"idle", "connect", "connecting"},
         \A r \in table : r.id = a.id => r.endpoint \in {a.from, a.to, a.test},
         ControlOf(c)',
         Clean(c)' /\ (\A e \in {a.from, a.to, a.test} \ {None} : Agrees(e)) =>
           /\ a.kind = "add" => AddingWell(c)'
           /\ a.kind = "edit" => EditingWell(c)'
           /\ a.kind = "remove" => RemovalWell(c)'
  PROVE  Inv'
  <1> DEFINE E == {a.from, a.to, a.test} \ {None}
  <1>1. /\ pc[c] = "idle" /\ pc' = [pc EXCEPT ![c] = p]
        /\ arg' = [arg EXCEPT ![c] = a] /\ Spoil(E)
        /\ UNCHANGED <<table, prods, held, own>>
    BY DEF Receive, Move
  <1>2. TypeOK /\ ChangeOf(c) /\ c \in Call
    BY DEF Inv, Call
  <1>3. arg[c] = NoArgument /\ Concern(c) = {}
    BY <1>1, <1>2 DEF ChangeOf, ControlOf, Concern, NoArgument
  <1>4. pc'[c] = p /\ arg'[c] = a /\ Concern(c)' = E
    BY <1>1, <1>2 DEF TypeOK, Concern
  <1>5. \A d \in Call \ {c} : pc'[d] = pc[d]
    BY <1>1, <1>2 DEF TypeOK
  <1>6. \A d \in Admin \ {c} : Same(d) /\ Concern(d)' = Concern(d)
    BY <1>1, <1>2, <1>5 DEF TypeOK, Same, Concern, Call
  <1>7. E \subseteq Name
    BY DEF Argument, Name
  <1>8. TypeOK'
    <2>1. spoilt' \subseteq Name
      <3>1. \A d \in Admin : Concern(d) \subseteq Name
        BY <1>2, ConcernIn
      <3>2. spoilt \subseteq Name
        BY <1>2 DEF TypeOK
      <3> HIDE DEF E
      <3> QED
        BY <1>1, <1>7, <3>1, <3>2 DEF Spoil, Meeting
    <2> HIDE DEF E
    <2> QED
      BY <1>1, <1>2, <2>1 DEF TypeOK
  <1> HIDE DEF E
  <1>9. \A d \in Call : HeldOf(d)'
    <2> TAKE d \in Call
    <2>1. HeldOf(d)
      BY DEF Inv
    <2>2. CASE d = c
      BY <1>1, <1>4, <2>1, <2>2 DEF HeldOf
    <2>3. CASE d # c
      BY <1>1, <1>5, <2>1, <2>3 DEF HeldOf
    <2> QED
      BY <2>2, <2>3
  <1>10. /\ spoilt \subseteq spoilt'
         /\ \/ spoilt' = spoilt /\ Meeting(E) = {} /\ E \cap spoilt = {}
            \/ E \subseteq spoilt'
    BY <1>1 DEF Spoil
  <1>11. \A e : Agrees(e)' <=> Agrees(e)
    BY <1>1 DEF Agrees, Served, At
  <1>12. ASSUME NEW d \in Admin \ {c}
         PROVE  ChangeOf(d)'
    <2>1. ChangeOf(d) /\ Same(d) /\ Concern(d)' = Concern(d)
      BY <1>6 DEF Inv
    <2>2. Clean(d)' => Clean(d)
      BY <1>10, <2>1 DEF Clean
    <2>3. \A e : Stays(e)
      BY <1>1 DEF Stays, Served, At
    <2>4. ControlOf(d)' /\ WellOf(d)'
      BY <2>1, <2>2, <2>3, StaysWell
    <2>5. IdOf(d)'
      BY <1>1, <1>10, <2>1 DEF ChangeOf, IdOf, Same
    <2>6. Concern(d) \cap E # {} => Concern(d) \subseteq spoilt'
      BY <1>1 DEF Spoil, Meeting
    <2>7. Clean(d)' => \A g \in Admin \ {d} : Concern(d) \cap Concern(g)' = {}
      <3> SUFFICES ASSUME Clean(d)', NEW g \in Admin \ {d}
                   PROVE  Concern(d) \cap Concern(g)' = {}
        OBVIOUS
      <3>1. CASE g = c
        BY <1>4, <2>1, <2>6, <3>1 DEF Clean
      <3>2. CASE g # c
        BY <1>6, <2>1, <2>2, <3>2 DEF ChangeOf, ApartOf
      <3> QED
        BY <3>1, <3>2
    <2>8. Clean(d)' \/ Concern(d) \subseteq spoilt'
      <3>1. CASE Concern(d) \cap E # {}
        BY <2>6, <3>1
      <3>2. CASE ~Clean(d)
        BY <1>10, <2>1, <3>2 DEF ChangeOf, ApartOf
      <3>3. CASE Clean(d) /\ Concern(d) \cap E = {}
        <4>1. \A g \in Meeting(E) : Concern(d) \cap Concern(g) = {}
          <5> TAKE g \in Meeting(E)
          <5>1. g \in Admin /\ g # d
            BY <3>3 DEF Meeting
          <5> QED
            BY <2>1, <3>3, <5>1 DEF ChangeOf, ApartOf
        <4>2. Concern(d) \cap spoilt' = {}
          BY <1>1, <3>3, <4>1 DEF Spoil, Clean
        <4> QED
          BY <2>1, <4>2 DEF Clean
      <3> QED
        BY <3>1, <3>2, <3>3
    <2>9. ApartOf(d)'
      BY <2>1, <2>7, <2>8 DEF ApartOf
    <2> QED
      BY <2>4, <2>5, <2>9 DEF ChangeOf
  <1>13. ChangeOf(c)'
    <2>1. IdOf(c)'
      <3>1. \A r \in table : r.endpoint # None
        BY <1>2, NoneIsNoName DEF TypeOK, Row
      <3> QED
        BY <1>1, <1>4, <3>1 DEF IdOf, E
    <2>2. Clean(c)' => E = {} \/ (spoilt' = spoilt /\ Meeting(E) = {} /\ E \cap spoilt = {})
      BY <1>4, <1>10 DEF Clean
    <2>3. ApartOf(c)'
      <3>1. Clean(c)' \/ E \subseteq spoilt'
        BY <1>4, <1>10 DEF Clean
      <3>2. Meeting(E) = {} => \A d \in Admin : Concern(d) \cap E = {}
        BY DEF Meeting
      <3> QED
        BY <1>4, <1>6, <2>2, <3>1, <3>2 DEF ApartOf
    <2>4. Clean(c)' => \A e \in E : Agrees(e)
      <3> SUFFICES ASSUME Clean(c)', NEW e \in E
                   PROVE  Agrees(e)
        OBVIOUS
      <3>1. e \notin spoilt /\ ~Busy(e) /\ e \in Name
        BY <1>7, <2>2 DEF Meeting, Busy
      <3> QED
        BY <3>1 DEF Inv, ServedFromTable, Agrees, At
    <2>5. WellOf(c)'
      BY <1>4, <2>4 DEF WellOf, E
    <2> QED
      BY <2>1, <2>3, <2>5 DEF ChangeOf
  <1>14. ServedFromTable'
    <2> SUFFICES ASSUME NEW e \in Name \ spoilt', ~Busy(e)'
                 PROVE  Agrees(e)'
      BY DEF ServedFromTable, Agrees, At
    <2>1. e \notin spoilt
      BY <1>10
    <2>2. ~Busy(e)
      BY <1>3, <1>6 DEF Busy
    <2> QED
      BY <1>11, <2>1, <2>2 DEF Inv, ServedFromTable, Agrees, At
  <1> QED
    BY <1>1, <1>8, <1>9, <1>12, <1>13, <1>14 DEF Inv

LEMMA StepAddProduct ==
  ASSUME Inv, NEW c \in Admin, AddProduct(c)
  PROVE  Inv'
  <1>1. PICK e \in Endpoint, d \in Connection :
          Receive(c, [kind |-> "add", id |-> 0, from |-> None,
                      to |-> e, test |-> e, conn |-> d, was |-> None,
                      final |-> FALSE], "setup")
    BY DEF AddProduct
  <1> DEFINE a == [kind |-> "add", id |-> 0, from |-> None, to |-> e,
                   test |-> e, conn |-> d, was |-> None, final |-> FALSE]
  <1>3. a \in Argument /\ "setup" \in AdminPC
    BY DEF Argument, AdminPC, Name
  <1>4. /\ Receive(c, a, "setup") /\ a.id = 0 /\ a.kind = "add"
        /\ a.from = None /\ a.to = e /\ a.test = e /\ a.conn = d /\ ~a.final
    BY <1>1
  <1> HIDE DEF a
  <1>5. pc'[c] = "setup" /\ arg'[c] = a /\ UNCHANGED <<table, prods>>
    BY <1>4 DEF Inv, TypeOK, Receive, Move, Call
  <1>6. ControlOf(c)'
    BY <1>4, <1>5 DEF ControlOf, Adding
  <1>7. \A r \in table : r.id # 0
    BY DEF Inv, TypeOK, Row
  <1>8. Agrees(e) => AddingWell(c)'
    BY <1>4, <1>5 DEF AddingWell, Agrees, Served, At
  <1>9. \A x \in {a.from, a.to, a.test} \ {None} : x = e
    BY <1>4
  <1>10. e \in {a.from, a.to, a.test} \ {None}
    BY <1>4, NoneIsNoName
  <1> QED
    BY <1>3, <1>4, <1>6, <1>7, <1>8, <1>10, ReceiveKeeps

LEMMA StepEditProduct ==
  ASSUME Inv, NEW c \in Admin, EditProduct(c)
  PROVE  Inv'
  <1>1. PICK r \in table, e \in Endpoint, t \in Test, d \in Connection :
          /\ e # r.endpoint => prods[e] = None
          /\ Receive(c, [kind |-> "edit", id |-> r.id, from |-> r.endpoint,
                         to |-> e, test |-> t, conn |-> d, was |-> r.conn,
                         final |-> FALSE], "setup")
    BY DEF EditProduct
  <1> DEFINE a == [kind |-> "edit", id |-> r.id, from |-> r.endpoint,
                   to |-> e, test |-> t, conn |-> d, was |-> r.conn,
                   final |-> FALSE]
  <1>2. /\ r \in Row /\ r.endpoint \in Endpoint /\ r.conn \in Connection
        /\ r.id \in Nat \ {0} /\ At(r.endpoint) = {r}
        /\ \A q \in table : q.id = r.id => q = r
        /\ r = [id |-> r.id, endpoint |-> r.endpoint, conn |-> r.conn]
    BY RowOfTable DEF Inv
  <1>3. a \in Argument /\ "setup" \in AdminPC
    BY <1>2 DEF Argument, AdminPC, Name
  <1>4. /\ Receive(c, a, "setup") /\ a.id = r.id /\ a.kind = "edit"
        /\ a.from = r.endpoint /\ a.to = e /\ a.test = t /\ a.conn = d
        /\ a.was = r.conn /\ ~a.final
    BY <1>1
  <1> HIDE DEF a
  <1>5. pc'[c] = "setup" /\ arg'[c] = a /\ UNCHANGED <<table, prods>>
    BY <1>4 DEF Inv, TypeOK, Receive, Move, Call
  <1>6. ControlOf(c)'
    BY <1>2, <1>4, <1>5 DEF ControlOf, Editing
  <1>7. \A q \in table : q.id = a.id => q.endpoint \in {a.from, a.to, a.test}
    BY <1>2, <1>4
  <1>8. /\ r.endpoint \in {a.from, a.to, a.test} \ {None}
        /\ e \in {a.from, a.to, a.test} \ {None}
        /\ t \in {a.from, a.to, a.test} \ {None}
    BY <1>2, <1>4, NoneIsNoName
  <1>9. Agrees(r.endpoint) /\ Agrees(e) /\ Agrees(t) => EditingWell(c)'
    <2> SUFFICES ASSUME Agrees(r.endpoint), Agrees(e), Agrees(t)
                 PROVE  EditingWell(c)'
      OBVIOUS
    <2>1. \A x : Agrees(x)' <=> Agrees(x)
      BY <1>5 DEF Agrees, Served, At
    <2>2. \A x : At(x)' = At(x)
      BY <1>5 DEF At
    <2>3. At(r.endpoint) = {RowFor(c, r.endpoint, r.conn)'}
      BY <1>2, <1>4, <1>5 DEF RowFor
    <2>4. e # r.endpoint => At(e) = {}
      BY <1>1, ServedFacts DEF Agrees
    <2> QED
      BY <1>4, <1>5, <2>1, <2>2, <2>3, <2>4 DEF EditingWell
  <1> QED
    BY <1>3, <1>4, <1>6, <1>7, <1>8, <1>9, ReceiveKeeps

LEMMA StepRemoveProduct ==
  ASSUME Inv, NEW c \in Admin, RemoveProduct(c)
  PROVE  Inv'
  <1>1. PICK r \in table :
          Receive(c, [kind |-> "remove", id |-> r.id, from |-> r.endpoint,
                      to |-> None, test |-> None, conn |-> None,
                      was |-> None, final |-> FALSE], "remove")
    BY DEF RemoveProduct
  <1> DEFINE a == [kind |-> "remove", id |-> r.id, from |-> r.endpoint,
                   to |-> None, test |-> None, conn |-> None, was |-> None,
                   final |-> FALSE]
  <1>2. /\ r \in Row /\ r.endpoint \in Endpoint /\ r.id \in Nat \ {0}
        /\ At(r.endpoint) = {r} /\ \A q \in table : q.id = r.id => q = r
    BY RowOfTable DEF Inv
  <1>4. a \in Argument /\ "remove" \in AdminPC
    BY <1>2 DEF Argument, AdminPC, Removing
  <1>5. /\ Receive(c, a, "remove") /\ a.id = r.id /\ a.kind = "remove"
        /\ a.from = r.endpoint /\ a.to = None /\ a.test = None /\ ~a.final
    BY <1>1
  <1> HIDE DEF a
  <1>6. pc'[c] = "remove" /\ arg'[c] = a /\ UNCHANGED <<table, prods>>
    BY <1>5 DEF Inv, TypeOK, Receive, Move, Call
  <1>7. ControlOf(c)'
    BY <1>2, <1>5, <1>6 DEF ControlOf, ARemoval
  <1>8. \A q \in table : q.id = a.id => q.endpoint \in {a.from, a.to, a.test}
    BY <1>2, <1>5
  <1>9. r.endpoint \in {a.from, a.to, a.test} \ {None}
    BY <1>2, <1>5, NoneIsNoName
  <1>10. Agrees(r.endpoint) => RemovalWell(c)'
    BY <1>2, <1>5, <1>6 DEF RemovalWell, Agrees, Served, At
  <1> QED
    BY <1>4, <1>5, <1>7, <1>8, <1>9, <1>10, ReceiveKeeps
-----------------------------------------------------------------------------
(* Connections.                                                            *)
StaysThere == \A e \in Name : prods[e] # None => prods'[e] # None

LEMMA EndTyped ==
  ASSUME TypeOK, NEW c \in Call, End(c)
  PROVE  /\ pc' \in [Call -> AdminPC \cup ClientPC]
         /\ arg' \in [Admin -> Argument]
         /\ held' \in [Call -> Name \cup {None}]
         /\ own' \in [Call -> Product \cup {None}]
         /\ pc'[c] = "idle" /\ held'[c] = None /\ own'[c] = None
         /\ c \in Admin => arg'[c] = NoArgument
         /\ \A d \in Call \ {c} : /\ pc'[d] = pc[d] /\ held'[d] = held[d]
                                  /\ own'[d] = own[d]
         /\ \A d \in Admin \ {c} : arg'[d] = arg[d]
  <1>1. NoArgument \in Argument
    BY DEF NoArgument, Argument
  <1>2. "idle" \in AdminPC
    BY DEF AdminPC
  <1> QED
    BY <1>1, <1>2 DEF TypeOK, End, Move

LEMMA OthersHold ==
  ASSUME Inv, NEW d \in Call, pc'[d] = pc[d], held'[d] = held[d],
         own'[d] = own[d], StaysThere
  PROVE  HeldOf(d)'
  BY DEF Inv, HeldOf, StaysThere

(* A change that ends, whether it is done or not.                          *)
LEMMA Ends ==
  ASSUME Inv, NEW c \in Admin, End(c),
         spoilt \subseteq spoilt', spoilt' \subseteq spoilt \cup Concern(c),
         prods' \in [Name -> Product \cup {None}], StaysThere,
         \A e \in Name \ (Concern(c) \cup spoilt) : Stays(e),
         \A e \in Concern(c) \ spoilt' : Agrees(e)',
         table' \subseteq table
  PROVE  Inv'
  <1>1. TypeOK /\ c \in Call
    BY DEF Inv, Call
  <1>2. /\ pc' \in [Call -> AdminPC \cup ClientPC]
        /\ arg' \in [Admin -> Argument]
        /\ held' \in [Call -> Name \cup {None}]
        /\ own' \in [Call -> Product \cup {None}]
        /\ pc'[c] = "idle" /\ held'[c] = None /\ own'[c] = None
        /\ arg'[c] = NoArgument
        /\ \A d \in Call \ {c} : /\ pc'[d] = pc[d] /\ held'[d] = held[d]
                                 /\ own'[d] = own[d]
        /\ \A d \in Admin \ {c} : arg'[d] = arg[d]
    BY <1>1, EndTyped
  <1>3. Concern(c)' = {}
    BY <1>2 DEF Concern, NoArgument
  <1>4. \A d \in Admin \ {c} : Same(d)
    BY <1>2 DEF Same, Call
  <1>5. Keeps(c)
    BY <1>3, <1>4 DEF Keeps
  <1>6. TypeOK'
    <2>1. spoilt' \subseteq Name
      BY <1>1, ConcernIn DEF TypeOK
    <2>2. /\ table' \subseteq Row
          /\ \A r, t \in table' : r.id = t.id \/ r.endpoint = t.endpoint => r = t
      BY <1>1 DEF TypeOK
    <2> QED
      BY <1>2, <2>1, <2>2 DEF TypeOK
  <1>7. IsFiniteSet(table)'
    BY FS_Subset DEF Inv
  <1>8. \A d \in Call : HeldOf(d)'
    <2>1. HeldOf(c)'
      BY <1>2 DEF HeldOf
    <2> QED
      BY <1>2, <2>1, OthersHold
  <1>9. \A d \in Admin \ {c} : IdOf(d)'
    BY <1>4 DEF Inv, ChangeOf, IdOf, Concern, Same
  <1>10. ChangeOf(c)'
    <2>1. \A r \in table' : r.id # 0
      BY <1>6 DEF TypeOK, Row
    <2> QED
      BY <1>2, <1>3, <2>1
         DEF ChangeOf, ControlOf, IdOf, ApartOf, Clean, WellOf, NoArgument
  <1> QED
    BY <1>5, <1>6, <1>7, <1>8, <1>9, <1>10, ByChange

LEMMA StateOnly ==
  ASSUME TypeOK, NEW h \in Name, prods[h] # None,
         NEW s \in {"new", "connected", "failed", "waiting"},
         prods' = [prods EXCEPT ![h].state = s]
  PROVE  /\ prods' \in [Name -> Product \cup {None}] /\ StaysThere
         /\ \A e \in Name : Served(e)' = Served(e)
  <1>1. prods \in [Name -> Product \cup {None}] /\ prods[h] \in Product
    BY DEF TypeOK
  <1>2. [prods[h] EXCEPT !.state = s] \in Product
    BY <1>1 DEF Product
  <1>3. prods' = [prods EXCEPT ![h] = [prods[h] EXCEPT !.state = s]]
    OBVIOUS
  <1>4. /\ prods' \in [Name -> Product \cup {None}]
        /\ \A e \in Name \ {h} : prods'[e] = prods[e]
        /\ prods'[h] = [prods[h] EXCEPT !.state = s]
    BY <1>1, <1>2, <1>3
  <1>5. prods'[h] # None
    BY <1>2, <1>4, NoneAssumption
  <1>6. prods'[h].id = prods[h].id /\ prods'[h].conn = prods[h].conn
    BY <1>1, <1>4 DEF Product
  <1>7. Served(h)' = Served(h)
    BY <1>5, <1>6 DEF Served
  <1> QED
    BY <1>4, <1>5, <1>7, SameProduct DEF StaysThere

LEMMA StepConnectEnds ==
  ASSUME Inv, NEW c \in Call, NEW s \in {"connected", "failed"},
         ConnectEnds(c, s)
  PROVE  Inv'
  <1>1. TypeOK /\ HeldOf(c)
    BY DEF Inv
  <1>2. pc[c] = "connecting" /\ UNCHANGED <<table, spoilt>>
    BY DEF ConnectEnds
  <1>3. /\ prods' \in [Name -> Product \cup {None}] /\ StaysThere
        /\ \A e \in Name : Served(e)' = Served(e)
    <2>1. CASE own[c] = None
      <3>1. held[c] \in Name /\ prods[held[c]] # None
        BY <1>1, <1>2, <2>1 DEF HeldOf
      <3>2. prods' = [prods EXCEPT ![held[c]].state = s]
        BY <2>1 DEF ConnectEnds
      <3> QED
        BY <1>1, <3>1, <3>2, StateOnly
    <2>2. CASE own[c] # None
      <3>1. prods' = prods
        BY <2>2 DEF ConnectEnds
      <3> QED
        BY <1>1, <3>1, SameProduct DEF TypeOK, StaysThere
    <2> QED
      BY <2>1, <2>2
  <1>4. \A e \in Name : Stays(e)
    BY <1>2, <1>3, SameTable DEF Stays
  <1>5. CASE c \in Client
    <2>1. End(c) /\ c \notin Admin
      BY <1>5, ProductAssumption DEF ConnectEnds
    <2>2. /\ pc' \in [Call -> AdminPC \cup ClientPC]
          /\ arg' \in [Admin -> Argument]
          /\ held' \in [Call -> Name \cup {None}]
          /\ own' \in [Call -> Product \cup {None}]
          /\ pc'[c] = "idle" /\ held'[c] = None /\ own'[c] = None
          /\ \A d \in Call \ {c} : /\ pc'[d] = pc[d] /\ held'[d] = held[d]
                                   /\ own'[d] = own[d]
          /\ \A d \in Admin : arg'[d] = arg[d]
      BY <1>1, <2>1, EndTyped
    <2>3. \A d \in Admin : Same(d)
      BY <2>1, <2>2 DEF Same, Call
    <2>4. (\A d \in Admin : ChangeOf(d)') /\ ServedFromTable'
      BY <1>2, <1>3, <2>3, NoChange
    <2>5. \A d \in Call : HeldOf(d)'
      <3>1. HeldOf(c)'
        BY <2>2 DEF HeldOf
      <3> QED
        BY <1>3, <2>2, <3>1, OthersHold
    <2>6. TypeOK'
      BY <1>1, <1>2, <1>3, <2>2 DEF TypeOK
    <2> QED
      BY <1>2, <2>4, <2>5, <2>6 DEF Inv
  <1>6. CASE c \in Admin /\ arg[c].final
    <2>1. End(c)
      BY <1>6 DEF ConnectEnds
    <2>2. ChangeOf(c)
      BY <1>6 DEF Inv
    <2>3. \A e \in Concern(c) \ spoilt : Agrees(e)
      <3> SUFFICES ASSUME NEW e \in Concern(c), e \notin spoilt
                   PROVE  Agrees(e)
        OBVIOUS
      <3>1. Clean(c)
        BY <2>2 DEF ChangeOf, ApartOf
      <3>2. /\ arg[c].kind \in {"add", "edit"}
            /\ arg[c].kind = "add" => e = arg[c].test
            /\ arg[c].kind = "edit" => e \in {arg[c].from, arg[c].to, arg[c].test}
        BY <1>1, <1>2, <1>6, <2>2, Members DEF ChangeOf, Kind, ARemoval
      <3>3. /\ arg[c].kind = "add" => AddingWell(c)
            /\ arg[c].kind = "edit" => EditingWell(c)
        BY <1>2, <2>2, <3>1 DEF ChangeOf, WellOf
      <3> QED
        BY <1>2, <1>6, <3>2, <3>3 DEF AddingWell, EditingWell
    <2>4. \A e \in Concern(c) \ spoilt' : Agrees(e)'
      <3>1. Concern(c) \subseteq Name
        BY <1>1, <1>6, ConcernIn
      <3> QED
        BY <1>2, <1>4, <2>3, <3>1 DEF Agrees, Stays
    <2> QED
      BY <1>2, <1>3, <1>4, <1>6, <2>1, <2>4, Ends
  <1>7. CASE c \in Admin /\ ~arg[c].final
    <2>1. /\ pc' = [pc EXCEPT ![c] = "check"] /\ arg' = arg
          /\ held' = [held EXCEPT ![c] = None]
          /\ own' = [own EXCEPT ![c] = None]
      BY <1>7, ProductAssumption DEF ConnectEnds, Move
    <2>2. /\ pc'[c] = "check" /\ held'[c] = None /\ own'[c] = None
          /\ \A d \in Call \ {c} : /\ pc'[d] = pc[d] /\ held'[d] = held[d]
                                   /\ own'[d] = own[d]
      BY <1>1, <2>1 DEF TypeOK
    <2>3. Concern(c)' = Concern(c) /\ \A d \in Admin \ {c} : Same(d)
      BY <2>1, <2>2 DEF Concern, Same, Call
    <2>4. Keeps(c)
      BY <1>2, <1>4, <2>3 DEF Keeps
    <2>5. TypeOK'
      <3>1. "check" \in AdminPC
        BY DEF AdminPC
      <3> QED
        BY <1>1, <1>2, <1>3, <2>1, <3>1 DEF TypeOK
    <2>6. \A d \in Call : HeldOf(d)'
      <3>1. HeldOf(c)'
        BY <2>2 DEF HeldOf
      <3> QED
        BY <1>3, <2>2, <3>1, OthersHold
    <2>7. ChangeOf(c)
      BY <1>7 DEF Inv
    <2>8. \A d \in Admin : IdOf(d)'
      BY <1>2, <2>1 DEF Inv, ChangeOf, IdOf, Concern
    <2>9. ApartOf(c)'
      BY <1>2, <2>1, <2>7 DEF ChangeOf, ApartOf, Clean, Concern
    <2>10. /\ arg[c].kind \in {"add", "edit"} /\ ControlOf(c)
           /\ arg[c].kind = "add" => Adding(c) /\ Concern(c) = {arg[c].test}
           /\ arg[c].kind = "edit" =>
                /\ Editing(c) /\ arg[c].from \in Concern(c)
                /\ arg[c].test \in Concern(c)
                /\ arg[c].to \in Endpoint => arg[c].to \in Concern(c)
      BY <1>1, <1>2, <1>7, <2>7, Members DEF ChangeOf, Kind, ARemoval
    <2>11. ControlOf(c)'
      BY <1>7, <2>1, <2>2, <2>10 DEF ControlOf, Adding, Editing
    <2>12. WellOf(c)'
      <3> SUFFICES ASSUME Clean(c)'
                   PROVE  /\ arg[c].kind = "add" => AddingWell(c)'
                          /\ arg[c].kind = "edit" => EditingWell(c)'
        BY <2>1, <2>10 DEF WellOf
      <3>1. Clean(c)
        BY <1>2, <2>3 DEF Clean
      <3>2. \A e \in Concern(c) : Stays(e)
        BY <1>1, <1>4, <1>7, ConcernIn
      <3>3. /\ arg[c].kind = "add" => AddingWell(c)
            /\ arg[c].kind = "edit" => EditingWell(c)
        BY <1>2, <2>7, <3>1 DEF ChangeOf, WellOf
      <3>4. CASE arg[c].kind = "add"
        BY <1>2, <1>7, <2>1, <2>2, <2>10, <3>2, <3>3, <3>4
           DEF AddingWell, Stays
      <3>5. CASE arg[c].kind = "edit"
        <4>1. arg[c].to \in Endpoint
          BY <1>7, <2>10, <3>5 DEF Editing
        <4>2. Stays(arg[c].from) /\ Stays(arg[c].to) /\ Stays(arg[c].test)
          BY <2>10, <3>2, <3>5, <4>1
        <4> QED
          BY <1>2, <1>7, <2>1, <2>2, <3>3, <3>5, <4>1, <4>2
             DEF EditingWell, Stays, Agrees, RowFor
      <3> QED
        BY <2>10, <3>4, <3>5
    <2>13. ChangeOf(c)'
      BY <1>7, <2>8, <2>9, <2>11, <2>12 DEF ChangeOf
    <2> QED
      BY <1>2, <1>7, <2>4, <2>5, <2>6, <2>8, <2>13, ByChange DEF Inv
  <1> QED
    BY <1>5, <1>6, <1>7 DEF Call
-----------------------------------------------------------------------------
(* A step that is no change's and that no product comes or goes by.        *)
LEMMA StepRoute ==
  ASSUME Inv, NEW c \in Client, NEW e \in Endpoint, Route(c, e)
  PROVE  Inv'
  <1>1. TypeOK /\ c \in Call /\ c \notin Admin /\ e \in Name
    BY ProductAssumption DEF Inv, Call, Name
  <1>2. /\ prods[e] # None /\ pc[c] = "idle"
        /\ held' = [held EXCEPT ![c] = e] /\ pc' = [pc EXCEPT ![c] = "connect"]
        /\ UNCHANGED <<table, prods, arg, own, spoilt>>
    BY DEF Route, Move
  <1>3. /\ held'[c] = e /\ pc'[c] = "connect"
        /\ \A d \in Call \ {c} : pc'[d] = pc[d] /\ held'[d] = held[d]
    BY <1>1, <1>2 DEF TypeOK
  <1>4. TypeOK'
    <2>1. "connect" \in ClientPC
      BY DEF ClientPC
    <2> QED
      BY <1>1, <1>2, <2>1 DEF TypeOK
  <1>5. \A d \in Call : HeldOf(d)'
    <2>1. HeldOf(c)'
      BY <1>1, <1>2, <1>3 DEF HeldOf
    <2>2. StaysThere
      BY <1>2 DEF StaysThere
    <2> QED
      BY <1>2, <1>3, <2>1, <2>2, OthersHold
  <1>6. (\A d \in Admin : ChangeOf(d)') /\ ServedFromTable'
    <2>1. \A d \in Admin : Same(d)
      BY <1>1, <1>2, <1>3 DEF Same, Call
    <2> QED
      BY <1>2, <2>1, NoChange, SameProduct
  <1> QED
    BY <1>2, <1>4, <1>5, <1>6 DEF Inv

LEMMA StepRetryTimeout ==
  ASSUME Inv, NEW e \in Endpoint, RetryTimeout(e)
  PROVE  Inv'
  <1>1. TypeOK /\ e \in Name
    BY DEF Inv, Name
  <1>2. /\ prods[e] # None /\ prods' = [prods EXCEPT ![e].state = "waiting"]
        /\ UNCHANGED <<table, pc, arg, held, own, spoilt>>
    BY DEF RetryTimeout
  <1>3. /\ prods' \in [Name -> Product \cup {None}] /\ StaysThere
        /\ \A x \in Name : Served(x)' = Served(x)
    BY <1>1, <1>2, StateOnly
  <1>4. TypeOK'
    BY <1>1, <1>2, <1>3 DEF TypeOK
  <1>5. \A d \in Call : HeldOf(d)'
    BY <1>2, <1>3, OthersHold
  <1>6. (\A d \in Admin : ChangeOf(d)') /\ ServedFromTable'
    <2>1. \A d \in Admin : Same(d)
      BY <1>2 DEF Same
    <2> QED
      BY <1>2, <1>3, <2>1, NoChange
  <1> QED
    BY <1>2, <1>4, <1>5, <1>6 DEF Inv

(* Only requests connect objects that are there already.                   *)
LEMMA StepConnect ==
  ASSUME Inv, NEW c \in Call, Connect(c)
  PROVE  Inv'
  <1>1. TypeOK /\ HeldOf(c)
    BY DEF Inv
  <1>2. c \in Client /\ c \notin Admin
    <2>1. ASSUME c \in Admin
          PROVE  FALSE
      <3>1. ControlOf(c)
        BY <2>1 DEF Inv, ChangeOf
      <3>2. pc[c] = "connect"
        BY DEF Connect
      <3>3. arg[c].kind \in Kind
        BY <1>1, <2>1 DEF TypeOK, Argument, Kind
      <3> QED
        BY <3>1, <3>2, <3>3
           DEF ControlOf, Adding, Editing, ARemoval, Kind
    <2> QED
      BY <2>1 DEF Call
  <1>3. pc[c] = "connect" /\ UNCHANGED <<table, prods, spoilt>>
    BY DEF Connect
  <1>4. End(c) \/ (Move(c, "connecting") /\ UNCHANGED <<held, own, arg>>)
    BY DEF Connect
  <1>5. /\ TypeOK' /\ \A d \in Admin : arg'[d] = arg[d]
        /\ \A d \in Call \ {c} : /\ pc'[d] = pc[d] /\ held'[d] = held[d]
                                 /\ own'[d] = own[d]
        /\ HeldOf(c)'
    <2>1. CASE End(c)
      <3>1. /\ pc' \in [Call -> AdminPC \cup ClientPC]
            /\ arg' \in [Admin -> Argument]
            /\ held' \in [Call -> Name \cup {None}]
            /\ own' \in [Call -> Product \cup {None}]
            /\ pc'[c] = "idle" /\ held'[c] = None /\ own'[c] = None
            /\ \A d \in Call \ {c} : /\ pc'[d] = pc[d] /\ held'[d] = held[d]
                                     /\ own'[d] = own[d]
            /\ \A d \in Admin \ {c} : arg'[d] = arg[d]
        BY <1>1, <2>1, EndTyped
      <3>2. TypeOK'
        BY <1>1, <1>3, <3>1 DEF TypeOK
      <3>3. HeldOf(c)'
        BY <3>1 DEF HeldOf
      <3> QED
        BY <1>2, <3>1, <3>2, <3>3
    <2>2. CASE Move(c, "connecting") /\ UNCHANGED <<held, own, arg>>
      <3>1. pc' = [pc EXCEPT ![c] = "connecting"]
        BY <2>2 DEF Move
      <3>2. "connecting" \in ClientPC
        BY DEF ClientPC
      <3>3. TypeOK'
        BY <1>1, <1>3, <2>2, <3>1, <3>2 DEF TypeOK
      <3>4. pc'[c] = "connecting" /\ \A d \in Call \ {c} : pc'[d] = pc[d]
        BY <1>1, <3>1 DEF TypeOK
      <3>5. HeldOf(c)'
        BY <1>1, <1>3, <2>2, <3>4 DEF HeldOf
      <3> QED
        BY <2>2, <3>3, <3>4, <3>5
    <2> QED
      BY <1>4, <2>1, <2>2
  <1>6. \A d \in Call : HeldOf(d)'
    <2>1. StaysThere
      BY <1>3 DEF StaysThere
    <2> QED
      BY <1>5, <2>1, OthersHold
  <1>7. (\A d \in Admin : ChangeOf(d)') /\ ServedFromTable'
    <2>1. \A d \in Admin : Same(d)
      BY <1>2, <1>5 DEF Same, Call
    <2> QED
      BY <1>3, <2>1, NoChange, SameProduct
  <1> QED
    BY <1>3, <1>5, <1>6, <1>7 DEF Inv
-----------------------------------------------------------------------------
(* A change that goes on with p.                                           *)
LEMMA GoesOn ==
  ASSUME Inv, NEW c \in Admin, NEW p \in AdminPC, Move(c, p), p # "idle",
         TypeOK', IsFiniteSet(table)', \A d \in Call : HeldOf(d)',
         \A d \in Admin \ {c} : arg'[d] = arg[d],
         spoilt \subseteq spoilt', spoilt' \subseteq spoilt \cup Concern(c),
         Concern(c)' \subseteq Concern(c) \cup spoilt',
         spoilt' # spoilt => Concern(c) \subseteq spoilt',
         Clean(c) => Concern(c)' \subseteq Concern(c),
         \A e \in Name \ (Concern(c) \cup spoilt) : Stays(e),
         \A e \in Concern(c) \ (Concern(c)' \cup spoilt') : Agrees(e)',
         \A d \in Admin : IdOf(d)', ControlOf(c)',
         Clean(c) /\ Clean(c)' =>
           /\ arg'[c].kind = "add" => AddingWell(c)'
           /\ arg'[c].kind = "edit" => EditingWell(c)'
           /\ arg'[c].kind = "remove" => RemovalWell(c)'
  PROVE  Inv'
  <1>1. TypeOK /\ c \in Call /\ ApartOf(c)
    BY DEF Inv, Call, ChangeOf
  <1>2. pc'[c] = p /\ \A d \in Call \ {c} : pc'[d] = pc[d]
    BY <1>1 DEF TypeOK, Move
  <1>3. \A d \in Admin \ {c} : Same(d) /\ Concern(d)' = Concern(d)
    BY <1>2 DEF Same, Call, Concern
  <1>4. Keeps(c)
    BY <1>3 DEF Keeps
  <1>5. Clean(c)' => Clean(c) \/ Concern(c)' = {}
    BY <1>1 DEF ApartOf, Clean
  <1>6. ApartOf(c)'
    <2>1. CASE spoilt' # spoilt
      <3>1. Concern(c)' \subseteq spoilt'
        BY <2>1
      <3> QED
        BY <3>1 DEF ApartOf, Clean
    <2>2. CASE spoilt' = spoilt
      <3>1. CASE Clean(c)
        <4>1. Clean(c)'
          BY <2>2, <3>1 DEF Clean
        <4> QED
          BY <1>1, <1>3, <3>1, <4>1 DEF ApartOf
      <3>2. CASE ~Clean(c)
        <4>1. Concern(c)' \subseteq spoilt'
          BY <1>1, <2>2, <3>2 DEF ApartOf
        <4> QED
          BY <4>1 DEF ApartOf, Clean
      <3> QED
        BY <3>1, <3>2
    <2> QED
      BY <2>1, <2>2
  <1>7. ASSUME Clean(c)'
        PROVE  Clean(c)
    <2>1. arg'[c].kind \in Kind
      BY DEF TypeOK, Argument, Kind
    <2>2. Concern(c)' # {}
      <3>1. /\ arg'[c].kind = "add" => Adding(c)'
            /\ arg'[c].kind = "edit" => Editing(c)'
            /\ arg'[c].kind = "remove" => ARemoval(c)'
        BY <1>2, <2>1 DEF ControlOf, Kind
      <3> QED
        BY <2>1, <3>1, NoneIsNoName
           DEF Concern, Adding, Editing, ARemoval, Kind
    <2> QED
      BY <1>5, <1>7, <2>2
  <1>8. WellOf(c)'
    BY <1>7 DEF WellOf
  <1>9. ChangeOf(c)'
    BY <1>6, <1>8 DEF ChangeOf
  <1> QED
    BY <1>4, <1>9, ByChange

LEMMA OfChange ==
  ASSUME Inv, NEW c \in Admin, pc[c] # "idle"
  PROVE  /\ TypeOK /\ c \in Call /\ Concern(c) \subseteq Name
         /\ arg[c] \in Argument /\ arg[c].kind \in Kind
         /\ arg[c].kind = "add" =>
              /\ Adding(c) /\ Concern(c) = {arg[c].test}
              /\ Clean(c) => AddingWell(c)
         /\ arg[c].kind = "edit" =>
              /\ Editing(c)
              /\ arg[c].from \in Concern(c) /\ arg[c].test \in Concern(c)
              /\ arg[c].to \in Endpoint => arg[c].to \in Concern(c)
              /\ \A e \in Concern(c) : e \in {arg[c].from, arg[c].to, arg[c].test}
              /\ arg[c].test # arg[c].from /\ arg[c].test # arg[c].to
              /\ Clean(c) => EditingWell(c)
         /\ arg[c].kind = "remove" =>
              /\ ARemoval(c) /\ Concern(c) = {arg[c].from}
              /\ Clean(c) => RemovalWell(c)
         /\ ~Clean(c) => Concern(c) \subseteq spoilt
  <1>1. TypeOK /\ ControlOf(c) /\ WellOf(c) /\ ApartOf(c) /\ c \in Call
    BY DEF Inv, ChangeOf, Call
  <1>2. Concern(c) \subseteq Name
    BY <1>1, ConcernIn
  <1>3. /\ arg[c].kind = "add" => (Clean(c) => AddingWell(c))
        /\ arg[c].kind = "edit" => (Clean(c) => EditingWell(c))
        /\ arg[c].kind = "remove" => (Clean(c) => RemovalWell(c))
        /\ ~Clean(c) => Concern(c) \subseteq spoilt
    BY <1>1 DEF WellOf, ApartOf
  <1>4. arg[c] \in Argument
    BY <1>1 DEF TypeOK
  <1> QED
    BY <1>1, <1>2, <1>3, <1>4, Members

LEMMA StepCheckConnection ==
  ASSUME Inv, NEW c \in Admin, CheckConnection(c)
  PROVE  Inv'
  <1>1. pc[c] = "check" /\ UNCHANGED <<table, prods, spoilt>>
    BY DEF CheckConnection
  <1>2. /\ TypeOK /\ c \in Call /\ Concern(c) \subseteq Name
        /\ arg[c].kind \in {"add", "edit"} /\ ~arg[c].final
        /\ arg[c].test \in Concern(c)
        /\ Clean(c) => Served(arg[c].test) # {}
        /\ ~Clean(c) => Concern(c) \subseteq spoilt
    BY <1>1, OfChange DEF Kind, ARemoval, Adding, Editing, AddingWell, EditingWell
  <1>3. StaysThere /\ \A e : Stays(e)
    BY <1>1, SameTable, SameProduct DEF StaysThere, Stays
  <1>4. CASE End(c)  /\ prods[arg[c].test] = None
    <2>1. ~Clean(c)
      BY <1>2, <1>4, ServedFacts
    <2>2. prods' \in [Name -> Product \cup {None}]
      BY <1>1, <1>2 DEF TypeOK
    <2> QED
      BY <1>1, <1>2, <1>3, <1>4, <2>1, <2>2, Ends
  <1>5. ASSUME NEW p \in {"undo", "insert", "untest"}, Move(c, p),
               p = "insert" => arg[c].kind = "add",
               p = "untest" => arg[c].kind = "edit",
               UNCHANGED <<held, own, arg>>
        PROVE  Inv'
    <2>1. pc' = [pc EXCEPT ![c] = p] /\ p \in AdminPC
      BY <1>5 DEF Move, AdminPC, Removing
    <2>2. pc'[c] = p /\ \A d \in Call \ {c} : pc'[d] = pc[d]
      BY <1>2, <2>1 DEF TypeOK
    <2>3. TypeOK'
      BY <1>1, <1>2, <1>5, <2>1 DEF TypeOK
    <2>4. \A d \in Call : HeldOf(d)'
      <3>1. HeldOf(c)'
        BY <1>1, <1>2, <1>5, <2>2 DEF Inv, HeldOf
      <3> QED
        BY <1>3, <1>5, <2>2, <3>1, OthersHold
    <2>5. Concern(c)' = Concern(c)
      BY <1>5 DEF Concern
    <2>6. \A d \in Admin : IdOf(d)'
      BY <1>1, <1>5 DEF Inv, ChangeOf, IdOf, Concern
    <2>7. ControlOf(c)'
      BY <1>1, <1>2, <1>5, <2>2, OfChange DEF ControlOf, Adding, Editing
    <2>8. ASSUME Clean(c)
          PROVE  /\ arg'[c].kind = "add" => AddingWell(c)'
                 /\ arg'[c].kind = "edit" => EditingWell(c)'
      <3>1. CASE arg[c].kind = "add"
        <4>1. AddingWell(c) /\ Stays(arg[c].test)
          BY <1>1, <1>3, <2>8, <3>1, OfChange
        <4> QED
          BY <1>1, <1>2, <1>5, <2>2, <3>1, <4>1 DEF AddingWell, Stays
      <3>2. CASE arg[c].kind = "edit"
        <4>1. EditingWell(c)
          BY <1>1, <2>8, <3>2, OfChange
        <4>2. Stays(arg[c].from) /\ Stays(arg[c].to) /\ Stays(arg[c].test)
          BY <1>3
        <4> QED
          BY <1>1, <1>2, <1>5, <2>2, <3>2, <4>1, <4>2
             DEF EditingWell, Stays, Agrees, RowFor
      <3> QED
        BY <1>2, <1>5, <3>1, <3>2
    <2> QED
      BY <1>1, <1>2, <1>3, <1>5, <2>1, <2>3, <2>4, <2>5, <2>6, <2>7, <2>8,
         GoesOn DEF Inv
  <1>6. \/ End(c) /\ prods[arg[c].test] = None
        \/ \E p \in {"undo", "insert", "untest"} :
             /\ Move(c, p) /\ UNCHANGED <<held, own, arg>>
             /\ p = "insert" => arg[c].kind = "add"
             /\ p = "untest" => arg[c].kind = "edit"
    BY <1>2 DEF CheckConnection
  <1> QED
    BY <1>4, <1>5, <1>6

LEMMA StepAddToServer ==
  ASSUME Inv, NEW c \in Admin, AddToServer(c)
  PROVE  Inv'
  <1>0. PICK e : e = Target(c)
    OBVIOUS
  <1>1. pc[c] = "setup" /\ UNCHANGED <<table, spoilt>>
    BY DEF AddToServer
  <1>2. /\ TypeOK /\ c \in Call /\ Concern(c) \subseteq Name
        /\ arg[c] \in Argument /\ arg[c].kind \in {"add", "edit"}
        /\ ~Clean(c) => Concern(c) \subseteq spoilt
    BY <1>1, OfChange DEF Kind, ARemoval
  <1>3. /\ arg[c].conn \in Connection /\ arg[c].id \in Nat
        /\ e # None => e \in Name /\ e \in Concern(c)
    <2>1. arg[c].conn \in Connection
      BY <1>1, <1>2, OfChange DEF Adding, Editing
    <2>2. arg[c].id \in Nat /\ arg[c].to \in Endpoint \cup {None}
      BY <1>2 DEF Argument
    <2>3. e # None => e \in Concern(c)
      BY <1>0, <1>1, <1>2, <2>2, OfChange DEF Target, Adding, Editing
    <2> QED
      BY <1>2, <2>1, <2>2, <2>3
  <1>4. CASE End(c) /\ UNCHANGED prods /\ (e = None \/ prods[e] # None)
    <2>1. StaysThere /\ \A x : Stays(x)
      BY <1>1, <1>4, SameTable, SameProduct DEF StaysThere, Stays
    <2>2. e # None => Served(e) # {}
      BY <1>4, ServedFacts
    <2>3. ASSUME Clean(c), arg[c].kind = "add"
          PROVE  \A x \in Concern(c) : Agrees(x)
      <3>1. AddingWell(c) /\ Adding(c) /\ Concern(c) = {arg[c].test}
        BY <1>1, <2>3, OfChange
      <3>2. e = arg[c].test /\ e # None
        BY <1>0, <3>1, NoneIsNoName DEF Adding, Target
      <3>3. Agrees(e)
        BY <1>1, <2>2, <3>1, <3>2 DEF AddingWell
      <3> QED
        BY <3>1, <3>2, <3>3
    <2>4. ASSUME Clean(c), arg[c].kind = "edit"
          PROVE  \A x \in Concern(c) : Agrees(x)
      <3>1. EditingWell(c) /\ Editing(c)
        BY <1>1, <2>4, OfChange
      <3>2. ~arg[c].final
        BY <1>0, <1>1, <2>2, <3>1, NoneIsNoName DEF EditingWell, Target
      <3>3. Agrees(arg[c].from) /\ Agrees(arg[c].to) /\ Agrees(arg[c].test)
        BY <1>1, <3>1, <3>2 DEF EditingWell
      <3> QED
        BY <1>1, <2>4, <3>3, OfChange
    <2>5. \A x \in Concern(c) \ spoilt' : Agrees(x)
      BY <1>1, <1>2, <2>3, <2>4
    <2>6. prods' \in [Name -> Product \cup {None}]
      BY <1>2, <1>4 DEF TypeOK
    <2> QED
      BY <1>1, <1>2, <1>4, <2>1, <2>5, <2>6, Ends DEF Stays, Agrees
  <1>5. CASE /\ e # None /\ prods[e] = None
             /\ prods' = [prods EXCEPT ![e] =
                            NewProduct(arg[c].id, arg[c].conn, "new")]
             /\ held' = [held EXCEPT ![c] = e]
             /\ Move(c, "connecting") /\ UNCHANGED <<arg, own>>
    <2>0. PICK p : p = NewProduct(arg[c].id, arg[c].conn, "new")
      OBVIOUS
    <2>1. /\ p \in Product /\ p # None
          /\ p.id = arg[c].id /\ p.conn = arg[c].conn
      BY <1>3, <2>0, NoneAssumption DEF NewProduct, Product
    <2>2. prods' = [prods EXCEPT ![e] = p]
      BY <1>5, <2>0
    <2>3. /\ prods' \in [Name -> Product \cup {None}] /\ prods'[e] = p
          /\ \A x \in Name \ {e} : prods'[x] = prods[x]
      BY <1>2, <1>3, <1>5, <2>1, <2>2 DEF TypeOK
    <2>4. StaysThere
      BY <1>5, <2>3 DEF StaysThere
    <2>5. /\ \A x \in Name \ {e} : Stays(x)
          /\ At(e)' = At(e)
      BY <1>1, <2>3, SameProduct, SameTable DEF Stays
    <2>6. Served(e)' = {RowFor(c, e, arg[c].conn)'}
      BY <1>5, <2>1, <2>3 DEF Served, RowFor
    <2>7. RowFor(c, e, arg[c].conn)' = RowFor(c, e, arg[c].conn)
      BY <1>5 DEF RowFor
    <2>8. pc' = [pc EXCEPT ![c] = "connecting"] /\ "connecting" \in AdminPC
      BY <1>5 DEF Move, AdminPC
    <2>9. /\ pc'[c] = "connecting" /\ held'[c] = e
          /\ \A d \in Call \ {c} : pc'[d] = pc[d] /\ held'[d] = held[d]
      BY <1>2, <1>5, <2>8 DEF TypeOK
    <2>10. TypeOK'
      BY <1>1, <1>2, <1>3, <1>5, <2>3, <2>8 DEF TypeOK
    <2>11. \A d \in Call : HeldOf(d)'
      <3>1. HeldOf(c)'
        BY <1>3, <1>5, <2>1, <2>3, <2>9 DEF HeldOf
      <3> QED
        BY <1>5, <2>4, <2>9, <3>1, OthersHold
    <2>12. Concern(c)' = Concern(c)
      BY <1>5 DEF Concern
    <2>13. \A d \in Admin : IdOf(d)'
      BY <1>1, <1>5 DEF Inv, ChangeOf, IdOf, Concern
    <2>14. ControlOf(c)'
      BY <1>1, <1>2, <1>5, <2>9, OfChange DEF ControlOf, Adding, Editing
    <2>15. ASSUME Clean(c)
           PROVE  /\ arg'[c].kind = "add" => AddingWell(c)'
                  /\ arg'[c].kind = "edit" => EditingWell(c)'
      <3>1. Served(e) = {} /\ Served(e)' # {}
        BY <1>5, <2>6, ServedFacts
      <3>2. CASE arg[c].kind = "add"
        <4>1. AddingWell(c) /\ Adding(c)
          BY <1>1, <2>15, <3>2, OfChange
        <4>2. e = arg[c].test
          BY <1>0, <4>1 DEF Adding, Target
        <4>3. /\ arg' = arg /\ pc[c] = "setup" /\ pc'[c] = "connecting"
              /\ At(e)' = At(e)
          BY <1>1, <1>5, <2>5, <2>9
        <4>4. CASE arg[c].final
          <5>1. At(e) = {RowFor(c, e, arg[c].conn)}
            BY <4>1, <4>2, <4>3, <4>4 DEF AddingWell
          <5>2. Agrees(e)'
            BY <2>6, <2>7, <4>3, <5>1 DEF Agrees
          <5>3. Agrees(arg[c].test)'
            BY <4>2, <4>3, <5>2 DEF Agrees, Served, At
          <5> QED
            BY <3>2, <4>3, <4>4, <5>3 DEF AddingWell
        <4>5. CASE ~arg[c].final
          <5>1. At(e)' = {}
            BY <3>1, <4>1, <4>2, <4>3, <4>5 DEF AddingWell, Agrees
          <5>2. Served(arg[c].test)' # {} /\ At(arg[c].test)' = {}
            BY <3>1, <4>2, <4>3, <5>1 DEF Served, At
          <5> QED
            BY <3>2, <4>3, <4>5, <5>2 DEF AddingWell
        <4> QED
          BY <4>4, <4>5
      <3>3. CASE arg[c].kind = "edit"
        <4>1. /\ EditingWell(c) /\ Editing(c)
              /\ arg[c].test # arg[c].from /\ arg[c].test # arg[c].to
          BY <1>1, <2>15, <3>3, OfChange
        <4>2. arg[c].from \in Name /\ arg[c].to \in Name /\ arg[c].test \in Name
          BY <4>1 DEF EditingWell, Editing, Name
        <4>3. CASE arg[c].final
          <5>1. e = arg[c].to
            BY <1>0, <4>3 DEF Target
          <5>2. /\ At(e)' = {RowFor(c, e, arg[c].conn)} /\ Agrees(arg[c].test)
                /\ arg[c].to # arg[c].from => Agrees(arg[c].from)
            BY <1>1, <2>5, <4>1, <4>3, <5>1 DEF EditingWell
          <5>3. Agrees(arg[c].to)'
            <6>1. Agrees(e)' /\ arg' = arg
              BY <1>5, <2>6, <2>7, <5>1, <5>2 DEF Agrees
            <6> QED
              BY <5>1, <6>1 DEF Agrees, Served, At
          <5>4. Agrees(arg[c].test)' /\ Agrees(arg[c].from)'
            BY <1>5, <2>5, <4>1, <4>2, <5>1, <5>2, <5>3 DEF Agrees, Stays
          <5> QED
            <6>1. arg' = arg /\ pc'[c] = "connecting"
              BY <1>5, <2>9
            <6> QED
              BY <3>3, <4>1, <4>3, <5>3, <5>4, <6>1 DEF EditingWell
        <4>4. CASE ~arg[c].final
          <5>1. e = arg[c].test
            BY <1>0, <4>4 DEF Target
          <5>2. Stays(arg[c].from) /\ Stays(arg[c].to)
            BY <2>5, <4>1, <4>2, <5>1
          <5>3. arg' = arg /\ pc[c] = "setup" /\ pc'[c] = "connecting"
            BY <1>1, <1>5, <2>9
          <5>4. Served(arg[c].test)' # {}
            BY <3>1, <5>1, <5>3 DEF Served
          <5> QED
            BY <3>3, <4>1, <4>4, <5>2, <5>3, <5>4
               DEF EditingWell, Stays, Agrees, RowFor
        <4> QED
          BY <4>3, <4>4
      <3> QED
        BY <1>2, <1>5, <3>2, <3>3
    <2>16. \A x \in Name \ (Concern(c) \cup spoilt) : Stays(x)
      BY <1>3, <1>5, <2>5
    <2>17. IsFiniteSet(table)' /\ \A d \in Admin \ {c} : arg'[d] = arg[d]
      BY <1>1, <1>5 DEF Inv
    <2> QED
      BY <1>1, <1>2, <1>5, <2>8, <2>10, <2>11, <2>12, <2>13, <2>14, <2>15,
         <2>16, <2>17, GoesOn
  <1> QED
    BY <1>0, <1>4, <1>5 DEF AddToServer

LEMMA TestHasNoRow ==
  ASSUME TypeOK, NEW t \in Test
  PROVE  At(t) = {}
  BY ProductAssumption DEF TypeOK, Row, At

LEMMA StepRemoveFromServer ==
  ASSUME Inv, NEW c \in Admin, RemoveFromServer(c)
  PROVE  Inv'
  <1>0. PICK e : e = Forgotten(c)
    OBVIOUS
  <1>1. /\ pc[c] \in Removing /\ pc[c] # "idle"
        /\ UNCHANGED <<table, spoilt>>
    BY DEF RemoveFromServer, Removing
  <1>2. /\ TypeOK /\ c \in Call /\ Concern(c) \subseteq Name
        /\ arg[c].kind \in Kind
        /\ ~Clean(c) => Concern(c) \subseteq spoilt
    BY <1>1, OfChange
  <1>3. /\ arg[c].kind = "add" =>
             /\ Adding(c) /\ Concern(c) = {e} /\ e = arg[c].test
             /\ pc[c] \in {"undo", "unset"} /\ ~arg[c].final
             /\ Clean(c) => AddingWell(c) /\ Served(e) # {}
        /\ arg[c].kind = "edit" =>
             /\ Editing(c)
             /\ pc[c] \in {"undo", "untest"} => e = arg[c].test /\ ~arg[c].final
             /\ pc[c] = "remove" => e = arg[c].from /\ arg[c].final
             /\ pc[c] \in {"undo", "untest", "remove"}
             /\ e \in Concern(c)
             /\ Clean(c) => EditingWell(c) /\ Served(e) # {}
        /\ arg[c].kind = "remove" =>
             /\ ARemoval(c) /\ Concern(c) = {e} /\ e = arg[c].from
             /\ pc[c] = "remove"
             /\ Clean(c) => RemovalWell(c) /\ Served(e) # {}
    <2>1. CASE arg[c].kind = "add"
      <3>1. Adding(c) /\ Concern(c) = {arg[c].test} /\ (Clean(c) => AddingWell(c))
        BY <1>1, <2>1, OfChange
      <3>2. pc[c] \in {"undo", "unset"} /\ e = arg[c].test /\ ~arg[c].final
        BY <1>0, <1>1, <3>1 DEF Adding, Removing, Forgotten
      <3> QED
        BY <2>1, <3>1, <3>2 DEF AddingWell
    <2>2. CASE arg[c].kind = "edit"
      <3>1. /\ Editing(c) /\ (Clean(c) => EditingWell(c))
            /\ arg[c].from \in Concern(c) /\ arg[c].test \in Concern(c)
        BY <1>1, <2>2, OfChange
      <3>2. /\ pc[c] \in {"undo", "untest"} => e = arg[c].test /\ ~arg[c].final
            /\ pc[c] = "remove" => e = arg[c].from /\ arg[c].final
            /\ pc[c] \in {"undo", "untest", "remove"}
        BY <1>0, <1>1, <3>1 DEF Editing, Removing, Forgotten
      <3> QED
        BY <2>2, <3>1, <3>2 DEF EditingWell
    <2>3. CASE arg[c].kind = "remove"
      <3>1. ARemoval(c) /\ Concern(c) = {arg[c].from} /\ (Clean(c) => RemovalWell(c))
        BY <1>1, <2>3, OfChange
      <3>2. pc[c] = "remove" /\ e = arg[c].from
        BY <1>0, <1>1, <3>1 DEF ARemoval, Removing, Forgotten
      <3> QED
        BY <2>3, <3>1, <3>2 DEF RemovalWell, Agrees
    <2> QED
      BY <1>2, <2>1, <2>2, <2>3 DEF Kind
  <1>4. e \in Concern(c) /\ e \in Name /\ (Clean(c) => Served(e) # {})
    BY <1>2, <1>3 DEF Kind
  <1>5. CASE prods[e] = None
    <2>1. End(c) /\ UNCHANGED prods
      BY <1>0, <1>5 DEF RemoveFromServer
    <2>2. ~Clean(c)
      BY <1>4, <1>5, ServedFacts
    <2>3. StaysThere /\ \A x : Stays(x)
      BY <1>1, <2>1, SameTable, SameProduct DEF StaysThere, Stays
    <2>4. prods' \in [Name -> Product \cup {None}]
      BY <1>2, <2>1 DEF TypeOK
    <2> QED
      BY <1>1, <1>2, <2>1, <2>2, <2>3, <2>4, Ends
  <1>6. CASE prods[e] # None
    <2>1. /\ prods' = [prods EXCEPT ![e] = None]
          /\ own' = [d \in Call |-> IF held[d] = e /\ own[d] = None
                                    THEN prods[e] ELSE own[d]]
          /\ pc' = [pc EXCEPT ![c] = AfterRemoval(c)] /\ held' = held
          /\ arg' = IF pc[c] = "undo"
                    THEN [arg EXCEPT ![c] = NoArgument] ELSE arg
      BY <1>0, <1>6 DEF RemoveFromServer, Move
    <2>2. /\ prods' \in [Name -> Product \cup {None}] /\ prods'[e] = None
          /\ \A x \in Name \ {e} : prods'[x] = prods[x]
          /\ prods[e] \in Product
      BY <1>2, <1>4, <1>6, <2>1 DEF TypeOK
    <2>3. /\ \A x \in Name \ {e} : Stays(x)
          /\ \A x : At(x)' = At(x)
          /\ Served(e)' = {}
      BY <1>1, <2>2, SameProduct, SameTable DEF Stays, Served
    <2>4. AfterRemoval(c) \in AdminPC /\ AfterRemoval(c) \notin {"connect", "connecting"}
      BY <1>1 DEF AfterRemoval, AdminPC, Removing
    <2>5. /\ pc'[c] = AfterRemoval(c)
          /\ \A d \in Call \ {c} : pc'[d] = pc[d]
      BY <1>2, <2>1 DEF TypeOK
    <2>6. \A d \in Admin \ {c} : arg'[d] = arg[d]
      BY <1>2, <2>1 DEF TypeOK
    <2>7. TypeOK'
      <3>1. own' \in [Call -> Product \cup {None}]
        BY <1>2, <2>1, <2>2 DEF TypeOK
      <3>2. NoArgument \in Argument
        BY DEF NoArgument, Argument
      <3>3. arg' \in [Admin -> Argument]
        BY <1>2, <2>1, <3>2 DEF TypeOK
      <3> QED
        BY <1>1, <1>2, <2>1, <2>2, <2>4, <3>1, <3>3 DEF TypeOK
    <2>8. \A d \in Call : HeldOf(d)'
      <3> TAKE d \in Call
      <3>1. HeldOf(d)
        BY DEF Inv
      <3>2. CASE pc[d] \in {"connect", "connecting"}
        <4>1. d # c
          BY <1>1, <3>2 DEF Removing
        <4>2. pc'[d] = pc[d] /\ held'[d] = held[d]
          BY <2>1, <2>5, <4>1
        <4>3. held[d] \in Name /\ (own[d] = None => prods[held[d]] # None)
          BY <3>1, <3>2 DEF HeldOf
        <4>4. own'[d] = None => held[d] # e /\ own[d] = None
          BY <1>6, <2>1
        <4>5. own'[d] = None => prods'[held[d]] # None
          BY <2>2, <4>3, <4>4
        <4> QED
          BY <3>2, <4>2, <4>3, <4>5 DEF HeldOf
      <3>3. CASE pc[d] \notin {"connect", "connecting"}
        <4>1. held[d] = None /\ own[d] = None
          BY <3>1, <3>3 DEF HeldOf
        <4>2. held'[d] = None /\ own'[d] = None
          BY <1>4, <2>1, <4>1, NoneIsNoName
        <4>3. pc'[d] \notin {"connect", "connecting"}
          BY <2>4, <2>5, <3>3
        <4> QED
          BY <4>2, <4>3 DEF HeldOf
      <3> QED
        BY <3>2, <3>3
    <2>9. IsFiniteSet(table)' /\ \A x \in Name \ (Concern(c) \cup spoilt) : Stays(x)
      BY <1>1, <1>4, <2>3 DEF Inv
    <2>10. CASE pc[c] = "undo"
      <3>1. pc'[c] = "idle" /\ arg'[c] = NoArgument
        BY <1>2, <2>1, <2>5, <2>10 DEF AfterRemoval, TypeOK
      <3>2. Concern(c)' = {}
        BY <3>1 DEF Concern, NoArgument
      <3>3. ASSUME Clean(c), NEW x \in Concern(c)
            PROVE  Agrees(x)'
        <4>1. CASE arg[c].kind = "add"
          <5>1. x = e /\ At(e) = {}
            BY <1>3, <2>10, <3>3, <4>1 DEF AddingWell
          <5> QED
            BY <2>3, <5>1 DEF Agrees
        <4>2. CASE arg[c].kind = "edit"
          <5>1. EditingWell(c) /\ Editing(c) /\ e = arg[c].test /\ ~arg[c].final
            BY <1>3, <2>10, <3>3, <4>2
          <5>2. Agrees(arg[c].from) /\ Agrees(arg[c].to)
            BY <2>10, <5>1 DEF EditingWell
          <5>3. At(e) = {}
            BY <1>2, <5>1, TestHasNoRow DEF Editing
          <5>4. x \in {arg[c].from, arg[c].to, e} /\ x \in Name
            BY <1>1, <1>2, <3>3, <4>2, <5>1, OfChange
          <5> QED
            BY <2>3, <5>2, <5>3, <5>4 DEF Agrees, Stays
        <4> QED
          BY <1>2, <1>3, <2>10, <4>1, <4>2 DEF Kind
      <3>4. Keeps(c)
        <4>1. \A d \in Admin \ {c} : Same(d)
          BY <2>5, <2>6 DEF Same, Call
        <4> QED
          BY <1>1, <1>2, <2>9, <3>2, <3>3, <4>1 DEF Keeps
      <3>5. \A d \in Admin \ {c} : IdOf(d)'
        BY <1>1, <2>6 DEF Inv, ChangeOf, IdOf, Concern
      <3>6. ChangeOf(c)'
        <4>1. \A r \in table' : r.id # 0
          BY <2>7 DEF TypeOK, Row
        <4> QED
          BY <3>1, <3>2, <4>1
             DEF ChangeOf, ControlOf, IdOf, ApartOf, Clean, WellOf, NoArgument
      <3> QED
        BY <2>7, <2>8, <2>9, <3>4, <3>5, <3>6, ByChange
    <2>11. CASE pc[c] # "undo"
      <3>1. arg' = arg /\ Concern(c)' = Concern(c)
        BY <2>1, <2>11 DEF Concern
      <3>2. \A d \in Admin : IdOf(d)'
        BY <1>1, <3>1 DEF Inv, ChangeOf, IdOf, Concern
      <3>3. /\ arg[c].kind = "add" => pc[c] = "unset" /\ pc'[c] = "reload"
            /\ arg[c].kind = "edit" =>
                 \/ pc[c] = "untest" /\ pc'[c] = "update"
                 \/ pc[c] = "remove" /\ pc'[c] = "setup"
            /\ arg[c].kind = "remove" => pc[c] = "remove" /\ pc'[c] = "delete"
        BY <1>1, <1>2, <1>3, <2>5, <2>11 DEF AfterRemoval, Kind
      <3>4. ControlOf(c)'
        BY <1>2, <1>3, <2>11, <3>1, <3>3
           DEF ControlOf, Adding, Editing, ARemoval, Kind
      <3>5. ASSUME Clean(c)
            PROVE  /\ arg'[c].kind = "add" => AddingWell(c)'
                   /\ arg'[c].kind = "edit" => EditingWell(c)'
                   /\ arg'[c].kind = "remove" => RemovalWell(c)'
        <4>1. CASE arg[c].kind = "add"
          <5>1. AddingWell(c) /\ e = arg[c].test /\ ~arg[c].final
            BY <1>3, <3>5, <4>1
          <5>2. Served(arg[c].test)' = {}
            BY <2>3, <3>1, <5>1 DEF Served
          <5>3. At(arg[c].test)' # {}
            BY <2>3, <3>1, <3>3, <4>1, <5>1 DEF AddingWell, At
          <5> QED
            BY <3>1, <3>3, <4>1, <5>1, <5>2, <5>3 DEF AddingWell
        <4>2. CASE arg[c].kind = "edit" /\ pc[c] = "untest"
          <5>1. /\ EditingWell(c) /\ Editing(c) /\ e = arg[c].test /\ ~arg[c].final
                /\ arg[c].test # arg[c].from /\ arg[c].test # arg[c].to
            BY <1>1, <1>3, <3>5, <4>2, OfChange
          <5>2. At(e) = {}
            BY <1>2, <5>1, TestHasNoRow DEF Editing
          <5>3. Agrees(arg[c].test)'
            BY <2>3, <3>1, <5>1, <5>2 DEF Agrees, Served, At
          <5>4. arg[c].from \in Name /\ arg[c].to \in Name
            BY <5>1 DEF Editing, EditingWell, Name
          <5>5. Stays(arg[c].from) /\ Stays(arg[c].to)
            BY <2>3, <5>1, <5>4
          <5>6. pc'[c] = "update"
            BY <3>3, <4>2
          <5> QED
            BY <3>1, <4>2, <5>1, <5>3, <5>5, <5>6
               DEF EditingWell, Stays, Agrees, RowFor
        <4>3. CASE arg[c].kind = "edit" /\ pc[c] = "remove"
          <5>1. /\ EditingWell(c) /\ Editing(c) /\ e = arg[c].from /\ arg[c].final
                /\ arg[c].test # arg[c].from
            BY <1>1, <1>3, <3>5, <4>3, OfChange
          <5>2. /\ arg[c].to \in Endpoint /\ Agrees(arg[c].test)
                /\ At(arg[c].to) = {RowFor(c, arg[c].to, arg[c].conn)}
                /\ arg[c].to # arg[c].from =>
                     Served(arg[c].to) = {} /\ At(arg[c].from) = {}
            BY <4>3, <5>1 DEF EditingWell
          <5>3. arg[c].test \in Name /\ arg[c].to \in Name
            BY <5>1, <5>2 DEF Editing, Name
          <5>4. Stays(arg[c].test)
            BY <2>3, <5>1, <5>3
          <5>5. Agrees(arg[c].test)'
            BY <3>1, <5>2, <5>4 DEF Agrees, Stays
          <5>6. Served(arg[c].to)' = {}
            <6>1. CASE arg[c].to = e
              BY <2>3, <3>1, <6>1 DEF Served
            <6>2. CASE arg[c].to # e
              <7>1. Stays(arg[c].to)
                BY <2>3, <5>3, <6>2
              <7> QED
                BY <5>1, <5>2, <6>2, <7>1 DEF Stays
            <6> QED
              BY <6>1, <6>2
          <5>7. At(arg[c].to)' = {RowFor(c, arg[c].to, arg[c].conn)'}
            BY <1>1, <3>1, <5>2 DEF At, RowFor
          <5>8. arg[c].to # arg[c].from => Agrees(arg[c].from)'
            BY <1>1, <2>3, <3>1, <5>1, <5>2 DEF Agrees, Served, At
          <5>9. pc'[c] = "setup"
            BY <3>3, <4>3
          <5> QED
            BY <3>1, <4>3, <5>1, <5>2, <5>5, <5>6, <5>7, <5>8, <5>9
               DEF EditingWell, RowFor
        <4>4. CASE arg[c].kind = "remove"
          <5>1. RemovalWell(c) /\ e = arg[c].from
            BY <1>3, <3>5, <4>4
          <5>2. Served(arg[c].from)' = {}
            BY <2>3, <3>1, <5>1 DEF Served
          <5>3. At(arg[c].from)' # {} /\ \A r \in At(arg[c].from)' : r.id = arg[c].id
            BY <1>1, <3>1, <5>1 DEF RemovalWell, At
          <5> QED
            BY <3>1, <3>3, <4>4, <5>2, <5>3 DEF RemovalWell
        <4> QED
          BY <1>2, <3>3, <4>1, <4>2, <4>3, <4>4 DEF Kind
      <3>6. AfterRemoval(c) # "idle"
        BY <1>2, <2>5, <3>3 DEF Kind
      <3>7. Move(c, AfterRemoval(c))
        BY <2>1 DEF Move
      <3> QED
        BY <1>1, <1>2, <2>4, <2>6, <2>7, <2>8, <2>9, <3>1, <3>2, <3>4, <3>5,
           <3>6, <3>7, GoesOn
    <2> QED
      BY <2>10, <2>11
  <1> QED
    BY <1>5, <1>6

-----------------------------------------------------------------------------
(* Steps of the table.                                                     *)
(* A finite set of numbers has a largest one.                              *)
LEMMA MaxExists ==
  ASSUME NEW S \in SUBSET Nat, IsFiniteSet(S), S # {}
  PROVE  /\ Max(S) \in S
         /\ \A y \in S : Max(S) >= y
<1> DEFINE Bad == {U \in FiniteSubsetsOf(S) : U # {} /\ ~ \E x \in U : \A y \in U : x >= y}
<1>1. Bad = {}
  <2> SUFFICES ASSUME Bad # {} PROVE FALSE
    OBVIOUS
  <2>1. /\ IsWellFoundedOn(StrictSubsetOrdering(S), FiniteSubsetsOf(S))
        /\ Bad \subseteq FiniteSubsetsOf(S)
    BY FS_StrictSubsetOrderingWellFounded
  <2> HIDE DEF Bad
  <2>2. PICK U \in Bad : \A V \in Bad : <<V, U>> \notin StrictSubsetOrdering(S)
    BY <2>1, WFMin
  <2> USE DEF Bad
  <2>3. PICK x \in U : TRUE
    OBVIOUS
  <2>4. U \subseteq S /\ IsFiniteSet(U)
    BY DEF FiniteSubsetsOf
  <2>5. U \ {x} \in FiniteSubsetsOf(S)
    BY <2>4, FS_RemoveElement DEF FiniteSubsetsOf
  <2>6. <<U \ {x}, U>> \in StrictSubsetOrdering(S)
    BY <2>3, <2>4 DEF StrictSubsetOrdering
  <2>7. U \ {x} \notin Bad
    BY <2>2, <2>6
  <2>8. CASE U \ {x} = {}
    BY <2>3, <2>4, <2>8
  <2>9. CASE \E m \in U \ {x} : \A y \in U \ {x} : m >= y
    <3>1. PICK m \in U \ {x} : \A y \in U \ {x} : m >= y
      BY <2>9
    <3>2. m \in Nat /\ x \in Nat
      BY <2>3, <2>4
    <3>3. \A y \in U : IF m >= x THEN m >= y ELSE x >= y
      BY <3>1, <3>2, <2>4
    <3> QED BY <3>1, <3>2, <3>3, <2>3
  <2> QED BY <2>5, <2>7, <2>8, <2>9
<1>2. S \in FiniteSubsetsOf(S)
  BY DEF FiniteSubsetsOf
<1>3. \E x \in S : \A y \in S : x >= y
  BY <1>1, <1>2
<1> QED BY <1>3 DEF Max

(* No row has the id a new one gets.                                       *)
LEMMA NewIdFresh ==
  ASSUME TypeOK, IsFiniteSet(table)
  PROVE  NewId \in Nat \ {0} /\ \A r \in table : r.id # NewId
  <1>1. PICK S : S = {0} \cup {r.id : r \in table}
    OBVIOUS
  <1>2. S \in SUBSET Nat /\ S # {}
    BY <1>1 DEF TypeOK, Row
  <1>3. IsFiniteSet(S)
    <2>1. IsFiniteSet({r.id : r \in table})
      <3> DEFINE I == {r.id : r \in table}
                 id == [r \in table |-> r.id]
      <3>1. id \in Surjection(table, I)
        BY DEF Surjection
      <3> QED
        BY <3>1, FS_Surjection
    <2> QED
      BY <1>1, <2>1, FS_Union, FS_Singleton
  <1>4. Max(S) \in Nat /\ \A y \in S : Max(S) >= y
    BY <1>2, <1>3, MaxExists
  <1>5. NewId = 1 + Max(S)
    BY <1>1 DEF NewId
  <1>6. \A r \in table : r.id \in S /\ r.id \in Nat
    BY <1>1, <1>2
  <1> QED
    BY <1>4, <1>5, <1>6

LEMMA StepCommitFails ==
  ASSUME Inv, NEW c \in Admin, CommitFails(c)
  PROVE  Inv'
  <1>1. /\ spoilt' = spoilt \cup Concern(c) /\ End(c)
        /\ UNCHANGED <<table, prods>>
    BY DEF CommitFails
  <1>2. StaysThere /\ \A x : Stays(x)
    BY <1>1, SameTable, SameProduct DEF StaysThere, Stays
  <1>3. prods' \in [Name -> Product \cup {None}]
    BY <1>1 DEF Inv, TypeOK
  <1> QED
    BY <1>1, <1>2, <1>3, Ends

LEMMA StepDeleteRow ==
  ASSUME Inv, NEW c \in Admin, DeleteRow(c)
  PROVE  Inv'
  <1>1. /\ pc[c] = "delete" /\ table' = {r \in table : r.id # arg[c].id}
        /\ End(c) /\ UNCHANGED <<prods, spoilt>>
    BY DEF DeleteRow
  <1>2. /\ TypeOK /\ c \in Call /\ arg[c].kind = "remove"
        /\ Concern(c) = {arg[c].from}
        /\ Clean(c) => RemovalWell(c)
        /\ ~Clean(c) => Concern(c) \subseteq spoilt
    BY <1>1, OfChange DEF Kind, Adding, Editing
  <1>3. StaysThere /\ prods' \in [Name -> Product \cup {None}]
    BY <1>1, <1>2 DEF StaysThere, TypeOK
  <1>4. \A x \in Name \ (Concern(c) \cup spoilt) : Stays(x)
    <2> TAKE x \in Name \ (Concern(c) \cup spoilt)
    <2>1. \A r \in table : r.id = arg[c].id => r.endpoint # x
      BY DEF Inv, ChangeOf, IdOf
    <2>2. At(x)' = At(x)
      BY <1>1, <2>1 DEF At
    <2> QED
      BY <1>1, <2>2, SameProduct DEF Stays
  <1>5. \A x \in Concern(c) \ spoilt' : Agrees(x)'
    <2> TAKE x \in Concern(c) \ spoilt'
    <2>1. RemovalWell(c) /\ x = arg[c].from
      BY <1>1, <1>2
    <2>2. (\A r \in At(x) : r.id = arg[c].id) /\ Served(x) = {}
      BY <1>1, <2>1 DEF RemovalWell
    <2>3. At(x)' = {}
      BY <1>1, <2>2 DEF At
    <2>4. Served(x)' = {}
      BY <1>1, <2>2 DEF Served
    <2> QED
      BY <2>3, <2>4 DEF Agrees
  <1> QED
    BY <1>1, <1>3, <1>4, <1>5, Ends

LEMMA StepInsertRow ==
  ASSUME Inv, NEW c \in Admin, InsertRow(c)
  PROVE  Inv'
  <1>0. PICK e, n : e = arg[c].to /\ n = NewId
    OBVIOUS
  <1>1. pc[c] = "insert" /\ UNCHANGED prods
    BY DEF InsertRow
  <1>2. /\ TypeOK /\ c \in Call /\ arg[c].kind = "add" /\ Adding(c)
        /\ Concern(c) = {e} /\ e = arg[c].test /\ e \in Endpoint /\ e \in Name
        /\ arg[c].conn \in Connection /\ ~arg[c].final
        /\ Clean(c) => At(e) = {} /\ Served(e) # {}
        /\ ~Clean(c) => e \in spoilt
    BY <1>0, <1>1, OfChange DEF Kind, Adding, Editing, ARemoval, AddingWell, Name
  <1>3. StaysThere /\ prods' \in [Name -> Product \cup {None}]
    BY <1>1, <1>2 DEF StaysThere, TypeOK
  <1>4. CASE e \in Endpoints
    <2>1. End(c) /\ UNCHANGED <<table, spoilt>>
      BY <1>0, <1>4 DEF InsertRow
    <2>2. e \in spoilt
      BY <1>2, <1>4 DEF At, Endpoints
    <2>3. \A x : Stays(x)
      BY <1>1, <2>1, SameTable, SameProduct DEF Stays
    <2> QED
      BY <1>2, <1>3, <2>1, <2>2, <2>3, Ends
  <1>5. CASE e \notin Endpoints
    <2>0. PICK r : r = [id |-> n, endpoint |-> e, conn |-> arg[c].conn]
      OBVIOUS
    <2>1. /\ table' = table \cup {r} /\ Move(c, "unset")
          /\ UNCHANGED <<held, own, arg>>
          /\ spoilt' = IF GivenAgain THEN spoilt \cup {e} ELSE spoilt
      BY <1>0, <1>2, <1>5, <2>0 DEF InsertRow
    <2>2. /\ n \in Nat \ {0} /\ \A t \in table : t.id # n /\ t.endpoint # e
      BY <1>0, <1>2, <1>5, NewIdFresh DEF Inv, Endpoints
    <2>3. r \in Row /\ r.id = n /\ r.endpoint = e /\ r.conn = arg[c].conn
      BY <1>2, <2>0, <2>2 DEF Row
    <2>4. /\ table' \subseteq Row
          /\ \A s, t \in table' : s.id = t.id \/ s.endpoint = t.endpoint => s = t
      BY <1>2, <2>1, <2>2, <2>3 DEF TypeOK
    <2>5. pc' = [pc EXCEPT ![c] = "unset"] /\ "unset" \in AdminPC
      BY <2>1 DEF Move, AdminPC, Removing
    <2>6. pc'[c] = "unset" /\ \A d \in Call \ {c} : pc'[d] = pc[d]
      BY <1>2, <2>5 DEF TypeOK
    <2>7. /\ spoilt \subseteq spoilt' /\ spoilt' \subseteq spoilt \cup Concern(c)
          /\ spoilt' # spoilt => Concern(c) \subseteq spoilt'
          /\ spoilt' \subseteq Name
      BY <1>2, <2>1 DEF TypeOK
    <2>8. TypeOK'
      BY <1>2, <1>3, <2>1, <2>4, <2>5, <2>7 DEF TypeOK
    <2>9. IsFiniteSet(table)'
      BY <2>1, FS_AddElement DEF Inv
    <2>10. \A d \in Call : HeldOf(d)'
      <3>1. HeldOf(c)'
        BY <1>1, <1>2, <2>1, <2>6 DEF Inv, HeldOf
      <3> QED
        BY <1>3, <2>1, <2>6, <3>1, OthersHold
    <2>11. Concern(c)' = Concern(c) /\ \A d \in Admin : Concern(d)' = Concern(d)
      BY <2>1 DEF Concern
    <2>12. \A x \in Name \ (Concern(c) \cup spoilt) : Stays(x)
      <3> TAKE x \in Name \ (Concern(c) \cup spoilt)
      <3>1. At(x)' = At(x)
        BY <1>2, <2>1, <2>3 DEF At
      <3> QED
        BY <1>1, <3>1, SameProduct DEF Stays
    <2>13. \A d \in Admin : IdOf(d)'
      <3> SUFFICES ASSUME NEW d \in Admin, NEW t \in table', t.id = arg[d].id
                   PROVE  t.endpoint \in Concern(d) \cup spoilt'
        BY <2>1, <2>11 DEF IdOf
      <3>1. CASE t \in table
        BY <2>7, <3>1 DEF Inv, ChangeOf, IdOf
      <3>2. CASE t = r
        <4>1. GivenAgain
          BY <1>0, <2>3, <3>2 DEF GivenAgain
        <4> QED
          BY <2>1, <2>3, <3>2, <4>1
      <3> QED
        BY <2>1, <3>1, <3>2
    <2>14. ControlOf(c)'
      BY <1>2, <2>1, <2>6 DEF ControlOf, Adding
    <2>15. Clean(c) => AddingWell(c)'
      <3> SUFFICES ASSUME Clean(c)
                   PROVE  AddingWell(c)'
        OBVIOUS
      <3>1. Served(arg[c].test)' # {}
        BY <1>1, <1>2, <2>1 DEF Served
      <3>2. At(arg[c].test)' # {}
        BY <1>2, <2>1, <2>3 DEF At
      <3> QED
        BY <1>2, <2>1, <2>6, <3>1, <3>2 DEF AddingWell
    <2>16. arg'[c].kind = "add"
      BY <1>2, <2>1
    <2> QED
      BY <1>2, <2>1, <2>5, <2>7, <2>8, <2>9, <2>10, <2>11, <2>12, <2>13,
         <2>14, <2>15, <2>16, GoesOn
  <1> QED
    BY <1>4, <1>5

(* A step of a change in the table or in its arguments only.               *)
LEMMA StepUpdateRow ==
  ASSUME Inv, NEW c \in Admin, UpdateRow(c)
  PROVE  Inv'
  <1>0. PICK mine, edited :
          /\ mine = {r \in table : r.id = arg[c].id}
          /\ edited = {Edited(r, c) : r \in mine}
    OBVIOUS
  <1>1. pc[c] = "update" /\ UNCHANGED <<prods, spoilt>>
    BY DEF UpdateRow
  <1>2. /\ TypeOK /\ c \in Call /\ arg[c].kind = "edit" /\ Editing(c)
        /\ arg[c].from \in Concern(c) /\ arg[c].test \in Concern(c)
        /\ ~arg[c].final /\ arg[c].to \in Endpoint /\ arg[c].to \in Concern(c)
        /\ arg[c].conn \in Connection
        /\ \A x \in Concern(c) : x \in {arg[c].from, arg[c].to, arg[c].test}
        /\ Clean(c) => EditingWell(c)
        /\ ~Clean(c) => Concern(c) \subseteq spoilt
        /\ Concern(c) \subseteq Name
    BY <1>1, OfChange DEF Kind, Adding, Editing, ARemoval
  <1>3. /\ \A r \in mine : /\ r \in table /\ r.id = arg[c].id /\ r \in Row
                           /\ r.endpoint \in Concern(c) \cup spoilt
        /\ \A r, t \in mine : r = t
    BY <1>0, <1>2 DEF TypeOK, Inv, ChangeOf, IdOf
  <1>4. \A r \in mine :
          /\ Edited(r, c) \in Row /\ Edited(r, c).id = r.id
          /\ Edited(r, c).endpoint \in {r.endpoint, arg[c].to}
    BY <1>2, <1>3 DEF Edited, Row
  <1>5. ASSUME Clean(c)
        PROVE  /\ mine = {RowFor(c, arg[c].from, arg[c].was)}
               /\ edited = {RowFor(c, arg[c].to, arg[c].conn)}
               /\ ~Clash(table \ mine, edited)
               /\ arg[c].to # arg[c].from => At(arg[c].to) = {}
               /\ Agrees(arg[c].from) /\ Agrees(arg[c].to)
               /\ At(arg[c].from) = mine
    <2>1. /\ At(arg[c].from) = {RowFor(c, arg[c].from, arg[c].was)}
          /\ arg[c].to # arg[c].from => At(arg[c].to) = {}
          /\ Agrees(arg[c].from) /\ Agrees(arg[c].to)
      BY <1>1, <1>2, <1>5 DEF EditingWell
    <2>2. PICK r : r = RowFor(c, arg[c].from, arg[c].was)
      OBVIOUS
    <2>3. /\ r \in table /\ r.id = arg[c].id /\ r.endpoint = arg[c].from
          /\ r.conn = arg[c].was
      BY <2>1, <2>2 DEF At, RowFor
    <2>4. mine = {r}
      BY <1>0, <1>3, <2>3
    <2>5. Edited(r, c) = RowFor(c, arg[c].to, arg[c].conn)
      BY <2>3 DEF Edited, RowFor
    <2>6. edited = {RowFor(c, arg[c].to, arg[c].conn)}
      BY <1>0, <2>4, <2>5
    <2>7. ~Clash(table \ mine, edited)
      <3>1. RowFor(c, arg[c].to, arg[c].conn).endpoint = arg[c].to
        BY DEF RowFor
      <3>2. \A t \in table \ mine : t.endpoint # arg[c].to
        BY <2>1, <2>2, <2>4 DEF At
      <3> QED
        BY <2>6, <3>1, <3>2 DEF Clash
    <2> QED
      BY <2>1, <2>2, <2>4, <2>6, <2>7
  <1>6. StaysThere /\ prods' \in [Name -> Product \cup {None}]
    BY <1>1, <1>2 DEF StaysThere, TypeOK
  <1>7. \A x : Served(x)' = Served(x)
    BY <1>1, SameProduct
  <1>8. CASE mine = {} \/ Clash(table \ mine, edited)
    <2>1. End(c) /\ UNCHANGED table
      BY <1>0, <1>8 DEF UpdateRow
    <2>2. ~Clean(c)
      BY <1>5, <1>8
    <2>3. \A x : Stays(x)
      BY <1>7, <2>1, SameTable DEF Stays
    <2> QED
      BY <1>1, <1>2, <1>6, <2>1, <2>2, <2>3, Ends
  <1>9. CASE mine # {} /\ ~Clash(table \ mine, edited)
    <2>1. /\ table' = (table \ mine) \cup edited /\ Move(c, "reload")
          /\ UNCHANGED <<held, own, arg>>
      BY <1>0, <1>9 DEF UpdateRow
    <2>2. \A t \in edited : \E r \in mine : t = Edited(r, c)
      BY <1>0
    <2>3. PICK r \in mine : mine = {r} /\ edited = {Edited(r, c)}
      BY <1>0, <1>3, <1>9
    <2>4. /\ table' \subseteq Row
          /\ \A s, t \in table' : s.id = t.id \/ s.endpoint = t.endpoint => s = t
      <3>1. \A s \in table \ mine : s.id # r.id /\ s.endpoint # Edited(r, c).endpoint
        BY <1>3, <1>0, <1>9, <2>3 DEF Clash
      <3>2. \A s \in table \ mine : s.id # Edited(r, c).id
        BY <1>4, <3>1
      <3> QED
        BY <1>2, <1>4, <2>1, <2>3, <3>1, <3>2 DEF TypeOK
    <2>5. IsFiniteSet(table)'
      <3>1. IsFiniteSet(table \ mine)
        BY FS_Subset DEF Inv
      <3> QED
        BY <2>1, <2>3, <3>1, FS_AddElement
    <2>6. pc' = [pc EXCEPT ![c] = "reload"] /\ "reload" \in AdminPC
      BY <2>1 DEF Move, AdminPC
    <2>7. pc'[c] = "reload" /\ \A d \in Call \ {c} : pc'[d] = pc[d]
      BY <1>2, <2>6 DEF TypeOK
    <2>8. TypeOK'
      BY <1>1, <1>2, <1>6, <2>1, <2>4, <2>6 DEF TypeOK
    <2>9. \A d \in Call : HeldOf(d)'
      <3>1. HeldOf(c)'
        BY <1>1, <1>2, <2>1, <2>7 DEF Inv, HeldOf
      <3> QED
        BY <1>6, <2>1, <2>7, <3>1, OthersHold
    <2>10. \A d \in Admin : Concern(d)' = Concern(d)
      BY <2>1 DEF Concern
    <2>11. Edited(r, c).endpoint \in Concern(c) \cup spoilt
      BY <1>2, <1>3, <1>4
    <2>12. \A x \in Name \ (Concern(c) \cup spoilt) : Stays(x)
      <3> TAKE x \in Name \ (Concern(c) \cup spoilt)
      <3>1. r.endpoint # x /\ Edited(r, c).endpoint # x
        BY <1>3, <2>11
      <3>2. At(x)' = At(x)
        BY <2>1, <2>3, <3>1 DEF At
      <3> QED
        BY <1>7, <3>2 DEF Stays
    <2>13. \A d \in Admin : IdOf(d)'
      <3> SUFFICES ASSUME NEW d \in Admin, NEW t \in table', t.id = arg[d].id
                   PROVE  t.endpoint \in Concern(d) \cup spoilt
        BY <1>1, <2>1, <2>10 DEF IdOf
      <3>1. CASE t \in table
        BY <3>1 DEF Inv, ChangeOf, IdOf
      <3>2. CASE t = Edited(r, c)
        <4>1. CASE d = c
          BY <2>11, <3>2, <4>1
        <4>2. CASE d # c /\ ~Clean(c)
          BY <1>2, <2>11, <3>2, <4>2
        <4>3. CASE d # c /\ Clean(c)
          <5>1. r.id = arg[d].id
            BY <1>4, <3>2
          <5>2. r.endpoint \in Concern(d) \cup spoilt
            BY <1>3, <5>1 DEF Inv, ChangeOf, IdOf
          <5>3. Concern(c) \cap Concern(d) = {}
            BY <4>3 DEF Inv, ChangeOf, ApartOf
          <5>4. r.endpoint = arg[c].from
            BY <1>5, <2>3, <4>3 DEF RowFor
          <5> QED
            BY <1>2, <4>3, <5>2, <5>3, <5>4 DEF Clean
        <4> QED
          BY <4>1, <4>2, <4>3
      <3> QED
        BY <2>1, <2>3, <3>1, <3>2
    <2>14. ControlOf(c)'
      BY <1>2, <2>1, <2>7 DEF ControlOf, Editing
    <2>15. Clean(c) => EditingWell(c)'
      <3> SUFFICES ASSUME Clean(c)
                   PROVE  EditingWell(c)'
        OBVIOUS
      <3>1. arg' = arg /\ pc'[c] = "reload"
        BY <2>1, <2>7
      <3>2. Agrees(arg[c].test)'
        <4>1. At(arg[c].test)' = {}
          <5>1. arg[c].test \in Test
            BY <1>2 DEF Editing
          <5> QED
            BY <2>4, <3>1, <5>1, ProductAssumption DEF At, Row
        <4>2. Served(arg[c].test) = {}
          <5>1. Agrees(arg[c].test) /\ arg[c].test \in Test
            BY <1>1, <1>2 DEF EditingWell, Editing
          <5> QED
            BY <1>2, <5>1, TestHasNoRow DEF Agrees
        <4> QED
          BY <1>1, <3>1, <4>1, <4>2 DEF Agrees, Served
      <3>3. Served(arg[c].from)' # {}
        <4>1. Served(arg[c].from) # {}
          BY <1>5 DEF Agrees
        <4> QED
          BY <1>1, <3>1, <4>1 DEF Served
      <3>4. PICK t : t = RowFor(c, arg[c].to, arg[c].conn)
        OBVIOUS
      <3>5. table' = (table \ At(arg[c].from)) \cup {t} /\ t.endpoint = arg[c].to
        BY <1>5, <2>1, <3>4 DEF RowFor
      <3>6. At(arg[c].to)' = {RowFor(c, arg[c].to, arg[c].conn)'}
        <4>1. At(arg[c].to)' = {t}
          BY <1>5, <3>1, <3>5 DEF At
        <4> QED
          BY <3>1, <3>4, <4>1 DEF RowFor
      <3>7. arg[c].to # arg[c].from =>
              Served(arg[c].to)' = {} /\ At(arg[c].from)' = {}
        <4> SUFFICES ASSUME arg[c].to # arg[c].from
                     PROVE  Served(arg[c].to)' = {} /\ At(arg[c].from)' = {}
          OBVIOUS
        <4>1. Served(arg[c].to) = {}
          BY <1>5 DEF Agrees
        <4>2. Served(arg[c].to)' = {}
          BY <1>1, <3>1, <4>1 DEF Served
        <4>3. At(arg[c].from)' = {}
          BY <3>1, <3>5 DEF At
        <4> QED
          BY <4>2, <4>3
      <3> QED
        BY <1>2, <3>1, <3>2, <3>3, <3>6, <3>7 DEF EditingWell, RowFor
    <2>16. arg'[c].kind = "edit" /\ \A d \in Admin \ {c} : arg'[d] = arg[d]
      BY <1>2, <2>1
    <2> QED
      BY <1>1, <2>1, <2>5, <2>6, <2>8, <2>9, <2>10, <2>12, <2>13, <2>14,
         <2>15, <2>16, GoesOn
  <1> QED
    BY <1>8, <1>9

(* The row is read again: only the change's own arguments are another's.   *)
LEMMA ReloadGoesOn ==
  ASSUME Inv, NEW c \in Admin, pc[c] = "reload", NEW p \in {"setup", "remove"},
         Move(c, p), NEW a \in Argument, arg' = [arg EXCEPT ![c] = a],
         UNCHANGED <<table, prods, held, own, spoilt>>,
         a.kind = arg[c].kind, a.from = arg[c].from, a.test = arg[c].test,
         a.was = arg[c].was, a.to \in Concern(c) \cup spoilt \cup {None},
         a.conn \in Connection, a.final,
         \A r \in table : r.id = a.id => r.endpoint = a.to,
         a.kind = "add" => p = "setup" /\ a.to = a.test,
         a.kind = "edit" => p = "remove",
         Clean(c) =>
           /\ a.to = arg[c].to
           /\ At(a.to) = {[id |-> a.id, endpoint |-> a.to, conn |-> a.conn]}
           /\ a.kind = "edit" => a.id = arg[c].id /\ a.conn = arg[c].conn
  PROVE  Inv'
  <1>1. /\ TypeOK /\ c \in Call /\ Concern(c) \subseteq Name
        /\ arg[c].kind \in {"add", "edit"} /\ ~arg[c].final
        /\ ~Clean(c) => Concern(c) \subseteq spoilt
        /\ arg[c].kind = "add" => Adding(c) /\ (Clean(c) => AddingWell(c))
        /\ arg[c].kind = "edit" => Editing(c) /\ (Clean(c) => EditingWell(c))
    BY OfChange DEF Kind, Adding, Editing, ARemoval
  <1>2. /\ arg'[c] = a /\ \A d \in Admin \ {c} : arg'[d] = arg[d]
        /\ pc' = [pc EXCEPT ![c] = p] /\ p \in AdminPC
    BY <1>1 DEF TypeOK, Move, AdminPC, Removing
  <1>3. pc'[c] = p /\ \A d \in Call \ {c} : pc'[d] = pc[d]
    BY <1>1, <1>2 DEF TypeOK
  <1>4. TypeOK'
    BY <1>1, <1>2 DEF TypeOK
  <1>5. StaysThere /\ \A x : Stays(x)
    BY SameTable, SameProduct DEF StaysThere, Stays
  <1>6. \A d \in Call : HeldOf(d)'
    <2>1. HeldOf(c)'
      BY <1>1, <1>3 DEF Inv, HeldOf
    <2> QED
      BY <1>3, <1>5, <2>1, OthersHold
  <1>7. /\ Concern(c)' = {a.from, a.to, a.test} \ {None}
        /\ Concern(c) = {a.from, arg[c].to, a.test} \ {None}
    BY <1>2 DEF Concern
  <1>8. Concern(c)' \subseteq Concern(c) \cup spoilt
    BY <1>7
  <1>9. Clean(c) => Concern(c)' = Concern(c)
    BY <1>7
  <1>10. \A d \in Admin : IdOf(d)'
    <2>1. ASSUME NEW d \in Admin \ {c}
          PROVE  IdOf(d)'
      <3>1. Concern(d)' = Concern(d) /\ arg'[d] = arg[d]
        BY <1>2 DEF Concern
      <3> QED
        BY <3>1 DEF Inv, ChangeOf, IdOf
    <2>2. IdOf(c)'
      <3>1. \A r \in table : r.endpoint # None
        BY <1>1, NoneIsNoName DEF TypeOK, Row
      <3> QED
        BY <1>2, <1>7, <3>1 DEF IdOf
    <2> QED
      BY <2>1, <2>2
  <1>11. ControlOf(c)'
    BY <1>1, <1>2, <1>3 DEF ControlOf, Adding, Editing
  <1>12. ASSUME Clean(c)
         PROVE  /\ arg'[c].kind = "add" => AddingWell(c)'
                /\ arg'[c].kind = "edit" => EditingWell(c)'
    <2>1. CASE a.kind = "add"
      <3>1. Served(a.test) = {}
        BY <1>1, <1>12, <2>1 DEF AddingWell
      <3>2. Served(arg[c].test)' = {}
        BY <1>2, <3>1 DEF Served
      <3>3. At(arg[c].test)' = {RowFor(c, arg[c].test, arg[c].conn)'}
        BY <1>2, <1>12, <2>1 DEF At, RowFor
      <3> QED
        BY <1>2, <1>3, <2>1, <3>2, <3>3 DEF AddingWell, RowFor
    <2>2. CASE a.kind = "edit"
      <3>1. EditingWell(c) /\ a.to = arg[c].to /\ a.id = arg[c].id /\ a.conn = arg[c].conn
        BY <1>1, <1>12, <2>2
      <3>2. /\ a.to \in Endpoint /\ Agrees(a.test) /\ Served(a.from) # {}
            /\ At(a.to) = {RowFor(c, a.to, a.conn)}
            /\ a.to # a.from => Served(a.to) = {} /\ At(a.from) = {}
        BY <1>1, <2>2, <3>1 DEF EditingWell
      <3>3. Agrees(arg[c].test)' /\ Served(arg[c].from)' # {}
        BY <1>2, <3>2 DEF Agrees, Served, At
      <3>4. At(arg[c].to)' = {RowFor(c, arg[c].to, arg[c].conn)'}
        BY <1>2, <3>1, <3>2 DEF At, RowFor
      <3>5. arg'[c].to # arg'[c].from =>
              Served(arg[c].to)' = {} /\ At(arg[c].from)' = {}
        <4> SUFFICES ASSUME a.to # a.from
                     PROVE  Served(arg[c].to)' = {} /\ At(arg[c].from)' = {}
          BY <1>2
        <4>1. Served(arg[c].to)' = {}
          BY <1>2, <3>2 DEF Served
        <4>2. At(arg[c].from)' = {}
          BY <1>2, <3>2 DEF At
        <4> QED
          BY <4>1, <4>2
      <3> QED
        BY <1>2, <1>3, <2>2, <3>2, <3>3, <3>4, <3>5 DEF EditingWell, RowFor
    <2> QED
      BY <1>1, <1>2, <2>1, <2>2
  <1> QED
    BY <1>1, <1>2, <1>4, <1>5, <1>6, <1>8, <1>9, <1>10, <1>11, <1>12,
       GoesOn DEF Inv

LEMMA StepReloadRow ==
  ASSUME Inv, NEW c \in Admin, ReloadRow(c)
  PROVE  Inv'
  <1>1. pc[c] = "reload" /\ UNCHANGED <<table, prods, spoilt>>
    BY DEF ReloadRow
  <1>2. /\ TypeOK /\ c \in Call /\ arg[c] \in Argument
        /\ arg[c].kind \in {"add", "edit"} /\ ~arg[c].final
        /\ ~Clean(c) => Concern(c) \subseteq spoilt
        /\ arg[c].kind = "add" =>
             /\ Adding(c) /\ arg[c].to = arg[c].test /\ arg[c].to \in Endpoint
             /\ Concern(c) = {arg[c].to}
             /\ Clean(c) => At(arg[c].to) # {}
        /\ arg[c].kind = "edit" =>
             /\ Editing(c) /\ arg[c].to \in Endpoint /\ arg[c].to \in Concern(c)
             /\ Clean(c) => At(arg[c].to) = {RowFor(c, arg[c].to, arg[c].conn)}
    <2>1. arg[c].kind \in Kind /\ arg[c].kind # "remove"
      BY <1>1, OfChange DEF ARemoval
    <2>2. arg[c].kind = "add" =>
             /\ Adding(c) /\ ~arg[c].final /\ Concern(c) = {arg[c].test}
             /\ Clean(c) => At(arg[c].test) # {}
      BY <1>1, OfChange DEF Adding, AddingWell
    <2>3. arg[c].kind = "edit" =>
             /\ Editing(c) /\ ~arg[c].final /\ arg[c].to \in Endpoint
             /\ arg[c].to \in Concern(c)
             /\ Clean(c) => At(arg[c].to) = {RowFor(c, arg[c].to, arg[c].conn)}
      BY <1>1, OfChange DEF Editing, EditingWell
    <2> QED
      BY <1>1, <2>1, <2>2, <2>3, OfChange DEF Kind, Adding
  <1>3. ASSUME NEW r \in Reread(c),
               arg' = [arg EXCEPT ![c] =
                 [@ EXCEPT !.final = TRUE, !.id = r.id, !.to = r.endpoint,
                           !.conn = r.conn]],
               Move(c, IF arg[c].kind = "add" THEN "setup" ELSE "remove"),
               UNCHANGED <<held, own>>
        PROVE  Inv'
    <2>1. PICK a : a = [arg[c] EXCEPT !.final = TRUE, !.id = r.id,
                                      !.to = r.endpoint, !.conn = r.conn]
      OBVIOUS
    <2>2. /\ r \in table /\ r \in Row /\ r.endpoint \in Endpoint
          /\ r.conn \in Connection /\ r.id \in Nat \ {0}
          /\ r = [id |-> r.id, endpoint |-> r.endpoint, conn |-> r.conn]
          /\ At(r.endpoint) = {r} /\ \A t \in table : t.id = r.id => t = r
      <3>1. r \in table
        BY DEF Reread
      <3> QED
        BY <1>2, <3>1, RowOfTable
    <2>3. /\ a \in Argument /\ a.kind = arg[c].kind /\ a.from = arg[c].from
          /\ a.test = arg[c].test /\ a.was = arg[c].was /\ a.final
          /\ a.id = r.id /\ a.to = r.endpoint /\ a.conn = r.conn
      BY <1>2, <2>1, <2>2 DEF Argument
    <2>4. arg' = [arg EXCEPT ![c] = a]
      BY <1>3, <2>1
    <2>5. /\ a.kind = "add" => r.endpoint = arg[c].to
          /\ a.kind = "edit" => r.id = arg[c].id
      BY <2>3 DEF Reread
    <2>6. a.to \in Concern(c) \cup spoilt
      <3>1. CASE a.kind = "add"
        BY <1>2, <2>3, <2>5, <3>1
      <3>2. CASE a.kind = "edit"
        BY <2>2, <2>3, <2>5, <3>2 DEF Inv, ChangeOf, IdOf
      <3> QED
        BY <1>2, <2>3, <3>1, <3>2
    <2>7. ASSUME Clean(c)
          PROVE  /\ a.to = arg[c].to
                 /\ At(a.to) = {[id |-> a.id, endpoint |-> a.to, conn |-> a.conn]}
                 /\ a.kind = "edit" => a.id = arg[c].id /\ a.conn = arg[c].conn
      <3>1. At(a.to) = {[id |-> a.id, endpoint |-> a.to, conn |-> a.conn]}
        BY <2>2, <2>3
      <3>2. CASE a.kind = "add"
        BY <2>3, <2>5, <3>1, <3>2
      <3>3. CASE a.kind = "edit"
        <4>1. PICK t : t = RowFor(c, arg[c].to, arg[c].conn)
          OBVIOUS
        <4>2. t \in table /\ t.id = arg[c].id /\ t.endpoint = arg[c].to /\ t.conn = arg[c].conn
          BY <1>2, <2>3, <2>7, <3>3, <4>1 DEF At, RowFor
        <4>3. t = r
          BY <2>2, <2>5, <3>3, <4>2
        <4> QED
          BY <2>3, <2>5, <3>1, <3>3, <4>2, <4>3
      <3> QED
        BY <1>2, <2>3, <3>2, <3>3
    <2>8. PICK p : p = IF arg[c].kind = "add" THEN "setup" ELSE "remove"
      OBVIOUS
    <2>9. /\ p \in {"setup", "remove"} /\ Move(c, p)
          /\ a.kind = "add" => p = "setup" /\ a.to = a.test
          /\ a.kind = "edit" => p = "remove"
      BY <1>2, <1>3, <2>3, <2>5, <2>8
    <2>10. \A t \in table : t.id = a.id => t.endpoint = a.to
      BY <2>2, <2>3
    <2> QED
      BY <1>1, <1>3, <2>2, <2>3, <2>4, <2>6, <2>7, <2>9, <2>10, ReloadGoesOn
  <1>4. CASE Reread(c) = {} /\ arg[c].kind = "add" /\ End(c)
    <2>1. ~Clean(c)
      BY <1>2, <1>4 DEF At, Reread
    <2>2. StaysThere /\ \A x : Stays(x)
      BY <1>1, SameTable, SameProduct DEF StaysThere, Stays
    <2>3. prods' \in [Name -> Product \cup {None}]
      BY <1>1, <1>2 DEF TypeOK
    <2> QED
      BY <1>1, <1>2, <1>4, <2>1, <2>2, <2>3, Ends
  <1>5. CASE /\ Reread(c) = {} /\ arg[c].kind = "edit"
             /\ arg' = [arg EXCEPT ![c] = [@ EXCEPT !.final = TRUE, !.to = None]]
             /\ Move(c, "remove") /\ UNCHANGED <<held, own>>
    <2>1. PICK a : a = [arg[c] EXCEPT !.final = TRUE, !.to = None]
      OBVIOUS
    <2>2. /\ a \in Argument /\ a.kind = arg[c].kind /\ a.from = arg[c].from
          /\ a.test = arg[c].test /\ a.was = arg[c].was /\ a.final
          /\ a.id = arg[c].id /\ a.to = None /\ a.conn = arg[c].conn
      BY <1>2, <2>1 DEF Argument
    <2>3. arg' = [arg EXCEPT ![c] = a]
      BY <1>5, <2>1
    <2>4. \A r \in table : r.id # a.id
      BY <1>5, <2>2 DEF Reread
    <2>5. ~Clean(c)
      <3>1. PICK t : t = RowFor(c, arg[c].to, arg[c].conn)
        OBVIOUS
      <3>2. t \in At(arg[c].to) => t \in table /\ t.id = arg[c].id
        BY <3>1 DEF At, RowFor
      <3> QED
        BY <1>2, <1>5, <2>2, <2>4, <3>1, <3>2
    <2>6. a.conn \in Connection
      BY <1>2, <1>5, <2>2 DEF Editing
    <2>7. PICK p : p = "remove"
      OBVIOUS
    <2>8. /\ p \in {"setup", "remove"} /\ Move(c, p)
          /\ a.kind # "add" /\ UNCHANGED <<table, prods, held, own, spoilt>>
      BY <1>1, <1>5, <2>2, <2>7
    <2>9. /\ a.to \in Concern(c) \cup spoilt \cup {None}
          /\ \A r \in table : r.id = a.id => r.endpoint = a.to
      BY <2>2, <2>4
    <2> QED
      BY <1>1, <2>2, <2>3, <2>5, <2>6, <2>7, <2>8, <2>9, ReloadGoesOn
  <1> QED
    BY <1>3, <1>4, <1>5 DEF ReloadRow
-----------------------------------------------------------------------------
(* The server starts.                                                      *)
LEMMA StepRestart ==
  ASSUME Inv, Restart
  PROVE  Inv'
  <1>0. TypeOK
    BY DEF Inv
  <1>1. PICK ok :
          prods' = [e \in Name |->
            IF e \in Endpoints
            THEN NewProduct(RowOf(e).id, RowOf(e).conn,
                            IF e \in ok THEN "connected" ELSE "failed")
            ELSE None]
    BY DEF Restart, Starts
  <1>2. /\ pc' = [c \in Call |-> "idle"] /\ arg' = [c \in Admin |-> NoArgument]
        /\ held' = [c \in Call |-> None] /\ own' = [c \in Call |-> None]
        /\ spoilt' = {} /\ table' = table
    BY DEF Restart
  <1>3. ASSUME NEW e \in Endpoints
        PROVE  RowOf(e) \in table /\ RowOf(e).endpoint = e
    <2>1. \E r \in table : r.endpoint = e
      BY DEF Endpoints
    <2> QED
      BY <2>1 DEF RowOf
  <1>4. ASSUME NEW e \in Endpoints
        PROVE  /\ e \in Name /\ At(e) = {RowOf(e)}
               /\ RowOf(e) = [id |-> RowOf(e).id, endpoint |-> e,
                              conn |-> RowOf(e).conn]
               /\ RowOf(e).id \in Nat /\ RowOf(e).conn \in Connection
    <2>1. PICK r \in table : r = RowOf(e) /\ r.endpoint = e
      BY <1>3
    <2> QED
      BY <1>0, <2>1, RowOfTable DEF Name
  <1>5. TypeOK'
    <2>1. prods' \in [Name -> Product \cup {None}]
      BY <1>1, <1>4 DEF NewProduct, Product
    <2>2. NoArgument \in Argument /\ "idle" \in AdminPC
      BY DEF NoArgument, Argument, AdminPC
    <2> QED
      BY <1>0, <1>2, <2>1, <2>2 DEF TypeOK
  <1>6. \A e \in Name : Agrees(e)'
    <2> TAKE e \in Name
    <2>1. At(e)' = At(e)
      BY <1>2 DEF At
    <2>2. CASE e \in Endpoints
      <3>1. PICK r, p : r = RowOf(e) /\ p = prods'[e]
        OBVIOUS
      <3>2. p.id = r.id /\ p.conn = r.conn /\ p \in Product
        BY <1>1, <1>4, <2>2, <3>1 DEF NewProduct, Product
      <3>3. Served(e)' = {[id |-> p.id, endpoint |-> e, conn |-> p.conn]}
        BY <3>1, <3>2, NoneAssumption DEF Served
      <3> QED
        BY <1>4, <2>1, <2>2, <3>1, <3>2, <3>3 DEF Agrees
    <2>3. CASE e \notin Endpoints
      <3>1. prods'[e] = None
        BY <1>1, <2>3
      <3>2. Served(e)' = {}
        BY <3>1 DEF Served
      <3>3. At(e) = {}
        BY <2>3 DEF At, Endpoints
      <3> QED
        BY <2>1, <3>2, <3>3 DEF Agrees
    <2> QED
      BY <2>2, <2>3
  <1>7. ServedFromTable'
    BY <1>6 DEF ServedFromTable, Agrees, At
  <1>8. \A c \in Call : HeldOf(c)'
    BY <1>2 DEF HeldOf
  <1>9. \A c \in Admin : ChangeOf(c)'
    <2> TAKE c \in Admin
    <2>1. \A r \in table' : r.id # 0
      BY <1>5 DEF TypeOK, Row
    <2>2. pc'[c] = "idle" /\ arg'[c] = NoArgument
      BY <1>2 DEF Call
    <2>3. \A d \in Admin : Concern(d)' = {}
      BY <1>2 DEF Concern, NoArgument
    <2> QED
      BY <2>1, <2>2, <2>3
         DEF ChangeOf, ControlOf, IdOf, ApartOf, Clean, WellOf, NoArgument
  <1> QED
    BY <1>2, <1>5, <1>7, <1>8, <1>9 DEF Inv
-----------------------------------------------------------------------------
LEMMA InvInit == Init => Inv
  <1> SUFFICES ASSUME Init
               PROVE  Inv
    OBVIOUS
  <1>1. /\ table = {} /\ pc = [c \in Call |-> "idle"]
        /\ arg = [c \in Admin |-> NoArgument]
        /\ held = [c \in Call |-> None] /\ own = [c \in Call |-> None]
        /\ spoilt = {} /\ prods = [e \in Name |-> None]
    BY DEF Init, Starts, Endpoints
  <1>2. TypeOK
    <2>1. NoArgument \in Argument /\ "idle" \in AdminPC
      BY DEF NoArgument, Argument, AdminPC
    <2> QED
      BY <1>1, <2>1 DEF TypeOK
  <1>3. ServedFromTable
    BY <1>1 DEF ServedFromTable, Served
  <1>4. \A c \in Call : HeldOf(c)
    BY <1>1 DEF HeldOf
  <1>5. \A c \in Admin : ChangeOf(c)
    <2> TAKE c \in Admin
    <2>1. pc[c] = "idle" /\ arg[c] = NoArgument
      BY <1>1 DEF Call
    <2>2. \A d \in Admin : Concern(d) = {}
      BY <1>1 DEF Concern, NoArgument
    <2> QED
      BY <1>1, <2>1, <2>2
         DEF ChangeOf, ControlOf, IdOf, ApartOf, Clean, WellOf, NoArgument
  <1> QED
    BY <1>1, <1>2, <1>3, <1>4, <1>5, FS_EmptySet DEF Inv

LEMMA InvNext == Inv /\ [Next]_vars => Inv'
  <1> SUFFICES ASSUME Inv, [Next]_vars
               PROVE  Inv'
    OBVIOUS
  <1>1. CASE UNCHANGED vars
    <2>1. UNCHANGED <<table, prods, pc, arg, held, own, spoilt>>
      BY <1>1 DEF vars
    <2>2. TypeOK'
      BY <2>1 DEF Inv, TypeOK
    <2>3. \A c \in Call : HeldOf(c)'
      BY <2>1 DEF Inv, HeldOf
    <2>4. (\A c \in Admin : ChangeOf(c)') /\ ServedFromTable'
      BY <2>1, NoChange, SameProduct DEF Same
    <2> QED
      BY <2>1, <2>2, <2>3, <2>4 DEF Inv
  <1>2. ASSUME NEW c \in Admin,
               AddProduct(c) \/ EditProduct(c) \/ RemoveProduct(c)
        PROVE  Inv'
    BY <1>2, StepAddProduct, StepEditProduct, StepRemoveProduct
  <1>3. ASSUME NEW c \in Admin, Change(c)
        PROVE  Inv'
    BY <1>3, StepAddToServer, StepCheckConnection, StepRemoveFromServer,
       StepInsertRow, StepReloadRow, StepUpdateRow, StepDeleteRow DEF Change
  <1>4. ASSUME NEW c \in Call, Step(c)
        PROVE  Inv'
    BY <1>4, StepConnect, StepConnectEnds
       DEF Step, ConnectSucceeds, ConnectFails
  <1> QED
    BY <1>1, <1>2, <1>3, <1>4, StepCommitFails, StepRoute, StepRetryTimeout,
       StepRestart DEF Next

LEMMA Invariance == Spec => []Inv
  BY InvInit, InvNext, PTL DEF Spec

(* Whatever changes of products come together, fail to be committed or are *)
(* cut short by a restart, and whoever connects meanwhile: an endpoint     *)
(* that nothing is under way about, and no spoilt change was, is served    *)
(* by the product the table has for it, from the database it names, or by  *)
(* none (addProduct, editProduct and removeProduct of product_server.py,   *)
(* add_product and remove_product of server.py).                           *)
THEOREM TableServedCorrect == Spec => []TableServed
  <1>1. Inv => TableServed
    BY DEF Inv, TableServed
  <1> QED
    BY <1>1, Invariance, PTL
=============================================================================
