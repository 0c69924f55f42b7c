------------------------- MODULE PermissionsProofs -------------------------
(***************************************************************************)
(* Theorems about Permissions for any number of users, groups, calls and   *)
(* edits: on SQLite an edit leaves a permission either everybody's or of   *)
(* those it was given to; on PostgreSQL no grant is lost to another call.  *)
(***************************************************************************)
EXTENDS Permissions, FiniteSetTheorems, TLAPS

Editing == {"list", "default", "commit"}

(* Primary keys are unique.                                                *)
KeysDiffer(R) == \A r, s \in R : KeyOf(r) = KeyOf(s) => r = s

(* A permission that is given to somebody is not everybody's, and at most  *)
(* one row says that it is; others never are.                              *)
Grants(R, p) == {r \in R : r.perm = p /\ r.who # Star}
Kept(R, p) ==
  /\ \A m, n \in RowsFor(R, p, Star) : m = n
  /\ Grants(R, p) # {} \/ p \notin default_enable => RowsFor(R, p, Star) = {}
Exact(R, p) ==
  Kept(R, p) /\ (p \in default_enable /\ Grants(R, p) = {} => RowsFor(R, p, Star) # {})

(* What the control state of a call says of its data.                      *)
CallOf(c) ==
  /\ IsFiniteSet(new[c]) /\ IsFiniteSet(gone[c])
  /\ pc[c] # "idle" /\ req[c].op = "add" =>
       /\ pc[c] \in Editing =>
            \E n \in new[c] : /\ new[c] = {n}
                              /\ n.perm = req[c].perm /\ n.who = req[c].who
       /\ pc[c] \in {"list", "default"} => gone[c] = {}
  /\ pc[c] # "idle" /\ req[c].op = "remove" =>
       /\ pc[c] \in {"write"} \cup Editing =>
            /\ record[c] # None
            /\ record[c].perm = req[c].perm /\ record[c].who = req[c].who
       /\ pc[c] \in {"list", "default"} => new[c] = {}
       /\ pc[c] \in Editing => gone[c] = {KeyOf(record[c])}

TypeInv == TypeOK /\ IsFiniteSet(rows) /\ \A c \in Call : CallOf(c)

(* SQLite: the one call that writes sees all rows as they will be.         *)
EditOf(c) ==
  /\ pc[c] \in Editing => KeysDiffer(View(c))
  /\ pc[c] \in {"list", "default"} /\ req[c].op = "add" =>
       \A n \in new[c] : \A r \in rows : KeyOf(r) # KeyOf(n)
  /\ pc[c] = "default" /\ req[c].op = "remove" =>
       RowsOf(View(c), req[c].perm) = {}
  /\ pc[c] = "commit" => /\ \A p \in Perm : Kept(View(c), p)
                         /\ Exact(View(c), req[c].perm)
WriterInv ==
  OneWriter =>
    /\ \A c, d \in Call : Writing(c) /\ Writing(d) => c = d
    /\ \A p \in Perm : Kept(rows, p)
    /\ \A c \in Call : EditOf(c)

(* PostgreSQL: a key that a call knows is that of the row it was read      *)
(* from, or of none.                                                       *)
AllRows == rows \cup UNION {new[c] : c \in Call}
KnownOf(c) ==
  /\ record[c] # None =>
       \A r \in AllRows : KeyOf(r) = KeyOf(record[c]) => r = record[c]
  /\ pc[c] # "idle" /\ req[c].op = "add" =>
       \A k \in gone[c] : \A r \in AllRows : KeyOf(r) = k => r.who = Star
KnownInv == ~OneWriter => KeysDiffer(AllRows) /\ \A c \in Call : KnownOf(c)

Inv == TypeInv /\ KeysDiffer(rows) /\ WriterInv /\ KnownInv

-----------------------------------------------------------------------------
(* The primary keys that the database gives.                               *)

(* A finite set of numbers has a smallest one.                             *)
LEMMA MinExists ==
  ASSUME NEW S \in SUBSET Nat, S # {}
  PROVE  Min(S) \in S
<1>1. \A n \in Nat : n \in S => \E x \in S : \A y \in S : x <= y
  <2> DEFINE Good(n) == n \in S => \E x \in S : \A y \in S : x <= y
             Bad == {n \in Nat : ~Good(n)}
  <2>1. Bad = {}
    <3> SUFFICES ASSUME Bad # {} PROVE FALSE
      OBVIOUS
    <3>1. IsWellFoundedOn(OpToRel(<, Nat), Nat)
      BY NatLessThanWellFounded
    <3>2. Bad \subseteq Nat
      OBVIOUS
    <3> HIDE DEF Bad
    <3>3. PICK n \in Bad : \A m \in Bad : <<m, n>> \notin OpToRel(<, Nat)
      BY <3>1, <3>2, WFMin
    <3> USE DEF Bad
    <3>4. \A m \in Bad : ~(m < n)
      BY <3>2, <3>3 DEF OpToRel
    <3>5. n \in S /\ ~ \E x \in S : \A y \in S : x <= y
      BY <3>3
    <3>6. PICK y \in S : ~(n <= y)
      BY <3>5
    <3>7. y \in Nat /\ y < n
      BY <3>2, <3>6
    <3>8. y \in Bad
      BY <3>5, <3>6, <3>7
    <3> QED BY <3>4, <3>7, <3>8
  <2> QED BY <2>1
<1>2. \E x \in S : \A y \in S : x <= y
  BY <1>1
<1> QED BY <1>2 DEF Min

(* A finite set of numbers has a largest one.                              *)
LEMMA MaxExists ==
  ASSUME NEW S \in SUBSET Nat, IsFiniteSet(S), S # {}
  PROVE  /\ Max(S) \in S
         /\ \A y \in S : Max(S) >= y
<1> DEFINE Bad == {U \in FiniteSubsetsOf(S) : U # {} /\ ~ \E x \in U : \A y \in U : x >= y}
<1>1. Bad = {}
  <2> SUFFICES ASSUME Bad # {} PROVE FALSE
    OBVIOUS
  <2>1. /\ IsWellFoundedOn(StrictSubsetOrdering(S), FiniteSubsetsOf(S))
        /\ Bad \subseteq FiniteSubsetsOf(S)
    BY FS_StrictSubsetOrderingWellFounded
  <2> HIDE DEF Bad
  <2>2. PICK U \in Bad : \A V \in Bad : <<V, U>> \notin StrictSubsetOrdering(S)
    BY <2>1, WFMin
  <2> USE DEF Bad
  <2>3. PICK x \in U : TRUE
    OBVIOUS
  <2>4. U \subseteq S /\ IsFiniteSet(U)
    BY DEF FiniteSubsetsOf
  <2>5. U \ {x} \in FiniteSubsetsOf(S)
    BY <2>4, FS_RemoveElement DEF FiniteSubsetsOf
  <2>6. <<U \ {x}, U>> \in StrictSubsetOrdering(S)
    BY <2>3, <2>4 DEF StrictSubsetOrdering
  <2>7. U \ {x} \notin Bad
    BY <2>2, <2>6
  <2>8. CASE U \ {x} = {}
    BY <2>3, <2>4, <2>8
  <2>9. CASE \E m \in U \ {x} : \A y \in U \ {x} : m >= y
    <3>1. PICK m \in U \ {x} : \A y \in U \ {x} : m >= y
      BY <2>9
    <3>2. m \in Nat /\ x \in Nat
      BY <2>3, <2>4
    <3>3. \A y \in U : IF m >= x THEN m >= y ELSE x >= y
      BY <3>1, <3>2, <2>4
    <3> QED BY <3>1, <3>2, <3>3, <2>3
  <2> QED BY <2>5, <2>7, <2>8, <2>9
<1>2. S \in FiniteSubsetsOf(S)
  BY DEF FiniteSubsetsOf
<1>3. \E x \in S : \A y \in S : x >= y
  BY <1>1, <1>2
<1> QED BY <1>3 DEF Max

(* The ids in one of the tables, in a finite set of rows.                  *)
LEMMA IdsInFinite ==
  ASSUME NEW R \in SUBSET Row, IsFiniteSet(R), NEW p
  PROVE  IdsIn(R, p) \in SUBSET Nat /\ IsFiniteSet(IdsIn(R, p))
<1> DEFINE S == {x \in R : TableOf(x.perm) = TableOf(p)}
           fn == [r \in S |-> r.id]
<1>1. IsFiniteSet(S)
  BY FS_Subset
<1>2. fn \in Surjection(S, IdsIn(R, p))
  BY DEF Surjection, IdsIn
<1>3. IdsIn(R, p) \in SUBSET Nat
  BY DEF IdsIn, Row
<1> QED BY <1>1, <1>2, <1>3, FS_Surjection

(* There are finitely many rows that anybody knows, and deleted keys.      *)
Known == rows \cup ({record[c] : c \in Call} \ {None}) \cup UNION {new[c] : c \in Call}
GoneIds == {k[2] : k \in UNION {gone[c] : c \in Call}}

LEMMA KnownFinite ==
  ASSUME TypeInv
  PROVE  /\ Known \in SUBSET Row /\ IsFiniteSet(Known)
         /\ GoneIds \in SUBSET Nat /\ IsFiniteSet(GoneIds)
<1>1. Known \in SUBSET Row
  BY DEF Known, TypeInv, TypeOK
<1>2. IsFiniteSet(Known)
  <2> DEFINE Rec == {record[c] : c \in Call}
             fr == [c \in Call |-> record[c]]
             News == {new[c] : c \in Call}
             fn == [c \in Call |-> new[c]]
  <2>1. fr \in Surjection(Call, Rec) /\ fn \in Surjection(Call, News)
    BY DEF Surjection
  <2>2. IsFiniteSet(Rec) /\ IsFiniteSet(News)
    BY <2>1, FS_Surjection, PermissionsAssumption
  <2>3. \A S \in News : IsFiniteSet(S)
    BY DEF TypeInv, CallOf
  <2> HIDE DEF Rec, News
  <2>4. IsFiniteSet(UNION News)
    BY <2>2, <2>3, FS_UNION
  <2>5. IsFiniteSet(Rec \ {None})
    BY <2>2, FS_RemoveElement
  <2>6. IsFiniteSet(rows)
    BY DEF TypeInv
  <2>7. IsFiniteSet(rows \cup (Rec \ {None}))
    BY <2>5, <2>6, FS_Union
  <2>8. IsFiniteSet((rows \cup (Rec \ {None})) \cup UNION News)
    BY <2>4, <2>7, FS_Union
  <2> QED BY <2>8 DEF Known, Rec, News
<1>3. UNION {gone[c] : c \in Call} \in SUBSET Key
  BY DEF TypeInv, TypeOK
<1>4. IsFiniteSet(UNION {gone[c] : c \in Call})
  <2> DEFINE Gs == {gone[c] : c \in Call}
             fg == [c \in Call |-> gone[c]]
  <2>1. fg \in Surjection(Call, Gs)
    BY DEF Surjection
  <2>2. IsFiniteSet(Gs)
    BY <2>1, FS_Surjection, PermissionsAssumption
  <2>3. \A S \in Gs : IsFiniteSet(S)
    BY DEF TypeInv, CallOf
  <2> HIDE DEF Gs
  <2>4. IsFiniteSet(UNION Gs)
    BY <2>2, <2>3, FS_UNION
  <2> QED BY <2>4 DEF Gs
<1>5. GoneIds \in SUBSET Nat /\ IsFiniteSet(GoneIds)
  <2> DEFINE K == UNION {gone[c] : c \in Call}
             fk == [k \in K |-> k[2]]
  <2>1. fk \in Surjection(K, GoneIds)
    BY DEF Surjection, GoneIds
  <2>2. GoneIds \in SUBSET Nat
    BY <1>3 DEF GoneIds, Key
  <2> QED BY <1>4, <2>1, <2>2, FS_Surjection
<1> QED BY <1>1, <1>2, <1>5

LEMMA ViewFinite ==
  ASSUME TypeInv, NEW c \in Call
  PROVE  View(c) \in SUBSET Row /\ IsFiniteSet(View(c))
<1>1. View(c) \in SUBSET Row
  BY DEF View, TypeInv, TypeOK
<1>2. IsFiniteSet({r \in rows : KeyOf(r) \notin gone[c]})
  BY FS_Subset DEF TypeInv
<1>3. IsFiniteSet(new[c])
  BY DEF TypeInv, CallOf
<1> QED BY <1>1, <1>2, <1>3, FS_Union DEF View

(* The key of a new row: on SQLite that of no row the call sees, on        *)
(* PostgreSQL of none that anybody knows.                                  *)
LEMMA FreshKey ==
  ASSUME TypeInv, NEW c \in Call, NEW p \in Perm
  PROVE  LET key == <<TableOf(p), NewId(c, p)>>
         IN  /\ NewId(c, p) \in Nat
             /\ OneWriter => \A r \in View(c) : KeyOf(r) # key
             /\ ~OneWriter =>
                  /\ \A r \in AllRows : KeyOf(r) # key
                  /\ \A d \in Call : /\ record[d] # None => KeyOf(record[d]) # key
                                     /\ key \notin gone[d]
<1>1. CASE OneWriter
  <2> DEFINE I == IdsIn(View(c), p)
             S == {0} \cup I
  <2>1. I \in SUBSET Nat /\ IsFiniteSet(I)
    BY ViewFinite, IdsInFinite
  <2>2. S \in SUBSET Nat /\ IsFiniteSet(S) /\ S # {}
    <3>1. IsFiniteSet({0})
      BY FS_Singleton
    <3> HIDE DEF I
    <3>2. IsFiniteSet({0} \cup I)
      BY <2>1, <3>1, FS_Union
    <3> QED BY <2>1, <3>2
  <2> DEFINE m == Max(S)
  <2>3. m \in S /\ \A y \in S : m >= y
    BY <2>2, MaxExists
  <2>4. NewId(c, p) = 1 + m
    BY <1>1 DEF NewId
  <2> HIDE DEF m, S
  <2>5. m \in Nat /\ ~(m >= 1 + m)
    BY <2>2, <2>3
  <2>6. NewId(c, p) \in Nat /\ NewId(c, p) \notin I
    BY <2>3, <2>4, <2>5 DEF S
  <2>7. \A r \in View(c) : KeyOf(r) # <<TableOf(p), NewId(c, p)>>
    BY <2>6 DEF IdsIn, KeyOf
  <2> QED BY <1>1, <2>6, <2>7
<1>2. CASE ~OneWriter
  <2> DEFINE n == Cardinality(KnownIds(p))
             S == (1..(n + 1)) \ KnownIds(p)
  <2>1. KnownIds(p) = IdsIn(Known, p) \cup GoneIds
    BY DEF KnownIds, Known, GoneIds
  <2>2. KnownIds(p) \in SUBSET Nat /\ IsFiniteSet(KnownIds(p))
    <3>1. IdsIn(Known, p) \in SUBSET Nat /\ IsFiniteSet(IdsIn(Known, p))
      BY KnownFinite, IdsInFinite
    <3>2. IsFiniteSet(IdsIn(Known, p) \cup GoneIds)
      BY <3>1, KnownFinite, FS_Union
    <3> QED BY <2>1, <3>1, <3>2, KnownFinite
  <2>3. n \in Nat
    BY <2>2, FS_CardinalityType
  <2>4. S # {}
    <3> SUFFICES ASSUME 1..(n + 1) \in SUBSET KnownIds(p) PROVE FALSE
      OBVIOUS
    <3> HIDE DEF n
    <3>1. Cardinality(1..(n + 1)) = n + 1
      BY <2>3, FS_Interval
    <3>2. Cardinality(1..(n + 1)) <= n
      BY <2>2, FS_Subset DEF n
    <3> QED BY <2>3, <3>1, <3>2
  <2>5. S \in SUBSET Nat
    BY <2>3
  <2>6. NewId(c, p) = Min(S)
    BY <1>2 DEF NewId
  <2>7. NewId(c, p) \in Nat /\ NewId(c, p) \notin KnownIds(p)
    BY <2>4, <2>5, <2>6, MinExists
  <2>8. /\ NewId(c, p) \notin GoneIds
        /\ \A r \in Known : KeyOf(r) # <<TableOf(p), NewId(c, p)>>
    BY <2>1, <2>7 DEF IdsIn, KeyOf
  <2>9. /\ AllRows \subseteq Known
        /\ \A d \in Call : record[d] # None => record[d] \in Known
    BY DEF AllRows, Known
  <2>10. \A d \in Call : <<TableOf(p), NewId(c, p)>> \notin gone[d]
    <3> SUFFICES ASSUME NEW d \in Call, <<TableOf(p), NewId(c, p)>> \in gone[d]
                 PROVE  FALSE
      OBVIOUS
    <3>1. <<TableOf(p), NewId(c, p)>>[2] \in GoneIds
      BY DEF GoneIds
    <3> QED BY <2>8, <3>1
  <2> QED BY <1>2, <2>7, <2>8, <2>9, <2>10
<1> QED BY <1>1, <1>2


-----------------------------------------------------------------------------
(* What the steps have in common.                                          *)
Where == {"idle", "manage", "query", "write", "list", "default", "commit"}

Typed ==
  /\ backend \in Backend
  /\ rows \in SUBSET Row
  /\ pc \in [Call -> Where]
  /\ req \in [Call -> Request \cup {None}]
  /\ record \in [Call -> Row \cup {None}]
  /\ new \in [Call -> SUBSET Row]
  /\ gone \in [Call -> SUBSET Key]

DataOf(c) ==
  /\ pc[c] = "idle" <=> req[c] = None
  /\ pc[c] \in {"list", "default"} => req[c].perm \in default_enable
  /\ new[c] # {} \/ gone[c] # {} => Writing(c)

LEMMA TypeParts == TypeOK <=> Typed /\ \A c \in Call : DataOf(c)
  BY DEF TypeOK, Typed, DataOf, Where

(* A step of c leaves the other calls alone.                               *)
Others(c) ==
  \A d \in Call \ {c} : /\ pc'[d] = pc[d] /\ req'[d] = req[d]
                        /\ record'[d] = record[d]
                        /\ new'[d] = new[d] /\ gone'[d] = gone[d]

LEMMA GotoFacts ==
  ASSUME Typed, NEW c \in Call, NEW to \in Where, Goto(c, to)
  PROVE  /\ pc' \in [Call -> Where] /\ pc'[c] = to
         /\ \A d \in Call \ {c} : pc'[d] = pc[d]
         /\ req' = req /\ record' = record
  BY DEF Typed, Goto

LEMMA FinishFacts ==
  ASSUME Typed, NEW c \in Call, Finish(c), backend' = backend, rows' \in SUBSET Row
  PROVE  /\ Typed' /\ Others(c) /\ CallOf(c)' /\ DataOf(c)'
         /\ pc'[c] = "idle" /\ record'[c] = None
         /\ new'[c] = {} /\ gone'[c] = {}
<1>1. /\ pc'[c] = "idle" /\ req'[c] = None /\ record'[c] = None
      /\ new'[c] = {} /\ gone'[c] = {}
  BY DEF Typed, Finish
<1>2. Others(c)
  BY DEF Typed, Finish, Others
<1>3. Typed'
  BY DEF Typed, Finish, Where
<1>4. DataOf(c)'
  BY <1>1 DEF DataOf, Writing
<1>5. IsFiniteSet({})
  BY FS_EmptySet
<1>6. CallOf(c)'
  BY <1>1, <1>5 DEF CallOf
<1> QED BY <1>1, <1>2, <1>3, <1>4, <1>6

LEMMA CallFrame ==
  ASSUME NEW d \in Call, CallOf(d), DataOf(d),
         pc'[d] = pc[d], req'[d] = req[d], record'[d] = record[d],
         new'[d] = new[d], gone'[d] = gone[d]
  PROVE  CallOf(d)' /\ DataOf(d)'
  BY DEF CallOf, DataOf, Writing, Editing

LEMMA EditFrame ==
  ASSUME NEW d \in Call, EditOf(d), rows' = rows,
         pc'[d] = pc[d], req'[d] = req[d], record'[d] = record[d],
         new'[d] = new[d], gone'[d] = gone[d]
  PROVE  EditOf(d)'
<1>1. View(d)' = View(d)
  BY DEF View
<1> QED BY <1>1 DEF EditOf, Editing

(* The typing part of the invariant after a step of c.                     *)
LEMMA TypeStep ==
  ASSUME TypeInv, NEW c \in Call, Others(c), Typed', DataOf(c)', CallOf(c)',
         IsFiniteSet(rows')
  PROVE  TypeInv'
<1>1. \A d \in Call : CallOf(d)' /\ DataOf(d)'
  BY CallFrame, TypeParts DEF TypeInv, Others
<1>2. TypeOK'
  BY <1>1 DEF TypeOK, Typed, DataOf, Where
<1> QED BY <1>1, <1>2 DEF TypeInv

(* A key that no row has and no call knows.                                *)
Unknown(k) ==
  /\ \A r \in AllRows : KeyOf(r) # k
  /\ \A d \in Call : /\ record[d] # None => KeyOf(record[d]) # k
                     /\ k \notin gone[d]

(* A step of c that inserts nothing, or one row with an unknown key.       *)
AtMostOneNew ==
  \/ AllRows' \subseteq AllRows
  \/ \E n \in Row : AllRows' \subseteq AllRows \cup {n} /\ Unknown(KeyOf(n))

LEMMA KnownStep ==
  ASSUME KnownInv, ~OneWriter, NEW c \in Call, Others(c), AtMostOneNew, KnownOf(c)'
  PROVE  KeysDiffer(AllRows') /\ \A d \in Call : KnownOf(d)'
<1>1. KeysDiffer(AllRows) /\ \A d \in Call : KnownOf(d)
  BY DEF KnownInv
<1>2. CASE AllRows' \subseteq AllRows
  <2>1. KeysDiffer(AllRows')
    BY <1>1, <1>2 DEF KeysDiffer
  <2>2. \A d \in Call \ {c} : KnownOf(d)'
    BY <1>1, <1>2 DEF KnownOf, Others
  <2> QED BY <2>1, <2>2
<1>3. CASE \E n \in Row : AllRows' \subseteq AllRows \cup {n} /\ Unknown(KeyOf(n))
  <2>1. PICK n \in Row : AllRows' \subseteq AllRows \cup {n} /\ Unknown(KeyOf(n))
    BY <1>3
  <2>2. KeysDiffer(AllRows')
    BY <1>1, <2>1 DEF KeysDiffer, Unknown
  <2>3. ASSUME NEW d \in Call \ {c} PROVE KnownOf(d)'
    <3>1. KnownOf(d) /\ record'[d] = record[d] /\ gone'[d] = gone[d]
          /\ pc'[d] = pc[d] /\ req'[d] = req[d]
      BY <1>1 DEF Others
    <3>2. record[d] # None => KeyOf(record[d]) # KeyOf(n)
      BY <2>1 DEF Unknown
    <3>3. KeyOf(n) \notin gone[d]
      BY <2>1 DEF Unknown
    <3> QED BY <2>1, <3>1, <3>2, <3>3 DEF KnownOf
  <2> QED BY <2>2, <2>3
<1> QED BY <1>2, <1>3 DEF AtMostOneNew

(* A step of c that commits nothing.                                       *)
LEMMA SameRows ==
  ASSUME Inv, NEW c \in Call, Others(c), Typed', DataOf(c)', CallOf(c)',
         backend' = backend, rows' = rows,
         OneWriter => /\ EditOf(c)'
                      /\ Writing(c)' => \/ Writing(c)
                                        \/ \A d \in Call \ {c} : ~Writing(d),
         ~OneWriter => AtMostOneNew /\ KnownOf(c)'
  PROVE  Inv'
<1>1. TypeInv'
  BY TypeStep DEF Inv, TypeInv
<1>2. KeysDiffer(rows')
  BY DEF Inv
<1>3. OneWriter' = OneWriter
  BY DEF OneWriter
<1>4. ASSUME OneWriter
      PROVE  /\ \A d, e \in Call : Writing(d)' /\ Writing(e)' => d = e
             /\ \A p \in Perm : Kept(rows', p)
             /\ \A d \in Call : EditOf(d)'
  <2>1. /\ \A d, e \in Call : Writing(d) /\ Writing(e) => d = e
        /\ \A p \in Perm : Kept(rows, p)
        /\ \A d \in Call : EditOf(d)
    BY <1>4 DEF Inv, WriterInv
  <2>2. \A d \in Call \ {c} : EditOf(d)'
    BY <2>1, EditFrame DEF Others
  <2>3. \A d \in Call \ {c} : Writing(d)' = Writing(d)
    BY DEF Others, Writing
  <2>4. \A d, e \in Call : Writing(d)' /\ Writing(e)' => d = e
    BY <1>4, <2>1, <2>3
  <2> QED BY <1>4, <2>1, <2>2, <2>4
<1>5. WriterInv'
  BY <1>3, <1>4 DEF WriterInv
<1>6. KnownInv'
  BY <1>3, KnownStep DEF KnownInv, Inv
<1> QED BY <1>1, <1>2, <1>5, <1>6 DEF Inv

-----------------------------------------------------------------------------
(* The steps that write nothing.                                           *)

(* A call that ends without a commit.                                      *)
LEMMA FinishStep ==
  ASSUME Inv, NEW c \in Call, Finish(c), backend' = backend, rows' = rows
  PROVE  Inv'
<1>1. Typed
  BY TypeParts DEF Inv, TypeInv
<1>2. /\ Typed' /\ Others(c) /\ CallOf(c)' /\ DataOf(c)'
      /\ pc'[c] = "idle" /\ record'[c] = None
      /\ new'[c] = {} /\ gone'[c] = {}
  BY <1>1, FinishFacts DEF Typed
<1>3. EditOf(c)' /\ ~Writing(c)'
  BY <1>2 DEF EditOf, Writing, Editing
<1>4. KnownOf(c)'
  BY <1>2 DEF KnownOf
<1>5. AllRows' \subseteq AllRows
  BY <1>2 DEF AllRows, Others
<1> QED BY <1>2, <1>3, <1>4, <1>5, SameRows DEF AtMostOneNew

LEMMA ReceiveStep ==
  ASSUME Inv, NEW c \in Call, Receive(c)
  PROVE  Inv'
<1>1. Typed /\ DataOf(c) /\ CallOf(c)
  BY TypeParts DEF Inv, TypeInv
<1>2. PICK r \in Request : req' = [req EXCEPT ![c] = r]
  BY DEF Receive
<1>3. /\ pc[c] = "idle" /\ pc'[c] = "manage" /\ req'[c] = r
      /\ record' = record /\ new' = new /\ gone' = gone
      /\ backend' = backend /\ rows' = rows
  BY <1>1, <1>2 DEF Receive, Typed
<1>4. Typed' /\ Others(c)
  BY <1>1, <1>2, <1>3 DEF Receive, Typed, Others, Where
<1>5. new[c] = {} /\ gone[c] = {}
  BY <1>1, <1>3 DEF DataOf, Writing
<1>6. DataOf(c)'
  BY <1>3, <1>5, NoneAssumption DEF DataOf, Writing
<1>7. CallOf(c)'
  BY <1>1, <1>3 DEF CallOf, Editing
<1>8. EditOf(c)' /\ ~Writing(c)'
  BY <1>3 DEF EditOf, Writing, Editing
<1>9. AllRows' = AllRows
  BY <1>3 DEF AllRows
<1>10. ~OneWriter => KnownOf(c)'
  BY <1>3, <1>5, <1>9 DEF KnownOf, Inv, KnownInv
<1> QED BY <1>3, <1>4, <1>6, <1>7, <1>8, <1>9, <1>10, SameRows DEF AtMostOneNew

LEMMA RequireManagerStep ==
  ASSUME Inv, NEW c \in Call, RequireManager(c)
  PROVE  Inv'
<1>1. Typed /\ DataOf(c) /\ CallOf(c)
  BY TypeParts DEF Inv, TypeInv
<1>2. CASE Finish(c)
  BY <1>2, FinishStep DEF RequireManager
<1>3. CASE Goto(c, "query") /\ UNCHANGED <<new, gone>>
  <2>1. /\ pc' \in [Call -> Where] /\ pc'[c] = "query"
        /\ \A d \in Call \ {c} : pc'[d] = pc[d]
        /\ req' = req /\ record' = record
    BY <1>1, <1>3, GotoFacts DEF Where
  <2>2. pc[c] = "manage" /\ new' = new /\ gone' = gone /\ backend' = backend /\ rows' = rows
    BY <1>3 DEF RequireManager
  <2>3. Typed' /\ Others(c)
    BY <1>1, <2>1, <2>2 DEF Typed, Others
  <2>4. DataOf(c)'
    BY <1>1, <2>1, <2>2 DEF DataOf, Writing
  <2>5. CallOf(c)'
    BY <1>1, <2>1, <2>2 DEF CallOf, Editing
  <2>6. EditOf(c)' /\ ~Writing(c)'
    BY <2>1 DEF EditOf, Writing, Editing
  <2>7. AllRows' = AllRows
    BY <2>2 DEF AllRows
  <2>8. ~OneWriter => KnownOf(c)'
    BY <2>1, <2>2, <2>7 DEF KnownOf, Inv, KnownInv
  <2> QED BY <2>2, <2>3, <2>4, <2>5, <2>6, <2>7, <2>8, SameRows DEF AtMostOneNew
<1> QED BY <1>2, <1>3 DEF RequireManager

LEMMA GetPermRecordStep ==
  ASSUME Inv, NEW c \in Call, GetPermRecord(c)
  PROVE  Inv'
<1> DEFINE found == RowsFor(rows, req[c].perm, req[c].who)
<1>1. Typed /\ DataOf(c) /\ CallOf(c)
  BY TypeParts DEF Inv, TypeInv
<1>2. CASE Finish(c)
  BY <1>2, FinishStep DEF GetPermRecord
<1>3. pc[c] = "query" /\ backend' = backend /\ rows' = rows
  BY DEF GetPermRecord
<1>4. req[c] \in Request /\ new[c] = {} /\ gone[c] = {}
  BY <1>1, <1>3 DEF DataOf, Typed, Writing
<1>5. CASE req[c].op = "add" /\ Goto(c, "write") /\ UNCHANGED <<new, gone>>
  <2>1. /\ pc' \in [Call -> Where] /\ pc'[c] = "write"
        /\ \A d \in Call \ {c} : pc'[d] = pc[d]
        /\ req' = req /\ record' = record
    BY <1>1, <1>5, GotoFacts DEF Where
  <2>2. new' = new /\ gone' = gone
    BY <1>5
  <2>3. Typed' /\ Others(c)
    BY <1>1, <1>3, <2>1, <2>2 DEF Typed, Others
  <2>4. DataOf(c)'
    BY <1>1, <1>3, <2>1, <2>2 DEF DataOf, Writing
  <2>5. CallOf(c)'
    BY <1>1, <1>3, <1>5, <2>1, <2>2 DEF CallOf, Editing
  <2>6. EditOf(c)' /\ ~Writing(c)'
    BY <2>1 DEF EditOf, Writing, Editing
  <2>7. AllRows' = AllRows
    BY <1>3, <2>2 DEF AllRows
  <2>8. ~OneWriter => KnownOf(c)'
    BY <1>3, <2>1, <2>2, <2>7 DEF KnownOf, Inv, KnownInv
  <2> QED BY <1>3, <2>3, <2>4, <2>5, <2>6, <2>7, <2>8, SameRows DEF AtMostOneNew
<1>6. CASE /\ req[c].op = "remove"
           /\ pc' = [pc EXCEPT ![c] = "write"]
           /\ \E r \in found : record' = [record EXCEPT ![c] = r]
           /\ UNCHANGED <<req, new, gone>>
  <2>1. PICK r \in found : record' = [record EXCEPT ![c] = r]
    BY <1>6
  <2>2. r \in rows /\ r \in Row /\ r # None /\ r.perm = req[c].perm /\ r.who = req[c].who
    BY <1>1, <2>1, NoneAssumption DEF RowsFor, Typed
  <2>3. /\ pc'[c] = "write" /\ record'[c] = r
        /\ req' = req /\ new' = new /\ gone' = gone
    BY <1>1, <1>6, <2>1 DEF Typed
  <2>4. Typed' /\ Others(c)
    BY <1>1, <1>3, <1>6, <2>1, <2>2 DEF Typed, Others, Where
  <2>5. DataOf(c)'
    BY <1>1, <1>3, <2>3 DEF DataOf, Writing
  <2>6. CallOf(c)'
    BY <1>1, <1>6, <2>2, <2>3 DEF CallOf, Editing
  <2>7. EditOf(c)' /\ ~Writing(c)'
    BY <2>3 DEF EditOf, Writing, Editing
  <2>8. AllRows' = AllRows
    BY <1>3, <2>3 DEF AllRows
  <2>9. ~OneWriter => KnownOf(c)'
    <3> SUFFICES ASSUME ~OneWriter PROVE KnownOf(c)'
      OBVIOUS
    <3>1. KeysDiffer(AllRows) /\ r \in AllRows
      BY <2>2 DEF Inv, KnownInv, AllRows
    <3>2. \A s \in AllRows : KeyOf(s) = KeyOf(r) => s = r
      BY <3>1 DEF KeysDiffer
    <3>3. \A k \in gone[c] : FALSE
      BY <1>4
    <3> QED BY <2>3, <2>8, <3>2, <3>3 DEF KnownOf
  <2> QED BY <1>3, <2>4, <2>5, <2>6, <2>7, <2>8, <2>9, SameRows DEF AtMostOneNew
<1> QED BY <1>2, <1>5, <1>6 DEF GetPermRecord

-----------------------------------------------------------------------------
(* The steps that write.                                                   *)

(* The rows that a permission has among some of the rows, and a few more.  *)
LEMMA KeptSubset ==
  ASSUME NEW R, NEW S, NEW p, Kept(R, p),
         RowsFor(S, p, Star) \subseteq R, Grants(S, p) \subseteq R
  PROVE  Kept(S, p)
  BY DEF Kept, RowsFor, Grants

(* A call whose row is new to the database begins to write.                *)
LEMMA InsertRecordStep ==
  ASSUME Inv, NEW c \in Call, InsertRecord(c)
  PROVE  Inv'
<1> DEFINE p == req[c].perm
           n == [id |-> NewId(c, p), perm |-> p, who |-> req[c].who]
           to == AfterWrite(c)
<1>1. Typed /\ DataOf(c) /\ CallOf(c) /\ TypeInv
  BY TypeParts DEF Inv, TypeInv
<1>2. /\ pc[c] = "write" /\ req[c].op = "add" /\ MayWrite(c, {})
      /\ new' = [new EXCEPT ![c] = {n}] /\ Goto(c, to)
      /\ backend' = backend /\ rows' = rows /\ gone' = gone
  BY DEF InsertRecord
<1>3. req[c] \in Request /\ new[c] = {} /\ gone[c] = {}
  BY <1>1, <1>2 DEF DataOf, Typed, Writing
<1>4. p \in Perm /\ req[c].who \in Name /\ req[c].who # Star
  BY <1>3, PermissionsAssumption DEF Request, Name
<1>5. /\ NewId(c, p) \in Nat
      /\ OneWriter => \A r \in View(c) : KeyOf(r) # <<TableOf(p), NewId(c, p)>>
      /\ ~OneWriter => Unknown(<<TableOf(p), NewId(c, p)>>)
  BY <1>1, <1>4, FreshKey DEF Unknown
<1>6. n \in Row /\ KeyOf(n) = <<TableOf(p), NewId(c, p)>> /\ n.perm = p /\ n.who = req[c].who
  BY <1>4, <1>5 DEF Row, KeyOf
<1> HIDE DEF n
<1>7. /\ to \in {"list", "commit"} /\ to \in Where
      /\ to = "list" <=> p \in default_enable
  BY DEF AfterWrite, Where
<1> HIDE DEF to
<1>8. /\ pc' \in [Call -> Where] /\ pc'[c] = to
      /\ \A d \in Call \ {c} : pc'[d] = pc[d]
      /\ req' = req /\ record' = record
  BY <1>1, <1>2, <1>7, GotoFacts
<1>9. new'[c] = {n} /\ \A d \in Call \ {c} : new'[d] = new[d]
  BY <1>1, <1>2 DEF Typed
<1>10. Typed' /\ Others(c)
  BY <1>1, <1>2, <1>6, <1>8, <1>9 DEF Typed, Others
<1>11. DataOf(c)'
  BY <1>1, <1>2, <1>7, <1>8, <1>9 DEF DataOf, Writing
<1>12. CallOf(c)'
  <2>1. IsFiniteSet({n}) /\ IsFiniteSet(gone'[c])
    BY <1>1, <1>2, FS_Singleton DEF CallOf
  <2>2. gone'[c] = {}
    BY <1>2, <1>3
  <2> QED BY <1>1, <1>2, <1>6, <1>8, <1>9, <2>1, <2>2 DEF CallOf
<1>13. ASSUME OneWriter
       PROVE  EditOf(c)' /\ \A d \in Call \ {c} : ~Writing(d)
  <2>1. \A d \in Call \ {c} : ~Writing(d)
    BY <1>2, <1>13 DEF MayWrite
  <2>2. View(c) = rows /\ View(c)' = rows \cup {n}
    BY <1>2, <1>3, <1>9 DEF View
  <2>3. \A r \in rows : KeyOf(r) # KeyOf(n)
    BY <1>5, <1>6, <1>13, <2>2
  <2>4. KeysDiffer(View(c)')
    BY <2>2, <2>3 DEF KeysDiffer, Inv
  <2>5. \A q \in Perm : Kept(rows, q)
    BY <1>13 DEF Inv, WriterInv
  <2>6. CASE to = "list"
    BY <1>2, <1>8, <1>9, <2>1, <2>3, <2>4, <2>6 DEF EditOf, Editing
  <2>7. CASE to = "commit"
    <3>1. p \notin default_enable
      BY <1>7, <2>7
    <3>2. ASSUME NEW q \in Perm PROVE Kept(View(c)', q)
      <4>1. RowsFor(rows \cup {n}, q, Star) = RowsFor(rows, q, Star)
        BY <1>4, <1>6 DEF RowsFor
      <4>2. q # p => Grants(rows \cup {n}, q) = Grants(rows, q)
        BY <1>6 DEF Grants
      <4> QED BY <2>2, <2>5, <3>1, <4>1, <4>2 DEF Kept
    <3>3. Exact(View(c)', p)
      BY <1>4, <3>1, <3>2 DEF Exact
    <3>4. req'[c].perm = p
      BY <1>8
    <3> HIDE DEF p
    <3> QED BY <1>8, <2>1, <2>4, <2>7, <3>2, <3>3, <3>4 DEF EditOf
  <2> QED BY <1>7, <2>1, <2>6, <2>7
<1>14. ASSUME ~OneWriter
       PROVE  AtMostOneNew /\ KnownOf(c)'
  <2>1. AllRows' \subseteq AllRows \cup {n}
    BY <1>2, <1>8, <1>9 DEF AllRows
  <2>2. Unknown(KeyOf(n))
    BY <1>5, <1>6, <1>14
  <2>3. KnownOf(c)
    BY <1>14 DEF Inv, KnownInv
  <2>4. KnownOf(c)'
    <3>1. record[c] # None => KeyOf(record[c]) # KeyOf(n)
      BY <2>2 DEF Unknown
    <3>2. \A k \in gone'[c] : FALSE
      BY <1>2, <1>3
    <3> QED BY <1>8, <2>1, <2>3, <3>1, <3>2 DEF KnownOf
  <2> QED BY <1>6, <2>1, <2>2, <2>4 DEF AtMostOneNew
<1> QED BY <1>2, <1>10, <1>11, <1>12, <1>13, <1>14, SameRows

LEMMA DeleteRecordStep ==
  ASSUME Inv, NEW c \in Call, DeleteRecord(c)
  PROVE  Inv'
<1> DEFINE p == req[c].perm
           k == KeyOf(record[c])
           to == AfterWrite(c)
<1>1. Typed /\ DataOf(c) /\ CallOf(c) /\ TypeInv
  BY TypeParts DEF Inv, TypeInv
<1>2. /\ pc[c] = "write" /\ req[c].op = "remove" /\ MayWrite(c, {k})
      /\ gone' = [gone EXCEPT ![c] = {k}] /\ Goto(c, to)
      /\ backend' = backend /\ rows' = rows /\ new' = new
  BY DEF DeleteRecord
<1>3. req[c] \in Request /\ new[c] = {} /\ gone[c] = {}
  BY <1>1, <1>2 DEF DataOf, Typed, Writing
<1>4. p \in Perm
  BY <1>3 DEF Request
<1>5. record[c] \in Row /\ record[c].perm = p /\ record[c].who = req[c].who /\ record[c] # None
  BY <1>1, <1>2 DEF CallOf, Typed
<1>6. k \in Key
  BY <1>5 DEF Row, KeyOf, Key, TableOf, Table
<1> HIDE DEF k
<1>7. /\ to \in {"list", "commit"} /\ to \in Where
      /\ to = "list" <=> p \in default_enable
  BY DEF AfterWrite, Where
<1> HIDE DEF to
<1>8. /\ pc' \in [Call -> Where] /\ pc'[c] = to
      /\ \A d \in Call \ {c} : pc'[d] = pc[d]
      /\ req' = req /\ record' = record
  BY <1>1, <1>2, <1>7, GotoFacts
<1>9. gone'[c] = {k} /\ \A d \in Call \ {c} : gone'[d] = gone[d]
  BY <1>1, <1>2 DEF Typed
<1>10. Typed' /\ Others(c)
  BY <1>1, <1>2, <1>6, <1>8, <1>9 DEF Typed, Others
<1>11. DataOf(c)'
  BY <1>1, <1>2, <1>7, <1>8, <1>9 DEF DataOf, Writing
<1>12. CallOf(c)'
  <2>1. IsFiniteSet({k}) /\ IsFiniteSet(new'[c])
    BY <1>1, <1>2, FS_Singleton DEF CallOf
  <2>2. new'[c] = {} /\ gone'[c] = {KeyOf(record'[c])}
    BY <1>2, <1>3, <1>8, <1>9 DEF k
  <2> QED BY <1>2, <1>5, <1>8, <1>9, <2>1, <2>2 DEF CallOf
<1>13. ASSUME OneWriter
       PROVE  EditOf(c)' /\ \A d \in Call \ {c} : ~Writing(d)
  <2>1. \A d \in Call \ {c} : ~Writing(d)
    BY <1>2, <1>13 DEF MayWrite
  <2>2. View(c)' \subseteq rows
    BY <1>2, <1>3 DEF View
  <2>3. KeysDiffer(View(c)')
    BY <2>2 DEF KeysDiffer, Inv
  <2>4. \A q \in Perm : Kept(View(c)', q)
    <3>1. \A q \in Perm : Kept(rows, q)
      BY <1>13 DEF Inv, WriterInv
    <3> QED BY <2>2, <3>1, KeptSubset DEF RowsFor, Grants
  <2>5. CASE to = "list"
    BY <1>2, <1>8, <2>1, <2>3, <2>5 DEF EditOf, Editing
  <2>6. CASE to = "commit"
    <3>1. p \notin default_enable
      BY <1>7, <2>6
    <3>2. Exact(View(c)', p)
      BY <1>4, <2>4, <3>1 DEF Exact
    <3>3. req'[c].perm = p
      BY <1>8
    <3> HIDE DEF p
    <3> QED BY <1>8, <2>1, <2>3, <2>4, <2>6, <3>2, <3>3 DEF EditOf
  <2> QED BY <1>7, <2>1, <2>5, <2>6
<1>14. ASSUME ~OneWriter
       PROVE  AtMostOneNew /\ KnownOf(c)'
  <2>1. AllRows' = AllRows
    BY <1>2 DEF AllRows
  <2>2. KnownOf(c)'
    BY <1>2, <1>8, <1>14, <2>1 DEF KnownOf, Inv, KnownInv
  <2> QED BY <2>1, <2>2 DEF AtMostOneNew
<1> QED BY <1>2, <1>10, <1>11, <1>12, <1>13, <1>14, SameRows

-----------------------------------------------------------------------------
(* SQLite: when the permission of the row just added was everybody's, the  *)
(* two counts say that it is the first grant.                              *)
LEMMA FirstGrantSeen ==
  ASSUME TypeInv, NEW c \in Call, \A p \in Perm : Kept(rows, p),
         pc[c] = "list", req[c].op = "add",
         NEW m \in rows, m.perm = req[c].perm, m.who = Star
  PROVE  FirstGrant(c)
<1> DEFINE p == req[c].perm
<1>1. Typed /\ DataOf(c) /\ CallOf(c)
  BY TypeParts DEF TypeInv
<1>2. req[c] \in Request
  BY <1>1 DEF DataOf, Typed
<1>3. p \in Perm /\ req[c].who \in Name /\ Star \notin Name
  BY <1>2, PermissionsAssumption DEF Request, Name
<1>4. PICK n \in new[c] : new[c] = {n} /\ n.perm = p /\ n.who = req[c].who
  BY <1>1 DEF CallOf, Editing
<1>5. View(c) = rows \cup {n}
  <2>1. gone[c] = {}
    BY <1>1 DEF CallOf
  <2> QED BY <1>4, <2>1 DEF View
<1>6. Kept(rows, p)
  BY <1>3
<1>7. {r \in rows : r.perm = p} = {m}
  <2>1. m \in RowsFor(rows, p, Star)
    BY DEF RowsFor
  <2>2. Grants(rows, p) = {}
    BY <1>6, <2>1 DEF Kept
  <2>3. \A r \in rows : r.perm = p => r \in RowsFor(rows, p, Star)
    BY <2>2 DEF Grants, RowsFor
  <2> QED BY <1>6, <2>1, <2>3 DEF Kept
<1>8. {r \in View(c) : r.perm = p} = {m, n}
  BY <1>4, <1>5, <1>7
<1>9. n # m
  BY <1>3, <1>4
<1>10. Star \notin Group
  BY PermissionsAssumption
<1>11. Cardinality({m}) = 1 /\ Cardinality({n}) = 1 /\ Cardinality({}) = 0
  BY FS_Singleton, FS_EmptySet
<1>12. CASE req[c].who \in Group
  <2>1. Users(View(c), p) = {m} /\ Groups(View(c), p) = {n}
    BY <1>4, <1>8, <1>10, <1>12 DEF Users, Groups
  <2> QED BY <1>11, <1>12, <2>1 DEF FirstGrant
<1>13. CASE req[c].who \notin Group
  <2>1. Users(View(c), p) = {m, n} /\ Groups(View(c), p) = {}
    BY <1>4, <1>8, <1>10, <1>13 DEF Users, Groups
  <2>2. Cardinality({m, n}) = 2
    <3>1. IsFiniteSet({m})
      BY FS_Singleton
    <3>2. Cardinality({m} \cup {n}) = Cardinality({m}) + 1
      BY <1>9, <3>1, FS_AddElement
    <3>3. {m} \cup {n} = {m, n}
      OBVIOUS
    <3> QED BY <1>11, <3>2, <3>3
  <2> QED BY <1>11, <1>13, <2>1, <2>2 DEF FirstGrant
<1> QED BY <1>12, <1>13

(* SQLite: after the row of a name has been added, other permissions are   *)
(* as they were.                                                           *)
LEMMA OtherPermissions ==
  ASSUME NEW R, NEW S, NEW n, NEW p, S \subseteq R \cup {n}, n.perm = p,
         NEW q \in Perm \ {p}, Kept(R, q)
  PROVE  Kept(S, q)
<1>1. RowsFor(S, q, Star) \subseteq R /\ Grants(S, q) \subseteq R
  BY DEF RowsFor, Grants
<1> QED BY <1>1, KeptSubset

LEMMA ListPermittedStep ==
  ASSUME Inv, NEW c \in Call, ListPermitted(c)
  PROVE  Inv'
<1> DEFINE p == req[c].perm
<1>1. Typed /\ DataOf(c) /\ CallOf(c) /\ TypeInv
  BY TypeParts DEF Inv, TypeInv
<1>2. PICK to \in {"default", "commit"} :
        /\ Goto(c, to)
        /\ to = "commit" => /\ req[c].op = "add" => ~FirstGrant(c)
                            /\ req[c].op = "remove" => RowsOf(View(c), p) # {}
        /\ to = "default" => /\ req[c].op = "remove" => RowsOf(View(c), p) = {}
  BY <1>1 DEF ListPermitted
<1>3. /\ pc[c] = "list" /\ backend' = backend /\ rows' = rows
      /\ new' = new /\ gone' = gone
  BY DEF ListPermitted
<1>4. req[c] \in Request /\ p \in default_enable
  BY <1>1, <1>3 DEF DataOf, Typed
<1>5. /\ p \in Perm /\ req[c].op \in {"add", "remove"}
      /\ req[c].who \in Name /\ Star \notin Name
  BY <1>4, PermissionsAssumption DEF Request, Name
<1>6. /\ pc' \in [Call -> Where] /\ pc'[c] = to
      /\ \A d \in Call \ {c} : pc'[d] = pc[d]
      /\ req' = req /\ record' = record
  BY <1>1, <1>2, GotoFacts DEF Where
<1>7. Typed' /\ Others(c)
  BY <1>1, <1>3, <1>6 DEF Typed, Others
<1>8. DataOf(c)'
  BY <1>1, <1>3, <1>4, <1>6 DEF DataOf, Writing
<1>9. CallOf(c)'
  BY <1>1, <1>3, <1>6 DEF CallOf, Editing
<1>10. Writing(c)
  BY <1>3 DEF Writing
<1>11. ASSUME OneWriter
       PROVE  EditOf(c)'
  <2>1. EditOf(c) /\ \A q \in Perm : Kept(rows, q)
    BY <1>11 DEF Inv, WriterInv
  <2>2. View(c)' = View(c)
    BY <1>3 DEF View
  <2>3. KeysDiffer(View(c))
    BY <1>3, <2>1 DEF EditOf, Editing
  <2>4. CASE to = "default"
    <3>1. req[c].op = "add" => \A n \in new[c] : \A r \in rows : KeyOf(r) # KeyOf(n)
      BY <1>3, <2>1 DEF EditOf
    <3>2. req[c].op = "remove" => RowsOf(View(c), p) = {}
      BY <1>2, <2>4
    <3> QED BY <1>3, <1>6, <2>2, <2>3, <2>4, <3>1, <3>2 DEF EditOf
  <2>5. CASE to = "commit" /\ req[c].op = "add"
    <3>1. PICK n \in new[c] : new[c] = {n} /\ n.perm = p /\ n.who = req[c].who
      BY <1>1, <1>3, <2>5 DEF CallOf, Editing
    <3>2. View(c) = rows \cup {n}
      <4>1. gone[c] = {}
        BY <1>1, <1>3, <2>5 DEF CallOf
      <4> QED BY <3>1, <4>1 DEF View
    <3>3. \A r \in rows : ~(r.perm = p /\ r.who = Star)
      BY <1>1, <1>2, <1>3, <2>1, <2>5, FirstGrantSeen
    <3>4. RowsFor(View(c), p, Star) = {}
      BY <1>5, <3>1, <3>2, <3>3 DEF RowsFor
    <3>5. Kept(View(c), p)
      BY <3>4 DEF Kept
    <3>6. \A q \in Perm : Kept(View(c), q)
      BY <2>1, <3>1, <3>2, <3>5, OtherPermissions
    <3>7. n \in Grants(View(c), p)
      BY <1>5, <3>1, <3>2 DEF Grants
    <3>8. Exact(View(c), p)
      BY <3>5, <3>7 DEF Exact
    <3> QED BY <1>6, <2>2, <2>3, <2>5, <3>6, <3>8 DEF EditOf
  <2>6. CASE to = "commit" /\ req[c].op = "remove"
    <3>1. View(c) \subseteq rows
      <4>1. new[c] = {}
        BY <1>1, <1>3, <2>6 DEF CallOf
      <4> QED BY <4>1 DEF View
    <3>2. \A q \in Perm : Kept(View(c), q)
      BY <2>1, <3>1, KeptSubset DEF RowsFor, Grants
    <3>3. Grants(View(c), p) = {} => RowsFor(View(c), p, Star) # {}
      BY <1>2, <2>6 DEF Grants, RowsFor, RowsOf
    <3>4. Exact(View(c), p)
      BY <1>5, <3>2, <3>3 DEF Exact
    <3> QED BY <1>6, <2>2, <2>3, <2>6, <3>2, <3>4 DEF EditOf
  <2> QED BY <1>2, <1>5, <2>4, <2>5, <2>6
<1>12. AllRows' = AllRows
  BY <1>3 DEF AllRows
<1>13. ~OneWriter => KnownOf(c)'
  BY <1>3, <1>6, <1>12 DEF KnownOf, Inv, KnownInv
<1> QED BY <1>3, <1>7, <1>8, <1>9, <1>10, <1>11, <1>12, <1>13, SameRows DEF AtMostOneNew

LEMMA SetDefaultStep ==
  ASSUME Inv, NEW c \in Call, SetDefault(c)
  PROVE  Inv'
<1> DEFINE p == req[c].perm
           markers == RowsFor(View(c), p, Star)
           n == Marker(p, NewId(c, p))
<1>1. Typed /\ DataOf(c) /\ CallOf(c) /\ TypeInv
  BY TypeParts DEF Inv, TypeInv
<1>2. pc[c] = "default" /\ backend' = backend /\ rows' = rows
  BY DEF SetDefault
<1>3. req[c] \in Request /\ p \in default_enable
  BY <1>1, <1>2 DEF DataOf, Typed
<1>4. /\ p \in Perm /\ req[c].op \in {"add", "remove"}
      /\ req[c].who \in Name /\ Star \notin Name
  BY <1>3, PermissionsAssumption DEF Request, Name
<1>5. Writing(c)
  BY <1>2 DEF Writing
<1>6. CASE Finish(c)
  BY <1>2, <1>6, FinishStep
<1>7. ASSUME OneWriter
      PROVE  EditOf(c) /\ KeysDiffer(View(c)) /\ \A q \in Perm : Kept(rows, q)
  BY <1>2, <1>7 DEF Inv, WriterInv, EditOf, Editing
<1>8. CASE /\ req[c].op = "add"
           /\ gone' = [gone EXCEPT ![c] = @ \cup {KeyOf(r) : r \in markers}]
           /\ Goto(c, "commit") /\ new' = new
  <2> DEFINE K == {KeyOf(r) : r \in markers}
  <2>1. /\ pc' \in [Call -> Where] /\ pc'[c] = "commit"
        /\ \A d \in Call \ {c} : pc'[d] = pc[d]
        /\ req' = req /\ record' = record
    BY <1>1, <1>8, GotoFacts DEF Where
  <2>2. gone[c] = {} /\ gone'[c] = K /\ \A d \in Call \ {c} : gone'[d] = gone[d]
    BY <1>1, <1>2, <1>8 DEF Typed, CallOf
  <2>3. View(c) \in SUBSET Row /\ IsFiniteSet(View(c))
    BY <1>1, ViewFinite
  <2>4. K \in SUBSET Key
    BY <2>3 DEF RowsFor, Row, KeyOf, Key, Table, TableOf
  <2>5. IsFiniteSet(K)
    <3> DEFINE fk == [r \in markers |-> KeyOf(r)]
    <3>1. IsFiniteSet(markers)
      BY <2>3, FS_Subset DEF RowsFor
    <3>2. fk \in Surjection(markers, K)
      BY DEF Surjection
    <3> QED BY <3>1, <3>2, FS_Surjection
  <2>6. Typed' /\ Others(c)
    <3>1. gone' \in [Call -> SUBSET Key]
      BY <1>1, <1>8, <2>2, <2>4 DEF Typed
    <3> QED BY <1>1, <1>2, <1>8, <2>1, <2>2, <3>1 DEF Typed, Others
  <2>7. PICK n0 \in new[c] : new[c] = {n0} /\ n0.perm = p /\ n0.who = req[c].who
    BY <1>1, <1>2, <1>8 DEF CallOf, Editing
  <2>8. DataOf(c)' /\ CallOf(c)'
    <3>1. DataOf(c)'
      BY <1>1, <1>2, <2>1 DEF DataOf, Writing
    <3>2. IsFiniteSet(new'[c]) /\ IsFiniteSet(gone'[c])
      BY <1>1, <1>8, <2>2, <2>5 DEF CallOf
    <3> HIDE DEF K
    <3>3. CallOf(c)'
      BY <1>8, <2>1, <2>2, <2>7, <3>2 DEF CallOf
    <3> QED BY <3>1, <3>3
  <2>9. ASSUME OneWriter
        PROVE  EditOf(c)'
    <3>1. View(c) = rows \cup {n0}
      BY <2>2, <2>7 DEF View
    <3>2. View(c)' \subseteq View(c) /\ n0 \in View(c)'
      BY <1>2, <1>8, <2>2, <2>7, <3>1 DEF View
    <3>3. KeysDiffer(View(c)')
      BY <1>7, <2>9, <3>2 DEF KeysDiffer
    <3>4. RowsFor(View(c)', p, Star) = {}
      <4> SUFFICES ASSUME NEW r \in View(c)', r.perm = p, r.who = Star PROVE FALSE
        BY DEF RowsFor
      <4>1. r \in markers
        BY <3>2 DEF RowsFor
      <4>2. r # n0
        BY <1>4, <2>7
      <4>3. r \in {x \in rows' : KeyOf(x) \notin gone'[c]}
        BY <1>8, <2>7, <4>2 DEF View
      <4> QED BY <2>2, <4>1, <4>3
    <3>5. Kept(View(c)', p)
      BY <3>4 DEF Kept
    <3>6. \A q \in Perm : Kept(View(c)', q)
      BY <1>7, <2>7, <2>9, <3>1, <3>2, <3>5, OtherPermissions
    <3>7. n0 \in Grants(View(c)', p)
      BY <1>4, <2>7, <3>2 DEF Grants
    <3>8. Exact(View(c)', p)
      BY <3>5, <3>7 DEF Exact
    <3>9. req'[c].perm = p
      BY <2>1
    <3> HIDE DEF p
    <3> QED BY <2>1, <3>3, <3>6, <3>8, <3>9 DEF EditOf
  <2>10. ASSUME ~OneWriter
         PROVE  AtMostOneNew /\ KnownOf(c)'
    <3>1. AllRows' = AllRows
      BY <1>2, <1>8 DEF AllRows
    <3>2. KnownOf(c) /\ KeysDiffer(AllRows)
      BY <2>10 DEF Inv, KnownInv
    <3>3. \A m \in markers : m \in AllRows /\ m.who = Star
      BY DEF RowsFor, View, AllRows
    <3>4. \A k \in K : \A r \in AllRows : KeyOf(r) = k => r.who = Star
      BY <3>2, <3>3 DEF KeysDiffer
    <3> HIDE DEF K
    <3>5. KnownOf(c)'
      BY <1>2, <2>1, <2>2, <3>1, <3>2, <3>4 DEF KnownOf
    <3> QED BY <3>1, <3>5 DEF AtMostOneNew
  <2> QED BY <1>2, <1>5, <2>6, <2>8, <2>9, <2>10, SameRows
<1>9. CASE /\ req[c].op = "remove"
           /\ new' = [new EXCEPT ![c] = IF markers = {} THEN @ \cup {n} ELSE @]
           /\ Goto(c, "commit") /\ gone' = gone
  <2>1. /\ pc' \in [Call -> Where] /\ pc'[c] = "commit"
        /\ \A d \in Call \ {c} : pc'[d] = pc[d]
        /\ req' = req /\ record' = record
    BY <1>1, <1>9, GotoFacts DEF Where
  <2>2. /\ new[c] = {} /\ new'[c] = IF markers = {} THEN {n} ELSE {}
        /\ \A d \in Call \ {c} : new'[d] = new[d]
    BY <1>1, <1>2, <1>9 DEF Typed, CallOf
  <2>3. /\ NewId(c, p) \in Nat
        /\ OneWriter => \A r \in View(c) : KeyOf(r) # <<TableOf(p), NewId(c, p)>>
        /\ ~OneWriter => Unknown(<<TableOf(p), NewId(c, p)>>)
    BY <1>1, <1>4, FreshKey DEF Unknown
  <2>4. n \in Row /\ KeyOf(n) = <<TableOf(p), NewId(c, p)>> /\ n.perm = p /\ n.who = Star
    BY <1>4, <2>3 DEF Row, KeyOf, Marker
  <2> HIDE DEF n
  <2>5. Typed' /\ Others(c)
    <3>1. new' \in [Call -> SUBSET Row]
      BY <1>1, <1>9, <2>2, <2>4 DEF Typed
    <3> QED BY <1>1, <1>2, <1>9, <2>1, <2>2, <3>1 DEF Typed, Others
  <2>6. DataOf(c)' /\ CallOf(c)'
    <3>1. DataOf(c)'
      BY <1>1, <1>2, <2>1 DEF DataOf, Writing
    <3>2. IsFiniteSet(new'[c]) /\ IsFiniteSet(gone'[c])
      <4>1. IsFiniteSet({n}) /\ IsFiniteSet({})
        BY FS_Singleton, FS_EmptySet
      <4>2. IsFiniteSet(new'[c])
        BY <2>2, <4>1
      <4>3. IsFiniteSet(gone'[c])
        BY <1>1, <1>9 DEF CallOf
      <4> QED BY <4>2, <4>3
    <3>3. /\ record[c] # None /\ record[c].perm = p /\ record[c].who = req[c].who
          /\ gone[c] = {KeyOf(record[c])}
      BY <1>1, <1>2, <1>9 DEF CallOf, Editing
    <3>4. CallOf(c)'
      BY <1>9, <2>1, <3>2, <3>3 DEF CallOf
    <3> QED BY <3>1, <3>4
  <2>7. ASSUME OneWriter
        PROVE  EditOf(c)'
    <3>1. RowsOf(View(c), p) = {}
      BY <1>2, <1>7, <1>9, <2>7 DEF EditOf
    <3>2. markers = {}
      BY <3>1 DEF RowsFor, RowsOf
    <3>3. View(c)' = View(c) \cup {n} /\ View(c) \subseteq rows
      BY <1>2, <1>9, <2>2, <3>2 DEF View
    <3>4. KeysDiffer(View(c)')
      BY <1>7, <2>3, <2>4, <2>7, <3>3 DEF KeysDiffer
    <3>5. \A r \in View(c)' : r.perm = p => r = n
      BY <3>1, <3>3 DEF RowsOf
    <3>6. RowsFor(View(c)', p, Star) = {n} /\ Grants(View(c)', p) = {}
      BY <2>4, <3>3, <3>5 DEF RowsFor, Grants
    <3>7. Kept(View(c)', p) /\ Exact(View(c)', p)
      BY <1>3, <3>6 DEF Kept, Exact
    <3>8. View(c)' \subseteq rows \cup {n}
      BY <3>3
    <3>9. \A q \in Perm : Kept(View(c)', q)
      BY <1>7, <2>4, <2>7, <3>7, <3>8, OtherPermissions
    <3>10. req'[c].perm = p
      BY <2>1
    <3> HIDE DEF p
    <3> QED BY <2>1, <3>4, <3>7, <3>9, <3>10 DEF EditOf
  <2>8. ASSUME ~OneWriter
        PROVE  AtMostOneNew /\ KnownOf(c)'
    <3>1. AllRows' \subseteq AllRows \cup {n}
      BY <1>2, <2>1, <2>2 DEF AllRows
    <3>2. Unknown(KeyOf(n))
      BY <2>3, <2>4, <2>8
    <3>3. KnownOf(c)
      BY <2>8 DEF Inv, KnownInv
    <3>4. record[c] # None => KeyOf(record[c]) # KeyOf(n)
      BY <3>2 DEF Unknown
    <3>5. KnownOf(c)'
      BY <1>9, <2>1, <3>1, <3>3, <3>4 DEF KnownOf
    <3> QED BY <2>4, <3>1, <3>2, <3>5 DEF AtMostOneNew
  <2> QED BY <1>2, <1>5, <2>5, <2>6, <2>7, <2>8, SameRows
<1> QED BY <1>6, <1>8, <1>9 DEF SetDefault

-----------------------------------------------------------------------------
(* The steps that commit, and the restart.                                 *)
LEMMA CommitStep ==
  ASSUME Inv, NEW c \in Call, Commit(c)
  PROVE  Inv'
<1>1. Typed /\ DataOf(c) /\ CallOf(c) /\ TypeInv
  BY TypeParts DEF Inv, TypeInv
<1>2. pc[c] = "commit" /\ rows' = View(c) /\ Finish(c) /\ backend' = backend
  BY DEF Commit
<1>3. rows' \in SUBSET Row /\ IsFiniteSet(rows')
  BY <1>1, <1>2, ViewFinite
<1>4. /\ Typed' /\ Others(c) /\ CallOf(c)' /\ DataOf(c)'
      /\ pc'[c] = "idle" /\ record'[c] = None
      /\ new'[c] = {} /\ gone'[c] = {}
  BY <1>1, <1>2, <1>3, FinishFacts
<1>5. TypeInv'
  BY <1>1, <1>3, <1>4, TypeStep
<1>6. OneWriter' = OneWriter
  BY <1>2 DEF OneWriter
<1>7. rows' \subseteq AllRows /\ AllRows' \subseteq AllRows
  <2>1. rows' \subseteq AllRows
    BY <1>2 DEF View, AllRows
  <2> QED BY <1>4, <2>1 DEF AllRows, Others
<1>8. ASSUME OneWriter
      PROVE  KeysDiffer(rows') /\ WriterInv'
  <2>1. /\ KeysDiffer(View(c)) /\ \A p \in Perm : Kept(View(c), p)
        /\ \A d, e \in Call : Writing(d) /\ Writing(e) => d = e
    BY <1>2, <1>8 DEF Inv, WriterInv, EditOf, Editing
  <2>2. \A d \in Call : ~Writing(d)'
    BY <1>2, <1>4, <2>1 DEF Others, Writing
  <2>3. \A d \in Call : EditOf(d)'
    BY <2>2 DEF EditOf, Writing, Editing
  <2>4. \A p \in Perm : Kept(rows', p)
    BY <1>2, <2>1
  <2> QED BY <1>2, <2>1, <2>2, <2>3, <2>4 DEF WriterInv
<1>9. ASSUME ~OneWriter
      PROVE  KeysDiffer(rows') /\ KnownInv'
  <2>1. KnownInv /\ AtMostOneNew
    BY <1>7 DEF Inv, AtMostOneNew
  <2>2. KnownOf(c)'
    BY <1>4 DEF KnownOf
  <2>3. KeysDiffer(AllRows') /\ \A d \in Call : KnownOf(d)'
    BY <1>4, <1>9, <2>1, <2>2, KnownStep
  <2>4. KeysDiffer(rows')
    BY <1>7, <1>9, <2>1 DEF KnownInv, KeysDiffer
  <2> QED BY <2>3, <2>4 DEF KnownInv
<1>10. KeysDiffer(rows') /\ WriterInv' /\ KnownInv'
  BY <1>6, <1>8, <1>9 DEF WriterInv, KnownInv
<1> QED BY <1>5, <1>10 DEF Inv

(* No call goes on: what the invariant says of calls is nothing.           *)
LEMMA NoCalls ==
  ASSUME Typed', IsFiniteSet(rows'), KeysDiffer(rows'),
         OneWriter' => \A p \in Perm : Kept(rows', p),
         \A c \in Call : /\ pc'[c] = "idle" /\ req'[c] = None /\ record'[c] = None
                         /\ new'[c] = {} /\ gone'[c] = {}
  PROVE  Inv'
<1>1. \A c \in Call : DataOf(c)' /\ ~Writing(c)'
  BY DEF DataOf, Writing
<1>2. \A c \in Call : CallOf(c)'
  BY FS_EmptySet DEF CallOf
<1>3. \A c \in Call : EditOf(c)'
  BY DEF EditOf, Editing
<1>4. \A c \in Call : KnownOf(c)'
  BY DEF KnownOf
<1>5. AllRows' = rows'
  BY DEF AllRows
<1>6. TypeInv'
  BY <1>1, <1>2 DEF TypeInv, TypeOK, Typed, DataOf, Where
<1>7. WriterInv'
  BY <1>1, <1>3 DEF WriterInv
<1>8. KnownInv'
  BY <1>4, <1>5 DEF KnownInv
<1> QED BY <1>6, <1>7, <1>8 DEF Inv

LEMMA RestartStep ==
  ASSUME Inv, Restart
  PROVE  Inv'
<1> DEFINE I == IdsIn(rows, "PRODUCT_ACCESS")
           last == Max({0} \cup I)
           IdOf(p) == last + (IF p = "PRODUCT_STORE" THEN 1 ELSE 2)
           old == {r \in rows : r.who # Star \/ r.perm \in default_enable}
           added == {Marker(p, IdOf(p)) : p \in Lacking}
<1>1. Typed /\ IsFiniteSet(rows) /\ KeysDiffer(rows)
  BY TypeParts DEF Inv, TypeInv
<1>2. /\ pc' = [c \in Call |-> "idle"] /\ req' = [c \in Call |-> None]
      /\ record' = [c \in Call |-> None]
      /\ new' = [c \in Call |-> {}] /\ gone' = [c \in Call |-> {}]
      /\ rows' = old \cup added /\ backend' = backend
  BY DEF Restart
<1>3. last \in Nat /\ \A i \in I : last >= i
  <2>1. I \in SUBSET Nat /\ IsFiniteSet(I)
    BY <1>1, IdsInFinite DEF Typed
  <2> HIDE DEF I
  <2>2. IsFiniteSet({0} \cup I)
    BY <2>1, FS_Singleton, FS_Union
  <2>3. {0} \cup I \in SUBSET Nat /\ {0} \cup I # {}
    BY <2>1
  <2>4. last \in {0} \cup I /\ \A y \in {0} \cup I : last >= y
    BY <2>2, <2>3, MaxExists
  <2> QED BY <2>3, <2>4
<1> HIDE DEF last
<1>4. \A p \in Lacking : /\ p \in {"PRODUCT_STORE", "PRODUCT_ACCESS"}
                         /\ IdOf(p) \in Nat /\ p \in Perm
                         /\ TableOf(p) = "permissions_product"
  BY <1>3 DEF Lacking, default_enable, Perm, TableOf
<1>5. \A r \in rows : TableOf(r.perm) = "permissions_product" => r.id <= last
  <2> SUFFICES ASSUME NEW r \in rows, TableOf(r.perm) = "permissions_product"
               PROVE  r.id <= last
    OBVIOUS
  <2>1. r.id \in I
    BY DEF IdsIn, TableOf
  <2>2. r.id \in Nat
    BY <1>1 DEF Typed, Row
  <2> HIDE DEF I
  <2> QED BY <1>3, <2>1, <2>2
<1>6. rows' \in SUBSET Row
  <2>1. added \in SUBSET Row
    BY <1>4 DEF Row, Marker
  <2> QED BY <1>1, <1>2, <2>1 DEF Typed
<1>7. IsFiniteSet(rows')
  <2> DEFINE m1 == Marker("PRODUCT_STORE", last + 1)
             m2 == Marker("PRODUCT_ACCESS", last + 2)
  <2>1. IsFiniteSet(old)
    BY <1>1, FS_Subset
  <2>2. IsFiniteSet({m1} \cup {m2})
    BY FS_Singleton, FS_Union
  <2>3. added \subseteq {m1} \cup {m2}
    BY <1>4
  <2> HIDE DEF m1, m2
  <2>4. IsFiniteSet(added)
    BY <2>2, <2>3, FS_Subset
  <2> HIDE DEF old, added
  <2> QED BY <1>2, <2>1, <2>4, FS_Union
<1>8. Typed'
  BY <1>1, <1>2, <1>6 DEF Typed, Where
<1>9. KeysDiffer(rows')
  <2> SUFFICES ASSUME NEW r \in rows', NEW s \in rows', KeyOf(r) = KeyOf(s)
               PROVE  r = s
    BY DEF KeysDiffer
  <2>1. r.id = s.id /\ TableOf(r.perm) = TableOf(s.perm)
    BY DEF KeyOf
  <2>2. ASSUME NEW x \in rows, NEW y \in added, x.id = y.id,
               TableOf(x.perm) = TableOf(y.perm)
        PROVE  FALSE
    <3>1. PICK p \in Lacking : y = Marker(p, IdOf(p))
      OBVIOUS
    <3>2. y.id = IdOf(p) /\ y.perm = p
      BY <3>1 DEF Marker
    <3>3. x.id <= last
      BY <1>4, <1>5, <2>2, <3>2
    <3> QED BY <1>3, <2>2, <3>2, <3>3
  <2>3. CASE r \in old /\ s \in old
    BY <1>1, <2>3 DEF KeysDiffer
  <2>4. CASE r \in added /\ s \in added
    <3>1. PICK p \in Lacking : r = Marker(p, IdOf(p))
      BY <2>4
    <3>2. PICK q \in Lacking : s = Marker(q, IdOf(q))
      BY <2>4
    <3>3. IdOf(p) = IdOf(q)
      BY <2>1, <3>1, <3>2 DEF Marker
    <3>4. p = q
      BY <1>3, <1>4, <3>3
    <3> QED BY <3>1, <3>2, <3>4
  <2>5. CASE r \in old /\ s \in added
    BY <2>1, <2>2, <2>5
  <2>6. CASE r \in added /\ s \in old
    BY <2>1, <2>2, <2>6
  <2> QED BY <1>2, <2>3, <2>4, <2>5, <2>6
<1>10. ASSUME OneWriter', NEW p \in Perm
       PROVE  Kept(rows', p)
  <2>1. Kept(rows, p)
    BY <1>2, <1>10 DEF Inv, WriterInv, OneWriter
  <2>2. CASE p \in Lacking
    <3>1. \A r \in rows' : r.perm = p => r = Marker(p, IdOf(p))
      BY <1>2, <2>2 DEF Lacking, RowsOf, Marker
    <3>2. p \in default_enable /\ Grants(rows', p) = {}
      BY <2>2, <3>1 DEF Lacking, Grants, Marker
    <3> QED BY <3>1, <3>2 DEF Kept, RowsFor
  <2>3. CASE p \notin Lacking
    <3>1. \A r \in rows' : r.perm = p => r \in rows
      BY <1>2, <2>3 DEF Marker
    <3> QED BY <2>1, <3>1, KeptSubset DEF RowsFor, Grants
  <2> QED BY <2>2, <2>3
<1> QED BY <1>2, <1>7, <1>8, <1>9, <1>10, NoCalls

-----------------------------------------------------------------------------
(* The invariant.                                                          *)
LEMMA InitInv ==
  ASSUME Init
  PROVE  Inv
<1> DEFINE m1 == Marker("PRODUCT_STORE", 1)
           m2 == Marker("PRODUCT_ACCESS", 2)
<1>1. rows = {m1} \cup {m2} /\ rows = {m1, m2}
  BY DEF Init
<1>2. \A c \in Call : /\ pc[c] = "idle" /\ req[c] = None /\ record[c] = None
                      /\ new[c] = {} /\ gone[c] = {}
  BY DEF Init
<1>3. Typed
  BY DEF Init, Typed, Where, Row, Perm, Marker
<1>4. \A c \in Call : DataOf(c) /\ CallOf(c) /\ EditOf(c) /\ KnownOf(c) /\ ~Writing(c)
  BY <1>2, FS_EmptySet DEF DataOf, CallOf, EditOf, KnownOf, Writing, Editing
<1>5. IsFiniteSet(rows)
  <2>1. rows = {m1} \cup {m2}
    BY <1>1
  <2> HIDE DEF m1, m2
  <2>2. IsFiniteSet({m1}) /\ IsFiniteSet({m2})
    BY FS_Singleton
  <2>3. IsFiniteSet({m1} \cup {m2})
    BY <2>2, FS_Union
  <2> QED BY <2>1, <2>3
<1>6. TypeInv
  BY <1>3, <1>4, <1>5, TypeParts DEF TypeInv
<1>7. KeysDiffer(rows)
  BY <1>1 DEF KeysDiffer, KeyOf, Marker
<1>8. \A p \in Perm : Kept(rows, p)
  BY <1>1 DEF Kept, RowsFor, Grants, Marker, default_enable, Perm
<1>9. AllRows = rows
  BY <1>2 DEF AllRows
<1> QED BY <1>4, <1>6, <1>7, <1>8, <1>9 DEF Inv, WriterInv, KnownInv

LEMMA Stutters ==
  ASSUME Inv, UNCHANGED vars
  PROVE  Inv'
<1>1. \A c \in Call : View(c)' = View(c)
  BY DEF View, vars
<1>2. AllRows' = AllRows
  BY DEF AllRows, vars
<1>3. TypeInv'
  BY DEF Inv, TypeInv, TypeOK, CallOf, Writing, Editing, vars
<1>4. KeysDiffer(rows')
  BY DEF Inv, vars
<1>5. WriterInv'
  BY <1>1 DEF Inv, WriterInv, EditOf, OneWriter, Writing, Editing, vars
<1>6. KnownInv'
  BY <1>2 DEF Inv, KnownInv, KnownOf, OneWriter, vars
<1> QED BY <1>3, <1>4, <1>5, <1>6 DEF Inv

LEMMA NextInv ==
  ASSUME Inv, [Next]_vars
  PROVE  Inv'
<1>1. ASSUME NEW c \in Call, Receive(c) \/ Proceed(c)
      PROVE  Inv'
  BY <1>1, ReceiveStep, RequireManagerStep, GetPermRecordStep, InsertRecordStep,
     DeleteRecordStep, ListPermittedStep, SetDefaultStep, CommitStep DEF Proceed
<1> QED BY <1>1, RestartStep, Stutters DEF Next

LEMMA Invariance == Spec => []Inv
<1> QED BY InitInv, NextInv, PTL DEF Spec

-----------------------------------------------------------------------------
(* Calls keep to their control state, and rows have the shape of the       *)
(* tables (the type invariant of Permissions).                             *)
THEOREM TypeCorrect == Spec => []TypeOK
<1>1. Inv => TypeOK
  BY DEF Inv, TypeInv
<1> QED BY <1>1, Invariance, PTL

(* What the commit of an edit leaves, on SQLite.                           *)
DefaultSet ==
  \A c \in Call : OneWriter /\ Commit(c) =>
    LET p == req[c].perm
        others == {r \in rows' : r.perm = p /\ r.who # Star}
    IN  IF p \in default_enable
        THEN Cardinality(RowsFor(rows', p, Star)) = (IF others = {} THEN 1 ELSE 0)
        ELSE RowsFor(rows', p, Star) = {}

LEMMA CommitSetsDefault ==
  ASSUME Inv
  PROVE  DefaultSet
<1> SUFFICES ASSUME NEW c \in Call, OneWriter, Commit(c)
             PROVE  LET p == req[c].perm
                        others == {r \in rows' : r.perm = p /\ r.who # Star}
                    IN  IF p \in default_enable
                        THEN Cardinality(RowsFor(rows', p, Star)) =
                               (IF others = {} THEN 1 ELSE 0)
                        ELSE RowsFor(rows', p, Star) = {}
  BY DEF DefaultSet
<1> DEFINE p == req[c].perm
           markers == RowsFor(rows', p, Star)
<1>1. rows' = View(c) /\ pc[c] = "commit"
  BY DEF Commit
<1>2. Exact(View(c), p)
  BY <1>1 DEF Inv, WriterInv, EditOf
<1>3. Exact(rows', p)
  BY <1>1, <1>2
<1>4. CASE p \notin default_enable
  BY <1>3, <1>4 DEF Exact, Kept
<1>5. CASE p \in default_enable /\ Grants(rows', p) # {}
  <2>1. markers = {}
    BY <1>3, <1>5 DEF Exact, Kept
  <2>2. Cardinality(markers) = 0
    BY <2>1, FS_EmptySet
  <2> QED BY <1>5, <2>2 DEF Grants
<1>6. CASE p \in default_enable /\ Grants(rows', p) = {}
  <2>1. markers # {} /\ \A m, n \in markers : m = n
    BY <1>3, <1>6 DEF Exact, Kept
  <2>2. PICK m \in markers : markers = {m}
    BY <2>1
  <2>3. Cardinality(markers) = 1
    BY <2>2, FS_Singleton
  <2> QED BY <1>6, <2>3 DEF Grants
<1> QED BY <1>4, <1>5, <1>6

(* On SQLite a call that has edited a permission leaves it either          *)
(* everybody's or of those it was given to, whatever other calls did       *)
(* meanwhile (add_permission and remove_permission, authentication.py).    *)
THEOREM EditSetsDefaultCorrect == Spec => EditSetsDefault
<1>1. Inv /\ [Next]_vars => [DefaultSet]_vars
  BY CommitSetsDefault
<1>2. [][DefaultSet]_vars => EditSetsDefault
  BY PTL DEF EditSetsDefault, DefaultSet
<1> QED BY <1>1, <1>2, Invariance, PTL DEF Spec

(* What may take a grant away, on PostgreSQL.                              *)
GrantKept ==
  \A r \in rows : ~OneWriter /\ r.who # Star /\ r \notin rows' =>
    \E c \in Call : /\ pc[c] = "commit" /\ pc'[c] = "idle"
                    /\ req[c].op = "remove"
                    /\ req[c].perm = r.perm /\ req[c].who = r.who

LEMMA StepKeepsGrants ==
  ASSUME Inv, Next
  PROVE  GrantKept
<1> SUFFICES ASSUME NEW r \in rows, ~OneWriter, r.who # Star, r \notin rows'
             PROVE  \E c \in Call : /\ pc[c] = "commit" /\ pc'[c] = "idle"
                                    /\ req[c].op = "remove"
                                    /\ req[c].perm = r.perm /\ req[c].who = r.who
  BY DEF GrantKept
<1>1. ~Restart
  BY DEF Restart
<1>2. PICK c \in Call : Receive(c) \/ Proceed(c)
  BY <1>1 DEF Next
<1>3. Commit(c)
  BY <1>2 DEF Receive, Proceed, RequireManager, GetPermRecord, InsertRecord,
              DeleteRecord, ListPermitted, SetDefault
<1>4. Typed /\ DataOf(c) /\ CallOf(c) /\ KnownOf(c)
  BY TypeParts DEF Inv, TypeInv, KnownInv
<1>5. pc[c] = "commit" /\ pc'[c] = "idle" /\ KeyOf(r) \in gone[c]
  BY <1>3, <1>4 DEF Commit, Finish, View, Typed
<1>6. r \in AllRows
  BY DEF AllRows
<1>7. req[c] \in Request
  BY <1>4, <1>5 DEF DataOf, Typed
<1>8. req[c].op = "remove"
  BY <1>4, <1>5, <1>6, <1>7 DEF KnownOf, Request
<1>9. r = record[c] /\ record[c].perm = req[c].perm /\ record[c].who = req[c].who
  BY <1>4, <1>5, <1>6, <1>8 DEF CallOf, KnownOf, Editing
<1> QED BY <1>5, <1>8, <1>9

(* On PostgreSQL a name keeps a permission until a removal of that very    *)
(* permission of that name is committed: calls whose transactions overlap  *)
(* lose no grant (add_permission and remove_permission, authentication.py).*)
THEOREM GrantsKeptCorrect == Spec => GrantsKept
<1>1. Inv /\ [Next]_vars => [GrantKept]_vars
  BY StepKeepsGrants
<1>2. [][GrantKept]_vars => GrantsKept
  BY PTL DEF GrantsKept, GrantKept
<1> QED BY <1>1, <1>2, Invariance, PTL DEF Spec
=============================================================================
