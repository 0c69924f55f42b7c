-------------------------- MODULE FileStoreProofs --------------------------
(***************************************************************************)
(* Theorems about FileStore for any number of stores, removals, runs and   *)
(* files: the rows always fit together, a store fails only because of a    *)
(* removal or a kill, and, with one writer at a time, a removal deletes    *)
(* just what no report needs.                                              *)
(***************************************************************************)
EXTENDS FileStore, FiniteSetTheorems, TLAPS

(* TypeOK, with the values of a file_to_hash and of a file_path_to_id as   *)
(* sets that do not depend on the state.                                   *)
Tree == UNION {[P -> Hash] : P \in SUBSET Path}
IdMap == UNION {[P -> Nat] : P \in SUBSET Path}
FullJob == [run : Run \cup {None}, tree : Tree, zip : SUBSET Path,
            todo : SUBSET Path, at : Path \cup {None}, id : Nat, ids : IdMap]

PcOK == /\ pc \in [Store \cup Removal -> StorePC \cup RemovalPC]
        /\ \A s \in Store : pc[s] \in StorePC
        /\ \A r \in Removal : pc[r] \in RemovalPC
RowsOK == /\ contents \subseteq Hash
          /\ files \subseteq File
          /\ events \subseteq Event
          /\ runs \in [Run -> {"absent", "kept", "marked"}]
Typed == /\ backend \in Backend
         /\ RowsOK
         /\ PcOK
         /\ job \in [Store -> FullJob]
         /\ wipe \in [Removal -> Wipe]
         /\ crashes \in Nat
         /\ IsFiniteSet(files)

Visiting == {"content", "insert_content", "file", "insert_file", "requery", "reload"}
Under(s) == pc[s] \notin {"idle", "send"} \cup Final

(* What the control state of a store says of its data: the entries of      *)
(* file_path_to_id are those of the files it has visited.                  *)
JobOf(s) ==
  /\ pc[s] = "idle" => job[s] = NoJob
  /\ pc[s] = "send" => job[s].todo \subseteq DOMAIN job[s].tree
  /\ pc[s] \in {"idle", "send"} => job[s].ids = Nothing
  /\ pc[s] \notin {"idle"} \cup Final => job[s].run \in Run
  /\ IsFiniteSet(DOMAIN job[s].ids)
  /\ DOMAIN job[s].ids \subseteq DOMAIN job[s].tree
  /\ pc[s] \in Visiting => PathAt(s) \in DOMAIN job[s].tree
  /\ Under(s) => /\ job[s].todo \subseteq DOMAIN job[s].tree
                 /\ DOMAIN job[s].tree \subseteq
                      DOMAIN job[s].ids \cup job[s].todo
                        \cup (IF pc[s] \in Visiting THEN {PathAt(s)} ELSE {})
  /\ pc[s] \in {"begin", "commit"} => job[s].todo = {}

(* A removal's uncommitted deletions: before they are begun there are      *)
(* none, and what refers to a deleted content is deleted as well.          *)
EraseOf(r) ==
  /\ pc[r] \in {"idle", "mark", "delete", "files", "delete_files"} =>
       wipe[r].gone = {}
  /\ pc[r] # "commit" => wipe[r].erased = {}
  /\ \A f \in files : f.hash \in wipe[r].erased => f.id \in wipe[r].gone

(* On PostgreSQL an id that a store knows is that of the file it wanted,   *)
(* or of none.                                                             *)
KnownOf(s) ==
  ~OneWriter => \A f \in files :
    /\ \A p \in DOMAIN job[s].ids :
         job[s].ids[p] = f.id => f.path = p /\ f.hash = job[s].tree[p]
    /\ pc[s] = "reload" /\ f.id = job[s].id =>
         f.path = PathAt(s) /\ f.hash = HashAt(s)

(* As long as nothing was removed and nobody was killed, what a store has  *)
(* been told or has found stays true.                                      *)
Quiet == crashes = 0 /\ \A r \in Removal : pc[r] = "idle"
QuietOf(s) ==
  /\ pc[s] # "failed"
  /\ pc[s] = "send" =>
       \A p \in DOMAIN job[s].tree \ job[s].todo : job[s].tree[p] \in contents
  /\ Under(s) =>
       \A p \in DOMAIN job[s].tree \ job[s].zip : job[s].tree[p] \in contents
  /\ pc[s] \in {"content", "insert_content"} => PathAt(s) \in job[s].zip
  /\ pc[s] \in {"file", "insert_file"} => HashAt(s) \in contents
  /\ pc[s] = "requery" => FilesNamed(PathAt(s), HashAt(s)) # {}
  /\ pc[s] = "reload" => job[s].id \in FileIds

(* With one writer, what a removal has found is still so when it acts.     *)
Left(r) == {f \in files : f.id \notin wipe[r].gone}
OneAtATime ==
  OneWriter => \A c, d \in Store \cup Removal : Writing(c) /\ Writing(d) => c = d
CollectOf(r) ==
  OneWriter =>
    /\ pc[r] = "delete_files" => wipe[r].doomed = FileIds \ Referenced
    /\ pc[r] = "contents" => wipe[r].gone = FileIds \ Referenced
    /\ pc[r] = "delete_contents" =>
         /\ wipe[r].gone = FileIds \ Referenced
         /\ wipe[r].doomed = contents \ {f.hash : f \in Left(r)}
    /\ pc[r] = "commit" =>
         /\ wipe[r].gone = FileIds \ Referenced
         /\ wipe[r].erased = contents \ {f.hash : f \in Left(r)}

JobInv == \A s \in Store : JobOf(s)
EraseInv == \A r \in Removal : EraseOf(r)
KnownInv == \A s \in Store : KnownOf(s)
QuietInv == Quiet => \A s \in Store : QuietOf(s)
CollectInv == \A r \in Removal : CollectOf(r)

Inv == /\ Typed
       /\ JobInv
       /\ RowsFit
       /\ EraseInv
       /\ KnownInv
       /\ EventsInTheirFile
       /\ QuietInv
       /\ OneAtATime
       /\ CollectInv

-----------------------------------------------------------------------------
(* Types.                                                                  *)

LEMMA Maps ==
  /\ \A f : ByPath(f, Hash) <=> f \in Tree
  /\ \A f : ByPath(f, Nat) <=> f \in IdMap
  BY DEF ByPath, Tree, IdMap

LEMMA TypedIsTypeOK == Typed => TypeOK
<1> SUFFICES ASSUME Typed PROVE TypeOK
  OBVIOUS
<1>1. \A s \in Store : job[s] \in Job
  <2> TAKE s \in Store
  <2>1. job[s] \in FullJob
    BY DEF Typed
  <2>2. /\ job[s].tree \in {job[t].tree : t \in Store}
        /\ job[s].ids \in {job[t].ids : t \in Store}
    OBVIOUS
  <2> QED BY <2>1, <2>2 DEF FullJob, Job
<1>2. \A s \in Store : ByPath(job[s].tree, Hash) /\ ByPath(job[s].ids, Nat)
  BY Maps DEF Typed, FullJob
<1>3. job \in [Store -> Job]
  BY <1>1 DEF Typed
<1> QED BY <1>2, <1>3 DEF Typed, TypeOK, RowsOK, PcOK

-----------------------------------------------------------------------------
(* The ids that the database gives.                                        *)

(* A finite set of numbers has a smallest one.                             *)
LEMMA MinExists ==
  ASSUME NEW S \in SUBSET Nat, S # {}
  PROVE  Min(S) \in S
<1>1. \A n \in Nat : n \in S => \E x \in S : \A y \in S : x <= y
  <2> DEFINE Good(n) == n \in S => \E x \in S : \A y \in S : x <= y
             Bad == {n \in Nat : ~Good(n)}
  <2>1. Bad = {}
    <3> SUFFICES ASSUME Bad # {} PROVE FALSE
      OBVIOUS
    <3>1. IsWellFoundedOn(OpToRel(<, Nat), Nat)
      BY NatLessThanWellFounded
    <3>2. Bad \subseteq Nat
      OBVIOUS
    <3> HIDE DEF Bad
    <3>3. PICK n \in Bad : \A m \in Bad : <<m, n>> \notin OpToRel(<, Nat)
      BY <3>1, <3>2, WFMin
    <3> USE DEF Bad
    <3>4. \A m \in Bad : ~(m < n)
      BY <3>2, <3>3 DEF OpToRel
    <3>5. n \in S /\ ~ \E x \in S : \A y \in S : x <= y
      BY <3>3
    <3>6. PICK y \in S : ~(n <= y)
      BY <3>5
    <3>7. y \in Nat /\ y < n
      BY <3>2, <3>6
    <3>8. y \in Bad
      BY <3>5, <3>6, <3>7
    <3> QED BY <3>4, <3>7, <3>8
  <2> QED BY <2>1
<1>2. \E x \in S : \A y \in S : x <= y
  BY <1>1
<1> QED BY <1>2 DEF Min

(* A finite set of numbers has a largest one.                              *)
LEMMA MaxExists ==
  ASSUME NEW S \in SUBSET Nat, IsFiniteSet(S), S # {}
  PROVE  /\ Max(S) \in S
         /\ \A y \in S : Max(S) >= y
<1> DEFINE Bad == {U \in FiniteSubsetsOf(S) : U # {} /\ ~ \E x \in U : \A y \in U : x >= y}
<1>1. Bad = {}
  <2> SUFFICES ASSUME Bad # {} PROVE FALSE
    OBVIOUS
  <2>1. /\ IsWellFoundedOn(StrictSubsetOrdering(S), FiniteSubsetsOf(S))
        /\ Bad \subseteq FiniteSubsetsOf(S)
    BY FS_StrictSubsetOrderingWellFounded
  <2> HIDE DEF Bad
  <2>2. PICK U \in Bad : \A V \in Bad : <<V, U>> \notin StrictSubsetOrdering(S)
    BY <2>1, WFMin
  <2> USE DEF Bad
  <2>3. PICK x \in U : TRUE
    OBVIOUS
  <2>4. U \subseteq S /\ IsFiniteSet(U)
    BY DEF FiniteSubsetsOf
  <2>5. U \ {x} \in FiniteSubsetsOf(S)
    BY <2>4, FS_RemoveElement DEF FiniteSubsetsOf
  <2>6. <<U \ {x}, U>> \in StrictSubsetOrdering(S)
    BY <2>3, <2>4 DEF StrictSubsetOrdering
  <2>7. U \ {x} \notin Bad
    BY <2>2, <2>6
  <2>8. CASE U \ {x} = {}
    BY <2>3, <2>4, <2>8
  <2>9. CASE \E m \in U \ {x} : \A y \in U \ {x} : m >= y
    <3>1. PICK m \in U \ {x} : \A y \in U \ {x} : m >= y
      BY <2>9
    <3>2. m \in Nat /\ x \in Nat
      BY <2>3, <2>4
    <3>3. \A y \in U : IF m >= x THEN m >= y ELSE x >= y
      BY <3>1, <3>2, <2>4
    <3> QED BY <3>1, <3>2, <3>3, <2>3
  <2> QED BY <2>5, <2>7, <2>8, <2>9
<1>2. S \in FiniteSubsetsOf(S)
  BY DEF FiniteSubsetsOf
<1>3. \E x \in S : \A y \in S : x >= y
  BY <1>1, <1>2
<1> QED BY <1>3 DEF Max

(* There are finitely many ids, of files or known to somebody.             *)
LEMMA IdsFinite ==
  ASSUME Typed, JobInv, RowsFit
  PROVE  /\ FileIds \in SUBSET Nat /\ IsFiniteSet(FileIds)
         /\ KnownIds \in SUBSET Nat /\ IsFiniteSet(KnownIds)
<1>1. FileIds \in SUBSET Nat
  BY DEF FileIds, Typed, RowsOK, File
<1>2. IsFiniteSet(FileIds)
  <2> DEFINE fn == [f \in files |-> f.id]
  <2>1. fn \in Surjection(files, FileIds)
    BY DEF Surjection, FileIds
  <2> QED BY <2>1, FS_Surjection DEF Typed
<1>3. Referenced \in SUBSET FileIds
  BY DEF Referenced, RowsFit
<1>4. /\ {job[s].id : s \in Store} \in SUBSET Nat
      /\ IsFiniteSet({job[s].id : s \in Store})
  <2> DEFINE T == {job[s].id : s \in Store}
             fn == [s \in Store |-> job[s].id]
  <2>1. fn \in Surjection(Store, T)
    BY DEF Surjection
  <2>2. T \in SUBSET Nat
    BY DEF Typed, FullJob
  <2> QED BY <2>1, <2>2, FS_Surjection, FileStoreAssumption
<1>5. ASSUME NEW s \in Store
      PROVE  IdsOf(s) \in SUBSET Nat /\ IsFiniteSet(IdsOf(s))
  <2>1. job[s].ids \in IdMap
    BY DEF Typed, FullJob
  <2>2. IdsOf(s) \in SUBSET Nat
    BY <2>1 DEF IdsOf, IdMap
  <2>3. job[s].ids \in Surjection(DOMAIN job[s].ids, IdsOf(s))
    BY <2>1 DEF Surjection, IdsOf, IdMap
  <2> QED BY <2>2, <2>3, FS_Surjection DEF JobInv, JobOf
<1>6. /\ UNION {IdsOf(s) : s \in Store} \in SUBSET Nat
      /\ IsFiniteSet(UNION {IdsOf(s) : s \in Store})
  <2> DEFINE T == {IdsOf(s) : s \in Store}
             fn == [s \in Store |-> IdsOf(s)]
  <2>1. fn \in Surjection(Store, T)
    BY DEF Surjection
  <2>2. IsFiniteSet(T)
    BY <2>1, FS_Surjection, FileStoreAssumption
  <2>3. \A I \in T : I \in SUBSET Nat /\ IsFiniteSet(I)
    BY <1>5
  <2> HIDE DEF T
  <2>4. IsFiniteSet(UNION T)
    BY <2>2, <2>3, FS_UNION
  <2> QED BY <2>3, <2>4 DEF T
<1>7. KnownIds = FileIds \cup {job[s].id : s \in Store} \cup UNION {IdsOf(s) : s \in Store}
  BY <1>3 DEF KnownIds, IdsOf
<1>8. IsFiniteSet(FileIds \cup {job[s].id : s \in Store})
  BY <1>2, <1>4, FS_Union
<1>9. IsFiniteSet(KnownIds)
  BY <1>6, <1>7, <1>8, FS_Union
<1> QED BY <1>1, <1>2, <1>4, <1>6, <1>7, <1>9

(* The id of a new row is that of no row there is; on PostgreSQL, of none  *)
(* that anybody knows.                                                     *)
LEMMA FreshId ==
  ASSUME Typed, JobInv, RowsFit
  PROVE  /\ NewId \in Nat
         /\ NewId \notin FileIds
         /\ ~OneWriter => NewId \notin KnownIds
<1>1. CASE OneWriter
  <2> DEFINE S == {0} \cup FileIds
  <2>1. S \in SUBSET Nat /\ IsFiniteSet(S) /\ S # {}
    <3>1. IsFiniteSet({0})
      BY FS_Singleton
    <3>2. IsFiniteSet({0} \cup FileIds)
      BY <3>1, IdsFinite, FS_Union
    <3>3. S \in SUBSET Nat
      BY IdsFinite
    <3> QED BY <3>2, <3>3
  <2>2. Max(S) \in S /\ \A y \in S : Max(S) >= y
    BY <2>1, MaxExists
  <2>3. NewId = 1 + Max(S)
    BY <1>1 DEF NewId
  <2> HIDE DEF S
  <2>4. NewId \in Nat /\ NewId \notin S
    <3> DEFINE m == Max(S)
    <3>1. m \in Nat /\ \A y \in S : m >= y
      BY <2>1, <2>2
    <3>2. NewId = 1 + m
      BY <2>3
    <3> HIDE DEF m
    <3>3. ~(m >= 1 + m)
      BY <3>1
    <3> QED BY <3>1, <3>2, <3>3
  <2> QED BY <1>1, <2>4 DEF S
<1>2. CASE ~OneWriter
  <2> DEFINE n == Cardinality(KnownIds)
             S == (1..(n + 1)) \ KnownIds
  <2>1. n \in Nat
    BY IdsFinite, FS_CardinalityType
  <2>2. S # {}
    <3> SUFFICES ASSUME 1..(n + 1) \in SUBSET KnownIds PROVE FALSE
      OBVIOUS
    <3> HIDE DEF n
    <3>1. Cardinality(1..(n + 1)) = n + 1
      BY <2>1, FS_Interval
    <3>2. Cardinality(1..(n + 1)) <= n
      BY IdsFinite, FS_Subset DEF n
    <3> QED BY <2>1, <3>1, <3>2
  <2>3. S \in SUBSET Nat
    BY <2>1
  <2>4. NewId = Min(S)
    BY <1>2 DEF NewId
  <2>5. Min(S) \in S
    BY <2>2, <2>3, MinExists
  <2>6. NewId \in Nat /\ NewId \notin KnownIds
    BY <2>3, <2>4, <2>5
  <2> QED BY <2>6 DEF KnownIds
<1> QED BY <1>1, <1>2

-----------------------------------------------------------------------------
(* What one step of a call changes: where the call is, and its record.     *)

PcOf(c) == PcOK' /\ \A d \in Store \cup Removal : d # c => pc'[d] = pc[d]
JobsOf(s) == /\ job' \in [Store -> FullJob]
             /\ \A t \in Store : t # s => job'[t] = job[t]
WipesOf(r) == /\ wipe' \in [Removal -> Wipe]
              /\ \A q \in Removal : q # r => wipe'[q] = wipe[q]

LEMMA StoreGoes ==
  ASSUME NEW s \in Store, NEW to \in StorePC, Typed, Goto(s, to)
  PROVE  PcOf(s) /\ pc'[s] = to
<1>1. \A d \in Store \cup Removal : pc'[d] = IF d = s THEN to ELSE pc[d]
  BY DEF Typed, PcOK, Goto
<1>2. pc' \in [Store \cup Removal -> StorePC \cup RemovalPC]
  BY DEF Typed, PcOK, Goto
<1>3. \A r \in Removal : r # s
  BY FileStoreAssumption
<1> QED BY <1>1, <1>2, <1>3 DEF Typed, PcOK, PcOf

LEMMA RemovalGoes ==
  ASSUME NEW r \in Removal, NEW to \in RemovalPC, Typed, Goto(r, to)
  PROVE  PcOf(r) /\ pc'[r] = to
<1>1. \A d \in Store \cup Removal : pc'[d] = IF d = r THEN to ELSE pc[d]
  BY DEF Typed, PcOK, Goto
<1>2. pc' \in [Store \cup Removal -> StorePC \cup RemovalPC]
  BY DEF Typed, PcOK, Goto
<1>3. \A s \in Store : r # s
  BY FileStoreAssumption
<1> QED BY <1>1, <1>2, <1>3 DEF Typed, PcOK, PcOf

LEMMA AskFacts ==
  ASSUME NEW s \in Store, Typed, Ask(s)
  PROVE  /\ JobsOf(s)
         /\ job'[s].run \in Run
         /\ job'[s].todo = {p \in DOMAIN job'[s].tree : job'[s].tree[p] \notin contents}
         /\ job'[s].zip = job[s].zip /\ job'[s].at = job[s].at
         /\ job'[s].id = job[s].id /\ job'[s].ids = job[s].ids
<1>1. PICK run \in Run, P \in (SUBSET Path) \ {{}} : \E tree \in [P -> Hash] :
        /\ \A t \in Store \ {s} : pc[t] \in Final \/ job[t].run # run
        /\ job' = [job EXCEPT ![s] = [@ EXCEPT !.run = run, !.tree = tree,
                     !.todo = {p \in P : tree[p] \notin contents}]]
  BY Zenon DEF Ask
<1>2. PICK tree \in [P -> Hash] :
        job' = [job EXCEPT ![s] = [@ EXCEPT !.run = run, !.tree = tree,
                  !.todo = {p \in P : tree[p] \notin contents}]]
  BY <1>1
<1>3. /\ tree \in Tree /\ DOMAIN tree = P
      /\ {p \in P : tree[p] \notin contents} \subseteq Path
  BY DEF Tree
<1>4. job[s] \in FullJob /\ job \in [Store -> FullJob]
  BY DEF Typed
<1>5. job'[s] = [job[s] EXCEPT !.run = run, !.tree = tree,
                   !.todo = {p \in P : tree[p] \notin contents}]
  BY <1>2, <1>4
<1>6. /\ job'[s] \in FullJob
      /\ job'[s].run = run /\ job'[s].tree = tree
      /\ job'[s].todo = {p \in P : tree[p] \notin contents}
      /\ job'[s].zip = job[s].zip /\ job'[s].at = job[s].at
      /\ job'[s].id = job[s].id /\ job'[s].ids = job[s].ids
  BY <1>3, <1>4, <1>5 DEF FullJob
<1>7. JobsOf(s)
  BY <1>2, <1>4, <1>6 DEF JobsOf
<1> QED BY <1>3, <1>6, <1>7

LEMMA SendFacts ==
  ASSUME NEW s \in Store, Typed, Send(s)
  PROVE  /\ JobsOf(s)
         /\ job'[s].run = job[s].run /\ job'[s].tree = job[s].tree
         /\ job'[s].zip = job[s].todo /\ job'[s].todo = DOMAIN job[s].tree
         /\ job'[s].at = job[s].at /\ job'[s].id = job[s].id
         /\ job'[s].ids = job[s].ids
<1>1. job[s] \in FullJob /\ job \in [Store -> FullJob]
  BY DEF Typed
<1>2. DOMAIN job[s].tree \subseteq Path
  BY <1>1 DEF FullJob, Tree
<1>3. job'[s] = [job[s] EXCEPT !.zip = job[s].todo, !.todo = DOMAIN job[s].tree]
  BY <1>1 DEF Send
<1>4. /\ job'[s] \in FullJob
      /\ job'[s].run = job[s].run /\ job'[s].tree = job[s].tree
      /\ job'[s].zip = job[s].todo /\ job'[s].todo = DOMAIN job[s].tree
      /\ job'[s].at = job[s].at /\ job'[s].id = job[s].id
      /\ job'[s].ids = job[s].ids
  BY <1>1, <1>2, <1>3 DEF FullJob
<1>5. JobsOf(s)
  BY <1>1, <1>4 DEF JobsOf, Send
<1> QED BY <1>4, <1>5

LEMMA VisitFacts ==
  ASSUME NEW s \in Store, Typed, NEW p \in job[s].todo,
         job' = [job EXCEPT ![s] = [@ EXCEPT !.at = p, !.todo = job[s].todo \ {p}]]
  PROVE  /\ JobsOf(s)
         /\ job'[s].run = job[s].run /\ job'[s].tree = job[s].tree
         /\ job'[s].zip = job[s].zip /\ job'[s].todo = job[s].todo \ {p}
         /\ job'[s].at = p /\ job'[s].id = job[s].id
         /\ job'[s].ids = job[s].ids
<1>1. job[s] \in FullJob /\ job \in [Store -> FullJob]
  BY DEF Typed
<1>2. p \in Path /\ job[s].todo \ {p} \subseteq Path
  BY <1>1 DEF FullJob
<1>3. job'[s] = [job[s] EXCEPT !.at = p, !.todo = job[s].todo \ {p}]
  BY <1>1
<1>4. /\ job'[s] \in FullJob
      /\ job'[s].run = job[s].run /\ job'[s].tree = job[s].tree
      /\ job'[s].zip = job[s].zip /\ job'[s].todo = job[s].todo \ {p}
      /\ job'[s].at = p /\ job'[s].id = job[s].id
      /\ job'[s].ids = job[s].ids
  BY <1>1, <1>2, <1>3 DEF FullJob
<1>5. JobsOf(s)
  BY <1>1, <1>4 DEF JobsOf
<1> QED BY <1>4, <1>5

LEMMA TakeFacts ==
  ASSUME NEW s \in Store, Typed, PathAt(s) \in Path, NEW id \in Nat, TakeId(s, id)
  PROVE  /\ JobsOf(s)
         /\ job'[s].at = None /\ job'[s].id = 0 /\ job'[s].ids = WithId(s, id)
         /\ job'[s].run = job[s].run /\ job'[s].tree = job[s].tree
         /\ job'[s].zip = job[s].zip /\ job'[s].todo = job[s].todo
<1>1. job[s] \in FullJob /\ job \in [Store -> FullJob]
  BY DEF Typed
<1>2. PICK P \in SUBSET Path : job[s].ids \in [P -> Nat]
  BY <1>1 DEF FullJob, IdMap
<1>3. WithId(s, id) \in [P \cup {PathAt(s)} -> Nat]
  BY <1>2 DEF WithId
<1>4. WithId(s, id) \in IdMap
  BY <1>3 DEF IdMap
<1>5. job'[s] = [job[s] EXCEPT !.at = None, !.id = 0, !.ids = WithId(s, id)]
  BY <1>1 DEF TakeId
<1>6. /\ job'[s] \in FullJob
      /\ job'[s].at = None /\ job'[s].id = 0 /\ job'[s].ids = WithId(s, id)
      /\ job'[s].run = job[s].run /\ job'[s].tree = job[s].tree
      /\ job'[s].zip = job[s].zip /\ job'[s].todo = job[s].todo
  <2>1. 0 \in Nat
    OBVIOUS
  <2> QED BY <1>1, <1>4, <1>5, <2>1 DEF FullJob
<1>7. JobsOf(s)
  BY <1>1, <1>6 DEF JobsOf, TakeId
<1> QED BY <1>6, <1>7

LEMMA NewRowFacts ==
  ASSUME NEW s \in Store, Typed, NEW id \in Nat,
         job' = [job EXCEPT ![s].id = id]
  PROVE  /\ JobsOf(s)
         /\ job'[s].run = job[s].run /\ job'[s].tree = job[s].tree
         /\ job'[s].zip = job[s].zip /\ job'[s].todo = job[s].todo
         /\ job'[s].at = job[s].at /\ job'[s].id = id
         /\ job'[s].ids = job[s].ids
<1>1. job[s] \in FullJob /\ job \in [Store -> FullJob]
  BY DEF Typed
<1>3. job'[s] = [job[s] EXCEPT !.id = id]
  BY <1>1
<1>4. /\ job'[s] \in FullJob
      /\ job'[s].run = job[s].run /\ job'[s].tree = job[s].tree
      /\ job'[s].zip = job[s].zip /\ job'[s].todo = job[s].todo
      /\ job'[s].at = job[s].at /\ job'[s].id = id
      /\ job'[s].ids = job[s].ids
  BY <1>1, <1>3 DEF FullJob
<1>5. JobsOf(s)
  BY <1>1, <1>4 DEF JobsOf
<1> QED BY <1>4, <1>5

LEMMA RemoveFacts ==
  ASSUME NEW r \in Removal, Typed, NEW T \in SUBSET Run,
         wipe' = [wipe EXCEPT ![r].todo = T]
  PROVE  /\ WipesOf(r)
         /\ wipe'[r].todo = T /\ wipe'[r].runs = wipe[r].runs
         /\ wipe'[r].doomed = wipe[r].doomed /\ wipe'[r].gone = wipe[r].gone
         /\ wipe'[r].erased = wipe[r].erased
<1>1. wipe[r] \in Wipe /\ wipe \in [Removal -> Wipe]
  BY DEF Typed
<1>3. wipe'[r] = [wipe[r] EXCEPT !.todo = T]
  BY <1>1
<1>4. /\ wipe'[r] \in Wipe
      /\ wipe'[r].todo = T /\ wipe'[r].runs = wipe[r].runs
      /\ wipe'[r].doomed = wipe[r].doomed /\ wipe'[r].gone = wipe[r].gone
      /\ wipe'[r].erased = wipe[r].erased
  BY <1>1, <1>3 DEF Wipe
<1>5. WipesOf(r)
  BY <1>1, <1>4 DEF WipesOf
<1> QED BY <1>4, <1>5

LEMMA SkipFacts ==
  ASSUME NEW r \in Removal, Typed, NEW run \in wipe[r].todo,
         wipe' = [wipe EXCEPT ![r].todo = @ \ {run}]
  PROVE  /\ WipesOf(r)
         /\ wipe'[r].todo = wipe[r].todo \ {run}
         /\ wipe'[r].runs = wipe[r].runs /\ wipe'[r].doomed = wipe[r].doomed
         /\ wipe'[r].gone = wipe[r].gone /\ wipe'[r].erased = wipe[r].erased
<1>1. wipe[r] \in Wipe /\ wipe \in [Removal -> Wipe]
  BY DEF Typed
<1>2. wipe[r].todo \ {run} \subseteq Run
  BY <1>1 DEF Wipe
<1>3. wipe'[r] = [wipe[r] EXCEPT !.todo = wipe[r].todo \ {run}]
  BY <1>1
<1>4. /\ wipe'[r] \in Wipe
      /\ wipe'[r].todo = wipe[r].todo \ {run}
      /\ wipe'[r].runs = wipe[r].runs /\ wipe'[r].doomed = wipe[r].doomed
      /\ wipe'[r].gone = wipe[r].gone /\ wipe'[r].erased = wipe[r].erased
  BY <1>1, <1>2, <1>3 DEF Wipe
<1>5. WipesOf(r)
  BY <1>1, <1>4 DEF WipesOf
<1> QED BY <1>4, <1>5

LEMMA MarkFacts ==
  ASSUME NEW r \in Removal, Typed, NEW run \in wipe[r].todo,
         wipe' = [wipe EXCEPT ![r] = [@ EXCEPT !.todo = wipe[r].todo \ {run},
                                             !.runs = wipe[r].runs \cup {run}]]
  PROVE  /\ WipesOf(r)
         /\ wipe'[r].todo = wipe[r].todo \ {run}
         /\ wipe'[r].runs = wipe[r].runs \cup {run}
         /\ wipe'[r].doomed = wipe[r].doomed /\ wipe'[r].gone = wipe[r].gone
         /\ wipe'[r].erased = wipe[r].erased
<1>1. wipe[r] \in Wipe /\ wipe \in [Removal -> Wipe]
  BY DEF Typed
<1>2. wipe[r].todo \ {run} \subseteq Run /\ wipe[r].runs \cup {run} \subseteq Run
  BY <1>1 DEF Wipe
<1>3. wipe'[r] = [wipe[r] EXCEPT !.todo = wipe[r].todo \ {run}, !.runs = wipe[r].runs \cup {run}]
  BY <1>1
<1>4. /\ wipe'[r] \in Wipe
      /\ wipe'[r].todo = wipe[r].todo \ {run}
      /\ wipe'[r].runs = wipe[r].runs \cup {run}
      /\ wipe'[r].doomed = wipe[r].doomed /\ wipe'[r].gone = wipe[r].gone
      /\ wipe'[r].erased = wipe[r].erased
  BY <1>1, <1>2, <1>3 DEF Wipe
<1>5. WipesOf(r)
  BY <1>1, <1>4 DEF WipesOf
<1> QED BY <1>4, <1>5

LEMMA DeleteRunFacts ==
  ASSUME NEW r \in Removal, Typed, NEW run \in wipe[r].runs,
         wipe' = [wipe EXCEPT ![r].runs = @ \ {run}]
  PROVE  /\ WipesOf(r)
         /\ wipe'[r].todo = wipe[r].todo
         /\ wipe'[r].runs = wipe[r].runs \ {run}
         /\ wipe'[r].doomed = wipe[r].doomed /\ wipe'[r].gone = wipe[r].gone
         /\ wipe'[r].erased = wipe[r].erased
<1>1. wipe[r] \in Wipe /\ wipe \in [Removal -> Wipe]
  BY DEF Typed
<1>2. wipe[r].runs \ {run} \subseteq Run
  BY <1>1 DEF Wipe
<1>3. wipe'[r] = [wipe[r] EXCEPT !.runs = wipe[r].runs \ {run}]
  BY <1>1
<1>4. /\ wipe'[r] \in Wipe
      /\ wipe'[r].todo = wipe[r].todo
      /\ wipe'[r].runs = wipe[r].runs \ {run}
      /\ wipe'[r].doomed = wipe[r].doomed /\ wipe'[r].gone = wipe[r].gone
      /\ wipe'[r].erased = wipe[r].erased
  BY <1>1, <1>2, <1>3 DEF Wipe
<1>5. WipesOf(r)
  BY <1>1, <1>4 DEF WipesOf
<1> QED BY <1>4, <1>5

LEMMA CollectFilesFacts ==
  ASSUME NEW r \in Removal, Typed, CollectFiles(r)
  PROVE  /\ WipesOf(r)
         /\ wipe'[r].todo = wipe[r].todo /\ wipe'[r].runs = wipe[r].runs
         /\ wipe'[r].doomed = FileIds \ Referenced
         /\ wipe'[r].gone = wipe[r].gone /\ wipe'[r].erased = wipe[r].erased
<1>1. wipe[r] \in Wipe /\ wipe \in [Removal -> Wipe]
  BY DEF Typed
<1>2. FileIds \ Referenced \subseteq Nat \cup Hash
  BY <1>1 DEF Typed, RowsOK, File, FileIds
<1>3. wipe'[r] = [wipe[r] EXCEPT !.doomed = FileIds \ Referenced]
  BY <1>1 DEF CollectFiles
<1>4. /\ wipe'[r] \in Wipe
      /\ wipe'[r].todo = wipe[r].todo /\ wipe'[r].runs = wipe[r].runs
      /\ wipe'[r].doomed = FileIds \ Referenced
      /\ wipe'[r].gone = wipe[r].gone /\ wipe'[r].erased = wipe[r].erased
  BY <1>1, <1>2, <1>3 DEF Wipe
<1>5. WipesOf(r)
  BY <1>1, <1>4 DEF WipesOf, CollectFiles
<1> QED BY <1>4, <1>5

LEMMA DeleteFilesFacts ==
  ASSUME NEW r \in Removal, Typed, DeleteFiles(r)
  PROVE  /\ WipesOf(r)
         /\ wipe'[r].todo = wipe[r].todo /\ wipe'[r].runs = wipe[r].runs
         /\ wipe'[r].doomed = {}
         /\ wipe'[r].gone = wipe[r].gone \cup (wipe[r].doomed \cap FileIds)
         /\ wipe'[r].erased = wipe[r].erased
<1>1. wipe[r] \in Wipe /\ wipe \in [Removal -> Wipe]
  BY DEF Typed
<1>2. wipe[r].gone \cup (wipe[r].doomed \cap FileIds) \subseteq Nat
  BY <1>1 DEF Typed, RowsOK, File, FileIds, Wipe
<1>3. wipe'[r] = [wipe[r] EXCEPT !.doomed = {}, !.gone = wipe[r].gone \cup (wipe[r].doomed \cap FileIds)]
  BY <1>1 DEF DeleteFiles
<1>4. /\ wipe'[r] \in Wipe
      /\ wipe'[r].todo = wipe[r].todo /\ wipe'[r].runs = wipe[r].runs
      /\ wipe'[r].doomed = {}
      /\ wipe'[r].gone = wipe[r].gone \cup (wipe[r].doomed \cap FileIds)
      /\ wipe'[r].erased = wipe[r].erased
  BY <1>1, <1>2, <1>3 DEF Wipe
<1>5. WipesOf(r)
  BY <1>1, <1>4 DEF WipesOf, DeleteFiles
<1> QED BY <1>4, <1>5

LEMMA CollectContentsFacts ==
  ASSUME NEW r \in Removal, Typed, CollectContents(r)
  PROVE  /\ WipesOf(r)
         /\ wipe'[r].todo = wipe[r].todo /\ wipe'[r].runs = wipe[r].runs
         /\ wipe'[r].doomed = contents \ {f.hash : f \in Left(r)}
         /\ wipe'[r].gone = wipe[r].gone /\ wipe'[r].erased = wipe[r].erased
<1>1. wipe[r] \in Wipe /\ wipe \in [Removal -> Wipe]
  BY DEF Typed
<1>2. contents \ {f.hash : f \in Left(r)} \subseteq Nat \cup Hash
  BY <1>1 DEF Typed, RowsOK
<1>3. wipe'[r] = [wipe[r] EXCEPT !.doomed = contents \ {f.hash : f \in Left(r)}]
  BY <1>1 DEF CollectContents, Left
<1>4. /\ wipe'[r] \in Wipe
      /\ wipe'[r].todo = wipe[r].todo /\ wipe'[r].runs = wipe[r].runs
      /\ wipe'[r].doomed = contents \ {f.hash : f \in Left(r)}
      /\ wipe'[r].gone = wipe[r].gone /\ wipe'[r].erased = wipe[r].erased
  BY <1>1, <1>2, <1>3 DEF Wipe
<1>5. WipesOf(r)
  BY <1>1, <1>4 DEF WipesOf, CollectContents, Left
<1> QED BY <1>4, <1>5

Cascade(r) == {f \in files : f.hash \in wipe[r].doomed \cap contents}

LEMMA DeleteContentsFacts ==
  ASSUME NEW r \in Removal, Typed, DeleteContents(r)
  PROVE  /\ WipesOf(r)
         /\ wipe'[r].todo = wipe[r].todo /\ wipe'[r].runs = wipe[r].runs
         /\ wipe'[r].doomed = {}
         /\ wipe'[r].gone = wipe[r].gone \cup {f.id : f \in Cascade(r)}
         /\ wipe'[r].erased = wipe[r].doomed \cap contents
<1>1. wipe[r] \in Wipe /\ wipe \in [Removal -> Wipe]
  BY DEF Typed
<1>2. /\ wipe[r].gone \cup {f.id : f \in Cascade(r)} \subseteq Nat
      /\ wipe[r].doomed \cap contents \subseteq Hash
  BY <1>1 DEF Typed, RowsOK, File, Wipe, Cascade
<1>3. wipe'[r] = [wipe[r] EXCEPT !.erased = wipe[r].doomed \cap contents, !.doomed = {}, !.gone = wipe[r].gone \cup {f.id : f \in Cascade(r)}]
  BY <1>1 DEF DeleteContents, Cascade
<1>4. /\ wipe'[r] \in Wipe
      /\ wipe'[r].todo = wipe[r].todo /\ wipe'[r].runs = wipe[r].runs
      /\ wipe'[r].doomed = {}
      /\ wipe'[r].gone = wipe[r].gone \cup {f.id : f \in Cascade(r)}
      /\ wipe'[r].erased = wipe[r].doomed \cap contents
  BY <1>1, <1>2, <1>3 DEF Wipe
<1>5. WipesOf(r)
  BY <1>1, <1>4 DEF WipesOf, DeleteContents, Cascade
<1> QED BY <1>4, <1>5

-----------------------------------------------------------------------------
(* What a step leaves as it was for the other calls.                       *)

LEMMA JobFrame ==
  ASSUME NEW t \in Store, JobOf(t), pc'[t] = pc[t], job'[t] = job[t]
  PROVE  JobOf(t)'
  BY DEF JobOf, PathAt, Under

LEMMA KnownFrame ==
  ASSUME NEW t \in Store, KnownOf(t), pc'[t] = pc[t], job'[t] = job[t],
         backend' = backend, files' \subseteq files
  PROVE  KnownOf(t)'
  BY DEF KnownOf, PathAt, HashAt, OneWriter

LEMMA QuietFrame ==
  ASSUME NEW t \in Store, QuietOf(t), pc'[t] = pc[t], job'[t] = job[t],
         contents \subseteq contents', files \subseteq files'
  PROVE  QuietOf(t)'
<1>1. FilesNamed(PathAt(t), HashAt(t)) \subseteq FilesNamed(PathAt(t), HashAt(t))'
  BY DEF FilesNamed, PathAt, HashAt
<1>2. FileIds \subseteq FileIds'
  BY DEF FileIds
<1> QED BY <1>1, <1>2 DEF QuietOf, PathAt, HashAt, Under

LEMMA EraseFrame ==
  ASSUME NEW q \in Removal, EraseOf(q), pc'[q] = pc[q], wipe'[q] = wipe[q],
         files' \subseteq files
  PROVE  EraseOf(q)'
  BY DEF EraseOf

LEMMA CollectFrame ==
  ASSUME NEW q \in Removal, CollectOf(q), pc'[q] = pc[q], wipe'[q] = wipe[q],
         backend' = backend, OneWriter => UNCHANGED <<files, events, contents>>
  PROVE  CollectOf(q)'
  BY DEF CollectOf, FileIds, Referenced, Left, OneWriter

(* With one writer, a call that may write finds no removal at work.        *)
LEMMA NobodyCollects ==
  ASSUME NEW c \in Store \cup Removal, NEW q \in Removal, q # c, MayWrite(c),
         pc'[q] = pc[q], backend' = backend
  PROVE  CollectOf(q)'
  BY FileStoreAssumption DEF CollectOf, MayWrite, Writing, OneWriter

LEMMA WritingFrame ==
  ASSUME NEW c \in Store \cup Removal, PcOf(c), OneAtATime, backend' = backend,
         Writing(c)' => Writing(c) \/ MayWrite(c)
  PROVE  OneAtATime'
  BY DEF OneAtATime, PcOf, OneWriter, Writing, MayWrite

-----------------------------------------------------------------------------
(* The steps that leave the rows as they are.                              *)

(* A store moves on.                                                       *)
LEMMA StoreMoves ==
  ASSUME NEW s \in Store, Inv, PcOf(s), JobsOf(s),
         UNCHANGED <<backend, contents, files, events, runs, wipe, crashes>>,
         JobOf(s)', KnownOf(s)', Quiet => QuietOf(s)',
         Writing(s)' => Writing(s) \/ MayWrite(s)
  PROVE  Inv'
<1>1. \A t \in Store : t # s => pc'[t] = pc[t] /\ job'[t] = job[t]
  BY DEF PcOf, JobsOf
<1>2. \A r \in Removal : pc'[r] = pc[r] /\ wipe'[r] = wipe[r]
  BY FileStoreAssumption DEF PcOf
<1>3. Typed'
  BY DEF Inv, Typed, RowsOK, PcOf, JobsOf
<1>4. JobInv'
  BY <1>1, JobFrame DEF Inv, JobInv
<1>5. RowsFit'
  BY DEF Inv, RowsFit, FileIds
<1>6. EraseInv'
  BY <1>2, EraseFrame DEF Inv, EraseInv
<1>7. KnownInv'
  BY <1>1, KnownFrame DEF Inv, KnownInv
<1>8. EventsInTheirFile'
  BY DEF Inv, EventsInTheirFile, OneWriter
<1>9. QuietInv'
  <2>1. Quiet' => Quiet
    BY <1>2 DEF Quiet
  <2> QED BY <1>1, <2>1, QuietFrame DEF Inv, QuietInv
<1>10. OneAtATime'
  BY WritingFrame DEF Inv
<1>11. CollectInv'
  BY <1>2, CollectFrame DEF Inv, CollectInv
<1> QED BY <1>3, <1>4, <1>5, <1>6, <1>7, <1>8, <1>9, <1>10, <1>11 DEF Inv

(* A removal moves on.                                                     *)
LEMMA RemovalMoves ==
  ASSUME NEW r \in Removal, Inv, PcOf(r), WipesOf(r), pc'[r] # "idle",
         UNCHANGED <<backend, contents, files, events, job, crashes>>,
         runs' \in [Run -> {"absent", "kept", "marked"}],
         \A run \in Run : runs'[run] = "absent" => runs[run] = "absent",
         EraseOf(r)', CollectOf(r)',
         Writing(r)' => Writing(r) \/ MayWrite(r)
  PROVE  Inv'
<1>1. \A q \in Removal : q # r => pc'[q] = pc[q] /\ wipe'[q] = wipe[q]
  BY DEF PcOf, WipesOf
<1>2. \A t \in Store : pc'[t] = pc[t] /\ job'[t] = job[t]
  BY FileStoreAssumption DEF PcOf
<1>3. Typed'
  BY DEF Inv, Typed, RowsOK, PcOf, WipesOf
<1>4. JobInv'
  BY <1>2, JobFrame DEF Inv, JobInv
<1>5. RowsFit'
  BY DEF Inv, RowsFit, FileIds, Typed, RowsOK, Event
<1>6. EraseInv'
  BY <1>1, EraseFrame DEF Inv, EraseInv
<1>7. KnownInv'
  BY <1>2, KnownFrame DEF Inv, KnownInv
<1>8. EventsInTheirFile'
  BY DEF Inv, EventsInTheirFile, OneWriter
<1>9. QuietInv'
  BY DEF QuietInv, Quiet
<1>10. OneAtATime'
  BY WritingFrame DEF Inv
<1>11. CollectInv'
  BY <1>1, CollectFrame DEF Inv, CollectInv
<1> QED BY <1>3, <1>4, <1>5, <1>6, <1>7, <1>8, <1>9, <1>10, <1>11 DEF Inv

-----------------------------------------------------------------------------
(* The steps of a store.                                                   *)

LEMMA AskStep ==
  ASSUME NEW s \in Store, Inv, Ask(s)
  PROVE  Inv'
<1>1. Typed /\ JobOf(s) /\ pc[s] = "idle"
  BY DEF Inv, JobInv, Ask
<1>2. PcOf(s) /\ pc'[s] = "send"
  BY <1>1, StoreGoes DEF Ask, StorePC
<1>3. /\ JobsOf(s) /\ job'[s].run \in Run /\ job'[s].ids = job[s].ids
      /\ job'[s].todo = {p \in DOMAIN job'[s].tree : job'[s].tree[p] \notin contents}
  BY <1>1, AskFacts
<1>4. job'[s].ids = Nothing
  BY <1>1, <1>3 DEF JobOf
<1>5. DOMAIN Nothing = {} /\ IsFiniteSet({})
  BY FS_EmptySet DEF Nothing
<1>6. UNCHANGED <<backend, contents, files, events, runs, wipe, crashes>>
  BY DEF Ask
<1>7. JobOf(s)'
  BY <1>2, <1>3, <1>4, <1>5 DEF JobOf, Visiting, Under, Final
<1>8. KnownOf(s)'
  BY <1>2, <1>4, <1>5 DEF KnownOf
<1>9. QuietOf(s)'
  BY <1>2, <1>3, <1>6 DEF QuietOf, Under
<1>10. ~Writing(s)'
  BY <1>2 DEF Writing
<1> QED BY <1>2, <1>3, <1>6, <1>7, <1>8, <1>9, <1>10, StoreMoves

LEMMA SendStep ==
  ASSUME NEW s \in Store, Inv, Send(s)
  PROVE  Inv'
<1>1. Typed /\ JobOf(s) /\ KnownOf(s) /\ (Quiet => QuietOf(s)) /\ pc[s] = "send"
  BY DEF Inv, JobInv, KnownInv, QuietInv, Send
<1>2. PcOf(s) /\ pc'[s] = "next"
  BY <1>1, StoreGoes DEF Send, StorePC
<1>3. /\ JobsOf(s)
      /\ job'[s].zip = job[s].todo /\ job'[s].todo = DOMAIN job[s].tree
      /\ job'[s].run = job[s].run /\ job'[s].tree = job[s].tree
      /\ job'[s].ids = job[s].ids
  BY <1>1, SendFacts
<1>4. UNCHANGED <<backend, contents, files, events, runs, wipe, crashes>>
  BY DEF Send
<1>5. JobOf(s)'
  BY <1>1, <1>2, <1>3 DEF JobOf, Visiting, Under, Final
<1>6. KnownOf(s)'
  BY <1>1, <1>2, <1>3, <1>4 DEF KnownOf, OneWriter
<1>7. Quiet => QuietOf(s)'
  BY <1>1, <1>2, <1>3, <1>4 DEF QuietOf, Under
<1>8. ~Writing(s)'
  BY <1>2 DEF Writing
<1> QED BY <1>2, <1>3, <1>4, <1>5, <1>6, <1>7, <1>8, StoreMoves

LEMMA NextFileStep ==
  ASSUME NEW s \in Store, Inv, NextFile(s)
  PROVE  Inv'
<1>1. Typed /\ JobOf(s) /\ KnownOf(s) /\ (Quiet => QuietOf(s)) /\ pc[s] = "next"
  BY DEF Inv, JobInv, KnownInv, QuietInv, NextFile
<1>2. UNCHANGED <<backend, contents, files, events, runs, wipe, crashes>>
  BY DEF NextFile
<1>3. CASE job[s].todo = {} /\ Goto(s, "begin") /\ UNCHANGED job
  <2>1. PcOf(s) /\ pc'[s] = "begin"
    BY <1>1, <1>3, StoreGoes DEF StorePC
  <2>2. JobsOf(s)
    BY <1>1, <1>3 DEF JobsOf, Typed
  <2>3. JobOf(s)'
    BY <1>1, <1>3, <2>1 DEF JobOf, Visiting, Under, Final
  <2>4. KnownOf(s)'
    BY <1>1, <1>2, <1>3, <2>1 DEF KnownOf, OneWriter
  <2>5. Quiet => QuietOf(s)'
    BY <1>1, <1>2, <1>3, <2>1 DEF QuietOf, Under, Final
  <2>6. ~Writing(s)'
    BY <2>1 DEF Writing
  <2> QED BY <1>2, <2>1, <2>2, <2>3, <2>4, <2>5, <2>6, StoreMoves
<1>4. ASSUME NEW p \in job[s].todo,
             job' = [job EXCEPT ![s] = [@ EXCEPT !.at = p, !.todo = job[s].todo \ {p}]],
             Goto(s, IF p \in job[s].zip THEN "content" ELSE "file")
      PROVE  Inv'
  <2> DEFINE to == IF p \in job[s].zip THEN "content" ELSE "file"
  <2>1. PcOf(s) /\ pc'[s] = to
    BY <1>1, <1>4, StoreGoes DEF StorePC
  <2>2. /\ JobsOf(s)
        /\ job'[s].at = p /\ job'[s].todo = job[s].todo \ {p}
        /\ job'[s].run = job[s].run /\ job'[s].tree = job[s].tree
        /\ job'[s].zip = job[s].zip /\ job'[s].ids = job[s].ids
    BY <1>1, <1>4, VisitFacts
  <2>3. JobOf(s)'
    BY <1>1, <2>1, <2>2 DEF JobOf, Visiting, Under, Final, PathAt
  <2>4. KnownOf(s)'
    BY <1>1, <1>2, <2>1, <2>2 DEF KnownOf, OneWriter
  <2>5. p \in DOMAIN job[s].tree
    BY <1>1 DEF JobOf, Under, Final
  <2>6. Quiet => QuietOf(s)'
    BY <1>1, <1>2, <2>1, <2>2, <2>5 DEF QuietOf, Under, Final, PathAt, HashAt
  <2>7. ~Writing(s)'
    BY <2>1 DEF Writing
  <2> QED BY <1>2, <2>1, <2>2, <2>3, <2>4, <2>6, <2>7, StoreMoves
<1> QED BY <1>3, <1>4 DEF NextFile

LEMMA QueryContentStep ==
  ASSUME NEW s \in Store, Inv, QueryContent(s)
  PROVE  Inv'
<1>1. Typed /\ JobOf(s) /\ KnownOf(s) /\ (Quiet => QuietOf(s)) /\ pc[s] = "content"
  BY DEF Inv, JobInv, KnownInv, QuietInv, QueryContent
<1>2. UNCHANGED <<backend, contents, files, events, runs, wipe, crashes>> /\ job' = job
  BY DEF QueryContent, storeVars
<1>3. PcOf(s) /\ pc'[s] = IF HashAt(s) \in contents THEN "file" ELSE "insert_content"
  BY <1>1, StoreGoes DEF QueryContent, StorePC
<1>4. JobsOf(s)
  BY <1>1, <1>2 DEF JobsOf, Typed
<1>5. JobOf(s)'
  BY <1>1, <1>2, <1>3 DEF JobOf, Visiting, Under, Final, PathAt
<1>6. KnownOf(s)'
  BY <1>1, <1>2, <1>3 DEF KnownOf, OneWriter
<1>7. Quiet => QuietOf(s)'
  BY <1>1, <1>2, <1>3 DEF QuietOf, Under, Final, PathAt, HashAt
<1>8. ~Writing(s)'
  BY <1>3 DEF Writing
<1> QED BY <1>2, <1>3, <1>4, <1>5, <1>6, <1>7, <1>8, StoreMoves

LEMMA BeginStep ==
  ASSUME NEW s \in Store, Inv, Begin(s)
  PROVE  Inv'
<1>1. Typed /\ JobOf(s) /\ KnownOf(s) /\ (Quiet => QuietOf(s)) /\ pc[s] = "begin"
  BY DEF Inv, JobInv, KnownInv, QuietInv, Begin
<1>2. UNCHANGED <<backend, contents, files, events, runs, wipe, crashes>> /\ job' = job
  BY DEF Begin, storeVars
<1>3. PcOf(s) /\ pc'[s] = "commit"
  BY <1>1, StoreGoes DEF Begin, StorePC
<1>4. JobsOf(s)
  BY <1>1, <1>2 DEF JobsOf, Typed
<1>5. JobOf(s)'
  BY <1>1, <1>2, <1>3 DEF JobOf, Visiting, Under, Final, PathAt
<1>6. KnownOf(s)'
  BY <1>1, <1>2, <1>3 DEF KnownOf, OneWriter
<1>7. Quiet => QuietOf(s)'
  BY <1>1, <1>2, <1>3 DEF QuietOf, Under, Final, PathAt, HashAt
<1>8. MayWrite(s)
  BY DEF Begin
<1> QED BY <1>2, <1>3, <1>4, <1>5, <1>6, <1>7, <1>8, StoreMoves

(* A file record is found, or reloaded, and the loop goes on.              *)
LEMMA TakeStep ==
  ASSUME NEW s \in Store, NEW id \in Nat, Inv, TakeId(s, id),
         pc[s] \in {"file", "requery", "reload"},
         UNCHANGED <<backend, contents, files, events, runs, wipe, crashes>>,
         ~OneWriter => \A f \in files : f.id = id =>
                         f.path = PathAt(s) /\ f.hash = HashAt(s)
  PROVE  Inv'
<1>1. Typed /\ JobOf(s) /\ KnownOf(s) /\ (Quiet => QuietOf(s))
  BY DEF Inv, JobInv, KnownInv, QuietInv
<1>2. PcOf(s) /\ pc'[s] = "next"
  BY <1>1, StoreGoes DEF TakeId, StorePC
<1>3. PathAt(s) \in DOMAIN job[s].tree /\ PathAt(s) \in Path
  BY <1>1 DEF JobOf, Visiting, Typed, FullJob, Tree
<1>4. /\ JobsOf(s) /\ job'[s].ids = WithId(s, id)
      /\ job'[s].run = job[s].run /\ job'[s].tree = job[s].tree
      /\ job'[s].zip = job[s].zip /\ job'[s].todo = job[s].todo
  BY <1>1, <1>3, TakeFacts
<1>5. /\ DOMAIN job'[s].ids = DOMAIN job[s].ids \cup {PathAt(s)}
      /\ \A p \in DOMAIN job'[s].ids :
           job'[s].ids[p] = IF p = PathAt(s) THEN id ELSE job[s].ids[p]
  BY <1>4 DEF WithId
<1>6. IsFiniteSet(DOMAIN job'[s].ids)
  BY <1>1, <1>5, FS_AddElement DEF JobOf
<1>7. JobOf(s)'
  BY <1>1, <1>2, <1>3, <1>4, <1>5, <1>6 DEF JobOf, Visiting, Under, Final
<1>8. KnownOf(s)'
  BY <1>1, <1>2, <1>4, <1>5 DEF KnownOf, OneWriter, HashAt, PathAt
<1>9. Quiet => QuietOf(s)'
  BY <1>1, <1>2, <1>4 DEF QuietOf, Under, Final
<1>10. ~Writing(s)'
  BY <1>2 DEF Writing
<1> QED BY <1>2, <1>4, <1>7, <1>8, <1>9, <1>10, StoreMoves

(* A store goes elsewhere, with the same job.                              *)
LEMMA GoesOn ==
  ASSUME NEW s \in Store, Inv, UNCHANGED job,
         UNCHANGED <<backend, contents, files, events, runs, wipe, crashes>>,
         pc[s] \in {"file", "requery", "reload", "insert_file"},
         \/ Goto(s, "insert_file") /\ (Quiet => HashAt(s) \in contents)
         \/ Goto(s, "requery") /\ (Quiet => FilesNamed(PathAt(s), HashAt(s)) # {})
         \/ Goto(s, "failed") /\ ~Quiet
  PROVE  Inv'
<1>1. Typed /\ JobOf(s) /\ KnownOf(s) /\ (Quiet => QuietOf(s))
  BY DEF Inv, JobInv, KnownInv, QuietInv
<1>2. PICK to \in {"insert_file", "requery", "failed"} :
        /\ Goto(s, to)
        /\ to = "insert_file" => (Quiet => HashAt(s) \in contents)
        /\ to = "requery" => (Quiet => FilesNamed(PathAt(s), HashAt(s)) # {})
        /\ to = "failed" => ~Quiet
  OBVIOUS
<1>3. PcOf(s) /\ pc'[s] = to
  BY <1>1, <1>2, StoreGoes DEF StorePC, Final
<1>4. JobsOf(s)
  BY <1>1 DEF JobsOf, Typed
<1>5. JobOf(s)'
  BY <1>1, <1>3 DEF JobOf, Visiting, Under, Final, PathAt
<1>6. KnownOf(s)'
  BY <1>1, <1>3 DEF KnownOf, OneWriter
<1>7. Quiet => QuietOf(s)'
  BY <1>1, <1>2, <1>3 DEF QuietOf, Under, Final, PathAt, HashAt, FilesNamed
<1>8. ~Writing(s)'
  BY <1>3 DEF Writing
<1> QED BY <1>3, <1>4, <1>5, <1>6, <1>7, <1>8, StoreMoves

LEMMA QueryFileStep ==
  ASSUME NEW s \in Store, Inv, QueryFile(s)
  PROVE  Inv'
<1>1. /\ pc[s] = "file" /\ (Quiet => QuietOf(s)) /\ Typed
      /\ UNCHANGED <<backend, contents, files, events, runs, wipe, crashes>>
  BY DEF QueryFile, Inv, QuietInv
<1>2. ASSUME NEW f \in FilesNamed(PathAt(s), HashAt(s)), TakeId(s, f.id)
      PROVE  Inv'
  <2>1. f \in files /\ f.path = PathAt(s) /\ f.hash = HashAt(s) /\ f.id \in Nat
    BY <1>1 DEF FilesNamed, Typed, RowsOK, File
  <2>2. \A g \in files : g.id = f.id => g = f
    BY <2>1 DEF Inv, RowsFit
  <2> QED BY <1>1, <1>2, <2>1, <2>2, TakeStep
<1>3. CASE Goto(s, "insert_file") /\ UNCHANGED job
  BY <1>1, <1>3, GoesOn DEF QuietOf
<1> QED BY <1>2, <1>3 DEF QueryFile

LEMMA RequeryStep ==
  ASSUME NEW s \in Store, Inv, Requery(s)
  PROVE  Inv'
<1>1. /\ pc[s] = "requery" /\ (Quiet => QuietOf(s)) /\ Typed
      /\ UNCHANGED <<backend, contents, files, events, runs, wipe, crashes>>
  BY DEF Requery, Inv, QuietInv
<1>2. ASSUME NEW f \in FilesNamed(PathAt(s), HashAt(s)), TakeId(s, f.id)
      PROVE  Inv'
  <2>1. f \in files /\ f.path = PathAt(s) /\ f.hash = HashAt(s) /\ f.id \in Nat
    BY <1>1 DEF FilesNamed, Typed, RowsOK, File
  <2>2. \A g \in files : g.id = f.id => g = f
    BY <2>1 DEF Inv, RowsFit
  <2> QED BY <1>1, <1>2, <2>1, <2>2, TakeStep
<1>3. CASE FilesNamed(PathAt(s), HashAt(s)) = {} /\ Goto(s, "failed") /\ UNCHANGED job
  BY <1>1, <1>3, GoesOn DEF QuietOf
<1> QED BY <1>2, <1>3 DEF Requery

LEMMA ReloadStep ==
  ASSUME NEW s \in Store, Inv, Reload(s)
  PROVE  Inv'
<1>1. /\ pc[s] = "reload" /\ (Quiet => QuietOf(s)) /\ KnownOf(s) /\ Typed
      /\ UNCHANGED <<backend, contents, files, events, runs, wipe, crashes>>
  BY DEF Reload, Inv, QuietInv, KnownInv
<1>2. CASE TakeId(s, job[s].id)
  <2>1. job[s].id \in Nat
    BY <1>1 DEF Typed, FullJob
  <2> QED BY <1>1, <1>2, <2>1, TakeStep DEF KnownOf
<1>3. CASE job[s].id \notin FileIds /\ Goto(s, "failed") /\ UNCHANGED job
  BY <1>1, <1>3, GoesOn DEF QuietOf
<1> QED BY <1>2, <1>3 DEF Reload

LEMMA InsertContentStep ==
  ASSUME NEW s \in Store, Inv, InsertContent(s)
  PROVE  Inv'
<1> DEFINE hash == HashAt(s)
<1>1. /\ Typed /\ JobOf(s) /\ KnownOf(s) /\ (Quiet => QuietOf(s))
      /\ pc[s] = "insert_content" /\ MayWrite(s) /\ ~HeldContent(hash)
      /\ contents' = contents \cup {hash}
      /\ UNCHANGED <<backend, files, events, runs, wipe, crashes>> /\ job' = job
  BY DEF Inv, JobInv, KnownInv, QuietInv, InsertContent, storeVars
<1>2. PcOf(s) /\ pc'[s] = "file"
  BY <1>1, StoreGoes DEF InsertContent, StorePC
<1>3. /\ \A t \in Store : t # s => pc'[t] = pc[t]
      /\ \A r \in Removal : pc'[r] = pc[r]
  BY <1>2, FileStoreAssumption DEF PcOf
<1>4. hash \in Hash
  BY <1>1 DEF JobOf, Visiting, Typed, FullJob, Tree, HashAt, PathAt
<1>5. Typed'
  BY <1>1, <1>2, <1>4 DEF Typed, RowsOK, PcOf
<1>6. JobInv'
  <2>1. JobOf(s)'
    BY <1>1, <1>2 DEF JobOf, Visiting, Under, Final, PathAt
  <2> QED BY <1>1, <1>3, <2>1, JobFrame DEF Inv, JobInv
<1>7. RowsFit'
  BY <1>1 DEF Inv, RowsFit, FileIds
<1>8. EraseInv'
  BY <1>1, <1>3, EraseFrame DEF Inv, EraseInv
<1>9. KnownInv'
  <2>1. KnownOf(s)'
    BY <1>1, <1>2 DEF KnownOf, OneWriter
  <2> QED BY <1>1, <1>3, <2>1, KnownFrame DEF Inv, KnownInv
<1>10. EventsInTheirFile'
  BY <1>1 DEF Inv, EventsInTheirFile, OneWriter
<1>11. QuietInv'
  <2>1. Quiet' => Quiet
    BY <1>1, <1>3 DEF Quiet
  <2>2. Quiet => QuietOf(s)'
    BY <1>1, <1>2 DEF QuietOf, Under, Final, PathAt, HashAt
  <2> QED BY <1>1, <1>3, <2>1, <2>2, QuietFrame DEF Inv, QuietInv
<1>12. OneAtATime'
  BY <1>1, <1>2, WritingFrame DEF Inv
<1>13. CollectInv'
  BY <1>1, <1>3, NobodyCollects, FileStoreAssumption DEF CollectInv
<1> QED BY <1>5, <1>6, <1>7, <1>8, <1>9, <1>10, <1>11, <1>12, <1>13 DEF Inv

LEMMA InsertFileStep ==
  ASSUME NEW s \in Store, Inv, InsertFile(s)
  PROVE  Inv'
<1> DEFINE path == PathAt(s)
           hash == HashAt(s)
           new == [id |-> NewId, path |-> path, hash |-> hash]
<1>1. /\ Typed /\ JobOf(s) /\ KnownOf(s) /\ (Quiet => QuietOf(s))
      /\ pc[s] = "insert_file" /\ MayWrite(s) /\ ~HeldContent(hash)
      /\ UNCHANGED <<backend, contents, events, runs, wipe, crashes>>
  BY DEF Inv, JobInv, KnownInv, QuietInv, InsertFile
<1>2. CASE /\ FilesNamed(path, hash) # {} \/ hash \notin contents
           /\ Goto(s, "requery") /\ UNCHANGED <<files, job>>
  BY <1>1, <1>2, GoesOn DEF QuietOf
<1>3. CASE /\ FilesNamed(path, hash) = {} /\ hash \in contents
           /\ files' = files \cup {new}
           /\ job' = [job EXCEPT ![s].id = NewId]
           /\ Goto(s, "reload")
  <2>1. /\ NewId \in Nat /\ NewId \notin FileIds
        /\ ~OneWriter => NewId \notin KnownIds
    BY FreshId DEF Inv
  <2>2. /\ JobsOf(s)
        /\ job'[s].id = NewId
        /\ job'[s].run = job[s].run /\ job'[s].tree = job[s].tree
        /\ job'[s].zip = job[s].zip /\ job'[s].todo = job[s].todo
        /\ job'[s].at = job[s].at /\ job'[s].ids = job[s].ids
    BY <1>1, <1>3, <2>1, NewRowFacts
  <2>3. PcOf(s) /\ pc'[s] = "reload"
    BY <1>1, <1>3, StoreGoes DEF StorePC
  <2>4. /\ \A t \in Store : t # s => pc'[t] = pc[t] /\ job'[t] = job[t]
        /\ \A r \in Removal : pc'[r] = pc[r] /\ wipe'[r] = wipe[r]
    BY <1>1, <2>2, <2>3, FileStoreAssumption DEF PcOf, JobsOf
  <2>5. /\ path \in DOMAIN job[s].tree /\ path \in Path /\ hash \in Hash
    BY <1>1 DEF JobOf, Visiting, Typed, FullJob, Tree, HashAt, PathAt
  <2>6. new \in File /\ new.id = NewId /\ new.path = path /\ new.hash = hash
    BY <2>1, <2>5 DEF File
  <2> HIDE DEF new, path, hash
  <2>7. Typed'
    <3>1. IsFiniteSet(files')
      BY <1>1, <1>3, FS_AddElement DEF Typed
    <3> QED BY <1>1, <1>3, <2>2, <2>3, <2>6, <3>1 DEF Typed, RowsOK, PcOf, JobsOf
  <2>8. JobInv'
    <3>1. JobOf(s)'
      BY <1>1, <2>2, <2>3 DEF JobOf, Visiting, Under, Final, PathAt
    <3> QED BY <2>4, <3>1, JobFrame DEF Inv, JobInv
  <2>9. RowsFit'
    <3>1. \A e \in events' : e.file \in FileIds' /\ runs'[e.run] # "absent"
      BY <1>1, <1>3 DEF Inv, RowsFit, FileIds
    <3>2. \A f \in files' : f.hash \in contents'
      BY <1>1, <1>3, <2>6 DEF Inv, RowsFit
    <3>3. ASSUME NEW f \in files', NEW g \in files',
                 f.id = g.id \/ (f.path = g.path /\ f.hash = g.hash)
          PROVE  f = g
      BY <1>1, <1>3, <2>1, <2>6, <3>3 DEF Inv, RowsFit, FileIds, FilesNamed
    <3> QED BY <3>1, <3>2, <3>3 DEF RowsFit
  <2>10. EraseInv'
    <3>1. \A r \in Removal : hash \notin wipe[r].erased
      BY <1>1 DEF HeldContent, hash
    <3> QED BY <1>1, <1>3, <2>4, <2>6, <3>1 DEF Inv, EraseInv, EraseOf
  <2>11. KnownInv'
    <3> SUFFICES ASSUME ~OneWriter, NEW t \in Store PROVE KnownOf(t)'
      BY <1>1 DEF KnownInv, KnownOf, OneWriter
    <3>1. NewId \notin IdsOf(t) /\ NewId # job[t].id
      BY <2>1 DEF KnownIds, IdsOf
    <3>2. /\ KnownOf(t)
          /\ \A p \in DOMAIN job[t].ids : job[t].ids[p] # NewId
      BY <3>1 DEF Inv, KnownInv, IdsOf
    <3>3. CASE t = s
      <4>1. ASSUME NEW f \in files', NEW p \in DOMAIN job'[s].ids, job'[s].ids[p] = f.id
            PROVE  f.path = p /\ f.hash = job'[s].tree[p]
        BY <1>3, <2>2, <2>6, <3>2, <3>3, <4>1 DEF KnownOf
      <4>2. ASSUME NEW f \in files', f.id = job'[s].id
            PROVE  f = new
        BY <1>3, <2>1, <2>2, <2>6, <4>2 DEF FileIds
      <4>3. PathAt(s)' = path /\ HashAt(s)' = hash
        BY <2>2 DEF PathAt, HashAt, path, hash
      <4> QED BY <2>6, <3>3, <4>1, <4>2, <4>3 DEF KnownOf
    <3>4. CASE t # s
      BY <1>1, <1>3, <2>4, <2>6, <3>1, <3>2, <3>4 DEF KnownOf, PathAt, HashAt
    <3> QED BY <3>3, <3>4
  <2>12. EventsInTheirFile'
    BY <1>1, <1>3 DEF Inv, EventsInTheirFile, OneWriter
  <2>13. QuietInv'
    <3>1. Quiet' => Quiet
      BY <1>1, <2>4 DEF Quiet
    <3>2. job'[s].id \in FileIds'
      BY <1>3, <2>2, <2>6 DEF FileIds
    <3>3. Quiet => QuietOf(s)'
      BY <1>1, <2>2, <2>3, <3>2 DEF QuietOf, Under, Final
    <3> QED BY <1>1, <1>3, <2>4, <3>1, <3>3, QuietFrame DEF Inv, QuietInv
  <2>14. OneAtATime'
    BY <1>1, <2>3, WritingFrame DEF Inv
  <2>15. CollectInv'
    BY <1>1, <2>4, NobodyCollects, FileStoreAssumption DEF CollectInv
  <2> QED BY <2>7, <2>8, <2>9, <2>10, <2>11, <2>12, <2>13, <2>14, <2>15 DEF Inv
<1> QED BY <1>2, <1>3 DEF InsertFile

LEMMA CommitStoreStep ==
  ASSUME NEW s \in Store, Inv, CommitStore(s)
  PROVE  Inv'
<1>1. /\ Typed /\ JobOf(s) /\ KnownOf(s) /\ (Quiet => QuietOf(s)) /\ pc[s] = "commit"
      /\ UNCHANGED <<backend, contents, files, wipe, crashes>> /\ job' = job
  BY DEF Inv, JobInv, KnownInv, QuietInv, CommitStore, storeVars
<1>2. PcOf(s) /\ pc'[s] = "done"
  BY <1>1, StoreGoes DEF CommitStore, StorePC, Final
<1>3. /\ \A t \in Store : t # s => pc'[t] = pc[t]
      /\ \A r \in Removal : pc'[r] = pc[r] /\ wipe'[r] = wipe[r]
  BY <1>1, <1>2, FileStoreAssumption DEF PcOf
<1>4. CASE UNCHANGED <<events, runs>>
  <2>1. JobsOf(s)
    BY <1>1 DEF JobsOf, Typed
  <2>2. JobOf(s)'
    BY <1>1, <1>2 DEF JobOf, Visiting, Under, Final
  <2>3. KnownOf(s)'
    BY <1>1, <1>2 DEF KnownOf, OneWriter
  <2>4. Quiet => QuietOf(s)'
    BY <1>1, <1>2 DEF QuietOf, Under, Final
  <2>5. ~Writing(s)'
    BY <1>2 DEF Writing
  <2> QED BY <1>1, <1>2, <1>4, <2>1, <2>2, <2>3, <2>4, <2>5, StoreMoves
<1>5. CASE /\ IdsOf(s) \subseteq FileIds
           /\ events' = (events \ Replaced(s)) \cup StoredBy(s)
           /\ runs' = [runs EXCEPT ![job[s].run] = IF @ = "absent" THEN "kept" ELSE @]
  <2>1. /\ job[s].run \in Run /\ DOMAIN job[s].ids = DOMAIN job[s].tree
        /\ job[s].tree \in Tree /\ job[s].ids \in IdMap
    BY <1>1 DEF JobOf, Visiting, Under, Final, Typed, FullJob
  <2>2. ASSUME NEW e \in StoredBy(s)
        PROVE  /\ e \in Event /\ e.run = job[s].run
               /\ e.path \in DOMAIN job[s].ids /\ e.hash = job[s].tree[e.path]
               /\ e.file = job[s].ids[e.path] /\ e.file \in FileIds
    <3>1. PICK p \in DOMAIN job[s].tree :
            e = [run |-> job[s].run, path |-> p, hash |-> job[s].tree[p],
                 file |-> job[s].ids[p]]
      BY DEF StoredBy
    <3>2. p \in Path /\ job[s].tree[p] \in Hash /\ job[s].ids[p] \in Nat
      BY <2>1, <3>1 DEF Tree, IdMap
    <3>3. job[s].ids[p] \in IdsOf(s)
      BY <2>1, <3>1 DEF IdsOf
    <3> QED BY <1>5, <2>1, <3>1, <3>2, <3>3 DEF Event
  <2>3. \A e \in events' : e \in events \/ e \in StoredBy(s)
    BY <1>5
  <2>4. /\ runs' \in [Run -> {"absent", "kept", "marked"}]
        /\ runs'[job[s].run] # "absent"
        /\ \A run \in Run : runs[run] # "absent" => runs'[run] # "absent"
    BY <1>1, <1>5, <2>1 DEF Typed, RowsOK
  <2>5. Typed'
    BY <1>1, <1>2, <2>2, <2>3, <2>4 DEF Typed, RowsOK, PcOf
  <2>6. JobInv'
    <3>1. JobOf(s)'
      BY <1>1, <1>2 DEF JobOf, Visiting, Under, Final
    <3> QED BY <1>1, <1>3, <3>1, JobFrame DEF Inv, JobInv
  <2>7. RowsFit'
    <3>1. ASSUME NEW e \in events'
          PROVE  e.file \in FileIds /\ runs'[e.run] # "absent"
      <4>1. CASE e \in events
        BY <1>1, <2>4, <4>1 DEF Inv, RowsFit, Typed, RowsOK, Event
      <4>2. CASE e \in StoredBy(s)
        BY <2>2, <2>4, <4>2
      <4> QED BY <2>3, <4>1, <4>2
    <3> QED BY <1>1, <3>1 DEF Inv, RowsFit, FileIds
  <2>8. EraseInv'
    BY <1>1, <1>3, EraseFrame DEF Inv, EraseInv
  <2>9. KnownInv'
    <3>1. KnownOf(s)'
      BY <1>1, <1>2 DEF KnownOf, OneWriter
    <3> QED BY <1>1, <1>3, <3>1, KnownFrame DEF Inv, KnownInv
  <2>10. EventsInTheirFile'
    <3> SUFFICES ASSUME ~OneWriter, NEW e \in events'
                 PROVE  \E f \in files : f.id = e.file /\ f.path = e.path /\ f.hash = e.hash
      BY <1>1 DEF EventsInTheirFile, OneWriter
    <3>1. CASE e \in events
      BY <3>1 DEF Inv, EventsInTheirFile
    <3>2. CASE e \in StoredBy(s)
      <4>1. PICK f \in files : f.id = e.file
        BY <2>2, <3>2 DEF FileIds
      <4> QED BY <1>1, <2>2, <3>2, <4>1 DEF KnownOf
    <3> QED BY <2>3, <3>1, <3>2
  <2>11. QuietInv'
    <3>1. Quiet' => Quiet
      BY <1>1, <1>3 DEF Quiet
    <3>2. Quiet => QuietOf(s)'
      BY <1>1, <1>2 DEF QuietOf, Under, Final
    <3> QED BY <1>1, <1>3, <3>1, <3>2, QuietFrame DEF Inv, QuietInv
  <2>12. OneAtATime'
    BY <1>1, <1>2, WritingFrame DEF Inv, Writing
  <2>13. CollectInv'
    <3>1. OneWriter => \A r \in Removal : ~Writing(r)
      BY <1>1, FileStoreAssumption DEF Inv, OneAtATime, Writing
    <3> QED BY <1>1, <1>3, <3>1, FileStoreAssumption
            DEF CollectInv, CollectOf, Writing, OneWriter
  <2> QED BY <2>5, <2>6, <2>7, <2>8, <2>9, <2>10, <2>11, <2>12, <2>13 DEF Inv
<1> QED BY <1>4, <1>5 DEF CommitStore

-----------------------------------------------------------------------------
(* The steps of a removal.                                                 *)

LEMMA RemoveStep ==
  ASSUME NEW r \in Removal, Inv, Remove(r)
  PROVE  Inv'
<1>1. /\ Typed /\ EraseOf(r) /\ pc[r] = "idle"
      /\ UNCHANGED <<backend, contents, files, events, runs, job, crashes>>
  BY DEF Inv, EraseInv, Remove
<1>2. PcOf(r) /\ pc'[r] = "mark"
  BY <1>1, RemovalGoes DEF Remove, RemovalPC
<1>3. PICK T \in SUBSET Run : wipe' = [wipe EXCEPT ![r].todo = T]
  BY DEF Remove
<1>4. WipesOf(r) /\ wipe'[r].gone = wipe[r].gone /\ wipe'[r].erased = wipe[r].erased
  BY <1>1, <1>3, RemoveFacts
<1>5. EraseOf(r)'
  BY <1>1, <1>2, <1>4 DEF EraseOf
<1>6. CollectOf(r)' /\ ~Writing(r)'
  BY <1>2, FileStoreAssumption DEF CollectOf, Writing
<1> QED BY <1>1, <1>2, <1>4, <1>5, <1>6, RemovalMoves DEF Inv, Typed, RowsOK

LEMMA MarkStep ==
  ASSUME NEW r \in Removal, Inv, Mark(r)
  PROVE  Inv'
<1>1. /\ Typed /\ EraseOf(r) /\ pc[r] = "mark"
      /\ UNCHANGED <<backend, contents, files, events, job, crashes>>
  BY DEF Inv, EraseInv, Mark
<1>2. ASSUME NEW to \in {"mark", "delete", "failed"}, PcOf(r), pc'[r] = to, WipesOf(r),
             wipe'[r].gone = wipe[r].gone, wipe'[r].erased = wipe[r].erased,
             runs' \in [Run -> {"absent", "kept", "marked"}],
             \A run \in Run : runs'[run] = "absent" => runs[run] = "absent"
      PROVE  Inv'
  <2>1. EraseOf(r)'
    BY <1>1, <1>2 DEF EraseOf
  <2>2. CollectOf(r)' /\ ~Writing(r)'
    BY <1>2, FileStoreAssumption DEF CollectOf, Writing
  <2> QED BY <1>1, <1>2, <2>1, <2>2, RemovalMoves
<1>3. UNCHANGED pc => PcOf(r) /\ pc'[r] = "mark"
  BY <1>1 DEF PcOf, PcOK, Typed
<1>4. UNCHANGED wipe =>
        WipesOf(r) /\ wipe'[r].gone = wipe[r].gone /\ wipe'[r].erased = wipe[r].erased
  BY <1>1 DEF WipesOf, Typed
<1>5. UNCHANGED runs => /\ runs' \in [Run -> {"absent", "kept", "marked"}]
                        /\ \A run \in Run : runs'[run] = "absent" => runs[run] = "absent"
  BY <1>1 DEF Typed, RowsOK
<1>6. CASE wipe[r].todo = {} /\ Goto(r, "delete") /\ UNCHANGED <<runs, wipe>>
  <2>1. PcOf(r) /\ pc'[r] = "delete"
    BY <1>1, <1>6, RemovalGoes DEF RemovalPC
  <2> QED BY <1>2, <1>4, <1>5, <1>6, <2>1
<1>7. CASE Goto(r, "failed") /\ UNCHANGED <<runs, wipe>>
  <2>1. PcOf(r) /\ pc'[r] = "failed"
    BY <1>1, <1>7, RemovalGoes DEF RemovalPC, Final
  <2> QED BY <1>2, <1>4, <1>5, <1>7, <2>1
<1>8. ASSUME NEW run \in wipe[r].todo,
             wipe' = [wipe EXCEPT ![r].todo = @ \ {run}], UNCHANGED <<runs, pc>>
      PROVE  Inv'
  <2>1. WipesOf(r) /\ wipe'[r].gone = wipe[r].gone /\ wipe'[r].erased = wipe[r].erased
    BY <1>1, <1>8, SkipFacts
  <2> QED BY <1>2, <1>3, <1>5, <1>8, <2>1
<1>9. ASSUME NEW run \in wipe[r].todo, runs' = [runs EXCEPT ![run] = "marked"],
             wipe' = [wipe EXCEPT ![r] = [@ EXCEPT !.todo = wipe[r].todo \ {run},
                                                   !.runs = wipe[r].runs \cup {run}]],
             UNCHANGED pc
      PROVE  Inv'
  <2>1. WipesOf(r) /\ wipe'[r].gone = wipe[r].gone /\ wipe'[r].erased = wipe[r].erased
    BY <1>1, <1>9, MarkFacts
  <2>2. /\ runs' \in [Run -> {"absent", "kept", "marked"}]
        /\ \A x \in Run : runs'[x] = "absent" => runs[x] = "absent"
    BY <1>1, <1>9 DEF Typed, RowsOK
  <2> QED BY <1>2, <1>3, <1>9, <2>1, <2>2
<1> QED BY <1>6, <1>7, <1>8, <1>9 DEF Mark

LEMMA CollectFilesStep ==
  ASSUME NEW r \in Removal, Inv, CollectFiles(r)
  PROVE  Inv'
<1>1. /\ Typed /\ EraseOf(r) /\ pc[r] = "files" /\ MayWrite(r)
      /\ UNCHANGED <<backend, contents, files, events, runs, job, crashes>>
  BY DEF Inv, EraseInv, CollectFiles
<1>2. PcOf(r) /\ pc'[r] = "delete_files"
  BY <1>1, RemovalGoes DEF CollectFiles, RemovalPC
<1>3. /\ WipesOf(r) /\ wipe'[r].doomed = FileIds \ Referenced
      /\ wipe'[r].gone = wipe[r].gone /\ wipe'[r].erased = wipe[r].erased
  BY <1>1, CollectFilesFacts
<1>4. EraseOf(r)'
  BY <1>1, <1>2, <1>3 DEF EraseOf
<1>5. CollectOf(r)'
  BY <1>1, <1>2, <1>3 DEF CollectOf, FileIds, Referenced
<1> QED BY <1>1, <1>2, <1>3, <1>4, <1>5, RemovalMoves DEF Inv, Typed, RowsOK

LEMMA DeleteFilesStep ==
  ASSUME NEW r \in Removal, Inv, DeleteFiles(r)
  PROVE  Inv'
<1>1. /\ Typed /\ EraseOf(r) /\ CollectOf(r) /\ pc[r] = "delete_files"
      /\ UNCHANGED <<backend, contents, files, events, runs, job, crashes>>
  BY DEF Inv, EraseInv, CollectInv, DeleteFiles
<1>2. PcOf(r) /\ pc'[r] = "contents"
  BY <1>1, RemovalGoes DEF DeleteFiles, RemovalPC
<1>3. /\ WipesOf(r) /\ wipe'[r].gone = wipe[r].gone \cup (wipe[r].doomed \cap FileIds)
      /\ wipe'[r].erased = wipe[r].erased
  BY <1>1, DeleteFilesFacts
<1>4. EraseOf(r)'
  BY <1>1, <1>2, <1>3 DEF EraseOf
<1>5. CollectOf(r)'
  <2>1. wipe[r].gone = {}
    BY <1>1 DEF EraseOf
  <2> QED BY <1>1, <1>2, <1>3, <2>1 DEF CollectOf, FileIds, Referenced, OneWriter
<1>6. Writing(r)
  BY <1>1, FileStoreAssumption DEF Writing
<1> QED BY <1>1, <1>2, <1>3, <1>4, <1>5, <1>6, RemovalMoves DEF Inv, Typed, RowsOK

LEMMA CollectContentsStep ==
  ASSUME NEW r \in Removal, Inv, CollectContents(r)
  PROVE  Inv'
<1>1. /\ Typed /\ EraseOf(r) /\ CollectOf(r) /\ pc[r] = "contents"
      /\ UNCHANGED <<backend, contents, files, events, runs, job, crashes>>
  BY DEF Inv, EraseInv, CollectInv, CollectContents
<1>2. PcOf(r) /\ pc'[r] = "delete_contents"
  BY <1>1, RemovalGoes DEF CollectContents, RemovalPC
<1>3. /\ WipesOf(r) /\ wipe'[r].doomed = contents \ {f.hash : f \in Left(r)}
      /\ wipe'[r].gone = wipe[r].gone /\ wipe'[r].erased = wipe[r].erased
  BY <1>1, CollectContentsFacts
<1>4. EraseOf(r)'
  BY <1>1, <1>2, <1>3 DEF EraseOf
<1>5. CollectOf(r)'
  BY <1>1, <1>2, <1>3 DEF CollectOf, FileIds, Referenced, Left, OneWriter
<1>6. Writing(r)
  BY <1>1, FileStoreAssumption DEF Writing
<1> QED BY <1>1, <1>2, <1>3, <1>4, <1>5, <1>6, RemovalMoves DEF Inv, Typed, RowsOK

LEMMA DeleteContentsStep ==
  ASSUME NEW r \in Removal, Inv, DeleteContents(r)
  PROVE  Inv'
<1>1. /\ Typed /\ EraseOf(r) /\ CollectOf(r) /\ pc[r] = "delete_contents"
      /\ UNCHANGED <<backend, contents, files, events, runs, job, crashes>>
  BY DEF Inv, EraseInv, CollectInv, DeleteContents
<1>2. PcOf(r) /\ pc'[r] = "commit"
  BY <1>1, RemovalGoes DEF DeleteContents, RemovalPC
<1>3. /\ WipesOf(r) /\ wipe'[r].gone = wipe[r].gone \cup {f.id : f \in Cascade(r)}
      /\ wipe'[r].erased = wipe[r].doomed \cap contents
  BY <1>1, DeleteContentsFacts
<1>4. EraseOf(r)'
  BY <1>1, <1>2, <1>3 DEF EraseOf, Cascade
<1>5. CollectOf(r)'
  <2> SUFFICES ASSUME OneWriter
               PROVE  /\ wipe'[r].gone = FileIds \ Referenced
                      /\ wipe'[r].erased = contents \ {f.hash : f \in Left(r)'}
    BY <1>1, <1>2 DEF CollectOf, FileIds, Referenced, OneWriter
  <2>1. /\ wipe[r].gone = FileIds \ Referenced
        /\ wipe[r].doomed = contents \ {f.hash : f \in Left(r)}
    BY <1>1 DEF CollectOf
  <2>2. \A f \in Cascade(r) : f.id \in wipe[r].gone
    BY <2>1 DEF Cascade, Left
  <2>3. wipe'[r].gone = wipe[r].gone
    BY <1>3, <2>2
  <2> QED BY <1>1, <1>3, <2>1, <2>3 DEF Left
<1>6. Writing(r)
  BY <1>1, FileStoreAssumption DEF Writing
<1> QED BY <1>1, <1>2, <1>3, <1>4, <1>5, <1>6, RemovalMoves DEF Inv, Typed, RowsOK

(* Rows are deleted: by a removal that may write, and takes with a file    *)
(* the events that refer to it, with a content its files, and with a run   *)
(* its events.                                                             *)
LEMMA RowsGo ==
  ASSUME NEW r \in Removal, Inv, PcOf(r), WipesOf(r), pc'[r] # "idle",
         UNCHANGED <<backend, job, crashes>>,
         files' \subseteq files, contents' \subseteq contents, events' \subseteq events,
         runs' \in [Run -> {"absent", "kept", "marked"}],
         \A e \in events' : runs'[e.run] # "absent",
         \A f \in files \ files' : \A e \in events' : e.file # f.id,
         \A f \in files' : f.hash \in contents',
         OneWriter => \A q \in Removal \ {r} : ~Writing(q),
         EraseOf(r)', CollectOf(r)', ~Writing(r)' \/ MayWrite(r)
  PROVE  Inv'
<1>1. \A q \in Removal : q # r => pc'[q] = pc[q] /\ wipe'[q] = wipe[q]
  BY DEF PcOf, WipesOf
<1>2. \A t \in Store : pc'[t] = pc[t] /\ job'[t] = job[t]
  BY FileStoreAssumption DEF PcOf
<1>3. Typed'
  <2>1. IsFiniteSet(files')
    BY FS_Subset DEF Inv, Typed
  <2> QED BY <2>1 DEF Inv, Typed, RowsOK, PcOf, WipesOf
<1>4. JobInv'
  BY <1>2, JobFrame DEF Inv, JobInv
<1>5. RowsFit'
  <2>1. \A e \in events' : e.file \in FileIds'
    BY DEF Inv, RowsFit, FileIds
  <2> QED BY <2>1 DEF Inv, RowsFit
<1>6. EraseInv'
  BY <1>1, EraseFrame DEF Inv, EraseInv
<1>7. KnownInv'
  BY <1>2, KnownFrame DEF Inv, KnownInv
<1>8. EventsInTheirFile'
  BY DEF Inv, EventsInTheirFile, OneWriter
<1>9. QuietInv'
  BY DEF QuietInv, Quiet
<1>10. OneAtATime'
  BY WritingFrame DEF Inv
<1>11. CollectInv'
  <2> SUFFICES ASSUME NEW q \in Removal, q # r PROVE CollectOf(q)'
    BY DEF CollectInv
  <2> QED BY <1>1, FileStoreAssumption DEF CollectOf, Writing, OneWriter
<1> QED BY <1>3, <1>4, <1>5, <1>6, <1>7, <1>8, <1>9, <1>10, <1>11 DEF Inv

LEMMA DeleteRunStep ==
  ASSUME NEW r \in Removal, Inv, DeleteRun(r)
  PROVE  Inv'
<1>1. /\ Typed /\ EraseOf(r) /\ pc[r] = "delete"
      /\ UNCHANGED <<backend, contents, files, job, crashes>>
  BY DEF Inv, EraseInv, DeleteRun
<1>2. CASE Goto(r, "files") /\ UNCHANGED <<runs, events, wipe>>
  <2>1. PcOf(r) /\ pc'[r] = "files"
    BY <1>1, <1>2, RemovalGoes DEF RemovalPC
  <2>2. WipesOf(r)
    BY <1>1, <1>2 DEF WipesOf, Typed
  <2>3. EraseOf(r)'
    BY <1>1, <1>2, <2>1 DEF EraseOf
  <2>4. CollectOf(r)' /\ ~Writing(r)'
    BY <2>1, FileStoreAssumption DEF CollectOf, Writing
  <2> QED BY <1>1, <1>2, <2>1, <2>2, <2>3, <2>4, RemovalMoves DEF Typed, RowsOK
<1>3. ASSUME NEW run \in wipe[r].runs, MayWrite(r),
             runs' = [runs EXCEPT ![run] = "absent"],
             events' = {e \in events : e.run # run},
             wipe' = [wipe EXCEPT ![r].runs = @ \ {run}], UNCHANGED pc
      PROVE  Inv'
  <2>1. PcOf(r) /\ pc'[r] = "delete"
    BY <1>1, <1>3 DEF PcOf, PcOK, Typed
  <2>2. WipesOf(r) /\ wipe'[r].gone = wipe[r].gone /\ wipe'[r].erased = wipe[r].erased
    BY <1>1, <1>3, DeleteRunFacts
  <2>3. EraseOf(r)'
    BY <1>1, <2>1, <2>2 DEF EraseOf
  <2>4. CollectOf(r)' /\ ~Writing(r)'
    BY <2>1, FileStoreAssumption DEF CollectOf, Writing
  <2>5. /\ runs' \in [Run -> {"absent", "kept", "marked"}]
        /\ \A e \in events' : runs'[e.run] # "absent"
    BY <1>1, <1>3 DEF Typed, RowsOK, Event, Inv, RowsFit
  <2>6. \A f \in files' : f.hash \in contents'
    BY <1>1 DEF Inv, RowsFit
  <2>7. OneWriter => \A q \in Removal \ {r} : ~Writing(q)
    BY <1>3 DEF MayWrite
  <2> QED BY <1>1, <1>3, <2>1, <2>2, <2>3, <2>4, <2>5, <2>6, <2>7, RowsGo
<1> QED BY <1>2, <1>3 DEF DeleteRun

LEMMA CommitRemovalStep ==
  ASSUME NEW r \in Removal, Inv, CommitRemoval(r)
  PROVE  Inv'
<1>1. /\ Typed /\ EraseOf(r) /\ pc[r] = "commit"
      /\ files' = {f \in files : f.id \notin wipe[r].gone}
      /\ contents' = contents \ wipe[r].erased
      /\ events' = {e \in events : e.file \notin wipe[r].gone}
      /\ UNCHANGED <<backend, runs, job, crashes>>
  BY DEF Inv, EraseInv, CommitRemoval
<1>2. PcOf(r) /\ pc'[r] = "done"
  BY <1>1, RemovalGoes DEF CommitRemoval, RemovalPC, Final
<1>3. WipesOf(r) /\ wipe'[r] = NoWipe
  <2>1. NoWipe \in Wipe
    BY DEF NoWipe, Wipe
  <2>2. wipe' = [wipe EXCEPT ![r] = NoWipe]
    BY DEF CommitRemoval
  <2> QED BY <1>1, <2>1, <2>2 DEF WipesOf, Typed
<1>4. EraseOf(r)'
  BY <1>3 DEF EraseOf, NoWipe
<1>5. CollectOf(r)' /\ ~Writing(r)'
  BY <1>2, FileStoreAssumption DEF CollectOf, Writing
<1>6. /\ runs' \in [Run -> {"absent", "kept", "marked"}]
      /\ \A e \in events' : runs'[e.run] # "absent"
  BY <1>1 DEF Typed, RowsOK, Inv, RowsFit
<1>7. \A f \in files' : f.hash \in contents'
  BY <1>1 DEF Inv, RowsFit, EraseOf
<1>8. OneWriter => \A q \in Removal \ {r} : ~Writing(q)
  BY <1>1, FileStoreAssumption DEF Inv, OneAtATime, Writing
<1> QED BY <1>1, <1>2, <1>3, <1>4, <1>5, <1>6, <1>7, <1>8, RowsGo

-----------------------------------------------------------------------------
(* The initial states, a kill of the server, and the specification.        *)

LEMMA CrashStep ==
  ASSUME Inv, Crash
  PROVE  Inv'
<1>1. /\ Typed /\ crashes' = crashes + 1
      /\ UNCHANGED <<backend, contents, files, events, runs, job>>
  BY DEF Inv, Crash
<1>2. /\ \A c \in Store \cup Removal :
           pc'[c] = IF pc[c] \in {"idle", "send"} \cup Final THEN pc[c] ELSE "failed"
      /\ pc' \in [Store \cup Removal -> StorePC \cup RemovalPC]
  BY <1>1 DEF Crash, Typed, PcOK, StorePC, RemovalPC, Final
<1>3. PcOK'
  BY <1>1, <1>2 DEF PcOK, Typed, StorePC, RemovalPC, Final
<1>4. /\ wipe' \in [Removal -> Wipe]
      /\ \A r \in Removal : wipe'[r] = IF pc[r] = "idle" THEN wipe[r] ELSE NoWipe
  <2>1. NoWipe \in Wipe
    BY DEF NoWipe, Wipe
  <2> QED BY <1>1, <2>1 DEF Crash, Typed
<1>5. Typed'
  BY <1>1, <1>3, <1>4 DEF Typed, RowsOK
<1>6. JobInv'
  <2> SUFFICES ASSUME NEW s \in Store PROVE JobOf(s)'
    BY DEF JobInv
  <2>1. JobOf(s) /\ job'[s] = job[s]
    BY <1>1 DEF Inv, JobInv
  <2>2. CASE pc'[s] = pc[s]
    BY <2>1, <2>2, JobFrame
  <2>3. CASE pc'[s] = "failed"
    BY <2>1, <2>3 DEF JobOf, Visiting, Under, Final
  <2> QED BY <1>2, <2>2, <2>3
<1>7. RowsFit'
  BY <1>1 DEF Inv, RowsFit, FileIds
<1>8. EraseInv'
  <2> SUFFICES ASSUME NEW r \in Removal PROVE EraseOf(r)'
    BY DEF EraseInv
  <2>1. CASE pc[r] = "idle"
    BY <1>1, <1>2, <1>4, <2>1, EraseFrame DEF Inv, EraseInv
  <2>2. CASE pc[r] # "idle"
    BY <1>4, <2>2 DEF EraseOf, NoWipe
  <2> QED BY <2>1, <2>2
<1>9. KnownInv'
  <2> SUFFICES ASSUME NEW s \in Store PROVE KnownOf(s)'
    BY DEF KnownInv
  <2>1. pc'[s] = "reload" => pc[s] = "reload"
    BY <1>2
  <2> QED BY <1>1, <2>1 DEF Inv, KnownInv, KnownOf, OneWriter, PathAt, HashAt
<1>10. EventsInTheirFile'
  BY <1>1 DEF Inv, EventsInTheirFile, OneWriter
<1>11. QuietInv'
  <2>1. crashes' # 0
    BY <1>1 DEF Typed
  <2> QED BY <2>1 DEF QuietInv, Quiet
<1>12. OneAtATime'
  BY <1>2 DEF OneAtATime, Writing, Final
<1>13. CollectInv'
  BY <1>2 DEF CollectInv, CollectOf, Final
<1> QED BY <1>5, <1>6, <1>7, <1>8, <1>9, <1>10, <1>11, <1>12, <1>13 DEF Inv

LEMMA InitInv == Init => Inv
<1> SUFFICES ASSUME Init PROVE Inv
  OBVIOUS
<1> USE FileStoreAssumption
<1>1. /\ pc \in [Store \cup Removal -> StorePC \cup RemovalPC]
      /\ \A c \in Store \cup Removal : pc[c] = "idle"
  BY DEF Init, StorePC
<1>2. \A s \in Store : job[s] = NoJob
  BY DEF Init
<1>3. \A r \in Removal : wipe[r] = NoWipe
  BY DEF Init
<1>4. DOMAIN Nothing = {} /\ IsFiniteSet({})
  BY FS_EmptySet DEF Nothing
<1>5. Typed
  <2>1. NoJob \in FullJob
    <3>1. Nothing \in [{} -> Hash] /\ Nothing \in [{} -> Nat]
      BY DEF Nothing
    <3>2. Nothing \in Tree /\ Nothing \in IdMap
      BY <3>1 DEF Tree, IdMap
    <3> HIDE DEF Nothing
    <3> QED BY <3>2 DEF NoJob, FullJob
  <2>2. NoWipe \in Wipe
    BY DEF NoWipe, Wipe
  <2>3. job \in [Store -> FullJob] /\ wipe \in [Removal -> Wipe]
    BY <2>1, <2>2 DEF Init
  <2>4. PcOK
    BY <1>1 DEF PcOK, StorePC, RemovalPC
  <2>5. RowsOK
    BY DEF Init, RowsOK, File, Event
  <2>6. IsFiniteSet(files)
    BY FS_EmptySet, FS_Singleton DEF Init
  <2>7. backend \in Backend /\ crashes \in Nat
    BY DEF Init
  <2> QED BY <2>3, <2>4, <2>5, <2>6, <2>7 DEF Typed
<1>6. JobInv
  <2> SUFFICES ASSUME NEW s \in Store PROVE JobOf(s)
    BY DEF JobInv
  <2>1. pc[s] = "idle" /\ job[s] = NoJob /\ job[s].ids = Nothing
    BY <1>1, <1>2 DEF NoJob
  <2> QED BY <1>4, <2>1 DEF JobOf, Visiting, Under, Final
<1>7. RowsFit
  <2>1. CASE OldRun = {}
    BY <2>1 DEF Init, RowsFit, FileIds
  <2>2. CASE OldRun # {}
    <3> DEFINE old == [id |-> 1, path |-> OldPath, hash |-> OldHash]
    <3>1. files = {old} /\ contents = {OldHash}
      BY <2>2 DEF Init
    <3>2. \A e \in events : e.file = 1 /\ runs[e.run] = "kept"
      BY DEF Init
    <3> QED BY <3>1, <3>2 DEF RowsFit, FileIds
  <2> QED BY <2>1, <2>2
<1>8. EraseInv
  BY <1>1, <1>3 DEF EraseInv, EraseOf, NoWipe
<1>9. KnownInv
  <2> SUFFICES ASSUME NEW s \in Store PROVE KnownOf(s)
    BY DEF KnownInv
  <2>1. job[s].ids = Nothing /\ pc[s] = "idle"
    BY <1>1, <1>2 DEF NoJob
  <2> QED BY <1>4, <2>1 DEF KnownOf
<1>10. EventsInTheirFile
  BY DEF Init, EventsInTheirFile
<1>11. QuietInv
  BY <1>1 DEF QuietInv, QuietOf, Under
<1>12. OneAtATime
  BY <1>1 DEF OneAtATime, Writing
<1>13. CollectInv
  BY <1>1 DEF CollectInv, CollectOf
<1> QED BY <1>5, <1>6, <1>7, <1>8, <1>9, <1>10, <1>11, <1>12, <1>13 DEF Inv

LEMMA Stutters ==
  ASSUME Inv, UNCHANGED vars
  PROVE  Inv'
<1>1. /\ UNCHANGED <<backend, contents, files, events, runs, pc, job, wipe, crashes>>
  BY DEF vars
<1>2. Typed' /\ RowsFit' /\ EventsInTheirFile' /\ OneAtATime'
  BY <1>1 DEF Inv, Typed, RowsOK, PcOK, RowsFit, FileIds, EventsInTheirFile,
              OneWriter, OneAtATime, Writing
<1>3. JobInv' /\ KnownInv'
  BY <1>1, JobFrame, KnownFrame DEF Inv, JobInv, KnownInv
<1>4. EraseInv' /\ CollectInv'
  BY <1>1, EraseFrame, CollectFrame DEF Inv, EraseInv, CollectInv
<1>5. QuietInv'
  BY <1>1, QuietFrame DEF Inv, QuietInv, Quiet
<1> QED BY <1>2, <1>3, <1>4, <1>5 DEF Inv

LEMMA NextInv == Inv /\ [Next]_vars => Inv'
<1> SUFFICES ASSUME Inv, [Next]_vars PROVE Inv'
  OBVIOUS
<1>1. ASSUME NEW s \in Store, Ask(s) \/ ProceedStore(s) PROVE Inv'
  BY <1>1, AskStep, SendStep, NextFileStep, QueryContentStep, InsertContentStep,
     QueryFileStep, InsertFileStep, RequeryStep, ReloadStep, BeginStep,
     CommitStoreStep DEF ProceedStore
<1>2. ASSUME NEW r \in Removal, Remove(r) \/ ProceedRemoval(r) PROVE Inv'
  BY <1>2, RemoveStep, MarkStep, DeleteRunStep, CollectFilesStep, DeleteFilesStep,
     CollectContentsStep, DeleteContentsStep, CommitRemovalStep DEF ProceedRemoval
<1>3. CASE Crash
  BY <1>3, CrashStep
<1>4. CASE UNCHANGED vars
  BY <1>4, Stutters
<1> QED BY <1>1, <1>2, <1>3, <1>4 DEF Next

LEMMA Invariance == Spec => []Inv
  BY InitInv, NextInv, PTL DEF Spec

-----------------------------------------------------------------------------
(* The theorems.                                                           *)

(* Whatever the interleaving of stores, removals and kills, on both kinds  *)
(* of database, no event refers to a file that is gone or to a run that is *)
(* not there, no file to a content that is gone, no file is stored twice;  *)
(* and on PostgreSQL every event refers to the very file and content its   *)
(* report was found in.                                                    *)
THEOREM RowsAgreeCorrect == Spec => []RowsAgree
<1>1. Inv => RowsAgree
  BY TypedIsTypeOK DEF Inv, RowsAgree
<1> QED BY <1>1, Invariance, PTL

(* A store never fails because of other stores, whatever files they share: *)
(* only after a removal or a kill.                                         *)
THEOREM FailsOnlyIfRemovedCorrect == Spec => []FailsOnlyIfRemoved
<1>1. Inv => FailsOnlyIfRemoved
  <2> SUFFICES ASSUME Inv, NEW s \in Store, pc[s] = "failed", crashes = 0,
                      \A r \in Removal : pc[r] = "idle"
               PROVE  FALSE
    BY DEF FailsOnlyIfRemoved, Inv, Typed
  <2> QED BY DEF Inv, QuietInv, Quiet, QuietOf
<1> QED BY <1>1, Invariance, PTL

(* What a step may delete: StoredKept without its box.                     *)
Kept ==
  OneWriter => \A e \in events \ events' :
    \/ \E s \in Store : /\ pc[s] = "commit" /\ pc'[s] = "done"
                        /\ job[s].run = e.run /\ e.path \in DOMAIN job[s].tree
    \/ runs'[e.run] = "absent"

LEMMA StepKeeps ==
  ASSUME Inv, Next
  PROVE  Kept
<1>1. SUFFICES ASSUME events' # events, OneWriter PROVE Kept
  BY DEF Kept
<1>2. CASE \E s \in Store : CommitStore(s)
  <2>1. PICK s \in Store : CommitStore(s)
    BY <1>2
  <2>2. \A e \in events \ events' : e.run = job[s].run /\ e.path \in DOMAIN job[s].tree
    BY <2>1 DEF CommitStore, Replaced
  <2>3. pc[s] = "commit" /\ pc'[s] = "done"
    BY <2>1 DEF CommitStore, Goto, Inv, Typed, PcOK
  <2> QED BY <2>2, <2>3 DEF Kept
<1>3. CASE \E r \in Removal : DeleteRun(r)
  <2>1. PICK r \in Removal : DeleteRun(r)
    BY <1>3
  <2>2. PICK run \in wipe[r].runs : /\ runs' = [runs EXCEPT ![run] = "absent"]
                                    /\ events' = {e \in events : e.run # run}
    BY <1>1, <2>1 DEF DeleteRun
  <2>3. run \in Run /\ runs'[run] = "absent"
    BY <2>2 DEF Inv, Typed, RowsOK, Wipe
  <2> QED BY <2>2, <2>3 DEF Kept
<1>4. CASE \E r \in Removal : CommitRemoval(r)
  <2>1. PICK r \in Removal : CommitRemoval(r)
    BY <1>4
  <2>2. wipe[r].gone = FileIds \ Referenced
    BY <1>1, <2>1 DEF CommitRemoval, Inv, CollectInv, CollectOf
  <2>3. events' = events
    BY <2>1, <2>2 DEF CommitRemoval, Referenced
  <2> QED BY <1>1, <2>3
<1>5. \/ \E s \in Store : CommitStore(s)
      \/ \E r \in Removal : DeleteRun(r)
      \/ \E r \in Removal : CommitRemoval(r)
  <2>1. ASSUME NEW s \in Store, Ask(s) \/ ProceedStore(s) PROVE CommitStore(s)
    BY <1>1, <2>1 DEF ProceedStore, Ask, Send, NextFile, QueryContent, InsertContent,
                      QueryFile, InsertFile, Requery, Reload, Begin
  <2>2. ASSUME NEW r \in Removal, Remove(r) \/ ProceedRemoval(r)
        PROVE  DeleteRun(r) \/ CommitRemoval(r)
    BY <1>1, <2>2 DEF ProceedRemoval, Remove, Mark, CollectFiles, DeleteFiles,
                      CollectContents, DeleteContents
  <2>3. ~Crash
    BY <1>1 DEF Crash
  <2> QED BY <2>1, <2>2, <2>3 DEF Next
<1> QED BY <1>2, <1>3, <1>4, <1>5

(* What a removal leaves behind: CollectsAll without its box.              *)
Collected ==
  \A r \in Removal : OneWriter /\ pc[r] = "commit" /\ pc'[r] = "done" =>
    /\ {f.id : f \in files'} \subseteq {e.file : e \in events'}
    /\ contents' \subseteq {f.hash : f \in files'}

LEMMA StepCollects ==
  ASSUME Inv, Next
  PROVE  Collected
<1> SUFFICES ASSUME NEW r \in Removal, OneWriter, pc[r] = "commit", pc'[r] = "done"
             PROVE  /\ {f.id : f \in files'} \subseteq {e.file : e \in events'}
                    /\ contents' \subseteq {f.hash : f \in files'}
  BY DEF Collected
<1>1. CommitRemoval(r)
  <2>1. r \notin Store /\ pc \in [Store \cup Removal -> StorePC \cup RemovalPC]
    BY FileStoreAssumption DEF Inv, Typed, PcOK
  <2>2. ~Crash
    BY <2>1 DEF Crash, Final
  <2>3. ASSUME NEW s \in Store PROVE ~Ask(s) /\ ~ProceedStore(s)
    <3>1. \A to : Goto(s, to) => pc'[r] = pc[r]
      BY <2>1 DEF Goto
    <3> QED BY <3>1 DEF ProceedStore, Ask, Send, NextFile, QueryContent, InsertContent,
                        QueryFile, InsertFile, Requery, Reload, Begin, CommitStore, TakeId
  <2>4. ASSUME NEW q \in Removal, q # r PROVE ~Remove(q) /\ ~ProceedRemoval(q)
    <3>1. \A to : Goto(q, to) => pc'[r] = pc[r]
      BY <2>1, <2>4 DEF Goto
    <3> QED BY <3>1 DEF ProceedRemoval, Remove, Mark, DeleteRun, CollectFiles,
                        DeleteFiles, CollectContents, DeleteContents, CommitRemoval
  <2>5. Remove(r) \/ ProceedRemoval(r)
    BY <2>2, <2>3, <2>4 DEF Next
  <2> QED BY <2>5 DEF ProceedRemoval, Remove, Mark, DeleteRun, CollectFiles,
                      DeleteFiles, CollectContents, DeleteContents
<1>2. /\ wipe[r].gone = FileIds \ Referenced
      /\ wipe[r].erased = contents \ {f.hash : f \in Left(r)}
  BY DEF Inv, CollectInv, CollectOf
<1>3. files' = Left(r) /\ events' = events /\ contents' = contents \ wipe[r].erased
  BY <1>1, <1>2 DEF CommitRemoval, Left, Referenced
<1> QED BY <1>2, <1>3 DEF Left, FileIds, Referenced

(* With one writer at a time, stored results are lost only with their run  *)
(* or to a store that finds the report again, and a removal leaves neither *)
(* files nor contents behind that no report needs.                         *)
THEOREM RemovesJustThatCorrect == Spec => RemovesJustThat
<1>1. Inv /\ [Next]_vars => [Kept]_vars /\ [Collected]_vars
  BY StepKeeps, StepCollects
<1>2. [][Kept]_vars => StoredKept
  BY DEF StoredKept, Kept
<1>3. [][Collected]_vars => CollectsAll
  BY DEF CollectsAll, Collected
<1>4. Spec => [][Kept]_vars /\ [][Collected]_vars
  BY <1>1, Invariance, PTL DEF Spec
<1> QED BY <1>2, <1>3, <1>4 DEF RemovesJustThat
=============================================================================
