----------------------------- MODULE ReviewProofs -----------------------------
(***************************************************************************)
(* Theorems about Review for any numbers of users, runs, bugs, requests    *)
(* and questions: what reviews, comments, removals and listings guarantee  *)
(* among each other, and which answers of the queries agree.               *)
(***************************************************************************)
EXTENDS Review, FiniteSetTheorems, TLAPS

Occurrences == Run \X Occurrence

Asks == [state : {"review"}, hash : Hash, asked : ReviewRow,
         read : {Idle} \cup ReviewRow]
Edits == [state : {"update", "remove"}, id : Nat, user : User,
          message : Message, read : CommentRow]

Questions == {q \in Asked : q.runs # {} /\ ~q.filter.unique}
Listings == [state : {"listing", "listed"}, question : Questions, offset : Nat,
             got : SUBSET Occurrences, count : Nat, dirty : BOOLEAN]
Dates == UNION {[ids -> Nat] : ids \in SUBSET Run}
Deletions == [state : {"deleting"}, what : {"before", "after"}, cutoff : Nat,
              ids : SUBSET Run, dates : Dates]
Refusals == [state : {"refused"}]

(* A table: some of the keys have a row.                                   *)
IsTable(table, keys, rows) ==
  /\ table \in [DOMAIN table -> rows]
  /\ DOMAIN table \subseteq keys
  /\ IsFiniteSet(DOMAIN table)

TypeInv ==
  /\ bound \in Budget
  /\ clock \in Nat /\ born \in Nat
  /\ runs \subseteq Run
  /\ IsTable(reports, runs \X Occurrence, Row)
  /\ reviews \in [DOMAIN reviews -> ReviewRow] /\ DOMAIN reviews \subseteq Hash
  /\ history \subseteq [run : runs, time : 1..clock, tag : Tag \cup {None}]
  /\ IsFiniteSet(history)
  /\ IsTable(comments, Nat, CommentRow)
  /\ requests \in [Request -> {Idle} \cup Asks \cup Edits]
  /\ client \in {Idle} \cup Listings \cup Deletions \cup Refusals

(* A tag is at one history of a run.                                       *)
TagsApart ==
  \A h, k \in history : h.run = k.run /\ h.tag # None /\ h.tag = k.tag => h = k

(* A review is never removed, so one that was read is still there.         *)
AskOf(q) ==
  requests[q].state = "review" /\ requests[q].read # Idle =>
    requests[q].hash \in DOMAIN reviews

BornBefore == \A id \in DOMAIN comments : comments[id].born <= born

(* The id of a removed comment is given again to later comments only, and  *)
(* the author of a comment stays.                                          *)
EditOf(q) ==
  requests[q].state \in {"update", "remove"} =>
    /\ requests[q].read.author \in {"Anonymous", requests[q].user}
    /\ requests[q].read.born <= born
    /\ requests[q].id \in DOMAIN comments =>
         LET comment == comments[requests[q].id]
         IN  \/ requests[q].read.born < comment.born
             \/ /\ requests[q].read.born = comment.born
                /\ requests[q].read.author = comment.author

SeverityAt(row) == SeverityOf[HashOf(row)]

Distinct(rows) == \A r, s \in rows : SeverityAt(r) = SeverityAt(s) => r = s

(* The place of a row, if no other has its severity.                       *)
Before(rows, row) == {t \in rows : SeverityAt(t) > SeverityAt(row)}
Rank(rows, row) == Cardinality(Before(rows, row))

Smaller(m, n) == IF m <= n THEN m ELSE n

(* What a listing has after some pages of the same answer.                 *)
ListingOf ==
  client.state \in {"listing", "listed"} /\ ~client.dirty =>
    LET rows == Results(client.question)
    IN  /\ client.count = Smaller(client.offset, Cardinality(rows))
        /\ client.state = "listed" => Cardinality(rows) <= client.offset
        /\ Distinct(rows) =>
             client.got = {row \in rows : Rank(rows, row) < client.offset}

(* The runs to remove were on the right side when they were listed.        *)
DeletionOf ==
  client.state = "deleting" =>
    \A run \in client.ids :
      /\ run \in DOMAIN client.dates
      /\ client.what = "before" => client.dates[run] < client.cutoff
      /\ client.what = "after" => client.dates[run] > client.cutoff

Inv ==
  /\ TypeInv
  /\ TagsApart
  /\ BornBefore
  /\ \A q \in Request : AskOf(q) /\ EditOf(q)
  /\ ListingOf
  /\ DeletionOf
-----------------------------------------------------------------------------
(* Values and helpers.                                                     *)

LEMMA States ==
  /\ Idle.state = "idle" /\ \A r \in ReviewRow : r # Idle
  /\ \A a \in Asks : a # Idle /\ a.state = "review"
  /\ \A e \in Edits : e # Idle /\ e.state \in {"update", "remove"}
  /\ \A c \in Listings : c # Idle /\ c.state \in {"listing", "listed"}
  /\ \A c \in Deletions : c # Idle /\ c.state = "deleting"
  /\ \A c \in Refusals : c # Idle /\ c.state = "refused"
  BY DEF Idle, Asks, Edits, Listings, Deletions, Refusals, ReviewRow

LEMMA SpendTyped ==
  ASSUME bound \in Budget, NEW what \in {"store", "review", "comment", "client"},
         Spend(what)
  PROVE  bound' \in Budget
<1>1. CASE what = "store"
  BY <1>1 DEF Spend, Budget
<1>2. CASE what = "review"
  BY <1>2 DEF Spend, Budget
<1>3. CASE what = "comment"
  BY <1>3 DEF Spend, Budget
<1>4. CASE what = "client"
  BY <1>4 DEF Spend, Budget
<1> QED BY <1>1, <1>2, <1>3, <1>4

LEMMA RestrictTyped ==
  ASSUME NEW table, NEW keys, NEW rows, NEW S \in SUBSET DOMAIN table,
         IsTable(table, keys, rows)
  PROVE  /\ DOMAIN Restrict(table, S) = S
         /\ \A k \in S : Restrict(table, S)[k] = table[k]
         /\ IsTable(Restrict(table, S), keys, rows)
<1>1. IsFiniteSet(S)
  BY FS_Subset DEF IsTable
<1> QED BY <1>1 DEF Restrict, IsTable

(* A finite set of numbers has a largest one.                              *)
LEMMA MaxExists ==
  ASSUME NEW S \in SUBSET Nat, IsFiniteSet(S), S # {}
  PROVE  /\ Max(S) \in S
         /\ \A y \in S : Max(S) >= y
<1> DEFINE Bad == {U \in FiniteSubsetsOf(S) : U # {} /\ ~ \E x \in U : \A y \in U : x >= y}
<1>1. Bad = {}
  <2> SUFFICES ASSUME Bad # {} PROVE FALSE
    OBVIOUS
  <2>1. /\ IsWellFoundedOn(StrictSubsetOrdering(S), FiniteSubsetsOf(S))
        /\ Bad \subseteq FiniteSubsetsOf(S)
    BY FS_StrictSubsetOrderingWellFounded
  <2> HIDE DEF Bad
  <2>2. PICK U \in Bad : \A V \in Bad : <<V, U>> \notin StrictSubsetOrdering(S)
    BY <2>1, WFMin
  <2> USE DEF Bad
  <2>3. PICK x \in U : TRUE
    OBVIOUS
  <2>4. U \subseteq S /\ IsFiniteSet(U)
    BY DEF FiniteSubsetsOf
  <2>5. U \ {x} \in FiniteSubsetsOf(S)
    BY <2>4, FS_RemoveElement DEF FiniteSubsetsOf
  <2>6. <<U \ {x}, U>> \in StrictSubsetOrdering(S)
    BY <2>3, <2>4 DEF StrictSubsetOrdering
  <2>7. U \ {x} \notin Bad
    BY <2>2, <2>6
  <2>8. CASE U \ {x} = {}
    BY <2>3, <2>4, <2>8
  <2>9. CASE \E m \in U \ {x} : \A y \in U \ {x} : m >= y
    <3>1. PICK m \in U \ {x} : \A y \in U \ {x} : m >= y
      BY <2>9
    <3>2. m \in Nat /\ x \in Nat
      BY <2>3, <2>4
    <3>3. \A y \in U : IF m >= x THEN m >= y ELSE x >= y
      BY <3>1, <3>2, <2>4
    <3> QED BY <3>1, <3>2, <3>3, <2>3
  <2> QED BY <2>5, <2>7, <2>8, <2>9
<1>2. S \in FiniteSubsetsOf(S)
  BY DEF FiniteSubsetsOf
<1>3. \E x \in S : \A y \in S : x >= y
  BY <1>1, <1>2
<1> QED BY <1>3 DEF Max

-----------------------------------------------------------------------------
(* What a step leaves alone.                                               *)

LEMMA ResultsFrame ==
  ASSUME UNCHANGED tables, NEW q
  PROVE  Results(q)' = Results(q)
<1>1. runs' = runs /\ reports' = reports /\ reviews' = reviews
  BY DEF tables
<1>2. RunIdsToQuery(q)' = RunIdsToQuery(q)
  BY <1>1 DEF RunIdsToQuery
<1>3. \A ids : HashesForRuns(ids)' = HashesForRuns(ids)
  BY <1>1 DEF HashesForRuns
<1>4. \A base : Diff(base, q.cmp)' = Diff(base, q.cmp)
  BY <1>3 DEF Diff
<1>5. \A row : Passes(row, q.filter, "nothing")' = Passes(row, q.filter, "nothing")
  BY <1>1 DEF Passes, InReview, ReviewOf, Status, DateOf
<1>6. Rows(q, "nothing")' = Rows(q, "nothing")
  BY <1>1, <1>2, <1>4, <1>5 DEF Rows
<1> QED BY <1>6 DEF Results

(* A step that changes no table leaves a listing right.                    *)
LEMMA ListingFrame ==
  ASSUME UNCHANGED <<tables, client>>, ListingOf
  PROVE  ListingOf'
<1>1. Results(client.question)' = Results(client.question)
  BY ResultsFrame
<1> QED BY <1>1 DEF ListingOf, Rank, Before, Distinct, Smaller

LEMMA SeesFrame ==
  ASSUME client \in {Idle} \cup Listings \cup Deletions \cup Refusals,
         ClientSees, ListingOf, DeletionOf
  PROVE  /\ client' \in {Idle} \cup Listings \cup Deletions \cup Refusals
         /\ client'.state = client.state
         /\ ListingOf' /\ DeletionOf'
<1>1. CASE client \in Listings
  <2>1. client' \in Listings /\ client'.dirty /\ client'.state = client.state
    BY <1>1, States DEF ClientSees, Listings
  <2> QED BY <2>1, States DEF ListingOf, DeletionOf
<1>2. CASE client \notin Listings
  <2>1. client' = client /\ client.state \notin {"listing", "listed"}
    BY <1>2, States DEF ClientSees
  <2> QED BY <2>1 DEF ListingOf, DeletionOf
<1> QED BY <1>1, <1>2

LEMMA AsksFrame ==
  ASSUME requests' = requests, DOMAIN reviews \subseteq DOMAIN reviews',
         NEW q \in Request, AskOf(q)
  PROVE  AskOf(q)'
  BY DEF AskOf

(* Comments only go away, or keep their author.                            *)
LEMMA EditsFrame ==
  ASSUME NEW q \in Request, requests'[q] = requests[q], born' = born, EditOf(q),
         DOMAIN comments' \subseteq DOMAIN comments,
         \A id \in DOMAIN comments' : /\ comments'[id].author = comments[id].author
                                      /\ comments'[id].born = comments[id].born
  PROVE  EditOf(q)'
  BY DEF EditOf

LEMMA IdleFrame ==
  ASSUME NEW q \in Request, requests'[q] = Idle
  PROVE  AskOf(q)' /\ EditOf(q)'
  BY States DEF AskOf, EditOf

LEMMA EndTyped ==
  ASSUME NEW q \in Request, End(q),
         requests \in [Request -> {Idle} \cup Asks \cup Edits]
  PROVE  /\ requests' \in [Request -> {Idle} \cup Asks \cup Edits]
         /\ requests'[q] = Idle
         /\ \A p \in Request \ {q} : requests'[p] = requests[p]
  BY DEF End

LEMMA InvInit == ReviewAssumption /\ Init => Inv
<1> SUFFICES ASSUME ReviewAssumption, Init PROVE Inv
  OBVIOUS
<1>1. IsFiniteSet({})
  BY FS_EmptySet
<1>2. TypeInv
  BY <1>1 DEF TypeInv, Init, ReviewAssumption, IsTable
<1> QED BY <1>2, States DEF Inv, Init, TagsApart, BornBefore, AskOf, EditOf, ListingOf, DeletionOf
-----------------------------------------------------------------------------
(* Stores and removals of runs.                                            *)

LEMMA StoredTyped ==
  ASSUME clock \in Nat, IsTable(reports, runs \X Occurrence, Row), NEW row, NEW found
  PROVE  Stored(row, found) \in [status : DetectionStatus, detected : Nat,
                                 fixed : Nat \cup {None}]
<1> DEFINE old == IF row \in DOMAIN reports THEN reports[row]
                  ELSE [status |-> "absent", detected |-> clock + 1, fixed |-> None]
<1>1. old \in [status : DetectionStatus \cup {"absent"}, detected : Nat,
               fixed : Nat \cup {None}]
  BY DEF IsTable, Row
<1>2. Lifecycle!Found(old.status, FALSE) \in DetectionStatus
  BY <1>1 DEF Lifecycle!Found, DetectionStatus
<1>3. Stored(row, found) =
        IF row[2] \in found
        THEN [status |-> Lifecycle!Found(old.status, FALSE), detected |-> old.detected,
              fixed |-> None]
        ELSE [status |-> "resolved", detected |-> old.detected, fixed |-> clock + 1]
  BY DEF Stored
<1> HIDE DEF old
<1>4. old.detected \in Nat /\ clock + 1 \in Nat
  BY <1>1
<1>5. CASE row[2] \in found
  <2>1. PICK s \in DetectionStatus, d \in Nat, f \in Nat \cup {None} :
          Stored(row, found) = [status |-> s, detected |-> d, fixed |-> f]
    BY <1>2, <1>3, <1>4, <1>5
  <2> QED BY <2>1
<1>6. CASE row[2] \notin found
  <2>1. Stored(row, found) = [status |-> "resolved", detected |-> old.detected,
                              fixed |-> clock + 1]
    BY <1>3, <1>6
  <2> QED BY <2>1, <1>4 DEF DetectionStatus
<1> QED BY <1>5, <1>6

LEMMA TaggedTyped ==
  ASSUME clock \in Nat, clock' = clock + 1, NEW run \in Run, NEW tag \in Tag \cup {None},
         runs' = runs \cup {run}, history' = Tagged(run, tag),
         history \subseteq [run : runs, time : 1..clock, tag : Tag \cup {None}],
         IsFiniteSet(history), TagsApart
  PROVE  /\ history' \subseteq [run : runs', time : 1..clock', tag : Tag \cup {None}]
         /\ IsFiniteSet(history')
         /\ TagsApart'
<1> DEFINE Moved(h) == IF h.run = run /\ tag # None /\ h.tag = tag
                       THEN [h EXCEPT !.tag = None] ELSE h
<1> DEFINE new == [run |-> run, time |-> clock + 1, tag |-> tag]
<1>1. history' = {Moved(h) : h \in history} \cup {new}
  BY DEF Tagged
<1>2. \A h \in history : /\ Moved(h) \in [run : runs', time : 1..clock', tag : Tag \cup {None}]
                         /\ Moved(h).run = h.run
                         /\ Moved(h).tag # None => Moved(h) = h /\ (h.run # run \/ h.tag # tag)
  OBVIOUS
<1>3. new \in [run : runs', time : 1..clock', tag : Tag \cup {None}]
  OBVIOUS
<1>4. IsFiniteSet({Moved(h) : h \in history})
  <2> DEFINE fn == [h \in history |-> Moved(h)]
  <2>1. fn \in Surjection(history, {Moved(h) : h \in history})
    BY DEF Surjection
  <2> QED BY <2>1, FS_Surjection
<1> HIDE DEF Moved, new
<1>5. \A h \in history' : \/ h = new
                           \/ \E k \in history : h = Moved(k)
  BY <1>1
<1>6. new.run = run /\ new.tag = tag
  BY DEF new
<1>7. TagsApart'
  <2> SUFFICES ASSUME NEW h \in history', NEW k \in history',
                      h.run = k.run, h.tag # None, h.tag = k.tag
               PROVE  h = k
    BY DEF TagsApart
  <2>1. CASE h = new /\ k = new
    BY <2>1
  <2>2. ASSUME NEW a \in history, h = Moved(a), k = new \/ k \in {Moved(b) : b \in history}
        PROVE  h = k
    BY <1>2, <1>6, <2>2 DEF TagsApart
  <2>3. ASSUME NEW b \in history, k = Moved(b), h = new
        PROVE  h = k
    BY <1>2, <1>6, <2>3
  <2> QED BY <1>1, <2>1, <2>2, <2>3
<1>8. IsFiniteSet(history')
  <2>1. PICK moved : history' = moved \cup {new} /\ IsFiniteSet(moved)
    BY <1>1, <1>4
  <2> QED BY <2>1, FS_AddElement
<1> QED BY <1>1, <1>2, <1>3, <1>7, <1>8

LEMMA StoreInv ==
  ASSUME Inv, NEW run \in Run, NEW found \in bound.found, NEW tag \in bound.tags,
         NEW user \in bound.users, NEW silenced \in SUBSET {o.hash : o \in found},
         ReviewAssumption, Store(run, found, tag, silenced, user)
  PROVE  Inv'
<1>a. TypeInv /\ TagsApart /\ ListingOf /\ DeletionOf /\ BornBefore
  BY DEF Inv
<1>1. /\ found \subseteq Occurrence /\ IsFiniteSet(found)
      /\ tag \in Tag \cup {None} /\ user \in User
      /\ silenced \subseteq Hash
  BY <1>a DEF TypeInv, Budget, Occurrence
<1>2. bound' \in Budget
  BY <1>a, SpendTyped DEF Store, TypeInv
<1>3. /\ clock' = clock + 1 /\ runs' = runs \cup {run} /\ history' = Tagged(run, tag)
      /\ comments' = comments /\ born' = born /\ requests' = requests
  BY DEF Store
<1>4. /\ history' \subseteq [run : runs', time : 1..clock', tag : Tag \cup {None}]
      /\ IsFiniteSet(history')
      /\ TagsApart'
  BY <1>a, <1>1, <1>3, TaggedTyped DEF TypeInv
<1>5. IsTable(reports, runs \X Occurrence, Row)'
  <2> DEFINE added == {<<run, o>> : o \in found}
             rows == RowsOf(run) \cup added
  <2>1. reports' = [row \in DOMAIN reports \cup rows |->
                      IF row \in rows THEN Stored(row, found) ELSE reports[row]]
    BY DEF Store
  <2>2. IsFiniteSet(added)
    <3> DEFINE fn == [o \in found |-> <<run, o>>]
    <3>1. fn \in Surjection(found, added)
      BY DEF Surjection
    <3> QED BY <3>1, <1>1, FS_Surjection
  <2>3. added \subseteq runs' \X Occurrence
    BY <1>1, <1>3
  <2>4. RowsOf(run) \subseteq DOMAIN reports
    BY DEF RowsOf
  <2> HIDE DEF added
  <2>5. IsFiniteSet(DOMAIN reports \cup added) /\ DOMAIN reports \cup rows = DOMAIN reports \cup added
    BY <2>2, <2>4, <1>a, FS_Union DEF TypeInv, IsTable
  <2>6. DOMAIN reports \subseteq runs' \X Occurrence
    BY <1>a, <1>3 DEF TypeInv, IsTable
  <2>7. \A row : Stored(row, found) \in Row
    BY <1>a, StoredTyped DEF TypeInv, Row
  <2>8. \A row \in DOMAIN reports : reports[row] \in Row
    BY <1>a DEF TypeInv, IsTable
  <2> HIDE DEF rows
  <2>9. DOMAIN reports' = DOMAIN reports \cup rows /\ \A row \in DOMAIN reports' : reports'[row] \in Row
    BY <2>1, <2>7, <2>8
  <2>10. reports' \in [DOMAIN reports' -> Row]
    BY <2>1, <2>9
  <2> QED BY <2>3, <2>5, <2>6, <2>9, <2>10 DEF IsTable, Row, Occurrence, DetectionStatus
<1>6. /\ reviews' \in [DOMAIN reviews' -> ReviewRow] /\ DOMAIN reviews' \subseteq Hash
      /\ DOMAIN reviews \subseteq DOMAIN reviews'
  BY <1>a, <1>1, ReviewAssumption DEF Store, TypeInv, ReviewRow, ReviewStatus
<1>7. /\ client' \in {Idle} \cup Listings \cup Deletions \cup Refusals
      /\ ListingOf' /\ DeletionOf'
  BY <1>a, SeesFrame DEF Store, TypeInv
<1>8. TypeInv'
  BY <1>a, <1>2, <1>3, <1>4, <1>5, <1>6, <1>7 DEF TypeInv, IsTable
<1>9. \A q \in Request : AskOf(q)' /\ EditOf(q)'
  BY <1>3, <1>6, AsksFrame, EditsFrame DEF Inv
<1> QED BY <1>3, <1>4, <1>7, <1>8, <1>9, <1>a DEF Inv, BornBefore

LEMMA RemoveTyped ==
  ASSUME TypeInv, TagsApart, NEW ids, RemoveRuns(ids)
  PROVE  /\ runs' \subseteq runs
         /\ IsTable(reports, runs \X Occurrence, Row)'
         /\ history' \subseteq [run : runs', time : 1..clock, tag : Tag \cup {None}]
         /\ IsFiniteSet(history')
         /\ TagsApart'
         /\ reviews' = reviews
<1> DEFINE kept == {row \in DOMAIN reports : RunOf(row) \notin ids}
<1>1. /\ runs' = runs \ ids /\ reports' = Restrict(reports, kept)
      /\ history' = {h \in history : h.run \notin ids} /\ reviews' = reviews
  BY DEF RemoveRuns
<1>2. DOMAIN reports' = kept /\ IsTable(reports', runs \X Occurrence, Row)
  BY <1>1, RestrictTyped DEF TypeInv
<1>3. \A row \in kept : row \in runs \X Occurrence /\ row[1] \notin ids
  BY DEF TypeInv, IsTable, RunOf
<1>4. kept \subseteq runs' \X Occurrence
  BY <1>1, <1>3
<1>5. IsTable(reports, runs \X Occurrence, Row)'
  BY <1>2, <1>4 DEF IsTable, Row, Occurrence
<1>6. history' \subseteq history
  BY <1>1
<1>7. IsFiniteSet(history')
  BY <1>6, FS_Subset DEF TypeInv
<1>8. history' \subseteq [run : runs', time : 1..clock, tag : Tag \cup {None}]
  BY <1>1 DEF TypeInv
<1>9. TagsApart'
  BY <1>6 DEF TagsApart
<1> QED BY <1>1, <1>5, <1>7, <1>8, <1>9

LEMMA RemoveFromWebInv ==
  ASSUME Inv, NEW run \in Run, RemoveFromWeb(run)
  PROVE  Inv'
<1>a. TypeInv /\ TagsApart /\ ListingOf /\ DeletionOf /\ BornBefore
  BY DEF Inv
<1>1. bound' \in Budget
  BY <1>a, SpendTyped DEF RemoveFromWeb, TypeInv
<1>2. /\ clock' = clock /\ comments' = comments /\ born' = born /\ requests' = requests
      /\ RemoveRuns({run})
  BY DEF RemoveFromWeb
<1>3. /\ client' \in {Idle} \cup Listings \cup Deletions \cup Refusals
      /\ ListingOf' /\ DeletionOf'
  BY <1>a, SeesFrame DEF RemoveFromWeb, TypeInv
<1>4. TypeInv' /\ TagsApart'
  BY <1>a, <1>1, <1>2, <1>3, RemoveTyped DEF TypeInv, IsTable
<1>5. \A q \in Request : AskOf(q)' /\ EditOf(q)'
  BY <1>2, <1>a, RemoveTyped, AsksFrame, EditsFrame DEF Inv
<1> QED BY <1>2, <1>3, <1>4, <1>5, <1>a DEF Inv, BornBefore

LEMMA StoreForcedInv ==
  ASSUME Inv, NEW run \in Run, StoreForced(run)
  PROVE  Inv'
<1>1. bound' \in Budget
  BY SpendTyped DEF StoreForced, Inv, TypeInv
<1>2. /\ UNCHANGED <<runs, reports, reviews, history, clock, comments, born, requests>>
      /\ client' = [state |-> "refused"]
  BY DEF StoreForced, tables
<1>3. TypeInv'
  BY <1>1, <1>2 DEF Inv, TypeInv, Refusals, IsTable
<1>4. \A q \in Request : AskOf(q)' /\ EditOf(q)'
  BY <1>2, AsksFrame, EditsFrame DEF Inv
<1> QED BY <1>2, <1>3, <1>4 DEF Inv, TagsApart, BornBefore, ListingOf, DeletionOf
-----------------------------------------------------------------------------
(* Reviews and comments.                                                   *)

LEMMA ReadReviewInv ==
  ASSUME Inv, NEW q \in Request, NEW user \in bound.users, NEW status \in bound.statuses,
         NEW message \in bound.texts, NEW row \in DOMAIN reports,
         ReadReview(q, user, status, message, row)
  PROVE  Inv'
<1> DEFINE request ==
      [state |-> "review", hash |-> HashOf(row),
       asked |-> [status |-> status, author |-> user, message |-> message],
       read |-> IF HashOf(row) \in DOMAIN reviews THEN reviews[HashOf(row)] ELSE Idle]
<1>a. TypeInv
  BY DEF Inv
<1>1. bound' \in Budget
  BY <1>a, SpendTyped DEF ReadReview, TypeInv
<1>2. /\ UNCHANGED <<tables, runs, reports, reviews, history, clock, comments, born, client>>
      /\ requests' = [requests EXCEPT ![q] = request]
  BY DEF ReadReview, tables
<1>3. HashOf(row) \in Hash
  BY <1>a DEF TypeInv, IsTable, HashOf, Occurrence
<1>4. [status |-> status, author |-> user, message |-> message] \in ReviewRow
  BY <1>a DEF TypeInv, Budget, ReviewRow
<1>5. request.read \in {Idle} \cup ReviewRow
  BY <1>a DEF TypeInv
<1>6. request \in Asks
  BY <1>3, <1>4, <1>5 DEF Asks
<1>7. request.read # Idle => request.hash \in DOMAIN reviews
  OBVIOUS
<1> HIDE DEF request
<1>8. TypeInv'
  BY <1>a, <1>1, <1>2, <1>6 DEF TypeInv, IsTable
<1>9. ASSUME NEW p \in Request PROVE AskOf(p)' /\ EditOf(p)'
  <2>1. CASE p = q
    <3>1. requests'[p] = request
      BY <1>2, <1>a, <2>1 DEF TypeInv
    <3> QED BY <3>1, <1>2, <1>6, <1>7, States DEF AskOf, EditOf
  <2>2. CASE p # q
    <3>1. requests'[p] = requests[p]
      BY <1>2, <1>a, <2>2 DEF TypeInv
    <3> QED BY <3>1, <1>2, EditsFrame DEF AskOf, Inv
  <2> QED BY <2>1, <2>2
<1>10. ListingOf'
  BY <1>2, ListingFrame DEF Inv
<1> QED BY <1>2, <1>8, <1>9, <1>10 DEF Inv, TagsApart, BornBefore, DeletionOf

LEMMA WriteReviewInv ==
  ASSUME Inv, NEW q \in Request, WriteReview(q)
  PROVE  Inv'
<1>a. TypeInv /\ ListingOf /\ DeletionOf
  BY DEF Inv
<1>1. /\ UNCHANGED <<runs, reports, history, bound, clock, comments, born>>
      /\ End(q) /\ requests[q].state = "review"
  BY DEF WriteReview
<1>2. /\ requests' \in [Request -> {Idle} \cup Asks \cup Edits]
      /\ requests'[q] = Idle
      /\ \A p \in Request \ {q} : requests'[p] = requests[p]
  BY <1>a, <1>1, EndTyped DEF TypeInv
<1>3. requests[q] \in Asks
  BY <1>a, <1>1, States DEF TypeInv
<1>4. /\ reviews' \in [DOMAIN reviews' -> ReviewRow] /\ DOMAIN reviews' \subseteq Hash
      /\ DOMAIN reviews \subseteq DOMAIN reviews'
  <2> DEFINE h == requests[q].hash
  <2>1. /\ h \in Hash /\ requests[q].asked \in ReviewRow
        /\ requests[q].read \in {Idle} \cup ReviewRow
    BY <1>3 DEF Asks
  <2>2. CASE requests[q].read # Idle
    <3>1. h \in DOMAIN reviews
      BY <2>2, <1>1 DEF Inv, AskOf
    <3>2. reviews' = [reviews EXCEPT ![h] = Updated(q, @)]
      BY <2>2 DEF WriteReview
    <3>3. reviews[h] \in ReviewRow
      BY <3>1, <1>a DEF TypeInv
    <3>4. Updated(q, reviews[h]) \in ReviewRow
      BY <3>3, <2>1, <2>2 DEF Updated, ReviewRow
    <3> QED BY <3>1, <3>2, <3>4, <1>a DEF TypeInv
  <2>3. CASE requests[q].read = Idle /\ h \in DOMAIN reviews
    BY <2>3, <1>a DEF WriteReview, TypeInv
  <2>4. CASE requests[q].read = Idle /\ h \notin DOMAIN reviews
    <3>1. reviews' = Put(reviews, h, requests[q].asked)
      BY <2>4 DEF WriteReview
    <3>2. /\ reviews \in [DOMAIN reviews -> ReviewRow] /\ DOMAIN reviews \subseteq Hash
          /\ h \in Hash /\ requests[q].asked \in ReviewRow
      BY <2>1, <1>a DEF TypeInv
    <3> QED BY <3>1, <3>2 DEF Put
  <2> QED BY <2>2, <2>3, <2>4
<1>5. /\ client' \in {Idle} \cup Listings \cup Deletions \cup Refusals
      /\ ListingOf' /\ DeletionOf'
  BY <1>a, SeesFrame DEF WriteReview, TypeInv
<1>6. TypeInv'
  BY <1>a, <1>1, <1>2, <1>4, <1>5 DEF TypeInv, IsTable
<1>7. ASSUME NEW p \in Request PROVE AskOf(p)' /\ EditOf(p)'
  <2>1. CASE p = q
    BY <2>1, <1>2, IdleFrame
  <2>2. CASE p # q
    <3>1. requests'[p] = requests[p]
      BY <1>2, <2>2
    <3> QED BY <3>1, <1>1, <1>4, EditsFrame DEF AskOf, Inv
  <2> QED BY <2>1, <2>2
<1> QED BY <1>1, <1>5, <1>6, <1>7 DEF Inv, TagsApart, BornBefore

LEMMA FailInv ==
  ASSUME Inv, NEW q \in Request, Fail(q)
  PROVE  Inv'
<1>a. TypeInv
  BY DEF Inv
<1>1. /\ UNCHANGED <<tables, runs, reports, reviews, history, bound, clock, comments, born, client>>
      /\ End(q)
  BY DEF Fail, tables
<1>2. /\ requests' \in [Request -> {Idle} \cup Asks \cup Edits]
      /\ requests'[q] = Idle
      /\ \A p \in Request \ {q} : requests'[p] = requests[p]
  BY <1>a, <1>1, EndTyped DEF TypeInv
<1>3. TypeInv'
  BY <1>a, <1>1, <1>2 DEF TypeInv, IsTable
<1>4. ASSUME NEW p \in Request PROVE AskOf(p)' /\ EditOf(p)'
  <2>1. CASE p = q
    BY <2>1, <1>2, IdleFrame
  <2>2. CASE p # q
    <3>1. requests'[p] = requests[p]
      BY <1>2, <2>2
    <3> QED BY <3>1, <1>1, EditsFrame DEF AskOf, Inv
  <2> QED BY <2>1, <2>2
<1>5. ListingOf'
  BY <1>1, ListingFrame DEF Inv
<1> QED BY <1>1, <1>3, <1>4, <1>5 DEF Inv, TagsApart, BornBefore, DeletionOf

(* A new comment has an id that no other has, and is younger than any.     *)
LEMMA AddCommentInv ==
  ASSUME Inv, NEW user \in bound.users, NEW message \in bound.texts,
         NEW row \in DOMAIN reports, AddComment(user, message, row)
  PROVE  /\ Inv'
         /\ born' = born + 1
         /\ \A id \in DOMAIN comments : id \in DOMAIN comments' /\ comments'[id] = comments[id]
         /\ \A id \in DOMAIN comments' \ DOMAIN comments : comments'[id].born > born
<1>a. TypeInv /\ BornBefore
  BY DEF Inv
<1>1. bound' \in Budget
  BY <1>a, SpendTyped DEF AddComment, TypeInv
<1>2. /\ UNCHANGED <<tables, runs, reports, reviews, history, clock, requests, client>>
      /\ born' = born + 1
  BY DEF AddComment, tables
<1>3. PICK new, comment :
        /\ new = Max({0} \cup DOMAIN comments) + 1
        /\ comment = [hash |-> HashOf(row), author |-> user, message |-> message,
                      born |-> born + 1]
  OBVIOUS
<1>4. comments' = Put(comments, new, comment)
  BY <1>3 DEF AddComment
<1>5. comment \in CommentRow /\ comment.born = born + 1
  <2>1. HashOf(row) \in Hash
    BY <1>a DEF TypeInv, IsTable, HashOf, Occurrence
  <2>2. user \in User /\ message \in Message /\ born + 1 \in Nat
    BY <1>a DEF TypeInv, Budget
  <2> QED BY <1>3, <2>1, <2>2 DEF CommentRow
<1>6. new \in Nat /\ \A id \in DOMAIN comments : id \in Nat /\ id < new
  <2>1. {0} \cup DOMAIN comments \subseteq Nat
    BY <1>a DEF TypeInv, IsTable
  <2>2. IsFiniteSet({0} \cup DOMAIN comments)
    BY <1>a, FS_AddElement DEF TypeInv, IsTable
  <2>3. PICK S : S = {0} \cup DOMAIN comments
    OBVIOUS
  <2>4. Max(S) \in S /\ \A id \in S : Max(S) >= id
    BY <2>1, <2>2, <2>3, MaxExists
  <2> QED BY <1>3, <2>1, <2>3, <2>4
<1>7. /\ IsTable(comments', Nat, CommentRow)
      /\ DOMAIN comments' = DOMAIN comments \cup {new}
      /\ comments'[new] = comment
      /\ \A id \in DOMAIN comments \ {new} : comments'[id] = comments[id]
  <2>1. /\ comments \in [DOMAIN comments -> CommentRow] /\ DOMAIN comments \subseteq Nat
        /\ IsFiniteSet(DOMAIN comments)
    BY <1>a DEF TypeInv, IsTable
  <2>2. IsFiniteSet(DOMAIN comments \cup {new})
    BY <2>1, FS_AddElement
  <2>3. comments' = [id \in DOMAIN comments \cup {new} |->
                       IF id = new THEN comment ELSE comments[id]]
    BY <1>4 DEF Put
  <2> QED BY <2>1, <2>2, <2>3, <1>5, <1>6 DEF IsTable
<1>8. \A id \in DOMAIN comments : id # new /\ comments'[id] = comments[id]
  BY <1>6, <1>7
<1>9. TypeInv'
  BY <1>a, <1>1, <1>2, <1>7 DEF TypeInv, IsTable, CommentRow
<1>10. BornBefore'
  BY <1>2, <1>5, <1>7, <1>8, <1>a DEF BornBefore, TypeInv, IsTable, CommentRow
<1>11. ASSUME NEW q \in Request PROVE AskOf(q)' /\ EditOf(q)'
  <2>1. AskOf(q)'
    BY <1>2, AsksFrame DEF Inv
  <2>2. CASE requests[q].state \in {"update", "remove"}
    <3>1. requests[q] \in Edits
      BY <2>2, <1>a, States DEF TypeInv
    <3>2. requests[q].read.born \in Nat /\ born \in Nat
      BY <3>1, <1>a DEF Edits, CommentRow, TypeInv
    <3>3. EditOf(q)
      BY DEF Inv
    <3>4. requests[q].read.born < born + 1 /\ requests[q].read.born <= born + 1
      BY <2>2, <3>2, <3>3 DEF EditOf
    <3>5. requests'[q] = requests[q]
      BY <1>2
    <3>6. CASE requests[q].id = new
      BY <2>1, <2>2, <3>3, <3>4, <3>5, <3>6, <1>2, <1>5, <1>7 DEF EditOf
    <3>7. CASE requests[q].id # new
      BY <2>1, <2>2, <3>3, <3>4, <3>5, <3>7, <1>2, <1>7, <1>8 DEF EditOf
    <3> QED BY <3>6, <3>7
  <2>3. CASE requests[q].state \notin {"update", "remove"}
    BY <2>1, <2>3, <1>2 DEF EditOf
  <2> QED BY <2>1, <2>2, <2>3
<1>12. ListingOf'
  BY <1>2, ListingFrame DEF Inv
<1>13. Inv'
  BY <1>2, <1>9, <1>10, <1>11, <1>12 DEF Inv, TagsApart, DeletionOf
<1> QED BY <1>2, <1>5, <1>7, <1>8, <1>13, <1>a DEF TypeInv

LEMMA ReadCommentInv ==
  ASSUME Inv, NEW q \in Request, NEW user \in bound.users, NEW what \in {"update", "remove"},
         NEW message \in bound.texts, NEW id \in DOMAIN comments,
         ReadComment(q, user, what, message, id)
  PROVE  Inv'
<1> DEFINE request == [state |-> what, id |-> id, user |-> user, message |-> message,
                       read |-> comments[id]]
<1>a. TypeInv /\ BornBefore
  BY DEF Inv
<1>1. bound' \in Budget
  BY <1>a, SpendTyped DEF ReadComment, TypeInv
<1>2. /\ UNCHANGED <<tables, runs, reports, reviews, history, clock, comments, born, client>>
      /\ requests' = [requests EXCEPT ![q] = request]
      /\ MayModify(user, comments[id])
  BY DEF ReadComment, tables
<1>3. /\ id \in Nat /\ comments[id] \in CommentRow /\ user \in User /\ message \in Message
  BY <1>a DEF TypeInv, IsTable, Budget
<1>4. request \in Edits
  BY <1>3 DEF Edits
<1>5. /\ request.state = what /\ request.id = id /\ request.user = user
      /\ request.read = comments[id]
  OBVIOUS
<1> HIDE DEF request
<1>6. TypeInv'
  BY <1>a, <1>1, <1>2, <1>4 DEF TypeInv, IsTable
<1>7. ASSUME NEW p \in Request PROVE AskOf(p)' /\ EditOf(p)'
  <2>1. CASE p = q
    <3>1. requests'[p] = request
      BY <1>2, <1>a, <2>1 DEF TypeInv
    <3>2. AskOf(p)'
      BY <3>1, <1>5 DEF AskOf
    <3>3. comments[id].born <= born /\ comments[id].author \in {"Anonymous", user}
      BY <1>2, <1>a DEF BornBefore, MayModify
    <3> QED BY <3>1, <3>2, <3>3, <1>2, <1>3, <1>5 DEF EditOf, CommentRow
  <2>2. CASE p # q
    <3>1. requests'[p] = requests[p]
      BY <1>2, <1>a, <2>2 DEF TypeInv
    <3> QED BY <3>1, <1>2, EditsFrame DEF AskOf, Inv
  <2> QED BY <2>1, <2>2
<1>8. ListingOf'
  BY <1>2, ListingFrame DEF Inv
<1> QED BY <1>2, <1>6, <1>7, <1>8, <1>a DEF Inv, TagsApart, BornBefore, DeletionOf

(* A request that ends by changing or removing a comment.                  *)
LEMMA EditInv ==
  ASSUME Inv, NEW q \in Request, End(q),
         UNCHANGED <<tables, bound, clock, born, client>>,
         IsTable(comments', Nat, CommentRow),
         DOMAIN comments' \subseteq DOMAIN comments,
         \A id \in DOMAIN comments' : /\ comments'[id].author = comments[id].author
                                      /\ comments'[id].born = comments[id].born
  PROVE  Inv'
<1>a. TypeInv /\ BornBefore
  BY DEF Inv
<1>1. UNCHANGED <<tables, runs, reports, reviews, history, bound, clock, born, client>>
  BY DEF tables
<1>2. /\ requests' \in [Request -> {Idle} \cup Asks \cup Edits]
      /\ requests'[q] = Idle
      /\ \A p \in Request \ {q} : requests'[p] = requests[p]
  BY <1>a, <1>1, EndTyped DEF TypeInv
<1>3. TypeInv'
  BY <1>a, <1>1, <1>2 DEF TypeInv, IsTable, CommentRow
<1>4. ASSUME NEW p \in Request PROVE AskOf(p)' /\ EditOf(p)'
  <2>1. CASE p = q
    BY <2>1, <1>2, IdleFrame
  <2>2. CASE p # q
    <3>1. requests'[p] = requests[p]
      BY <1>2, <2>2
    <3> QED BY <3>1, <1>1, EditsFrame DEF AskOf, Inv
  <2> QED BY <2>1, <2>2
<1>5. ListingOf'
  BY <1>1, ListingFrame DEF Inv
<1>6. BornBefore'
  BY <1>1, <1>a DEF BornBefore
<1> QED BY <1>1, <1>3, <1>4, <1>5, <1>6 DEF Inv, TagsApart, DeletionOf

(* What an update changes: the message of the comment it was given.        *)
LEMMA UpdateCommentStep ==
  ASSUME TypeInv, NEW q \in Request, UpdateComment(q)
  PROVE  /\ IsTable(comments', Nat, CommentRow)
         /\ DOMAIN comments' = DOMAIN comments
         /\ \A id \in DOMAIN comments :
              /\ comments'[id].hash = comments[id].hash
              /\ comments'[id].author = comments[id].author
              /\ comments'[id].born = comments[id].born
              /\ id # requests[q].id => comments'[id] = comments[id]
<1>1. requests[q] \in Edits
  BY States DEF UpdateComment, TypeInv
<1>2. requests[q].message \in Message
  BY <1>1 DEF Edits
<1>3. /\ comments \in [DOMAIN comments -> CommentRow] /\ DOMAIN comments \subseteq Nat
      /\ IsFiniteSet(DOMAIN comments)
  BY DEF TypeInv, IsTable
<1>4. CASE comments' = comments
  BY <1>4, <1>3 DEF IsTable
<1>5. CASE /\ requests[q].id \in DOMAIN comments
           /\ comments' = [comments EXCEPT ![requests[q].id].message = requests[q].message]
  <2>1. DOMAIN comments' = DOMAIN comments
    BY <1>5, <1>3
  <2>2. ASSUME NEW id \in DOMAIN comments, id # requests[q].id
        PROVE  comments'[id] = comments[id]
    BY <1>5, <1>3, <2>2
  <2>3. comments'[requests[q].id] = [comments[requests[q].id] EXCEPT !.message = requests[q].message]
    BY <1>5, <1>3
  <2>4. comments[requests[q].id] \in CommentRow
    BY <1>5, <1>3
  <2>5. /\ comments'[requests[q].id] \in CommentRow
        /\ comments'[requests[q].id].hash = comments[requests[q].id].hash
        /\ comments'[requests[q].id].author = comments[requests[q].id].author
        /\ comments'[requests[q].id].born = comments[requests[q].id].born
    BY <2>3, <2>4, <1>2 DEF CommentRow
  <2>6. comments' \in [DOMAIN comments' -> CommentRow]
    BY <1>3, <1>5, <2>1, <2>2, <2>5
  <2> QED BY <2>1, <2>2, <2>5, <2>6, <1>3 DEF IsTable
<1> QED BY <1>4, <1>5 DEF UpdateComment

LEMMA RemoveCommentStep ==
  ASSUME TypeInv, NEW q \in Request, RemoveComment(q)
  PROVE  /\ IsTable(comments', Nat, CommentRow)
         /\ DOMAIN comments' = DOMAIN comments \ {requests[q].id}
         /\ \A id \in DOMAIN comments' : comments'[id] = comments[id]
<1>1. comments' = Restrict(comments, DOMAIN comments \ {requests[q].id})
  BY DEF RemoveComment
<1>2. IsTable(comments, Nat, CommentRow)
  BY DEF TypeInv
<1>3. IsFiniteSet(DOMAIN comments \ {requests[q].id})
  BY <1>2, FS_RemoveElement DEF IsTable
<1> QED BY <1>1, <1>2, <1>3 DEF Restrict, IsTable

LEMMA UpdateCommentInv ==
  ASSUME Inv, NEW q \in Request, UpdateComment(q)
  PROVE  Inv'
  BY UpdateCommentStep, EditInv DEF UpdateComment, Inv

LEMMA RemoveCommentInv ==
  ASSUME Inv, NEW q \in Request, RemoveComment(q)
  PROVE  Inv'
  BY RemoveCommentStep, EditInv DEF RemoveComment, Inv
-----------------------------------------------------------------------------
(* Listings.                                                               *)

LEMMA ResultsTyped ==
  ASSUME TypeInv, NEW q \in Questions
  PROVE  /\ Results(q) \subseteq Occurrences
         /\ IsFiniteSet(Results(q))
         /\ Cardinality(Results(q)) \in Nat
<1>1. Results(q) \subseteq DOMAIN reports
  BY DEF Questions, Results, Rows
<1>2. IsFiniteSet(Results(q))
  BY <1>1, FS_Subset DEF TypeInv, IsTable
<1> QED BY <1>1, <1>2, FS_CardinalityType DEF TypeInv, IsTable, Occurrences

LEMMA SeverityTyped ==
  ASSUME ReviewAssumption, NEW row \in Occurrences
  PROVE  SeverityAt(row) \in Nat
  BY DEF SeverityAt, HashOf, Occurrences, Occurrence, ReviewAssumption

(* An order lists each row once.                                           *)
LEMMA OrderedLists ==
  ASSUME NEW rows, IsFiniteSet(rows), NEW s \in Ordered(rows)
  PROVE  /\ Cardinality(rows) \in Nat /\ Len(s) = Cardinality(rows)
         /\ s \in [1..Len(s) -> rows]
         /\ \A i, j \in 1..Len(s) : s[i] = s[j] => i = j
         /\ \A row \in rows : \E i \in 1..Len(s) : row = s[i]
         /\ \A i, j \in 1..Len(s) : i < j => SeverityAt(s[i]) >= SeverityAt(s[j])
<1>1. PICK n \in Nat : n = Cardinality(rows)
  BY FS_CardinalityType
<1>2. /\ s \in [1..n -> rows]
      /\ \A i, j \in 1..n : i # j => s[i] # s[j]
      /\ \A i, j \in 1..Len(s) : i < j => SeverityAt(s[i]) >= SeverityAt(s[j])
  BY <1>1 DEF Ordered, SetToSeqs, SeverityAt
<1>3. s \in Injection(1..n, rows)
  BY <1>2 DEF Injection, IsInjective
<1>4. Cardinality(1..n) = n
  BY FS_Interval
<1>5. s \in Surjection(1..n, rows)
  BY <1>1, <1>3, <1>4, FS_Injection
<1>6. \A row \in rows : \E i \in 1..n : row = s[i]
  BY <1>5 DEF Surjection
<1>7. Len(s) = n
  BY <1>2
<1> QED BY <1>1, <1>2, <1>6, <1>7

Slice(s, a, b) == {s[i] : i \in (a + 1)..b}

LEMMA SliceSize ==
  ASSUME NEW s, NEW a \in Nat, NEW b \in Nat, a <= b,
         \A i, j \in (a + 1)..b : s[i] = s[j] => i = j
  PROVE  IsFiniteSet(Slice(s, a, b)) /\ Cardinality(Slice(s, a, b)) = b - a
<1>1. PICK D : D = (a + 1)..b
  OBVIOUS
<1>2. IsFiniteSet(D) /\ Cardinality(D) = b - a
  <2>1. PICK c \in Int : c = a + 1
    OBVIOUS
  <2>2. IsFiniteSet(c..b) /\ Cardinality(c..b) = IF c > b THEN 0 ELSE b - c + 1
    BY FS_Interval
  <2> QED BY <1>1, <2>1, <2>2
<1> DEFINE T == {s[i] : i \in D}
           fn == [i \in D |-> s[i]]
<1>3. fn \in Surjection(D, T)
  BY DEF Surjection
<1>4. fn \in Injection(D, T)
  <2>1. \A i, j \in D : fn[i] = fn[j] => i = j
    BY <1>1
  <2> QED BY <2>1 DEF Injection, IsInjective
<1>5. T = Slice(s, a, b)
  BY <1>1 DEF Slice
<1> HIDE DEF T, fn
<1> QED BY <1>2, <1>3, <1>4, <1>5, FS_Surjection

(* Without two rows of one severity there is just one order.               *)
LEMMA OrderedRank ==
  ASSUME ReviewAssumption, NEW rows \in SUBSET Occurrences, IsFiniteSet(rows),
         Distinct(rows), NEW s \in Ordered(rows), NEW i \in 1..Len(s)
  PROVE  Rank(rows, s[i]) = i - 1
<1>1. PICK n \in Nat : n = Len(s)
  BY OrderedLists
<1>2. /\ s \in [1..n -> rows]
      /\ \A k, j \in 1..n : s[k] = s[j] => k = j
      /\ \A row \in rows : \E k \in 1..n : row = s[k]
      /\ \A k, j \in 1..n : k < j => SeverityAt(s[k]) >= SeverityAt(s[j])
  BY <1>1, OrderedLists
<1>3. \A k \in 1..n : SeverityAt(s[k]) \in Nat
  BY <1>2, SeverityTyped
<1>4. \A k, j \in 1..n : SeverityAt(s[k]) > SeverityAt(s[j]) <=> k < j
  <2> SUFFICES ASSUME NEW k \in 1..n, NEW j \in 1..n
               PROVE  SeverityAt(s[k]) > SeverityAt(s[j]) <=> k < j
    OBVIOUS
  <2>1. k # j => SeverityAt(s[k]) # SeverityAt(s[j])
    BY <1>2 DEF Distinct
  <2>2. CASE k < j
    BY <2>1, <2>2, <1>2, <1>3
  <2>3. CASE j < k
    BY <2>1, <2>3, <1>2, <1>3
  <2>4. CASE k = j
    BY <2>4, <1>3
  <2> QED BY <2>2, <2>3, <2>4
<1>5. Before(rows, s[i]) = Slice(s, 0, i - 1)
  <2>1. \A row : row \in Before(rows, s[i]) <=>
                   \E k \in 1..n : row = s[k] /\ SeverityAt(s[k]) > SeverityAt(s[i])
    BY <1>2 DEF Before
  <2>2. \A k \in 1..n : SeverityAt(s[k]) > SeverityAt(s[i]) <=> k \in 1..(i - 1)
    BY <1>1, <1>4
  <2>3. \A k \in 1..(i - 1) : k \in 1..n
    BY <1>1
  <2>4. 0 + 1 = 1
    OBVIOUS
  <2> QED BY <2>1, <2>2, <2>3, <2>4 DEF Slice
<1>6. Cardinality(Slice(s, 0, i - 1)) = i - 1
  <2>1. 0 \in Nat /\ i - 1 \in Nat /\ 0 <= i - 1
    BY <1>1
  <2>2. \A k, j \in (0 + 1)..(i - 1) : s[k] = s[j] => k = j
    BY <1>1, <1>2
  <2>3. Cardinality(Slice(s, 0, i - 1)) = (i - 1) - 0
    BY <2>1, <2>2, SliceSize
  <2> QED BY <2>3, <1>1
<1> QED BY <1>1, <1>5, <1>6 DEF Rank

LEMMA SmallerIsMin ==
  ASSUME NEW m \in Nat, NEW n \in Nat
  PROVE  Min({m, n}) = Smaller(m, n)
<1>1. Smaller(m, n) \in {m, n} /\ \A y \in {m, n} : Smaller(m, n) <= y
  BY DEF Smaller
<1>2. \A x \in {m, n} : (\A y \in {m, n} : x <= y) => x = Smaller(m, n)
  BY DEF Smaller
<1> QED BY <1>1, <1>2 DEF Min

LEMMA BeginListingInv ==
  ASSUME Inv, NEW q \in Questions, BeginListing(q)
  PROVE  Inv'
<1> DEFINE listing == [state |-> "listing", question |-> q, offset |-> 0, got |-> {},
                       count |-> 0, dirty |-> FALSE]
<1>a. TypeInv
  BY DEF Inv
<1>1. bound' \in Budget
  BY <1>a, SpendTyped DEF BeginListing, TypeInv
<1>2. /\ UNCHANGED <<tables, runs, reports, reviews, history, clock, comments, born, requests>>
      /\ client' = listing
  BY DEF BeginListing, tables
<1>3. listing \in Listings
  BY DEF Listings
<1>4. TypeInv'
  BY <1>a, <1>1, <1>2, <1>3 DEF TypeInv, IsTable
<1>5. \A p \in Request : AskOf(p)' /\ EditOf(p)'
  BY <1>2, AsksFrame, EditsFrame DEF Inv
<1>6. ListingOf'
  <2>1. Results(q)' = Results(q)
    BY <1>2, ResultsFrame
  <2>2. PICK rows : rows = Results(q)
    OBVIOUS
  <2>3. Cardinality(rows) \in Nat /\ IsFiniteSet(rows)
    BY <2>2, <1>a, ResultsTyped
  <2>4. \A row \in rows : Rank(rows, row) \in Nat
    BY <2>3, FS_Subset, FS_CardinalityType DEF Rank, Before
  <2>5. {row \in rows : Rank(rows, row) < 0} = {}
    BY <2>4
  <2>6. Smaller(0, Cardinality(rows)) = 0
    BY <2>3 DEF Smaller
  <2> QED BY <1>2, <2>1, <2>2, <2>5, <2>6 DEF ListingOf
<1>7. DeletionOf'
  BY <1>2 DEF DeletionOf
<1> QED BY <1>2, <1>4, <1>5, <1>6, <1>7 DEF Inv, TagsApart, BornBefore

(* One page more of the same rows.                                         *)
OnPage(rows, row, offset) ==
  offset <= Rank(rows, row) /\ Rank(rows, row) < offset + MaxQuerySize

LEMMA PageGrows ==
  ASSUME ReviewAssumption, NEW rows \in SUBSET Occurrences, IsFiniteSet(rows),
         NEW s \in Ordered(rows), NEW offset \in Nat, NEW to \in Nat,
         to = Smaller(offset + MaxQuerySize, Cardinality(rows))
  PROVE  /\ Slice(s, offset, to) \subseteq rows /\ Cardinality(Slice(s, offset, to)) \in Nat
         /\ Slice(s, offset, to) = {} => Cardinality(rows) <= offset
         /\ Slice(s, offset, to) # {} =>
              Smaller(offset, Cardinality(rows)) + Cardinality(Slice(s, offset, to)) = to
         /\ \A row \in rows : Distinct(rows) =>
              (row \in Slice(s, offset, to) <=> OnPage(rows, row, offset))
<1>1. PICK n \in Nat : n = Cardinality(rows) /\ n = Len(s)
  BY OrderedLists
<1>2. /\ s \in [1..n -> rows]
      /\ \A i, j \in 1..n : s[i] = s[j] => i = j
      /\ \A row \in rows : \E i \in 1..n : row = s[i]
  BY <1>1, OrderedLists
<1>3. MaxQuerySize \in Nat /\ MaxQuerySize > 0
  BY ReviewAssumption
<1>4. /\ to <= n /\ to <= offset + MaxQuerySize
      /\ to = n \/ to = offset + MaxQuerySize
  BY <1>1, <1>3 DEF Smaller
<1>5. \A i \in (offset + 1)..to : i \in 1..n
  BY <1>4
<1>6. Slice(s, offset, to) \subseteq rows
  BY <1>2, <1>5 DEF Slice
<1>7. ASSUME NEW row \in rows, Distinct(rows)
      PROVE  row \in Slice(s, offset, to) <=> OnPage(rows, row, offset)
  <2>1. PICK i \in 1..n : row = s[i]
    BY <1>2
  <2>2. Rank(rows, row) = i - 1
    BY <1>1, <1>7, <2>1, OrderedRank
  <2>3. row \in Slice(s, offset, to) <=> i \in (offset + 1)..to
    BY <1>2, <1>5, <2>1 DEF Slice
  <2>4. i \in (offset + 1)..to <=> offset <= i - 1 /\ i - 1 < offset + MaxQuerySize
    BY <1>3, <1>4, <2>1
  <2> QED BY <2>2, <2>3, <2>4 DEF OnPage
<1>8. CASE to <= offset
  <2>1. Slice(s, offset, to) = {}
    BY <1>8 DEF Slice
  <2>2. n <= offset
    BY <1>3, <1>4, <1>8
  <2>3. Cardinality(Slice(s, offset, to)) \in Nat
    BY <2>1, FS_EmptySet
  <2>4. Cardinality(rows) <= offset
    BY <1>1, <2>2
  <2>5. Slice(s, offset, to) # {} =>
          Smaller(offset, Cardinality(rows)) + Cardinality(Slice(s, offset, to)) = to
    BY <2>1
  <2> QED BY <1>6, <1>7, <2>3, <2>4, <2>5
<1>9. CASE offset < to
  <2>1. \A i, j \in (offset + 1)..to : s[i] = s[j] => i = j
    BY <1>2, <1>5
  <2>2. Cardinality(Slice(s, offset, to)) = to - offset
    <3>1. offset <= to
      BY <1>9
    <3> QED BY <2>1, <3>1, SliceSize
  <2>3. Slice(s, offset, to) # {}
    <3>1. offset + 1 \in (offset + 1)..to
      BY <1>9
    <3> QED BY <3>1 DEF Slice
  <2>4. Smaller(offset, n) = offset
    BY <1>4, <1>9 DEF Smaller
  <2>5. Cardinality(Slice(s, offset, to)) \in Nat /\ offset + Cardinality(Slice(s, offset, to)) = to
    BY <1>9, <2>2
  <2> QED BY <1>1, <1>6, <1>7, <2>3, <2>4, <2>5
<1> QED BY <1>8, <1>9

LEMMA PageInv ==
  ASSUME ReviewAssumption, Inv, Page
  PROVE  Inv'
<1>a. TypeInv
  BY DEF Inv
<1>1. /\ UNCHANGED <<tables, runs, reports, reviews, history, bound, clock, comments, born, requests>>
      /\ client.state = "listing"
  BY DEF Page, tables
<1>2. client \in Listings
  BY <1>a, <1>1, States DEF TypeInv
<1>3. /\ client.question \in Questions /\ client.offset \in Nat /\ client.count \in Nat
      /\ client.got \subseteq Occurrences
  BY <1>2 DEF Listings
<1>4. PICK rows : rows = Results(client.question)
  OBVIOUS
<1>5. rows \in SUBSET Occurrences /\ IsFiniteSet(rows) /\ Cardinality(rows) \in Nat
  BY <1>a, <1>3, <1>4, ResultsTyped
<1>6. MaxQuerySize \in Nat /\ MaxQuerySize > 0
  BY ReviewAssumption
<1>7. PICK s \in Ordered(rows) :
        LET to   == Min({client.offset + QueryLimit(MaxQuerySize), Len(s)})
            page == {s[i] : i \in (client.offset + 1)..to}
        IN  client' = IF page = {} THEN [client EXCEPT !.state = "listed"]
                      ELSE [client EXCEPT !.got = @ \cup page,
                                          !.count = @ + Cardinality(page),
                                          !.offset = @ + MaxQuerySize]
  BY <1>4 DEF Page
<1>8. PICK to \in Nat : to = Smaller(client.offset + MaxQuerySize, Cardinality(rows))
  BY <1>3, <1>5, <1>6 DEF Smaller
<1>9. Min({client.offset + QueryLimit(MaxQuerySize), Len(s)}) = to
  <2>1. QueryLimit(MaxQuerySize) = MaxQuerySize
    BY <1>6 DEF QueryLimit
  <2>2. Len(s) = Cardinality(rows)
    BY <1>5, OrderedLists
  <2>3. client.offset + MaxQuerySize \in Nat
    BY <1>3, <1>6
  <2> QED BY <1>5, <1>8, <2>1, <2>2, <2>3, SmallerIsMin
<1>10. PICK page : page = Slice(s, client.offset, to)
  OBVIOUS
<1>11. client' = IF page = {} THEN [client EXCEPT !.state = "listed"]
                 ELSE [client EXCEPT !.got = @ \cup page,
                                     !.count = @ + Cardinality(page),
                                     !.offset = @ + MaxQuerySize]
  BY <1>7, <1>9, <1>10 DEF Slice
<1>12. /\ page \subseteq rows /\ Cardinality(page) \in Nat
       /\ page = {} => Cardinality(rows) <= client.offset
       /\ page # {} => Smaller(client.offset, Cardinality(rows)) + Cardinality(page) = to
       /\ \A row \in rows : Distinct(rows) => (row \in page <=> OnPage(rows, row, client.offset))
  BY <1>3, <1>5, <1>8, <1>10, PageGrows
<1>13. client' \in Listings /\ client'.question = client.question /\ client'.dirty = client.dirty
  <2>1. CASE page = {}
    BY <2>1, <1>2, <1>11 DEF Listings
  <2>2. CASE page # {}
    <3>1. client.got \cup page \subseteq Occurrences
      BY <1>3, <1>5, <1>12
    <3>2. client.count + Cardinality(page) \in Nat /\ client.offset + MaxQuerySize \in Nat
      BY <1>3, <1>6, <1>12
    <3> QED BY <2>2, <3>1, <3>2, <1>2, <1>11 DEF Listings
  <2> QED BY <2>1, <2>2
<1>14. TypeInv'
  BY <1>a, <1>1, <1>13 DEF TypeInv, IsTable
<1>15. \A q \in Request : AskOf(q)' /\ EditOf(q)'
  BY <1>1, AsksFrame, EditsFrame DEF Inv
<1>16. Results(client.question)' = rows
  <2>1. PICK q : q = client.question
    OBVIOUS
  <2>2. Results(q)' = Results(q)
    BY <1>1, ResultsFrame
  <2> QED BY <2>1, <2>2, <1>4, <1>13
<1>17. ListingOf'
  <2> SUFFICES ASSUME ~client.dirty PROVE ListingOf'
    BY <1>13 DEF ListingOf
  <2>1. /\ client.count = Smaller(client.offset, Cardinality(rows))
        /\ Distinct(rows) => client.got = {row \in rows : Rank(rows, row) < client.offset}
    BY <1>1, <1>4 DEF Inv, ListingOf
  <2>2. \A row \in rows : Rank(rows, row) \in Nat
    BY <1>5, FS_Subset, FS_CardinalityType DEF Rank, Before
  <2>3. CASE page = {}
    <3>1. /\ client'.count = client.count /\ client'.offset = client.offset
          /\ client'.got = client.got
      BY <2>3, <1>2, <1>11 DEF Listings
    <3> QED BY <2>1, <2>3, <3>1, <1>4, <1>12, <1>16 DEF ListingOf
  <2>4. CASE page # {}
    <3>1. /\ client'.count = client.count + Cardinality(page)
          /\ client'.offset = client.offset + MaxQuerySize
          /\ client'.got = client.got \cup page
          /\ client'.state = "listing"
      BY <2>4, <1>1, <1>2, <1>11 DEF Listings
    <3>2. client'.count = Smaller(client'.offset, Cardinality(rows))
      BY <2>1, <2>4, <3>1, <1>8, <1>12
    <3>3. ASSUME Distinct(rows), NEW row \in rows
          PROVE  row \in client'.got <=> Rank(rows, row) < client'.offset
      <4>1. row \in client.got <=> Rank(rows, row) < client.offset
        BY <2>1, <3>3
      <4>2. row \in page <=> OnPage(rows, row, client.offset)
        BY <1>12, <3>3
      <4>3. Rank(rows, row) \in Nat
        BY <2>2
      <4> QED BY <4>1, <4>2, <4>3, <3>1, <1>3, <1>6 DEF OnPage
    <3>4. Distinct(rows) => client'.got = {row \in rows : Rank(rows, row) < client'.offset}
      <4>1. Distinct(rows) => client'.got \subseteq rows
        BY <2>1, <3>1, <1>12
      <4> QED BY <3>3, <4>1
    <3> QED BY <3>1, <3>2, <3>4, <1>16 DEF ListingOf
  <2> QED BY <2>3, <2>4
<1>18. DeletionOf'
  BY <1>13, States DEF DeletionOf
<1> QED BY <1>1, <1>14, <1>15, <1>17, <1>18 DEF Inv, TagsApart, BornBefore
-----------------------------------------------------------------------------
(* Removal by a condition.                                                 *)

LEMMA DateTyped ==
  ASSUME TypeInv, NEW run
  PROVE  Date(run) \in Nat
<1> DEFINE stored == {k \in history : k.run = run}
           times  == {h.time : h \in stored}
<1>1. IsFiniteSet(stored)
  BY FS_Subset DEF TypeInv
<1>2. times \subseteq Nat
  BY DEF TypeInv
<1>3. IsFiniteSet(times)
  <2> DEFINE fn == [h \in stored |-> h.time]
  <2>1. fn \in Surjection(stored, times)
    BY DEF Surjection
  <2> QED BY <2>1, <1>1, FS_Surjection
<1>4. Date(run) = Max({0} \cup times)
  BY DEF Date
<1> HIDE DEF times
<1>5. PICK S : S = {0} \cup times
  OBVIOUS
<1>6. S \in SUBSET Nat /\ IsFiniteSet(S) /\ S # {}
  BY <1>2, <1>3, <1>5, FS_AddElement
<1> QED BY <1>4, <1>5, <1>6, MaxExists

LEMMA BeginDeleteInv ==
  ASSUME Inv, NEW what \in {"before", "after"}, NEW run \in runs, BeginDelete(what, run)
  PROVE  Inv'
<1> DEFINE deletion == [state |-> "deleting", what |-> what, cutoff |-> Date(run),
                        ids |-> Selected(what, run), dates |-> [r \in runs |-> Date(r)]]
<1>a. TypeInv
  BY DEF Inv
<1>1. bound' \in Budget
  BY <1>a, SpendTyped DEF BeginDelete, TypeInv
<1>2. /\ UNCHANGED <<tables, runs, reports, reviews, history, clock, comments, born, requests>>
      /\ client' = deletion
  BY DEF BeginDelete, tables
<1>3. \A r \in runs : Date(r) \in Nat
  BY <1>a, DateTyped
<1>4. Selected(what, run) \subseteq runs /\ runs \in SUBSET Run
  BY <1>a DEF Selected, TypeInv
<1>5. deletion \in Deletions
  <2>1. [r \in runs |-> Date(r)] \in [runs -> Nat]
    BY <1>3
  <2>2. [r \in runs |-> Date(r)] \in Dates
    BY <2>1, <1>4 DEF Dates
  <2> QED BY <2>2, <1>3, <1>4 DEF Deletions
<1>6. TypeInv'
  BY <1>a, <1>1, <1>2, <1>5 DEF TypeInv, IsTable
<1>7. \A q \in Request : AskOf(q)' /\ EditOf(q)'
  BY <1>2, AsksFrame, EditsFrame DEF Inv
<1>8. DeletionOf'
  <2>1. \A r \in Selected(what, run) :
          /\ r \in runs
          /\ what = "before" => Date(r) < Date(run)
          /\ what = "after" => Date(r) > Date(run)
    BY <1>3 DEF Selected
  <2> QED BY <2>1, <1>2 DEF DeletionOf
<1>9. ListingOf'
  BY <1>2 DEF ListingOf
<1> QED BY <1>2, <1>6, <1>7, <1>8, <1>9 DEF Inv, TagsApart, BornBefore

LEMMA SendDeleteInv ==
  ASSUME Inv, SendDelete
  PROVE  Inv'
<1>a. TypeInv /\ TagsApart
  BY DEF Inv
<1>1. /\ UNCHANGED <<bound, clock, comments, born, requests>> /\ client' = Idle
      /\ RemoveRuns(client.ids) \/ UNCHANGED tables
  BY DEF SendDelete
<1>2. TypeInv' /\ TagsApart'
  <2>1. CASE RemoveRuns(client.ids)
    BY <2>1, <1>a, <1>1, RemoveTyped DEF TypeInv, IsTable
  <2>2. CASE UNCHANGED tables
    BY <2>2, <1>a, <1>1 DEF TypeInv, TagsApart, tables, IsTable
  <2> QED BY <2>1, <2>2, <1>1
<1>3. reviews' = reviews
  BY <1>1 DEF RemoveRuns, tables
<1>4. \A q \in Request : AskOf(q)' /\ EditOf(q)'
  BY <1>1, <1>3, AsksFrame, EditsFrame DEF Inv
<1> QED BY <1>1, <1>2, <1>4, States DEF Inv, BornBefore, ListingOf, DeletionOf

LEMMA LeaveInv ==
  ASSUME Inv, Leave
  PROVE  Inv'
<1>1. /\ UNCHANGED <<tables, runs, reports, reviews, history, bound, clock, comments, born, requests>>
      /\ client' = Idle
  BY DEF Leave, tables
<1>2. TypeInv'
  BY <1>1 DEF Inv, TypeInv, IsTable
<1>3. \A q \in Request : AskOf(q)' /\ EditOf(q)'
  BY <1>1, AsksFrame, EditsFrame DEF Inv
<1> QED BY <1>1, <1>2, <1>3, States DEF Inv, TagsApart, BornBefore, ListingOf, DeletionOf
-----------------------------------------------------------------------------
(* The invariant and what follows from it.                                 *)

LEMMA InvNext == ReviewAssumption /\ Inv /\ [Next]_reviewVars => Inv'
<1> SUFFICES ASSUME ReviewAssumption, Inv, [Next]_reviewVars PROVE Inv'
  OBVIOUS
<1>1. CASE StoreAny
  BY <1>1, StoreInv DEF StoreAny
<1>2. CASE \E run \in Run : StoreForced(run) \/ RemoveFromWeb(run)
  BY <1>2, StoreForcedInv, RemoveFromWebInv
<1>3. ASSUME NEW q \in Request, RequestStep(q) PROVE Inv'
  BY <1>3, ReadReviewInv, ReadCommentInv, WriteReviewInv, UpdateCommentInv,
     RemoveCommentInv, FailInv DEF RequestStep
<1>4. CASE \E user \in bound.users, message \in bound.texts, row \in DOMAIN reports :
             AddComment(user, message, row)
  BY <1>4, AddCommentInv
<1>5. CASE ClientStep
  <2>1. ASSUME NEW q \in Asked, q.runs # {} /\ ~q.filter.unique /\ BeginListing(q)
        PROVE  Inv'
    BY <2>1, BeginListingInv DEF Questions
  <2>2. ASSUME NEW what \in {"before", "after"}, NEW run \in runs, BeginDelete(what, run)
        PROVE  Inv'
    BY <2>2, BeginDeleteInv
  <2> QED BY <1>5, <2>1, <2>2, PageInv, SendDeleteInv, LeaveInv DEF ClientStep
<1>6. CASE UNCHANGED reviewVars
  <2>1. /\ UNCHANGED <<tables, client>>
        /\ UNCHANGED <<runs, reports, reviews, history, bound, clock, comments, born,
                       requests, client>>
    BY <1>6 DEF reviewVars, tables
  <2>2. \A q \in Request : AskOf(q)' /\ EditOf(q)'
    BY <2>1, AsksFrame, EditsFrame DEF Inv
  <2>3. ListingOf'
    BY <2>1, ListingFrame DEF Inv
  <2> QED BY <2>1, <2>2, <2>3 DEF Inv, TypeInv, TagsApart, BornBefore, DeletionOf, IsTable
<1> QED BY <1>1, <1>2, <1>3, <1>4, <1>5, <1>6 DEF Next

THEOREM Invariance == Spec => []Inv
  BY InvInit, InvNext, ReviewAssumption, PTL DEF Spec

LEMMA RankBelow ==
  ASSUME ReviewAssumption, NEW rows \in SUBSET Occurrences, IsFiniteSet(rows),
         NEW row \in rows
  PROVE  Rank(rows, row) < Cardinality(rows)
<1>1. Before(rows, row) \subseteq rows /\ row \notin Before(rows, row)
  BY SeverityTyped DEF Before
<1>2. /\ IsFiniteSet(Before(rows, row))
      /\ Cardinality(Before(rows, row)) <= Cardinality(rows)
      /\ Cardinality(rows) # Cardinality(Before(rows, row))
  BY <1>1, FS_Subset
<1> QED BY <1>2, FS_CardinalityType DEF Rank

LEMMA ListingIsRight == ReviewAssumption /\ Inv => TypeOK /\ ListingComplete
<1> SUFFICES ASSUME ReviewAssumption, Inv PROVE TypeOK /\ ListingComplete
  OBVIOUS
<1>a. TypeInv
  BY DEF Inv
<1>1. \A q \in Request : requests[q].state \in {"idle", "review", "update", "remove"}
  BY <1>a, States DEF TypeInv
<1>2. client.state \in {"idle", "listing", "listed", "deleting", "refused"}
  BY <1>a, States DEF TypeInv
<1>3. TypeOK
  BY <1>a, <1>1, <1>2 DEF TypeOK, TypeInv, IsTable
<1>4. ListingComplete
  <2> SUFFICES ASSUME client.state = "listed", ~client.dirty
               PROVE  LET rows == Results(client.question)
                      IN  /\ client.count = Cardinality(rows)
                          /\ (\A r, s \in rows : SeverityOf[HashOf(r)] = SeverityOf[HashOf(s)]
                                => r = s) => client.got = rows
    BY DEF ListingComplete
  <2>1. PICK rows : rows = Results(client.question)
    OBVIOUS
  <2>2. client.question \in Questions /\ client.offset \in Nat
    BY <1>a, States DEF TypeInv, Listings
  <2>3. rows \in SUBSET Occurrences /\ IsFiniteSet(rows) /\ Cardinality(rows) \in Nat
    BY <1>a, <2>1, <2>2, ResultsTyped
  <2>4. /\ client.count = Smaller(client.offset, Cardinality(rows))
        /\ Cardinality(rows) <= client.offset
        /\ Distinct(rows) => client.got = {row \in rows : Rank(rows, row) < client.offset}
    BY <2>1 DEF Inv, ListingOf
  <2>5. client.count = Cardinality(rows)
    BY <2>2, <2>3, <2>4 DEF Smaller
  <2>6. \A row \in rows : Rank(rows, row) < client.offset
    <3> TAKE row \in rows
    <3>1. Rank(rows, row) \in Nat
      BY <2>3, FS_Subset, FS_CardinalityType DEF Rank, Before
    <3>2. Rank(rows, row) < Cardinality(rows)
      BY <2>3, RankBelow
    <3> QED BY <2>2, <2>3, <2>4, <3>1, <3>2
  <2>7. Distinct(rows) => client.got = rows
    BY <2>4, <2>6
  <2> QED BY <2>1, <2>5, <2>7 DEF Distinct, SeverityAt
<1> QED BY <1>3, <1>4

(* Without a filter a query gives all rows of its runs and its comparison. *)
LEMMA Unfiltered ==
  ASSUME NEW row, NEW but
  PROVE  Passes(row, NoFilter, but)
  BY DEF Passes, NoFilter, Like, In, InReview

LEMMA RowsOfRuns ==
  ASSUME TypeInv, NEW ids, ids # {}, NEW but
  PROVE  Rows(Question(ids, NoFilter, Unset), but)
           = {row \in DOMAIN reports : RunOf(row) \in ids}
<1>1. RunIdsToQuery(Question(ids, NoFilter, Unset)) = ids
  BY DEF RunIdsToQuery, Question
<1>2. \A row \in DOMAIN reports : HashOf(row) \in Hash
  BY DEF TypeInv, IsTable, HashOf, Occurrence
<1> QED BY <1>1, <1>2, Unfiltered DEF Rows, Question

LEMMA RunDataIsRight == Inv => RunDataAgrees
<1> SUFFICES ASSUME Inv, NEW run \in runs
             PROVE  LET all == Question({run}, NoFilter, Unset)
                        one == RunReportCounts({run}, NoFilter)
                    IN  /\ RunData(run).resultCount = RunResultCount(all)
                        /\ RunData(run).detectionStatusCount = DetectionStatusCounts(all)
                        /\ one = [r \in {RunOf(row) : row \in RowsOf(run)} |->
                                    RunResultCount(all)]
                        /\ \A h, k \in history :
                             h.run = run /\ k.run = run /\ h.tag # None =>
                               (h.tag = k.tag => h = k)
  BY DEF RunDataAgrees
<1> DEFINE all == Question({run}, NoFilter, Unset)
<1>a. TypeInv /\ TagsApart
  BY DEF Inv
<1>1. PICK rows : rows = RowsOf(run)
  OBVIOUS
<1>2. {row \in DOMAIN reports : RunOf(row) = run} = rows
  BY <1>1 DEF RowsOf
<1>3. \A but : Rows(all, but) = rows
  <2> TAKE but
  <2>1. {run} # {}
    OBVIOUS
  <2>2. Rows(all, but) = {row \in DOMAIN reports : RunOf(row) \in {run}}
    BY <1>a, <2>1, RowsOfRuns
  <2> QED BY <2>2, <1>2
<1>4. RunResultCount(all) = Cardinality(rows)
  BY <1>3 DEF RunResultCount, Results, Question, NoFilter
<1>5. DetectionStatusCounts(all) = GroupBy(rows, Status, Cardinality)
  BY <1>3 DEF DetectionStatusCounts
<1>6. RunData(run).resultCount = Cardinality(rows)
  BY <1>2 DEF RunData
<1>7. RunData(run).detectionStatusCount = GroupBy(rows, Status, Cardinality)
  BY <1>2 DEF RunData
<1>8. RunReportCounts({run}, NoFilter) = [r \in {RunOf(row) : row \in rows} |-> Cardinality(rows)]
  <2>1. RunReportCounts({run}, NoFilter) = GroupBy(rows, RunOf, Cardinality)
    BY <1>3 DEF RunReportCounts
  <2>2. \A row \in rows : RunOf(row) = run
    BY <1>2
  <2>3. \A r \in {RunOf(row) : row \in rows} : {row \in rows : RunOf(row) = r} = rows
    BY <2>2
  <2> QED BY <2>1, <2>3 DEF GroupBy
<1>9. \A h, k \in history : h.run = run /\ k.run = run /\ h.tag # None =>
                              (h.tag = k.tag => h = k)
  BY <1>a DEF TagsApart
<1> QED BY <1>1, <1>4, <1>5, <1>6, <1>7, <1>8, <1>9

(* What a comparison shows: the bugs of the chosen runs that are in the    *)
(* difference.                                                             *)
LEMMA RowsOfDiff ==
  ASSUME ReviewAssumption, TypeInv, NEW base, base # {}, NEW new \in SUBSET Run, new # {},
         NEW type \in DiffType, NEW filter
  PROVE  LET cmp == [runs |-> new, type |-> type]
             of  == CASE type = "NEW" ->
                           [hashes |-> HashesForRuns(new) \ HashesForRuns(base), runs |-> new]
                      [] type = "RESOLVED" ->
                           [hashes |-> HashesForRuns(base) \ HashesForRuns(new), runs |-> base]
                      [] type = "UNRESOLVED" ->
                           [hashes |-> HashesForRuns(base) \cap HashesForRuns(new), runs |-> new]
         IN  Rows(Question(base, filter, cmp), "nothing")
               = {row \in DOMAIN reports : /\ RunOf(row) \in of.runs /\ HashOf(row) \in of.hashes
                                           /\ Passes(row, filter, "nothing")}
<1> DEFINE cmp == [runs |-> new, type |-> type]
<1>1. cmp # Unset
  BY ReviewAssumption
<1>2. RunIdsToQuery(Question(base, filter, cmp)) = base
  BY DEF RunIdsToQuery, Question
<1>3. Question(base, filter, cmp).cmp = cmp /\ Question(base, filter, cmp).filter = filter
  BY DEF Question
<1>4. cmp.runs # {} /\ cmp.runs = new /\ cmp.type = type
  OBVIOUS
<1> HIDE DEF cmp
<1>5. Rows(Question(base, filter, cmp), "nothing")
        = {row \in DOMAIN reports : /\ RunOf(row) \in Diff(base, cmp).runs
                                    /\ HashOf(row) \in Diff(base, cmp).hashes
                                    /\ Passes(row, filter, "nothing")}
  BY <1>1, <1>2, <1>3 DEF Rows
<1>6. CASE type = "NEW"
  <2>1. Diff(base, cmp) = [hashes |-> HashesForRuns(new) \ HashesForRuns(base), runs |-> new]
    BY <1>4, <1>6 DEF Diff
  <2> QED BY <1>5, <1>6, <2>1 DEF cmp
<1>7. CASE type = "RESOLVED"
  <2>1. Diff(base, cmp) = [hashes |-> HashesForRuns(base) \ HashesForRuns(new), runs |-> base]
    BY <1>4, <1>7 DEF Diff
  <2> QED BY <1>5, <1>7, <2>1 DEF cmp
<1>8. CASE type = "UNRESOLVED"
  <2>1. Diff(base, cmp) = [hashes |-> HashesForRuns(base) \cap HashesForRuns(new), runs |-> new]
    BY <1>4, <1>8 DEF Diff
  <2> QED BY <1>5, <1>8, <2>1 DEF cmp
<1> QED BY <1>6, <1>7, <1>8 DEF DiffType

(* The bugs a comparison shows are those of the difference.                *)
LEMMA ShownOfDiff ==
  ASSUME ReviewAssumption, TypeInv, NEW base, base # {}, NEW new \in SUBSET Run, new # {}
  PROVE  LET shown(type) ==
               {HashOf(r) : r \in Rows(Question(base, NoFilter, [runs |-> new, type |-> type]),
                                       "nothing")}
         IN  /\ shown("NEW") = HashesForRuns(new) \ HashesForRuns(base)
             /\ shown("RESOLVED") = HashesForRuns(base) \ HashesForRuns(new)
             /\ shown("UNRESOLVED") = HashesForRuns(base) \cap HashesForRuns(new)
<1> DEFINE rows(type) == Rows(Question(base, NoFilter, [runs |-> new, type |-> type]), "nothing")
<1>1. rows("NEW") = {row \in DOMAIN reports : /\ RunOf(row) \in new
                                              /\ HashOf(row) \in HashesForRuns(new) \ HashesForRuns(base)}
  <2>1. "NEW" \in DiffType
    BY DEF DiffType
  <2>2. rows("NEW")
          = {row \in DOMAIN reports : /\ RunOf(row) \in new
                                      /\ HashOf(row) \in HashesForRuns(new) \ HashesForRuns(base)
                                      /\ Passes(row, NoFilter, "nothing")}
    BY <2>1, RowsOfDiff
  <2> QED BY <2>2, Unfiltered
<1>2. rows("RESOLVED") = {row \in DOMAIN reports : /\ RunOf(row) \in base
                                                   /\ HashOf(row) \in HashesForRuns(base) \ HashesForRuns(new)}
  <2>1. "RESOLVED" \in DiffType
    BY DEF DiffType
  <2> QED BY <2>1, RowsOfDiff, Unfiltered
<1>3. rows("UNRESOLVED") = {row \in DOMAIN reports : /\ RunOf(row) \in new
                                                     /\ HashOf(row) \in HashesForRuns(base) \cap HashesForRuns(new)}
  <2>1. "UNRESOLVED" \in DiffType
    BY DEF DiffType
  <2> QED BY <2>1, RowsOfDiff, Unfiltered
<1> HIDE DEF rows
<1>4. /\ {HashOf(r) : r \in rows("NEW")} = HashesForRuns(new) \ HashesForRuns(base)
      /\ {HashOf(r) : r \in rows("RESOLVED")} = HashesForRuns(base) \ HashesForRuns(new)
      /\ {HashOf(r) : r \in rows("UNRESOLVED")} = HashesForRuns(base) \cap HashesForRuns(new)
  <2>1. {HashOf(r) : r \in rows("NEW")} = HashesForRuns(new) \ HashesForRuns(base)
    BY <1>1 DEF HashesForRuns
  <2>2. {HashOf(r) : r \in rows("RESOLVED")} = HashesForRuns(base) \ HashesForRuns(new)
    BY <1>2 DEF HashesForRuns
  <2>3. {HashOf(r) : r \in rows("UNRESOLVED")} = HashesForRuns(base) \cap HashesForRuns(new)
    BY <1>3 DEF HashesForRuns
  <2> QED BY <2>1, <2>2, <2>3
<1> QED BY <1>4 DEF rows

LEMMA PartsOfDiff == ReviewAssumption /\ Inv => DiffPartitions
<1> SUFFICES ASSUME ReviewAssumption, Inv,
                    NEW base \in (SUBSET runs) \ {{}}, NEW new \in (SUBSET runs) \ {{}}
             PROVE  LET shown(type) ==
                          {HashOf(r) : r \in Rows(Question(base, NoFilter, [runs |-> new, type |-> type]),
                                                  "nothing")}
                    IN  /\ shown("NEW") \cup shown("UNRESOLVED") = HashesForRuns(new)
                        /\ shown("RESOLVED") \cup shown("UNRESOLVED") = HashesForRuns(base)
                        /\ shown("NEW") \cap shown("RESOLVED") = {}
                        /\ shown("UNRESOLVED") \cap (shown("NEW") \cup shown("RESOLVED")) = {}
  BY DEF DiffPartitions
<1>1. TypeInv /\ base # {} /\ new # {} /\ new \in SUBSET Run
  BY DEF Inv, TypeInv
<1> DEFINE shown(type) ==
             {HashOf(r) : r \in Rows(Question(base, NoFilter, [runs |-> new, type |-> type]),
                                     "nothing")}
<1>2. /\ shown("NEW") = HashesForRuns(new) \ HashesForRuns(base)
      /\ shown("RESOLVED") = HashesForRuns(base) \ HashesForRuns(new)
      /\ shown("UNRESOLVED") = HashesForRuns(base) \cap HashesForRuns(new)
  BY <1>1, ShownOfDiff
<1> HIDE DEF shown
<1>3. /\ shown("NEW") \cup shown("UNRESOLVED") = HashesForRuns(new)
      /\ shown("RESOLVED") \cup shown("UNRESOLVED") = HashesForRuns(base)
      /\ shown("NEW") \cap shown("RESOLVED") = {}
      /\ shown("UNRESOLVED") \cap (shown("NEW") \cup shown("RESOLVED")) = {}
  BY <1>2
<1> QED BY <1>3 DEF shown

(* The bugs of a run that no filter and no comparison leaves out.          *)
LEMMA OldOfDir ==
  ASSUME TypeInv, NEW base, base # {}
  PROVE  {HashOf(row) : row \in Rows(Question(base, NoFilter, Unset), "nothing")}
           = HashesForRuns(base)
  BY RowsOfRuns DEF HashesForRuns

(* New results are asked for without the resolved ones: a bug of the run   *)
(* that is not resolved everywhere in it passes.                           *)
LEMMA NewOfDiff ==
  ASSUME ReviewAssumption, TypeInv, NEW run \in runs, NEW base, base # {},
         NEW dir, dir = {HashOf(row) : row \in {r \in RowsOf(run) : Status(r) # "resolved"}},
         HashesForRuns({run}) = dir
  PROVE  {HashOf(r) : r \in DiffResults(base, run, "NEW", NoFilter)}
           = dir \ HashesForRuns(base)
<1> DEFINE filter == [NoFilter EXCEPT !.detection = DetectionStatus \ {"resolved"}]
<1>1. \A row \in DOMAIN reports : Status(row) # "resolved" => Passes(row, filter, "nothing")
  <2> SUFFICES ASSUME NEW row \in DOMAIN reports, Status(row) # "resolved"
               PROVE  Passes(row, filter, "nothing")
    OBVIOUS
  <2>1. Status(row) \in DetectionStatus \ {"resolved"}
    BY DEF TypeInv, IsTable, Status, Row
  <2>2. /\ filter.detection = DetectionStatus \ {"resolved"}
        /\ filter.file = Unset /\ filter.checker = Unset /\ filter.message = Unset
        /\ filter.hash = Unset /\ filter.severity = Unset /\ filter.review = Unset
        /\ filter.tags = Unset /\ filter.since = Unset /\ filter.before = Unset
    BY DEF NoFilter
  <2> HIDE DEF filter
  <2> QED BY <2>1, <2>2 DEF Passes, Like, In, InReview
<1>2. DiffResults(base, run, "NEW", NoFilter)
        = Rows(Question(base, filter, [runs |-> {run}, type |-> "NEW"]), "nothing")
  BY DEF DiffResults
<1> HIDE DEF filter
<1>3. Rows(Question(base, filter, [runs |-> {run}, type |-> "NEW"]), "nothing")
        = {row \in DOMAIN reports : /\ RunOf(row) \in {run}
                                    /\ HashOf(row) \in HashesForRuns({run}) \ HashesForRuns(base)
                                    /\ Passes(row, filter, "nothing")}
  <2>1. "NEW" \in DiffType /\ {run} \in SUBSET Run /\ {run} # {}
    BY DEF DiffType, TypeInv
  <2> QED BY <2>1, RowsOfDiff
<1>4. PICK rows : rows = DiffResults(base, run, "NEW", NoFilter)
  OBVIOUS
<1>5. rows = {row \in DOMAIN reports : /\ RunOf(row) = run
                                       /\ HashOf(row) \in dir \ HashesForRuns(base)
                                       /\ Passes(row, filter, "nothing")}
  BY <1>2, <1>3, <1>4
<1>6. {HashOf(r) : r \in rows} \subseteq dir \ HashesForRuns(base)
  BY <1>5
<1>7. ASSUME NEW h \in dir \ HashesForRuns(base)
      PROVE  h \in {HashOf(r) : r \in rows}
  <2>1. PICK row \in RowsOf(run) : Status(row) # "resolved" /\ HashOf(row) = h
    OBVIOUS
  <2>2. row \in DOMAIN reports /\ RunOf(row) = run
    BY DEF RowsOf
  <2>3. row \in rows
    BY <1>1, <1>5, <2>1, <2>2
  <2> QED BY <2>1, <2>3
<1> QED BY <1>4, <1>6, <1>7

LEMMA DirOfDiff == ReviewAssumption /\ Inv => DirDiffAgrees
<1> SUFFICES ASSUME ReviewAssumption, Inv, NEW run \in runs, NEW base \in (SUBSET runs) \ {{}}
             PROVE  LET dir == {HashOf(row) : row \in {r \in RowsOf(run) : Status(r) # "resolved"}}
                        gone == {HashOf(row) : row \in RowsOf(run)} \ dir
                        shown(type) == {HashOf(r) : r \in DiffResults(base, run, type, NoFilter)}
                    IN  \A type \in DiffType :
                          /\ gone = {} =>
                               DiffReportDir(base, dir, {}, type, NoFilter) = shown(type)
                          /\ \A h \in dir :
                               DiffReportDir(base, dir, {h}, type, NoFilter)
                                 = DiffReportDir(base, dir \ {h}, {}, type, NoFilter)
  BY DEF DirDiffAgrees
<1>d. PICK dir : dir = {HashOf(row) : row \in {r \in RowsOf(run) : Status(r) # "resolved"}}
  OBVIOUS
<1>e. PICK all : all = {HashOf(row) : row \in RowsOf(run)}
  OBVIOUS
<1>s. SUFFICES ASSUME NEW type \in DiffType
               PROVE  /\ all \ dir = {} =>
                           DiffReportDir(base, dir, {}, type, NoFilter)
                             = {HashOf(r) : r \in DiffResults(base, run, type, NoFilter)}
                      /\ \A h \in dir :
                           DiffReportDir(base, dir, {h}, type, NoFilter)
                             = DiffReportDir(base, dir \ {h}, {}, type, NoFilter)
  BY <1>d, <1>e
<1>1. TypeInv /\ base # {} /\ {run} # {} /\ {run} \in SUBSET Run
  BY DEF Inv, TypeInv
<1>2. PICK old : old = HashesForRuns(base)
  OBVIOUS
<1>3. \A d, suppressed :
        DiffReportDir(base, d, suppressed, type, NoFilter)
          = CASE type = "NEW" -> (d \ old) \ suppressed
              [] type = "RESOLVED" -> (old \ d) \cup (old \cap suppressed)
              [] type = "UNRESOLVED" -> (d \cap old) \ suppressed
  BY <1>1, <1>2, OldOfDir DEF DiffReportDir
<1>4. type \in {"NEW", "RESOLVED", "UNRESOLVED"}
  BY DEF DiffType
<1>n. /\ \A d, suppressed : type = "NEW" =>
           DiffReportDir(base, d, suppressed, type, NoFilter) = (d \ old) \ suppressed
      /\ \A d, suppressed : type = "RESOLVED" =>
           DiffReportDir(base, d, suppressed, type, NoFilter) = (old \ d) \cup (old \cap suppressed)
      /\ \A d, suppressed : type = "UNRESOLVED" =>
           DiffReportDir(base, d, suppressed, type, NoFilter) = (d \cap old) \ suppressed
  BY <1>3
<1>5. ASSUME NEW h \in dir
      PROVE  DiffReportDir(base, dir, {h}, type, NoFilter)
               = DiffReportDir(base, dir \ {h}, {}, type, NoFilter)
  <2>1. /\ (dir \ old) \ {h} = ((dir \ {h}) \ old) \ {}
        /\ (old \ dir) \cup (old \cap {h}) = (old \ (dir \ {h})) \cup (old \cap {})
        /\ (dir \cap old) \ {h} = ((dir \ {h}) \cap old) \ {}
    OBVIOUS
  <2> QED BY <1>n, <1>4, <2>1
<1>6. ASSUME all \ dir = {}
      PROVE  DiffReportDir(base, dir, {}, type, NoFilter)
               = {HashOf(r) : r \in DiffResults(base, run, type, NoFilter)}
  <2>1. HashesForRuns({run}) = dir
    <3>1. HashesForRuns({run}) = all
      BY <1>e DEF HashesForRuns, RowsOf
    <3>2. dir \subseteq all
      BY <1>d, <1>e
    <3> QED BY <1>6, <3>1, <3>2
  <2>2. CASE type = "NEW"
    <3>1. {HashOf(r) : r \in DiffResults(base, run, "NEW", NoFilter)} = dir \ old
      BY <1>1, <1>2, <1>d, <2>1, NewOfDiff
    <3>2. DiffReportDir(base, dir, {}, type, NoFilter) = (dir \ old) \ {}
      BY <1>n, <2>2
    <3> QED BY <2>2, <3>1, <3>2
  <2>3. CASE type # "NEW"
    <3>1. DiffResults(base, run, type, NoFilter)
            = Rows(Question(base, NoFilter, [runs |-> {run}, type |-> type]), "nothing")
      BY <2>3 DEF DiffResults
    <3>2. /\ {HashOf(r) : r \in Rows(Question(base, NoFilter, [runs |-> {run}, type |-> "RESOLVED"]),
                                     "nothing")} = old \ dir
          /\ {HashOf(r) : r \in Rows(Question(base, NoFilter, [runs |-> {run}, type |-> "UNRESOLVED"]),
                                     "nothing")} = old \cap dir
      <4>1. {HashOf(r) : r \in Rows(Question(base, NoFilter, [runs |-> {run}, type |-> "RESOLVED"]),
                                     "nothing")} = HashesForRuns(base) \ HashesForRuns({run})
        BY <1>1, ShownOfDiff
      <4>2. {HashOf(r) : r \in Rows(Question(base, NoFilter, [runs |-> {run}, type |-> "UNRESOLVED"]),
                                     "nothing")} = HashesForRuns(base) \cap HashesForRuns({run})
        BY <1>1, ShownOfDiff
      <4> QED BY <1>2, <2>1, <4>1, <4>2
    <3>3. CASE type = "RESOLVED"
      <4>1. DiffReportDir(base, dir, {}, type, NoFilter) = (old \ dir) \cup (old \cap {})
        BY <1>n, <3>3
      <4> QED BY <3>1, <3>2, <3>3, <4>1
    <3>4. CASE type = "UNRESOLVED"
      <4>1. DiffReportDir(base, dir, {}, type, NoFilter) = (dir \cap old) \ {}
        BY <1>n, <3>4
      <4> QED BY <3>1, <3>2, <3>4, <4>1
    <3> QED BY <1>4, <2>3, <3>3, <3>4
  <2> QED BY <2>2, <2>3
<1> QED BY <1>5, <1>6

(* The answers of the server are right for any number of runs, bugs and    *)
(* questions: a listing that no write disturbed has every result once, the *)
(* list of runs has their counts, and comparisons of runs and of report    *)
(* directories split the bugs (getRunResults, getRunData, _cmp_helper,     *)
(* handle_diff_results).                                                   *)
THEOREM AnswersAreRightCorrect == Spec => []AnswersAreRight
<1>1. Inv => AnswersAreRight
  BY ReviewAssumption, ListingIsRight, RunDataIsRight, PartsOfDiff, DirOfDiff
  DEF AnswersAreRight
<1> QED BY <1>1, Invariance, PTL

(* A request under way is ended by its last step only.                     *)
LEMMA WhoEnds ==
  ASSUME Inv, [Next]_reviewVars, NEW q \in Request,
         requests[q] # Idle, requests'[q] = Idle
  PROVE  WriteReview(q) \/ UpdateComment(q) \/ RemoveComment(q) \/ Fail(q)
<1>a. requests \in [Request -> {Idle} \cup Asks \cup Edits]
  BY DEF Inv, TypeInv
<1>1. requests' # requests
  OBVIOUS
<1>2. ASSUME NEW p \in Request, End(p) PROVE p = q
  BY <1>2, <1>a, EndTyped
<1>3. PICK p \in Request : RequestStep(p)
  <2>1. ~StoreAny
    BY <1>1 DEF StoreAny, Store
  <2>2. \A run : ~StoreForced(run) /\ ~RemoveFromWeb(run)
    BY <1>1 DEF StoreForced, RemoveFromWeb
  <2>3. \A user, message, row : ~AddComment(user, message, row)
    BY <1>1 DEF AddComment
  <2>4. ~ClientStep
    BY <1>1 DEF ClientStep, BeginListing, BeginDelete, Page, SendDelete, Leave
  <2>5. requests' = requests \/ Next
    BY DEF reviewVars
  <2> QED BY <1>1, <2>1, <2>2, <2>3, <2>4, <2>5 DEF Next
<1>4. ASSUME NEW user \in bound.users, NEW status \in bound.statuses,
             NEW message \in bound.texts, NEW row \in DOMAIN reports,
             ReadReview(p, user, status, message, row)
      PROVE  FALSE
  <2>1. /\ requests[p] = Idle
        /\ \E request : requests' = [requests EXCEPT ![p] = request]
    BY <1>4 DEF ReadReview
  <2> QED BY <2>1, <1>a
<1>5. ASSUME NEW user \in bound.users, NEW what \in {"update", "remove"},
             NEW message \in bound.texts, NEW id \in DOMAIN comments,
             ReadComment(p, user, what, message, id)
      PROVE  FALSE
  <2>1. /\ requests[p] = Idle
        /\ \E request : requests' = [requests EXCEPT ![p] = request]
    BY <1>5 DEF ReadComment
  <2> QED BY <2>1, <1>a
<1>6. CASE WriteReview(p) \/ UpdateComment(p) \/ RemoveComment(p) \/ Fail(p)
  <2>1. p = q
    BY <1>2, <1>6 DEF WriteReview, UpdateComment, RemoveComment, Fail
  <2> QED BY <1>6, <2>1
<1> QED BY <1>3, <1>4, <1>5, <1>6 DEF RequestStep

ReviewIsWholeStep ==
  \A q \in Request :
    requests[q].state = "review" /\ reviews' # reviews /\ requests'[q] = Idle =>
      LET h   == requests[q].hash
          now == IF h \in DOMAIN reviews THEN reviews[h] ELSE Idle
      IN  /\ now = requests[q].read => reviews'[h] = requests[q].asked
          /\ \A c \in DOMAIN reviews'[h] :
               reviews'[h][c] # requests[q].asked[c] => reviews'[h][c] = now[c]

LEMMA ReviewIsWholeNext ==
  ASSUME Inv, [Next]_reviewVars
  PROVE  ReviewIsWholeStep
<1> SUFFICES ASSUME NEW q \in Request, requests[q].state = "review", reviews' # reviews,
                    requests'[q] = Idle, NEW h, NEW now, h = requests[q].hash,
                    now = IF h \in DOMAIN reviews THEN reviews[h] ELSE Idle
             PROVE  /\ now = requests[q].read => reviews'[h] = requests[q].asked
                    /\ \A c \in DOMAIN reviews'[h] :
                         reviews'[h][c] # requests[q].asked[c] => reviews'[h][c] = now[c]
  BY DEF ReviewIsWholeStep
<1>1. WriteReview(q)
  <2>1. requests[q] # Idle
    BY States
  <2> QED BY <2>1, WhoEnds DEF UpdateComment, RemoveComment, Fail, tables
<1>2. requests[q] \in Asks
  BY States DEF Inv, TypeInv
<1>3. /\ h \in Hash /\ requests[q].asked \in ReviewRow
      /\ requests[q].read \in {Idle} \cup ReviewRow
  BY <1>2 DEF Asks
<1>4. reviews \in [DOMAIN reviews -> ReviewRow]
  BY DEF Inv, TypeInv
<1>5. CASE requests[q].read # Idle
  <2>1. h \in DOMAIN reviews
    BY <1>5 DEF Inv, AskOf
  <2>2. reviews' = [reviews EXCEPT ![h] = Updated(q, @)]
    BY <1>1, <1>5 DEF WriteReview
  <2>3. now = reviews[h] /\ now \in ReviewRow
    BY <2>1, <1>4
  <2>4. reviews'[h] = Updated(q, now)
    BY <2>1, <2>2, <2>3, <1>4
  <2>5. now = requests[q].read => Updated(q, now) = requests[q].asked
    BY <1>3, <2>3 DEF Updated, ReviewRow
  <2>6. \A c \in DOMAIN Updated(q, now) :
          Updated(q, now)[c] = requests[q].asked[c] \/ Updated(q, now)[c] = now[c]
    BY DEF Updated
  <2> QED BY <2>4, <2>5, <2>6
<1>6. CASE requests[q].read = Idle
  <2>1. h \notin DOMAIN reviews
    BY <1>1, <1>6 DEF WriteReview
  <2>2. reviews' = Put(reviews, h, requests[q].asked)
    BY <1>1, <1>6, <2>1 DEF WriteReview
  <2>3. reviews'[h] = requests[q].asked
    BY <2>2 DEF Put
  <2> QED BY <2>3
<1> QED BY <1>5, <1>6

(* A review that nobody changed while its request was on its way is what   *)
(* the request asked for, and of two changes each column is one's or the   *)
(* other's (_setReviewStatus).                                             *)
THEOREM ReviewIsWholeCorrect == Spec => ReviewIsWhole
<1>1. Inv /\ [Next]_reviewVars => [ReviewIsWholeStep]_reviewVars
  BY ReviewIsWholeNext
<1>2. Spec => [][ReviewIsWholeStep]_reviewVars
  BY <1>1, Invariance, PTL DEF Spec
<1> QED BY <1>2 DEF ReviewIsWhole, ReviewIsWholeStep

DeleteSparesStep ==
  client.state = "deleting" /\ client' = Idle =>
    \A run \in runs \ runs' :
      \/ run \notin DOMAIN client.dates \/ client.dates[run] # Date(run)
      \/ client.what = "before" /\ Date(run) < client.cutoff
      \/ client.what = "after" /\ Date(run) > client.cutoff

LEMMA DeleteSparesNext ==
  ASSUME Inv, [Next]_reviewVars
  PROVE  DeleteSparesStep
<1> SUFFICES ASSUME client.state = "deleting", client' = Idle, NEW run \in runs \ runs',
                    run \in DOMAIN client.dates, client.dates[run] = Date(run)
             PROVE  \/ client.what = "before" /\ Date(run) < client.cutoff
                    \/ client.what = "after" /\ Date(run) > client.cutoff
  BY DEF DeleteSparesStep
<1>1. client # Idle /\ client' # client
  BY States
<1>2. SendDelete
  <2>1. ~ClientSees
    BY <1>1, States DEF ClientSees
  <2>2. ~StoreAny
    BY <2>1 DEF StoreAny, Store
  <2>3. \A r : ~StoreForced(r) /\ ~RemoveFromWeb(r)
    BY <1>1, <2>1 DEF StoreForced, RemoveFromWeb
  <2>4. \A user, message, row : ~AddComment(user, message, row)
    BY <1>1 DEF AddComment
  <2>5. \A q \in Request : ~RequestStep(q)
    BY <1>1, <2>1 DEF RequestStep, ReadReview, ReadComment, WriteReview, UpdateComment,
       RemoveComment, Fail
  <2>6. \A q \in Asked : ~BeginListing(q)
    BY <1>1 DEF BeginListing
  <2>7. \A what, r : ~BeginDelete(what, r)
    BY <1>1 DEF BeginDelete
  <2>8. ~Page /\ ~Leave
    BY DEF Page, Leave
  <2>9. client' = client \/ Next
    BY DEF reviewVars
  <2> QED BY <1>1, <2>2, <2>3, <2>4, <2>5, <2>6, <2>7, <2>8, <2>9 DEF Next, ClientStep
<1>3. run \in client.ids
  BY <1>2 DEF SendDelete, RemoveRuns, tables
<1>4. /\ client.what \in {"before", "after"}
      /\ client.what = "before" => client.dates[run] < client.cutoff
      /\ client.what = "after" => client.dates[run] > client.cutoff
  BY <1>3, States DEF Inv, TypeInv, DeletionOf, Deletions
<1> QED BY <1>4

(* cmd del --all-before-run and --all-after-run never remove the run they  *)
(* were given, nor one on its other side that was not stored to since the  *)
(* runs were listed (handle_remove_run_results).                           *)
THEOREM DeleteSparesCorrect == Spec => DeleteSpares
<1>1. Inv /\ [Next]_reviewVars => [DeleteSparesStep]_reviewVars
  BY DeleteSparesNext
<1>2. Spec => [][DeleteSparesStep]_reviewVars
  BY <1>1, Invariance, PTL DEF Spec
<1> QED BY <1>2 DEF DeleteSpares, DeleteSparesStep

CommentsByAuthorStep ==
  \A id \in DOMAIN comments :
    id \notin DOMAIN comments' \/ comments'[id] # comments[id] =>
      \E q \in Request :
        /\ requests[q].state \in {"update", "remove"} /\ requests[q].id = id
        /\ comments[id].author \in {"Anonymous", requests[q].user}
           \/ requests[q].read.born < comments[id].born

RemovedStaysStep ==
  \A id \in DOMAIN comments' :
    \/ comments'[id].born > born
    \/ /\ id \in DOMAIN comments
       /\ [comments'[id] EXCEPT !.message = None] = [comments[id] EXCEPT !.message = None]

(* Who may touch the table of comments.                                    *)
LEMMA WhoComments ==
  ASSUME [Next]_reviewVars, comments' # comments
  PROVE  \/ \E q \in Request : UpdateComment(q) \/ RemoveComment(q)
         \/ \E user \in bound.users, message \in bound.texts, row \in DOMAIN reports :
              AddComment(user, message, row)
<1>1. ~StoreAny
  BY DEF StoreAny, Store
<1>2. \A run : ~StoreForced(run) /\ ~RemoveFromWeb(run)
  BY DEF StoreForced, RemoveFromWeb
<1>3. ~ClientStep
  BY DEF ClientStep, BeginListing, BeginDelete, Page, SendDelete, Leave
<1>4. \A q \in Request : RequestStep(q) => UpdateComment(q) \/ RemoveComment(q)
  BY DEF RequestStep, ReadReview, ReadComment, WriteReview, Fail
<1>5. Next
  BY DEF reviewVars
<1> QED BY <1>1, <1>2, <1>3, <1>4, <1>5 DEF Next

LEMMA CommentsByAuthorNext ==
  ASSUME Inv, [Next]_reviewVars
  PROVE  CommentsByAuthorStep
<1> SUFFICES ASSUME NEW id \in DOMAIN comments,
                    id \notin DOMAIN comments' \/ comments'[id] # comments[id]
             PROVE  \E q \in Request :
                      /\ requests[q].state \in {"update", "remove"} /\ requests[q].id = id
                      /\ \/ comments[id].author \in {"Anonymous", requests[q].user}
                         \/ requests[q].read.born < comments[id].born
  BY DEF CommentsByAuthorStep
<1>1. PICK q \in Request : UpdateComment(q) \/ RemoveComment(q)
  BY WhoComments, AddCommentInv
<1>2. requests[q].id = id
  BY <1>1, UpdateCommentStep, RemoveCommentStep DEF Inv
<1>3. requests[q].state \in {"update", "remove"}
  BY <1>1 DEF UpdateComment, RemoveComment
<1> QED BY <1>2, <1>3 DEF Inv, EditOf

LEMMA RemovedStaysNext ==
  ASSUME Inv, [Next]_reviewVars
  PROVE  RemovedStaysStep
<1> SUFFICES ASSUME NEW id \in DOMAIN comments', ~(comments'[id].born > born)
             PROVE  /\ id \in DOMAIN comments
                    /\ [comments'[id] EXCEPT !.message = None]
                         = [comments[id] EXCEPT !.message = None]
  BY DEF RemovedStaysStep
<1>1. CASE comments' = comments
  BY <1>1
<1>2. CASE comments' # comments
  <2>1. ASSUME NEW user \in bound.users, NEW message \in bound.texts,
               NEW row \in DOMAIN reports, AddComment(user, message, row)
        PROVE  id \in DOMAIN comments /\ comments'[id] = comments[id]
    BY <2>1, AddCommentInv
  <2>2. ASSUME NEW q \in Request, UpdateComment(q) \/ RemoveComment(q)
        PROVE  /\ id \in DOMAIN comments
               /\ comments[id] \in CommentRow /\ comments'[id] \in CommentRow
               /\ comments'[id].hash = comments[id].hash
               /\ comments'[id].author = comments[id].author
               /\ comments'[id].born = comments[id].born
    BY <2>2, UpdateCommentStep, RemoveCommentStep DEF Inv, TypeInv, IsTable
  <2>3. ASSUME NEW a \in CommentRow, NEW b \in CommentRow,
               a.hash = b.hash, a.author = b.author, a.born = b.born
        PROVE  [a EXCEPT !.message = None] = [b EXCEPT !.message = None]
    BY <2>3 DEF CommentRow
  <2> QED BY <1>2, <2>1, <2>2, <2>3, WhoComments
<1> QED BY <1>1, <1>2

(* A comment changes or goes away by its author only, or if it is          *)
(* anonymous, unless the request had read an earlier one of the same id;   *)
(* one that was removed never comes back (updateComment, removeComment).   *)
THEOREM CommentsKeptCorrect == Spec => CommentsKept
<1>1. Inv /\ [Next]_reviewVars => [CommentsByAuthorStep]_reviewVars /\ [RemovedStaysStep]_reviewVars
  BY CommentsByAuthorNext, RemovedStaysNext
<1>2. Spec => [][CommentsByAuthorStep]_reviewVars /\ [][RemovedStaysStep]_reviewVars
  BY <1>1, Invariance, PTL DEF Spec
<1> QED BY <1>2 DEF CommentsKept, CommentsByAuthor, RemovedStays, CommentsByAuthorStep,
                    RemovedStaysStep
-----------------------------------------------------------------------------
(* The element of a set that a step of the fold takes, and what the fold   *)
(* of a sum over S computes, subset by subset.                             *)
First(s) == CHOOSE x \in s : TRUE

IsSum(iter, e, S) ==
  iter = [s \in SUBSET S |-> IF s = {} THEN 0 ELSE e[First(s)] + iter[s \ {First(s)}]]

(* All parts together, and the fold of a sum.                              *)
Whole(part, S) == UNION {part[x] : x \in S}

SumOver(e, S) == MapThenSumSet(LAMBDA x : e[x], S)

(* The element that a step of the fold takes is one of the set.            *)
LEMMA FirstIn == ASSUME NEW s, s # {} PROVE First(s) \in s
BY DEF First

(* Two such functions agree wherever both are defined: the smallest set on *)
(* which they would not is not empty, and without its first element they   *)
(* agree.                                                                  *)
LEMMA SumUnique ==
  ASSUME NEW e, NEW S, NEW T, NEW g, NEW h, IsSum(g, e, S), IsSum(h, e, T),
         NEW U, IsFiniteSet(U), U \subseteq S, U \subseteq T
  PROVE  g[U] = h[U]
<1> DEFINE Bad == {s \in FiniteSubsetsOf(U) : g[s] # h[s]}
<1>1. Bad = {}
  <2> SUFFICES ASSUME Bad # {} PROVE FALSE
    OBVIOUS
  <2>1. /\ IsWellFoundedOn(StrictSubsetOrdering(U), FiniteSubsetsOf(U))
        /\ Bad \subseteq FiniteSubsetsOf(U)
    BY FS_StrictSubsetOrderingWellFounded
  <2> HIDE DEF Bad
  <2>2. PICK s \in Bad : \A t \in Bad : <<t, s>> \notin StrictSubsetOrdering(U)
    BY <2>1, WFMin
  <2> USE DEF Bad
  <2>3. s \subseteq U /\ IsFiniteSet(s) /\ g[s] # h[s]
    BY DEF FiniteSubsetsOf
  <2>4. s \in SUBSET S /\ s \in SUBSET T
    BY <2>3
  <2>5. g[s] = (IF s = {} THEN 0 ELSE e[First(s)] + g[s \ {First(s)}])
    BY <2>4 DEF IsSum
  <2>6. h[s] = (IF s = {} THEN 0 ELSE e[First(s)] + h[s \ {First(s)}])
    BY <2>4 DEF IsSum
  <2>7. s # {} /\ g[s \ {First(s)}] # h[s \ {First(s)}]
    BY <2>3, <2>5, <2>6
  <2> DEFINE t == s \ {First(s)}
  <2>8. t \in FiniteSubsetsOf(U)
    BY <2>3, FS_RemoveElement DEF FiniteSubsetsOf
  <2>9. <<t, s>> \in StrictSubsetOrdering(U)
    BY <2>3, <2>7, FirstIn DEF StrictSubsetOrdering
  <2> QED BY <2>2, <2>7, <2>8, <2>9
<1>2. U \in FiniteSubsetsOf(U)
  BY DEF FiniteSubsetsOf
<1> QED BY <1>1, <1>2

(* There is one for every finite set: on the smallest set without one it   *)
(* is put together from those of the smaller sets.                         *)
LEMMA SumExists ==
  ASSUME NEW e, NEW S, IsFiniteSet(S)
  PROVE  \E g : IsSum(g, e, S)
<1> DEFINE Bad == {s \in FiniteSubsetsOf(S) : ~ \E g : IsSum(g, e, s)}
<1>1. Bad = {}
  <2> SUFFICES ASSUME Bad # {} PROVE FALSE
    OBVIOUS
  <2>1. /\ IsWellFoundedOn(StrictSubsetOrdering(S), FiniteSubsetsOf(S))
        /\ Bad \subseteq FiniteSubsetsOf(S)
    BY FS_StrictSubsetOrderingWellFounded
  <2> HIDE DEF Bad
  <2>2. PICK U \in Bad : \A t \in Bad : <<t, U>> \notin StrictSubsetOrdering(S)
    BY <2>1, WFMin
  <2> USE DEF Bad
  <2>3. U \subseteq S /\ IsFiniteSet(U) /\ ~ \E g : IsSum(g, e, U)
    BY DEF FiniteSubsetsOf
  <2> DEFINE of(t) == CHOOSE g : IsSum(g, e, t)
  <2>4. ASSUME NEW t, t \subseteq U, t # U PROVE IsFiniteSet(t) /\ IsSum(of(t), e, t)
    <3>1. IsFiniteSet(t)
      BY <2>3, <2>4, FS_Subset
    <3>2. t \in FiniteSubsetsOf(S)
      BY <2>3, <2>4, <3>1 DEF FiniteSubsetsOf
    <3>3. <<t, U>> \in StrictSubsetOrdering(S)
      BY <2>3, <2>4 DEF StrictSubsetOrdering
    <3>4. \E g : IsSum(g, e, t)
      BY <2>2, <3>2, <3>3
    <3> QED BY <3>1, <3>4
  <2> DEFINE r(s) == s \ {First(s)}
             g == [s \in SUBSET U |-> IF s = {} THEN 0 ELSE e[First(s)] + of(r(s))[r(s)]]
  <2>5. ASSUME NEW s \in SUBSET U, s # {}
        PROVE  g[r(s)] = of(r(s))[r(s)]
    <3>1. r(s) \subseteq U /\ r(s) # U
      BY <2>5, FirstIn
    <3> DEFINE u == r(s)
    <3>2. IsFiniteSet(u) /\ IsSum(of(u), e, u)
      BY <2>4, <3>1
    <3>3. u \in SUBSET U /\ u \in SUBSET u
      BY <3>1
    <3>4. g[u] = (IF u = {} THEN 0 ELSE e[First(u)] + of(r(u))[r(u)])
      BY <3>3
    <3> HIDE DEF g, of, u
    <3>5. of(u)[u] = (IF u = {} THEN 0 ELSE e[First(u)] + of(u)[r(u)])
      BY <3>2, <3>3 DEF IsSum
    <3>6. CASE u = {}
      BY <3>4, <3>5, <3>6 DEF u
    <3>7. CASE u # {}
      <4>1. r(u) \subseteq u /\ r(u) \subseteq U /\ r(u) # U
        BY <3>3, <3>7, FirstIn
      <4>2. IsFiniteSet(r(u)) /\ IsSum(of(r(u)), e, r(u))
        BY <2>4, <4>1
      <4> DEFINE v == r(u)
      <4> HIDE DEF v
      <4>3. of(v)[v] = of(u)[v]
        <5>1. IsFiniteSet(v) /\ IsSum(of(v), e, v) /\ v \subseteq v /\ v \subseteq u
          BY <4>1, <4>2 DEF v
        <5> QED BY <5>1, <3>2, SumUnique
      <4> QED BY <3>4, <3>5, <3>7, <4>3 DEF u, v
    <3> QED BY <3>6, <3>7
  <2>6. IsSum(g, e, U)
    <3> HIDE DEF of
    <3>1. \A s \in SUBSET U : (IF s = {} THEN 0 ELSE e[First(s)] + of(r(s))[r(s)])
                              = (IF s = {} THEN 0 ELSE e[First(s)] + g[s \ {First(s)}])
      BY <2>5
    <3>2. g = [s \in SUBSET U |-> IF s = {} THEN 0 ELSE e[First(s)] + of(r(s))[r(s)]]
      OBVIOUS
    <3> HIDE DEF g
    <3> QED BY <3>1, <3>2 DEF IsSum
  <2> QED BY <2>3, <2>6
<1>2. S \in FiniteSubsetsOf(S)
  BY DEF FiniteSubsetsOf
<1> QED BY <1>1, <1>2

(* What it gives for sizes of parts that are apart is the size of the      *)
(* whole.                                                                  *)
LEMMA SumOfParts ==
  ASSUME NEW e, NEW S, IsFiniteSet(S), NEW g, IsSum(g, e, S), NEW part,
         \A x \in S : IsFiniteSet(part[x]) /\ e[x] = Cardinality(part[x]),
         \A x, y \in S : x # y => part[x] \cap part[y] = {}
  PROVE  IsFiniteSet(Whole(part, S)) /\ g[S] = Cardinality(Whole(part, S))
<1> DEFINE of(s) == UNION {part[x] : x \in s}
           Bad == {s \in FiniteSubsetsOf(S) : ~(IsFiniteSet(of(s)) /\ g[s] = Cardinality(of(s)))}
<1>1. Bad = {}
  <2> SUFFICES ASSUME Bad # {} PROVE FALSE
    OBVIOUS
  <2>1. /\ IsWellFoundedOn(StrictSubsetOrdering(S), FiniteSubsetsOf(S))
        /\ Bad \subseteq FiniteSubsetsOf(S)
    BY FS_StrictSubsetOrderingWellFounded
  <2> HIDE DEF Bad
  <2>2. PICK s \in Bad : \A t \in Bad : <<t, s>> \notin StrictSubsetOrdering(S)
    BY <2>1, WFMin
  <2> USE DEF Bad
  <2>3. s \subseteq S /\ IsFiniteSet(s) /\ ~(IsFiniteSet(of(s)) /\ g[s] = Cardinality(of(s)))
    BY DEF FiniteSubsetsOf
  <2>4. g[s] = (IF s = {} THEN 0 ELSE e[First(s)] + g[s \ {First(s)}])
    BY <2>3 DEF IsSum
  <2>5. CASE s = {}
    <3>1. of(s) = {}
      BY <2>5
    <3>2. IsFiniteSet(of(s)) /\ Cardinality(of(s)) = 0
      BY <3>1, FS_EmptySet
    <3> QED BY <2>3, <2>4, <2>5, <3>2
  <2>6. CASE s # {}
    <3> DEFINE x == First(s)
               t == s \ {x}
    <3>1. x \in s /\ x \in S
      BY <2>3, <2>6, FirstIn
    <3>2. t \in FiniteSubsetsOf(S)
      BY <2>3, FS_RemoveElement DEF FiniteSubsetsOf
    <3>3. <<t, s>> \in StrictSubsetOrdering(S)
      BY <2>3, <3>1 DEF StrictSubsetOrdering
    <3>4. IsFiniteSet(of(t)) /\ g[t] = Cardinality(of(t))
      BY <2>2, <3>2, <3>3
    <3>5. IsFiniteSet(part[x]) /\ e[x] = Cardinality(part[x])
      BY <3>1
    <3>6. of(s) = part[x] \cup of(t) /\ part[x] \cap of(t) = {}
      <4> HIDE DEF x
      <4>1. \A y \in t : y \in S /\ y # x
        BY <2>3
      <4>2. s = t \cup {x}
        BY <3>1
      <4> HIDE DEF t
      <4>3. part[x] \cap of(t) = {}
        BY <3>1, <4>1
      <4> QED BY <4>2, <4>3
    <3>7. IsFiniteSet(of(s)) /\ Cardinality(of(s)) = Cardinality(part[x]) + Cardinality(of(t))
      <4> HIDE DEF of, x, t
      <4>1. /\ IsFiniteSet(part[x] \cup of(t))
            /\ Cardinality(part[x] \cup of(t))
                 = Cardinality(part[x]) + Cardinality(of(t)) - Cardinality(part[x] \cap of(t))
        BY <3>4, <3>5, FS_Union
      <4>2. Cardinality(part[x] \cap of(t)) = 0
        BY <3>6, FS_EmptySet
      <4>3. Cardinality(part[x]) \in Nat /\ Cardinality(of(t)) \in Nat
        BY <3>4, <3>5, FS_CardinalityType
      <4> QED BY <3>6, <4>1, <4>2, <4>3
    <3>8. g[s] = e[x] + g[t]
      BY <2>4, <2>6
    <3> HIDE DEF of, x, t
    <3> QED BY <2>3, <3>4, <3>5, <3>7, <3>8
  <2> QED BY <2>5, <2>6
<1>2. S \in FiniteSubsetsOf(S)
  BY DEF FiniteSubsetsOf
<1>3. IsFiniteSet(of(S)) /\ g[S] = Cardinality(of(S))
  BY <1>1, <1>2
<1> QED BY <1>3 DEF Whole

(* So the fold of a sum is the value of such a function.                   *)
LEMMA FoldIsSum ==
  ASSUME NEW e, NEW S, IsFiniteSet(S)
  PROVE  \E g : IsSum(g, e, S) /\ SumOver(e, S) = g[S]
<1> DEFINE g == CHOOSE iter : iter = [s \in SUBSET S |-> IF s = {} THEN 0 ELSE e[CHOOSE x \in s : TRUE] + iter[s \ {CHOOSE x \in s : TRUE}]]
<1>1. IsSum(g, e, S)
  <2>1. PICK h : IsSum(h, e, S)
    BY SumExists
  <2>2. h = [s \in SUBSET S |-> IF s = {} THEN 0 ELSE e[CHOOSE x \in s : TRUE] + h[s \ {CHOOSE x \in s : TRUE}]]
    BY <2>1 DEF IsSum, First
  <2>3. g = [s \in SUBSET S |-> IF s = {} THEN 0 ELSE e[CHOOSE x \in s : TRUE] + g[s \ {CHOOSE x \in s : TRUE}]]
    BY <2>2
  <2> HIDE DEF g
  <2> QED BY <2>3 DEF IsSum, First
<1>2. SumOver(e, S) = g[S]
  BY DEF SumOver, MapThenSumSet, MapThenFoldSet
<1> QED BY <1>1, <1>2

-----------------------------------------------------------------------------
(* A sum of sizes is the size of the whole if the parts are apart.         *)
Sizes(e, S, part) ==
  /\ IsFiniteSet(S)
  /\ \A x \in S : IsFiniteSet(part[x]) /\ e[x] = Cardinality(part[x])
  /\ \A x, y \in S : x # y => part[x] \cap part[y] = {}

(* The fold over sizes of parts that are apart is the size of the whole.   *)
LEMMA SumOfSizes ==
  ASSUME NEW e, NEW S, NEW part, Sizes(e, S, part)
  PROVE  IsFiniteSet(Whole(part, S)) /\ SumOver(e, S) = Cardinality(Whole(part, S))
<1>1. PICK g : IsSum(g, e, S) /\ SumOver(e, S) = g[S]
  BY FoldIsSum DEF Sizes
<1>2. IsFiniteSet(Whole(part, S)) /\ g[S] = Cardinality(Whole(part, S))
  BY <1>1, SumOfParts DEF Sizes
<1> QED BY <1>1, <1>2

(* The image of a finite set is finite.                                    *)
LEMMA ImageFinite ==
  ASSUME NEW S, IsFiniteSet(S), NEW f
  PROVE  IsFiniteSet({f[x] : x \in S})
<1> DEFINE T == {f[x] : x \in S}
           g == [x \in S |-> f[x]]
<1>1. g \in Surjection(S, T)
  BY DEF Surjection
<1> QED BY <1>1, FS_Surjection

(* What create_count_expression counts.                                    *)
Counted(rows, filter) == IF filter.unique THEN {HashOf(row) : row \in rows} ELSE rows

(* A count is the size of what it counts (create_count_expression).        *)
LEMMA CountIs ==
  ASSUME NEW rows, NEW filter, IsFiniteSet(rows)
  PROVE  /\ IsFiniteSet(Counted(rows, filter))
         /\ Count(rows, filter) = Cardinality(Counted(rows, filter))
<1>1. IsFiniteSet({HashOf(row) : row \in rows})
  <2> DEFINE f == [row \in rows |-> HashOf(row)]
  <2>1. {HashOf(row) : row \in rows} = {f[row] : row \in rows}
    OBVIOUS
  <2> HIDE DEF f
  <2> QED BY <2>1, ImageFinite
<1> QED BY <1>1 DEF Counted, Count

(* The values of a column.                                                 *)
Keys(rows, key) == {key[row] : row \in rows}

(* GroupBy with its counts, of a key that is given as a function.          *)
Grouped(rows, key, filter) ==
  [k \in Keys(rows, key) |-> Count({row \in rows : key[row] = k}, filter)]

(* What the groups count, and all groups together: all there is to count.  *)
Parts(rows, key, filter) ==
  [k \in Keys(rows, key) |-> Counted({row \in rows : key[row] = k}, filter)]

(* Rows grouped by something that is the same for all rows of a bug, if    *)
(* bugs are counted: no two groups count the same, all count everything.   *)
LEMMA GroupsApart ==
  ASSUME NEW rows, IsFiniteSet(rows), NEW key, NEW filter, filter.unique \in BOOLEAN,
         filter.unique => \A r, s \in rows : HashOf(r) = HashOf(s) => key[r] = key[s]
  PROVE  /\ Sizes(Grouped(rows, key, filter), Keys(rows, key), Parts(rows, key, filter))
         /\ Whole(Parts(rows, key, filter), Keys(rows, key)) = Counted(rows, filter)
<1> DEFINE keys  == Keys(rows, key)
           at(k) == {row \in rows : key[row] = k}
           part  == Parts(rows, key, filter)
<1>1. IsFiniteSet(keys)
  BY ImageFinite DEF Keys
<1>2. \A k \in keys : /\ IsFiniteSet(at(k))
                      /\ part[k] = Counted(at(k), filter)
                      /\ Grouped(rows, key, filter)[k] = Count(at(k), filter)
  BY FS_Subset DEF Parts, Grouped
<1> HIDE DEF part
<1>k. keys = {key[row] : row \in rows}
  BY DEF Keys
<1> HIDE DEF keys
<1>3. ASSUME NEW k \in keys
      PROVE  IsFiniteSet(part[k]) /\ Grouped(rows, key, filter)[k] = Cardinality(part[k])
  <2> DEFINE some == at(k)
  <2>1. IsFiniteSet(some) /\ part[k] = Counted(some, filter)
        /\ Grouped(rows, key, filter)[k] = Count(some, filter)
    BY <1>2
  <2> HIDE DEF some
  <2> QED BY <2>1, CountIs
<1>4. ASSUME NEW j \in keys, NEW k \in keys, j # k, NEW x \in part[j], x \in part[k]
      PROVE  FALSE
  <2>1. part[j] = Counted(at(j), filter) /\ part[k] = Counted(at(k), filter)
    BY <1>2
  <2>2. CASE filter.unique
    <3>1. PICK r \in at(j) : x = HashOf(r)
      BY <1>4, <2>1, <2>2 DEF Counted
    <3>2. PICK s \in at(k) : x = HashOf(s)
      BY <1>4, <2>1, <2>2 DEF Counted
    <3>3. r \in rows /\ s \in rows /\ key[r] = j /\ key[s] = k
      BY <3>1, <3>2
    <3> QED BY <1>4, <2>2, <3>1, <3>2, <3>3
  <2>3. CASE ~filter.unique
    BY <1>4, <2>1, <2>3 DEF Counted
  <2> QED BY <2>2, <2>3
<1>5. Whole(part, keys) = Counted(rows, filter)
  <2>1. CASE filter.unique
    <3>1. \A k \in keys : part[k] = {HashOf(row) : row \in at(k)}
      BY <1>2, <2>1 DEF Counted
    <3>2. \A row \in rows : key[row] \in keys /\ row \in at(key[row])
      BY <1>k
    <3>3. UNION {part[k] : k \in keys} = {HashOf(row) : row \in rows}
      <4>1. ASSUME NEW h \in UNION {part[k] : k \in keys} PROVE h \in {HashOf(row) : row \in rows}
        BY <3>1
      <4>2. ASSUME NEW row \in rows PROVE HashOf(row) \in UNION {part[k] : k \in keys}
        <5>1. key[row] \in keys /\ HashOf(row) \in part[key[row]]
          BY <3>1, <3>2
        <5> QED BY <5>1
      <4> QED BY <4>1, <4>2
    <3> QED BY <2>1, <3>3 DEF Counted, Whole
  <2>2. CASE ~filter.unique
    <3>1. \A k \in keys : part[k] = at(k)
      BY <1>2, <2>2 DEF Counted
    <3>2. UNION {part[k] : k \in keys} = rows
      <4>1. ASSUME NEW row \in UNION {part[k] : k \in keys} PROVE row \in rows
        BY <3>1
      <4>2. ASSUME NEW row \in rows PROVE row \in UNION {part[k] : k \in keys}
        <5>1. key[row] \in keys /\ row \in part[key[row]]
          BY <1>k, <3>1
        <5> QED BY <5>1
      <4> QED BY <4>1, <4>2
    <3> QED BY <2>2, <3>2 DEF Counted, Whole
  <2> QED BY <2>1, <2>2
<1>6. Sizes(Grouped(rows, key, filter), keys, part) /\ Whole(part, keys) = Counted(rows, filter)
  <2>1. \A j, k \in keys : j # k => part[j] \cap part[k] = {}
    BY <1>4
  <2> QED BY <1>1, <1>3, <1>5, <2>1 DEF Sizes
<1> QED BY <1>6 DEF keys, part

(* Hence the counts of the groups add up to the count of all rows.         *)
LEMMA GroupsAddUp ==
  ASSUME NEW rows, IsFiniteSet(rows), NEW key, NEW filter, filter.unique \in BOOLEAN,
         filter.unique => \A r, s \in rows : HashOf(r) = HashOf(s) => key[r] = key[s]
  PROVE  Total(Grouped(rows, key, filter)) = Count(rows, filter)
<1> DEFINE keys == Keys(rows, key)
           e    == Grouped(rows, key, filter)
           part == Parts(rows, key, filter)
<1>1. Sizes(e, keys, part) /\ Whole(part, keys) = Counted(rows, filter)
  BY GroupsApart
<1>2. DOMAIN e = keys
  BY DEF Grouped
<1> HIDE DEF e, part, keys
<1>3. Total(e) = SumOver(e, keys)
  BY <1>2 DEF Total, SumOver
<1>4. SumOver(e, keys) = Cardinality(Whole(part, keys))
  BY <1>1, SumOfSizes
<1> QED BY <1>1, <1>3, <1>4, CountIs DEF e

(* The filter that a count leaves out, and the same filter set to nothing. *)
LEMMA LeftOut ==
  ASSUME NEW q \in Asked,
         NEW field \in {"file", "checker", "message", "severity", "detection", "review"},
         field = "detection" => q.filter.since = Unset /\ q.filter.before = Unset
  PROVE  /\ Rows(q, field) = Rows(Without(q, field), "nothing")
         /\ Without(q, field).filter.unique = q.filter.unique
<1> DEFINE F == q.filter
           W == Without(q, field)
           G == [F EXCEPT ![field] = Unset]
<1>1. /\ q = [runs |-> q.runs, filter |-> F, cmp |-> q.cmp]
      /\ F = [f \in DOMAIN NoFilter |-> F[f]]
  BY AskedAssumption DEF Question
<1>2. W.runs = q.runs /\ W.cmp = q.cmp /\ W.filter = G
  BY <1>1 DEF Without
<1>3. DOMAIN NoFilter = {"file", "checker", "message", "hash", "severity", "detection",
                         "review", "tags", "since", "before", "unique"}
  BY DEF NoFilter
<1>4. /\ \A f \in DOMAIN NoFilter : f # field => G[f] = F[f]
      /\ G[field] = Unset
  BY <1>1, <1>3
<1> HIDE DEF G, W
<1>5. \A row : Passes(row, F, field) <=> Passes(row, G, "nothing")
  <2> SUFFICES ASSUME NEW row PROVE Passes(row, F, field) <=> Passes(row, G, "nothing")
    OBVIOUS
  <2>1. CASE field = "file"
    BY <2>1, <1>3, <1>4 DEF Passes, Like, In, DateOf, InReview
  <2>2. CASE field = "checker"
    BY <2>2, <1>3, <1>4 DEF Passes, Like, In, DateOf, InReview
  <2>3. CASE field = "message"
    BY <2>3, <1>3, <1>4 DEF Passes, Like, In, DateOf, InReview
  <2>4. CASE field = "severity"
    BY <2>4, <1>3, <1>4 DEF Passes, Like, In, DateOf, InReview
  <2>5. CASE field = "detection"
    BY <2>5, <1>3, <1>4 DEF Passes, Like, In, InReview
  <2>6. CASE field = "review"
    BY <2>6, <1>3, <1>4 DEF Passes, Like, In, DateOf, InReview
  <2> QED BY <2>1, <2>2, <2>3, <2>4, <2>5, <2>6
<1>6. RunIdsToQuery(W) = RunIdsToQuery(q)
  BY <1>2 DEF RunIdsToQuery
<1> HIDE DEF F
<1>7. F = q.filter
  BY DEF F
<1>8. Rows(q, field) = Rows(W, "nothing")
  BY <1>2, <1>5, <1>6, <1>7 DEF Rows
<1> QED BY <1>2, <1>3, <1>4, <1>7, <1>8 DEF W

(* A query has finitely many rows.                                         *)
LEMMA RowsFinite ==
  ASSUME IsFiniteSet(DOMAIN reports), NEW q, NEW but
  PROVE  IsFiniteSet(Rows(q, but))
<1>1. Rows(q, but) \subseteq DOMAIN reports
  BY DEF Rows
<1> QED BY <1>1, FS_Subset

(* getRunResultCount counts the rows with all filters.                     *)
LEMMA RunResultCountIs ==
  ASSUME NEW q
  PROVE  RunResultCount(q) = Count(Rows(q, "nothing"), q.filter)
BY DEF RunResultCount, Results, Count

(* Of the filter, a count only depends on whether bugs are counted.        *)
LEMMA UniqueDecides ==
  ASSUME NEW rows, NEW f, NEW g, f.unique = g.unique
  PROVE  Count(rows, f) = Count(rows, g)
BY DEF Count

-----------------------------------------------------------------------------
(* Every group by a function of the hash adds up.                          *)
LEMMA GroupedAddsUp ==
  ASSUME IsFiniteSet(DOMAIN reports), NEW q \in Asked,
         NEW field \in {"file", "checker", "message", "severity"}, NEW key,
         \A r, s \in Rows(q, field) : HashOf(r) = HashOf(s) => key[r] = key[s]
  PROVE  Total(Grouped(Rows(q, field), key, q.filter)) = RunResultCount(Without(q, field))
<1> DEFINE plain == Without(q, field)
<1>1. Rows(q, field) = Rows(plain, "nothing") /\ plain.filter.unique = q.filter.unique
  BY LeftOut
<1>2. Total(Grouped(Rows(q, field), key, q.filter)) = Count(Rows(q, field), q.filter)
  <2> DEFINE rows == Rows(q, field)
             filter == q.filter
  <2>1. filter.unique \in BOOLEAN /\ IsFiniteSet(rows)
    BY AskedAssumption, RowsFinite
  <2>2. \A r, s \in rows : HashOf(r) = HashOf(s) => key[r] = key[s]
    OBVIOUS
  <2> HIDE DEF rows, filter
  <2>3. Total(Grouped(rows, key, filter)) = Count(rows, filter)
    BY <2>1, <2>2, GroupsAddUp
  <2> QED BY <2>3 DEF rows, filter
<1> HIDE DEF plain
<1>3. RunResultCount(plain) = Count(Rows(plain, "nothing"), plain.filter)
  BY RunResultCountIs
<1>4. Count(Rows(plain, "nothing"), plain.filter) = Count(Rows(q, field), q.filter)
  BY <1>1, UniqueDecides
<1> QED BY <1>2, <1>3, <1>4 DEF plain

(* A column of the rows that is a function of the hash.                    *)
Column(rows, of) == [row \in rows |-> of[HashOf(row)]]

(* What CheckerCounts groups by.                                           *)
CheckerAndSeverity == [h \in Hash |-> <<CheckerOf[h], SeverityOf[h]>>]

(* The rows of a query are of bugs.                                        *)
LEMMA HashTyped ==
  ASSUME DOMAIN reports \subseteq Run \X Occurrence, NEW q, NEW but, NEW row \in Rows(q, but)
  PROVE  HashOf(row) \in Hash
BY DEF Rows, HashOf, Occurrence

(* The counts of four fields group the rows by a column of their bugs.     *)
LEMMA CountsByHash ==
  ASSUME DOMAIN reports \subseteq Run \X Occurrence, NEW q
  PROVE  /\ CheckerCounts(q)
              = Grouped(Rows(q, "checker"), Column(Rows(q, "checker"), CheckerAndSeverity), q.filter)
         /\ SeverityCounts(q)
              = Grouped(Rows(q, "severity"), Column(Rows(q, "severity"), SeverityOf), q.filter)
         /\ CheckerMsgCounts(q)
              = Grouped(Rows(q, "message"), Column(Rows(q, "message"), MessageOf), q.filter)
         /\ FileCounts(q) = Grouped(Rows(q, "file"), Column(Rows(q, "file"), FileOf), q.filter)
<1>1. CheckerCounts(q)
        = Grouped(Rows(q, "checker"), Column(Rows(q, "checker"), CheckerAndSeverity), q.filter)
  <2> DEFINE rows == Rows(q, "checker")
             key  == Column(rows, CheckerAndSeverity)
  <2>1. \A row \in rows : HashOf(row) \in Hash
    BY HashTyped
  <2> HIDE DEF rows
  <2>2. \A row \in rows : key[row] = <<CheckerOf[HashOf(row)], SeverityOf[HashOf(row)]>>
    BY <2>1 DEF Column, CheckerAndSeverity
  <2> HIDE DEF key
  <2>3. /\ {key[row] : row \in rows} = {<<CheckerOf[HashOf(row)], SeverityOf[HashOf(row)]>> : row \in rows}
        /\ \A k : {row \in rows : key[row] = k}
                    = {row \in rows : <<CheckerOf[HashOf(row)], SeverityOf[HashOf(row)]>> = k}
    BY <2>2
  <2>4. CheckerCounts(q)
          = [k \in {<<CheckerOf[HashOf(row)], SeverityOf[HashOf(row)]>> : row \in rows} |->
               Count({row \in rows : <<CheckerOf[HashOf(row)], SeverityOf[HashOf(row)]>> = k}, q.filter)]
    BY DEF CheckerCounts, GroupBy, rows
  <2> QED BY <2>3, <2>4 DEF Grouped, Keys, key, rows
<1>2. SeverityCounts(q)
        = Grouped(Rows(q, "severity"), Column(Rows(q, "severity"), SeverityOf), q.filter)
  BY DEF SeverityCounts, GroupBy, Grouped, Keys, Column
<1>3. CheckerMsgCounts(q)
        = Grouped(Rows(q, "message"), Column(Rows(q, "message"), MessageOf), q.filter)
  BY DEF CheckerMsgCounts, GroupBy, Grouped, Keys, Column
<1>4. FileCounts(q) = Grouped(Rows(q, "file"), Column(Rows(q, "file"), FileOf), q.filter)
  BY DEF FileCounts, GroupBy, Grouped, Keys, Column
<1> QED BY <1>1, <1>2, <1>3, <1>4

(* Checkers, severities, messages and files: each row of a bug has the     *)
(* same, so the counts add up to the results without that filter.          *)
LEMMA FieldsAddUp ==
  ASSUME DOMAIN reports \subseteq Run \X Occurrence, IsFiniteSet(DOMAIN reports), NEW q \in Asked
  PROVE  /\ Total(CheckerCounts(q)) = RunResultCount(Without(q, "checker"))
         /\ Total(SeverityCounts(q)) = RunResultCount(Without(q, "severity"))
         /\ Total(CheckerMsgCounts(q)) = RunResultCount(Without(q, "message"))
         /\ Total(FileCounts(q)) = RunResultCount(Without(q, "file"))
<1>1. ASSUME NEW rows, NEW of, NEW r \in rows, NEW s \in rows, HashOf(r) = HashOf(s)
      PROVE  Column(rows, of)[r] = Column(rows, of)[s]
  BY <1>1 DEF Column
<1>2. ASSUME NEW field \in {"file", "checker", "message", "severity"}, NEW of
      PROVE  Total(Grouped(Rows(q, field), Column(Rows(q, field), of), q.filter))
               = RunResultCount(Without(q, field))
  <2> DEFINE key == Column(Rows(q, field), of)
  <2>1. \A r, s \in Rows(q, field) : HashOf(r) = HashOf(s) => key[r] = key[s]
    BY <1>1
  <2> HIDE DEF key
  <2>2. Total(Grouped(Rows(q, field), key, q.filter)) = RunResultCount(Without(q, field))
    BY <1>2, <2>1, GroupedAddsUp
  <2> QED BY <2>2 DEF key
<1> QED BY <1>2, CountsByHash

(* Detection statuses are counted row by row, so each row is in one group, *)
(* without uniqueing.                                                      *)
LEMMA DetectionAddsUp ==
  ASSUME IsFiniteSet(DOMAIN reports), NEW q \in Asked,
         q.filter.since = Unset, q.filter.before = Unset
  PROVE  Total(DetectionStatusCounts(q))
           = RunResultCount([Without(q, "detection") EXCEPT !.filter.unique = FALSE])
<1> DEFINE rows  == Rows(q, "detection")
           plain == [Without(q, "detection") EXCEPT !.filter.unique = FALSE]
           once  == [unique |-> FALSE]
           key   == [row \in rows |-> Status(row)]
<1>1. rows = Rows(Without(q, "detection"), "nothing")
  BY LeftOut
<1>2. /\ plain.runs = Without(q, "detection").runs /\ plain.cmp = Without(q, "detection").cmp
      /\ plain.filter = [Without(q, "detection").filter EXCEPT !.unique = FALSE]
      /\ plain.filter.unique = FALSE
  <2>1. /\ q = [runs |-> q.runs, filter |-> q.filter, cmp |-> q.cmp]
        /\ q.filter = [f \in DOMAIN NoFilter |-> q.filter[f]]
    BY AskedAssumption DEF Question
  <2>2. "unique" \in DOMAIN NoFilter
    BY DEF NoFilter
  <2> QED BY <2>1, <2>2 DEF Without
<1> HIDE DEF plain
<1>3. Rows(plain, "nothing") = rows
  <2>1. RunIdsToQuery(plain) = RunIdsToQuery(Without(q, "detection"))
    BY <1>2 DEF RunIdsToQuery
  <2>2. \A row : Passes(row, plain.filter, "nothing") <=> Passes(row, Without(q, "detection").filter, "nothing")
    <3> DEFINE F == Without(q, "detection").filter
    <3> HIDE DEF F
    <3>1. plain.filter = [F EXCEPT !.unique = FALSE]
      BY <1>2 DEF F
    <3> QED BY <3>1 DEF Passes, Like, In, DateOf, InReview, F
  <2> QED BY <1>1, <1>2, <2>1, <2>2 DEF Rows
<1>4. DetectionStatusCounts(q) = Grouped(rows, key, once)
  BY DEF DetectionStatusCounts, GroupBy, Grouped, Keys, Count
<1>5. Total(Grouped(rows, key, once)) = Count(rows, once)
  <2>1. once.unique \in BOOLEAN /\ ~once.unique /\ IsFiniteSet(rows)
    BY RowsFinite
  <2> HIDE DEF once, rows, key
  <2> QED BY <2>1, GroupsAddUp
<1>6. RunResultCount(plain) = Count(rows, once)
  <2>1. RunResultCount(plain) = Count(Rows(plain, "nothing"), plain.filter)
    BY RunResultCountIs
  <2>2. plain.filter.unique = once.unique
    BY <1>2
  <2> HIDE DEF once, rows
  <2>3. Count(rows, plain.filter) = Count(rows, once)
    BY <2>2, UniqueDecides
  <2> QED BY <1>3, <2>1, <2>3
<1> QED BY <1>4, <1>5, <1>6 DEF plain

(* No review counts as unreviewed: the groups of NULL and of this status   *)
(* are added up, and no row is in both.                                    *)
LEMMA ReviewStatusAddsUp ==
  ASSUME IsFiniteSet(DOMAIN reports), NEW q \in Asked
  PROVE  Total(ReviewStatusCounts(q)) = RunResultCount(Without(q, "review"))
<1> DEFINE rows    == Rows(q, "review")
           plain   == Without(q, "review")
           key     == [row \in rows |-> ReviewOf(row)]
           keys    == Keys(rows, key)
           group   == Grouped(rows, key, q.filter)
           part    == Parts(rows, key, q.filter)
           name(k) == IF k = None THEN "unreviewed" ELSE k
           names   == {name(k) : k \in keys}
           of(n)   == {k \in keys : name(k) = n}
           whole   == [n \in names |-> Whole(part, of(n))]
           counts  == ReviewStatusCounts(q)
<1>1. rows = Rows(plain, "nothing") /\ plain.filter.unique = q.filter.unique
  BY LeftOut
<1>2. IsFiniteSet(rows) /\ q.filter.unique \in BOOLEAN
  BY RowsFinite, AskedAssumption
<1>3. \A r, s \in rows : HashOf(r) = HashOf(s) => key[r] = key[s]
  BY DEF ReviewOf
<1>4. group = GroupBy(rows, ReviewOf, LAMBDA S : Count(S, q.filter))
  BY DEF GroupBy, Grouped, Keys
<1>5. DOMAIN group = keys
  BY DEF Grouped
<1>6. counts = [n \in names |-> SumOver(group, of(n))]
  <2> HIDE DEF group, keys
  <2> DEFINE g == GroupBy(Rows(q, "review"), ReviewOf, LAMBDA S : Count(S, q.filter))
  <2>1. g = group /\ DOMAIN g = keys
    BY <1>4, <1>5
  <2>2. counts = [n \in {name(k) : k \in DOMAIN g} |->
                   MapThenSumSet(LAMBDA k : g[k], {k \in DOMAIN g : name(k) = n})]
    BY DEF ReviewStatusCounts
  <2> HIDE DEF g, counts
  <2>3. counts = [n \in {name(k) : k \in DOMAIN g} |-> SumOver(g, {k \in DOMAIN g : name(k) = n})]
    BY <2>2 DEF SumOver
  <2> QED BY <2>1, <2>3
<1> HIDE DEF rows, plain, key
<1>7. Sizes(group, keys, part) /\ Whole(part, keys) = Counted(rows, q.filter)
  <2> DEFINE filter == q.filter
  <2>1. filter.unique \in BOOLEAN
    BY <1>2
  <2> HIDE DEF filter
  <2>2. /\ Sizes(Grouped(rows, key, filter), Keys(rows, key), Parts(rows, key, filter))
        /\ Whole(Parts(rows, key, filter), Keys(rows, key)) = Counted(rows, filter)
    BY <1>2, <1>3, <2>1, GroupsApart
  <2> QED BY <2>2 DEF filter
<1> HIDE DEF keys, group, part
<1>8. IsFiniteSet(names)
  <2> DEFINE f == [k \in keys |-> name(k)]
  <2>1. names = {f[k] : k \in keys}
    OBVIOUS
  <2> HIDE DEF f, names
  <2> QED BY <1>7, <2>1, ImageFinite DEF Sizes
<1>9. \A n \in names : IsFiniteSet(whole[n]) /\ counts[n] = Cardinality(whole[n])
  <2> SUFFICES ASSUME NEW n \in names PROVE IsFiniteSet(whole[n]) /\ counts[n] = Cardinality(whole[n])
    OBVIOUS
  <2>1. of(n) \subseteq keys /\ IsFiniteSet(of(n))
    BY <1>7, FS_Subset DEF Sizes
  <2>2. counts[n] = SumOver(group, of(n)) /\ whole[n] = Whole(part, of(n))
    BY <1>6
  <2> HIDE DEF of, whole, counts, names
  <2>3. IsFiniteSet(Whole(part, of(n))) /\ SumOver(group, of(n)) = Cardinality(Whole(part, of(n)))
    <3>1. Sizes(group, of(n), part)
      BY <1>7, <2>1 DEF Sizes
    <3> QED BY <3>1, SumOfSizes
  <2> QED BY <2>2, <2>3
<1>10. \A m, n \in names : m # n => whole[m] \cap whole[n] = {}
  <2> SUFFICES ASSUME NEW m \in names, NEW n \in names, m # n,
                      NEW x \in whole[m], x \in whole[n]
               PROVE FALSE
    OBVIOUS
  <2>1. PICK j \in of(m) : x \in part[j]
    BY DEF Whole
  <2>2. PICK k \in of(n) : x \in part[k]
    BY DEF Whole
  <2>3. j # k /\ j \in keys /\ k \in keys
    BY <2>1, <2>2
  <2> QED BY <1>7, <2>1, <2>2, <2>3 DEF Sizes
<1>11. Whole(whole, names) = Whole(part, keys)
  <2>1. ASSUME NEW x \in Whole(whole, names) PROVE x \in Whole(part, keys)
    <3>1. PICK n \in names : x \in whole[n]
      BY <2>1 DEF Whole
    <3>2. PICK k \in of(n) : x \in part[k]
      BY <3>1 DEF Whole
    <3> QED BY <3>2 DEF Whole
  <2>2. ASSUME NEW x \in Whole(part, keys) PROVE x \in Whole(whole, names)
    <3>1. PICK k \in keys : x \in part[k]
      BY <2>2 DEF Whole
    <3>2. name(k) \in names /\ k \in of(name(k))
      BY <3>1
    <3>3. x \in whole[name(k)]
      BY <3>1, <3>2 DEF Whole
    <3> HIDE DEF whole, name, names
    <3> QED BY <3>2, <3>3 DEF Whole
  <2> QED BY <2>1, <2>2
<1>12. Total(counts) = Cardinality(Whole(whole, names))
  <2>1. DOMAIN counts = names
    BY <1>6
  <2> HIDE DEF counts, names, whole
  <2>2. Total(counts) = SumOver(counts, names)
    BY <2>1 DEF Total, SumOver
  <2>3. Sizes(counts, names, whole)
    BY <1>8, <1>9, <1>10 DEF Sizes
  <2> QED BY <2>2, <2>3, SumOfSizes
<1>13. RunResultCount(plain) = Count(rows, q.filter)
  <2>1. RunResultCount(plain) = Count(Rows(plain, "nothing"), plain.filter)
    BY RunResultCountIs
  <2>2. Count(rows, plain.filter) = Count(rows, q.filter)
    BY <1>1, UniqueDecides
  <2> QED BY <1>1, <2>1, <2>2
<1>14. Count(rows, q.filter) = Cardinality(Counted(rows, q.filter))
  BY <1>2, CountIs
<1> HIDE DEF counts, whole, names
<1>15. Total(counts) = RunResultCount(plain)
  BY <1>7, <1>11, <1>12, <1>13, <1>14
<1> QED BY <1>15 DEF counts, plain

-----------------------------------------------------------------------------
(* CodeChecker cmd sum: the columns of the review statuses.                *)
SumQuestion(values) ==
  Question(runs, [[NoFilter EXCEPT !.unique = TRUE] EXCEPT !["review"] = values], Unset)

(* The number of a checker in a column: what is not there is 0.            *)
At(column, c) == IF c \in DOMAIN column THEN column[c] ELSE 0

(* The bugs of a checker that have one of these reviews.                   *)
Bugs(values, c) ==
  {HashOf(row) : row \in {r \in Rows(SumQuestion(values), "checker") : CheckerAndSeverity[HashOf(r)] = c}}

(* The rows of a column are the reports with one of these reviews.         *)
LEMMA SumRows ==
  ASSUME DOMAIN reports \subseteq runs \X Occurrence, NEW values
  PROVE  /\ Rows(SumQuestion(values), "checker") = {row \in DOMAIN reports : InReview(row, values)}
         /\ SumQuestion(values).filter.unique = TRUE
<1> DEFINE F == [[NoFilter EXCEPT !.unique = TRUE] EXCEPT !["review"] = values]
           Q == SumQuestion(values)
<1>1. /\ F.file = Unset /\ F.message = Unset /\ F.hash = Unset /\ F.severity = Unset
      /\ F.detection = Unset /\ F.review = values /\ F.since = Unset /\ F.before = Unset
      /\ F.tags = Unset /\ F.unique = TRUE
  BY DEF NoFilter
<1>2. Q.runs = runs /\ Q.filter = F /\ Q.cmp = Unset
  BY DEF SumQuestion, Question
<1> HIDE DEF F, Q
<1>3. \A row : Passes(row, F, "checker") <=> InReview(row, values)
  BY <1>1 DEF Passes, Like, In
<1>4. RunIdsToQuery(Q) = runs
  BY <1>2 DEF RunIdsToQuery
<1>5. \A row \in DOMAIN reports : RunOf(row) \in runs /\ HashOf(row) \in Hash
  BY DEF RunOf, HashOf, Occurrence
<1>6. Rows(Q, "checker") = {row \in DOMAIN reports : InReview(row, values)}
  BY <1>2, <1>3, <1>4, <1>5 DEF Rows
<1> QED BY <1>1, <1>2, <1>6 DEF Q

(* A number in a column is how many bugs of the checker have these         *)
(* reviews.                                                                *)
LEMMA ColumnIs ==
  ASSUME DOMAIN reports \subseteq runs \X Occurrence, runs \subseteq Run,
         IsFiniteSet(DOMAIN reports), NEW values, NEW c
  PROVE  /\ IsFiniteSet(Bugs(values, c))
         /\ At(SumColumn(runs, "review", values), c) = Cardinality(Bugs(values, c))
<1> DEFINE Q    == SumQuestion(values)
           rows == Rows(Q, "checker")
           key  == Column(rows, CheckerAndSeverity)
           some == {row \in rows : key[row] = c}
           col  == SumColumn(runs, "review", values)
<1>1. col = CheckerCounts(Q)
  BY DEF SumColumn, SumQuestion
<1>2. col = Grouped(rows, key, Q.filter)
  <2>1. DOMAIN reports \subseteq Run \X Occurrence
    OBVIOUS
  <2> HIDE DEF Q
  <2>2. CheckerCounts(Q) = Grouped(rows, key, Q.filter)
    BY <2>1, CountsByHash
  <2> QED BY <1>1, <2>2
<1>3. Q.filter.unique = TRUE
  BY SumRows
<1>4. IsFiniteSet(rows)
  BY RowsFinite
<1>5. \A row \in rows : key[row] = CheckerAndSeverity[HashOf(row)]
  BY DEF Column
<1> HIDE DEF Q, rows, key, col
<1>6. Bugs(values, c) = {HashOf(row) : row \in some}
  <2>1. some = {r \in rows : CheckerAndSeverity[HashOf(r)] = c}
    BY <1>5
  <2> QED BY <2>1 DEF Bugs, rows, Q
<1>7. IsFiniteSet(some)
  BY <1>4, FS_Subset
<1>8. Bugs(values, c) = Counted(some, Q.filter)
  BY <1>3, <1>6 DEF Counted
<1>9. IsFiniteSet(Bugs(values, c)) /\ Count(some, Q.filter) = Cardinality(Bugs(values, c))
  <2> HIDE DEF some
  <2> QED BY <1>7, <1>8, CountIs
<1>10. CASE c \in DOMAIN col
  <2>1. c \in Keys(rows, key) /\ col[c] = Count(some, Q.filter)
    BY <1>2, <1>10 DEF Grouped
  <2> QED BY <1>9, <1>10, <2>1 DEF At, col
<1>11. CASE c \notin DOMAIN col
  <2>1. c \notin Keys(rows, key)
    BY <1>2, <1>11 DEF Grouped
  <2>2. some = {}
    BY <2>1 DEF Keys
  <2>3. Bugs(values, c) = {}
    BY <1>6, <2>2
  <2>4. Cardinality(Bugs(values, c)) = 0
    BY <2>3, FS_EmptySet
  <2> QED BY <1>9, <1>11, <2>4 DEF At, col
<1> QED BY <1>10, <1>11

PerStatus(c) == [s \in ReviewStatus |-> Bugs({s}, c)]

(* A bug has one review status, or none and counts as unreviewed.          *)
LEMMA StatusesSplit ==
  ASSUME DOMAIN reports \subseteq runs \X Occurrence, NEW c,
         \A h \in DOMAIN reviews : reviews[h].status \in ReviewStatus
  PROVE  /\ Whole(PerStatus(c), ReviewStatus) = Bugs(Unset, c)
         /\ \A s, t \in ReviewStatus : s # t => PerStatus(c)[s] \cap PerStatus(c)[t] = {}
<1> DEFINE part == PerStatus(c)
           meant(h) == IF h \in DOMAIN reviews THEN reviews[h].status ELSE "unreviewed"
<1>1. \A h : meant(h) \in ReviewStatus
  BY DEF ReviewStatus
<1>2. ASSUME NEW s \in ReviewStatus, NEW row PROVE InReview(row, {s}) <=> meant(HashOf(row)) = s
  BY AskedAssumption DEF InReview, ReviewOf
<1>3. ASSUME NEW s \in ReviewStatus
      PROVE  Bugs({s}, c) = {h \in Bugs(Unset, c) : meant(h) = s}
  <2>1. /\ Rows(SumQuestion({s}), "checker") = {row \in DOMAIN reports : InReview(row, {s})}
        /\ Rows(SumQuestion(Unset), "checker") = {row \in DOMAIN reports : InReview(row, Unset)}
    BY SumRows
  <2>2. \A row \in DOMAIN reports : InReview(row, Unset)
    BY DEF InReview
  <2>3. Rows(SumQuestion({s}), "checker")
          = {row \in Rows(SumQuestion(Unset), "checker") : meant(HashOf(row)) = s}
    BY <1>2, <2>1, <2>2
  <2> HIDE DEF meant
  <2> QED BY <2>3 DEF Bugs
<1>6. \A s \in ReviewStatus : part[s] = {h \in Bugs(Unset, c) : meant(h) = s}
  BY <1>3 DEF PerStatus
<1> HIDE DEF meant, part
<1>4. UNION {part[s] : s \in ReviewStatus} = Bugs(Unset, c)
  BY <1>1, <1>6
<1>5. \A s, t \in ReviewStatus : s # t => part[s] \cap part[t] = {}
  BY <1>6
<1> QED BY <1>4, <1>5 DEF Whole, part

(* The columns of the review statuses add up to the first one.             *)
LEMMA SumIsRight ==
  ASSUME DOMAIN reports \subseteq runs \X Occurrence, runs \subseteq Run,
         IsFiniteSet(DOMAIN reports),
         \A h \in DOMAIN reviews : reviews[h].status \in ReviewStatus
  PROVE  SumAddsUp
<1> SUFFICES ASSUME NEW c \in DOMAIN SumColumn(runs, "review", Unset)
             PROVE  SumColumn(runs, "review", Unset)[c]
                      = MapThenSumSet(LAMBDA s : At(SumColumn(runs, "review", {s}), c), ReviewStatus)
  BY DEF SumAddsUp, At
<1> DEFINE e    == [s \in ReviewStatus |-> At(SumColumn(runs, "review", {s}), c)]
           part == PerStatus(c)
<1>1. Sizes(e, ReviewStatus, part)
  <2>1. IsFiniteSet(ReviewStatus)
    <3>1. IsFiniteSet({}) /\ ReviewStatus = ((({} \cup {"unreviewed"}) \cup {"confirmed"})
                                             \cup {"false_positive"}) \cup {"intentional"}
      BY FS_EmptySet DEF ReviewStatus
    <3> QED BY <3>1, FS_AddElement
  <2>2. \A s \in ReviewStatus : IsFiniteSet(part[s]) /\ e[s] = Cardinality(part[s])
    BY ColumnIs DEF PerStatus
  <2>3. \A s, t \in ReviewStatus : s # t => part[s] \cap part[t] = {}
    BY StatusesSplit
  <2> HIDE DEF e, part
  <2> QED BY <2>1, <2>2, <2>3 DEF Sizes
<1>2. Whole(part, ReviewStatus) = Bugs(Unset, c)
  BY StatusesSplit
<1>3. SumColumn(runs, "review", Unset)[c] = Cardinality(Bugs(Unset, c))
  BY ColumnIs DEF At
<1>4. MapThenSumSet(LAMBDA s : At(SumColumn(runs, "review", {s}), c), ReviewStatus)
        = SumOver(e, ReviewStatus)
  <2> DEFINE d(s) == At(SumColumn(runs, "review", {s}), c)
             g == CHOOSE iter : iter = [t \in SUBSET ReviewStatus |->
                    IF t = {} THEN 0
                    ELSE d(CHOOSE x \in t : TRUE) + iter[t \ {CHOOSE x \in t : TRUE}]]
  <2>1. PICK h : IsSum(h, e, ReviewStatus) /\ SumOver(e, ReviewStatus) = h[ReviewStatus]
    BY <1>1, FoldIsSum DEF Sizes
  <2>2. MapThenSumSet(LAMBDA s : At(SumColumn(runs, "review", {s}), c), ReviewStatus)
          = g[ReviewStatus]
    BY DEF MapThenSumSet, MapThenFoldSet
  <2>3. \A t \in SUBSET ReviewStatus : t # {} => e[First(t)] = d(First(t))
    BY FirstIn
  <2> HIDE DEF d, e
  <2>4. h = [t \in SUBSET ReviewStatus |->
               IF t = {} THEN 0 ELSE d(First(t)) + h[t \ {First(t)}]]
    BY <2>1, <2>3 DEF IsSum
  <2>5. g = [t \in SUBSET ReviewStatus |->
               IF t = {} THEN 0 ELSE d(First(t)) + g[t \ {First(t)}]]
    BY <2>4 DEF First
  <2> HIDE DEF g
  <2>6. IsSum(g, e, ReviewStatus)
    BY <2>3, <2>5 DEF IsSum
  <2>7. g[ReviewStatus] = h[ReviewStatus]
    BY <1>1, <2>1, <2>6, SumUnique DEF Sizes
  <2> QED BY <2>1, <2>2, <2>7
<1> HIDE DEF e, part
<1>5. SumOver(e, ReviewStatus) = Cardinality(Whole(part, ReviewStatus))
  BY <1>1, SumOfSizes
<1> QED BY <1>2, <1>3, <1>4, <1>5

-----------------------------------------------------------------------------
LEMMA CountsAreRight == Inv => CountsAgree
<1> SUFFICES ASSUME Inv PROVE CountsAgree
  OBVIOUS
<1>1. /\ runs \subseteq Run
      /\ IsFiniteSet(DOMAIN reports) /\ DOMAIN reports \subseteq runs \X Occurrence
      /\ DOMAIN reports \subseteq Run \X Occurrence
      /\ \A h \in DOMAIN reviews : reviews[h].status \in ReviewStatus
  BY DEF Inv, TypeInv, IsTable, ReviewRow
<1>2. CountsAddUp
  <2> SUFFICES ASSUME NEW q \in Asked
               PROVE  /\ Total(CheckerCounts(q)) = RunResultCount(Without(q, "checker"))
                      /\ Total(SeverityCounts(q)) = RunResultCount(Without(q, "severity"))
                      /\ Total(CheckerMsgCounts(q)) = RunResultCount(Without(q, "message"))
                      /\ Total(FileCounts(q)) = RunResultCount(Without(q, "file"))
                      /\ Total(ReviewStatusCounts(q)) = RunResultCount(Without(q, "review"))
                      /\ q.filter.since = Unset /\ q.filter.before = Unset =>
                           Total(DetectionStatusCounts(q))
                             = RunResultCount([Without(q, "detection")
                                                 EXCEPT !.filter.unique = FALSE])
    BY DEF CountsAddUp
  <2> QED BY <1>1, FieldsAddUp, ReviewStatusAddsUp, DetectionAddsUp
<1>3. SumAddsUp
  BY <1>1, SumIsRight
<1> QED BY <1>2, <1>3 DEF CountsAgree

(* The numbers next to the values of a filter add up to the results that   *)
(* are shown without that filter, and the columns of CodeChecker cmd sum   *)
(* to its first one (the get...Counts and getRunResultCount of             *)
(* report_server.py, handle_list_result_types of cmd_line_client.py).      *)
THEOREM CountsAgreeCorrect == Spec => []CountsAgree
<1>1. Inv => CountsAgree
  BY CountsAreRight
<1> QED BY <1>1, Invariance, PTL
=============================================================================
