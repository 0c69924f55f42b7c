------------------------------- MODULE Review -------------------------------
(***************************************************************************)
(* Several users of one product: stores and removals of runs, reviews and  *)
(* comments (changeReviewStatus, addComment, updateComment, removeComment  *)
(* of server/api/report_server.py), and the commands of the client that    *)
(* take more than one request (CodeChecker cmd results, del).              *)
(*                                                                         *)
(* A request reads its row in a query of its own and writes it later; the  *)
(* write and the commit are one step, since nobody else can write in       *)
(* between.  A store is one step here: ReportStore and MassStore have its  *)
(* parts, and BugLifecycle, which ReportStore implements, the statuses.    *)
(***************************************************************************)
EXTENDS Queries, Sequences, SequencesExt

CONSTANTS
  User,         \* with "Anonymous" when some requests are not authenticated
  Message,      \* of reviews and comments
  Tag,          \* of stores
  Request,      \* requests that are served at the same time
  MaxQuerySize, \* MAX_QUERY_SIZE of the API
  Asked,        \* the questions the properties are about, and those listed
  Bounds        \* each behaviour has one of them: how many stores, reviews,
                \* comments and commands there are, what stores find, and the
                \* users, statuses, texts and tags there are

(* What one behaviour may spend, and what is stored, asked and written.     *)
Budget ==
  [store : Nat, review : Nat, comment : Nat, client : Nat,
   found : SUBSET {found \in SUBSET Occurrence : IsFiniteSet(found)},
   users : SUBSET User, statuses : SUBSET ReviewStatus, texts : SUBSET Message,
   tags : SUBSET (Tag \cup {None})]

ASSUME ReviewAssumption ==
  /\ Bounds \subseteq Budget
  /\ SeverityOf \in [Hash -> Nat]
  /\ MaxQuerySize \in Nat \ {0}
  /\ "source" \in Message       \* of reviews made by comments in the code
  /\ \A ids \in SUBSET Run, type \in DiffType : [runs |-> ids, type |-> type] # Unset

(* What is asked is a question with all the fields of a filter, and no     *)
(* review status is confused with a missing one.                           *)
ASSUME AskedAssumption ==
  /\ \A q \in Asked : /\ q = Question(q.runs, q.filter, q.cmp)
                      /\ q.filter = [field \in DOMAIN NoFilter |-> q.filter[field]]
                      /\ q.filter.unique \in BOOLEAN
  /\ \A status \in ReviewStatus : {status} # Unset
  /\ None \notin ReviewStatus

VARIABLES
  bound,     \* bounds on the steps and inputs, see Bounds
  clock,     \* number of stores, the time
  comments,  \* rows: [finite set of ids -> [hash, author, message, born]]
  born,      \* number of comments ever made
  requests,  \* what a request has read and will write
  client     \* the command that somebody runs

tables == <<runs, reports, reviews, history>>
reviewVars == <<tables, bound, clock, comments, born, requests, client>>

Idle == [state |-> "idle"]

Row == [status : DetectionStatus, detected : Nat, fixed : Nat \cup {None}]
ReviewRow == [status : ReviewStatus, author : User, message : Message]
CommentRow == [hash : Hash, author : User, message : Message, born : Nat]

(* The types, and each row belongs to a run there is.                      *)
TypeOK ==
  /\ runs \subseteq Run
  /\ DOMAIN reports \subseteq runs \X Occurrence /\ \A row \in DOMAIN reports : reports[row] \in Row
  /\ DOMAIN reviews \subseteq Hash /\ \A h \in DOMAIN reviews : reviews[h] \in ReviewRow
  /\ \A h \in history : h.run \in runs /\ h.time \in 1..clock /\ h.tag \in Tag \cup {None}
  /\ \A id \in DOMAIN comments : id \in Nat /\ comments[id] \in CommentRow
  /\ \A q \in Request : requests[q].state \in {"idle", "review", "update", "remove"}
  /\ client.state \in {"idle", "listing", "listed", "deleting", "refused"}

Init ==
  /\ bound \in Bounds
  /\ runs = {} /\ history = {} /\ clock = 0 /\ born = 0
  /\ reports = [r \in {} |-> None] /\ reviews = [h \in {} |-> None]
  /\ comments = [c \in {} |-> None]
  /\ requests = [q \in Request |-> Idle]
  /\ client = Idle

Spend(what) == bound[what] > 0 /\ bound' = [bound EXCEPT ![what] = @ - 1]

(* A client in the middle of a listing: the answers to come are of other   *)
(* tables than those it had.                                               *)
ClientSees ==
  client' = IF client.state \in {"listing", "listed"} THEN [client EXCEPT !.dirty = TRUE] ELSE client

Put(rows, key, row) ==
  [k \in DOMAIN rows \cup {key} |-> IF k = key THEN row ELSE rows[k]]

RowsOf(run) == {row \in DOMAIN reports : RunOf(row) = run}

(* The time of the last store of a run, its date.                          *)
Date(run) == Max({0} \cup {h.time : h \in {k \in history : k.run = run}})
-----------------------------------------------------------------------------
Lifecycle == INSTANCE BugLifecycle WITH status <- reports   \* for its Found

(* The row of an occurrence after a store at this time; the statuses are   *)
(* those of BugLifecycle, the times those of ReportStore.                  *)
Stored(row, found) ==
  LET old == IF row \in DOMAIN reports THEN reports[row]
             ELSE [status |-> "absent", detected |-> clock + 1, fixed |-> None]
  IN  IF row[2] \in found
      THEN [status |-> Lifecycle!Found(old.status, FALSE), detected |-> old.detected,
            fixed |-> None]
      ELSE [status |-> "resolved", detected |-> old.detected, fixed |-> clock + 1]

(* Mutant: the tag stays at the earlier history.                           *)
TaggedTwice(run, tag) ==
  history \cup {[run |-> run, time |-> clock + 1, tag |-> tag]}

(* addCheckerRun: a tag that an earlier store of the run had moves.        *)
Tagged(run, tag) ==
  {IF h.run = run /\ tag # None /\ h.tag = tag THEN [h EXCEPT !.tag = None] ELSE h : h \in history}
  \cup {[run |-> run, time |-> clock + 1, tag |-> tag]}

(* massStoreRun, acknowledged.  Bugs with a comment in the code that the   *)
(* server could read, `silenced', become false positives.                  *)
Store(run, found, tag, silenced, user) ==
  /\ Spend("store")
  /\ clock' = clock + 1
  /\ runs' = runs \cup {run}
  /\ LET rows == RowsOf(run) \cup {<<run, o>> : o \in found}
     IN  reports' = [row \in DOMAIN reports \cup rows |->
                       IF row \in rows THEN Stored(row, found) ELSE reports[row]]
  /\ history' = Tagged(run, tag)
  /\ reviews' = [h \in DOMAIN reviews \cup silenced |->
                   IF h \in silenced
                   THEN [status |-> "false_positive", author |-> user, message |-> "source"]
                   ELSE reviews[h]]
  /\ ClientSees
  /\ UNCHANGED <<comments, born, requests>>

(* A store with --force of a run there is: its row is deleted and the new  *)
(* one added in one flush, which inserts first; the name is unique, so the *)
(* request fails and everything is rolled back.  With a name that is new,  *)
(* the store is like any other.                                            *)
StoreForced(run) ==
  /\ client = Idle
  /\ Spend("store")
  /\ run \in runs
  /\ client' = [state |-> "refused"]
  /\ UNCHANGED <<tables, clock, comments, born, requests>>
-----------------------------------------------------------------------------
(* Mutant: the histories of the run stay.                                  *)
RemoveRunsWithoutHistory(ids) ==
  /\ runs' = runs \ ids
  /\ reports' = Restrict(reports, {row \in DOMAIN reports : RunOf(row) \notin ids})
  /\ UNCHANGED <<history, reviews>>

(* The reports and the histories go with their run.                        *)
RemoveRuns(ids) ==
  /\ runs' = runs \ ids
  /\ reports' = Restrict(reports, {row \in DOMAIN reports : RunOf(row) \notin ids})
  /\ history' = {h \in history : h.run \notin ids}
  /\ UNCHANGED reviews

(* changeReviewStatus: the report, then the review of its bug.             *)
ReadReview(q, user, status, message, row) ==
  /\ requests[q] = Idle
  /\ Spend("review")
  /\ row \in DOMAIN reports
  /\ requests' = [requests EXCEPT ![q] =
       [state |-> "review", hash |-> HashOf(row),
        asked |-> [status |-> status, author |-> user, message |-> message],
        read |-> IF HashOf(row) \in DOMAIN reviews THEN reviews[HashOf(row)] ELSE Idle]]
  /\ UNCHANGED <<tables, clock, comments, born, client>>

(* Mutant: the message is set for new reviews only.                        *)
UpdatedStatusOnly(q, row) ==
  [row EXCEPT !.status = requests[q].asked.status, !.author = requests[q].asked.author]

(* The UPDATE has the columns that differ from what was read.              *)
Updated(q, row) ==
  [c \in DOMAIN row |-> IF requests[q].asked[c] = requests[q].read[c]
                        THEN row[c] ELSE requests[q].asked[c]]

End(q) == requests' = [requests EXCEPT ![q] = Idle]

(* The flush and the commit.  Two first reviews of a bug both INSERT: the  *)
(* second violates the primary key and its request fails.                  *)
WriteReview(q) ==
  /\ requests[q].state = "review"
  /\ LET h == requests[q].hash
     IN  reviews' =
           IF requests[q].read # Idle THEN [reviews EXCEPT ![h] = Updated(q, @)]
           ELSE IF h \in DOMAIN reviews THEN reviews
           ELSE Put(reviews, h, requests[q].asked)
  /\ End(q)
  /\ ClientSees
  /\ UNCHANGED <<runs, reports, history, bound, clock, comments, born>>

(* The tables are locked for longer than the database waits.               *)
Fail(q) ==
  /\ requests[q] # Idle
  /\ End(q)
  /\ UNCHANGED <<tables, bound, clock, comments, born, client>>
-----------------------------------------------------------------------------
(* addComment.  SQLite gives the largest id plus one.                      *)
AddComment(user, message, row) ==
  /\ Spend("comment")
  /\ row \in DOMAIN reports
  /\ comments' = Put(comments, Max({0} \cup DOMAIN comments) + 1,
                     [hash |-> HashOf(row), author |-> user, message |-> message,
                      born |-> born + 1])
  /\ born' = born + 1
  /\ UNCHANGED <<tables, clock, requests, client>>

(* Mutant: whose comment it is only matters to users who are logged in.    *)
MayModifyAny(user, comment) ==
  comment.author = "Anonymous" \/ user = "Anonymous" \/ comment.author = user

MayModify(user, comment) == comment.author \in {"Anonymous", user}

(* updateComment and removeComment: the comment is read and its author     *)
(* compared with the user.                                                 *)
ReadComment(q, user, what, message, id) ==
  /\ requests[q] = Idle
  /\ Spend("comment")
  /\ id \in DOMAIN comments
  /\ MayModify(user, comments[id])
  /\ requests' = [requests EXCEPT ![q] =
       [state |-> what, id |-> id, user |-> user, message |-> message, read |-> comments[id]]]
  /\ UNCHANGED <<tables, clock, comments, born, client>>

(* Mutant: what is not there any more is written again.                    *)
UpdateOrInsertComment(q) ==
  /\ requests[q].state = "update"
  /\ comments' = Put(comments, requests[q].id,
                     [requests[q].read EXCEPT !.message = requests[q].message])
  /\ End(q)
  /\ UNCHANGED <<tables, bound, clock, born, client>>

(* The UPDATE of a row that is gone fails; an unchanged message makes none. *)
UpdateComment(q) ==
  /\ requests[q].state = "update"
  /\ comments' =
       IF requests[q].id \in DOMAIN comments /\ requests[q].message # requests[q].read.message
       THEN [comments EXCEPT ![requests[q].id].message = requests[q].message]
       ELSE comments
  /\ End(q)
  /\ UNCHANGED <<tables, bound, clock, born, client>>

RemoveComment(q) ==
  /\ requests[q].state = "remove"
  /\ comments' = Restrict(comments, DOMAIN comments \ {requests[q].id})
  /\ End(q)
  /\ UNCHANGED <<tables, bound, clock, born, client>>
-----------------------------------------------------------------------------
(* CodeChecker cmd results and diff: pages of MAX_QUERY_SIZE until an      *)
(* empty one.                                                              *)
BeginListing(q) ==
  /\ client = Idle
  /\ Spend("client")
  /\ client' = [state |-> "listing", question |-> q, offset |-> 0, got |-> {},
                count |-> 0, dirty |-> FALSE]
  /\ UNCHANGED <<tables, clock, comments, born, requests>>

(* Mutant: a limit at the maximum is lowered as well.                      *)
QueryLimitBelow(limit) == IF limit >= MaxQuerySize THEN MaxQuerySize - 1 ELSE limit

QueryLimit(limit) == IF limit > MaxQuerySize THEN MaxQuerySize ELSE limit

(* The rows in an order the ORDER BY allows: by severity, downwards.       *)
Ordered(rows) ==
  {s \in SetToSeqs(rows) :
     \A i, j \in 1..Len(s) :
       i < j => SeverityOf[HashOf(s[i])] >= SeverityOf[HashOf(s[j])]}

(* One call of getRunResults.  Rows of one severity may come in another    *)
(* order each time.                                                        *)
Page ==
  /\ client.state = "listing"
  /\ \E s \in Ordered(Results(client.question)) :
       LET to   == Min({client.offset + QueryLimit(MaxQuerySize), Len(s)})
           page == {s[i] : i \in (client.offset + 1)..to}
       IN  client' = IF page = {} THEN [client EXCEPT !.state = "listed"]
                     ELSE [client EXCEPT !.got = @ \cup page,
                                         !.count = @ + Cardinality(page),
                                         !.offset = @ + MaxQuerySize]
  /\ UNCHANGED <<tables, bound, clock, comments, born, requests>>

(* The web interface removes a run.                                        *)
RemoveFromWeb(run) ==
  /\ Spend("client")
  /\ run \in runs
  /\ RemoveRuns({run})
  /\ ClientSees
  /\ UNCHANGED <<clock, comments, born, requests>>

(* Mutant: the date of the run itself is let through.                      *)
SelectedWithRun(what, run) ==
  {r \in runs : IF what = "before" THEN Date(run) >= Date(r) ELSE Date(r) >= Date(run)}

(* CodeChecker cmd del --all-before-run or --all-after-run: the runs that  *)
(* the condition selects are gathered first.                               *)
Selected(what, run) ==
  {r \in runs : IF what = "before" THEN Date(run) > Date(r) ELSE Date(r) > Date(run)}

BeginDelete(what, run) ==
  /\ client = Idle
  /\ Spend("client")
  /\ run \in runs
  /\ client' = [state |-> "deleting", what |-> what, cutoff |-> Date(run),
                ids |-> Selected(what, run), dates |-> [r \in runs |-> Date(r)]]
  /\ UNCHANGED <<tables, clock, comments, born, requests>>

(* Then removed by their ids.  One that is gone makes the call raise       *)
(* before anything is removed.                                             *)
SendDelete ==
  /\ client.state = "deleting"
  /\ IF client.ids \subseteq runs THEN RemoveRuns(client.ids) ELSE UNCHANGED tables
  /\ client' = Idle
  /\ UNCHANGED <<bound, clock, comments, born, requests>>

(* The command ends with what it has printed.                              *)
Leave ==
  /\ client.state \in {"listed", "refused"}
  /\ client' = Idle
  /\ UNCHANGED <<tables, bound, clock, comments, born, requests>>
-----------------------------------------------------------------------------
StoreAny ==
  \E run \in Run, found \in bound.found, tag \in bound.tags, user \in bound.users :
    \E silenced \in SUBSET {o.hash : o \in found} : Store(run, found, tag, silenced, user)

RequestStep(q) ==
  \/ \E user \in bound.users, status \in bound.statuses, message \in bound.texts, row \in DOMAIN reports :
       ReadReview(q, user, status, message, row)
  \/ \E user \in bound.users, what \in {"update", "remove"}, message \in bound.texts, id \in DOMAIN comments :
       ReadComment(q, user, what, message, id)
  \/ WriteReview(q) \/ UpdateComment(q) \/ RemoveComment(q) \/ Fail(q)

ClientStep ==
  \/ \E q \in Asked : q.runs # {} /\ ~q.filter.unique /\ BeginListing(q)
  \/ \E what \in {"before", "after"}, run \in runs : BeginDelete(what, run)
  \/ Page \/ SendDelete \/ Leave

Next ==
  \/ StoreAny
  \/ \E run \in Run : StoreForced(run) \/ RemoveFromWeb(run)
  \/ \E q \in Request : RequestStep(q)
  \/ \E user \in bound.users, message \in bound.texts, row \in DOMAIN reports : AddComment(user, message, row)
  \/ ClientStep

Spec == Init /\ [][Next]_reviewVars

-----------------------------------------------------------------------------
(* Queries see the tables only, not the requests under way nor comments.   *)
AtRest == client = Idle /\ comments = <<>> /\ \A q \in Request : requests[q] = Idle

Total(counts) == MapThenSumSet(LAMBDA key : counts[key], DOMAIN counts)

Without(q, field) == [q EXCEPT !.filter[field] = Unset]

(* The numbers next to the values of a filter add up to the number of      *)
(* results that are shown when that filter is off, in every comparison and *)
(* with or without uniqueing (the get...Counts of report_server.py with    *)
(* getRunResultCount).  The detection status is never uniqued, and its     *)
(* filter also decides which date the date filters compare.                *)
CountsAddUp ==
  AtRest => \A q \in Asked :
    /\ Total(CheckerCounts(q)) = RunResultCount(Without(q, "checker"))
    /\ Total(SeverityCounts(q)) = RunResultCount(Without(q, "severity"))
    /\ Total(CheckerMsgCounts(q)) = RunResultCount(Without(q, "message"))
    /\ Total(FileCounts(q)) = RunResultCount(Without(q, "file"))
    /\ Total(ReviewStatusCounts(q)) = RunResultCount(Without(q, "review"))
    /\ q.filter.since = Unset /\ q.filter.before = Unset =>
         Total(DetectionStatusCounts(q))
           = RunResultCount([Without(q, "detection") EXCEPT !.filter.unique = FALSE])

(* The list of runs and the counts of one run agree with its results       *)
(* (getRunData, getRunReportCounts, getRunResultCount).                    *)
RunDataAgrees ==
  AtRest => \A run \in runs :
    LET all == Question({run}, NoFilter, Unset)
        one == RunReportCounts({run}, NoFilter)
    IN  /\ RunData(run).resultCount = RunResultCount(all)
        /\ RunData(run).detectionStatusCount = DetectionStatusCounts(all)
        /\ one = [r \in {RunOf(row) : row \in RowsOf(run)} |-> RunResultCount(all)]
        /\ \A h, k \in history : h.run = run /\ k.run = run /\ h.tag # None => (h.tag = k.tag => h = k)

(* The three comparisons with a base split what the base and the new runs  *)
(* have: every bug of the new runs is new or unresolved, every bug of the  *)
(* base resolved or unresolved, none twice (_cmp_helper).                  *)
DiffPartitions ==
  AtRest => \A base \in (SUBSET runs) \ {{}}, new \in (SUBSET runs) \ {{}} :
    LET shown(type) == {HashOf(r) : r \in Rows(Question(base, NoFilter, [runs |-> new, type |-> type]), "nothing")}
    IN  /\ shown("NEW") \cup shown("UNRESOLVED") = HashesForRuns(new)
        /\ shown("RESOLVED") \cup shown("UNRESOLVED") = HashesForRuns(base)
        /\ shown("NEW") \cap shown("RESOLVED") = {}
        /\ shown("UNRESOLVED") \cap (shown("NEW") \cup shown("RESOLVED")) = {}

(* Without a filter and without comments in the code, comparing a report   *)
(* directory shows the bugs that comparing a run with just these reports   *)
(* does; suppressed bugs of the directory count as gone (handle_diff_results). *)
DirDiffAgrees ==
  AtRest => \A run \in runs, base \in (SUBSET runs) \ {{}} :
    LET dir == {HashOf(row) : row \in {r \in RowsOf(run) : Status(r) # "resolved"}}
        gone == {HashOf(row) : row \in RowsOf(run)} \ dir
        shown(type) == {HashOf(r) : r \in DiffResults(base, run, type, NoFilter)}
    IN  \A type \in DiffType :
          /\ gone = {} => DiffReportDir(base, dir, {}, type, NoFilter) = shown(type)
          /\ \A h \in dir :
               DiffReportDir(base, dir, {h}, type, NoFilter)
                 = DiffReportDir(base, dir \ {h}, {}, type, NoFilter)

(* The columns of CodeChecker cmd sum by review status add up to its first *)
(* one, for each checker (handle_list_result_types).                       *)
SumAddsUp ==
  LET all  == SumColumn(runs, "review", Unset)
      at(column, c) == IF c \in DOMAIN column THEN column[c] ELSE 0
  IN  AtRest => \A c \in DOMAIN all :
        all[c] = MapThenSumSet(LAMBDA s : at(SumColumn(runs, "review", {s}), c), ReviewStatus)

(* A listing during which no table changed has as many rows as the query   *)
(* has results, and all of them unless two rows have the same place in the *)
(* order (handle_list_results with the limit of getRunResults).            *)
ListingComplete ==
  client.state = "listed" /\ ~client.dirty =>
    LET rows == Results(client.question)
    IN  /\ client.count = Cardinality(rows)
        /\ (\A r, s \in rows : SeverityOf[HashOf(r)] = SeverityOf[HashOf(s)] => r = s)
             => client.got = rows

(* A review whose row nobody changed since the request read it is the one  *)
(* that was asked for, with its status, its author and its message; another *)
(* request's is never lost without a trace of it: each column is somebody's *)
(* last word (_setReviewStatus).                                           *)
ReviewIsWhole ==
  [][\A q \in Request :
       requests[q].state = "review" /\ reviews' # reviews /\ requests'[q] = Idle =>
         LET h   == requests[q].hash
             now == IF h \in DOMAIN reviews THEN reviews[h] ELSE Idle
         IN  /\ now = requests[q].read => reviews'[h] = requests[q].asked
             /\ \A c \in DOMAIN reviews'[h] :
                  reviews'[h][c] # requests[q].asked[c] => reviews'[h][c] = now[c]]_reviewVars

(* The docstrings of updateComment and removeComment, "by it's original    *)
(* author only, except for Anyonymous comments": a comment only changes or *)
(* goes away by its author or if it is anonymous, unless the request had   *)
(* read an earlier comment of the same id.                                 *)
CommentsByAuthor ==
  [][\A id \in DOMAIN comments :
       id \notin DOMAIN comments' \/ comments'[id] # comments[id] =>
         \E q \in Request :
           /\ requests[q].state \in {"update", "remove"} /\ requests[q].id = id
           /\ comments[id].author \in {"Anonymous", requests[q].user}
              \/ requests[q].read.born < comments[id].born]_reviewVars

(* A comment that was removed stays away: each comment is made once, and   *)
(* keeps its bug and its author (updateComment against removeComment).     *)
RemovedStays ==
  [][\A id \in DOMAIN comments' :
       \/ comments'[id].born > born
       \/ /\ id \in DOMAIN comments
          /\ [comments'[id] EXCEPT !.message = None] = [comments[id] EXCEPT !.message = None]]_reviewVars

(* CodeChecker cmd del never removes the run it was given, nor one that is *)
(* on the other side of it, unless that was stored after the list of runs  *)
(* was made (handle_remove_run_results).                                   *)
DeleteSpares ==
  [][client.state = "deleting" /\ client' = Idle =>
       \A run \in runs \ runs' :
         \/ run \notin DOMAIN client.dates \/ client.dates[run] # Date(run)
         \/ client.what = "before" /\ Date(run) < client.cutoff
         \/ client.what = "after" /\ Date(run) > client.cutoff]_reviewVars

(* docs/user_guide.md, "Show results that existed in the 'base' but        *)
(* disappeared from the 'new' run": a bug whose reports in the new run are *)
(* all resolved is shown by --resolved.                                    *)
ResolvedAreShown ==
  \A base, new \in runs :
    \A h \in {HashOf(row) : row \in {r \in RowsOf(base) : Status(r) # "resolved"}} :
      (\A row \in RowsOf(new) : HashOf(row) = h => Status(row) = "resolved") =>
        \E row \in DiffResults({base}, new, "RESOLVED", NoFilter) : HashOf(row) = h

(* docs/user_guide.md of --force: the results of the run are deleted, so a *)
(* forced store is not refused when nobody else works on the run.          *)
ForceNotRefused == client.state # "refused"

(* The answers to queries are of the tables and agree with each other: the *)
(* pages of a listing, the list of runs, and the comparisons of runs and   *)
(* of directories.                                                         *)
AnswersAreRight ==
  TypeOK /\ ListingComplete /\ RunDataAgrees /\ DiffPartitions /\ DirDiffAgrees

(* So do the counts of a query, whose values add up to its results.        *)
CountsAgree == CountsAddUp /\ SumAddsUp

(* Comments belong to their authors, also to those that have removed them. *)
CommentsKept == CommentsByAuthor /\ RemovedStays
=============================================================================
