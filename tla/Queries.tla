------------------------------- MODULE Queries -------------------------------
(***************************************************************************)
(* What the web interface and the command line ask of the reports of a     *)
(* product: filters, results, counts and comparisons of runs               *)
(* (server/api/report_server.py), and what cmd/cmd_line_client.py makes of *)
(* the answers.  A query is a function of the tables, so it is an operator *)
(* here; Review owns the steps that change the tables.                     *)
(*                                                                         *)
(* Abstraction: a pattern with jokers is the set of the values it matches, *)
(* so a list of patterns is a set of values as well; file, checker,        *)
(* message and severity are functions of the bug hash, which is computed   *)
(* from them; events, columns and texts of the reports are left out.       *)
(***************************************************************************)
EXTENDS Naturals, FiniteSets, FiniteSetsExt

CONSTANTS
  Run,         \* primary keys of the runs
  Hash,        \* bug hashes
  Path,        \* tells occurrences of one bug in a run from each other
  FileOf, CheckerOf, MessageOf, SeverityOf,   \* functions on Hash
  Unset,       \* a field of a filter that is not set, no cmp_data
  None         \* SQL NULL

VARIABLES
  runs,     \* the runs there are
  reports,  \* rows: [subset of Run \X Occurrence -> [status, detected, fixed]]
  reviews,  \* rows: [subset of Hash -> [status, author, message]]
  history   \* rows: set of [run, time, tag]

Occurrence == [hash : Hash, path : Path]

DetectionStatus == {"new", "unresolved", "resolved", "reopened"}

ReviewStatus == {"unreviewed", "confirmed", "false_positive", "intentional"}

DiffType == {"NEW", "RESOLVED", "UNRESOLVED"}

(* The arguments of a query: no run list is the empty set.                 *)
NoFilter ==
  [file |-> Unset, checker |-> Unset, message |-> Unset, hash |-> Unset,
   severity |-> Unset, detection |-> Unset, review |-> Unset, tags |-> Unset,
   since |-> Unset, before |-> Unset, unique |-> FALSE]

Question(run_ids, filter, cmp) ==
  [runs |-> run_ids, filter |-> filter, cmp |-> cmp]

(* A row of the tables and its columns.                                    *)
RunOf(row) == row[1]
HashOf(row) == row[2].hash
Status(row) == reports[row].status

(* The outer join with the reviews: None without one.                      *)
ReviewOf(row) ==
  IF HashOf(row) \in DOMAIN reviews THEN reviews[HashOf(row)].status ELSE None
-----------------------------------------------------------------------------
(* An empty list of patterns or tags restricts nothing, or_() of nothing   *)
(* being left out of the condition; an empty list of values in_() matches  *)
(* nothing.                                                                *)
Like(value, field) == field \in {Unset, {}} \/ value \in field

In(value, field) == field = Unset \/ value \in field

(* The date that firstDetectionDate and fixDate are compared with.         *)
DateOf(row, filter) ==
  IF filter.detection = {"resolved"} THEN reports[row].fixed
                                     ELSE reports[row].detected

(* Mutant: the join finds no review.                                       *)
InReviewInner(row, field) ==
  field = Unset \/ ReviewOf(row) \in field

InReview(row, field) ==
  \/ field = Unset
  \/ ReviewOf(row) \in field
  \/ "unreviewed" \in field /\ ReviewOf(row) = None

(* process_report_filter_v2: `but' is the field a count leaves out.        *)
Passes(row, filter, but) ==
  /\ but # "file" => Like(FileOf[HashOf(row)], filter.file)
  /\ but # "message" => Like(MessageOf[HashOf(row)], filter.message)
  /\ but # "checker" => Like(CheckerOf[HashOf(row)], filter.checker)
  /\ In(HashOf(row), filter.hash)
  /\ but # "severity" => In(SeverityOf[HashOf(row)], filter.severity)
  /\ but # "detection" => In(Status(row), filter.detection)
  /\ but # "review" => InReview(row, filter.review)
  /\ filter.since # Unset =>
       DateOf(row, filter) # None /\ DateOf(row, filter) >= filter.since
  /\ filter.before # Unset =>
       DateOf(row, filter) # None /\ DateOf(row, filter) < filter.before
  /\ but # "tag" =>
       \/ filter.tags \in {Unset, {}}
       \/ \E time \in filter.tags : reports[row].detected <= time

(* __get_run_ids_to_query.                                                 *)
RunIdsToQuery(q) ==
  IF q.runs # {} THEN q.runs
  ELSE IF q.cmp = Unset THEN runs ELSE runs \ q.cmp.runs

HashesForRuns(run_ids) == {HashOf(row) : row \in {r \in DOMAIN reports : RunOf(r) \in run_ids}}

(* Mutant: the resolved reports are looked for in the new runs.            *)
DiffInNewRuns(base, cmp) ==
  LET old == HashesForRuns(base)
      new == HashesForRuns(cmp.runs)
  IN  CASE cmp.runs = {} -> [hashes |-> old, runs |-> base]
        [] cmp.runs # {} /\ cmp.type = "NEW" -> [hashes |-> new \ old, runs |-> cmp.runs]
        [] cmp.runs # {} /\ cmp.type = "RESOLVED" -> [hashes |-> old \ new, runs |-> cmp.runs]
        [] OTHER -> [hashes |-> old \cap new, runs |-> cmp.runs]

(* _cmp_helper and get_diff_hashes_for_query: the hashes to show and the   *)
(* runs to show them of.                                                   *)
Diff(base, cmp) ==
  LET old == HashesForRuns(base)
      new == HashesForRuns(cmp.runs)
  IN  CASE cmp.runs = {} -> [hashes |-> old, runs |-> base]
        [] cmp.runs # {} /\ cmp.type = "NEW" -> [hashes |-> new \ old, runs |-> cmp.runs]
        [] cmp.runs # {} /\ cmp.type = "RESOLVED" -> [hashes |-> old \ new, runs |-> base]
        [] OTHER -> [hashes |-> old \cap new, runs |-> cmp.runs]

(* The rows of a query; an empty difference gives none.                    *)
Rows(q, but) ==
  LET base == RunIdsToQuery(q)
      of   == IF q.cmp = Unset THEN [hashes |-> Hash, runs |-> base]
                               ELSE Diff(base, q.cmp)
  IN  {row \in DOMAIN reports : /\ RunOf(row) \in of.runs
                                /\ HashOf(row) \in of.hashes
                                /\ Passes(row, q.filter, but)}
-----------------------------------------------------------------------------
(* create_count_expression.                                                *)
Count(rows, filter) ==
  Cardinality(IF filter.unique THEN {HashOf(row) : row \in rows} ELSE rows)

(* getRunResults: what its rows are, and getRunResultCount.  The distinct  *)
(* columns of a unique query are functions of the hash.                    *)
Results(q) ==
  IF q.filter.unique THEN {HashOf(row) : row \in Rows(q, "nothing")}
                     ELSE Rows(q, "nothing")

RunResultCount(q) == Cardinality(Results(q))

GroupBy(rows, Key(_), CountOf(_)) ==
  [key \in {Key(row) : row \in rows} |-> CountOf({row \in rows : Key(row) = key})]

(* The counts leave out the filter of their own field.                     *)
CheckerCounts(q) ==
  GroupBy(Rows(q, "checker"),
          LAMBDA row : <<CheckerOf[HashOf(row)], SeverityOf[HashOf(row)]>>,
          LAMBDA S : Count(S, q.filter))

(* Mutant: the comparison is forgotten.                                    *)
SeverityCountsOfAll(q) ==
  GroupBy(Rows([q EXCEPT !.cmp = Unset], "severity"),
          LAMBDA row : SeverityOf[HashOf(row)], LAMBDA S : Count(S, q.filter))

SeverityCounts(q) ==
  GroupBy(Rows(q, "severity"), LAMBDA row : SeverityOf[HashOf(row)],
          LAMBDA S : Count(S, q.filter))

CheckerMsgCounts(q) ==
  GroupBy(Rows(q, "message"), LAMBDA row : MessageOf[HashOf(row)],
          LAMBDA S : Count(S, q.filter))

FileCounts(q) ==
  GroupBy(Rows(q, "file"), LAMBDA row : FileOf[HashOf(row)],
          LAMBDA S : Count(S, q.filter))

(* Grouped by the column, in which a bug never reviewed has NULL, then     *)
(* added up under the status.                                              *)
ReviewStatusCounts(q) ==
  LET group == GroupBy(Rows(q, "review"), ReviewOf, LAMBDA S : Count(S, q.filter))
      name(status) == IF status = None THEN "unreviewed" ELSE status
  IN  [s \in {name(g) : g \in DOMAIN group} |->
         MapThenSumSet(LAMBDA g : group[g], {g \in DOMAIN group : name(g) = s})]

(* Never unique.                                                           *)
DetectionStatusCounts(q) ==
  GroupBy(Rows(q, "detection"), Status, Cardinality)

(* The join with the histories is by run: every tag of a run counts all    *)
(* its reports.                                                            *)
RunHistoryTagCounts(q) ==
  LET rows == Rows(q, "tag")
  IN  [tag \in {h \in history : h.tag # None /\ \E row \in rows : RunOf(row) = h.run} |->
         Count({row \in rows : RunOf(row) = tag.run}, q.filter)]

(* One count for each run, never unique.                                   *)
RunReportCounts(run_ids, filter) ==
  GroupBy(Rows(Question(run_ids, filter, Unset), "nothing"), RunOf, Cardinality)

(* getRunData: counts of a run, and its last tag that was not empty.       *)
RunData(run) ==
  LET rows   == {row \in DOMAIN reports : RunOf(row) = run}
      tagged == {h \in history : h.run = run /\ h.tag # None}
  IN  [resultCount |-> Cardinality(rows),
       detectionStatusCount |-> GroupBy(rows, Status, Cardinality),
       versionTag |-> IF tagged = {} THEN None
                      ELSE (CHOOSE h \in tagged : \A k \in tagged : k.time <= h.time).tag]
-----------------------------------------------------------------------------
(* CodeChecker cmd diff between runs: new results are asked for without    *)
(* the resolved ones.                                                      *)
DiffResults(base, new, type, filter) ==
  Rows(Question(base,
                IF type = "NEW" THEN [filter EXCEPT !.detection = DetectionStatus \ {"resolved"}]
                                ELSE filter,
                [runs |-> {new}, type |-> type]), "nothing")

(* Mutant: what is suppressed in the code counts as new.                   *)
DiffReportDirAll(base, dir, suppressed, type, filter) ==
  LET old == {HashOf(row) : row \in Rows(Question(base, filter, Unset), "nothing")}
  IN  CASE type = "NEW" -> dir \ old
        [] type = "RESOLVED" -> (old \ dir) \cup (old \cap suppressed)
        [] type = "UNRESOLVED" -> dir \cap old

(* CodeChecker cmd diff with a report directory, as bug hashes: dir holds  *)
(* those of the directory, of which `suppressed' have a comment in the     *)
(* code.  The filter only applies to what the server sends.                *)
DiffReportDir(base, dir, suppressed, type, filter) ==
  LET old == {HashOf(row) : row \in Rows(Question(base, filter, Unset), "nothing")}
  IN  CASE type = "NEW" -> (dir \ old) \ suppressed
        [] type = "RESOLVED" -> (old \ dir) \cup (old \cap suppressed)
        [] type = "UNRESOLVED" -> (dir \cap old) \ suppressed

(* CodeChecker cmd sum: unique counts for each checker, by review status.  *)
SumColumn(run_ids, field, values) ==
  CheckerCounts(Question(run_ids,
    [[NoFilter EXCEPT !.unique = TRUE] EXCEPT ![field] = values], Unset))
=============================================================================
