------------------------------ MODULE MCReview ------------------------------
(* Two runs and two bugs, one of which has two occurrences.  A behaviour is  *)
(* about queries over two stores, about reviews or about comments.           *)
EXTENDS Review, TLC

Files == [h \in Hash |-> IF h = "h1" THEN "a.c" ELSE "b.c"]
Checkers == [h \in Hash |-> IF h = "h1" THEN "core" ELSE "unix"]
Severities == [h \in Hash |-> IF h = "h1" THEN 30 ELSE 10]

O(h, p) == [hash |-> h, path |-> p]

\* Queries after two stores and a review; commands over three stores; reviews
\* and comments of one report.
AllBounds ==
  LET none == [store |-> 1, review |-> 0, comment |-> 0, client |-> 0,
               found |-> {{O("h1", 1)}}, users |-> User, statuses |-> {"confirmed"},
               texts |-> {"m"}, tags |-> {None}]
  IN {[none EXCEPT !.store = 2, !.review = 1, !.users = {"ann"}, !.found =
         SUBSET {O("h1", 1), O("h2", 1)} \cup {{O("h1", 1), O("h1", 2), O("h2", 1)}}],
      [none EXCEPT !.store = 3, !.client = 2, !.users = {"ann"},
         !.found = {{O("h1", 1)}, {O("h1", 1), O("h2", 1)}}],
      [none EXCEPT !.store = 2, !.review = 3, !.statuses = {"unreviewed", "confirmed"},
         !.texts = {"source", "m"}, !.tags = {"v1", None}],
      [none EXCEPT !.comment = 4, !.texts = {"source", "m"}]}

\* Filters on one or two fields, and comparisons with run 2 or with nothing.
Filters ==
  LET F == NoFilter IN
  {F, [F EXCEPT !.unique = TRUE], [F EXCEPT !.file = {"a.c"}], [F EXCEPT !.checker = {}],
   [F EXCEPT !.severity = {30}, !.unique = TRUE],
   [F EXCEPT !.review = {"unreviewed"}, !.detection = {"new", "reopened"}],
   [F EXCEPT !.review = {"false_positive"}, !.unique = TRUE],
   [F EXCEPT !.detection = {"resolved"}, !.since = 2],
   [F EXCEPT !.before = 2, !.tags = {1}]}

Comparisons ==
  {Unset, [runs |-> {}, type |-> "NEW"]} \cup {[runs |-> {2}, type |-> t] : t \in DiffType}

Questions == {Question(ids, f, c) : ids \in {{}, {1}}, f \in Filters, c \in Comparisons}
=============================================================================
