---------------------------- MODULE MCReportStore ----------------------------
(* Model checking of ReportStore: two sets of event paths, one of which no  *)
(* path continues another, and one with a path and a continuation of it.    *)
EXTENDS ReportStore, TLC

CONSTANTS b1, b2, e1, e2, r1, r2, r3, r4

MCEvent == {e1, e2}
PrefixFreePath == {<<e1>>, <<e2, e1>>}
NestedPath == {<<e1>>, <<e1, e2>>}

Symmetry == Permutations(ReportId)
=============================================================================
