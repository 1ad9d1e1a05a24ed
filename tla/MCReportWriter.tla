----------------------------- MODULE MCReportWriter -----------------------------
(* Two runs whose files overlap: the output of one may be an input, a         *)
(* definition or the output of the other.                                    *)
EXTENDS ReportWriter, TLC

CONSTANTS p1, p2, p3

SmallTasks ==
  [query : {{}, {p1}}, graph : {p1, p2}, library : {{}, {p2}, {p3}}, output : {p2, p3, Console}]
Symmetric == Permutations(Runs)
=============================================================================
