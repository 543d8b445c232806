--------------------------- MODULE MCReportGrouping ---------------------------
(* ReportGrouping on a few tickets and reports: reports and requests are      *)
(* interchangeable, and so are tickets.                                      *)
EXTENDS ReportGrouping, TLC

CONSTANTS meo

OneKind == {meo}
OneInitialKind == [k \in OneKind |-> meo]

GroupingSymmetry ==
  Permutations(Tickets) \cup Permutations(Reports) \cup Permutations(Requests)
=============================================================================
