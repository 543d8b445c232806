----------------------------- MODULE MCFocalIntake ----------------------------
(* FocalIntake with one grouping request and one focal request.               *)
EXTENDS FocalIntake, TLC

CONSTANTS meo

OneKind == {meo}
OneInitialKind == [k \in OneKind |-> meo]

FocalSymmetry ==
  Permutations(Tickets) \cup Permutations(Reports) \cup Permutations(FocalRequests)
=============================================================================
