------------------------------- MODULE MCReports -------------------------------
(* What others do to the reports while staff group them: citizens answer about *)
(* resolved tickets (ResolutionFeedback), Focal Personnel acknowledge and       *)
(* screen (FocalIntake).  The two never read what the other writes: each        *)
(* behaviour follows one of them, and moderation only beside the Focal.         *)
EXTENDS ResolutionFeedback, FocalIntake, TLC

CONSTANTS meo, r1, r2, r3, c1, c2

VARIABLES
  who  \* "citizens" or "focal"

OneKind == {meo}
OneInitialKind == [k \in OneKind |-> meo]

\* One citizen with two reports, and one with a single report.
ThreeReports == {r1, r2, r3}
TwoAuthors   == [r \in ThreeReports |-> IF r = r3 THEN c2 ELSE c1]

\* Only the reports of one citizen are alike.
ReportsSymmetry ==
  UNION {Permutations(S) : S \in {Tickets, {r1, r2}, Answering, FocalRequests}}

MCInit == FeedbackInit /\ FocalInit /\ who \in {"citizens", "focal"}

MCNext ==
  /\ UNCHANGED who
  /\ \/ /\ who = "citizens" /\ FeedbackNext /\ UNCHANGED focalVars
        /\ \A q \in Requests : req'[q].op \notin Verdicts
     \/ who = "focal" /\ FocalNext /\ UNCHANGED feedbackVars

MCSpec == MCInit /\ [][MCNext]_<<feedbackAllVars, focalVars, who>>
=============================================================================
