-------------------------------- MODULE MCQueues --------------------------------
(* What the staff's queue is waited for: the locks of the transactions that     *)
(* change it, its order, and its screen.  The three share no state that the     *)
(* modules look at: each behaviour follows one of them, the others standing     *)
(* still, and is as fair as its own specification.                              *)
EXTENDS RowLocks, PriorityRecalculation, ListScreen, TLC

CONSTANTS r1, r2, r3, i1, i2, none, x

VARIABLE part  \* the one followed

\* RowLocks: two tickets, one of two reports and one of a single report.
ThreeReports == {r1, r2, r3}
ThreeHomes   == (r1 :> 1) @@ (r2 :> 1) @@ (r3 :> 2)

\* PriorityRecalculation: two reports on the first ticket, one yet to be filed.
ThreeQuarters == (r1 :> 1) @@ (r2 :> 3) @@ (r3 :> 4)
ThreeFiled    == (r1 :> 1) @@ (r2 :> 1) @@ (r3 :> 0)

\* ListScreen: one text that finds one of the rows.
MCMatches == (none :> {i1, i2}) @@ (x :> {i1})

MCInit ==
  /\ part \in {"locks", "priorities", "screen"}
  /\ Init /\ PriorityInit
  /\ ListInit /\ (part # "screen" => surface = "tickets")

MCNext ==
  /\ UNCHANGED part
  /\ \/ part = "locks"      /\ Next         /\ UNCHANGED <<priorityVars, listVars>>
     \/ part = "priorities" /\ PriorityNext /\ UNCHANGED <<vars, listVars>>
     \/ part = "screen"     /\ ListNext     /\ UNCHANGED <<vars, priorityVars>>

MCSpec ==
  /\ MCInit /\ [][MCNext]_<<part, vars, priorityVars, listVars>>
  /\ WF_priorityVars(part = "priorities" /\ PassSteps)
  /\ WF_priorityVars(part = "priorities" /\ StaffSteps)
  /\ WF_listVars(part = "screen" /\ ListSteps)
=============================================================================
