---------------------------- MODULE StatusLadder ----------------------------
(***************************************************************************)
(* What the API promises about a ticket's status, whatever requests race:  *)
(* it climbs one rung at a time, it is Resolved only together with an      *)
(* outcome, it leaves Resolved only through "Return to Under Review" after *)
(* an external referral, and Rejected is final and never carries an        *)
(* outcome.  TicketLifecycle is shown to implement this specification.     *)
(***************************************************************************)
CONSTANTS
  Tickets,        \* ticket rows
  LegacyTickets   \* tickets resolved before outcomes were recorded (0046)

VARIABLES
  status,         \* tickets.status
  outcome         \* tickets.resolution_outcome, "none" when NULL

Outcomes       == {"MUNICIPAL_ACTION_COMPLETED", "EXTERNAL_REFERRAL"}
ActiveStatuses == {"Reported", "Under Review", "In Progress"}

ladderVars == <<status, outcome>>

Init ==
  /\ status  = [t \in Tickets |-> IF t \in LegacyTickets THEN "Resolved" ELSE "Reported"]
  /\ outcome = [t \in Tickets |->
                  IF t \in LegacyTickets THEN "MUNICIPAL_ACTION_COMPLETED" ELSE "none"]

Climb(t) ==
  /\ \/ status[t] = "Reported"     /\ status' = [status EXCEPT ![t] = "Under Review"]
     \/ status[t] = "Under Review" /\ status' = [status EXCEPT ![t] = "In Progress"]
  /\ UNCHANGED outcome

Resolve(t) ==
  /\ status[t] = "In Progress"
  /\ status' = [status EXCEPT ![t] = "Resolved"]
  /\ \E o \in Outcomes : outcome' = [outcome EXCEPT ![t] = o]

Return(t) ==
  /\ status[t] = "Resolved" /\ outcome[t] = "EXTERNAL_REFERRAL"
  /\ status'  = [status EXCEPT ![t] = "Under Review"]
  /\ outcome' = [outcome EXCEPT ![t] = "none"]

Reject(t) ==
  /\ status[t] \in ActiveStatuses
  /\ status' = [status EXCEPT ![t] = "Rejected"]
  /\ UNCHANGED outcome

Next == \E t \in Tickets : Climb(t) \/ Resolve(t) \/ Return(t) \/ Reject(t)

Spec == Init /\ [][Next]_ladderVars
=============================================================================
