----------------------------- MODULE TicketContext -----------------------------
(***************************************************************************)
(* What a context service promises about the row Ticket Detail shows as     *)
(* current, whatever corrections, closes, merges and restarts race with its *)
(* slow remote service: the row is recorded for the place the ticket is at, *)
(* in a category the service covers, and never on a merged-away ticket.     *)
(* Superseding a row (it becomes history) is always allowed; so is leaving  *)
(* a row behind when the ticket moves, since readers compare its place.     *)
(* HazardLookup and RainfallContext are both shown to implement this.       *)
(***************************************************************************)
EXTENDS ContextTicket

CONSTANTS
  Place,      \* what a row is about: a function of the site
  Covered,    \* sites whose category has this context
  Nothing,    \* no current row
  OnClosed    \* the service may also record on a closed ticket

VARIABLES
  context     \* the place the current row is about

Init == NewTicket /\ context = Nothing

Change == /\ ChangeStatus \/ \E s \in Sites : CorrectTicket(s)
          /\ UNCHANGED context

Record ==
  /\ site \in Covered /\ ~merged
  /\ closed => OnClosed
  /\ context' = Place[site]
  /\ UNCHANGED ticket

Supersede == context' = Nothing /\ UNCHANGED ticket

Next == Change \/ Record \/ Supersede

Spec == Init /\ [][Next]_<<ticket, context>>
=============================================================================
