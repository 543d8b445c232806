----------------------------- MODULE ContextTicket -----------------------------
(***************************************************************************)
(* The ticket as the two context services see it.  HazardInformation and   *)
(* RainfallContext each keep one current row about the place a ticket is   *)
(* at; both read the ticket, ask a remote service and recheck the ticket    *)
(* before they record the answer.                                          *)
(***************************************************************************)
EXTENDS Naturals

CONSTANTS
  Sites,        \* what a context depends on: the ticket's category and pin
  NoSite,       \* no site read yet
  MaxRuns,      \* MAX_RUNS, 3 in both services
  MaxFailures   \* bound of the model: database errors and restarts

ASSUME ContextAssumption ==
  /\ NoSite \notin Sites
  /\ MaxRuns \in Nat \ {0}
  /\ MaxFailures \in Nat

VARIABLES
  site,      \* tickets.category and tickets.geom
  closed,    \* tickets.status is Resolved or Rejected
  merged     \* tickets.merged_into_ticket_id IS NOT NULL

ticket == <<site, closed, merged>>

TicketOK == site \in Sites /\ closed \in BOOLEAN /\ merged \in BOOLEAN

\* A category or location correction.
CorrectTicket(s) ==
  /\ ~closed /\ ~merged /\ s # site
  /\ site' = s
  /\ UNCHANGED <<closed, merged>>

\* Resolve or reject, Return to Under Review, merge into another ticket.
CloseTicket     == ~closed /\ ~merged /\ closed' = TRUE /\ UNCHANGED <<site, merged>>
ReturnTicket    == closed /\ ~merged /\ closed' = FALSE /\ UNCHANGED <<site, merged>>
MergeTicketAway == ~closed /\ ~merged /\ merged' = TRUE /\ UNCHANGED <<site, closed>>

NewTicket == site \in Sites /\ closed = FALSE /\ merged = FALSE

ChangeStatus == CloseTicket \/ ReturnTicket \/ MergeTicketAway
=============================================================================
