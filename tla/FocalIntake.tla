----------------------------- MODULE FocalIntake -----------------------------
(***************************************************************************)
(* Focal Personnel's intake of single reports (FocalIntakeService):         *)
(* acknowledgment and severity screening, while other staff move the same   *)
(* reports between tickets (ReportGrouping).                                *)
(*                                                                         *)
(* Both select the report joined with its ticket and lock one row of the    *)
(* two: acknowledge the ticket, screenSeverity the report.  PostgreSQL      *)
(* reads the locked row again and keeps the other as the statement's        *)
(* snapshot had it.                                                        *)
(***************************************************************************)
EXTENDS ReportGrouping

CONSTANTS FocalRequests

VARIABLES
  seen,      \* the reports with a report_acknowledgments row
  acked,     \* the tickets with an acknowledgments row
  screened,  \* the reports whose severity_screening_status is set
  focal      \* the focal requests in flight, and their snapshots

focalVars == <<seen, acked, screened, focal>>
allVars   == <<vars, focalVars>>

Snapshot == [op : {"acknowledge", "screen"}, report : Reports, ticket : Tickets]

FocalTypeOK ==
  /\ seen \in SUBSET Reports
  /\ acked \in SUBSET Tickets
  /\ screened \in SUBSET Reports
  /\ focal \in [FocalRequests -> {Idle} \cup Snapshot]

TakeSnapshot(f, op, r) ==
  /\ focal[f] = Idle
  /\ focal' = [focal EXCEPT ![f] = [op |-> op, report |-> r, ticket |-> at[r]]]
  /\ UNCHANGED <<vars, seen, acked, screened>>

SnapshotAcknowledge(f, r) ==
  at[r] # Nowhere /\ into[at[r]] = Nowhere /\ TakeSnapshot(f, "acknowledge", r)

\* Seeded fault: the ticket is not read again once it is locked.
AcknowledgeSnapshot(f) ==
  LET s == focal[f] IN
  /\ s.op = "acknowledge"
  /\ s.report \notin seen
  /\ seen' = seen \cup {s.report}
  /\ acked' = acked \cup {s.ticket}
  /\ focal' = [focal EXCEPT ![f] = Idle]
  /\ UNCHANGED <<vars, screened>>

\* The ticket is locked and read again, its report is not; the UNIQUE report
\* of report_acknowledgments refuses a second acknowledgment.
Acknowledge(f) ==
  LET s == focal[f] IN
  /\ s.op = "acknowledge"
  /\ into[s.ticket] = Nowhere
  /\ s.report \notin seen
  /\ seen' = seen \cup {s.report}
  /\ acked' = acked \cup {s.ticket}
  /\ focal' = [focal EXCEPT ![f] = Idle]
  /\ UNCHANGED <<vars, screened>>

\* severityScreeningBlock looks at the snapshot of the ticket.
SnapshotScreen(f, r) ==
  at[r] # Nowhere /\ Live(at[r]) /\ TakeSnapshot(f, "screen", r)

\* Seeded fault: the report's row is not locked and read again.
ScreenSnapshot(f) ==
  LET s == focal[f] IN
  /\ s.op = "screen"
  /\ screened' = screened \cup {s.report}
  /\ focal' = [focal EXCEPT ![f] = Idle]
  /\ UNCHANGED <<vars, seen, acked>>

\* The report is locked: a report that moved no longer joins its ticket (404).
Screen(f) ==
  LET s == focal[f] IN
  /\ s.op = "screen"
  /\ RowFree(s.report) /\ at[s.report] = s.ticket
  /\ screened' = screened \cup {s.report}
  /\ focal' = [focal EXCEPT ![f] = Idle]
  /\ UNCHANGED <<vars, seen, acked>>

\* Not found, already acknowledged, or a failed statement.
FocalRequestFails(f) ==
  /\ focal[f] # Idle
  /\ focal' = [focal EXCEPT ![f] = Idle]
  /\ UNCHANGED <<vars, seen, acked, screened>>

FocalInit ==
  /\ Init
  /\ seen = {} /\ acked = {} /\ screened = {}
  /\ focal = [f \in FocalRequests |-> Idle]

FocalNext ==
  \/ Next /\ UNCHANGED focalVars
  \/ \E f \in FocalRequests :
       \/ \E r \in Reports : SnapshotAcknowledge(f, r) \/ SnapshotScreen(f, r)
       \/ Acknowledge(f) \/ Screen(f) \/ FocalRequestFails(f)

FocalSpec == FocalInit /\ [][FocalNext]_allVars

(***************************************************************************)
(* Properties                                                              *)
(***************************************************************************)
\* A ticket merged away while it was being acknowledged stays as it was: the
\* acknowledgment is refused, never written to history.
AcknowledgesCurrentTickets == [][\A t \in acked' \ acked : into[t] = Nowhere]_allVars

\* A report screened while staff move it is screened on the ticket whose
\* status allowed it, or not at all.
ScreensOnTheTicketRead ==
  [][\A r \in screened' \ screened :
       \E f \in FocalRequests : focal[f].op = "screen" /\ focal[f].report = r /\ focal[f].ticket = at[r]]_allVars

\* "the first acknowledged report on a ticket creates its row"
\* (focal-intake.service.ts): refuted by a move between the snapshot and the
\* ticket's lock, which acknowledges the ticket the report has left.
AcknowledgesItsTicket == [][\A r \in seen' \ seen : at[r] \in acked']_allVars
=============================================================================
