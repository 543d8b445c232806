---------------------------- MODULE ReportGrouping ----------------------------
(***************************************************************************)
(* The reports of the tickets: submission (ReportsService.submit), Merge,   *)
(* Remove and Regroup (TicketGroupingService) and moderation                *)
(* (ModerationService).                                                    *)
(*                                                                         *)
(* A grouping transaction locks its tickets and the moved report before it  *)
(* decides, so from its last lock to its commit it is one action; what it   *)
(* read before its locks is a step of its own.  A moderation locks the      *)
(* report's row with its first UPDATE and the ticket's with its second, so  *)
(* it is two actions, and between them nobody moves the report.             *)
(* The order of the locks, and what it means for deadlock, is RowLocks.     *)
(***************************************************************************)
EXTENDS Naturals, FiniteSets

CONSTANTS
  Tickets, Reports, Requests,
  Kinds,        \* an office and a category: what two grouped tickets share
  InitialKind,  \* a kind with the office its category is routed to
  Verdicts,     \* the moderation decisions taken (a duplicate is as dismissed)
  Nowhere       \* no ticket

ASSUME GroupingAssumption ==
  /\ IsFiniteSet(Reports)
  /\ Nowhere \notin Tickets
  /\ Verdicts \subseteq {"dismissed", "quarantined"}
  /\ InitialKind \in [Kinds -> Kinds]

VARIABLES
  at,       \* reports.ticket_id
  held,     \* reports.moderation_status
  status,   \* tickets.status: active, closed, or unused for no row yet
  kind,     \* tickets.assigned_office and tickets.category
  into,     \* tickets.merged_into_ticket_id
  count,    \* tickets.member_count
  flagged,  \* tickets.flagged
  req       \* the requests in flight, and what each has read

tickets == <<status, kind, into>>
vars    == <<at, held, tickets, count, flagged, req>>

MoveOps    == {"remove", "regroup"}
Idle       == [op |-> "none"]
Move       == [op : MoveOps, report : Reports, from : Tickets, to : Tickets]
Moderation == [op : Verdicts, report : Reports, from : Tickets]

TypeOK ==
  /\ at \in [Reports -> Tickets \cup {Nowhere}]
  /\ held \in [Reports -> Verdicts \cup {"none"}]
  /\ status \in [Tickets -> {"unused", "active", "closed"}]
  /\ kind \in [Tickets -> Kinds]
  /\ into \in [Tickets -> Tickets \cup {Nowhere}]
  /\ count \in [Tickets -> Nat]
  /\ flagged \in [Tickets -> BOOLEAN]
  /\ req \in [Requests -> {Idle} \cup Move \cup Moderation]

(***************************************************************************)
(* Helpers                                                                 *)
(***************************************************************************)
Members(where, t) == {r \in Reports : where[r] = t}

\* Seeded fault: liveBlock looks at the status only.
LiveByStatus(t) == status[t] = "active"

Used(t) == status[t] # "unused"
Live(t) == status[t] = "active" /\ into[t] = Nowhere   \* liveBlock

Ends(q) == req' = [req EXCEPT ![q] = Idle]

\* Seeded fault: moderation checks the report in a SELECT without a lock.
RowNeverLocked(r) == r \in Reports

\* A moderation of r has locked its row.
Moderating(q, r) == req[q].op \in Verdicts /\ req[q].report = r
RowFree(r)       == \A q \in Requests : ~Moderating(q, r)

\* Seeded fault: the ticket that receives the report is the only one refreshed.
RefreshMembershipOfOne(ts) ==
  \E one \in ts :
    /\ count' = [count EXCEPT ![one] = Cardinality(Members(at', one))]
    /\ flagged' = [flagged EXCEPT ![one] = @ \/ \E r \in Members(at', one) : held[r] = "quarantined"]

\* refreshMembership of every ticket in ts, after the reports have moved.
RefreshMembership(ts) ==
  /\ count' = [t \in Tickets |-> IF t \in ts THEN Cardinality(Members(at', t)) ELSE count[t]]
  /\ flagged' = [t \in Tickets |->
       flagged[t] \/ (t \in ts /\ \E r \in Reports : at'[r] = t /\ held[r] = "quarantined")]

(***************************************************************************)
(* Submission, and what other services do to the tickets                   *)
(***************************************************************************)
Submit(r, t, k) ==
  /\ at[r] = Nowhere /\ ~Used(t) /\ InitialKind[k] = k
  /\ at' = [at EXCEPT ![r] = t]
  /\ status' = [status EXCEPT ![t] = "active"]
  /\ kind' = [kind EXCEPT ![t] = k]
  /\ count' = [count EXCEPT ![t] = 1]
  /\ UNCHANGED <<held, into, flagged, req>>

\* TicketLifecycle: resolve, reject and return; reassign and correct.
ChangeTicket(t, s, k) ==
  /\ Used(t)
  /\ status' = [status EXCEPT ![t] = s]
  /\ kind' = [kind EXCEPT ![t] = k]
  /\ UNCHANGED <<at, held, into, count, flagged, req>>

(***************************************************************************)
(* Grouping                                                                *)
(***************************************************************************)
Merge(survivor, merged) ==
  /\ survivor # merged
  /\ Live(survivor) /\ Live(merged) /\ kind[survivor] = kind[merged]
  /\ \A r \in Members(at, merged) : RowFree(r)
  /\ at' = [r \in Reports |-> IF at[r] = merged THEN survivor ELSE at[r]]
  /\ into' = [into EXCEPT ![merged] = survivor]
  /\ RefreshMembership({survivor})
  /\ UNCHANGED <<held, status, kind, req>>

\* The report's ticket, read before the transaction.
ReadForMove(q, op, r, t) ==
  /\ req[q] = Idle /\ at[r] # Nowhere /\ t # at[r]
  /\ (op = "regroup") => Used(t)
  /\ req' = [req EXCEPT ![q] = [op |-> op, report |-> r, from |-> at[r], to |-> t]]
  /\ UNCHANGED <<at, held, tickets, count, flagged>>

\* Seeded fault: the block is off by one and lets a ticket's last report leave.
MayLeaveLast(r, from) ==
  /\ RowFree(r) /\ at[r] = from
  /\ Live(from) /\ Cardinality(Members(at, from)) >= 1

\* lockReport, and the block both moves share, on the locked rows.
MayLeave(r, from) ==
  /\ RowFree(r) /\ at[r] = from
  /\ Live(from) /\ Cardinality(Members(at, from)) >= 2

\* The id of the new ticket is the database's choice: the request's "to".
RemoveReport(q) ==
  /\ req[q].op = "remove"
  /\ LET r == req[q].report
         from == req[q].from
         new == req[q].to
     IN /\ MayLeave(r, from) /\ ~Used(new)
        /\ at' = [at EXCEPT ![r] = new]
        /\ status' = [status EXCEPT ![new] = "active"]
        /\ kind' = [kind EXCEPT ![new] = InitialKind[kind[from]]]
        /\ RefreshMembership({from, new})
  /\ Ends(q)
  /\ UNCHANGED <<held, into>>

RegroupReport(q) ==
  /\ req[q].op = "regroup"
  /\ LET r == req[q].report
         from == req[q].from
         to == req[q].to
     IN /\ from # to /\ MayLeave(r, from) /\ Live(to) /\ kind[from] = kind[to]
        /\ at' = [at EXCEPT ![r] = to]
        /\ RefreshMembership({from, to})
  /\ Ends(q)
  /\ UNCHANGED <<held, tickets>>

(***************************************************************************)
(* Moderation                                                              *)
(***************************************************************************)
\* UPDATE reports ... WHERE moderation_status IS NULL RETURNING ticket_id.
StartModeration(q, r, verdict) ==
  /\ req[q] = Idle /\ at[r] # Nowhere
  /\ held[r] = "none" /\ RowFree(r)
  /\ req' = [req EXCEPT ![q] = [op |-> verdict, report |-> r, from |-> at[r]]]
  /\ UNCHANGED <<at, held, tickets, count, flagged>>

\* UPDATE tickets SET flagged, for a quarantine, and the commit.
CommitModeration(q) ==
  /\ req[q].op \in Verdicts
  /\ held' = [held EXCEPT ![req[q].report] = req[q].op]
  /\ flagged' = IF req[q].op = "quarantined"
                THEN [flagged EXCEPT ![req[q].from] = TRUE] ELSE flagged
  /\ Ends(q)
  /\ UNCHANGED <<at, tickets, count>>

\* A block, a lost connection or a deadlock: the transaction rolls back.
RequestFails(q) ==
  /\ req[q] # Idle
  /\ Ends(q)
  /\ UNCHANGED <<at, held, tickets, count, flagged>>

(***************************************************************************)
(* Specification                                                           *)
(***************************************************************************)
Init ==
  /\ at = [r \in Reports |-> Nowhere]
  /\ held = [r \in Reports |-> "none"]
  /\ status = [t \in Tickets |-> "unused"]
  /\ kind \in [Tickets -> Kinds] /\ \A t, u \in Tickets : kind[t] = kind[u]
  /\ into = [t \in Tickets |-> Nowhere]
  /\ count = [t \in Tickets |-> 0]
  /\ flagged = [t \in Tickets |-> FALSE]
  /\ req = [q \in Requests |-> Idle]

Next ==
  \/ \E r \in Reports, t \in Tickets, k \in Kinds : Submit(r, t, k)
  \/ \E t \in Tickets, s \in {"active", "closed"}, k \in Kinds : ChangeTicket(t, s, k)
  \/ \E s, t \in Tickets : Merge(s, t)
  \/ \E q \in Requests, op \in MoveOps, r \in Reports, t \in Tickets : ReadForMove(q, op, r, t)
  \/ \E q \in Requests, r \in Reports, v \in Verdicts : StartModeration(q, r, v)
  \/ \E q \in Requests :
       \/ RemoveReport(q) \/ RegroupReport(q)
       \/ CommitModeration(q)
       \/ RequestFails(q)

Spec == Init /\ [][Next]_vars

(***************************************************************************)
(* Properties                                                              *)
(***************************************************************************)
Current(t) == Used(t) /\ into[t] = Nowhere

\* member_count, which every list and queue shows, is the number of reports
\* the ticket has, whatever moves raced.
CountsMatch == \A t \in Tickets : Current(t) => count[t] = Cardinality(Members(at, t))

\* A ticket with a quarantined report is flagged, so the public map hides it,
\* even if the report was moved while the quarantine was being written.
QuarantinedIsFlagged ==
  \A r \in Reports : held[r] = "quarantined" => at[r] \in Tickets /\ flagged[at[r]]

\* No sequence of moves empties a ticket that was not merged away: each
\* keeps a report, for its title, its photo and its citizens.
NoTicketEmptied == \A t \in Tickets : Current(t) => \E r \in Reports : at[r] = t

\* A report is never on a merged-away ticket, where no citizen answer, notice
\* or acknowledgment would find it.
ReportsOnCurrentTickets ==
  \A r \in Reports : at[r] # Nowhere => at[r] \in Tickets /\ Current(at[r])

\* Of two staff members moderating one report, one decides it.
DecidedOnce == [][\A r \in Reports : held[r] # "none" => held'[r] = held[r]]_vars
=============================================================================
