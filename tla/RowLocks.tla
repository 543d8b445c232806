------------------------------- MODULE RowLocks -------------------------------
(***************************************************************************)
(* The row locks of the transactions that lock more than one row: Merge,    *)
(* Remove and Regroup (TicketGroupingService), moderation                   *)
(* (ModerationService), and recalculateActiveTickets                        *)
(* (OperationalPriorityService), which every grouping action runs after its *)
(* commit and staff reads and the cron run by themselves.                   *)
(*                                                                         *)
(* A transaction takes its rows one at a time, waits for a row another one  *)
(* holds, and releases all of them at its end.  PostgreSQL aborts a         *)
(* transaction of a cycle of waits.  Of what the transactions write, only   *)
(* what decides the next locks is kept: where the reports are, and which    *)
(* tickets there are and were merged away.  No ticket is closed.            *)
(***************************************************************************)
EXTENDS Naturals, Sequences, FiniteSets

CONSTANTS
  FirstTickets,  \* the tickets 1 .. FirstTickets are there at first
  LastTicket,    \* bound: the id of the last ticket a removal creates
  Reports,
  Home,          \* the ticket a report is on at first
  Transactions,
  Ops            \* the operations run

ASSUME LocksAssumption ==
  /\ LastTicket \in Nat /\ FirstTickets \in 1 .. LastTicket
  /\ IsFiniteSet(Reports)
  /\ Home \in [Reports -> 1 .. FirstTickets]
  /\ Ops \subseteq {"merge", "remove", "regroup", "moderate", "recalculate"}

VARIABLES
  last,    \* the tickets 1 .. last are there
  merged,  \* those with a merged_into_ticket_id
  at,      \* reports.ticket_id, as committed
  tx       \* the transactions

tables == <<last, merged, at>>
vars   == <<last, merged, at, tx>>

Tickets  == 1 .. LastTicket
Grouping == {"merge", "remove", "regroup"}

Ticket(t) == [row |-> "ticket", id |-> t]
Report(r) == [row |-> "report", id |-> r]
Rows      == {Ticket(t) : t \in Tickets} \cup {Report(r) : r \in Reports}

\* op and its arguments; action is the handler the transaction belongs to,
\* which is another operation when a grouping action recalculates; the rows
\* it holds and those it will still lock, in order.
None == [op |-> "none", action |-> "none", report |-> "none", from |-> 0, to |-> 0,
         holds |-> {}, todo |-> << >>]

Image(s) == {s[i] : i \in DOMAIN s}

TypeOK ==
  /\ last \in FirstTickets .. LastTicket /\ merged \subseteq 1 .. last
  /\ at \in [Reports -> 1 .. last]
  /\ \A p \in Transactions :
       /\ tx[p].op \in Ops \cup {"none", "recalculate"}
       /\ tx[p].holds \subseteq Rows /\ Image(tx[p].todo) \subseteq Rows

\* The orders in which one statement may lock a set of rows: any.
Orders(rows) ==
  {s \in [1 .. Cardinality(rows) -> rows] : Image(s) = rows}

\* Seeded fault: in the order given.
LockTicketsAsGiven(a, b) == IF a = b THEN <<Ticket(a)>> ELSE <<Ticket(a), Ticket(b)>>

\* lockTickets: ascending ids.
LockTickets(a, b) ==
  IF a = b THEN <<Ticket(a)>>
  ELSE IF a < b THEN <<Ticket(a), Ticket(b)>> ELSE <<Ticket(b), Ticket(a)>>

(***************************************************************************)
(* Transactions                                                            *)
(***************************************************************************)
Begins(p, op, action, report, from, to, todo) ==
  /\ tx' = [tx EXCEPT ![p] = [op |-> op, action |-> action, report |-> report,
                              from |-> from, to |-> to, holds |-> {}, todo |-> todo]]
  /\ UNCHANGED tables

BeginMerge(p, survivor, gone) ==
  /\ tx[p] = None /\ "merge" \in Ops /\ survivor # gone
  /\ Begins(p, "merge", "merge", "none", gone, survivor, LockTickets(survivor, gone))

\* The report's ticket is read before the transaction.
BeginMove(p, op, r, to) ==
  /\ tx[p] = None /\ op \in Ops
  /\ op = "remove" => to = at[r]
  /\ op = "regroup" => to # at[r]
  /\ Begins(p, op, op, r, at[r], to, Append(LockTickets(at[r], to), Report(r)))

BeginModeration(p, r) ==
  /\ tx[p] = None /\ "moderate" \in Ops
  /\ Begins(p, "moderate", "moderate", r, 0, 0, <<Report(r)>>)

\* The active tickets are read, then one UPDATE locks them in whatever order
\* the join finds them.  A grouping action does so after its commit.
BeginRecalculation(p) ==
  \E s \in Orders({Ticket(t) : t \in (1 .. last) \ merged}) :
    \/ /\ tx[p] = None /\ "recalculate" \in Ops
       /\ Begins(p, "recalculate", "recalculate", "none", 0, 0, s)
    \/ /\ tx[p].op = "none" /\ tx[p].action # "none"
       /\ Begins(p, "recalculate", tx[p].action, "none", 0, 0, s)

Free(row, p) == \A q \in Transactions \ {p} : row \notin tx[q].holds

\* What is locked next once the row is locked: the merged ticket's reports
\* (UPDATE reports); a quarantined report's ticket (UPDATE tickets), which no
\* other moderation touches.
Then(p, row) ==
  IF tx[p].todo # <<row>> THEN {Tail(tx[p].todo)}
  ELSE IF tx[p].op = "merge" /\ row.row = "ticket"
       THEN Orders({Report(r) : r \in {s \in Reports : at[s] = tx[p].from}})
  ELSE IF tx[p].op = "moderate" /\ row.row = "report"
       THEN {<<Ticket(at[row.id])>>, << >>}
  ELSE {<< >>}

Lock(p) ==
  /\ tx[p].todo # << >>
  /\ LET row == Head(tx[p].todo) IN
     /\ Free(row, p)
     /\ \E s \in Then(p, row) :
          tx' = [tx EXCEPT ![p].holds = @ \cup {row}, ![p].todo = s]
  /\ UNCHANGED tables

(***************************************************************************)
(* Commits: every row is locked, and the preconditions hold on the rows     *)
(***************************************************************************)
Merges(p) ==
  /\ tx[p].op = "merge"
  /\ {tx[p].from, tx[p].to} \cap merged = {}
  /\ merged' = merged \cup {tx[p].from}
  /\ at' = [r \in Reports |-> IF at[r] = tx[p].from THEN tx[p].to ELSE at[r]]
  /\ UNCHANGED last

\* The report is where it was read (lockReport), its ticket stands and keeps
\* another report.
MayLeave(p) ==
  /\ at[tx[p].report] = tx[p].from /\ tx[p].from \notin merged
  /\ \E r \in Reports \ {tx[p].report} : at[r] = tx[p].from

\* The next serial id.
Removes(p) ==
  /\ tx[p].op = "remove" /\ MayLeave(p) /\ last < LastTicket
  /\ last' = last + 1
  /\ at' = [at EXCEPT ![tx[p].report] = last + 1]
  /\ UNCHANGED merged

Regroups(p) ==
  /\ tx[p].op = "regroup" /\ MayLeave(p) /\ tx[p].to \notin merged
  /\ at' = [at EXCEPT ![tx[p].report] = tx[p].to]
  /\ UNCHANGED <<last, merged>>

\* A grouping action's handler recalculates next.
Commit(p) ==
  /\ tx[p].todo = << >>
  /\ \/ /\ Merges(p) \/ Removes(p) \/ Regroups(p)
        /\ tx' = [tx EXCEPT ![p] = [None EXCEPT !.action = tx[p].action]]
     \/ /\ tx[p].op \in {"moderate", "recalculate"} /\ UNCHANGED tables
        /\ tx' = [tx EXCEPT ![p] = None]

\* A precondition fails on the locked rows: one of those above, or the
\* statuses, offices, categories and Work Orders of mergeBlock, removeBlock
\* and regroupBlock.
Refuse(p) ==
  /\ tx[p].op \in Grouping /\ tx[p].todo = << >>
  /\ tx' = [tx EXCEPT ![p] = None]
  /\ UNCHANGED tables

Waiting(p)     == tx[p].todo # << >> /\ ~Free(Head(tx[p].todo), p)
WaitsFor(p, q) == Waiting(p) /\ q # p /\ Head(tx[p].todo) \in tx[q].holds
Deadlocked(S)  == S # {} /\ \A p \in S : \E q \in S : WaitsFor(p, q)

\* deadlock_timeout: PostgreSQL aborts one transaction of the cycle.
Abort(p) ==
  /\ \E S \in SUBSET Transactions : p \in S /\ Deadlocked(S)
  /\ tx' = [tx EXCEPT ![p] = None]
  /\ UNCHANGED tables

(***************************************************************************)
(* Specification                                                           *)
(***************************************************************************)
Init ==
  /\ last = FirstTickets /\ merged = {} /\ at = Home
  /\ tx = [p \in Transactions |-> None]

Next == \E p \in Transactions :
  \/ \E s, t \in 1 .. last : BeginMerge(p, s, t)
  \/ \E op \in {"remove", "regroup"}, r \in Reports, t \in 1 .. last : BeginMove(p, op, r, t)
  \/ \E r \in Reports : BeginModeration(p, r)
  \/ BeginRecalculation(p)
  \/ Lock(p) \/ Commit(p) \/ Refuse(p) \/ Abort(p)

Spec == Init /\ [][Next]_vars

(***************************************************************************)
(* Properties                                                              *)
(***************************************************************************)
\* "two of these actions on overlapping tickets can't deadlock": true of the
\* grouping transactions, whose order of locks rules out a cycle.
GroupingNeverDeadlocks ==
  \A S \in SUBSET {p \in Transactions : tx[p].op \in Grouping} : ~Deadlocked(S)

\* The same sentence of the whole actions, with the recalculation each runs
\* after its commit: refuted.
ActionsNeverDeadlock ==
  \A S \in SUBSET {p \in Transactions : tx[p].action \in Grouping} : ~Deadlocked(S)
=============================================================================
