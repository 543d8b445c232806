--------------------------- MODULE TicketLifecycle ---------------------------
(***************************************************************************)
(* The life of a ticket in api/src/admin: the status ladder, resolving,    *)
(* returning, rejecting, routing (Reassign / Refer), category correction,  *)
(* merging, the Operational Assessment and the ticket's Work Orders.       *)
(*                                                                         *)
(* PostgreSQL runs every transaction at READ COMMITTED.  A handler that    *)
(* locks the ticket row first and then reads what it decides on is one     *)
(* atomic action.  Two kinds of handler are not, and keep a request in     *)
(* flight (req) between their steps:                                       *)
(*   - advanceStatus and rejectTicket read the ticket without a lock, and  *)
(*     write it in a later transaction;                                    *)
(*   - resolveTicket, reassignOffice and logReferral count the open Work   *)
(*     Orders in a subquery of the very SELECT ... FOR UPDATE that waits   *)
(*     for the row: the row is re-read when the lock is granted, but the   *)
(*     subquery keeps the snapshot of the statement's start.               *)
(***************************************************************************)
EXTENDS Naturals, FiniteSets

CONSTANTS
  Tickets,        \* ticket rows
  LegacyTickets,  \* those resolved before outcomes were recorded (0046)
  WorkOrders,     \* work order rows that may be created
  Requests,       \* slots for requests in flight
  Categories,     \* categories offered to a correction
  OfficeFor,      \* officeForCategory
  Agencies,       \* external agencies a ticket can be referred to
  NoTicket,       \* SQL NULL for a ticket id
  NoWork          \* SQL NULL for a work order id

Offices           == {"MEO", "MDRRMO"}
Staff             == Offices \cup {"Focal"}
Outcomes          == {"MUNICIPAL_ACTION_COMPLETED", "EXTERNAL_REFERRAL"}
ActiveStatuses    == {"Reported", "Under Review", "In Progress"}
Statuses          == ActiveStatuses \cup {"Resolved", "Rejected"}
OpenWork          == {"pending", "in_progress"}
WorkStatuses      == OpenWork \cup {"completed", "cancelled"}
Phases            == {"idle", "advance", "reject", "resolve", "upload", "locking", "route"}

ASSUME LifecycleAssumption ==
  /\ LegacyTickets \subseteq Tickets
  /\ OfficeFor \in [Categories -> Offices]
  /\ NoTicket \notin Tickets
  /\ NoWork \notin WorkOrders
  /\ "REASSIGN" \notin Agencies /\ "none" \notin Agencies

VARIABLES
  status,         \* tickets.status
  office,         \* tickets.assigned_office
  category,       \* tickets.category
  mergedInto,     \* tickets.merged_into_ticket_id
  outcome,        \* tickets.resolution_outcome
  resolvedAt,     \* tickets.resolved_at IS NOT NULL
  referred,       \* some REFER row of routing_actions names the ticket
  latestRouting,  \* its newest routing action: "REASSIGN", an agency, or "none"
  assessed,       \* an Operational Assessment with conditions exists
  workStatus,     \* work_orders.status, "none" while the row does not exist
  workTicket,     \* work_orders.ticket_id
  workOffice,     \* work_orders.assigned_office
  replacement,    \* work_orders.replacement_work_order_id
  req             \* the requests between two of their steps

resolution == <<status, outcome, resolvedAt>>
routing    == <<office, category, referred, latestRouting>>
work       == <<assessed, workStatus, workTicket, workOffice, replacement>>
vars       == <<resolution, routing, mergedInto, work, req>>

(***************************************************************************)
(* Requests in flight                                                      *)
(***************************************************************************)
Request == [phase    : Phases,
            ticket   : Tickets \cup {NoTicket},
            staff    : Staff \cup {"none"},
            read     : Statuses \cup {"none"},   \* status read without a lock
            openWork : BOOLEAN,                  \* the counts of the locking
            referral : BOOLEAN,                  \*   statement's snapshot
            outcome  : Outcomes \cup {"none"}]

Idle == [phase |-> "idle", ticket |-> NoTicket, staff |-> "none", read |-> "none",
         openWork |-> FALSE, referral |-> FALSE, outcome |-> "none"]

Begin(r, p, s, t) ==
  /\ req[r] = Idle
  /\ req' = [req EXCEPT ![r] = [Idle EXCEPT !.phase = p, !.ticket = t, !.staff = s,
                                            !.read = status[t]]]

Done(r) == req' = [req EXCEPT ![r] = Idle]

TypeOK ==
  /\ status        \in [Tickets -> Statuses]
  /\ office        \in [Tickets -> Offices]
  /\ category      \in [Tickets -> Categories]
  /\ mergedInto    \in [Tickets -> Tickets \cup {NoTicket}]
  /\ outcome       \in [Tickets -> Outcomes \cup {"none"}]
  /\ resolvedAt    \in [Tickets -> BOOLEAN]
  /\ referred      \in [Tickets -> BOOLEAN]
  /\ latestRouting \in [Tickets -> Agencies \cup {"REASSIGN", "none"}]
  /\ assessed      \in [Tickets -> BOOLEAN]
  /\ workStatus    \in [WorkOrders -> WorkStatuses \cup {"none"}]
  /\ workTicket    \in [WorkOrders -> Tickets \cup {NoTicket}]
  /\ workOffice    \in [WorkOrders -> Offices \cup {"none"}]
  /\ replacement   \in [WorkOrders -> WorkOrders \cup {NoWork}]
  /\ req           \in [Requests -> Request]

(***************************************************************************)
(* The rules the handlers share                                            *)
(***************************************************************************)
NextStatus(s) ==
  CASE s = "Reported"     -> "Under Review"
    [] s = "Under Review" -> "In Progress"
    [] s = "In Progress"  -> "Resolved"
    [] OTHER              -> "none"

OpenWorkOf(t) == {w \in WorkOrders : workTicket[w] = t /\ workStatus[w] \in OpenWork}
HasOpenWork(t) == OpenWorkOf(t) # {}

Live(t) == mergedInto[t] = NoTicket

\* assertOfficeAccess and assertNotMergedAway: operational Personnel of the
\* ticket's current office, and the ticket is not merged away.
MayAct(s, t) == s = office[t] /\ Live(t)

\* Seeded fault: the CHECK constraints of migration 0046 are missing.
RowAllowedUnchecked(s, o, at) == TRUE

\* The CHECK constraints of migration 0046 on a tickets row.
RowAllowed(s, o, at) ==
  /\ o # "none" => s = "Resolved"
  /\ at => s = "Resolved" /\ o # "none"

\* Seeded fault: resolveBlock forgets that a referral must be on record.
MayResolveUnreferred(openWork, referral, o) == ~openWork

\* resolveBlock, negated.
MayResolve(openWork, referral, o) ==
  ~openWork /\ (o = "EXTERNAL_REFERRAL" => referral)

\* Focal Personnel act only on a Reported ticket without open Work Orders;
\* operational Personnel only on their own office's tickets.
ActorMay(s, t, openWork) ==
  IF s = "Focal" THEN status[t] = "Reported" /\ ~openWork ELSE s = office[t]

\* routingBlock, negated.
MayRoute(s, t, openWork) ==
  ActorMay(s, t, openWork) /\ Live(t) /\ status[t] # "Rejected" /\ ~openWork

\* Seeded fault: the liveBlock test is dropped.
MayCorrectMerged(s, t) ==
  ActorMay(s, t, HasOpenWork(t)) /\ status[t] \in ActiveStatuses

\* correctionBlock and liveBlock, negated.
MayCorrect(s, t) ==
  ActorMay(s, t, HasOpenWork(t)) /\ Live(t) /\ status[t] \in ActiveStatuses

\* Seeded fault: the Rejected test of assertResponsibleOfficeCanAct is dropped.
MayWorkRejected(s, t) == MayAct(s, t)

\* assertResponsibleOfficeCanAct.
MayWork(s, t) == MayAct(s, t) /\ status[t] # "Rejected"

WorkTransitions(s) ==
  CASE s = "pending"     -> {"in_progress", "cancelled"}
    [] s = "in_progress" -> {"completed", "cancelled"}
    [] OTHER             -> {}

(***************************************************************************)
(* Advancing: an unlocked read, then an UPDATE guarded on the status read. *)
(***************************************************************************)
\* Seeded fault: the "No transition available" answer is dropped.
ReadForAdvanceAnywhere(r, s, t) ==
  /\ MayAct(s, t)
  /\ Begin(r, "advance", s, t)
  /\ UNCHANGED <<resolution, routing, mergedInto, work>>

ReadForAdvance(r, s, t) ==
  /\ MayAct(s, t)
  /\ NextStatus(status[t]) \in ActiveStatuses
  /\ Begin(r, "advance", s, t)
  /\ UNCHANGED <<resolution, routing, mergedInto, work>>

\* Seeded fault: the UPDATE is guarded by the id alone.
CommitAdvanceUnguarded(r) ==
  LET q == req[r]
      t == q.ticket IN
  /\ q.phase = "advance"
  /\ RowAllowed(NextStatus(q.read), outcome[t], resolvedAt[t])
  /\ status' = [status EXCEPT ![t] = NextStatus(q.read)]
  /\ Done(r)
  /\ UNCHANGED <<outcome, resolvedAt, routing, mergedInto, work>>

CommitAdvance(r) ==
  LET q == req[r]
      t == q.ticket IN
  /\ q.phase = "advance"
  /\ status[t] = q.read
  /\ RowAllowed(NextStatus(q.read), outcome[t], resolvedAt[t])
  /\ status' = [status EXCEPT ![t] = NextStatus(q.read)]
  /\ Done(r)
  /\ UNCHANGED <<outcome, resolvedAt, routing, mergedInto, work>>

(***************************************************************************)
(* Resolving: the same read, a precheck, the photo upload, the locking     *)
(* SELECT's snapshot, and the transaction on the locked row.               *)
(***************************************************************************)
ReadForResolve(r, s, t, o) ==
  /\ MayAct(s, t)
  /\ NextStatus(status[t]) = "Resolved"
  /\ req[r] = Idle
  /\ req' = [req EXCEPT ![r] = [Idle EXCEPT !.phase = "resolve", !.ticket = t, !.staff = s,
                                            !.read = status[t], !.outcome = o]]
  /\ UNCHANGED <<resolution, routing, mergedInto, work>>

PrecheckResolve(r) ==
  LET q == req[r] IN
  /\ q.phase = "resolve"
  /\ MayResolve(HasOpenWork(q.ticket), referred[q.ticket], q.outcome)
  /\ req' = [req EXCEPT ![r].phase = "upload"]
  /\ UNCHANGED <<resolution, routing, mergedInto, work>>

SnapshotResolve(r) ==
  LET q == req[r] IN
  /\ q.phase = "upload"
  /\ req' = [req EXCEPT ![r] = [q EXCEPT !.phase    = "locking",
                                         !.openWork = HasOpenWork(q.ticket),
                                         !.referral = referred[q.ticket]]]
  /\ UNCHANGED <<resolution, routing, mergedInto, work>>

CommitResolve(r) ==
  LET q == req[r]
      t == q.ticket IN
  /\ q.phase = "locking"
  /\ MayAct(q.staff, t)
  /\ status[t] = "In Progress"
  /\ MayResolve(q.openWork, q.referral, q.outcome)
  /\ RowAllowed("Resolved", q.outcome, TRUE)
  /\ status'     = [status EXCEPT ![t] = "Resolved"]
  /\ outcome'    = [outcome EXCEPT ![t] = q.outcome]
  /\ resolvedAt' = [resolvedAt EXCEPT ![t] = TRUE]
  /\ Done(r)
  /\ UNCHANGED <<routing, mergedInto, work>>

\* returnToReview, all on the locked row: the status change and the clearing
\* of the resolution record are one UPDATE.
ReturnToReview(s, t) ==
  /\ MayAct(s, t)
  /\ status[t] = "Resolved" /\ resolvedAt[t] /\ outcome[t] = "EXTERNAL_REFERRAL"
  /\ status'     = [status EXCEPT ![t] = "Under Review"]
  /\ outcome'    = [outcome EXCEPT ![t] = "none"]
  /\ resolvedAt' = [resolvedAt EXCEPT ![t] = FALSE]
  /\ UNCHANGED <<routing, mergedInto, work, req>>

(***************************************************************************)
(* Rejecting: an unlocked read, then an UPDATE by id alone.  Only the      *)
(* database CHECKs stand between a stale read and the row.                 *)
(***************************************************************************)
ReadForReject(r, s, t) ==
  /\ MayAct(s, t)
  /\ status[t] \in ActiveStatuses
  /\ Begin(r, "reject", s, t)
  /\ UNCHANGED <<resolution, routing, mergedInto, work>>

CommitReject(r) ==
  LET t == req[r].ticket IN
  /\ req[r].phase = "reject"
  /\ RowAllowed("Rejected", outcome[t], resolvedAt[t])
  /\ status' = [status EXCEPT ![t] = "Rejected"]
  /\ Done(r)
  /\ UNCHANGED <<outcome, resolvedAt, routing, mergedInto, work>>

(***************************************************************************)
(* Routing: lockForRouting counts the open Work Orders in the statement    *)
(* that waits for the row lock; everything else is read under the lock.    *)
(***************************************************************************)
SnapshotRouting(r, s, t) ==
  /\ req[r] = Idle
  /\ req' = [req EXCEPT ![r] = [Idle EXCEPT !.phase = "route", !.ticket = t, !.staff = s,
                                            !.openWork = HasOpenWork(t)]]
  /\ UNCHANGED <<resolution, routing, mergedInto, work>>

CommitReassign(r, o) ==
  LET q == req[r] IN
  /\ q.phase = "route"
  /\ MayRoute(q.staff, q.ticket, q.openWork)
  /\ o # office[q.ticket]
  /\ office'        = [office EXCEPT ![q.ticket] = o]
  /\ latestRouting' = [latestRouting EXCEPT ![q.ticket] = "REASSIGN"]
  /\ Done(r)
  /\ UNCHANGED <<resolution, category, referred, mergedInto, work>>

CommitRefer(r, a) ==
  LET q == req[r] IN
  /\ q.phase = "route"
  /\ MayRoute(q.staff, q.ticket, q.openWork)
  /\ latestRouting[q.ticket] # a
  /\ latestRouting' = [latestRouting EXCEPT ![q.ticket] = a]
  /\ referred'      = [referred EXCEPT ![q.ticket] = TRUE]
  /\ Done(r)
  /\ UNCHANGED <<resolution, office, category, mergedInto, work>>

\* A request in flight ends without any effect: refused (4xx), a CHECK
\* violation rolled back, a failed upload, a lost connection, a crash.
RequestFails(r) ==
  /\ req[r] # Idle
  /\ Done(r)
  /\ UNCHANGED <<resolution, routing, mergedInto, work>>

(***************************************************************************)
(* Corrections and merges: rows locked first, facts read afterwards.       *)
(***************************************************************************)
CorrectCategory(s, t, c) ==
  LET moved == OfficeFor[c] # office[t] IN
  /\ MayCorrect(s, t)
  /\ c # category[t]
  /\ moved => ~HasOpenWork(t) /\ MayRoute(s, t, HasOpenWork(t))
  /\ category' = [category EXCEPT ![t] = c]
  /\ office'   = [office EXCEPT ![t] = OfficeFor[c]]
  /\ latestRouting' = IF moved THEN [latestRouting EXCEPT ![t] = "REASSIGN"] ELSE latestRouting
  /\ UNCHANGED <<resolution, referred, mergedInto, work, req>>

\* Seeded fault: mergeBlock no longer asks for finished Work Orders.
MergeWithOpenWork(s, survivor, away) ==
  /\ survivor # away
  /\ office[survivor] = office[away]
  /\ MayCorrect(s, survivor) /\ MayCorrect(s, away)
  /\ category[survivor] = category[away]
  /\ mergedInto' = [mergedInto EXCEPT ![away] = survivor]
  /\ UNCHANGED <<resolution, routing, work, req>>

Merge(s, survivor, away) ==
  /\ survivor # away
  /\ office[survivor] = office[away]
  /\ MayCorrect(s, survivor) /\ MayCorrect(s, away)
  /\ category[survivor] = category[away]
  /\ ~HasOpenWork(away)
  /\ mergedInto' = [mergedInto EXCEPT ![away] = survivor]
  /\ UNCHANGED <<resolution, routing, work, req>>

(***************************************************************************)
(* The Operational Assessment and the Work Orders: the ticket row is       *)
(* locked (after the work order's own row) before anything is decided.     *)
(***************************************************************************)
SaveAssessment(s, t) ==
  /\ MayWork(s, t)
  /\ assessed' = [assessed EXCEPT ![t] = TRUE]
  /\ UNCHANGED <<resolution, routing, mergedInto, workStatus, workTicket, workOffice, replacement, req>>

CreateWorkOrder(s, t, w) ==
  /\ workStatus[w] = "none"
  /\ MayWork(s, t)
  /\ assessed[t]
  /\ workStatus' = [workStatus EXCEPT ![w] = "pending"]
  /\ workTicket' = [workTicket EXCEPT ![w] = t]
  /\ workOffice' = [workOffice EXCEPT ![w] = office[t]]
  /\ UNCHANGED <<resolution, routing, mergedInto, assessed, replacement, req>>

SetWorkStatus(s, w, next) ==
  /\ workStatus[w] \in OpenWork
  /\ MayWork(s, workTicket[w])
  /\ next \in WorkTransitions(workStatus[w]) \ {"cancelled"}
  /\ workStatus' = [workStatus EXCEPT ![w] = next]
  /\ UNCHANGED <<resolution, routing, mergedInto, assessed, workTicket, workOffice, replacement, req>>

\* Seeded fault: any work order of the ticket is taken as the replacement.
CancelWorkOrderForAny(s, w, rep) ==
  /\ workStatus[w] \in OpenWork
  /\ MayWork(s, workTicket[w])
  /\ rep # NoWork => workTicket[rep] = workTicket[w]
  /\ workStatus'  = [workStatus EXCEPT ![w] = "cancelled"]
  /\ replacement' = [replacement EXCEPT ![w] = rep]
  /\ UNCHANGED <<resolution, routing, mergedInto, assessed, workTicket, workOffice, req>>

CancelWorkOrder(s, w, rep) ==
  /\ workStatus[w] \in OpenWork
  /\ MayWork(s, workTicket[w])
  /\ "cancelled" \in WorkTransitions(workStatus[w])
  /\ rep # NoWork => /\ rep # w
                     /\ workTicket[rep] = workTicket[w]
                     /\ workStatus[rep] \in OpenWork
  /\ workStatus'  = [workStatus EXCEPT ![w] = "cancelled"]
  /\ replacement' = [replacement EXCEPT ![w] = rep]
  /\ UNCHANGED <<resolution, routing, mergedInto, assessed, workTicket, workOffice, req>>

(***************************************************************************)
(* Specification                                                           *)
(***************************************************************************)
\* A ticket starts as ReportsService.submit inserts it: Reported, in the
\* office of its category.
Init ==
  /\ status  = [t \in Tickets |-> IF t \in LegacyTickets THEN "Resolved" ELSE "Reported"]
  /\ outcome = [t \in Tickets |->
                  IF t \in LegacyTickets THEN "MUNICIPAL_ACTION_COMPLETED" ELSE "none"]
  /\ category \in [Tickets -> Categories]
  /\ office = [t \in Tickets |-> OfficeFor[category[t]]]
  /\ mergedInto    = [t \in Tickets |-> NoTicket]
  /\ resolvedAt    = [t \in Tickets |-> FALSE]
  /\ referred      = [t \in Tickets |-> FALSE]
  /\ latestRouting = [t \in Tickets |-> "none"]
  /\ assessed      = [t \in Tickets |-> FALSE]
  /\ workStatus    = [w \in WorkOrders |-> "none"]
  /\ workTicket    = [w \in WorkOrders |-> NoTicket]
  /\ workOffice    = [w \in WorkOrders |-> "none"]
  /\ replacement   = [w \in WorkOrders |-> NoWork]
  /\ req           = [r \in Requests |-> Idle]

Next ==
  \/ \E r \in Requests, s \in Staff, t \in Tickets :
       \/ ReadForAdvance(r, s, t)
       \/ \E o \in Outcomes : ReadForResolve(r, s, t, o)
       \/ ReadForReject(r, s, t)
       \/ SnapshotRouting(r, s, t)
  \/ \E r \in Requests :
       \/ CommitAdvance(r)
       \/ PrecheckResolve(r)
       \/ SnapshotResolve(r)
       \/ CommitResolve(r)
       \/ CommitReject(r)
       \/ \E o \in Offices : CommitReassign(r, o)
       \/ \E a \in Agencies : CommitRefer(r, a)
       \/ RequestFails(r)
  \/ \E s \in Staff, t \in Tickets :
       \/ ReturnToReview(s, t)
       \/ \E c \in Categories : CorrectCategory(s, t, c)
       \/ \E away \in Tickets : Merge(s, t, away)
       \/ SaveAssessment(s, t)
       \/ \E w \in WorkOrders : CreateWorkOrder(s, t, w)
  \/ \E s \in Staff, w \in WorkOrders :
       \/ \E next \in WorkStatuses : SetWorkStatus(s, w, next)
       \/ \E rep \in WorkOrders \cup {NoWork} : CancelWorkOrder(s, w, rep)

Spec == Init /\ [][Next]_vars

(***************************************************************************)
(* Properties                                                              *)
(***************************************************************************)
Ladder == INSTANCE StatusLadder WITH status <- status, outcome <- outcome

\* Whatever requests race, a ticket's status and outcome only ever move as
\* StatusLadder promises: one rung at a time, Resolved with its outcome,
\* back only from an external referral, Rejected for good.
ImplementsLadder == Ladder!Spec

\* A ticket is Resolved exactly while it carries an outcome, and carries a
\* resolution time exactly then unless it is a legacy ticket: no stale
\* reject or advance lands on top of a resolution record.
ResolutionRecordMatchesStatus ==
  \A t \in Tickets :
    /\ status[t] = "Resolved" <=> outcome[t] # "none"
    /\ resolvedAt[t] <=> status[t] = "Resolved" /\ t \notin LegacyTickets

\* A ticket closed as an External Referral has a REFER routing action on
\* record, although the count was read from an older snapshot.
ReferralBacksOutcome ==
  \A t \in Tickets : outcome[t] = "EXTERNAL_REFERRAL" => referred[t]

\* An open Work Order never hangs on a merged-away ticket, where nobody
\* could finish it.
MergedAwayHasNoOpenWork ==
  \A w \in WorkOrders : workStatus[w] \in OpenWork => Live(workTicket[w])

\* Following merged_into_ticket_id always ends: no set of tickets is closed
\* under it (answerResolution and the ticket detail follow the chain).
MergeAcyclic ==
  \A S \in SUBSET Tickets : S # {} => \E t \in S : mergedInto[t] \notin S

\* The chain of replacement Work Orders ends, stays on one ticket, and
\* starts at a cancelled one.
ReplacementsEnd ==
  /\ \A w \in WorkOrders : replacement[w] # NoWork =>
       workStatus[w] = "cancelled" /\ workTicket[replacement[w]] = workTicket[w]
  /\ \A S \in SUBSET WorkOrders : S # {} => \E w \in S : replacement[w] \notin S

\* The Work Orders of a Rejected or merged-away ticket are history: none is
\* created, and none changes its status or replacement.
ClosedTicketFreezesWork ==
  [][\A w \in WorkOrders, t \in Tickets :
       (workTicket[w] = t \/ workTicket'[w] = t) /\ (status[t] = "Rejected" \/ ~Live(t))
         => UNCHANGED <<workStatus[w], workTicket[w], replacement[w]>>]_vars

(***************************************************************************)
(* What comments and documents of the repository say, and the code does    *)
(* not keep: each is refuted by a run.                                     *)
(***************************************************************************)
\* "no Work Order may be pending or in progress (409) ... checked ... again
\* on the locked row": a ticket is not Resolved over open work.
ResolvesOnlyFinishedWork ==
  [][\A t \in Tickets : status[t] # "Resolved" /\ status'[t] = "Resolved"
                          => ~HasOpenWork(t)]_vars

\* "A merged-away ticket is history: viewable, never changed again."
MergedAwayIsHistory ==
  [][\A t \in Tickets : ~Live(t) => status'[t] = status[t]]_vars
=============================================================================
