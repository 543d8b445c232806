----------------------- MODULE TicketLifecycleProofs -----------------------
(***************************************************************************)
(* Proofs about TicketLifecycle for any tickets, work orders, categories,  *)
(* agencies and number of requests in flight.  The inductive invariant is  *)
(* IInv; each of its parts is preserved by a lemma of its own, and the     *)
(* theorems at the end put them together.                                  *)
(***************************************************************************)
EXTENDS TicketLifecycle, TLAPS

\* What a request in flight carries between two of its steps.
RequestsOK ==
  \A r \in Requests :
    LET q == req[r] IN
    /\ q.phase # "idle" => q.ticket \in Tickets
    /\ q.phase = "advance" => q.read \in {"Reported", "Under Review"}
    /\ q.phase \in {"resolve", "upload", "locking"} => q.outcome \in Outcomes
    /\ q.phase = "locking" /\ q.referral => referred[q.ticket]

\* A work order that exists belongs to a ticket; an absent one is blank.
WorkRowsOK ==
  \A w \in WorkOrders :
    /\ workStatus[w] # "none" => workTicket[w] \in Tickets
    /\ workStatus[w] = "none" => workTicket[w] = NoTicket

\* A legacy ticket stays as migration 0046 left it: nothing reopens it.
LegacyStayResolved ==
  \A t \in LegacyTickets :
    status[t] = "Resolved" /\ outcome[t] = "MUNICIPAL_ACTION_COMPLETED"

IInv ==
  /\ TypeOK
  /\ RequestsOK
  /\ WorkRowsOK
  /\ LegacyStayResolved
  /\ ResolutionRecordMatchesStatus
  /\ ReferralBacksOutcome
  /\ MergedAwayHasNoOpenWork
  /\ MergeAcyclic
  /\ ReplacementsEnd

(***************************************************************************)
(* Types                                                                   *)
(***************************************************************************)
LEMMA IdleIsRequest == Idle \in Request
  BY DEF Idle, Request, Phases

LEMMA TypePreserved ==
  ASSUME TypeOK, RequestsOK, WorkRowsOK, [Next]_vars
  PROVE  TypeOK'
<1> USE LifecycleAssumption DEF TypeOK
<1>1. ASSUME NEW r \in Requests, NEW s \in Staff, NEW t \in Tickets,
             ReadForAdvance(r, s, t) \/ ReadForReject(r, s, t)
      PROVE  TypeOK'
  <2>1. PICK p \in {"advance", "reject"} : Begin(r, p, s, t)
    BY <1>1 DEF ReadForAdvance, ReadForReject
  <2>2. [Idle EXCEPT !.phase = p, !.ticket = t, !.staff = s, !.read = status[t]] \in Request
    BY DEF Idle, Request, Phases
  <2> QED
    BY <1>1, <2>1, <2>2 DEF ReadForAdvance, ReadForReject, Begin, resolution, routing, work
<1>2. ASSUME NEW r \in Requests, NEW s \in Staff, NEW t \in Tickets, NEW o \in Outcomes,
             ReadForResolve(r, s, t, o)
      PROVE  TypeOK'
  <2>1. [Idle EXCEPT !.phase = "resolve", !.ticket = t, !.staff = s, !.read = status[t],
                     !.outcome = o] \in Request
    BY DEF Idle, Request, Phases
  <2> QED
    BY <1>2, <2>1 DEF ReadForResolve, resolution, routing, work
<1>3. ASSUME NEW r \in Requests, NEW s \in Staff, NEW t \in Tickets,
             SnapshotRouting(r, s, t)
      PROVE  TypeOK'
  <2>1. HasOpenWork(t) \in BOOLEAN
    BY DEF HasOpenWork
  <2>2. [Idle EXCEPT !.phase = "route", !.ticket = t, !.staff = s,
                     !.openWork = HasOpenWork(t)] \in Request
    BY <2>1 DEF Idle, Request, Phases
  <2> QED
    BY <1>3, <2>2 DEF SnapshotRouting, resolution, routing, work
<1>4. ASSUME NEW r \in Requests, CommitAdvance(r)
      PROVE  TypeOK'
  <2>1. req[r].ticket \in Tickets /\ NextStatus(req[r].read) \in Statuses
    BY <1>4 DEF CommitAdvance, RequestsOK, NextStatus, Statuses, ActiveStatuses
  <2> QED
    BY <1>4, <2>1, IdleIsRequest DEF CommitAdvance, Done, routing, work
<1>5. ASSUME NEW r \in Requests, PrecheckResolve(r)
      PROVE  TypeOK'
  <2>1. [req[r] EXCEPT !.phase = "upload"] \in Request
    BY req[r] \in Request DEF Request, Phases
  <2> QED
    BY <1>5, <2>1 DEF PrecheckResolve, resolution, routing, work
<1>6. ASSUME NEW r \in Requests, SnapshotResolve(r)
      PROVE  TypeOK'
  <2>1. /\ req[r].ticket \in Tickets
        /\ HasOpenWork(req[r].ticket) \in BOOLEAN
        /\ referred[req[r].ticket] \in BOOLEAN
    BY <1>6 DEF SnapshotResolve, RequestsOK, HasOpenWork
  <2>2. [req[r] EXCEPT !.phase = "locking", !.openWork = HasOpenWork(req[r].ticket),
                       !.referral = referred[req[r].ticket]] \in Request
    BY <2>1, req[r] \in Request DEF Request, Phases
  <2> QED
    BY <1>6, <2>2 DEF SnapshotResolve, resolution, routing, work
<1>7. ASSUME NEW r \in Requests, CommitResolve(r)
      PROVE  TypeOK'
  <2>1. req[r].ticket \in Tickets /\ req[r].outcome \in Outcomes
    BY <1>7 DEF CommitResolve, RequestsOK
  <2> QED
    BY <1>7, <2>1, IdleIsRequest DEF CommitResolve, Done, Statuses, routing, work
<1>8. ASSUME NEW r \in Requests, CommitReject(r)
      PROVE  TypeOK'
  <2>1. req[r].ticket \in Tickets
    BY <1>8 DEF CommitReject, RequestsOK
  <2> QED
    BY <1>8, <2>1, IdleIsRequest DEF CommitReject, Done, Statuses, routing, work
<1>9. ASSUME NEW r \in Requests, NEW o \in Offices, CommitReassign(r, o)
      PROVE  TypeOK'
  BY <1>9, IdleIsRequest DEF CommitReassign, Done, RequestsOK, resolution, work
<1>10. ASSUME NEW r \in Requests, NEW a \in Agencies, CommitRefer(r, a)
       PROVE  TypeOK'
  BY <1>10, IdleIsRequest DEF CommitRefer, Done, RequestsOK, resolution, work
<1>11. ASSUME NEW r \in Requests, RequestFails(r)
       PROVE  TypeOK'
  BY <1>11, IdleIsRequest DEF RequestFails, Done, resolution, routing, work
<1>12. ASSUME NEW s \in Staff, NEW t \in Tickets, ReturnToReview(s, t)
       PROVE  TypeOK'
  BY <1>12 DEF ReturnToReview, Statuses, ActiveStatuses, routing, work
<1>13. ASSUME NEW s \in Staff, NEW t \in Tickets, NEW c \in Categories,
              CorrectCategory(s, t, c)
       PROVE  TypeOK'
  BY <1>13 DEF CorrectCategory, resolution, work
<1>14. ASSUME NEW s \in Staff, NEW t \in Tickets, NEW away \in Tickets, Merge(s, t, away)
       PROVE  TypeOK'
  BY <1>14 DEF Merge, resolution, routing, work
<1>15. ASSUME NEW s \in Staff, NEW t \in Tickets, SaveAssessment(s, t)
       PROVE  TypeOK'
  BY <1>15 DEF SaveAssessment, resolution, routing
<1>16. ASSUME NEW s \in Staff, NEW t \in Tickets, NEW w \in WorkOrders,
              CreateWorkOrder(s, t, w)
       PROVE  TypeOK'
  BY <1>16 DEF CreateWorkOrder, WorkStatuses, OpenWork, resolution, routing
<1>17. ASSUME NEW s \in Staff, NEW w \in WorkOrders, NEW next \in WorkStatuses,
              SetWorkStatus(s, w, next)
       PROVE  TypeOK'
  BY <1>17 DEF SetWorkStatus, resolution, routing
<1>18. ASSUME NEW s \in Staff, NEW w \in WorkOrders, NEW rep \in WorkOrders \cup {NoWork},
              CancelWorkOrder(s, w, rep)
       PROVE  TypeOK'
  BY <1>18 DEF CancelWorkOrder, WorkStatuses, resolution, routing
<1>19. CASE UNCHANGED vars
  BY <1>19 DEF vars, resolution, routing, work
<1> QED
  BY <1>1, <1>2, <1>3, <1>4, <1>5, <1>6, <1>7, <1>8, <1>9, <1>10, <1>11, <1>12, <1>13,
     <1>14, <1>15, <1>16, <1>17, <1>18, <1>19 DEF Next

(***************************************************************************)
(* Requests in flight                                                      *)
(***************************************************************************)
\* How one request moves in a step: it stays, ends, begins, or takes one of
\* the two steps of resolving before its commit.
RequestMoves(i) ==
  \/ req'[i] = req[i]
  \/ req'[i] = Idle
  \/ \E t \in Tickets :
       \/ req'[i].phase = "advance" /\ req'[i].ticket = t
            /\ req'[i].read \in {"Reported", "Under Review"}
       \/ req'[i].phase \in {"reject", "route"} /\ req'[i].ticket = t
       \/ req'[i].phase = "resolve" /\ req'[i].ticket = t /\ req'[i].outcome \in Outcomes
  \/ req[i].phase = "resolve" /\ req'[i].phase = "upload"
       /\ req'[i].ticket = req[i].ticket /\ req'[i].outcome = req[i].outcome
  \/ req[i].phase = "upload" /\ req'[i].phase = "locking"
       /\ req'[i].ticket = req[i].ticket /\ req'[i].outcome = req[i].outcome
       /\ req'[i].referral = referred[req[i].ticket]

LEMMA RequestSteps ==
  ASSUME TypeOK, [Next]_vars, NEW i \in Requests
  PROVE  RequestMoves(i)
<1> USE DEF TypeOK, RequestMoves
<1>1. ASSUME NEW r \in Requests, NEW s \in Staff, NEW t \in Tickets, ReadForAdvance(r, s, t)
      PROVE  RequestMoves(i)
  <2>1. status[t] \in {"Reported", "Under Review"}
    BY <1>1 DEF ReadForAdvance, NextStatus, Statuses, ActiveStatuses
  <2> QED
    BY <1>1, <2>1 DEF ReadForAdvance, Begin, Idle
<1>2. ASSUME NEW r \in Requests, NEW s \in Staff, NEW t \in Tickets, ReadForReject(r, s, t)
      PROVE  RequestMoves(i)
  BY <1>2 DEF ReadForReject, Begin, Idle
<1>3. ASSUME NEW r \in Requests, NEW s \in Staff, NEW t \in Tickets, SnapshotRouting(r, s, t)
      PROVE  RequestMoves(i)
  BY <1>3 DEF SnapshotRouting, Idle
<1>4. ASSUME NEW r \in Requests, NEW s \in Staff, NEW t \in Tickets, NEW o \in Outcomes,
             ReadForResolve(r, s, t, o)
      PROVE  RequestMoves(i)
  BY <1>4 DEF ReadForResolve, Idle
<1>5. ASSUME NEW r \in Requests, PrecheckResolve(r)
      PROVE  RequestMoves(i)
  BY <1>5, req[r] \in Request DEF PrecheckResolve, Request
<1>6. ASSUME NEW r \in Requests, SnapshotResolve(r)
      PROVE  RequestMoves(i)
  BY <1>6, req[r] \in Request DEF SnapshotResolve, Request
<1>7. ASSUME NEW r \in Requests, Done(r)
      PROVE  RequestMoves(i)
  BY <1>7 DEF Done
<1>8. CASE UNCHANGED req
  BY <1>8
<1> QED
  BY <1>1, <1>2, <1>3, <1>4, <1>5, <1>6, <1>7, <1>8
  DEF Next, vars, CommitAdvance, CommitResolve, CommitReject, CommitReassign, CommitRefer,
      RequestFails, ReturnToReview, CorrectCategory, Merge, SaveAssessment, CreateWorkOrder,
      SetWorkStatus, CancelWorkOrder

\* Only a referral writes referred, and it only sets it.
LEMMA ReferredGrows ==
  ASSUME TypeOK, RequestsOK, [Next]_vars, NEW t \in Tickets, referred[t]
  PROVE  referred'[t]
<1>1. ASSUME NEW r \in Requests, NEW a \in Agencies, CommitRefer(r, a)
      PROVE  referred'[t]
  BY <1>1 DEF TypeOK, CommitRefer
<1>2. CASE UNCHANGED referred
  BY <1>2
<1> QED
  BY <1>1, <1>2
  DEF Next, vars, routing, ReadForAdvance, ReadForReject, ReadForResolve, SnapshotRouting,
      CommitAdvance, PrecheckResolve, SnapshotResolve, CommitResolve, CommitReject,
      CommitReassign, RequestFails, ReturnToReview, CorrectCategory, Merge, SaveAssessment,
      CreateWorkOrder, SetWorkStatus, CancelWorkOrder

LEMMA RequestsPreserved ==
  ASSUME TypeOK, RequestsOK, [Next]_vars
  PROVE  RequestsOK'
<1> SUFFICES ASSUME NEW i \in Requests
             PROVE  LET q == req'[i] IN
                    /\ q.phase # "idle" => q.ticket \in Tickets
                    /\ q.phase = "advance" => q.read \in {"Reported", "Under Review"}
                    /\ q.phase \in {"resolve", "upload", "locking"} => q.outcome \in Outcomes
                    /\ q.phase = "locking" /\ q.referral => referred'[q.ticket]
  BY DEF RequestsOK
<1>1. RequestMoves(i)
  BY RequestSteps
<1>2. \A t \in Tickets : referred[t] => referred'[t]
  BY ReferredGrows
<1>3. CASE req'[i] = req[i]
  BY <1>2, <1>3 DEF RequestsOK
<1>4. CASE req'[i] = Idle
  BY <1>4 DEF Idle
<1>5. CASE \E t \in Tickets :
             \/ req'[i].phase = "advance" /\ req'[i].ticket = t
                  /\ req'[i].read \in {"Reported", "Under Review"}
             \/ req'[i].phase \in {"reject", "route"} /\ req'[i].ticket = t
             \/ req'[i].phase = "resolve" /\ req'[i].ticket = t /\ req'[i].outcome \in Outcomes
  BY <1>5
<1>6. CASE req[i].phase \in {"resolve", "upload"} /\ req'[i].phase \in {"upload", "locking"}
           /\ req'[i].ticket = req[i].ticket /\ req'[i].outcome = req[i].outcome
           /\ (req'[i].phase = "locking" => req'[i].referral = referred[req[i].ticket])
  BY <1>2, <1>6 DEF RequestsOK
<1> QED
  BY <1>1, <1>3, <1>4, <1>5, <1>6 DEF RequestMoves

(***************************************************************************)
(* Merges and work orders                                                  *)
(***************************************************************************)
LEMMA MergeSteps ==
  ASSUME [Next]_vars
  PROVE  \/ UNCHANGED mergedInto
         \/ /\ UNCHANGED <<workStatus, workTicket, replacement>>
            /\ \E s \in Staff, survivor, away \in Tickets : Merge(s, survivor, away)
  BY DEF Next, vars, work, ReadForAdvance, ReadForReject, ReadForResolve, SnapshotRouting,
     CommitAdvance, PrecheckResolve, SnapshotResolve, CommitResolve, CommitReject,
     CommitReassign, CommitRefer, RequestFails, ReturnToReview, CorrectCategory, Merge,
     SaveAssessment, CreateWorkOrder, SetWorkStatus, CancelWorkOrder

LEMMA WorkSteps ==
  ASSUME [Next]_vars
  PROVE  \/ UNCHANGED <<workStatus, workTicket, replacement>>
         \/ \E s \in Staff, t \in Tickets, w \in WorkOrders : CreateWorkOrder(s, t, w)
         \/ \E s \in Staff, w \in WorkOrders, next \in WorkStatuses : SetWorkStatus(s, w, next)
         \/ \E s \in Staff, w \in WorkOrders, rep \in WorkOrders \cup {NoWork} :
              CancelWorkOrder(s, w, rep)
  BY DEF Next, vars, work, ReadForAdvance, ReadForReject, ReadForResolve, SnapshotRouting,
     CommitAdvance, PrecheckResolve, SnapshotResolve, CommitResolve, CommitReject,
     CommitReassign, CommitRefer, RequestFails, ReturnToReview, CorrectCategory, Merge,
     SaveAssessment

LEMMA WorkRowsPreserved ==
  ASSUME TypeOK, WorkRowsOK, [Next]_vars
  PROVE  WorkRowsOK'
<1> USE DEF TypeOK, WorkRowsOK
<1>1. CASE UNCHANGED <<workStatus, workTicket, replacement>>
  BY <1>1
<1>2. ASSUME NEW s \in Staff, NEW t \in Tickets, NEW w \in WorkOrders, CreateWorkOrder(s, t, w)
      PROVE  WorkRowsOK'
  BY <1>2 DEF CreateWorkOrder
<1>3. ASSUME NEW s \in Staff, NEW w \in WorkOrders, NEW next \in WorkStatuses,
             SetWorkStatus(s, w, next)
      PROVE  WorkRowsOK'
  BY <1>3 DEF SetWorkStatus, OpenWork, WorkStatuses
<1>4. ASSUME NEW s \in Staff, NEW w \in WorkOrders, NEW rep \in WorkOrders \cup {NoWork},
             CancelWorkOrder(s, w, rep)
      PROVE  WorkRowsOK'
  BY <1>4 DEF CancelWorkOrder, OpenWork
<1> QED
  BY <1>1, <1>2, <1>3, <1>4, WorkSteps

LEMMA MergedAwayPreserved ==
  ASSUME TypeOK, WorkRowsOK, MergedAwayHasNoOpenWork, [Next]_vars
  PROVE  MergedAwayHasNoOpenWork'
<1> USE DEF TypeOK, MergedAwayHasNoOpenWork, Live
<1>1. ASSUME NEW s \in Staff, NEW survivor \in Tickets, NEW away \in Tickets,
             Merge(s, survivor, away), UNCHANGED <<workStatus, workTicket>>
      PROVE  MergedAwayHasNoOpenWork'
  BY <1>1 DEF Merge, HasOpenWork, OpenWorkOf
<1>2. ASSUME UNCHANGED mergedInto, UNCHANGED <<workStatus, workTicket, replacement>>
      PROVE  MergedAwayHasNoOpenWork'
  BY <1>2
<1>3. ASSUME UNCHANGED mergedInto, NEW s \in Staff, NEW t \in Tickets, NEW w \in WorkOrders,
             CreateWorkOrder(s, t, w)
      PROVE  MergedAwayHasNoOpenWork'
  BY <1>3 DEF CreateWorkOrder, MayWork, MayAct
<1>4. ASSUME UNCHANGED mergedInto, NEW s \in Staff, NEW w \in WorkOrders,
             NEW next \in WorkStatuses, SetWorkStatus(s, w, next)
      PROVE  MergedAwayHasNoOpenWork'
  BY <1>4 DEF SetWorkStatus
<1>5. ASSUME UNCHANGED mergedInto, NEW s \in Staff, NEW w \in WorkOrders,
             NEW rep \in WorkOrders \cup {NoWork}, CancelWorkOrder(s, w, rep)
      PROVE  MergedAwayHasNoOpenWork'
  BY <1>5 DEF CancelWorkOrder, OpenWork
<1> QED
  BY <1>1, <1>2, <1>3, <1>4, <1>5, MergeSteps, WorkSteps

\* Only a live ticket survives a merge, so the new edge starts no cycle.
LEMMA MergeAcyclicPreserved ==
  ASSUME TypeOK, MergeAcyclic, [Next]_vars
  PROVE  MergeAcyclic'
<1> USE LifecycleAssumption DEF TypeOK
<1>1. CASE UNCHANGED mergedInto
  BY <1>1 DEF MergeAcyclic
<1>2. ASSUME NEW s \in Staff, NEW survivor \in Tickets, NEW away \in Tickets,
             Merge(s, survivor, away)
      PROVE  MergeAcyclic'
  <2> SUFFICES ASSUME NEW S \in SUBSET Tickets, S # {}
               PROVE  \E t \in S : mergedInto'[t] \notin S
    BY DEF MergeAcyclic
  <2>1. /\ mergedInto' = [mergedInto EXCEPT ![away] = survivor]
        /\ survivor # away /\ mergedInto[survivor] = NoTicket
    BY <1>2 DEF Merge, MayCorrect, Live
  <2>2. CASE away \notin S
    BY <2>1, <2>2 DEF MergeAcyclic
  <2>3. CASE away \in S /\ survivor \notin S
    BY <2>1, <2>3
  <2>4. CASE away \in S /\ survivor \in S
    BY <2>1, <2>4
  <2> QED
    BY <2>2, <2>3, <2>4
<1> QED
  BY <1>1, <1>2, MergeSteps

\* A replacement is open, so it has no replacement of its own.
LEMMA ReplacementsEndPreserved ==
  ASSUME TypeOK, WorkRowsOK, ReplacementsEnd, [Next]_vars
  PROVE  ReplacementsEnd'
<1> USE LifecycleAssumption DEF TypeOK
<1>1. CASE UNCHANGED <<workStatus, workTicket, replacement>>
  BY <1>1 DEF ReplacementsEnd
<1>2. ASSUME NEW s \in Staff, NEW t \in Tickets, NEW w \in WorkOrders, CreateWorkOrder(s, t, w)
      PROVE  ReplacementsEnd'
  <2>1. \A v \in WorkOrders : replacement[v] # NoWork => v # w /\ replacement[v] # w
    BY <1>2 DEF ReplacementsEnd, CreateWorkOrder, WorkRowsOK
  <2> QED
    BY <1>2, <2>1 DEF ReplacementsEnd, CreateWorkOrder
<1>3. ASSUME NEW s \in Staff, NEW w \in WorkOrders, NEW next \in WorkStatuses,
             SetWorkStatus(s, w, next)
      PROVE  ReplacementsEnd'
  BY <1>3 DEF ReplacementsEnd, SetWorkStatus, OpenWork
<1>4. ASSUME NEW s \in Staff, NEW w \in WorkOrders, NEW rep \in WorkOrders \cup {NoWork},
             CancelWorkOrder(s, w, rep)
      PROVE  ReplacementsEnd'
  <2>1. /\ workStatus' = [workStatus EXCEPT ![w] = "cancelled"]
        /\ replacement' = [replacement EXCEPT ![w] = rep]
        /\ UNCHANGED workTicket
        /\ rep # NoWork => /\ rep # w /\ workTicket[rep] = workTicket[w]
                           /\ workStatus[rep] \in OpenWork
    BY <1>4 DEF CancelWorkOrder
  <2>2. \A v \in WorkOrders : replacement'[v] # NoWork =>
           workStatus'[v] = "cancelled" /\ workTicket'[replacement'[v]] = workTicket'[v]
    BY <2>1 DEF ReplacementsEnd
  <2>3. ASSUME NEW S \in SUBSET WorkOrders, S # {}
        PROVE  \E v \in S : replacement'[v] \notin S
    <3>1. CASE w \notin S
      BY <2>1, <2>3, <3>1 DEF ReplacementsEnd
    <3>2. CASE w \in S /\ rep \notin S
      BY <2>1, <3>2
    <3>3. CASE w \in S /\ rep \in S
      <4>1. rep # w /\ replacement[rep] = NoWork
        BY <2>1, <3>3 DEF ReplacementsEnd, OpenWork
      <4> QED
        BY <2>1, <3>3, <4>1
    <3> QED
      BY <3>1, <3>2, <3>3
  <2> QED
    BY <2>2, <2>3 DEF ReplacementsEnd
<1> QED
  BY <1>1, <1>2, <1>3, <1>4, WorkSteps

(***************************************************************************)
(* Status, outcome and the resolution record                               *)
(***************************************************************************)
LEMMA StatusSteps ==
  ASSUME [Next]_vars
  PROVE  \/ UNCHANGED <<status, outcome, resolvedAt>>
         \/ \E r \in Requests : CommitAdvance(r) \/ CommitResolve(r) \/ CommitReject(r)
         \/ \E s \in Staff, t \in Tickets : ReturnToReview(s, t)
  BY DEF Next, vars, resolution, ReadForAdvance, ReadForReject, ReadForResolve,
     SnapshotRouting, PrecheckResolve, SnapshotResolve, CommitReassign, CommitRefer,
     RequestFails, CorrectCategory, Merge, SaveAssessment, CreateWorkOrder, SetWorkStatus,
     CancelWorkOrder

LEMMA ResolutionRecordPreserved ==
  ASSUME TypeOK, RequestsOK, LegacyStayResolved, ResolutionRecordMatchesStatus, [Next]_vars
  PROVE  LegacyStayResolved' /\ ResolutionRecordMatchesStatus'
<1> USE LifecycleAssumption DEF TypeOK, LegacyStayResolved, ResolutionRecordMatchesStatus
<1>1. CASE UNCHANGED <<status, outcome, resolvedAt>>
  BY <1>1
<1>2. ASSUME NEW r \in Requests, CommitAdvance(r)
      PROVE  LegacyStayResolved' /\ ResolutionRecordMatchesStatus'
  <2>1. /\ req[r].ticket \in Tickets
        /\ status[req[r].ticket] \in {"Reported", "Under Review"}
        /\ NextStatus(status[req[r].ticket]) # "Resolved"
        /\ status' = [status EXCEPT ![req[r].ticket] = NextStatus(status[req[r].ticket])]
        /\ UNCHANGED <<outcome, resolvedAt>>
    BY <1>2 DEF CommitAdvance, RequestsOK, NextStatus
  <2> QED
    BY <2>1
<1>3. ASSUME NEW r \in Requests, CommitResolve(r)
      PROVE  LegacyStayResolved' /\ ResolutionRecordMatchesStatus'
  <2>1. /\ req[r].ticket \in Tickets /\ req[r].outcome \in Outcomes
        /\ status[req[r].ticket] = "In Progress"
        /\ status' = [status EXCEPT ![req[r].ticket] = "Resolved"]
        /\ outcome' = [outcome EXCEPT ![req[r].ticket] = req[r].outcome]
        /\ resolvedAt' = [resolvedAt EXCEPT ![req[r].ticket] = TRUE]
    BY <1>3 DEF CommitResolve, RequestsOK
  <2> QED
    BY <2>1 DEF Outcomes
<1>4. ASSUME NEW r \in Requests, CommitReject(r)
      PROVE  LegacyStayResolved' /\ ResolutionRecordMatchesStatus'
  BY <1>4 DEF CommitReject, RequestsOK, RowAllowed
<1>5. ASSUME NEW s \in Staff, NEW t \in Tickets, ReturnToReview(s, t)
      PROVE  LegacyStayResolved' /\ ResolutionRecordMatchesStatus'
  BY <1>5 DEF ReturnToReview
<1> QED
  BY <1>1, <1>2, <1>3, <1>4, <1>5, StatusSteps

\* The referral count of the snapshot may be stale, but referrals are never
\* deleted, so a referral that was counted is still on record.
LEMMA ReferralPreserved ==
  ASSUME TypeOK, RequestsOK, ReferralBacksOutcome, [Next]_vars
  PROVE  ReferralBacksOutcome'
<1> USE DEF TypeOK, ReferralBacksOutcome
<1>1. \A t \in Tickets : referred[t] => referred'[t]
  BY ReferredGrows
<1>2. CASE UNCHANGED outcome
  BY <1>1, <1>2
<1>3. ASSUME NEW r \in Requests, CommitResolve(r)
      PROVE  ReferralBacksOutcome'
  <2>1. /\ req[r].ticket \in Tickets
        /\ outcome' = [outcome EXCEPT ![req[r].ticket] = req[r].outcome]
        /\ req[r].outcome = "EXTERNAL_REFERRAL" => referred[req[r].ticket]
    BY <1>3 DEF CommitResolve, RequestsOK, MayResolve
  <2> QED
    BY <1>1, <2>1
<1>4. ASSUME NEW s \in Staff, NEW t \in Tickets, ReturnToReview(s, t)
      PROVE  ReferralBacksOutcome'
  BY <1>1, <1>4 DEF ReturnToReview
<1> QED
  BY <1>2, <1>3, <1>4, StatusSteps DEF CommitAdvance, CommitReject

(***************************************************************************)
(* Every step is a step of StatusLadder, or leaves status and outcome alone *)
(***************************************************************************)
LEMMA LadderInit ==
  ASSUME Init
  PROVE  Ladder!Init
  BY DEF Init, Ladder!Init

LEMMA LadderStep ==
  ASSUME TypeOK, RequestsOK, ResolutionRecordMatchesStatus, [Next]_vars
  PROVE  [Ladder!Next]_(Ladder!ladderVars)
<1> USE DEF TypeOK, Ladder!Next
<1>1. CASE UNCHANGED <<status, outcome, resolvedAt>>
  BY <1>1 DEF Ladder!ladderVars
<1>2. ASSUME NEW r \in Requests, CommitAdvance(r)
      PROVE  Ladder!Next
  <2> DEFINE t == req[r].ticket
  <2>1. t \in Tickets /\ status[t] = req[r].read
        /\ req[r].read \in {"Reported", "Under Review"}
    BY <1>2 DEF CommitAdvance, RequestsOK
  <2>2. Ladder!Climb(t)
    BY <1>2, <2>1 DEF CommitAdvance, NextStatus, Ladder!Climb
  <2> QED
    BY <2>1, <2>2
<1>3. ASSUME NEW r \in Requests, CommitResolve(r)
      PROVE  Ladder!Next
  <2> DEFINE t == req[r].ticket
  <2>1. t \in Tickets /\ req[r].outcome \in Outcomes
    BY <1>3 DEF CommitResolve, RequestsOK
  <2>2. Ladder!Resolve(t)
    BY <1>3, <2>1 DEF CommitResolve, Ladder!Resolve, Ladder!Outcomes, Outcomes
  <2> QED
    BY <2>1, <2>2
<1>4. ASSUME NEW r \in Requests, CommitReject(r)
      PROVE  [Ladder!Next]_(Ladder!ladderVars)
  <2> DEFINE t == req[r].ticket
  <2>1. /\ t \in Tickets /\ outcome[t] = "none"
        /\ status' = [status EXCEPT ![t] = "Rejected"] /\ UNCHANGED outcome
    BY <1>4 DEF CommitReject, RequestsOK, RowAllowed
  <2>2. CASE status[t] = "Rejected"
    BY <2>1, <2>2 DEF Ladder!ladderVars
  <2>3. CASE status[t] # "Rejected"
    <3>1. status[t] \in Ladder!ActiveStatuses
      BY <2>1, <2>3 DEF ResolutionRecordMatchesStatus, Statuses, ActiveStatuses,
         Ladder!ActiveStatuses
    <3>2. Ladder!Reject(t)
      BY <2>1, <3>1 DEF Ladder!Reject
    <3> QED
      BY <2>1, <3>2
  <2> QED
    BY <2>2, <2>3
<1>5. ASSUME NEW s \in Staff, NEW t \in Tickets, ReturnToReview(s, t)
      PROVE  Ladder!Next
  <2>1. Ladder!Return(t)
    BY <1>5 DEF ReturnToReview, Ladder!Return
  <2> QED
    BY <2>1
<1> QED
  BY <1>1, <1>2, <1>3, <1>4, <1>5, StatusSteps

LEMMA WorkFrozenStep ==
  ASSUME TypeOK, WorkRowsOK, [Next]_vars,
         NEW w \in WorkOrders, NEW t \in Tickets,
         workTicket[w] = t \/ workTicket'[w] = t,
         status[t] = "Rejected" \/ ~Live(t)
  PROVE  UNCHANGED <<workStatus[w], workTicket[w], replacement[w]>>
<1> USE LifecycleAssumption DEF TypeOK, MayWork, MayAct
<1>1. ASSUME NEW s \in Staff, NEW u \in Tickets, NEW v \in WorkOrders, CreateWorkOrder(s, u, v)
      PROVE  UNCHANGED <<workStatus[w], workTicket[w], replacement[w]>>
  BY <1>1 DEF CreateWorkOrder, WorkRowsOK
<1>2. ASSUME NEW s \in Staff, NEW v \in WorkOrders, NEW next \in WorkStatuses,
             SetWorkStatus(s, v, next)
      PROVE  UNCHANGED <<workStatus[w], workTicket[w], replacement[w]>>
  BY <1>2 DEF SetWorkStatus
<1>3. ASSUME NEW s \in Staff, NEW v \in WorkOrders, NEW rep \in WorkOrders \cup {NoWork},
             CancelWorkOrder(s, v, rep)
      PROVE  UNCHANGED <<workStatus[w], workTicket[w], replacement[w]>>
  BY <1>3 DEF CancelWorkOrder
<1> QED
  BY <1>1, <1>2, <1>3, WorkSteps

(***************************************************************************)
(* The theorems                                                            *)
(***************************************************************************)
LEMMA InitIInv ==
  ASSUME Init
  PROVE  IInv
<1> USE LifecycleAssumption DEF Init
<1>1. TypeOK
  BY IdleIsRequest DEF TypeOK, Statuses, ActiveStatuses, Outcomes
<1>2. RequestsOK /\ WorkRowsOK
  BY DEF RequestsOK, WorkRowsOK, Idle
<1>3. LegacyStayResolved /\ ResolutionRecordMatchesStatus /\ ReferralBacksOutcome
  BY DEF LegacyStayResolved, ResolutionRecordMatchesStatus, ReferralBacksOutcome
<1>4. MergedAwayHasNoOpenWork /\ MergeAcyclic
  BY DEF MergedAwayHasNoOpenWork, MergeAcyclic, OpenWork
<1>5. ReplacementsEnd
  BY DEF ReplacementsEnd
<1> QED
  BY <1>1, <1>2, <1>3, <1>4, <1>5 DEF IInv

\* IInv is an invariant: the induction every theorem below rests on.
THEOREM IInvHolds == Spec => []IInv
<1>1. Init => IInv
  BY InitIInv
<1>2. IInv /\ [Next]_vars => IInv'
  BY TypePreserved, RequestsPreserved, WorkRowsPreserved, ResolutionRecordPreserved,
     ReferralPreserved, MergedAwayPreserved, MergeAcyclicPreserved, ReplacementsEndPreserved
  DEF IInv
<1> QED
  BY <1>1, <1>2, PTL DEF Spec

\* Every variable keeps the type its column gives it, in every interleaving
\* of the handlers.
THEOREM TypeCorrect == Spec => []TypeOK
<1>1. IInv => TypeOK
  BY DEF IInv
<1> QED
  BY <1>1, IInvHolds, PTL

\* No stale write of advanceStatus or rejectTicket separates a ticket's
\* status from its resolution record.
THEOREM ResolutionRecordCorrect == Spec => []ResolutionRecordMatchesStatus
<1>1. IInv => ResolutionRecordMatchesStatus
  BY DEF IInv
<1> QED
  BY <1>1, IInvHolds, PTL

\* A ticket closed as an External Referral has a referral on record.
THEOREM ReferralCorrect == Spec => []ReferralBacksOutcome
<1>1. IInv => ReferralBacksOutcome
  BY DEF IInv
<1> QED
  BY <1>1, IInvHolds, PTL

\* The chain of survivors a reader follows from a merged-away ticket ends.
THEOREM MergeCorrect == Spec => []MergeAcyclic
<1>1. IInv => MergeAcyclic
  BY DEF IInv
<1> QED
  BY <1>1, IInvHolds, PTL

\* Merging never strands open work: a merge locks both tickets and refuses
\* while the one merged away has an open Work Order; none is created later.
THEOREM MergedWorkCorrect == Spec => []MergedAwayHasNoOpenWork
<1>1. IInv => MergedAwayHasNoOpenWork
  BY DEF IInv
<1> QED
  BY <1>1, IInvHolds, PTL

\* The chain of replacement Work Orders ends and stays on one ticket.
THEOREM ReplacementCorrect == Spec => []ReplacementsEnd
<1>1. IInv => ReplacementsEnd
  BY DEF IInv
<1> QED
  BY <1>1, IInvHolds, PTL

\* The Work Orders of a Rejected or merged-away ticket never change again.
THEOREM FreezeCorrect == Spec => ClosedTicketFreezesWork
<1> DEFINE Frozen == \A w \in WorkOrders, t \in Tickets :
             (workTicket[w] = t \/ workTicket'[w] = t) /\ (status[t] = "Rejected" \/ ~Live(t))
               => UNCHANGED <<workStatus[w], workTicket[w], replacement[w]>>
<1>1. IInv /\ [Next]_vars => [Frozen]_vars
  BY WorkFrozenStep DEF IInv
<1> QED
  BY <1>1, IInvHolds, PTL DEF Spec, ClosedTicketFreezesWork

\* The racing handlers implement the abstract status ladder.
THEOREM LadderCorrect == Spec => ImplementsLadder
<1>1. Init => Ladder!Init
  BY LadderInit
<1>2. IInv /\ [Next]_vars => [Ladder!Next]_(Ladder!ladderVars)
  BY LadderStep DEF IInv
<1> QED
  BY <1>1, <1>2, IInvHolds, PTL DEF Spec, ImplementsLadder, Ladder!Spec
=============================================================================
