------------------------- MODULE ReportGroupingProofs -------------------------
(***************************************************************************)
(* Proofs about ReportGrouping, for any tickets, reports and requests: the  *)
(* report count, the flag of a quarantined report, that no ticket is left   *)
(* without a report, and that a report is decided once.                     *)
(***************************************************************************)
EXTENDS ReportGrouping, FiniteSetTheorems, TLAPS

\* A moderation in flight owns its report's row: nobody else moderates the
\* report, it is still undecided, and it is on the ticket that will be flagged.
ModerationsHoldRows ==
  \A q \in Requests : req[q].op \in Verdicts =>
     /\ at[req[q].report] = req[q].from
     /\ held[req[q].report] = "none"
     /\ \A p \in Requests : Moderating(p, req[q].report) => p = q

\* Only a ticket that exists is ever merged away.
UnusedUnmerged == \A t \in Tickets : ~Used(t) => into[t] = Nowhere

IInv ==
  /\ TypeOK
  /\ UnusedUnmerged
  /\ ModerationsHoldRows
  /\ CountsMatch
  /\ QuarantinedIsFlagged
  /\ NoTicketEmptied
  /\ ReportsOnCurrentTickets

(***************************************************************************)
(* Lemmas                                                                  *)
(***************************************************************************)
\* A ticket's reports can be counted.
LEMMA MembersFinite ==
  ASSUME NEW where, NEW t
  PROVE  IsFiniteSet(Members(where, t)) /\ Cardinality(Members(where, t)) \in Nat
<1>1. Members(where, t) \subseteq Reports BY DEF Members
<1> QED BY <1>1, GroupingAssumption, FS_Subset, FS_CardinalityType

\* A ticket with two reports keeps one when one leaves.
LEMMA AnotherMember ==
  ASSUME NEW where, NEW t, NEW r, Cardinality(Members(where, t)) >= 2
  PROVE  \E other \in Members(where, t) : other # r
<1> SUFFICES ASSUME \A other \in Members(where, t) : other = r PROVE FALSE
  OBVIOUS
<1>1. Members(where, t) \subseteq {r} OBVIOUS
<1>2. IsFiniteSet({r}) /\ Cardinality({r}) = 1 BY FS_Singleton
<1>3. Cardinality(Members(where, t)) <= 1 BY <1>1, <1>2, FS_Subset
<1> QED BY <1>3, MembersFinite

\* What every request's record holds, by its operation.
LEMMA Records ==
  ASSUME TypeOK, NEW q \in Requests
  PROVE  /\ req[q].op \in Verdicts => req[q] \in Moderation
         /\ req[q].op \in MoveOps => req[q] \in Move
BY GroupingAssumption DEF TypeOK, Idle, Move, Moderation, MoveOps

\* A request that ends leaves the other moderations as they are.
LEMMA EndKeepsModerations ==
  ASSUME TypeOK, NEW q \in Requests, Ends(q)
  PROVE  \A p \in Requests : req'[p].op \in Verdicts => p # q /\ req'[p] = req[p]
BY GroupingAssumption DEF TypeOK, Ends, Idle

\* A move of one report whose row is free disturbs no moderation.
LEMMA MoveKeepsModerations ==
  ASSUME IInv, NEW q \in Requests, Ends(q), UNCHANGED held,
         \A r \in Reports : ~RowFree(r) => at'[r] = at[r]
  PROVE  ModerationsHoldRows'
<1> SUFFICES ASSUME NEW p \in Requests, req'[p].op \in Verdicts
             PROVE  /\ at'[req'[p].report] = req'[p].from
                    /\ held'[req'[p].report] = "none"
                    /\ \A o \in Requests : Moderating(o, req[p].report)' => o = p
  BY DEF ModerationsHoldRows
<1>1. p # q /\ req'[p] = req[p] BY EndKeepsModerations DEF IInv
<1>2. req[p].report \in Reports BY <1>1, Records DEF IInv, Moderation
<1>3. ~RowFree(req[p].report) BY <1>1 DEF RowFree, Moderating
<1>4. \A o \in Requests : Moderating(o, req[p].report)' => Moderating(o, req[p].report)
  BY <1>1, EndKeepsModerations DEF Moderating, IInv
<1> QED BY <1>1, <1>2, <1>3, <1>4 DEF IInv, ModerationsHoldRows

(***************************************************************************)
(* One report leaves one ticket for another: Remove and Regroup            *)
(***************************************************************************)
\* What both moves do to reports and tickets keeps the whole invariant.
LEMMA OneReportMoves ==
  ASSUME IInv, NEW q \in Requests, NEW r \in Reports,
         NEW from \in Tickets, NEW to \in Tickets,
         MayLeave(r, from), from # to,
         at' = [at EXCEPT ![r] = to],
         RefreshMembership({from, to}), Ends(q), UNCHANGED <<held, into>>,
         \A t \in Tickets \ {to} : status'[t] = status[t],
         status' \in [Tickets -> {"unused", "active", "closed"}],
         kind' \in [Tickets -> Kinds],
         status'[to] = "active", into[to] = Nowhere
  PROVE  IInv'
<1> USE DEF IInv
<1>a. at \in [Reports -> Tickets \cup {Nowhere}] /\ at[r] = from /\ RowFree(r)
  BY DEF TypeOK, MayLeave
<1>b. at'[r] = to /\ \A s \in Reports \ {r} : at'[s] = at[s]
  BY <1>a
<1>1. TypeOK'
  <2>1. at' \in [Reports -> Tickets \cup {Nowhere}] BY <1>a
  <2>2. count' \in [Tickets -> Nat]
    BY MembersFinite DEF RefreshMembership, TypeOK
  <2>3. flagged' \in [Tickets -> BOOLEAN]
    BY Zenon DEF RefreshMembership, TypeOK
  <2>4. req' \in [Requests -> {Idle} \cup Move \cup Moderation]
    BY DEF Ends, TypeOK
  <2> QED BY <2>1, <2>2, <2>3, <2>4 DEF TypeOK
<1>2. ModerationsHoldRows'
  <2>1. \A s \in Reports : ~RowFree(s) => at'[s] = at[s] BY <1>a, <1>b
  <2> QED BY <2>1, MoveKeepsModerations
<1>3. CountsMatch'
  <2> SUFFICES ASSUME NEW t \in Tickets, Current(t)'
               PROVE  count'[t] = Cardinality(Members(at', t))
    BY DEF CountsMatch
  <2>1. CASE t \in {from, to} BY <2>1 DEF RefreshMembership
  <2>2. CASE t \notin {from, to}
    <3>1. count'[t] = count[t] BY <2>2 DEF RefreshMembership
    <3>2. Members(at', t) = Members(at, t) BY <2>2, <1>a, <1>b DEF Members
    <3>3. Current(t) BY <2>2 DEF Current, Used
    <3> QED BY <3>1, <3>2, <3>3 DEF CountsMatch
  <2> QED BY <2>1, <2>2
<1>4. QuarantinedIsFlagged'
  <2> SUFFICES ASSUME NEW s \in Reports, held'[s] = "quarantined"
               PROVE  at'[s] \in Tickets /\ flagged'[at'[s]]
    BY DEF QuarantinedIsFlagged
  <2>1. held[s] = "quarantined" OBVIOUS
  <2>2. CASE s = r
    <3>1. at'[s] = to BY <2>2, <1>b
    <3> QED BY <3>1, <2>1 DEF RefreshMembership
  <2>3. CASE s # r
    <3>1. at'[s] = at[s] BY <2>3, <1>b
    <3>2. at[s] \in Tickets /\ flagged[at[s]] BY <2>1 DEF QuarantinedIsFlagged
    <3> QED BY <3>1, <3>2 DEF RefreshMembership
  <2> QED BY <2>2, <2>3
<1>5. NoTicketEmptied'
  <2> SUFFICES ASSUME NEW t \in Tickets, Current(t)'
               PROVE  \E s \in Reports : at'[s] = t
    BY DEF NoTicketEmptied
  <2>1. CASE t = to BY <2>1, <1>b
  <2>2. CASE t = from
    <3>1. PICK s \in Members(at, from) : s # r BY AnotherMember DEF MayLeave
    <3> QED BY <3>1, <2>2, <1>b DEF Members
  <2>3. CASE t # to /\ t # from
    <3>1. Current(t) BY <2>3 DEF Current, Used
    <3>2. PICK s \in Reports : at[s] = t BY <3>1 DEF NoTicketEmptied
    <3> QED BY <3>2, <2>3, <1>a, <1>b
  <2> QED BY <2>1, <2>2, <2>3
<1>6. ReportsOnCurrentTickets'
  <2> SUFFICES ASSUME NEW s \in Reports, at'[s] # Nowhere
               PROVE  at'[s] \in Tickets /\ Current(at[s])'
    BY DEF ReportsOnCurrentTickets
  <2>1. CASE at'[s] = to BY <2>1 DEF Current, Used
  <2>2. CASE at'[s] # to
    <3>1. at'[s] = at[s] BY <2>2, <1>b
    <3>2. at[s] \in Tickets /\ Current(at[s]) BY <3>1 DEF ReportsOnCurrentTickets
    <3> QED BY <2>2, <3>1, <3>2 DEF Current, Used
  <2> QED BY <2>1, <2>2
<1>7. UnusedUnmerged' BY DEF UnusedUnmerged, Used
<1> QED BY <1>1, <1>2, <1>3, <1>4, <1>5, <1>6, <1>7

(***************************************************************************)
(* Every step keeps the invariant                                          *)
(***************************************************************************)
LEMMA SubmitKeeps ==
  ASSUME IInv, NEW r \in Reports, NEW t \in Tickets, NEW k \in Kinds, Submit(r, t, k)
  PROVE  IInv'
<1> USE DEF IInv, Submit
<1>a. at' = [at EXCEPT ![r] = t] /\ at[r] = Nowhere /\ at \in [Reports -> Tickets \cup {Nowhere}]
  BY DEF TypeOK
<1>b. \A s \in Reports : at[s] # t
  BY GroupingAssumption DEF ReportsOnCurrentTickets, Current, Used
<1>c. t # Nowhere BY GroupingAssumption
<1>1. TypeOK' BY DEF TypeOK
<1>2. ModerationsHoldRows'
  <2> SUFFICES ASSUME NEW q \in Requests, req[q].op \in Verdicts
               PROVE  at'[req[q].report] = req[q].from
    BY DEF ModerationsHoldRows, Moderating
  <2>1. req[q].report \in Reports /\ req[q].from \in Tickets
    BY Records DEF Moderation
  <2>2. at[req[q].report] = req[q].from BY DEF ModerationsHoldRows
  <2>3. req[q].report # r BY <2>1, <2>2, GroupingAssumption
  <2> QED BY <1>a, <2>1, <2>2, <2>3
<1>3. CountsMatch'
  <2> SUFFICES ASSUME NEW u \in Tickets, Current(u)'
               PROVE  count'[u] = Cardinality(Members(at', u))
    BY DEF CountsMatch
  <2>1. CASE u = t
    <3>1. Members(at', u) = {r} BY <2>1, <1>a, <1>b DEF Members
    <3>2. Cardinality({r}) = 1 BY FS_Singleton
    <3> QED BY <2>1, <3>1, <3>2 DEF TypeOK
  <2>2. CASE u # t
    <3>1. Members(at', u) = Members(at, u)
      BY <2>2, <1>a, GroupingAssumption DEF Members
    <3>2. Current(u) /\ count'[u] = count[u] BY <2>2 DEF Current, Used, TypeOK
    <3> QED BY <3>1, <3>2 DEF CountsMatch
  <2> QED BY <2>1, <2>2
<1>4. QuarantinedIsFlagged'
  <2> SUFFICES ASSUME NEW s \in Reports, held[s] = "quarantined"
               PROVE  at'[s] \in Tickets /\ flagged[at'[s]]
    BY DEF QuarantinedIsFlagged
  <2>1. at[s] \in Tickets /\ flagged[at[s]] BY DEF QuarantinedIsFlagged
  <2>2. s # r BY <2>1, <1>a, GroupingAssumption
  <2> QED BY <1>a, <2>1, <2>2
<1>5. NoTicketEmptied'
  <2> SUFFICES ASSUME NEW u \in Tickets, Current(u)' PROVE \E s \in Reports : at'[s] = u
    BY DEF NoTicketEmptied
  <2>1. CASE u = t BY <2>1, <1>a
  <2>2. CASE u # t
    <3>1. Current(u) BY <2>2 DEF Current, Used, TypeOK
    <3>2. PICK s \in Reports : at[s] = u BY <3>1 DEF NoTicketEmptied
    <3> QED BY <3>2, <1>a, GroupingAssumption
  <2> QED BY <2>1, <2>2
<1>6. ReportsOnCurrentTickets'
  <2> SUFFICES ASSUME NEW s \in Reports, at'[s] # Nowhere
               PROVE  at'[s] \in Tickets /\ Current(at[s])'
    BY DEF ReportsOnCurrentTickets
  <2>1. CASE s = r BY <2>1, <1>a DEF UnusedUnmerged, Current, Used, TypeOK
  <2>2. CASE s # r
    <3>1. at'[s] = at[s] BY <2>2, <1>a
    <3>2. at[s] \in Tickets /\ Current(at[s]) BY <3>1 DEF ReportsOnCurrentTickets
    <3> QED BY <3>1, <3>2 DEF Current, Used, TypeOK
  <2> QED BY <2>1, <2>2
<1>7. UnusedUnmerged' BY DEF UnusedUnmerged, Used, TypeOK
<1> QED BY <1>1, <1>2, <1>3, <1>4, <1>5, <1>6, <1>7

LEMMA ChangeTicketKeeps ==
  ASSUME IInv, NEW t \in Tickets, NEW s \in {"active", "closed"}, NEW k \in Kinds,
         ChangeTicket(t, s, k)
  PROVE  IInv'
<1> USE DEF IInv, ChangeTicket
<1>1. TypeOK' BY DEF TypeOK
<1>2. \A u \in Tickets : Used(u)' <=> Used(u) BY DEF Used, TypeOK
<1>3. UnusedUnmerged' BY <1>2 DEF UnusedUnmerged
<1>4. \A u \in Tickets : Current(u)' <=> Current(u) BY <1>2 DEF Current
<1>5. CountsMatch' BY <1>4 DEF CountsMatch, Members
<1>6. NoTicketEmptied' /\ ReportsOnCurrentTickets'
  BY <1>4 DEF NoTicketEmptied, ReportsOnCurrentTickets
<1>7. ModerationsHoldRows' /\ QuarantinedIsFlagged'
  BY DEF ModerationsHoldRows, Moderating, QuarantinedIsFlagged
<1> QED BY <1>1, <1>3, <1>5, <1>6, <1>7

LEMMA MergeKeeps ==
  ASSUME IInv, NEW survivor \in Tickets, NEW merged \in Tickets, Merge(survivor, merged)
  PROVE  IInv'
<1> USE DEF IInv, Merge
<1>a. \A r \in Reports : at'[r] = IF at[r] = merged THEN survivor ELSE at[r]
  OBVIOUS
<1>b. \A t \in Tickets : into'[t] = IF t = merged THEN survivor ELSE into[t]
  BY DEF TypeOK
<1>c. Current(survivor) /\ Current(merged) BY DEF Live, Current, Used
<1>d. survivor # Nowhere BY GroupingAssumption
<1>1. TypeOK'
  <2>1. at' \in [Reports -> Tickets \cup {Nowhere}] BY DEF TypeOK
  <2>2. into' \in [Tickets -> Tickets \cup {Nowhere}] BY DEF TypeOK
  <2>3. count' \in [Tickets -> Nat] BY MembersFinite DEF RefreshMembership, TypeOK
  <2>4. flagged' \in [Tickets -> BOOLEAN] BY Zenon DEF RefreshMembership, TypeOK
  <2> QED BY <2>1, <2>2, <2>3, <2>4 DEF TypeOK
<1>2. ModerationsHoldRows'
  <2> SUFFICES ASSUME NEW q \in Requests, req[q].op \in Verdicts
               PROVE  at'[req[q].report] = req[q].from
    BY DEF ModerationsHoldRows, Moderating
  <2>1. req[q].report \in Reports BY Records DEF Moderation
  <2>2. at[req[q].report] # merged
    BY <2>1 DEF Members, RowFree, Moderating
  <2> QED BY <1>a, <2>1, <2>2 DEF ModerationsHoldRows
<1>3. CountsMatch'
  <2> SUFFICES ASSUME NEW t \in Tickets, Current(t)'
               PROVE  count'[t] = Cardinality(Members(at', t))
    BY DEF CountsMatch
  <2>1. CASE t = survivor BY <2>1 DEF RefreshMembership
  <2>2. CASE t # survivor
    <3>1. t # merged BY <1>b, <1>d DEF Current
    <3>2. Members(at', t) = Members(at, t) BY <1>a, <2>2, <3>1 DEF Members
    <3>3. Current(t) /\ count'[t] = count[t]
      BY <1>b, <2>2, <3>1 DEF Current, Used, RefreshMembership
    <3> QED BY <3>2, <3>3 DEF CountsMatch
  <2> QED BY <2>1, <2>2
<1>4. QuarantinedIsFlagged'
  <2> SUFFICES ASSUME NEW s \in Reports, held[s] = "quarantined"
               PROVE  at'[s] \in Tickets /\ flagged'[at'[s]]
    BY DEF QuarantinedIsFlagged
  <2>1. at[s] \in Tickets /\ flagged[at[s]] BY DEF QuarantinedIsFlagged
  <2>2. CASE at[s] = merged
    <3>1. at'[s] = survivor BY <1>a, <2>2
    <3> QED BY <3>1 DEF RefreshMembership
  <2>3. CASE at[s] # merged
    <3>1. at'[s] = at[s] BY <1>a, <2>3
    <3> QED BY <2>1, <3>1 DEF RefreshMembership
  <2> QED BY <2>2, <2>3
<1>5. NoTicketEmptied'
  <2> SUFFICES ASSUME NEW t \in Tickets, Current(t)' PROVE \E s \in Reports : at'[s] = t
    BY DEF NoTicketEmptied
  <2>1. t # merged BY <1>b, <1>d DEF Current
  <2>2. Current(t) BY <1>b, <2>1 DEF Current, Used
  <2>3. PICK s \in Reports : at[s] = t BY <2>2 DEF NoTicketEmptied
  <2> QED BY <1>a, <2>1, <2>3
<1>6. ReportsOnCurrentTickets'
  <2> SUFFICES ASSUME NEW s \in Reports, at'[s] # Nowhere
               PROVE  at'[s] \in Tickets /\ Current(at[s])'
    BY DEF ReportsOnCurrentTickets
  <2>1. CASE at[s] = merged BY <1>a, <1>b, <1>c, <2>1 DEF Current, Used
  <2>2. CASE at[s] # merged
    <3>1. at[s] \in Tickets /\ Current(at[s]) /\ at'[s] = at[s]
      BY <1>a, <2>2 DEF ReportsOnCurrentTickets
    <3> QED BY <1>b, <2>2, <3>1 DEF Current, Used
  <2> QED BY <2>1, <2>2
<1>7. UnusedUnmerged' BY <1>b, <1>c DEF UnusedUnmerged, Used, Current
<1> QED BY <1>1, <1>2, <1>3, <1>4, <1>5, <1>6, <1>7

LEMMA RemoveKeeps ==
  ASSUME IInv, NEW q \in Requests, RemoveReport(q)
  PROVE  IInv'
<1> DEFINE r == req[q].report
           from == req[q].from
           new == req[q].to
<1>1. req[q] \in Move BY Records DEF IInv, RemoveReport, MoveOps
<1>2. r \in Reports /\ from \in Tickets /\ new \in Tickets BY <1>1 DEF Move
<1>3. from # new BY DEF RemoveReport, MayLeave, Live, Used
<1>4. /\ status \in [Tickets -> {"unused", "active", "closed"}]
      /\ kind \in [Tickets -> Kinds]
  BY DEF IInv, TypeOK
<1>5. status' = [status EXCEPT ![new] = "active"] BY DEF RemoveReport
<1>6. /\ \A t \in Tickets \ {new} : status'[t] = status[t]
      /\ status' \in [Tickets -> {"unused", "active", "closed"}]
      /\ status'[new] = "active"
  BY <1>2, <1>4, <1>5
<1>7. kind' \in [Tickets -> Kinds]
  <2>1. kind' = [kind EXCEPT ![new] = InitialKind[kind[from]]] BY DEF RemoveReport
  <2> QED BY <2>1, <1>2, <1>4, GroupingAssumption
<1>8. into[new] = Nowhere BY <1>2 DEF IInv, UnusedUnmerged, RemoveReport
<1>9. /\ MayLeave(r, from) /\ RefreshMembership({from, new}) /\ Ends(q)
      /\ at' = [at EXCEPT ![r] = new] /\ UNCHANGED <<held, into>>
  BY DEF RemoveReport
<1> QED BY <1>2, <1>3, <1>6, <1>7, <1>8, <1>9, OneReportMoves

LEMMA RegroupKeeps ==
  ASSUME IInv, NEW q \in Requests, RegroupReport(q)
  PROVE  IInv'
<1> DEFINE r == req[q].report
           from == req[q].from
           to == req[q].to
<1>1. req[q] \in Move BY Records DEF IInv, RegroupReport, MoveOps
<1>2. r \in Reports /\ from \in Tickets /\ to \in Tickets BY <1>1 DEF Move
<1>3. /\ status' \in [Tickets -> {"unused", "active", "closed"}]
      /\ kind' \in [Tickets -> Kinds]
      /\ \A t \in Tickets \ {to} : status'[t] = status[t]
  BY DEF IInv, TypeOK, RegroupReport, tickets
<1>4. status'[to] = "active" /\ into[to] = Nowhere
  BY DEF RegroupReport, Live, tickets
<1>5. /\ MayLeave(r, from) /\ RefreshMembership({from, to}) /\ Ends(q) /\ from # to
      /\ at' = [at EXCEPT ![r] = to] /\ UNCHANGED <<held, into>>
  BY DEF RegroupReport, tickets
<1> QED BY <1>2, <1>3, <1>4, <1>5, OneReportMoves

\* Steps that change neither a report nor a ticket.
LEMMA QuietSteps ==
  ASSUME IInv, UNCHANGED <<at, held, tickets, count, flagged>>,
         req' \in [Requests -> {Idle} \cup Move \cup Moderation],
         ModerationsHoldRows'
  PROVE  IInv'
BY DEF IInv, TypeOK, UnusedUnmerged, Used, CountsMatch, Current, Members,
       QuarantinedIsFlagged, NoTicketEmptied, ReportsOnCurrentTickets, tickets

LEMMA ReadKeeps ==
  ASSUME IInv, NEW q \in Requests, NEW op \in MoveOps, NEW r \in Reports,
         NEW t \in Tickets, ReadForMove(q, op, r, t)
  PROVE  IInv'
<1> USE DEF ReadForMove
<1>1. at[r] \in Tickets BY DEF IInv, ReportsOnCurrentTickets
<1>2. [op |-> op, report |-> r, from |-> at[r], to |-> t] \in Move BY <1>1 DEF Move
<1>3. req' \in [Requests -> {Idle} \cup Move \cup Moderation]
  BY <1>2 DEF IInv, TypeOK
<1>4. req'[q].op \notin Verdicts BY GroupingAssumption DEF IInv, TypeOK, MoveOps
<1>5. \A p \in Requests \ {q} : req'[p] = req[p] BY DEF IInv, TypeOK
<1>6. ModerationsHoldRows'
  BY <1>4, <1>5 DEF IInv, ModerationsHoldRows, Moderating
<1> QED BY <1>3, <1>6, QuietSteps

LEMMA StartModerationKeeps ==
  ASSUME IInv, NEW q \in Requests, NEW r \in Reports, NEW v \in Verdicts,
         StartModeration(q, r, v)
  PROVE  IInv'
<1> USE DEF StartModeration
<1>1. at[r] \in Tickets BY DEF IInv, ReportsOnCurrentTickets
<1>2. [op |-> v, report |-> r, from |-> at[r]] \in Moderation BY <1>1 DEF Moderation
<1>3. req' \in [Requests -> {Idle} \cup Move \cup Moderation]
  BY <1>2 DEF IInv, TypeOK
<1>4. req'[q] = [op |-> v, report |-> r, from |-> at[r]] BY DEF IInv, TypeOK
<1>5. \A p \in Requests \ {q} : req'[p] = req[p] BY DEF IInv, TypeOK
<1>6. ModerationsHoldRows'
  <2> SUFFICES ASSUME NEW p \in Requests, req'[p].op \in Verdicts
               PROVE  /\ at[req'[p].report] = req'[p].from
                      /\ held[req'[p].report] = "none"
                      /\ \A o \in Requests : Moderating(o, req[p].report)' => o = p
    BY DEF ModerationsHoldRows
  <2>1. CASE p = q
    <3>1. \A o \in Requests \ {q} : ~Moderating(o, req[p].report)'
      BY <1>4, <1>5, <2>1 DEF RowFree, Moderating
    <3> QED BY <1>4, <2>1, <3>1
  <2>2. CASE p # q
    <3>1. req'[p] = req[p] BY <1>5, <2>2
    <3>2. req[p].report # r BY <3>1 DEF RowFree, Moderating
    <3>3. ~Moderating(q, req[p].report)' BY <1>4, <3>1, <3>2 DEF Moderating
    <3>4. \A o \in Requests \ {q} :
            Moderating(o, req[p].report)' => Moderating(o, req[p].report)
      BY <1>5, <3>1 DEF Moderating
    <3> QED BY <3>1, <3>3, <3>4 DEF IInv, ModerationsHoldRows
  <2> QED BY <2>1, <2>2
<1> QED BY <1>3, <1>6, QuietSteps

LEMMA CommitModerationKeeps ==
  ASSUME IInv, NEW q \in Requests, CommitModeration(q)
  PROVE  IInv'
<1> DEFINE r == req[q].report
<1> USE DEF CommitModeration
<1>1. req[q] \in Moderation BY Records DEF IInv
<1>2. r \in Reports /\ req[q].from \in Tickets /\ req[q].op \in Verdicts
  BY <1>1 DEF Moderation
<1>3. at[r] = req[q].from BY DEF IInv, ModerationsHoldRows
<1>4. held' = [held EXCEPT ![r] = req[q].op] /\ held \in [Reports -> Verdicts \cup {"none"}]
  BY DEF IInv, TypeOK
<1>5. flagged \in [Tickets -> BOOLEAN] BY DEF IInv, TypeOK
<1>6. \A t \in Tickets : flagged[t] => flagged'[t]
  <2>1. CASE flagged' = flagged BY <2>1
  <2>2. CASE flagged' = [flagged EXCEPT ![req[q].from] = TRUE] BY <1>2, <1>5, <2>2
  <2> QED BY <2>1, <2>2
<1>7. TypeOK'
  <2>1. flagged' \in [Tickets -> BOOLEAN] BY <1>5
  <2>2. held' \in [Reports -> Verdicts \cup {"none"}] BY <1>2, <1>4
  <2>3. req' \in [Requests -> {Idle} \cup Move \cup Moderation] BY DEF IInv, TypeOK, Ends
  <2> QED BY <2>1, <2>2, <2>3 DEF IInv, TypeOK, tickets
<1>8. ModerationsHoldRows'
  <2> SUFFICES ASSUME NEW p \in Requests, req'[p].op \in Verdicts
               PROVE  /\ at[req'[p].report] = req'[p].from
                      /\ held'[req'[p].report] = "none"
                      /\ \A o \in Requests : Moderating(o, req[p].report)' => o = p
    BY DEF ModerationsHoldRows
  <2>1. p # q /\ req'[p] = req[p] BY EndKeepsModerations DEF IInv
  <2>2. req[p].report # r BY <2>1, <1>2 DEF IInv, ModerationsHoldRows, Moderating
  <2>3. req[p].report \in Reports BY <2>1, Records DEF IInv, Moderation
  <2>4. held'[req[p].report] = held[req[p].report] BY <1>4, <2>2, <2>3
  <2>5. \A o \in Requests : Moderating(o, req[p].report)' => Moderating(o, req[p].report)
    BY <2>1, EndKeepsModerations DEF Moderating, IInv
  <2> QED BY <2>1, <2>4, <2>5 DEF IInv, ModerationsHoldRows
<1>9. QuarantinedIsFlagged'
  <2> SUFFICES ASSUME NEW s \in Reports, held'[s] = "quarantined"
               PROVE  at[s] \in Tickets /\ flagged'[at[s]]
    BY DEF QuarantinedIsFlagged
  <2>1. CASE s = r
    <3>1. req[q].op = "quarantined" BY <1>2, <1>4, <2>1
    <3> QED BY <1>2, <1>3, <1>5, <2>1, <3>1
  <2>2. CASE s # r
    <3>1. held[s] = "quarantined" BY <1>4, <2>2
    <3> QED BY <1>6, <3>1 DEF IInv, QuarantinedIsFlagged
  <2> QED BY <2>1, <2>2
<1>10. UnusedUnmerged' /\ CountsMatch' /\ NoTicketEmptied' /\ ReportsOnCurrentTickets'
  BY DEF IInv, UnusedUnmerged, CountsMatch, NoTicketEmptied, ReportsOnCurrentTickets,
         Current, Used, Members, tickets
<1> QED BY <1>7, <1>8, <1>9, <1>10 DEF IInv

LEMMA FailureKeeps ==
  ASSUME IInv, NEW q \in Requests, RequestFails(q)
  PROVE  IInv'
<1>1. req' \in [Requests -> {Idle} \cup Move \cup Moderation]
  BY DEF RequestFails, Ends, IInv, TypeOK
<1>2. ModerationsHoldRows' BY MoveKeepsModerations DEF RequestFails, tickets
<1> QED BY <1>1, <1>2, QuietSteps DEF RequestFails

(***************************************************************************)
(* Theorems                                                                *)
(***************************************************************************)
LEMMA InitHolds == Init => IInv
<1> SUFFICES ASSUME Init PROVE IInv OBVIOUS
<1>1. TypeOK BY DEF Init, TypeOK, Idle
<1>2. ModerationsHoldRows BY GroupingAssumption DEF Init, ModerationsHoldRows, Idle
<1> QED BY <1>1, <1>2 DEF Init, IInv, UnusedUnmerged, CountsMatch, QuarantinedIsFlagged,
       NoTicketEmptied, ReportsOnCurrentTickets, Current, Used

LEMMA StepKeeps == IInv /\ [Next]_vars => IInv'
<1> SUFFICES ASSUME IInv, [Next]_vars PROVE IInv' OBVIOUS
<1>1. CASE UNCHANGED vars
  BY <1>1 DEF vars, IInv, TypeOK, UnusedUnmerged, Used, CountsMatch, Current, Members,
     QuarantinedIsFlagged, NoTicketEmptied, ReportsOnCurrentTickets, tickets,
     ModerationsHoldRows, Moderating
<1>2. CASE \E r \in Reports, t \in Tickets, k \in Kinds : Submit(r, t, k)
  BY <1>2, SubmitKeeps
<1>3. CASE \E t \in Tickets, s \in {"active", "closed"}, k \in Kinds : ChangeTicket(t, s, k)
  BY <1>3, ChangeTicketKeeps
<1>4. CASE \E s, t \in Tickets : Merge(s, t)
  BY <1>4, MergeKeeps
<1>5. CASE \E q \in Requests, op \in MoveOps, r \in Reports, t \in Tickets :
             ReadForMove(q, op, r, t)
  BY <1>5, ReadKeeps
<1>6. CASE \E q \in Requests, r \in Reports, v \in Verdicts : StartModeration(q, r, v)
  BY <1>6, StartModerationKeeps
<1>7. CASE \E q \in Requests : RemoveReport(q) \/ RegroupReport(q)
  BY <1>7, RemoveKeeps, RegroupKeeps
<1>8. CASE \E q \in Requests : CommitModeration(q) \/ RequestFails(q)
  BY <1>8, CommitModerationKeeps, FailureKeeps
<1> QED BY <1>1, <1>2, <1>3, <1>4, <1>5, <1>6, <1>7, <1>8 DEF Next

\* The inductive invariant holds of every behaviour of the reports.
THEOREM IInvHolds == Spec => []IInv
BY InitHolds, StepKeeps, PTL DEF Spec

\* Every variable keeps its type.
THEOREM TypeCorrect == Spec => []TypeOK
BY IInvHolds, PTL DEF IInv

\* member_count is the number of the ticket's reports, whatever races
\* (TicketGroupingService.refreshMembership).
THEOREM CountsCorrect == Spec => []CountsMatch
BY IInvHolds, PTL DEF IInv

\* A quarantined report's ticket is flagged, wherever the report is moved
\* (ModerationService.moderateReport, refreshMembership).
THEOREM FlagsCorrect == Spec => []QuarantinedIsFlagged
BY IInvHolds, PTL DEF IInv

\* No ticket that was not merged away is left without a report
\* (removeBlock, regroupBlock).
THEOREM NeverEmpty == Spec => []NoTicketEmptied
BY IInvHolds, PTL DEF IInv

\* No report is on a merged-away ticket (liveBlock).
THEOREM ReportsCurrent == Spec => []ReportsOnCurrentTickets
BY IInvHolds, PTL DEF IInv

\* A report that has been moderated keeps its verdict
\* (UPDATE ... WHERE moderation_status IS NULL).
THEOREM DecisionsFinal == Spec => DecidedOnce
<1>1. IInv /\ [Next]_vars => \A r \in Reports : held[r] # "none" => held'[r] = held[r]
  <2> SUFFICES ASSUME IInv, [Next]_vars, NEW r \in Reports, held[r] # "none"
               PROVE  held'[r] = held[r]
    OBVIOUS
  <2>1. CASE UNCHANGED held BY <2>1
  <2>2. CASE \E q \in Requests : CommitModeration(q)
    <3>1. PICK q \in Requests : CommitModeration(q) BY <2>2
    <3>2. req[q].report # r BY <3>1 DEF CommitModeration, IInv, ModerationsHoldRows
    <3> QED BY <3>1, <3>2 DEF CommitModeration, IInv, TypeOK
  <2> QED BY <2>1, <2>2 DEF Next, vars, Submit, ChangeTicket, Merge, ReadForMove,
             StartModeration, RemoveReport, RegroupReport, RequestFails
<1> QED BY <1>1, IInvHolds, PTL DEF Spec, DecidedOnce
=============================================================================
