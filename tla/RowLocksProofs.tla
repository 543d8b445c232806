---------------------------- MODULE RowLocksProofs ----------------------------
(***************************************************************************)
(* Proof that the grouping transactions never wait for one another in a     *)
(* cycle, for any number of tickets, reports and transactions.  A row is    *)
(* held once (Exclusive); a move and a merge lock their tickets in the      *)
(* order of their ids and reports afterwards (MovesInOrder, MergesInOrder). *)
(* So whoever waits for a ticket waits for one that waits for a higher one  *)
(* or for a report, and nobody who waits for a report of a merged ticket    *)
(* can meet another that holds it: both would hold the ticket.              *)
(***************************************************************************)
EXTENDS RowLocks, FiniteSetTheorems, SequenceTheorems, TLAPS

Record == [op : Ops \cup {"none", "recalculate"}, action : Ops \cup {"none"},
           report : Reports \cup {"none"}, from : 0 .. LastTicket, to : 0 .. LastTicket,
           holds : SUBSET Rows, todo : Seq(Rows)]

Typed ==
  /\ last \in FirstTickets .. LastTicket
  /\ at \in [Reports -> Tickets]
  /\ tx \in [Transactions -> Record]

\* A row is locked by one transaction at a time.
Exclusive ==
  \A p, q \in Transactions : p # q => tx[p].holds \cap tx[q].holds = {}

Low(p)  == IF tx[p].from < tx[p].to THEN tx[p].from ELSE tx[p].to
High(p) == IF tx[p].from < tx[p].to THEN tx[p].to ELSE tx[p].from

\* Remove and Regroup: the lower ticket, the higher one, the report.
MoveInOrder(p) ==
  /\ tx[p].from \in Tickets /\ tx[p].to \in Tickets /\ tx[p].report \in Reports
  /\ \/ /\ tx[p].from = tx[p].to /\ tx[p].holds = {}
        /\ tx[p].todo = <<Ticket(tx[p].from), Report(tx[p].report)>>
     \/ /\ tx[p].from # tx[p].to /\ tx[p].holds = {}
        /\ tx[p].todo = <<Ticket(Low(p)), Ticket(High(p)), Report(tx[p].report)>>
     \/ /\ tx[p].from # tx[p].to
        /\ tx[p].holds = {Ticket(Low(p))}
        /\ tx[p].todo = <<Ticket(High(p)), Report(tx[p].report)>>
     \/ /\ tx[p].holds = {Ticket(tx[p].from), Ticket(tx[p].to)}
        /\ tx[p].todo = <<Report(tx[p].report)>>
     \/ /\ {Ticket(tx[p].from), Ticket(tx[p].to)} \subseteq tx[p].holds
        /\ tx[p].todo = << >>

\* The reports a merge moves, while it holds the merged ticket.
MergedReports(p) == {Report(r) : r \in {s \in Reports : at[s] = tx[p].from}}

\* Merge: the lower ticket, the higher one, the merged ticket's reports.
MergeInOrder(p) ==
  /\ tx[p].from \in Tickets /\ tx[p].to \in Tickets /\ tx[p].from # tx[p].to
  /\ \/ tx[p].holds = {} /\ tx[p].todo = <<Ticket(Low(p)), Ticket(High(p))>>
     \/ tx[p].holds = {Ticket(Low(p))} /\ tx[p].todo = <<Ticket(High(p))>>
     \/ /\ {Ticket(tx[p].from), Ticket(tx[p].to)} \subseteq tx[p].holds
        /\ tx[p].holds \subseteq {Ticket(tx[p].from), Ticket(tx[p].to)} \cup MergedReports(p)
        /\ tx[p].todo \in Seq(MergedReports(p))

MovesInOrder  == \A p \in Transactions : tx[p].op \in {"remove", "regroup"} => MoveInOrder(p)
MergesInOrder == \A p \in Transactions : tx[p].op = "merge" => MergeInOrder(p)

IInv == Typed /\ Exclusive /\ MovesInOrder /\ MergesInOrder

(***************************************************************************)
(* Rows and sequences                                                      *)
(***************************************************************************)
\* A ticket's row is not a report's.
LEMMA RowsDiffer ==
  /\ \A t, u : Ticket(t) = Ticket(u) <=> t = u
  /\ \A t, u : Report(t) = Report(u) <=> t = u
  /\ \A t, u : Ticket(t) # Report(u)
  BY DEF Ticket, Report

\* A statement locks the rows of a finite set one after the other.
LEMMA OrdersAreSequences ==
  ASSUME NEW rows, IsFiniteSet(rows), NEW s \in Orders(rows)
  PROVE  s \in Seq(rows)
<1>1. Cardinality(rows) \in Nat BY FS_CardinalityType
<1>2. s \in [1 .. Cardinality(rows) -> rows] BY DEF Orders
<1> QED BY <1>1, <1>2, SeqDef

LEMMA TicketRowsFinite ==
  ASSUME NEW S \in SUBSET Tickets
  PROVE  IsFiniteSet({Ticket(t) : t \in S})
<1> DEFINE f == [t \in S |-> Ticket(t)]
<1>0. LastTicket \in Nat /\ 1 \in Int /\ LastTicket \in Int BY LocksAssumption
<1>1. IsFiniteSet(Tickets) BY <1>0, FS_Interval DEF Tickets
<1>2. IsFiniteSet(S) BY <1>1, FS_Subset
<1>3. f \in Surjection(S, {Ticket(t) : t \in S}) BY DEF Surjection
<1> QED BY <1>2, <1>3, FS_Surjection

LEMMA ReportRowsFinite ==
  ASSUME NEW S \in SUBSET Reports
  PROVE  IsFiniteSet({Report(r) : r \in S})
<1> DEFINE f == [r \in S |-> Report(r)]
<1>1. IsFiniteSet(S) BY LocksAssumption, FS_Subset
<1>2. f \in Surjection(S, {Report(r) : r \in S}) BY DEF Surjection
<1> QED BY <1>1, <1>2, FS_Surjection

\* The tickets there are: those of the bound.
LEMMA TicketsThere == Typed => last \in Nat /\ 1 .. last \subseteq Tickets
  BY LocksAssumption DEF Typed, Tickets

\* The active tickets a recalculation has read.
LEMMA ActiveTicketsInOrder ==
  ASSUME Typed, NEW s \in Orders({Ticket(t) : t \in (1 .. last) \ merged})
  PROVE  s \in Seq(Rows)
<1> DEFINE S == (1 .. last) \ merged
<1>1. S \in SUBSET Tickets BY TicketsThere
<1>2. {Ticket(t) : t \in S} \subseteq Rows BY <1>1 DEF Rows
<1>3. s \in Seq({Ticket(t) : t \in S}) BY <1>1, OrdersAreSequences, TicketRowsFinite
<1> QED BY <1>2, <1>3, SeqMonotonic

\* A set of numbers up to n has a highest one: a smallest set of those above.
LEMMA Highest ==
  ASSUME NEW n \in Nat, NEW S \in SUBSET (1 .. n), S # {}
  PROVE  \E m \in S : \A k \in S : k <= m
<1> DEFINE Above(t) == {u \in 1 .. n : u >= t}
           T == {Above(t) : t \in S}
           R == StrictSubsetOrdering(1 .. n)
<1>1. IsFiniteSet(1 .. n) BY FS_Interval
<1>2. FiniteSubsetsOf(1 .. n) = SUBSET (1 .. n) BY <1>1, FS_FiniteSubsetsOfFinite
<1>3. IsWellFoundedOn(R, SUBSET (1 .. n)) BY <1>2, FS_StrictSubsetOrderingWellFounded
<1>4. T \subseteq SUBSET (1 .. n) /\ T # {} OBVIOUS
<1> HIDE DEF R, T
<1>5. PICK a \in T : \A b \in T : <<b, a>> \notin R BY <1>3, <1>4, WFMin, Zenon
<1>6. PICK m \in S : a = Above(m) BY <1>5 DEF T
<1>7. ASSUME NEW k \in S, k > m PROVE FALSE
  <2>1. Above(k) \in T BY DEF T
  <2>2. Above(k) \subseteq Above(m) /\ m \in Above(m) /\ m \notin Above(k) BY <1>7
  <2>3. <<Above(k), a>> \in R BY <1>6, <2>2 DEF R, StrictSubsetOrdering
  <2> QED BY <1>5, <2>1, <2>3
<1> QED BY <1>7

(***************************************************************************)
(* A step of one transaction that moves no report                          *)
(***************************************************************************)
LEMMA NoneIsRecord == None \in Record
  BY LocksAssumption, EmptySeq DEF None, Record

\* The other transactions keep their order, and p only must keep its own.
LEMMA OneTransactionMoves ==
  ASSUME IInv, NEW p \in Transactions, NEW rec \in Record,
         tx' = [tx EXCEPT ![p] = rec], UNCHANGED tables,
         \A q \in Transactions \ {p} : rec.holds \cap tx[q].holds = {},
         rec.op \in {"remove", "regroup"} => MoveInOrder(p)',
         rec.op = "merge" => MergeInOrder(p)'
  PROVE  IInv'
<1> USE DEF IInv, Typed
<1>1. tx'[p] = rec /\ \A q \in Transactions \ {p} : tx'[q] = tx[q] OBVIOUS
<1>2. Typed' /\ at' = at BY DEF tables
<1>3. Exclusive' BY <1>1 DEF Exclusive
<1>4. MovesInOrder'
  BY <1>1 DEF MovesInOrder, MoveInOrder, Low, High
<1>5. MergesInOrder'
  BY <1>1, <1>2 DEF MergesInOrder, MergeInOrder, MergedReports, Low, High
<1> QED BY <1>2, <1>3, <1>4, <1>5

LEMMA EndKeeps ==
  ASSUME IInv, NEW p \in Transactions, tx' = [tx EXCEPT ![p] = None], UNCHANGED tables
  PROVE  IInv'
<1>1. None.holds = {} /\ None.op = "none" BY DEF None
<1> QED BY <1>1, NoneIsRecord, OneTransactionMoves

\* The sequences a move and a merge start with.
LEMMA FirstRows ==
  ASSUME NEW a, NEW b, NEW c
  PROVE  /\ Head(<<a>>) = a /\ Tail(<<a>>) = << >>
         /\ Head(<<a, b>>) = a /\ Tail(<<a, b>>) = <<b>>
         /\ Head(<<a, b, c>>) = a /\ Tail(<<a, b, c>>) = <<b, c>>
         /\ <<a, b>> # <<a>> /\ <<a, b, c>> # <<a>>
         /\ <<a>> # << >> /\ <<a, b>> # << >> /\ <<a, b, c>> # << >>
<1> DEFINE S == {a, b, c}
<1>1. <<a>> \in Seq(S) /\ <<a, b>> \in Seq(S) /\ <<a, b, c>> \in Seq(S) OBVIOUS
<1>2. Head(<<a>>) = a /\ Head(<<a, b>>) = a /\ Head(<<a, b, c>>) = a BY <1>1
<1>3. Tail(<<a>>) = << >> /\ Tail(<<a, b>>) = <<b>> /\ Tail(<<a, b, c>>) = <<b, c>> BY <1>1
<1>4. /\ <<a, b>> # <<a>> /\ <<a, b, c>> # <<a>>
      /\ <<a>> # << >> /\ <<a, b>> # << >> /\ <<a, b, c>> # << >>
  OBVIOUS
<1> QED BY <1>2, <1>3, <1>4

\* One more row.
LEMMA AppendRow ==
  ASSUME NEW a, NEW b, NEW c
  PROVE  Append(<<a>>, b) = <<a, b>> /\ Append(<<a, b>>, c) = <<a, b, c>>
<1> DEFINE S == {a, b, c}
           one == <<a>>
           two == <<a, b>>
           three == <<a, b, c>>
<1>1. /\ a \in S /\ b \in S /\ c \in S
      /\ one \in Seq(S) /\ two \in Seq(S) /\ three \in Seq(S)
      /\ Len(one) = 1 /\ Len(two) = 2 /\ Len(three) = 3
      /\ one[1] = a /\ two[1] = a /\ two[2] = b
      /\ three[1] = a /\ three[2] = b /\ three[3] = c
  OBVIOUS
<1> HIDE DEF S, one, two, three
<1>2. Append(one, b) = two
  <2>1. /\ Append(one, b) \in Seq(S) /\ Len(Append(one, b)) = 2
        /\ Append(one, b)[2] = b /\ Append(one, b)[1] = one[1]
    <3>1. Len(one) + 1 = 2 /\ 1 \in 1 .. Len(one) BY <1>1
    <3>2. /\ Append(one, b) \in Seq(S) /\ Len(Append(one, b)) = Len(one) + 1
          /\ \A i \in 1 .. Len(one) : Append(one, b)[i] = one[i]
          /\ Append(one, b)[Len(one) + 1] = b
      BY <1>1, AppendProperties, Zenon
    <3> QED BY <3>1, <3>2, Zenon
  <2>2. \A i \in 1 .. 2 : Append(one, b)[i] = two[i]
    <3>1. \A i \in 1 .. 2 : i = 1 \/ i = 2 OBVIOUS
    <3> QED BY <1>1, <2>1, <3>1
  <2> QED BY <1>1, <2>1, <2>2, SeqEqual
<1>3. Append(two, c) = three
  <2>1. /\ Append(two, c) \in Seq(S) /\ Len(Append(two, c)) = 3
        /\ Append(two, c)[3] = c
        /\ Append(two, c)[1] = two[1] /\ Append(two, c)[2] = two[2]
    <3>0. two \in Seq(S) /\ c \in S BY <1>1
    <3>1. Len(two) + 1 = 3 /\ 1 \in 1 .. Len(two) /\ 2 \in 1 .. Len(two) BY <1>1
    <3>2. Append(two, c) \in Seq(S) BY <3>0, AppendProperties, Zenon
    <3>3. Len(Append(two, c)) = Len(two) + 1 BY <3>0, AppendProperties, Zenon
    <3>4. ASSUME NEW i \in 1 .. Len(two) PROVE Append(two, c)[i] = two[i]
      BY <3>0, AppendProperties, Zenon
    <3>5. Append(two, c)[Len(two) + 1] = c BY <3>0, AppendProperties, Zenon
    <3> QED BY <3>1, <3>2, <3>3, <3>4, <3>5, Zenon
  <2>2. \A i \in 1 .. 3 : Append(two, c)[i] = three[i]
    <3>1. \A i \in 1 .. 3 : i = 1 \/ i = 2 \/ i = 3 OBVIOUS
    <3> QED BY <1>1, <2>1, <3>1
  <2> QED BY <1>1, <2>1, <2>2, SeqEqual
<1> QED BY <1>2, <1>3 DEF one, two, three

\* The rows of a move: lockTickets, then the report.
LEMMA MoveStarts ==
  ASSUME NEW f \in Tickets, NEW t \in Tickets, NEW r
  PROVE  Append(LockTickets(f, t), Report(r)) =
           IF f = t THEN <<Ticket(f), Report(r)>>
           ELSE IF f < t THEN <<Ticket(f), Ticket(t), Report(r)>>
           ELSE <<Ticket(t), Ticket(f), Report(r)>>
<1> DEFINE a == Ticket(f)
           b == Ticket(t)
           c == Report(r)
<1>1. LockTickets(f, t) = IF f = t THEN <<a>> ELSE IF f < t THEN <<a, b>> ELSE <<b, a>>
  BY DEF LockTickets
<1> HIDE DEF a, b, c
<1>2. /\ Append(<<a>>, c) = <<a, c>> /\ Append(<<a, b>>, c) = <<a, b, c>>
      /\ Append(<<b, a>>, c) = <<b, a, c>>
  BY AppendRow, Zenon
<1>3. Append(LockTickets(f, t), c) =
        IF f = t THEN <<a, c>> ELSE IF f < t THEN <<a, b, c>> ELSE <<b, a, c>>
  BY <1>1, <1>2
<1> QED BY <1>3 DEF a, b, c

LEMMA BeginKeeps ==
  ASSUME IInv, NEW p \in Transactions,
         \/ \E s, t \in 1 .. last : BeginMerge(p, s, t)
         \/ \E op \in {"remove", "regroup"}, r \in Reports, t \in 1 .. last : BeginMove(p, op, r, t)
         \/ \E r \in Reports : BeginModeration(p, r)
         \/ BeginRecalculation(p)
  PROVE  IInv'
<1> USE LocksAssumption DEF Begins, Tickets
<1>a. \A t \in Tickets : t \in 0 .. LastTicket /\ Ticket(t) \in Rows BY DEF Rows
<1>b. \A r \in Reports : Report(r) \in Rows BY DEF Rows
<1>c. \A t, u \in Tickets : LockTickets(t, u) \in Seq(Rows) BY <1>a DEF LockTickets
<1>d. 1 .. last \subseteq Tickets BY TicketsThere DEF IInv
<1>1. ASSUME NEW s \in 1 .. last, NEW t \in 1 .. last, BeginMerge(p, s, t)
      PROVE  IInv'
  <2> DEFINE rec == [op |-> "merge", action |-> "merge", report |-> "none", from |-> t,
                     to |-> s, holds |-> {}, todo |-> LockTickets(s, t)]
  <2>0. s \in Tickets /\ t \in Tickets BY <1>d
  <2>1. rec \in Record BY <1>1, <2>0, <1>a, <1>c DEF Record, BeginMerge
  <2>2. tx' = [tx EXCEPT ![p] = rec] /\ UNCHANGED tables /\ s # t BY <1>1 DEF BeginMerge
  <2>3. tx'[p] = rec BY <2>2 DEF IInv, Typed
  <2>4. MergeInOrder(p)' BY <2>0, <2>2, <2>3 DEF MergeInOrder, LockTickets, Low, High
  <2> QED BY <2>1, <2>2, <2>4, OneTransactionMoves
<1>2. ASSUME NEW op \in {"remove", "regroup"}, NEW r \in Reports, NEW t \in 1 .. last,
             BeginMove(p, op, r, t)
      PROVE  IInv'
  <2> DEFINE rec == [op |-> op, action |-> op, report |-> r, from |-> at[r], to |-> t,
                     holds |-> {}, todo |-> Append(LockTickets(at[r], t), Report(r))]
  <2>1. at[r] \in Tickets /\ t \in Tickets BY <1>d DEF IInv, Typed
  <2>2. Append(LockTickets(at[r], t), Report(r)) \in Seq(Rows) BY <1>b, <1>c, <2>1, AppendProperties
  <2>3. rec \in Record BY <1>2, <1>a, <2>1, <2>2 DEF Record, BeginMove
  <2>4. tx' = [tx EXCEPT ![p] = rec] /\ UNCHANGED tables BY <1>2 DEF BeginMove
  <2>5. tx'[p] = rec BY <2>4 DEF IInv, Typed
  <2>6. MoveInOrder(p)'
    <3>1. /\ tx'[p].from = at[r] /\ tx'[p].to = t /\ tx'[p].report = r
          /\ tx'[p].holds = {} /\ tx'[p].todo = Append(LockTickets(at[r], t), Report(r))
      BY <2>5
    <3>2. tx'[p].todo = IF at[r] = t THEN <<Ticket(at[r]), Report(r)>>
                        ELSE IF at[r] < t THEN <<Ticket(at[r]), Ticket(t), Report(r)>>
                        ELSE <<Ticket(t), Ticket(at[r]), Report(r)>>
      BY <2>1, <3>1, MoveStarts
    <3> QED BY <2>1, <3>1, <3>2 DEF MoveInOrder, Low, High
  <2> QED BY <2>3, <2>4, <2>6, OneTransactionMoves
<1>3. ASSUME NEW r \in Reports, BeginModeration(p, r)
      PROVE  IInv'
  <2> DEFINE rec == [op |-> "moderate", action |-> "moderate", report |-> r, from |-> 0,
                     to |-> 0, holds |-> {}, todo |-> <<Report(r)>>]
  <2>1. rec \in Record BY <1>3, <1>b DEF Record, BeginModeration
  <2>2. tx' = [tx EXCEPT ![p] = rec] /\ UNCHANGED tables BY <1>3 DEF BeginModeration
  <2> QED BY <2>1, <2>2, OneTransactionMoves
<1>4. CASE BeginRecalculation(p)
  <2>1. PICK s \in Orders({Ticket(t) : t \in (1 .. last) \ merged}), a \in Ops \cup {"none"} :
          Begins(p, "recalculate", a, "none", 0, 0, s)
    BY <1>4 DEF BeginRecalculation, IInv, Typed, Record
  <2> DEFINE rec == [op |-> "recalculate", action |-> a, report |-> "none",
                     from |-> 0, to |-> 0, holds |-> {}, todo |-> s]
  <2>2. s \in Seq(Rows) BY ActiveTicketsInOrder DEF IInv
  <2>3. rec \in Record BY <2>2 DEF Record
  <2>4. tx' = [tx EXCEPT ![p] = rec] /\ UNCHANGED tables BY <2>1
  <2> QED BY <2>3, <2>4, OneTransactionMoves
<1> QED BY <1>1, <1>2, <1>3, <1>4, Zenon

(***************************************************************************)
(* Locking the next row                                                    *)
(***************************************************************************)
\* What is locked next is again a sequence of rows.
LEMMA ThenRows ==
  ASSUME IInv, NEW p \in Transactions, tx[p].todo # << >>,
         NEW s \in Then(p, Head(tx[p].todo))
  PROVE  s \in Seq(Rows) /\ Head(tx[p].todo) \in Rows
<1> DEFINE row == Head(tx[p].todo)
<1>1. tx[p].todo \in Seq(Rows) BY DEF IInv, Typed, Record
<1>2. row \in Rows /\ Tail(tx[p].todo) \in Seq(Rows) BY <1>1, HeadTailProperties
<1>3. ASSUME s \in Orders({Report(r) : r \in {v \in Reports : at[v] = tx[p].from}})
      PROVE  s \in Seq(Rows)
  <2>1. s \in Seq({Report(r) : r \in {v \in Reports : at[v] = tx[p].from}})
    BY <1>3, ReportRowsFinite, OrdersAreSequences
  <2>2. {Report(r) : r \in {v \in Reports : at[v] = tx[p].from}} \subseteq Rows BY DEF Rows
  <2> QED BY <2>1, <2>2, SeqMonotonic
<1>4. ASSUME row.row = "report" PROVE <<Ticket(at[row.id])>> \in Seq(Rows)
  <2>1. row.id \in Reports BY <1>2, <1>4 DEF Rows, Ticket, Report
  <2>2. Ticket(at[row.id]) \in Rows BY <2>1 DEF IInv, Typed, Rows
  <2> QED BY <2>2
<1> QED BY <1>2, <1>3, <1>4, EmptySeq DEF Then

LEMMA LockKeeps ==
  ASSUME IInv, NEW p \in Transactions, Lock(p)
  PROVE  IInv'
<1> DEFINE row == Head(tx[p].todo)
<1>1. PICK s \in Then(p, row) :
        tx' = [tx EXCEPT ![p].holds = @ \cup {row}, ![p].todo = s]
  BY DEF Lock
<1> DEFINE rec == [tx[p] EXCEPT !.holds = @ \cup {row}, !.todo = s]
<1>2. tx[p] \in Record /\ tx[p].todo # << >> /\ UNCHANGED tables
  BY DEF Lock, IInv, Typed
<1>3. s \in Seq(Rows) /\ row \in Rows BY <1>2, ThenRows
<1>4. rec \in Record BY <1>2, <1>3 DEF Record
<1>5. tx' = [tx EXCEPT ![p] = rec] /\ tx'[p] = rec BY <1>1 DEF IInv, Typed
<1>6. /\ rec.op = tx[p].op /\ rec.from = tx[p].from /\ rec.to = tx[p].to
      /\ rec.report = tx[p].report
      /\ rec.holds = tx[p].holds \cup {row} /\ rec.todo = s
  BY <1>2 DEF Record
<1>7. \A q \in Transactions \ {p} : rec.holds \cap tx[q].holds = {}
  BY <1>6 DEF Lock, Free, IInv, Exclusive
<1> HIDE DEF rec
<1>8. rec.op \in {"remove", "regroup"} => MoveInOrder(p)'
  <2> SUFFICES ASSUME tx[p].op \in {"remove", "regroup"}
               PROVE  MoveInOrder(p)'
    BY <1>6
  <2> USE FirstRows, <1>5, <1>6 DEF MoveInOrder, Low, High
  <2>1. MoveInOrder(p) BY DEF IInv, MovesInOrder
  <2>2. s = IF tx[p].todo # <<row>> THEN Tail(tx[p].todo) ELSE << >>
    BY DEF Then
  <2>3. CASE /\ tx[p].from = tx[p].to /\ tx[p].holds = {}
             /\ tx[p].todo = <<Ticket(tx[p].from), Report(tx[p].report)>>
    <3>1. row = Ticket(tx[p].from) /\ s = <<Report(tx[p].report)>> BY <2>2, <2>3
    <3> QED BY <2>1, <2>3, <3>1
  <2>4. CASE /\ tx[p].from # tx[p].to /\ tx[p].holds = {}
             /\ tx[p].todo = <<Ticket(Low(p)), Ticket(High(p)), Report(tx[p].report)>>
    <3>1. row = Ticket(Low(p)) /\ s = <<Ticket(High(p)), Report(tx[p].report)>>
      BY <2>2, <2>4
    <3> QED BY <2>1, <2>4, <3>1
  <2>5. CASE tx[p].todo = <<Ticket(High(p)), Report(tx[p].report)>>
             /\ tx[p].holds = {Ticket(Low(p))}
    BY <2>1, <2>2, <2>5
  <2>6. CASE tx[p].todo = <<Report(tx[p].report)>>
             /\ tx[p].holds = {Ticket(tx[p].from), Ticket(tx[p].to)}
    BY <2>1, <2>2, <2>6
  <2> QED BY <1>2, <2>1, <2>3, <2>4, <2>5, <2>6
<1>9. rec.op = "merge" => MergeInOrder(p)'
  <2> SUFFICES ASSUME tx[p].op = "merge"
               PROVE  MergeInOrder(p)'
    BY <1>6
  <2> USE <1>5, <1>6
  <2>1. MergeInOrder(p) BY DEF IInv, MergesInOrder
  <2>2. MergedReports(p)' = MergedReports(p) BY <1>2 DEF MergedReports, tables
  <2>3. CASE tx[p].holds = {} /\ tx[p].todo = <<Ticket(Low(p)), Ticket(High(p))>>
    <3>1. s = <<Ticket(High(p))>> /\ row = Ticket(Low(p)) BY <2>3, FirstRows DEF Then
    <3> QED BY <2>1, <2>3, <3>1 DEF MergeInOrder, Low, High
  <2>4. CASE tx[p].holds = {Ticket(Low(p))} /\ tx[p].todo = <<Ticket(High(p))>>
    <3>1. row = Ticket(High(p)) /\ tx[p].todo = <<row>> BY <2>4, FirstRows
    <3>2. row.row = "ticket" BY <3>1 DEF Ticket
    <3>3. s \in Orders(MergedReports(p)) BY <3>1, <3>2 DEF Then, MergedReports
    <3>4. s \in Seq(MergedReports(p))
      BY <3>3, ReportRowsFinite, OrdersAreSequences DEF MergedReports
    <3>5. {Ticket(tx[p].from), Ticket(tx[p].to)} = tx[p].holds \cup {row}
      BY <2>4, <3>1 DEF Low, High
    <3> QED BY <2>1, <2>2, <3>4, <3>5 DEF MergeInOrder
  <2>5. CASE /\ {Ticket(tx[p].from), Ticket(tx[p].to)} \subseteq tx[p].holds
             /\ tx[p].holds \subseteq {Ticket(tx[p].from), Ticket(tx[p].to)} \cup MergedReports(p)
             /\ tx[p].todo \in Seq(MergedReports(p))
    <3>1. row \in MergedReports(p) /\ Tail(tx[p].todo) \in Seq(MergedReports(p))
      BY <1>2, <2>5, HeadTailProperties
    <3>2. row.row = "report" BY <3>1 DEF MergedReports, Report
    <3>3. s \in Seq(MergedReports(p)) BY <3>1, <3>2, EmptySeq DEF Then
    <3> QED BY <2>1, <2>2, <2>5, <3>1, <3>3 DEF MergeInOrder
  <2> QED BY <2>1, <2>3, <2>4, <2>5 DEF MergeInOrder
<1> QED BY <1>2, <1>4, <1>5, <1>6, <1>7, <1>8, <1>9, OneTransactionMoves

(***************************************************************************)
(* The end of a transaction                                                *)
(***************************************************************************)
LEMMA CommitKeeps ==
  ASSUME IInv, NEW p \in Transactions, Commit(p)
  PROVE  IInv'
<1> USE DEF IInv, Typed
<1>1. PICK rec \in Record : /\ tx' = [tx EXCEPT ![p] = rec]
                            /\ rec.holds = {} /\ rec.op = "none"
  <2> DEFINE due == [None EXCEPT !.action = tx[p].action]
  <2>1. None.holds = {} /\ None.op = "none" /\ due.holds = {} /\ due.op = "none" BY DEF None
  <2>2. due \in Record BY NoneIsRecord DEF Record
  <2>3. tx' = [tx EXCEPT ![p] = None] \/ tx' = [tx EXCEPT ![p] = due] BY DEF Commit
  <2> QED BY <2>1, <2>2, <2>3, NoneIsRecord
<1>2. tx'[p] = rec /\ \A q \in Transactions \ {p} : tx'[q] = tx[q] BY <1>1
<1>3. /\ at' \in [Reports -> Tickets] /\ last' \in FirstTickets .. LastTicket
      /\ \A r \in Reports : at'[r] # at[r] =>
           /\ at[r] = tx[p].from /\ tx[p].from \in Tickets
           /\ Ticket(tx[p].from) \in tx[p].holds
  <2>1. CASE Merges(p)
    <3>1. MergeInOrder(p) BY <2>1 DEF MergesInOrder, Merges
    <3>2. /\ tx[p].from \in Tickets /\ tx[p].to \in Tickets
          /\ Ticket(tx[p].from) \in tx[p].holds
      BY <3>1, FirstRows DEF Commit, MergeInOrder
    <3>3. at' = [r \in Reports |-> IF at[r] = tx[p].from THEN tx[p].to ELSE at[r]]
          /\ last' = last
      BY <2>1 DEF Merges
    <3> QED BY <3>2, <3>3
  <2>2. ASSUME tx[p].op \in {"remove", "regroup"}, MayLeave(p), NEW t \in Tickets,
               at' = [at EXCEPT ![tx[p].report] = t]
        PROVE  /\ at' \in [Reports -> Tickets]
               /\ \A r \in Reports : at'[r] # at[r] =>
                    /\ at[r] = tx[p].from /\ tx[p].from \in Tickets
                    /\ Ticket(tx[p].from) \in tx[p].holds
    <3>1. MoveInOrder(p) BY <2>2 DEF MovesInOrder
    <3>2. tx[p].todo = << >> BY DEF Commit
    <3>3. /\ tx[p].from \in Tickets /\ tx[p].report \in Reports
          /\ Ticket(tx[p].from) \in tx[p].holds
      BY <3>1, <3>2, FirstRows DEF MoveInOrder
    <3>4. at[tx[p].report] = tx[p].from BY <2>2 DEF MayLeave
    <3> QED BY <2>2, <3>3, <3>4
  <2>3. CASE Removes(p)
    <3>1. last + 1 \in Tickets /\ last + 1 \in FirstTickets .. LastTicket
      BY <2>3, TicketsThere, LocksAssumption DEF Removes, Tickets
    <3>2. at' = [at EXCEPT ![tx[p].report] = last + 1] /\ last' = last + 1 /\ MayLeave(p)
          /\ tx[p].op \in {"remove", "regroup"}
      BY <2>3 DEF Removes
    <3> QED BY <2>2, <3>1, <3>2
  <2>4. CASE Regroups(p)
    <3>1. MoveInOrder(p) BY <2>4 DEF MovesInOrder, Regroups
    <3>2. at' = [at EXCEPT ![tx[p].report] = tx[p].to] /\ last' = last /\ MayLeave(p)
          /\ tx[p].op \in {"remove", "regroup"}
      BY <2>4 DEF Regroups
    <3>3. tx[p].to \in Tickets BY <3>1 DEF MoveInOrder
    <3> QED BY <2>2, <3>2, <3>3
  <2>5. CASE UNCHANGED tables BY <2>5 DEF tables
  <2> QED BY <2>1, <2>3, <2>4, <2>5 DEF Commit
<1>4. Typed' BY <1>1, <1>3
<1>5. Exclusive' BY <1>1, <1>2 DEF Exclusive
<1>6. MovesInOrder' BY <1>1, <1>2 DEF MovesInOrder, MoveInOrder, Low, High
<1>7. MergesInOrder'
  <2> SUFFICES ASSUME NEW q \in Transactions, tx'[q].op = "merge"
               PROVE  MergeInOrder(q)'
    BY DEF MergesInOrder
  <2>1. q # p /\ tx'[q] = tx[q] BY <1>1, <1>2
  <2>2. MergeInOrder(q) BY <2>1 DEF MergesInOrder
  <2>3. ASSUME Ticket(tx[q].from) \in tx[q].holds
        PROVE  MergedReports(q) \subseteq MergedReports(q)'
    <3>1. Ticket(tx[q].from) \notin tx[p].holds BY <2>1, <2>3 DEF Exclusive
    <3>2. \A r \in Reports : at[r] = tx[q].from => at'[r] = at[r] BY <1>3, <3>1
    <3> QED BY <2>1, <3>2 DEF MergedReports
  <2>4. CASE Ticket(tx[q].from) \notin tx[q].holds
    BY <2>1, <2>2, <2>4 DEF MergeInOrder, Low, High
  <2>5. CASE Ticket(tx[q].from) \in tx[q].holds
    <3>1. tx[q].todo \in Seq(MergedReports(q)) => tx[q].todo \in Seq(MergedReports(q)')
      BY <2>3, <2>5, SeqMonotonic
    <3> QED BY <2>1, <2>2, <2>3, <2>5, <3>1 DEF MergeInOrder, Low, High
  <2> QED BY <2>4, <2>5
<1> QED BY <1>4, <1>5, <1>6, <1>7

LEMMA InitHolds == Init => IInv
<1> SUFFICES ASSUME Init PROVE IInv OBVIOUS
<1>1. Typed BY NoneIsRecord, LocksAssumption DEF Init, Typed, Tickets
<1> QED BY <1>1 DEF Init, IInv, None, Exclusive, MovesInOrder, MergesInOrder

LEMMA StepKeeps == IInv /\ [Next]_vars => IInv'
<1> SUFFICES ASSUME IInv, [Next]_vars PROVE IInv' OBVIOUS
<1>1. CASE UNCHANGED vars
  <2>1. at' = at /\ tx' = tx /\ last' = last BY <1>1 DEF vars
  <2>2. Typed' /\ Exclusive' BY <2>1 DEF IInv, Typed, Exclusive
  <2>3. MovesInOrder' BY <2>1 DEF IInv, MovesInOrder, MoveInOrder, Low, High
  <2>4. MergesInOrder'
    BY <2>1 DEF IInv, MergesInOrder, MergeInOrder, MergedReports, Low, High
  <2> QED BY <2>2, <2>3, <2>4 DEF IInv
<1>2. ASSUME NEW p \in Transactions,
             \/ \E s, t \in 1 .. last : BeginMerge(p, s, t)
             \/ \E op \in {"remove", "regroup"}, r \in Reports, t \in 1 .. last : BeginMove(p, op, r, t)
             \/ \E r \in Reports : BeginModeration(p, r)
             \/ BeginRecalculation(p)
      PROVE  IInv'
  BY <1>2, BeginKeeps
<1>3. ASSUME NEW p \in Transactions, Lock(p) PROVE IInv' BY <1>3, LockKeeps
<1>4. ASSUME NEW p \in Transactions, Commit(p) PROVE IInv' BY <1>4, CommitKeeps
<1>5. ASSUME NEW p \in Transactions, Refuse(p) \/ Abort(p) PROVE IInv'
  BY <1>5, EndKeeps DEF Refuse, Abort
<1> QED BY <1>1, <1>2, <1>3, <1>4, <1>5, Zenon DEF Next

(***************************************************************************)
(* No cycle of waits                                                       *)
(***************************************************************************)
\* What a grouping transaction waits for, and what it holds meanwhile.
LEMMA WaitingInOrder ==
  ASSUME IInv, NEW p \in Transactions, tx[p].op \in Grouping, Waiting(p)
  PROVE  LET row == Head(tx[p].todo) IN
         \/ \E t \in Tickets : /\ row = Ticket(t)
                               /\ tx[p].holds \subseteq {Ticket(u) : u \in 1 .. t - 1}
         \/ /\ row \in {Report(r) : r \in Reports}
            /\ tx[p].holds \subseteq {Ticket(u) : u \in Tickets}
         \/ /\ tx[p].op = "merge" /\ row \in MergedReports(p)
            /\ Ticket(tx[p].from) \in tx[p].holds
            /\ tx[p].holds \subseteq {Ticket(u) : u \in Tickets} \cup MergedReports(p)
<1> DEFINE row == Head(tx[p].todo)
<1> USE LocksAssumption, FirstRows DEF Tickets
<1>1. tx[p].todo # << >> BY DEF Waiting
<1>2. CASE tx[p].op = "merge"
  <2>1. MergeInOrder(p) BY <1>2 DEF IInv, MergesInOrder
  <2>2. CASE tx[p].holds = {} /\ tx[p].todo = <<Ticket(Low(p)), Ticket(High(p))>>
    BY <2>1, <2>2 DEF MergeInOrder, Low
  <2>3. CASE tx[p].holds = {Ticket(Low(p))} /\ tx[p].todo = <<Ticket(High(p))>>
    <3>1. Low(p) \in 1 .. High(p) - 1 /\ High(p) \in Tickets
      BY <2>1 DEF MergeInOrder, Low, High
    <3> QED BY <2>3, <3>1
  <2>4. CASE /\ {Ticket(tx[p].from), Ticket(tx[p].to)} \subseteq tx[p].holds
             /\ tx[p].holds \subseteq {Ticket(tx[p].from), Ticket(tx[p].to)} \cup MergedReports(p)
             /\ tx[p].todo \in Seq(MergedReports(p))
    <3>1. row \in MergedReports(p) BY <1>1, <2>4, HeadTailProperties
    <3>2. tx[p].from \in Tickets /\ tx[p].to \in Tickets BY <2>1 DEF MergeInOrder
    <3> QED BY <1>2, <2>4, <3>1, <3>2
  <2> QED BY <2>1, <2>2, <2>3, <2>4 DEF MergeInOrder
<1>3. CASE tx[p].op \in {"remove", "regroup"}
  <2>1. MoveInOrder(p) BY <1>3 DEF IInv, MovesInOrder
  <2>2. CASE /\ tx[p].holds = {}
             /\ \/ tx[p].todo = <<Ticket(tx[p].from), Report(tx[p].report)>>
                \/ tx[p].todo = <<Ticket(Low(p)), Ticket(High(p)), Report(tx[p].report)>>
    <3>1. row \in {Ticket(tx[p].from), Ticket(tx[p].to)} BY <2>2 DEF Low
    <3> QED BY <2>1, <2>2, <3>1 DEF MoveInOrder
  <2>3. CASE /\ tx[p].from # tx[p].to
             /\ tx[p].holds = {Ticket(Low(p))}
             /\ tx[p].todo = <<Ticket(High(p)), Report(tx[p].report)>>
    <3>1. Low(p) \in 1 .. High(p) - 1 /\ High(p) \in Tickets
      BY <2>1, <2>3 DEF MoveInOrder, Low, High
    <3> QED BY <2>3, <3>1
  <2>4. CASE tx[p].holds = {Ticket(tx[p].from), Ticket(tx[p].to)}
             /\ tx[p].todo = <<Report(tx[p].report)>>
    BY <2>1, <2>4 DEF MoveInOrder
  <2> QED BY <1>1, <2>1, <2>2, <2>3, <2>4 DEF MoveInOrder
<1> QED BY <1>2, <1>3 DEF Grouping

LEMMA NoCycle ==
  ASSUME IInv, NEW S \in SUBSET {p \in Transactions : tx[p].op \in Grouping}
  PROVE  ~Deadlocked(S)
<1> SUFFICES ASSUME Deadlocked(S) PROVE FALSE
  OBVIOUS
<1> DEFINE row(p) == Head(tx[p].todo)
<1>1. \A p \in S : p \in Transactions /\ tx[p].op \in Grouping /\ Waiting(p)
  BY DEF Deadlocked, WaitsFor
<1>2. \A p \in S : \E q \in S \ {p} : row(p) \in tx[q].holds
  BY DEF Deadlocked, WaitsFor
<1>3. \A p \in S, r \in Reports : row(p) # Report(r)
  <2> SUFFICES ASSUME NEW p \in S, NEW r \in Reports, row(p) = Report(r)
               PROVE  FALSE
    OBVIOUS
  <2>1. PICK q \in S \ {p} : Report(r) \in tx[q].holds BY <1>2
  <2>2. /\ tx[q].op = "merge" /\ row(q) \in MergedReports(q)
        /\ Ticket(tx[q].from) \in tx[q].holds
    BY <1>1, <2>1, WaitingInOrder, RowsDiffer
  <2>3. PICK v \in Reports : row(q) = Report(v) /\ at[v] = tx[q].from
    BY <2>2 DEF MergedReports
  <2>4. PICK o \in S \ {q} : Report(v) \in tx[o].holds BY <1>2, <2>3
  <2>5. /\ Ticket(tx[o].from) \in tx[o].holds
        /\ tx[o].holds \subseteq {Ticket(u) : u \in Tickets} \cup MergedReports(o)
    BY <1>1, <2>4, WaitingInOrder, RowsDiffer
  <2>6. tx[o].from = tx[q].from BY <2>3, <2>4, <2>5, RowsDiffer DEF MergedReports
  <2> QED BY <1>1, <2>2, <2>4, <2>5, <2>6 DEF IInv, Exclusive
<1>4. \A p \in S : \E t \in Tickets :
        row(p) = Ticket(t) /\ tx[p].holds \subseteq {Ticket(u) : u \in 1 .. t - 1}
  BY <1>1, <1>3, WaitingInOrder DEF MergedReports
<1> DEFINE wanted == {t \in Tickets : \E p \in S : row(p) = Ticket(t)}
<1>5. wanted # {} BY <1>4 DEF Deadlocked
<1>6. PICK m \in wanted : \A t \in wanted : t <= m
  BY <1>5, Highest, LocksAssumption DEF Tickets
<1>7. PICK p \in S : row(p) = Ticket(m) BY <1>6
<1>8. PICK q \in S \ {p} : Ticket(m) \in tx[q].holds BY <1>2, <1>7
<1>9. PICK t \in Tickets :
        row(q) = Ticket(t) /\ tx[q].holds \subseteq {Ticket(u) : u \in 1 .. t - 1}
  BY <1>4, <1>8
<1>10. m < t BY <1>8, <1>9, RowsDiffer, LocksAssumption DEF Tickets
<1> QED BY <1>6, <1>9, <1>10, LocksAssumption DEF Tickets

\* Merge, Remove and Regroup never wait for one another in a cycle
\* (lockTickets, lockReport of TicketGroupingService), whatever moderations
\* and recalculations run beside them.
THEOREM GroupingIsDeadlockFree == Spec => []GroupingNeverDeadlocks
<1>1. IInv => GroupingNeverDeadlocks BY NoCycle DEF GroupingNeverDeadlocks
<1> QED BY <1>1, InitHolds, StepKeeps, PTL DEF Spec
=============================================================================
