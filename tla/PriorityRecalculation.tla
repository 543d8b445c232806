------------------------- MODULE PriorityRecalculation -------------------------
(***************************************************************************)
(* Operational Priority, the order of the staff's queue.  A pass            *)
(* (recalculateActiveTickets) reads the inputs of every active ticket in one *)
(* statement and writes the results by id in a later one, outside any        *)
(* transaction; in between tickets change and other passes read and write.   *)
(* The actions that change a ticket's reports or place write its own         *)
(* priority in their transaction (recalculateTickets) and then run a pass    *)
(* for the others, which may fail.  Staff reads and the daily cron run       *)
(* passes of their own.                                                      *)
(*                                                                           *)
(* A barangay's demand is read by the transaction's own statement; the model *)
(* reads it at the commit.  What another commit changes between the two is   *)
(* for the next pass, like every other change of demand.                     *)
(***************************************************************************)
EXTENDS Integers, FiniteSets, FiniteSetsExt

CONSTANTS
  Queue,       \* tickets.id, given out in ascending order
  Filings,     \* reports, filed or yet to be filed
  Barangays,
  Quarters,    \* citizen_severity in quarters: 1 Low, 2 Medium, 3 High, 4 Critical
  Passes,      \* requests that may be recalculating at once
  FiledBefore, \* which ticket each report is on at the start, 0 for none
  AgeCap,      \* days after which age counts in full, 7 in the code
  MaxChanges,  \* bound of the model: changes of tickets after their submission
  MaxFailedPasses \* bound of the model: passes that fail

ASSUME PriorityAssumption ==
  /\ Queue \subseteq Nat \ {0} /\ IsFiniteSet(Queue) /\ IsFiniteSet(Filings)
  /\ Barangays # {}
  /\ Quarters \in [Filings -> 1..4]
  /\ FiledBefore \in [Filings -> Queue \cup {0}]
  /\ AgeCap \in Nat \ {0}
  /\ MaxChanges \in Nat /\ MaxFailedPasses \in Nat

Unfiled == 0

VARIABLES
  filedOn,   \* reports.ticket_id, or Unfiled
  standing,  \* tickets.status and merged_into_ticket_id: absent, active, closed, mergedAway
  area,      \* tickets.barangay_id
  age,       \* days since the tickets were created, up to AgeCap
  priority,  \* tickets.priority_index; 0 is NULL
  pass,      \* each request's pass: idle, due or read, with what it has read
  changes, failedPasses

priorityVars == <<filedOn, standing, area, age, priority, pass, changes, failedPasses>>

(*--------------------------------- The formula ----------------------------*)
NoPass == [phase |-> "idle", inputs |-> <<>>]
Due == [phase |-> "due", inputs |-> <<>>]

NewTickets == {t \in Queue : standing[t] = "absent" /\ \A u \in Queue : standing[u] = "absent" => t <= u}
Active == {t \in Queue : standing[t] = "active"}
Members(t) == {r \in Filings : filedOn[r] = t}

\* The k-th smallest of the reports' severities.
Kth(R, k) ==
  CHOOSE q \in 1..4 : /\ Cardinality({r \in R : Quarters[r] < q}) < k
                      /\ k <= Cardinality({r \in R : Quarters[r] <= q})

\* The median Severity Factor, in eighths: the two middle ones of an even
\* number of reports, the middle one twice of an odd number.
MedianEighths(R) ==
  LET n == Cardinality(R)
  IN IF n = 0 THEN 2 ELSE Kth(R, (n + 1) \div 2) + Kth(R, n \div 2 + 1)

Demand(b) == Cardinality({t \in Active : area[t] = b})
MaxDemand == Max({Demand(b) : b \in Barangays})

\* round(1 + 99 * (severity/2 + age/4 + demand/4)), the three from 0 to 1: the
\* sum is n/d.
PriorityIndex(in, days) ==
  LET d == 16 * AgeCap * in.max
      n == AgeCap * in.max * in.severity + 4 * in.max * days + 4 * AgeCap * in.demand
  IN (3 * d + 198 * n) \div (2 * d)

InputsOf(t) == [severity |-> MedianEighths(Members(t)),
                demand |-> Demand(area[t]), max |-> MaxDemand]

\* Seeded fault (PrioritiesSettle): only tickets that have none are priced.
ReadInputsUnpriced(T) == [t \in {u \in T \cap Active : priority[u] = 0} |-> InputsOf(t)]

ReadInputs(T) == [t \in T \cap Active |-> InputsOf(t)]

Written(inputs) ==
  [t \in Queue |-> IF t \in DOMAIN inputs THEN PriorityIndex(inputs[t], age) ELSE priority[t]]

\* A row the formula is kept for, and what it should hold.
Present(t) == priority[t] = PriorityIndex(InputsOf(t), age)

(*----------------------------------- A pass -------------------------------*)
Read(p) ==
  /\ pass' = [pass EXCEPT ![p] = [phase |-> "read", inputs |-> ReadInputs(Queue)]]
  /\ UNCHANGED <<filedOn, standing, area, age, priority, changes, failedPasses>>

\* After the commit of a change.
FollowsUp(p) == pass[p] = Due /\ Read(p)

\* The queue, the map, a ticket's detail, the dashboard, the cron's route.
StaffReads(p) == pass[p] = NoPass /\ Read(p)

Writes(p) ==
  /\ pass[p].phase = "read"
  /\ priority' = Written(pass[p].inputs)
  /\ pass' = [pass EXCEPT ![p] = NoPass]
  /\ UNCHANGED <<filedOn, standing, area, age, changes, failedPasses>>

PassFails(p) ==
  /\ pass[p] # NoPass /\ failedPasses < MaxFailedPasses
  /\ pass' = [pass EXCEPT ![p] = NoPass]
  /\ failedPasses' = failedPasses + 1
  /\ UNCHANGED <<filedOn, standing, area, age, priority, changes>>

(*------------------------- The changes of tickets -------------------------*)
\* A transaction commits, with the priorities of the tickets T, and its
\* request goes on to a pass.
Commits(p, T) ==
  /\ pass[p] = NoPass
  /\ priority' = [t \in Queue |-> IF t \in T THEN PriorityIndex(InputsOf(t)', age) ELSE priority[t]]
  /\ pass' = [pass EXCEPT ![p] = Due]
  /\ UNCHANGED <<age, failedPasses>>

OneChange == changes < MaxChanges /\ changes' = changes + 1

Submit(p, r, t, b) ==
  /\ filedOn[r] = Unfiled /\ t \in NewTickets
  /\ filedOn' = [filedOn EXCEPT ![r] = t]
  /\ standing' = [standing EXCEPT ![t] = "active"]
  /\ area' = [area EXCEPT ![t] = b]
  /\ UNCHANGED changes
  /\ Commits(p, {})

MergeInto(p, survivor, gone) ==
  /\ survivor # gone /\ {survivor, gone} \subseteq Active
  /\ filedOn' = [r \in Filings |-> IF filedOn[r] = gone THEN survivor ELSE filedOn[r]]
  /\ standing' = [standing EXCEPT ![gone] = "mergedAway"]
  /\ UNCHANGED area
  /\ OneChange /\ Commits(p, {survivor})

RemoveReport(p, r, t, b) ==
  LET from == filedOn[r] IN
  /\ from \in Active /\ Cardinality(Members(from)) > 1 /\ t \in NewTickets
  /\ filedOn' = [filedOn EXCEPT ![r] = t]
  /\ standing' = [standing EXCEPT ![t] = "active"]
  /\ area' = [area EXCEPT ![t] = b]
  /\ OneChange /\ Commits(p, {from, t})

RegroupReport(p, r, t) ==
  LET from == filedOn[r] IN
  /\ from \in Active /\ Cardinality(Members(from)) > 1 /\ t \in Active \ {from}
  /\ filedOn' = [filedOn EXCEPT ![r] = t]
  /\ UNCHANGED <<standing, area>>
  /\ OneChange /\ Commits(p, {from, t})

CorrectBarangay(p, t, b) ==
  /\ t \in Active /\ b # area[t]
  /\ area' = [area EXCEPT ![t] = b]
  /\ UNCHANGED <<filedOn, standing>>
  /\ OneChange /\ Commits(p, {t})

ReturnActive(p, t) ==
  /\ standing[t] = "closed"
  /\ standing' = [standing EXCEPT ![t] = "active"]
  /\ UNCHANGED <<filedOn, area>>
  /\ OneChange /\ Commits(p, {t})

\* Resolve and reject: no recalculation of any kind.
CloseActive(t) ==
  /\ t \in Active /\ OneChange
  /\ standing' = [standing EXCEPT ![t] = "closed"]
  /\ UNCHANGED <<filedOn, area, age, priority, pass, failedPasses>>

DayPasses ==
  /\ age < AgeCap
  /\ age' = age + 1
  /\ UNCHANGED <<filedOn, standing, area, priority, pass, changes, failedPasses>>

(*------------------------------ Specification -----------------------------*)
\* Tickets filed and grouped earlier, their priorities up to date.
PriorityInit ==
  /\ filedOn = FiledBefore
  /\ standing = [t \in Queue |-> IF Members(t) = {} THEN "absent" ELSE "active"]
  /\ area = [t \in Queue |-> CHOOSE b \in Barangays : TRUE]
  /\ age = 0
  /\ priority = [t \in Queue |-> IF t \in Active THEN PriorityIndex(InputsOf(t), age) ELSE 0]
  /\ pass = [p \in Passes |-> NoPass]
  /\ changes = 0 /\ failedPasses = 0

PassSteps  == \E p \in Passes : FollowsUp(p) \/ Writes(p)
StaffSteps == \E p \in Passes : StaffReads(p)

PriorityNext ==
  \/ PassSteps \/ StaffSteps \/ \E p \in Passes : PassFails(p)
  \/ \E p \in Passes, t \in Queue :
       \/ ReturnActive(p, t)
       \/ \E u \in Queue : MergeInto(p, t, u)
       \/ \E r \in Filings : RegroupReport(p, r, t)
       \/ \E b \in Barangays : CorrectBarangay(p, t, b)
       \/ \E r \in Filings, b \in Barangays : Submit(p, r, t, b) \/ RemoveReport(p, r, t, b)
  \/ \E t \in Queue : CloseActive(t)
  \/ DayPasses

\* Requests go on, and staff keep opening the queue.
PriorityFairness == WF_priorityVars(PassSteps) /\ WF_priorityVars(StaffSteps)

PrioritySpec == PriorityInit /\ [][PriorityNext]_priorityVars /\ PriorityFairness

(*-------------------------------- Properties ------------------------------*)
\* Whatever passes overtake one another, and although some fail: when the
\* tickets are left alone and staff keep opening the queue, each active
\* ticket's priority becomes, and stays, the one its present reports, barangay
\* and age give it.
PrioritiesSettle == <>[](\A t \in Active : Present(t))
=============================================================================
