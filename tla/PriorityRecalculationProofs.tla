---------------------- MODULE PriorityRecalculationProofs ----------------------
(***************************************************************************)
(* Proofs about Operational Priority, for any tickets, reports, barangays,   *)
(* severities and passes under way: every index the server writes is on its  *)
(* scale from 1 to 100, from however old inputs it is computed, and passes   *)
(* alone never disturb a queue that is up to date.                           *)
(***************************************************************************)
EXTENDS PriorityRecalculation, FiniteSetTheorems, WellFoundedInduction, TLAPS

\* What the formula may be given: a median from 2 to 8 eighths, and a demand
\* that the largest one, of at least one ticket, is not behind.
Measured ==
  {in \in [severity : 2..8, demand : Nat, max : Nat \ {0}] : in.demand <= in.max}

(***************************************************************************)
(* Lemmas: the largest demand                                              *)
(***************************************************************************)
Less == {pair \in Nat \X Nat : pair[1] < pair[2]}

LEMMA LessWellFounded == IsWellFoundedOn(Less, Nat)
BY NatLessThanWellFounded DEF OpToRel, Less

\* A set of natural numbers with a bound has its maximum.
LEMMA MaxOfNaturals ==
  ASSUME NEW S \in SUBSET Nat, S # {}, NEW n \in Nat, \A s \in S : s <= n
  PROVE  Max(S) \in S /\ \A s \in S : s <= Max(S)
<1> DEFINE T == {n - s : s \in S}
<1>1. \A s \in S : n - s \in Nat OBVIOUS
<1>2. T \subseteq Nat BY <1>1
<1>3. T # {} OBVIOUS
<1>4. \A s \in S : n - s \in T OBVIOUS
<1>5. \A y \in T : \E s \in S : y = n - s OBVIOUS
<1> HIDE DEF T
<1>6. PICK least \in T : \A y \in T : ~ (<<y, least>> \in Less)
  BY <1>2, <1>3, LessWellFounded, WFMin
<1>7. \A y \in T : ~(y < least) BY <1>2, <1>6 DEF Less
<1>8. PICK top \in S : least = n - top BY <1>5
<1>9. \A s \in S : top >= s BY <1>4, <1>7, <1>8
<1>10. \E x \in S : \A y \in S : x >= y BY <1>9
<1> QED BY <1>10 DEF Max

LEMMA DemandCounts ==
  ASSUME NEW b
  PROVE  Demand(b) \in Nat /\ Demand(b) <= Cardinality(Queue)
<1>1. {t \in Active : area[t] = b} \in SUBSET Queue BY DEF Active
<1> QED BY <1>1, PriorityAssumption, FS_Subset, FS_CardinalityType DEF Demand

LEMMA MaxDemandIsLargest == MaxDemand \in Nat /\ \A b \in Barangays : Demand(b) <= MaxDemand
<1> DEFINE S == {Demand(b) : b \in Barangays}
<1>1. S \in SUBSET Nat /\ \A s \in S : s <= Cardinality(Queue) BY DemandCounts
<1>2. S # {} BY PriorityAssumption
<1>3. Cardinality(Queue) \in Nat BY PriorityAssumption, FS_CardinalityType
<1>4. \A b \in Barangays : Demand(b) \in S OBVIOUS
<1> HIDE DEF S
<1>5. Max(S) \in S /\ \A s \in S : s <= Max(S) BY <1>1, <1>2, <1>3, MaxOfNaturals
<1>6. MaxDemand = Max(S) BY DEF MaxDemand, S
<1> QED BY <1>1, <1>4, <1>5, <1>6

(***************************************************************************)
(* Lemmas: the median                                                      *)
(***************************************************************************)
\* The k-th smallest severity exists: so many reports are below it, and so
\* many are not above it.
LEMMA KthSmallest ==
  ASSUME NEW R \in SUBSET Filings, NEW k \in 1..Cardinality(R)
  PROVE  /\ Kth(R, k) \in 1..4
         /\ Cardinality({r \in R : Quarters[r] < Kth(R, k)}) < k
         /\ k <= Cardinality({r \in R : Quarters[r] <= Kth(R, k)})
<1> DEFINE UpTo(q) == {r \in R : Quarters[r] <= q}
           Below(q) == {r \in R : Quarters[r] < q}
<1>1. IsFiniteSet(R) BY PriorityAssumption, FS_Subset
<1>2. \A r \in R : Quarters[r] \in 1..4 BY PriorityAssumption
<1>3. Cardinality(UpTo(1)) \in Nat /\ Cardinality(UpTo(2)) \in Nat /\ Cardinality(UpTo(3)) \in Nat
  <2>1. UpTo(1) \in SUBSET R /\ UpTo(2) \in SUBSET R /\ UpTo(3) \in SUBSET R OBVIOUS
  <2> QED BY <1>1, <2>1, FS_Subset, FS_CardinalityType
<1>4. Below(1) = {} /\ Below(2) = UpTo(1) /\ Below(3) = UpTo(2) /\ Below(4) = UpTo(3) /\ UpTo(4) = R
  BY <1>2
<1>5. Cardinality(Below(1)) = 0 BY <1>4, FS_EmptySet
<1>6. k \in Nat /\ k >= 1 /\ k <= Cardinality(UpTo(4))
  <2>1. Cardinality(R) \in Nat BY <1>1, FS_CardinalityType
  <2>2. k \in Nat /\ k >= 1 /\ k <= Cardinality(R) BY <2>1
  <2> QED BY <1>4, <2>2
<1>7. \E q \in 1..4 : Cardinality(Below(q)) < k /\ k <= Cardinality(UpTo(q))
  <2> HIDE DEF Below, UpTo
  <2>1. CASE k <= Cardinality(UpTo(1)) BY <1>5, <1>6, <2>1
  <2>2. CASE ~(k <= Cardinality(UpTo(1))) /\ k <= Cardinality(UpTo(2))
    BY <1>3, <1>4, <1>6, <2>2
  <2>3. CASE ~(k <= Cardinality(UpTo(2))) /\ k <= Cardinality(UpTo(3))
    BY <1>3, <1>4, <1>6, <2>3
  <2>4. CASE ~(k <= Cardinality(UpTo(3)))
    BY <1>3, <1>4, <1>6, <2>4
  <2> QED BY <2>1, <2>2, <2>3, <2>4
<1> QED BY <1>7 DEF Kth

LEMMA MedianInRange ==
  ASSUME NEW R \in SUBSET Filings
  PROVE  MedianEighths(R) \in 2..8
<1>1. Cardinality(R) \in Nat BY PriorityAssumption, FS_Subset, FS_CardinalityType
<1>2. CASE Cardinality(R) = 0 BY <1>2 DEF MedianEighths
<1>3. CASE Cardinality(R) # 0
  <2>1. /\ (Cardinality(R) + 1) \div 2 \in 1..Cardinality(R)
        /\ Cardinality(R) \div 2 + 1 \in 1..Cardinality(R)
    BY <1>1, <1>3
  <2>2. /\ Kth(R, (Cardinality(R) + 1) \div 2) \in 1..4
        /\ Kth(R, Cardinality(R) \div 2 + 1) \in 1..4
    BY <2>1, KthSmallest
  <2> QED BY <1>3, <2>2 DEF MedianEighths
<1> QED BY <1>2, <1>3

(***************************************************************************)
(* Lemmas: the formula                                                     *)
(***************************************************************************)
\* What a division rounds down to, between two multiples of the divisor.
LEMMA QuotientBetween ==
  ASSUME NEW a \in Nat, NEW b \in Nat \ {0}, b <= a, a < 101 * b
  PROVE  a \div b \in 1..100
  OBVIOUS

LEMMA IndexOnScale ==
  ASSUME NEW in \in Measured, NEW days \in 0..AgeCap
  PROVE  PriorityIndex(in, days) \in 1..100
<1> DEFINE d == 16 * AgeCap * in.max
           n == AgeCap * in.max * in.severity + 4 * in.max * days + 4 * AgeCap * in.demand
<1>1. AgeCap \in Nat \ {0} /\ in.max \in Nat \ {0} /\ in.severity \in 2..8 /\ in.demand \in Nat
      /\ in.demand <= in.max
  BY PriorityAssumption DEF Measured
<1>2. AgeCap * in.max \in Nat \ {0} BY <1>1
<1>3. AgeCap * in.max * in.severity \in 0..(8 * (AgeCap * in.max)) BY <1>1, <1>2
<1>4. in.max * days \in 0..(AgeCap * in.max) BY <1>1
<1>5. AgeCap * in.demand \in 0..(AgeCap * in.max) BY <1>1
<1>6. d \in Nat \ {0} /\ n \in 0..d BY <1>1, <1>2, <1>3, <1>4, <1>5
<1>7. PriorityIndex(in, days) = (3 * d + 198 * n) \div (2 * d) BY DEF PriorityIndex
<1> HIDE DEF d, n
<1>8. /\ 3 * d + 198 * n \in Nat /\ 2 * d \in Nat \ {0}
      /\ 2 * d <= 3 * d + 198 * n /\ 3 * d + 198 * n < 101 * (2 * d)
  BY <1>6
<1> QED BY <1>7, <1>8, QuotientBetween

\* A ticket that is counted among its barangay's has inputs the formula takes:
\* in particular the largest demand is not zero.
LEMMA InputsMeasured == area \in [Queue -> Barangays] => \A t \in Active : InputsOf(t) \in Measured
<1> SUFFICES ASSUME area \in [Queue -> Barangays], NEW t \in Active PROVE InputsOf(t) \in Measured
  OBVIOUS
<1>1. MedianEighths(Members(t)) \in 2..8 BY MedianInRange DEF Members
<1>2. area[t] \in Barangays BY DEF Active
<1>3. Demand(area[t]) \in Nat /\ Demand(area[t]) # 0
  <2> DEFINE same == {u \in Active : area[u] = area[t]}
  <2>1. t \in same /\ same \in SUBSET Queue BY DEF Active
  <2>2. Cardinality(same) \in Nat /\ Cardinality(same) # 0
    BY <2>1, PriorityAssumption, FS_Subset, FS_CardinalityType, FS_EmptySet
  <2> QED BY <2>2 DEF Demand
<1>4. MaxDemand \in Nat /\ Demand(area[t]) <= MaxDemand BY <1>2, MaxDemandIsLargest
<1> QED BY <1>1, <1>3, <1>4 DEF InputsOf, Measured

(***************************************************************************)
(* The scale                                                               *)
(***************************************************************************)
Inputs  == UNION {[T -> Measured] : T \in SUBSET Queue}
Reading == [phase : {"read"}, inputs : Inputs]

PriorityTypeOK ==
  /\ filedOn \in [Filings -> Queue \cup {Unfiled}]
  /\ standing \in [Queue -> {"absent", "active", "closed", "mergedAway"}]
  /\ area \in [Queue -> Barangays]
  /\ age \in 0..AgeCap
  /\ priority \in [Queue -> 0..100]
  /\ pass \in [Passes -> {NoPass, Due} \cup Reading]

LEMMA InitialPriorities == PriorityInit => PriorityTypeOK
<1> SUFFICES ASSUME PriorityInit PROVE PriorityTypeOK OBVIOUS
<1>1. /\ filedOn \in [Filings -> Queue \cup {Unfiled}]
      /\ standing \in [Queue -> {"absent", "active", "closed", "mergedAway"}]
      /\ area \in [Queue -> Barangays]
      /\ age \in 0..AgeCap
      /\ pass \in [Passes -> {NoPass, Due} \cup Reading]
  BY PriorityAssumption DEF PriorityInit, Unfiled
<1>2. \A t \in Active : PriorityIndex(InputsOf(t), age) \in 1..100
  BY <1>1, InputsMeasured, IndexOnScale
<1>3. priority \in [Queue -> 0..100]
  BY <1>2 DEF PriorityInit
<1> QED BY <1>1, <1>3 DEF PriorityTypeOK

\* What a pass writes is on the scale, although its inputs may be older than
\* the tickets and the day.
LEMMA WritesOnScale ==
  ASSUME PriorityTypeOK, NEW p \in Passes, Writes(p)
  PROVE  PriorityTypeOK' /\ \A t \in Queue : priority'[t] \in 1..100 \/ priority'[t] = priority[t]
<1>1. pass[p] \in Reading BY DEF PriorityTypeOK, Writes, NoPass, Due
<1>2. PICK T \in SUBSET Queue : pass[p].inputs \in [T -> Measured]
  BY <1>1 DEF Reading, Inputs
<1>3. \A t \in T : PriorityIndex(pass[p].inputs[t], age) \in 1..100
  BY <1>2, IndexOnScale DEF PriorityTypeOK
<1>4. /\ priority' \in [Queue -> 0..100]
      /\ \A t \in Queue : priority'[t] \in 1..100 \/ priority'[t] = priority[t]
  BY <1>2, <1>3 DEF PriorityTypeOK, Writes, Written
<1>5. pass' \in [Passes -> {NoPass, Due} \cup Reading]
      /\ UNCHANGED <<filedOn, standing, area, age>>
  BY DEF PriorityTypeOK, Writes
<1> QED BY <1>4, <1>5 DEF PriorityTypeOK

\* What a transaction writes for its own tickets, which are active when it
\* commits, is on the scale.
LEMMA CommitsOnScale ==
  ASSUME PriorityTypeOK, NEW p \in Passes, NEW T \in SUBSET Queue, Commits(p, T),
         filedOn' \in [Filings -> Queue \cup {Unfiled}],
         standing' \in [Queue -> {"absent", "active", "closed", "mergedAway"}],
         area' \in [Queue -> Barangays],
         \A t \in T : standing'[t] = "active"
  PROVE  PriorityTypeOK' /\ \A t \in Queue : priority'[t] \in 1..100 \/ priority'[t] = priority[t]
<1>1. (area \in [Queue -> Barangays])' => (\A t \in Active : InputsOf(t) \in Measured)'
  BY InputsMeasured, PTL
<1>2. \A t \in T : InputsOf(t)' \in Measured BY <1>1 DEF Active, Measured
<1>3. \A t \in T : PriorityIndex(InputsOf(t)', age) \in 1..100
  BY <1>2, IndexOnScale DEF PriorityTypeOK
<1>4. /\ priority' \in [Queue -> 0..100]
      /\ \A t \in Queue : priority'[t] \in 1..100 \/ priority'[t] = priority[t]
  BY <1>3 DEF PriorityTypeOK, Commits
<1>5. pass' \in [Passes -> {NoPass, Due} \cup Reading] /\ UNCHANGED age
  BY DEF PriorityTypeOK, Commits
<1> QED BY <1>4, <1>5 DEF PriorityTypeOK

\* The changes of tickets.
LEMMA ChangesOnScale ==
  ASSUME PriorityTypeOK, NEW p \in Passes, NEW t \in Queue,
         \/ ReturnActive(p, t)
         \/ \E u \in Queue : MergeInto(p, t, u)
         \/ \E r \in Filings : RegroupReport(p, r, t)
         \/ \E b \in Barangays : CorrectBarangay(p, t, b)
         \/ \E r \in Filings, b \in Barangays : Submit(p, r, t, b) \/ RemoveReport(p, r, t, b)
  PROVE  PriorityTypeOK' /\ \A u \in Queue : priority'[u] \in 1..100 \/ priority'[u] = priority[u]
<1> DEFINE OnScale == PriorityTypeOK' /\ \A u \in Queue : priority'[u] \in 1..100 \/ priority'[u] = priority[u]
<1>0. /\ filedOn \in [Filings -> Queue \cup {Unfiled}]
      /\ standing \in [Queue -> {"absent", "active", "closed", "mergedAway"}]
      /\ area \in [Queue -> Barangays]
  BY DEF PriorityTypeOK
<1>1. CASE ReturnActive(p, t)
  BY <1>0, <1>1, CommitsOnScale DEF ReturnActive
<1>2. ASSUME NEW u \in Queue, MergeInto(p, t, u) PROVE OnScale
  BY <1>0, <1>2, CommitsOnScale DEF MergeInto, Active
<1>3. ASSUME NEW r \in Filings, RegroupReport(p, r, t) PROVE OnScale
  BY <1>0, <1>3, CommitsOnScale DEF RegroupReport, Active
<1>4. ASSUME NEW b \in Barangays, CorrectBarangay(p, t, b) PROVE OnScale
  BY <1>0, <1>4, CommitsOnScale DEF CorrectBarangay, Active
<1>5. ASSUME NEW r \in Filings, NEW b \in Barangays, Submit(p, r, t, b) PROVE OnScale
  BY <1>0, <1>5, CommitsOnScale DEF Submit
<1>6. ASSUME NEW r \in Filings, NEW b \in Barangays, RemoveReport(p, r, t, b) PROVE OnScale
  BY <1>0, <1>6, CommitsOnScale DEF RemoveReport, Active
<1> QED BY <1>1, <1>2, <1>3, <1>4, <1>5, <1>6

\* A pass reads only inputs that the formula takes.
LEMMA ReadMeasured ==
  ASSUME PriorityTypeOK, NEW p \in Passes, Read(p)
  PROVE  PriorityTypeOK'
<1>1. Queue \cap Active \in SUBSET Queue OBVIOUS
<1>2. \A t \in Active : InputsOf(t) \in Measured BY InputsMeasured DEF PriorityTypeOK
<1>3. ReadInputs(Queue) \in [Queue \cap Active -> Measured] BY <1>2 DEF ReadInputs
<1>4. ReadInputs(Queue) \in Inputs BY <1>1, <1>3 DEF Inputs
<1>5. [phase |-> "read", inputs |-> ReadInputs(Queue)] \in Reading BY <1>4 DEF Reading
<1> QED BY <1>5 DEF PriorityTypeOK, Read

LEMMA PriorityStep ==
  PriorityTypeOK /\ [PriorityNext]_priorityVars =>
    PriorityTypeOK' /\ \A t \in Queue : priority'[t] \in 1..100 \/ priority'[t] = priority[t]
<1> SUFFICES ASSUME PriorityTypeOK, [PriorityNext]_priorityVars
             PROVE  PriorityTypeOK' /\ \A t \in Queue : priority'[t] \in 1..100 \/ priority'[t] = priority[t]
  OBVIOUS
<1>1. CASE UNCHANGED priorityVars BY <1>1 DEF priorityVars, PriorityTypeOK
<1>2. ASSUME NEW p \in Passes, FollowsUp(p) \/ StaffReads(p)
      PROVE  PriorityTypeOK' /\ UNCHANGED priority
  BY <1>2, ReadMeasured DEF FollowsUp, StaffReads, Read
<1>3. ASSUME NEW p \in Passes, PassFails(p)
      PROVE  PriorityTypeOK' /\ UNCHANGED priority
  BY <1>3 DEF PassFails, PriorityTypeOK
<1>4. ASSUME NEW t \in Queue, CloseActive(t)
      PROVE  PriorityTypeOK' /\ UNCHANGED priority
  BY <1>4 DEF CloseActive, PriorityTypeOK
<1>5. CASE DayPasses
  <2>1. age' \in 0..AgeCap BY <1>5, PriorityAssumption DEF DayPasses, PriorityTypeOK
  <2> QED BY <1>5, <2>1 DEF DayPasses, PriorityTypeOK
<1> QED BY <1>1, <1>2, <1>3, <1>4, <1>5, WritesOnScale, ChangesOnScale
        DEF PriorityNext, PassSteps, StaffSteps

\* tickets.priority_index, "1-100" (operational-priority.service.ts): what any
\* pass or transaction writes is on the scale, also from inputs that were read
\* before the tickets changed; nothing divides by an empty barangay's demand,
\* and a ticket once priced is never without a priority again.
THEOREM PrioritiesOnScale ==
  PrioritySpec =>
    /\ []PriorityTypeOK
    /\ [][\A t \in Queue : priority'[t] \in 1..100 \/ priority'[t] = priority[t]]_priorityVars
BY InitialPriorities, PriorityStep, PTL DEF PrioritySpec

(***************************************************************************)
(* Passes and a queue that is up to date                                   *)
(***************************************************************************)
\* Each active ticket has the priority its reports, barangay and age give it,
\* and no pass under way has read anything else.
UpToDate ==
  /\ \A t \in Active : Present(t)
  /\ \A p \in Passes : pass[p].phase = "read" => pass[p].inputs = ReadInputs(Queue)

TicketsAlone == UNCHANGED <<filedOn, standing, area, age>>

LEMMA InputsAlone == TicketsAlone => \A t \in Queue : UNCHANGED InputsOf(t)
BY DEF TicketsAlone, InputsOf, Members, Demand, MaxDemand, Active

\* A pass that writes what it read of the tickets as they are leaves every
\* active ticket with its priority, whatever was there before.
LEMMA CleanPass ==
  ASSUME NEW p \in Passes, Writes(p), pass[p].inputs = ReadInputs(Queue)
  PROVE  (\A t \in Active : Present(t))'
<1>1. \A t \in Queue : UNCHANGED InputsOf(t) BY InputsAlone DEF Writes, TicketsAlone
<1>2. UNCHANGED <<age, Active>> BY DEF Writes, Active
<1>3. \A t \in Active : priority'[t] = PriorityIndex(InputsOf(t), age)
  BY DEF Writes, Written, ReadInputs, Active
<1> QED BY <1>1, <1>2, <1>3 DEF Present, PriorityIndex, Active

\* With the tickets alone, whatever a step writes of a priority is what it was
\* or what the present inputs give, and a pass that reads, reads those.
LEMMA StepWithTicketsAlone ==
  ASSUME PriorityTypeOK, [PriorityNext]_priorityVars, TicketsAlone, UpToDate
  PROVE  UpToDate'
<1>0. /\ Active' = Active /\ age' = age
      /\ \A t \in Queue : UNCHANGED InputsOf(t)
      /\ ReadInputs(Queue)' = ReadInputs(Queue)
  BY InputsAlone DEF TicketsAlone, Active, ReadInputs
<1> DEFINE Right == \A t \in Active : priority'[t] = PriorityIndex(InputsOf(t), age)
           Current == \A p \in Passes : pass'[p].phase = "read" => pass'[p].inputs = ReadInputs(Queue)
<1>1. /\ \A t \in Active : priority[t] = PriorityIndex(InputsOf(t), age)
      /\ \A p \in Passes : pass[p].phase = "read" => pass[p].inputs = ReadInputs(Queue)
      /\ pass \in [Passes -> {NoPass, Due} \cup Reading]
  BY DEF UpToDate, Present, PriorityTypeOK
<1>2. SUFFICES Right /\ Current
  <2>1. \A t \in Active : Present(t)' BY <1>0, <1>2 DEF Present, PriorityIndex, Active
  <2> QED BY <1>0, <1>2, <2>1 DEF UpToDate
<1>3. CASE UNCHANGED <<priority, pass>> BY <1>1, <1>3
<1>4. ASSUME NEW p \in Passes, FollowsUp(p) \/ StaffReads(p) PROVE Right /\ Current
  BY <1>1, <1>4 DEF FollowsUp, StaffReads, Read
<1>5. ASSUME NEW p \in Passes, PassFails(p) PROVE Right /\ Current
  BY <1>1, <1>5 DEF PassFails, NoPass
<1>6. ASSUME NEW p \in Passes, Writes(p) PROVE Right /\ Current
  BY <1>1, <1>6 DEF Writes, Written, ReadInputs, NoPass, Active
<1>7. ASSUME NEW p \in Passes, NEW T \in SUBSET Queue, Commits(p, T) PROVE Right /\ Current
  BY <1>0, <1>1, <1>7 DEF Commits, Due, Active
<1>8. UNCHANGED <<priority, pass>>
      \/ (\E p \in Passes : FollowsUp(p) \/ StaffReads(p) \/ PassFails(p) \/ Writes(p))
      \/ (\E p \in Passes, T \in SUBSET Queue : Commits(p, T))
  <2>1. CASE UNCHANGED priorityVars BY <2>1 DEF priorityVars
  <2>2. ASSUME NEW p \in Passes, NEW t \in Queue,
               \/ ReturnActive(p, t)
               \/ \E u \in Queue : MergeInto(p, t, u)
               \/ \E r \in Filings : RegroupReport(p, r, t)
               \/ \E b \in Barangays : CorrectBarangay(p, t, b)
               \/ \E r \in Filings, b \in Barangays : Submit(p, r, t, b) \/ RemoveReport(p, r, t, b)
        PROVE  \E T \in SUBSET Queue : Commits(p, T)
    BY <2>2 DEF ReturnActive, MergeInto, RegroupReport, CorrectBarangay, Submit, RemoveReport, Active
  <2> QED BY <2>1, <2>2 DEF PriorityNext, PassSteps, StaffSteps, CloseActive, DayPasses
<1> QED BY <1>3, <1>4, <1>5, <1>6, <1>7, <1>8

\* The safety half of PrioritiesSettle: as long as the tickets are left alone,
\* a pass with current inputs puts the queue in order, and no pass of staff or
\* of a request that fails or comes late takes it out of order again.
THEOREM PassesKeepOrder ==
  PrioritySpec =>
    /\ [][TicketsAlone /\ UpToDate => UpToDate']_priorityVars
    /\ [][\A p \in Passes : Writes(p) /\ pass[p].inputs = ReadInputs(Queue)
            => (\A t \in Active : Present(t))']_priorityVars
<1>1. PriorityTypeOK /\ [PriorityNext]_priorityVars => [TicketsAlone /\ UpToDate => UpToDate']_priorityVars
  BY StepWithTicketsAlone
<1>2. [PriorityNext]_priorityVars =>
        [\A p \in Passes : Writes(p) /\ pass[p].inputs = ReadInputs(Queue)
           => (\A t \in Active : Present(t))']_priorityVars
  BY CleanPass
<1> QED BY <1>1, <1>2, InitialPriorities, PriorityStep, PTL DEF PrioritySpec

=================================================================================
