------------------------------ MODULE ReportsProofs ------------------------------
(***************************************************************************)
(* Proofs about what others do to the reports while staff group them: the   *)
(* citizens' answers on a Resolved ticket, and Focal Personnel's            *)
(* acknowledgments and screenings, for any number of tickets, reports,      *)
(* citizens, answers and requests in flight, whatever staff and moderators  *)
(* do meanwhile, and however long a chain of merges is followed             *)
(* (MaxMergeHops).                                                         *)
(***************************************************************************)
EXTENDS ResolutionFeedback, FocalIntake, ReportGroupingProofs, WellFoundedInduction

(***************************************************************************)
(* Grouping beside the others                                              *)
(***************************************************************************)
\* Citizens and Focal Personnel leave the reports, the tickets and the
\* grouping requests as they are: each specification implements
\* ReportGrouping, step by step, and inherits what is proved of it.
THEOREM FeedbackRefinesGrouping == FeedbackSpec => Spec
<1>1. FeedbackInit => Init BY DEF FeedbackInit
<1>2. [FeedbackNext]_feedbackAllVars => [Next]_vars
  BY DEF FeedbackNext, feedbackAllVars, ReadOwnTicket, FollowMerges, SnapshotFamily, CommitAnswer,
     AnswerFails
<1> QED BY <1>1, <1>2, PTL DEF FeedbackSpec, Spec

THEOREM FocalRefinesGrouping == FocalSpec => Spec
<1>1. FocalInit => Init BY DEF FocalInit
<1>2. [FocalNext]_allVars => [Next]_vars
  BY DEF FocalNext, allVars, SnapshotAcknowledge, SnapshotScreen, TakeSnapshot, Acknowledge, Screen,
     FocalRequestFails
<1> QED BY <1>1, <1>2, PTL DEF FocalSpec, Spec


\* Answers change with the commit of one answer and with nothing else.
LEMMA OnlyCommitsAnswer ==
  ASSUME [FeedbackNext]_feedbackAllVars
  PROVE  \/ UNCHANGED <<answers, disputed, confirmed>>
         \/ \E a \in Answering : CommitAnswer(a)
<1>1. CASE Next /\ UNCHANGED feedbackVars
  BY <1>1 DEF feedbackVars
<1>2. CASE UNCHANGED feedbackAllVars
  BY <1>2 DEF feedbackAllVars, feedbackVars
<1>3. ASSUME NEW a \in Answering,
             \/ \E r \in Reports, type \in Types : ReadOwnTicket(a, r, type)
             \/ FollowMerges(a) \/ SnapshotFamily(a) \/ AnswerFails(a)
      PROVE  UNCHANGED <<answers, disputed, confirmed>>
  BY <1>3 DEF ReadOwnTicket, FollowMerges, SnapshotFamily, AnswerFails
<1> QED
  BY <1>1, <1>2, <1>3 DEF FeedbackNext

\* What is committed: one answer, of a citizen who had not answered there.
LEMMA CommittedAnswer ==
  ASSUME NEW a \in Answering, CommitAnswer(a)
  PROVE  LET new == [ticket |-> answer[a].ticket, citizen |-> answer[a].citizen,
                     type |-> answer[a].type]
         IN /\ answers' = answers \cup {new}
            /\ \A f \in answers : f.ticket # new.ticket \/ f.citizen # new.citizen
            /\ status[new.ticket] = "closed" /\ into[new.ticket] = Nowhere
            /\ Mirror(new.ticket, new.type)
  BY DEF CommitAnswer, MayAnswer, HasAnswered

(***************************************************************************)
(* One answer a citizen                                                    *)
(***************************************************************************)
\* The unique index of resolution_feedback, across the survivors' locks: no
\* citizen answers a ticket twice, through whichever report.
THEOREM AnswersFinal == FeedbackSpec => []AnswersAreFinal
<1>1. FeedbackInit => AnswersAreFinal
  BY DEF FeedbackInit, AnswersAreFinal
<1>2. AnswersAreFinal /\ [FeedbackNext]_feedbackAllVars => AnswersAreFinal'
  <2> SUFFICES ASSUME AnswersAreFinal, [FeedbackNext]_feedbackAllVars
               PROVE  AnswersAreFinal'
    OBVIOUS
  <2>1. CASE UNCHANGED <<answers, disputed, confirmed>>
    BY <2>1 DEF AnswersAreFinal
  <2>2. ASSUME NEW a \in Answering, CommitAnswer(a)
        PROVE  AnswersAreFinal'
    BY <2>2, CommittedAnswer DEF AnswersAreFinal
  <2> QED BY <2>1, <2>2, OnlyCommitsAnswer
<1> QED BY <1>1, <1>2, PTL DEF FeedbackSpec

(***************************************************************************)
(* The ticket's mirror of the answers                                      *)
(***************************************************************************)
Said(t, type) == \E f \in answers : f.ticket = t /\ f.type = type

\* disputed_at and resolution_confirmed_at, kept answer by answer, say what
\* the rows of resolution_feedback say, also after merges and returns.
THEOREM MirrorCorrect == FeedbackSpec => []MirrorMatchesAnswers
<1>1. FeedbackInit => MirrorMatchesAnswers
  BY DEF FeedbackInit, MirrorMatchesAnswers
<1>2. MirrorMatchesAnswers /\ [FeedbackNext]_feedbackAllVars => MirrorMatchesAnswers'
  <2> SUFFICES ASSUME MirrorMatchesAnswers, [FeedbackNext]_feedbackAllVars
               PROVE  MirrorMatchesAnswers'
    OBVIOUS
  <2>1. CASE UNCHANGED <<answers, disputed, confirmed>>
    BY <2>1 DEF MirrorMatchesAnswers
  <2>2. ASSUME NEW a \in Answering, CommitAnswer(a)
        PROVE  MirrorMatchesAnswers'
    <3> DEFINE new == [ticket |-> answer[a].ticket, citizen |-> answer[a].citizen,
                       type |-> answer[a].type]
    <3>1. answers' = answers \cup {new} /\ Mirror(new.ticket, new.type)
      BY <2>2, CommittedAnswer
    <3> HIDE DEF new
    <3>2. \A t \in Tickets : \A type \in Types :
            Said(t, type)' <=> Said(t, type) \/ (new.ticket = t /\ new.type = type)
      BY <3>1 DEF Said
    <3>3. \A t \in Tickets : /\ t \in disputed <=> Said(t, "DISPUTED")
                             /\ t \in confirmed => Said(t, "CONFIRMED")
                             /\ Said(t, "CONFIRMED") /\ ~Said(t, "DISPUTED") => t \in confirmed
      BY DEF MirrorMatchesAnswers, Said
    <3>4. ASSUME NEW t \in Tickets
          PROVE  /\ t \in disputed' <=> Said(t, "DISPUTED")'
                 /\ t \in confirmed' => Said(t, "CONFIRMED")'
                 /\ Said(t, "CONFIRMED")' /\ ~Said(t, "DISPUTED")' => t \in confirmed'
      <4>1. /\ Said(t, "DISPUTED")' <=> Said(t, "DISPUTED") \/ (new.ticket = t /\ new.type = "DISPUTED")
            /\ Said(t, "CONFIRMED")' <=> Said(t, "CONFIRMED") \/ (new.ticket = t /\ new.type = "CONFIRMED")
        BY <3>2 DEF Types
      <4> QED BY <3>1, <3>3, <4>1 DEF Mirror
    <3> QED BY <3>4 DEF MirrorMatchesAnswers, Said
  <2> QED BY <2>1, <2>2, OnlyCommitsAnswer
<1> QED BY <1>1, <1>2, PTL DEF FeedbackSpec

(***************************************************************************)
(* The ticket answered                                                     *)
(***************************************************************************)
\* answerResolution writes against a ticket that is Resolved and current at
\* that moment, although it was found by two earlier reads.
THEOREM AnswersOnResolved == FeedbackSpec => AnswersResolvedTickets
<1> DEFINE Resolved == \A f \in answers' \ answers : status[f.ticket] = "closed" /\ into[f.ticket] = Nowhere
<1>1. [FeedbackNext]_feedbackAllVars => [Resolved]_feedbackAllVars
  <2> SUFFICES ASSUME [FeedbackNext]_feedbackAllVars PROVE Resolved
    OBVIOUS
  <2>1. CASE UNCHANGED <<answers, disputed, confirmed>>
    BY <2>1
  <2>2. ASSUME NEW a \in Answering, CommitAnswer(a) PROVE Resolved
    BY <2>2, CommittedAnswer
  <2> QED BY <2>1, <2>2, OnlyCommitsAnswer
<1> QED BY <1>1, PTL DEF FeedbackSpec, AnswersResolvedTickets

(***************************************************************************)
(* The chain of merges                                                     *)
(***************************************************************************)
Less == {pair \in Nat \X Nat : pair[1] < pair[2]}

LEMMA LessWellFounded == IsWellFoundedOn(Less, Nat)
BY NatLessThanWellFounded DEF OpToRel, Less

\* The least natural number of a set: what the proofs by induction on the
\* number of hops start from.
LEMMA LeastOf ==
  ASSUME NEW S \in SUBSET Nat, S # {}
  PROVE  \E m \in S : \A n \in S : m <= n
<1>1. PICK m \in S : \A n \in S : ~ (<<n, m>> \in Less) BY LessWellFounded, WFMin
<1>2. ASSUME NEW n \in S PROVE m <= n
  <2>1. n \in Nat /\ m \in Nat BY <1>2
  <2>2. ~ (<<n, m>> \in Less) BY <1>1
  <2>3. ~ (n < m) BY <2>1, <2>2 DEF Less
  <2> QED BY <2>1, <2>3
<1> QED BY <1>2

Rule(f, hops) ==
  [t \in Tickets |->
     IF into[t] = Nowhere THEN t
     ELSE IF hops = 0 THEN Nowhere ELSE f[hops - 1][into[t]]]

\* The recursive query is well defined, however many hops it may take.
LEMMA SurvivorExists ==
  ASSUME NEW n \in Nat
  PROVE  \E f : f = [hops \in 0..n |-> Rule(f, hops)]
<1> DEFINE Wrong == {m \in Nat : ~ \E f : f = [hops \in 0..m |-> Rule(f, hops)]}
<1>1. SUFFICES ASSUME Wrong # {} PROVE FALSE BY <1>1
<1>2. PICK m \in Wrong : \A k \in Wrong : m <= k BY <1>1, LeastOf
<1>3. CASE m = 0
  <2> DEFINE f == [hops \in 0..0 |-> Rule(0, hops)]
  <2>1. \A hops \in 0..0 : Rule(f, hops) = Rule(0, hops) BY DEF Rule
  <2>2. f = [hops \in 0..0 |-> Rule(f, hops)] BY <2>1
  <2> HIDE DEF f
  <2> QED BY <1>2, <1>3, <2>2
<1>4. CASE m # 0
  <2>1. m - 1 \in Nat /\ m - 1 \notin Wrong BY <1>2, <1>4
  <2>2. PICK g : g = [hops \in 0..(m - 1) |-> Rule(g, hops)] BY <2>1
  <2> DEFINE f == [hops \in 0..m |-> IF hops = m THEN Rule(g, m) ELSE g[hops]]
  <2>3. \A hops \in 0..m : f[hops] = Rule(g, hops)
    BY <1>2, <2>2
  <2>4. \A hops \in 0..m : Rule(f, hops) = Rule(g, hops)
    <3> SUFFICES ASSUME NEW hops \in 0..m PROVE Rule(f, hops) = Rule(g, hops) OBVIOUS
    <3>1. CASE hops = 0 BY <3>1 DEF Rule
    <3>2. CASE hops # 0
      <4>1. hops - 1 \in 0..m /\ hops - 1 # m BY <1>2, <3>2
      <4>2. f[hops - 1] = g[hops - 1] BY <4>1
      <4> HIDE DEF f
      <4> QED BY <4>2 DEF Rule
    <3> QED BY <3>1, <3>2
  <2>5. f = [hops \in 0..m |-> Rule(f, hops)]
    <3>1. f = [hops \in 0..m |-> Rule(g, hops)] BY <2>3
    <3> HIDE DEF f
    <3> QED BY <2>4, <3>1
  <2> HIDE DEF f
  <2> QED BY <1>2, <2>5
<1> QED BY <1>3, <1>4

LEMMA SurvivorRule ==
  \A hops \in 0..MaxMergeHops : Survivor[hops] = Rule(Survivor, hops)
<1>1. \E f : f = [hops \in 0..MaxMergeHops |-> Rule(f, hops)]
  BY FeedbackAssumption, SurvivorExists
<1>2. Survivor = CHOOSE f : f = [hops \in 0..MaxMergeHops |-> Rule(f, hops)]
  BY DEF Survivor, Rule
<1>3. Survivor = [hops \in 0..MaxMergeHops |-> Rule(Survivor, hops)]
  BY <1>1, <1>2
<1> QED BY <1>3

\* Tickets are merged into tickets of the table.
MergedIntoTable == \A t \in Tickets : into[t] # Nowhere => Used(into[t])

\* Where a chain of merges ends, within the hops that are followed: at a
\* ticket of the table that is not merged away, or nowhere.
THEOREM SurvivorIsCurrent ==
  ASSUME TypeOK, MergedIntoTable, NEW n \in 0..MaxMergeHops, NEW t \in Tickets,
         Survivor[n][t] # Nowhere
  PROVE  /\ Survivor[n][t] \in Tickets
         /\ into[Survivor[n][t]] = Nowhere
         /\ Used(t) => Used(Survivor[n][t])
<1> DEFINE EndsWell(m, u) == Survivor[m][u] # Nowhere =>
                      /\ Survivor[m][u] \in Tickets
                      /\ into[Survivor[m][u]] = Nowhere
                      /\ Used(u) => Used(Survivor[m][u])
           Wrong == {m \in 0..MaxMergeHops : \E u \in Tickets : ~ EndsWell(m, u)}
<1>1. SUFFICES ASSUME Wrong # {} PROVE FALSE BY <1>1
<1>2. Wrong \in SUBSET Nat BY FeedbackAssumption
<1>3. PICK m \in Wrong : \A k \in Wrong : m <= k BY <1>1, <1>2, LeastOf
<1>4. PICK u \in Tickets : ~ EndsWell(m, u) BY <1>3
<1>5. Survivor[m][u] = IF into[u] = Nowhere THEN u
                       ELSE IF m = 0 THEN Nowhere ELSE Survivor[m - 1][into[u]]
  <2>1. Survivor[m] = Rule(Survivor, m) BY <1>3, SurvivorRule
  <2>2. Rule(Survivor, m)[u] = IF into[u] = Nowhere THEN u
                               ELSE IF m = 0 THEN Nowhere ELSE Survivor[m - 1][into[u]]
    BY DEF Rule
  <2> QED BY <2>1, <2>2
<1>6. into[u] # Nowhere /\ m # 0 BY <1>4, <1>5
<1>7. into[u] \in Tickets /\ Used(into[u]) BY <1>6 DEF TypeOK, MergedIntoTable
<1>8. m - 1 \in 0..MaxMergeHops /\ m - 1 \notin Wrong BY <1>3, <1>6, FeedbackAssumption
<1>9. EndsWell(m - 1, into[u]) BY <1>7, <1>8
<1> QED BY <1>4, <1>5, <1>6, <1>7, <1>9

\* No grouping, moderation or change of a ticket takes a report back to where
\* it was before it was filed, or a ticket out of the table.
LEMMA FiledForGood ==
  ASSUME IInv, Next
  PROVE  /\ \A r \in Reports : at[r] # Nowhere => at'[r] # Nowhere
         /\ \A t \in Tickets : Used(t) => Used(t)'
<1> USE GroupingAssumption DEF IInv, TypeOK, Used
<1>2. CASE \E r \in Reports, t \in Tickets, k \in Kinds : Submit(r, t, k)
  BY <1>2 DEF Submit
<1>3. CASE \E t \in Tickets, s \in {"active", "closed"}, k \in Kinds : ChangeTicket(t, s, k)
  BY <1>3 DEF ChangeTicket
<1>4. CASE \E s, t \in Tickets : Merge(s, t)
  BY <1>4 DEF Merge
<1>5. ASSUME NEW q \in Requests, RemoveReport(q) \/ RegroupReport(q)
      PROVE  /\ \A r \in Reports : at[r] # Nowhere => at'[r] # Nowhere
             /\ \A t \in Tickets : Used(t) => Used(t)'
  <2>1. req[q] \in Move BY <1>5, Records DEF RemoveReport, RegroupReport, MoveOps
  <2>2. req[q].to \in Tickets BY <2>1 DEF Move
  <2> QED BY <1>5, <2>2 DEF RemoveReport, RegroupReport, tickets
<1>6. CASE \/ \E q \in Requests, op \in MoveOps, r \in Reports, t \in Tickets : ReadForMove(q, op, r, t)
           \/ \E q \in Requests, r \in Reports, v \in Verdicts : StartModeration(q, r, v)
           \/ \E q \in Requests : CommitModeration(q) \/ RequestFails(q)
  BY <1>6 DEF ReadForMove, StartModeration, CommitModeration, RequestFails, tickets
<1> QED BY <1>2, <1>3, <1>4, <1>5, <1>6 DEF Next

(***************************************************************************)
(* The records of the answers                                              *)
(***************************************************************************)
FiledBy(c) == \E r \in Reports : Author[r] = c /\ at[r] # Nowhere

\* Answers, and what the answers in flight have read, are about tickets of the
\* table and of citizens who have filed a report, whatever was merged, moved
\* or returned since.
FeedbackRecords ==
  /\ MergedIntoTable
  /\ \A a \in Answering :
       answer[a] # NoAnswer => Used(answer[a].ticket) /\ FiledBy(answer[a].citizen)
  /\ \A f \in answers : Used(f.ticket) /\ FiledBy(f.citizen)

FeedbackInv == IInv /\ FeedbackTypeOK /\ FeedbackRecords

\* Whatever staff and moderators do.
LEMMA GroupingKeepsFeedback ==
  ASSUME FeedbackInv, Next, UNCHANGED feedbackVars
  PROVE  FeedbackTypeOK' /\ FeedbackRecords'
<1>1. /\ \A r \in Reports : at[r] # Nowhere => at'[r] # Nowhere
      /\ \A t \in Tickets : Used(t) => Used(t)'
  BY FiledForGood DEF FeedbackInv
<1>2. FeedbackTypeOK' BY DEF FeedbackInv, FeedbackTypeOK, feedbackVars
<1>3. /\ \A a \in Answering : answer[a] # NoAnswer => answer[a].ticket \in Tickets
      /\ \A f \in answers : f.ticket \in Tickets
  BY DEF FeedbackInv, FeedbackTypeOK, Reading, Feedback
<1>4. \A c : FiledBy(c) => FiledBy(c)' BY <1>1 DEF FiledBy
<1>5. MergedIntoTable'
  <2> USE DEF FeedbackInv, FeedbackRecords, MergedIntoTable, IInv, TypeOK
  <2>1. CASE UNCHANGED into
    BY <1>1, <2>1
  <2>2. ASSUME NEW survivor \in Tickets, NEW merged \in Tickets, Merge(survivor, merged)
        PROVE  MergedIntoTable'
    <3>1. into' = [into EXCEPT ![merged] = survivor] /\ Used(survivor)
      BY <2>2 DEF Merge, Live, Used
    <3>2. ASSUME NEW t \in Tickets, into'[t] # Nowhere
          PROVE  into'[t] \in Tickets /\ Used(into'[t])
      BY <3>1, <3>2
    <3>3. \A u \in Tickets : Used(u) => status'[u] # "unused" BY <1>1 DEF Used
    <3> QED BY <3>2, <3>3 DEF Used
  <2>3. UNCHANGED into \/ \E survivor, merged \in Tickets : Merge(survivor, merged)
    BY DEF Next, Submit, ChangeTicket, ReadForMove, StartModeration, RemoveReport, RegroupReport,
       CommitModeration, RequestFails, tickets
  <2> QED BY <2>1, <2>2, <2>3
<1>6. FeedbackRecords'
  <2>1. UNCHANGED <<answer, answers>> BY DEF feedbackVars
  <2>2. ASSUME NEW a \in Answering, answer[a] # NoAnswer
        PROVE  Used(answer[a].ticket)' /\ FiledBy(answer[a].citizen)'
    <3>1. Used(answer[a].ticket) /\ FiledBy(answer[a].citizen) /\ answer[a].ticket \in Tickets
      BY <1>3, <2>2 DEF FeedbackInv, FeedbackRecords
    <3> QED BY <1>1, <1>4, <2>1, <3>1 DEF Used, FiledBy
  <2>3. ASSUME NEW f \in answers PROVE Used(f.ticket)' /\ FiledBy(f.citizen)'
    BY <1>1, <1>3, <1>4 DEF FeedbackInv, FeedbackRecords
  <2> QED BY <1>5, <2>1, <2>2, <2>3 DEF FeedbackRecords
<1> QED BY <1>2, <1>6

\* An answer in flight goes on, with a record that holds what its does.
LEMMA ReadingsKeep ==
  ASSUME FeedbackInv, NEW a \in Answering, NEW record \in {NoAnswer} \cup Reading,
         record # NoAnswer => Used(record.ticket) /\ FiledBy(record.citizen),
         Step(a, record), UNCHANGED vars
  PROVE  /\ answer' \in [Answering -> {NoAnswer} \cup Reading]
         /\ MergedIntoTable'
         /\ \A b \in Answering :
              (answer[b] # NoAnswer => Used(answer[b].ticket) /\ FiledBy(answer[b].citizen))'
         /\ \A t : Used(t) => Used(t)'
         /\ \A c : FiledBy(c) => FiledBy(c)'
BY DEF FeedbackInv, FeedbackTypeOK, FeedbackRecords, MergedIntoTable, Step, Used, FiledBy, vars, tickets

LEMMA AnswerStepKeeps ==
  ASSUME FeedbackInv, NEW a \in Answering,
         \/ \E r \in Reports, type \in Types : ReadOwnTicket(a, r, type)
         \/ FollowMerges(a) \/ SnapshotFamily(a) \/ CommitAnswer(a) \/ AnswerFails(a)
  PROVE  FeedbackTypeOK' /\ FeedbackRecords'
<1>0. /\ answers \in SUBSET Feedback /\ disputed \in SUBSET Tickets /\ confirmed \in SUBSET Tickets
      /\ answer[a] \in {NoAnswer} \cup Reading
      /\ answer[a] # NoAnswer => Used(answer[a].ticket) /\ FiledBy(answer[a].citizen)
      /\ \A f \in answers : Used(f.ticket) /\ FiledBy(f.citizen)
  BY DEF FeedbackInv, FeedbackTypeOK, FeedbackRecords
<1>1. ASSUME NEW record \in {NoAnswer} \cup Reading,
             record # NoAnswer => Used(record.ticket) /\ FiledBy(record.citizen),
             Step(a, record), UNCHANGED <<vars, answers, disputed, confirmed>>
      PROVE  FeedbackTypeOK' /\ FeedbackRecords'
  <2>1. UNCHANGED vars BY <1>1
  <2>2. /\ answer' \in [Answering -> {NoAnswer} \cup Reading]
        /\ MergedIntoTable'
        /\ \A b \in Answering :
             (answer[b] # NoAnswer => Used(answer[b].ticket) /\ FiledBy(answer[b].citizen))'
        /\ \A t : Used(t) => Used(t)'
        /\ \A c : FiledBy(c) => FiledBy(c)'
    BY <1>1, <2>1, ReadingsKeep
  <2>3. FeedbackTypeOK' BY <1>0, <1>1, <2>2 DEF FeedbackTypeOK
  <2>4. FeedbackRecords' BY <1>0, <1>1, <2>2 DEF FeedbackRecords
  <2> QED BY <2>3, <2>4
<1>2. ASSUME NEW r \in Reports, NEW type \in Types, ReadOwnTicket(a, r, type)
      PROVE  FeedbackTypeOK' /\ FeedbackRecords'
  <2> DEFINE new == [step |-> "chain", ticket |-> at[r], citizen |-> Author[r],
                     type |-> type, hasReport |-> FALSE]
  <2>1. at[r] \in Tickets /\ Used(at[r]) /\ FiledBy(Author[r])
    BY <1>2 DEF ReadOwnTicket, FiledBy, FeedbackInv, IInv, ReportsOnCurrentTickets, Current
  <2>2. new \in Reading BY <2>1, FeedbackAssumption DEF Reading, Steps
  <2>3. Used(new.ticket) /\ FiledBy(new.citizen) BY <2>1
  <2>4. Step(a, new) /\ UNCHANGED <<vars, answers, disputed, confirmed>> BY <1>2 DEF ReadOwnTicket
  <2> HIDE DEF new
  <2> QED BY <1>1, <2>2, <2>3, <2>4
<1>3. CASE FollowMerges(a)
  <2> DEFINE old == answer[a]
             survivor == Survivor[MaxMergeHops][old.ticket]
             moved == [old EXCEPT !.step = "survivor"]
             new == [moved EXCEPT !.ticket = survivor]
  <2>1. old \in Reading /\ old # NoAnswer BY <1>0, <1>3 DEF FollowMerges, NoAnswer, Reading
  <2>2. old.ticket \in Tickets BY <2>1 DEF Reading
  <2>3. survivor # Nowhere BY <1>3 DEF FollowMerges
  <2>4. survivor \in Tickets /\ Used(survivor)
    <3>1. TypeOK /\ MergedIntoTable BY DEF FeedbackInv, IInv, FeedbackRecords
    <3>2. MaxMergeHops \in 0..MaxMergeHops BY FeedbackAssumption
    <3> QED BY <1>0, <2>1, <2>2, <2>3, <3>1, <3>2, SurvivorIsCurrent
  <2>5. Step(a, new) /\ UNCHANGED <<vars, answers, disputed, confirmed>>
    <3>1. [old EXCEPT !.step = "survivor", !.ticket = Survivor[MaxMergeHops][@]] = new
      <4>1. moved.ticket = old.ticket BY <2>1 DEF Reading
      <4> QED BY <4>1
    <3> QED BY <1>3, <3>1 DEF FollowMerges
  <2> HIDE DEF survivor, old
  <2>6. moved \in Reading /\ moved.citizen = old.citizen BY <2>1 DEF Reading, Steps
  <2> HIDE DEF moved
  <2>7. new \in Reading /\ new.citizen = old.citizen /\ new.ticket = survivor
    BY <2>4, <2>6 DEF Reading
  <2>8. Used(new.ticket) /\ FiledBy(new.citizen) BY <1>0, <2>1, <2>4, <2>7 DEF old
  <2> HIDE DEF new
  <2> QED BY <1>1, <2>5, <2>7, <2>8
<1>4. CASE SnapshotFamily(a)
  <2> DEFINE old == answer[a]
             has == \E r \in Reports : at[r] \in Family(old.ticket) /\ Author[r] = old.citizen
             moved == [old EXCEPT !.step = "locking"]
             new == [moved EXCEPT !.hasReport = has]
  <2>1. old \in Reading /\ old # NoAnswer BY <1>0, <1>4 DEF SnapshotFamily, NoAnswer, Reading
  <2>2. Step(a, new) /\ UNCHANGED <<vars, answers, disputed, confirmed>>
    BY <1>4 DEF SnapshotFamily
  <2>3. has \in BOOLEAN OBVIOUS
  <2> HIDE DEF has, old
  <2>4. moved \in Reading /\ moved.citizen = old.citizen /\ moved.ticket = old.ticket
    BY <2>1 DEF Reading, Steps
  <2> HIDE DEF moved
  <2>5. new \in Reading /\ new.citizen = old.citizen /\ new.ticket = old.ticket
    BY <2>3, <2>4 DEF Reading
  <2>6. Used(new.ticket) /\ FiledBy(new.citizen) BY <1>0, <2>1, <2>5 DEF old
  <2> HIDE DEF new
  <2> QED BY <1>1, <2>2, <2>5, <2>6
<1>5. CASE AnswerFails(a)
  BY <1>1, <1>5 DEF AnswerFails
<1>6. CASE CommitAnswer(a)
  <2> DEFINE new == [ticket |-> answer[a].ticket, citizen |-> answer[a].citizen,
                     type |-> answer[a].type]
  <2>1. answer[a] \in Reading /\ answer[a] # NoAnswer
    BY <1>0, <1>6 DEF CommitAnswer, NoAnswer, Reading
  <2>2. new \in Feedback /\ new.ticket \in Tickets BY <2>1 DEF Reading, Feedback
  <2>3. Used(new.ticket) /\ FiledBy(new.citizen) BY <1>0, <2>1
  <2>4. answers' = answers \cup {new} /\ Mirror(new.ticket, new.type)
        /\ Step(a, NoAnswer) /\ UNCHANGED vars
    BY <1>6 DEF CommitAnswer
  <2> HIDE DEF new
  <2>5. /\ answer' \in [Answering -> {NoAnswer} \cup Reading]
        /\ MergedIntoTable'
        /\ \A b \in Answering :
             (answer[b] # NoAnswer => Used(answer[b].ticket) /\ FiledBy(answer[b].citizen))'
        /\ \A t : Used(t) => Used(t)'
        /\ \A c : FiledBy(c) => FiledBy(c)'
    BY <2>4, ReadingsKeep
  <2>6. disputed' \in SUBSET Tickets /\ confirmed' \in SUBSET Tickets
    BY <1>0, <2>2, <2>4 DEF Mirror
  <2>7. FeedbackTypeOK' BY <1>0, <2>2, <2>4, <2>5, <2>6 DEF FeedbackTypeOK
  <2>8. FeedbackRecords' BY <1>0, <2>3, <2>4, <2>5 DEF FeedbackRecords
  <2> QED BY <2>7, <2>8
<1> QED BY <1>2, <1>3, <1>4, <1>5, <1>6

\* The keys of resolution_feedback hold, and every answer is of a citizen who
\* filed a report and against a ticket of the table, although the ticket it is
\* written to is found by following merges of any length.
THEOREM FeedbackRecordsCorrect == FeedbackSpec => [](FeedbackTypeOK /\ FeedbackRecords)
<1>1. FeedbackInit => FeedbackTypeOK /\ FeedbackRecords
  BY DEF FeedbackInit, Init, FeedbackTypeOK, FeedbackRecords, MergedIntoTable
<1>2. IInv /\ FeedbackTypeOK /\ FeedbackRecords /\ [FeedbackNext]_feedbackAllVars
        => FeedbackTypeOK' /\ FeedbackRecords'
  <2> SUFFICES ASSUME FeedbackInv, [FeedbackNext]_feedbackAllVars PROVE FeedbackTypeOK' /\ FeedbackRecords'
    BY DEF FeedbackInv
  <2>1. CASE UNCHANGED feedbackAllVars
    BY <2>1 DEF FeedbackInv, FeedbackTypeOK, FeedbackRecords, MergedIntoTable, Used, FiledBy,
       feedbackAllVars, vars, tickets, feedbackVars
  <2> QED BY <2>1, GroupingKeepsFeedback, AnswerStepKeeps DEF FeedbackNext
<1> QED BY <1>1, <1>2, FeedbackRefinesGrouping, IInvHolds, PTL DEF FeedbackSpec

(***************************************************************************)
(* Focal Personnel                                                         *)
(***************************************************************************)
\* What a focal request wrote, with the snapshot it wrote it from.
LEMMA FocalWrites ==
  ASSUME [FocalNext]_allVars
  PROVE  \/ UNCHANGED <<seen, acked, screened>>
         \/ \E f \in FocalRequests : Acknowledge(f) \/ Screen(f)
<1>1. CASE Next /\ UNCHANGED focalVars
  BY <1>1 DEF focalVars
<1>2. CASE UNCHANGED allVars
  BY <1>2 DEF allVars, focalVars
<1>3. ASSUME NEW f \in FocalRequests,
             \/ \E r \in Reports : SnapshotAcknowledge(f, r) \/ SnapshotScreen(f, r)
             \/ FocalRequestFails(f)
      PROVE  UNCHANGED <<seen, acked, screened>>
  BY <1>3 DEF SnapshotAcknowledge, SnapshotScreen, TakeSnapshot, FocalRequestFails
<1> QED BY <1>1, <1>2, <1>3 DEF FocalNext

\* acknowledge reads the ticket again under its lock: an acknowledgment that
\* began before a merge is never written on the ticket merged away.
THEOREM AcknowledgesCurrent == FocalSpec => AcknowledgesCurrentTickets
<1> DEFINE Kept == \A t \in acked' \ acked : into[t] = Nowhere
<1>1. [FocalNext]_allVars => [Kept]_allVars
  <2> SUFFICES ASSUME [FocalNext]_allVars PROVE Kept OBVIOUS
  <2>1. CASE UNCHANGED <<seen, acked, screened>> BY <2>1
  <2>2. ASSUME NEW f \in FocalRequests, Acknowledge(f) \/ Screen(f) PROVE Kept
    BY <2>2 DEF Acknowledge, Screen
  <2> QED BY <2>1, <2>2, FocalWrites
<1> QED BY <1>1, PTL DEF FocalSpec, AcknowledgesCurrentTickets

\* screenSeverity locks the report and reads it again: it is screened on the
\* ticket whose status the request looked at, although staff may have moved
\* it and back since.
THEOREM ScreensOnTicketRead == FocalSpec => ScreensOnTheTicketRead
<1> DEFINE Kept == \A r \in screened' \ screened :
              \E f \in FocalRequests :
                focal[f].op = "screen" /\ focal[f].report = r /\ focal[f].ticket = at[r]
<1>1. [FocalNext]_allVars => [Kept]_allVars
  <2> SUFFICES ASSUME [FocalNext]_allVars PROVE Kept OBVIOUS
  <2>1. CASE UNCHANGED <<seen, acked, screened>> BY <2>1
  <2>2. ASSUME NEW f \in FocalRequests, Acknowledge(f) \/ Screen(f) PROVE Kept
    BY <2>2 DEF Acknowledge, Screen
  <2> QED BY <2>1, <2>2, FocalWrites
<1> QED BY <1>1, PTL DEF FocalSpec, ScreensOnTheTicketRead

\* What Focal Personnel wrote, and what their requests have read, is about
\* reports that were filed and tickets that exist, and each acknowledged
\* ticket has an acknowledged report of its own to show for it.
FocalRecords ==
  /\ \A r \in seen \cup screened : at[r] # Nowhere
  /\ \A t \in acked : Used(t)
  /\ \A f \in FocalRequests :
       focal[f] # Idle => at[focal[f].report] # Nowhere /\ Used(focal[f].ticket)
  /\ IsFiniteSet(acked) /\ Cardinality(acked) <= Cardinality(seen)

FocalInv == IInv /\ FocalTypeOK /\ FocalRecords

LEMMA FocalStepKeeps ==
  ASSUME FocalInv, NEW f \in FocalRequests,
         \/ \E r \in Reports : SnapshotAcknowledge(f, r) \/ SnapshotScreen(f, r)
         \/ Acknowledge(f) \/ Screen(f) \/ FocalRequestFails(f)
  PROVE  FocalTypeOK' /\ FocalRecords'
<1> USE DEF FocalInv
<1>0. /\ at \in [Reports -> Tickets \cup {Nowhere}]
      /\ \A r \in Reports : at[r] # Nowhere => at[r] \in Tickets /\ Used(at[r])
      /\ focal[f] \in {Idle} \cup Snapshot
  BY DEF IInv, TypeOK, ReportsOnCurrentTickets, Current, FocalTypeOK
<1>1. ASSUME NEW r \in Reports, SnapshotAcknowledge(f, r) \/ SnapshotScreen(f, r)
      PROVE  FocalTypeOK' /\ FocalRecords'
  <2>1. PICK op \in {"acknowledge", "screen"} : TakeSnapshot(f, op, r) /\ at[r] # Nowhere
    BY <1>1 DEF SnapshotAcknowledge, SnapshotScreen
  <2> DEFINE new == [op |-> op, report |-> r, ticket |-> at[r]]
  <2>2. new \in Snapshot /\ at[new.report] # Nowhere /\ Used(new.ticket)
    BY <1>0, <2>1 DEF Snapshot
  <2>3. focal' = [focal EXCEPT ![f] = new] /\ UNCHANGED <<vars, seen, acked, screened>>
    BY <2>1 DEF TakeSnapshot
  <2> HIDE DEF new
  <2>4. FocalTypeOK' BY <2>2, <2>3 DEF FocalTypeOK
  <2>5. FocalRecords' BY <2>2, <2>3 DEF FocalTypeOK, FocalRecords, Used, vars, tickets
  <2> QED BY <2>4, <2>5
<1>2. ASSUME focal' = [focal EXCEPT ![f] = Idle], UNCHANGED vars
      PROVE  /\ focal' \in [FocalRequests -> {Idle} \cup Snapshot]
             /\ \A g \in FocalRequests :
                  (focal[g] # Idle => at[focal[g].report] # Nowhere /\ Used(focal[g].ticket))'
  BY <1>2 DEF FocalTypeOK, FocalRecords, Used, vars, tickets
<1>3. CASE Acknowledge(f)
  <2> DEFINE s == focal[f]
  <2>1. /\ s \in Snapshot /\ s.report \notin seen
        /\ seen' = seen \cup {s.report} /\ acked' = acked \cup {s.ticket}
        /\ focal' = [focal EXCEPT ![f] = Idle] /\ UNCHANGED <<vars, screened>>
    BY <1>0, <1>3 DEF Acknowledge, Idle
  <2>2. s.report \in Reports /\ s.ticket \in Tickets /\ at[s.report] # Nowhere /\ Used(s.ticket)
    BY <1>0, <2>1 DEF Snapshot, FocalRecords, Idle
  <2>3. IsFiniteSet(seen) BY GroupingAssumption, FS_Subset DEF FocalTypeOK
  <2> HIDE DEF s
  <2>4. Cardinality(seen') = Cardinality(seen) + 1
    BY <2>1, <2>3, FS_AddElement
  <2>5. IsFiniteSet(acked') /\ (Cardinality(acked') = Cardinality(acked) \/ Cardinality(acked') = Cardinality(acked) + 1)
    BY <2>1, FS_AddElement DEF FocalRecords
  <2>6. Cardinality(seen) \in Nat /\ Cardinality(acked) \in Nat
    BY <2>3, FS_CardinalityType DEF FocalRecords
  <2>7. FocalTypeOK' BY <1>2, <2>1, <2>2 DEF FocalTypeOK
  <2>8. Cardinality(acked') <= Cardinality(seen') BY <2>4, <2>5, <2>6 DEF FocalRecords
  <2>9. /\ \A r \in seen' \cup screened' : at'[r] # Nowhere
        /\ \A t \in acked' : Used(t)'
    BY <2>1, <2>2 DEF FocalRecords, Used, vars, tickets
  <2> QED BY <1>2, <2>1, <2>5, <2>7, <2>8, <2>9 DEF FocalRecords
<1>4. CASE Screen(f)
  <2> DEFINE s == focal[f]
  <2>1. /\ s \in Snapshot /\ screened' = screened \cup {s.report}
        /\ focal' = [focal EXCEPT ![f] = Idle] /\ UNCHANGED <<vars, seen, acked>>
    BY <1>0, <1>4 DEF Screen, Idle
  <2>2. s.report \in Reports /\ at[s.report] # Nowhere
    BY <1>0, <2>1 DEF Snapshot, FocalRecords, Idle
  <2> HIDE DEF s
  <2>3. FocalTypeOK' BY <1>2, <2>1, <2>2 DEF FocalTypeOK
  <2>4. FocalRecords' BY <1>2, <2>1, <2>2 DEF FocalRecords, Used, vars, tickets
  <2> QED BY <2>3, <2>4
<1>5. CASE FocalRequestFails(f)
  <2>1. focal' = [focal EXCEPT ![f] = Idle] /\ UNCHANGED <<vars, seen, acked, screened>>
    BY <1>5 DEF FocalRequestFails
  <2> QED BY <1>2, <2>1 DEF FocalTypeOK, FocalRecords, Used, vars, tickets
<1> QED BY <1>1, <1>3, <1>4, <1>5

\* The foreign keys of acknowledgments, report_acknowledgments and the
\* screening columns hold whatever staff do between a request's read and its
\* write, and no ticket is acknowledged without a report that was.
THEOREM FocalRecordsCorrect == FocalSpec => [](FocalTypeOK /\ FocalRecords)
<1>1. FocalInit => FocalTypeOK /\ FocalRecords
  BY FS_EmptySet DEF FocalInit, FocalTypeOK, FocalRecords
<1>2. IInv /\ FocalTypeOK /\ FocalRecords /\ [FocalNext]_allVars => FocalTypeOK' /\ FocalRecords'
  <2> SUFFICES ASSUME FocalInv, [FocalNext]_allVars PROVE FocalTypeOK' /\ FocalRecords'
    BY DEF FocalInv
  <2>1. CASE Next /\ UNCHANGED focalVars
    <3>1. FocalTypeOK' BY <2>1 DEF FocalInv, FocalTypeOK, focalVars
    <3>2. /\ \A r \in Reports : at[r] # Nowhere => at'[r] # Nowhere
          /\ \A t \in Tickets : Used(t) => Used(t)'
      BY <2>1, FiledForGood DEF FocalInv
    <3>3. \A f \in FocalRequests :
            focal[f] # Idle => focal[f].report \in Reports /\ focal[f].ticket \in Tickets
      BY DEF FocalInv, FocalTypeOK, Snapshot
    <3>4. FocalRecords'
      BY <2>1, <3>2, <3>3 DEF FocalInv, FocalTypeOK, FocalRecords, focalVars
    <3> QED BY <3>1, <3>4
  <2>2. CASE UNCHANGED allVars
    BY <2>2 DEF FocalInv, FocalTypeOK, FocalRecords, Used, allVars, vars, tickets, focalVars
  <2> QED BY <2>1, <2>2, FocalStepKeeps DEF FocalNext
<1> QED BY <1>1, <1>2, FocalRefinesGrouping, IInvHolds, PTL DEF FocalSpec

=================================================================================
