-------------------------- MODULE ResolutionFeedback --------------------------
(***************************************************************************)
(* The citizens' answers on a Resolved ticket (ReportsService:              *)
(* confirmResolution, disputeResolution, answerResolution), while staff     *)
(* move their reports, merge the ticket, or return it (ReportGrouping).     *)
(* Of the closed statuses only Resolved takes answers; "closed" is Resolved *)
(* here.  The answer reads the report's ticket, then follows the merges to  *)
(* the survivor, then locks the survivor with a SELECT whose subqueries see *)
(* the statement's snapshot: three reads and a commit.                      *)
(***************************************************************************)
EXTENDS ReportGrouping

CONSTANTS
  Citizens,
  Author,       \* reports.citizen_id
  Answering,    \* the answers that may be in flight
  MaxMergeHops  \* MAX_MERGE_HOPS, 10 in the code

ASSUME FeedbackAssumption ==
  /\ Author \in [Reports -> Citizens]
  /\ MaxMergeHops \in Nat

VARIABLES
  answers,    \* resolution_feedback
  disputed,   \* the tickets with disputed_at
  confirmed,  \* the tickets with resolution_confirmed_at
  answer      \* the answers in flight, and what each has read

feedbackVars    == <<answers, disputed, confirmed, answer>>
feedbackAllVars == <<vars, feedbackVars>>

Types    == {"CONFIRMED", "DISPUTED"}
Feedback == [ticket : Tickets, citizen : Citizens, type : Types]
Steps    == {"chain", "survivor", "locking"}
Reading  == [step : Steps, ticket : Tickets, citizen : Citizens, type : Types,
             hasReport : BOOLEAN]
NoAnswer == [step |-> "none"]

FeedbackTypeOK ==
  /\ answers \in SUBSET Feedback
  /\ disputed \in SUBSET Tickets
  /\ confirmed \in SUBSET Tickets
  /\ answer \in [Answering -> {NoAnswer} \cup Reading]

\* The recursive chain: the survivor of each ticket, within a number of hops.
Survivor[hops \in 0 .. MaxMergeHops] ==
  [t \in Tickets |->
     IF into[t] = Nowhere THEN t
     ELSE IF hops = 0 THEN Nowhere ELSE Survivor[hops - 1][into[t]]]

\* The recursive family: the tickets that reach t within as many hops.
Family(t) == {u \in Tickets : Survivor[MaxMergeHops][u] = t}

Step(a, record) == answer' = [answer EXCEPT ![a] = record]

\* ticketOfMyReport: the citizen's own report only.
ReadOwnTicket(a, r, type) ==
  /\ answer[a] = NoAnswer /\ at[r] # Nowhere
  /\ Step(a, [step |-> "chain", ticket |-> at[r], citizen |-> Author[r],
              type |-> type, hasReport |-> FALSE])
  /\ UNCHANGED <<vars, answers, disputed, confirmed>>

FollowMerges(a) ==
  /\ answer[a].step = "chain"
  /\ Survivor[MaxMergeHops][answer[a].ticket] # Nowhere
  /\ Step(a, [answer[a] EXCEPT !.step = "survivor",
                               !.ticket = Survivor[MaxMergeHops][@]])
  /\ UNCHANGED <<vars, answers, disputed, confirmed>>

SnapshotFamily(a) ==
  /\ answer[a].step = "survivor"
  /\ Step(a, [answer[a] EXCEPT !.step = "locking",
       !.hasReport = \E r \in Reports :
          at[r] \in Family(answer[a].ticket) /\ Author[r] = answer[a].citizen])
  /\ UNCHANGED <<vars, answers, disputed, confirmed>>

HasAnswered(t, c) == \E f \in answers : f.ticket = t /\ f.citizen = c

\* Seeded fault: the status comes from the read before the lock.
MayAnswerUnresolved(a) ==
  /\ into[answer[a].ticket] = Nowhere
  /\ answer[a].hasReport
  /\ ~HasAnswered(answer[a].ticket, answer[a].citizen)

\* Seeded fault: the unique index on ticket and citizen is missing.
MayAnswerTwice(a) ==
  /\ into[answer[a].ticket] = Nowhere
  /\ answer[a].hasReport
  /\ status[answer[a].ticket] = "closed"

\* The survivor is locked and read again.
MayAnswer(a) ==
  /\ into[answer[a].ticket] = Nowhere
  /\ answer[a].hasReport
  /\ status[answer[a].ticket] = "closed"
  /\ ~HasAnswered(answer[a].ticket, answer[a].citizen)   \* ON CONFLICT DO NOTHING

\* Seeded fault: a dispute after a confirmation leaves the ticket unmarked.
MirrorFirst(t, type) ==
  /\ disputed' = IF type = "DISPUTED" /\ t \notin confirmed THEN disputed \cup {t} ELSE disputed
  /\ confirmed' = IF type = "CONFIRMED" /\ t \notin disputed THEN confirmed \cup {t} ELSE confirmed

\* The ticket-level mirror of the answers.
Mirror(t, type) ==
  /\ disputed' = IF type = "DISPUTED" THEN disputed \cup {t} ELSE disputed
  /\ confirmed' = IF type = "CONFIRMED" /\ t \notin disputed THEN confirmed \cup {t} ELSE confirmed

CommitAnswer(a) ==
  /\ answer[a].step = "locking"
  /\ MayAnswer(a)
  /\ answers' = answers \cup {[ticket |-> answer[a].ticket, citizen |-> answer[a].citizen,
                               type |-> answer[a].type]}
  /\ Mirror(answer[a].ticket, answer[a].type)
  /\ Step(a, NoAnswer)
  /\ UNCHANGED vars

\* 400, 403, 404, 409, or a failed statement.
AnswerFails(a) ==
  /\ answer[a] # NoAnswer
  /\ Step(a, NoAnswer)
  /\ UNCHANGED <<vars, answers, disputed, confirmed>>

FeedbackInit ==
  /\ Init
  /\ answers = {} /\ disputed = {} /\ confirmed = {}
  /\ answer = [a \in Answering |-> NoAnswer]

FeedbackNext ==
  \/ Next /\ UNCHANGED feedbackVars
  \/ \E a \in Answering :
       \/ \E r \in Reports, type \in Types : ReadOwnTicket(a, r, type)
       \/ FollowMerges(a) \/ SnapshotFamily(a) \/ CommitAnswer(a) \/ AnswerFails(a)

FeedbackSpec == FeedbackInit /\ [][FeedbackNext]_feedbackAllVars

(***************************************************************************)
(* Properties                                                              *)
(***************************************************************************)
\* A citizen answers a ticket once, through whichever of their reports, and
\* whatever was merged into it meanwhile.
AnswersAreFinal ==
  \A f, g \in answers : f.ticket = g.ticket /\ f.citizen = g.citizen => f = g

\* The flags staff filter by say what the answers say: Disputed exactly when
\* somebody disputed, confirmed when somebody confirmed and nobody disputed.
MirrorMatchesAnswers ==
  \A t \in Tickets :
    LET said(type) == \E f \in answers : f.ticket = t /\ f.type = type IN
    /\ t \in disputed <=> said("DISPUTED")
    /\ t \in confirmed => said("CONFIRMED")
    /\ said("CONFIRMED") /\ ~said("DISPUTED") => t \in confirmed

\* An answer is written against a ticket that is Resolved and not merged away
\* at that moment, however many merges and returns passed since it was read.
AnswersResolvedTickets ==
  [][\A f \in answers' \ answers : status[f.ticket] = "closed" /\ into[f.ticket] = Nowhere]_feedbackAllVars
=============================================================================
