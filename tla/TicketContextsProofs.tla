-------------------------- MODULE TicketContextsProofs --------------------------
(***************************************************************************)
(* Proofs that the hazard lookup and the rainfall refresh of a ticket both   *)
(* implement TicketContext, for any set of sites and pins and any MAX_RUNS.  *)
(***************************************************************************)
EXTENDS HazardLookup, RainfallContext, TLAPS

(*----------------------------- The hazard lookup --------------------------*)
\* What a lookup carries from one await to the next.
InFlightOK ==
  /\ phase \in {"query", "record"} => read \in Sites /\ Layer[read] # "none"
  /\ phase = "record" => answer \in Answers

IInv == TypeOK /\ InFlightOK

LEMMA StartKeeps ==
  ASSUME TypeOK, NEW b \in BOOLEAN, Ask(b)
  PROVE  /\ phase' \in Phases /\ read' \in Sites \cup {NoSite}
         /\ answer' \in Answers \cup {"none"} /\ runs' \in 0 .. (MaxRuns - 1)
         /\ rerun' \in BOOLEAN
         /\ \/ UNCHANGED <<phase, read, answer>>
            \/ phase' = "read"
<1> USE DEF TypeOK, Phases
<1>1. CASE phase = "idle"
  <2>1. 0 \in 0 .. (MaxRuns - 1)
    BY ContextAssumption
  <2> QED
    BY <1>1, <2>1 DEF Ask, Start
<1>2. CASE phase # "idle"
  <2>1. rerun' \in BOOLEAN
    BY <1>2 DEF Ask
  <2> QED
    BY <1>2, <2>1 DEF Ask
<1> QED
  BY <1>1, <1>2

LEMMA EndRunKeeps ==
  ASSUME TypeOK, NEW b \in BOOLEAN, EndRun(b)
  PROVE  /\ phase' \in {"idle", "read"} /\ read' = NoSite /\ answer' = "none"
         /\ runs' \in 0 .. (MaxRuns - 1) /\ rerun' = FALSE
  BY ContextAssumption DEF TypeOK, EndRun

LEMMA IInvStep ==
  ASSUME IInv, [Next]_vars
  PROVE  IInv'
<1> USE HazardAssumption, ContextAssumption DEF IInv, TypeOK, TicketOK, InFlightOK, detail
<1>1. ASSUME NEW s \in Sites, Correct(s)
      PROVE  IInv'
  BY <1>1, StartKeeps DEF Correct, CorrectTicket
<1>2. CASE Close \/ Return \/ MergeAway
  BY <1>2 DEF Close, Return, MergeAway, CloseTicket, ReturnTicket, MergeTicketAway, lookup
<1>3. CASE OpenDetail \/ Retry
  <2>1. due' \in BOOLEAN
    BY <1>3 DEF OpenDetail, Retry, AutoRetryDue
  <2> QED
    BY <1>3, <2>1 DEF OpenDetail, Retry, ticket, lookup
<1>4. CASE AskIfDue
  BY <1>4, StartKeeps DEF AskIfDue, ticket
<1>5. CASE ReadTicket
  <2>1. CASE merged
    BY <1>5, <2>1, EndRunKeeps DEF ReadTicket, ticket, Phases
  <2>2. CASE ~merged
    BY <1>5, <2>2 DEF ReadTicket, ticket, Phases
  <2> QED
    BY <2>1, <2>2
<1>6. CASE Supersede
  BY <1>6, EndRunKeeps DEF Supersede, ticket, Phases
<1>7. ASSUME NEW a \in Answers, AnswerArrives(a)
      PROVE  IInv'
  BY <1>7 DEF AnswerArrives, ticket, Phases
<1>8. CASE Record
  <2>1. EndRun(rerun) \/ EndRun(TRUE)
    BY <1>8 DEF Record
  <2>2. current' \in Row \cup {NoRow}
    <3>1. [site |-> read, answer |-> answer] \in Row
      BY <1>8 DEF Record, Row
    <3> QED
      BY <1>8, <3>1 DEF Record
  <2> QED
    BY <1>8, <2>1, <2>2, EndRunKeeps DEF Record, ticket, Phases
<1>9. CASE DatabaseError
  <2>1. failures' \in 0 .. MaxFailures
    BY <1>9 DEF DatabaseError
  <2> QED
    BY <1>9, <2>1, EndRunKeeps DEF DatabaseError, ticket, Phases
<1>10. CASE Restart
  <2>1. failures' \in 0 .. MaxFailures /\ 0 \in 0 .. (MaxRuns - 1)
    BY <1>10 DEF Restart
  <2> QED
    BY <1>10, <2>1 DEF Restart, ticket, Phases
<1>11. CASE UNCHANGED vars
  BY <1>11 DEF vars, ticket, lookup
<1> QED
  BY <1>1, <1>2, <1>3, <1>4, <1>5, <1>6, <1>7, <1>8, <1>9, <1>10, <1>11 DEF Next, Steps

LEMMA IInvInit ==
  ASSUME Init
  PROVE  IInv
<1>1. 0 \in 0 .. (MaxRuns - 1) /\ 0 \in 0 .. MaxFailures
  BY ContextAssumption
<1> QED
  BY <1>1, HazardAssumption DEF Init, Blank, NewTicket, IInv, TypeOK, TicketOK, InFlightOK, Phases

THEOREM TypeCorrect == Spec => []TypeOK
<1>1. Init => IInv
  BY IInvInit
<1>2. IInv /\ [Next]_vars => IInv'
  BY IInvStep
<1>3. IInv => TypeOK
  BY DEF IInv
<1> QED
  BY <1>1, <1>2, <1>3, PTL DEF Spec

\* What one step does to the current row: nothing, supersede it, or record an
\* answer about the category and pin the ticket has.
LEMMA RowStep ==
  ASSUME IInv, [Next]_vars
  PROVE  \/ UNCHANGED current
         \/ current' = NoRow /\ UNCHANGED ticket
         \/ /\ current'.site = site /\ UNCHANGED ticket
            /\ ~merged /\ site \in Sites /\ Layer[site] # "none"
<1>1. CASE Record
  <2>1. UNCHANGED current \/ (~merged /\ site = read /\ current' = [site |-> read, answer |-> answer])
    BY <1>1, Zenon DEF Record
  <2>2. Layer[read] # "none" /\ read \in Sites /\ UNCHANGED ticket
    BY <1>1 DEF Record, IInv, InFlightOK
  <2> QED
    BY <2>1, <2>2
<1>2. CASE Supersede
  BY <1>2 DEF Supersede
<1>3. CASE ~Record /\ ~Supersede
  BY <1>3 DEF Next, Steps, vars, Correct, Close, Return, MergeAway, OpenDetail, Retry, AskIfDue,
     ReadTicket, AnswerArrives, DatabaseError, Restart
<1> QED
  BY <1>1, <1>2, <1>3

\* The lookup implements the abstract context: what is recorded is about the
\* ticket as it is, whatever corrections, merges and restarts happened while
\* the layer answered.
THEOREM HazardRefines == Spec => HazardImplementsContext
<1>1. Init => HazardContext!Init
  BY DEF Init, Blank, NewTicket, NoRow, HazardContext!Init, HazardContext!NewTicket
<1>2. Init => IInv
  BY IInvInit
<1>3. IInv /\ [Next]_vars => IInv'
  BY IInvStep
<1>4. ASSUME IInv, [Next]_vars
      PROVE  [HazardContext!Next]_<<HazardContext!ticket, current.site>>
  <2> USE DEF HazardContext!ticket, ticket
  <2>1. CASE current' = NoRow /\ UNCHANGED ticket
    BY <2>1 DEF HazardContext!Next, HazardContext!Supersede, NoRow
  <2>2. CASE /\ current'.site = site /\ UNCHANGED ticket
             /\ ~merged /\ site \in Sites /\ Layer[site] # "none"
    BY <2>2 DEF HazardContext!Next, HazardContext!Record
  <2>3. CASE UNCHANGED current
    <3>1. CASE UNCHANGED ticket
      BY <2>3, <3>1
    <3>2. ASSUME NEW s \in Sites, Correct(s)
          PROVE  HazardContext!Change
      BY <2>3, <3>2 DEF Correct, CorrectTicket, HazardContext!Change, HazardContext!CorrectTicket
    <3>3. CASE Close \/ Return \/ MergeAway
      BY <2>3, <3>3 DEF Close, Return, MergeAway, CloseTicket, ReturnTicket, MergeTicketAway,
         HazardContext!Change, HazardContext!ChangeStatus, HazardContext!CloseTicket,
         HazardContext!ReturnTicket, HazardContext!MergeTicketAway, HazardContext!Next
    <3>4. \/ UNCHANGED ticket \/ (Close \/ Return \/ MergeAway)
          \/ \E s \in Sites : Correct(s)
      BY <1>4 DEF Next, Steps, vars, OpenDetail, Retry, AskIfDue, ReadTicket, Supersede,
         AnswerArrives, Record, DatabaseError, Restart
    <3>5. CASE HazardContext!Change
      BY <3>5 DEF HazardContext!Next
    <3> QED
      BY <3>1, <3>2, <3>3, <3>4, <3>5 DEF HazardContext!Next
  <2>4. \/ UNCHANGED current
        \/ current' = NoRow /\ UNCHANGED ticket
        \/ /\ current'.site = site /\ UNCHANGED ticket
           /\ ~merged /\ site \in Sites /\ Layer[site] # "none"
    BY <1>4, RowStep
  <2> QED
    BY <2>1, <2>2, <2>3, <2>4, Zenon
<1> QED
  BY <1>1, <1>2, <1>3, <1>4, PTL DEF Spec, HazardImplementsContext, HazardContext!Spec

(*---------------------------- The rainfall refresh ------------------------*)
\* What a run carries from one await to the next: the site it read is in a
\* rainfall category once it asks the cache or the provider.
RainInFlightOK ==
  /\ rainPhase \in {"reuse", "fetch", "record"} => rainRead \in Rainy

RainIInv == RainTypeOK /\ RainInFlightOK

LEMMA AskRainKeeps ==
  ASSUME RainTypeOK, NEW r \in Reasons, AskRain(r)
  PROVE  /\ rainPhase' \in {"idle", "read", "supersede", "reuse", "fetch", "record"}
         /\ why' \in Reasons /\ rainRead' \in Sites \cup {NoSite}
         /\ reading' \in {"none", "ok", "failed"}
         /\ rainRuns' \in 0 .. (MaxRuns - 1) /\ rainRerun' \in BOOLEAN
         /\ UNCHANGED <<rainPhase, rainRead>> \/ rainPhase' = "read"
<1>1. 0 \in 0 .. (MaxRuns - 1)
  BY ContextAssumption
<1> QED
  BY <1>1 DEF RainTypeOK, AskRain, Cleared

LEMMA EndRainRunKeeps ==
  ASSUME RainTypeOK, NEW b \in BOOLEAN, EndRainRun(b)
  PROVE  /\ rainPhase' \in {"idle", "read"} /\ why' \in Reasons
         /\ rainRead' = NoSite /\ reading' = "none"
         /\ rainRuns' \in 0 .. (MaxRuns - 1) /\ rainRerun' = FALSE
<1>1. 0 \in 0 .. (MaxRuns - 1)
  BY ContextAssumption
<1>2. rainRuns + 1 < MaxRuns => rainRuns + 1 \in 0 .. (MaxRuns - 1)
  BY ContextAssumption DEF RainTypeOK
<1> QED
  BY <1>1, <1>2 DEF EndRainRun, Cleared, Reasons

LEMMA ConsultKeeps ==
  ASSUME RainTypeOK, NEW s \in Rainy, Consult(s)
  PROVE  /\ rainPhase' \in {"fetch", "record"} /\ rainRead' = s
         /\ reading' \in {"none", "ok", "failed"} /\ throttled' \in BOOLEAN
         /\ UNCHANGED <<why, rainRuns, rainRerun>>
  BY DEF RainTypeOK, Consult

LEMMA RecordedOK ==
  ASSUME RainTypeOK, rainRead \in Sites
  PROVE  /\ Recorded \in RainRow
         /\ Recorded.pin = Pin[rainRead]
<1>1. Pin[rainRead] \in Points
  BY DEF Points
<1>2. CASE reading = "ok"
  BY <1>1, <1>2 DEF Recorded, RainRow
<1>3. CASE reading # "ok" /\ Valued /\ rain.pin = Pin[rainRead]
  <2>1. rain \in RainRow
    BY <1>3 DEF RainTypeOK, Valued, NoRain
  <2> QED
    BY <1>3, <2>1 DEF Recorded, RainRow
<1>4. CASE reading # "ok" /\ ~(Valued /\ rain.pin = Pin[rainRead])
  BY <1>1, <1>4 DEF Recorded, RainRow
<1> QED
  BY <1>2, <1>3, <1>4

LEMMA RainInvStep ==
  ASSUME RainIInv, [RainNext]_rainVars
  PROVE  RainIInv'
<1> USE ContextAssumption, RainfallAssumption
<1> USE DEF RainIInv, RainTypeOK, TicketOK, RainInFlightOK, ticket, clocks, views
<1>1. ASSUME NEW s \in Sites, RainCorrect(s)
      PROVE  RainIInv'
  <2>1. "correction" \in Reasons
    BY DEF Reasons
  <2> QED
    BY <1>1, <2>1, AskRainKeeps DEF RainCorrect, CorrectTicket
<1>2. CASE RainStatusChange
  <2>1. TicketOK'
    BY <1>2 DEF RainStatusChange, ChangeStatus, CloseTicket, ReturnTicket, MergeTicketAway
  <2> QED
    BY <1>2, <2>1 DEF RainStatusChange, refresh
<1>3. CASE OpenTicket \/ AskRainIfDue
  <2>1. CASE OpenTicket
    <3>1. rainDue' \in BOOLEAN
      BY <2>1 DEF OpenTicket, RefreshDue
    <3> QED
      BY <2>1, <3>1 DEF OpenTicket, refresh
  <2>2. CASE AskRainIfDue
    <3>1. "detail" \in Reasons
      BY DEF Reasons
    <3> QED
      BY <2>2, <3>1, AskRainKeeps DEF AskRainIfDue
  <2> QED
    BY <1>3, <2>1, <2>2
<1>4. CASE ManualRefresh
  <2>1. "manual" \in Reasons
    BY DEF Reasons
  <2> QED
    BY <1>4, <2>1, AskRainKeeps DEF ManualRefresh
<1>5. CASE RainReadTicket
  <2>1. CASE EndRainRun(rainRerun) /\ UNCHANGED throttled
    BY <1>5, <2>1, EndRainRunKeeps DEF RainReadTicket
  <2>2. CASE /\ rainPhase' = IF site \in Rainy THEN "reuse" ELSE "supersede"
             /\ rainRead' = site
             /\ UNCHANGED <<why, reading, rainRuns, rainRerun, throttled>>
    BY <1>5, <2>2 DEF RainReadTicket
  <2>3. CASE site \in Rainy /\ Consult(site)
    BY <1>5, <2>3, ConsultKeeps DEF RainReadTicket
  <2> QED
    BY <1>5, <2>1, <2>2, <2>3 DEF RainReadTicket
<1>6. CASE RainSupersede
  BY <1>6, EndRainRunKeeps DEF RainSupersede
<1>7. CASE Reuse
  <2>1. CASE EndRainRun(rainRerun) /\ UNCHANGED throttled
    BY <1>7, <2>1, EndRainRunKeeps DEF Reuse
  <2>2. CASE Consult(rainRead)
    BY <1>7, <2>2, ConsultKeeps DEF Reuse
  <2> QED
    BY <1>7, <2>1, <2>2 DEF Reuse
<1>8. CASE Answered
  <2>1. Pin[rainRead] \in Points
    BY <1>8 DEF Answered, Points
  <2> QED
    BY <1>8, <2>1 DEF Answered
<1>9. CASE CallFails
  BY <1>9 DEF CallFails
<1>10. CASE RecordRain
  <2>1. CASE UNCHANGED rain
    BY <1>10, <2>1, EndRainRunKeeps DEF RecordRain
  <2>2. CASE rain' = Recorded /\ EndRainRun(rainRerun)
    BY <1>10, <2>2, EndRainRunKeeps, RecordedOK DEF RecordRain
  <2> QED
    BY <1>10, <2>1, <2>2 DEF RecordRain
<1>11. CASE RainDatabaseError
  <2>1. rainFailures' \in 0 .. MaxFailures
    BY <1>11 DEF RainDatabaseError
  <2> QED
    BY <1>11, <2>1, EndRainRunKeeps DEF RainDatabaseError
<1>12. CASE RainRestart
  <2>1. 0 \in 0 .. (MaxRuns - 1) /\ rainFailures' \in 0 .. MaxFailures
    BY <1>12 DEF RainRestart
  <2> QED
    BY <1>12, <2>1 DEF RainRestart, Cleared, Reasons
<1>13. CASE MinutePasses
  BY <1>13 DEF MinutePasses, refresh
<1>14. CASE TenMinutesPass
  <2>1. CASE rain \in RainRow
    <3>1. rain' \in RainRow
      BY <1>14, <2>1 DEF TenMinutesPass, RainRow
    <3> QED
      BY <1>14, <3>1 DEF TenMinutesPass, refresh
  <2>2. CASE rain = NoRain
    <3>1. rain' = NoRain
      BY <1>14, <2>2 DEF TenMinutesPass, NoRain
    <3> QED
      BY <1>14, <3>1 DEF TenMinutesPass, refresh
  <2> QED
    BY <2>1, <2>2
<1>15. CASE UNCHANGED rainVars
  BY <1>15 DEF rainVars, refresh
<1> QED
  BY <1>1, <1>2, <1>3, <1>4, <1>5, <1>6, <1>7, <1>8, <1>9, <1>10, <1>11, <1>12, <1>13, <1>14, <1>15
     DEF RainNext, RainSteps

LEMMA RainInvInit ==
  ASSUME RainInit
  PROVE  RainIInv
<1>1. 0 \in 0 .. (MaxRuns - 1) /\ 0 \in 0 .. MaxFailures
  BY ContextAssumption
<1> QED
  BY <1>1 DEF RainInit, NewTicket, RainIInv, RainTypeOK, TicketOK, RainInFlightOK, Reasons

\* Type correctness: the run counter stays below MAX_RUNS, a row is a whole one.
THEOREM RainTypeCorrect == RainSpec => []RainTypeOK
<1>1. RainInit => RainIInv
  BY RainInvInit
<1>2. RainIInv /\ [RainNext]_rainVars => RainIInv'
  BY RainInvStep
<1>3. RainIInv => RainTypeOK
  BY DEF RainIInv
<1> QED
  BY <1>1, <1>2, <1>3, PTL DEF RainSpec

\* What one step does to the current row: nothing, supersede it, age it, or
\* record rainfall of the ticket's present pin, on an active ticket.
LEMMA RainRowStep ==
  ASSUME RainIInv, [RainNext]_rainVars
  PROVE  \/ UNCHANGED rain
         \/ rain' = NoRain /\ UNCHANGED ticket
         \/ rain' = [rain EXCEPT !.fresh = FALSE] /\ UNCHANGED ticket
         \/ /\ rain' = Recorded /\ UNCHANGED ticket
            /\ rainRead \in Sites /\ Pin[site] = Pin[rainRead]
            /\ site \in Rainy /\ ~merged /\ ~closed
<1>1. CASE RecordRain
  <2>1. rainRead \in Sites
    BY <1>1, RainfallAssumption DEF RainIInv, RainInFlightOK, RecordRain
  <2> QED
    BY <1>1, <2>1 DEF RecordRain
<1>2. CASE RainSupersede
  BY <1>2 DEF RainSupersede
<1>3. CASE TenMinutesPass
  BY <1>3 DEF TenMinutesPass
<1>4. CASE RainReadTicket \/ Reuse \/ Answered \/ CallFails
  BY <1>4 DEF RainReadTicket, Reuse, Answered, CallFails
<1>5. CASE \/ OpenTicket \/ AskRainIfDue \/ ManualRefresh \/ RainStatusChange
           \/ \E s \in Sites : RainCorrect(s)
  BY <1>5 DEF OpenTicket, AskRainIfDue, ManualRefresh, RainStatusChange, RainCorrect
<1>6. CASE RainDatabaseError \/ RainRestart \/ MinutePasses \/ UNCHANGED rainVars
  BY <1>6 DEF RainDatabaseError, RainRestart, MinutePasses, rainVars
<1> QED
  BY <1>1, <1>2, <1>3, <1>4, <1>5, <1>6 DEF RainNext, RainSteps

\* A failed call never takes the last value of a pin away.
THEOREM LastValueCorrect == RainSpec => LastValueKept
<1> DEFINE Kept == Valued /\ rain' # NoRain /\ rain'.pin = rain.pin
                   => rain'.status # "UNAVAILABLE"
<1>1. RainInit => RainIInv
  BY RainInvInit
<1>2. RainIInv /\ [RainNext]_rainVars => RainIInv'
  BY RainInvStep
<1>3. ASSUME RainIInv, [RainNext]_rainVars
      PROVE  [Kept]_rainVars
  <2>1. CASE UNCHANGED rain \/ rain' = NoRain
    BY <2>1 DEF Valued
  <2>2. CASE rain' = [rain EXCEPT !.fresh = FALSE]
    <3>1. rain \in RainRow \cup {NoRain}
      BY <1>3 DEF RainIInv, RainTypeOK
    <3> QED
      BY <2>2, <3>1 DEF Valued, RainRow, NoRain
  <2>3. CASE rain' = Recorded /\ rainRead \in Sites
    <3>1. Recorded.pin = Pin[rainRead]
      BY <1>3, <2>3, RecordedOK DEF RainIInv
    <3>2. rain \in RainRow \cup {NoRain}
      BY <1>3 DEF RainIInv, RainTypeOK
    <3> QED
      BY <2>3, <3>1, <3>2 DEF Recorded, Valued, RainRow, NoRain
  <2> QED
    BY <1>3, <2>1, <2>2, <2>3, RainRowStep
<1> QED
  BY <1>1, <1>2, <1>3, PTL DEF RainSpec, LastValueKept

\* The service implements the abstract context: initial states map to initial
\* states, and each step is a step of it or a stutter.
THEOREM RainfallRefines == RainSpec => RainfallImplementsContext
<1>1. RainInit => RainContext!Init
  BY DEF RainInit, RainContext!Init, RainContext!NewTicket, NewTicket, NoRain
<1>2. RainInit => RainIInv
  BY RainInvInit
<1>3. RainIInv /\ [RainNext]_rainVars => RainIInv'
  BY RainInvStep
<1>4. ASSUME RainIInv, [RainNext]_rainVars
      PROVE  [RainContext!Next]_<<RainContext!ticket, rain.pin>>
  <2> USE DEF RainContext!ticket, ticket
  <2>1. CASE rain' = NoRain /\ UNCHANGED ticket
    BY <2>1 DEF RainContext!Next, RainContext!Supersede, NoRain
  <2>2. CASE rain' = [rain EXCEPT !.fresh = FALSE] /\ UNCHANGED ticket
    <3>1. rain'.pin = rain.pin
      BY <1>4, <2>2 DEF RainIInv, RainTypeOK, RainRow, NoRain
    <3> QED
      BY <2>2, <3>1
  <2>3. CASE /\ rain' = Recorded /\ UNCHANGED ticket
             /\ rainRead \in Sites /\ Pin[site] = Pin[rainRead]
             /\ site \in Rainy /\ ~merged /\ ~closed
    <3>1. rain'.pin = Pin[site]
      BY <1>4, <2>3, RecordedOK DEF RainIInv
    <3> QED
      BY <2>3, <3>1 DEF RainContext!Next, RainContext!Record
  <2>4. CASE UNCHANGED rain
    <3>1. CASE UNCHANGED ticket
      BY <2>4, <3>1
    <3>2. ASSUME NEW s \in Sites, RainCorrect(s)
          PROVE  RainContext!Change
      BY <2>4, <3>2 DEF RainCorrect, CorrectTicket, RainContext!Change, RainContext!CorrectTicket
    <3>3. CASE RainStatusChange
      BY <2>4, <3>3 DEF RainStatusChange, ChangeStatus, CloseTicket, ReturnTicket,
         MergeTicketAway, RainContext!Change, RainContext!ChangeStatus, RainContext!CloseTicket,
         RainContext!ReturnTicket, RainContext!MergeTicketAway, RainContext!Next
    <3>4. \/ UNCHANGED ticket \/ RainStatusChange
          \/ \E s \in Sites : RainCorrect(s)
      BY <1>4 DEF RainNext, RainSteps, rainVars, OpenTicket, AskRainIfDue, ManualRefresh, RainReadTicket,
         RainSupersede, Reuse, Answered, CallFails, RecordRain, RainDatabaseError, RainRestart,
         MinutePasses, TenMinutesPass
    <3>5. CASE RainContext!Change
      BY <3>5 DEF RainContext!Next
    <3> QED
      BY <3>1, <3>2, <3>3, <3>4, <3>5 DEF RainContext!Next
  <2>5. \/ UNCHANGED rain
        \/ rain' = NoRain /\ UNCHANGED ticket
        \/ rain' = [rain EXCEPT !.fresh = FALSE] /\ UNCHANGED ticket
        \/ /\ rain' = Recorded /\ UNCHANGED ticket
           /\ rainRead \in Sites /\ Pin[site] = Pin[rainRead]
           /\ site \in Rainy /\ ~merged /\ ~closed
    BY <1>4, RainRowStep
  <2> QED
    BY <2>1, <2>2, <2>3, <2>4, <2>5, Zenon
<1> QED
  BY <1>1, <1>2, <1>3, <1>4, PTL
     DEF RainSpec, RainfallImplementsContext, RainContext!Spec
=============================================================================
