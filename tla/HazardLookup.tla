----------------------------- MODULE HazardLookup -----------------------------
(***************************************************************************)
(* HazardInformationService (api/src/domain): the DENR-MGB lookup of one    *)
(* ticket.  Corrections, Ticket Detail and Retry ask for a lookup; one runs *)
(* at a time (inFlight), it reads the ticket, asks the layer, and records   *)
(* the answer after rechecking the ticket on its locked row.  A correction  *)
(* that arrives meanwhile asks for one more run, up to MAX_RUNS.            *)
(*                                                                         *)
(* The API is one long-lived process, so between two awaits nothing else   *)
(* of it runs: each stretch from one await to the next is one action.      *)
(* A deployment with the lookup switched off is left out.                  *)
(***************************************************************************)
EXTENDS ContextTicket

CONSTANTS
  Layer         \* the MGB layer of a site's category, "none" if it has none

ASSUME HazardAssumption == Layer \in [Sites -> {"FLOOD", "RAIN_INDUCED_LANDSLIDE", "none"}]

VARIABLES
  current,   \* the ticket's row with superseded_at IS NULL, or NoRow
  phase,     \* where the lookup in inFlight is, "idle" when there is none
  read,      \* the site that lookup read
  answer,    \* what the layer answered
  runs,      \* completed runs of it
  rerun,     \* the rerun set has the ticket
  failures,  \* database errors and restarts so far
  opened,    \* flips each time staff open Ticket Detail
  due        \* a view or a Retry has found a lookup due, and is about to ask

lookup == <<phase, read, answer, runs, rerun>>
detail == <<opened, due>>
vars   == <<ticket, lookup, current, failures, detail>>

Answers == {"CLASSIFIED", "NO_CLASSIFICATION", "TEMPORARILY_UNAVAILABLE"}
Row     == [site : Sites, answer : Answers]
NoRow   == [site |-> NoSite, answer |-> "none"]
Phases  == {"idle", "read", "supersede", "query", "record"}

TypeOK ==
  /\ TicketOK
  /\ current \in Row \cup {NoRow}
  /\ phase \in Phases
  /\ read \in Sites \cup {NoSite}
  /\ answer \in Answers \cup {"none"}
  /\ runs \in 0 .. (MaxRuns - 1)
  /\ rerun \in BOOLEAN
  /\ failures \in 0 .. MaxFailures
  /\ opened \in BOOLEAN /\ due \in BOOLEAN

(***************************************************************************)
(* lookup(): start one, or ask the running one for one more run            *)
(***************************************************************************)
Start == /\ phase' = "read" /\ runs' = 0 /\ rerun' = FALSE
         /\ read' = NoSite /\ answer' = "none"

Ask(rerunIfInFlight) ==
  IF phase = "idle" THEN Start
  ELSE /\ rerun' = (rerun \/ rerunIfInFlight)
       /\ UNCHANGED <<phase, read, answer, runs>>

\* Seeded fault: the loop has no MAX_RUNS.
EndRunForever(again) ==
  /\ runs' = runs
  /\ phase' = IF again THEN "read" ELSE "idle"
  /\ rerun' = FALSE /\ read' = NoSite /\ answer' = "none"

\* Seeded fault: one run too many.
EndRunOneMore(again) ==
  /\ IF again /\ runs < MaxRuns THEN phase' = "read" /\ runs' = runs + 1
                                ELSE phase' = "idle" /\ runs' = 0
  /\ rerun' = FALSE /\ read' = NoSite /\ answer' = "none"

\* The end of one lookupOnce: run again if asked to, else leave inFlight.
EndRun(again) ==
  /\ IF again /\ runs + 1 < MaxRuns THEN phase' = "read" /\ runs' = runs + 1
                                    ELSE phase' = "idle" /\ runs' = 0
  /\ rerun' = FALSE /\ read' = NoSite /\ answer' = "none"

(***************************************************************************)
(* The ticket                                                              *)
(***************************************************************************)
\* A category or location correction, and the trigger after its commit.
Correct(s) ==
  /\ CorrectTicket(s)
  /\ Ask(TRUE)
  /\ UNCHANGED <<current, failures, detail>>

\* Nothing of the lookup is triggered by these.
Close     == CloseTicket /\ UNCHANGED <<lookup, current, failures, detail>>
Return    == ReturnTicket /\ UNCHANGED <<lookup, current, failures, detail>>
MergeAway == MergeTicketAway /\ UNCHANGED <<lookup, current, failures, detail>>

(***************************************************************************)
(* Staff                                                                   *)
(***************************************************************************)
HasCurrent == current # NoRow /\ current.site = site

\* Seeded fault: any row that is not superseded counts as the current one.
AutoRetryDueIfNoRow ==
  Layer[site] # "none" /\ ~merged /\ ~closed /\ current = NoRow

\* isAutoRetryDue; the ten minutes an unavailable row must be old have
\* always passed.
AutoRetryDue ==
  /\ Layer[site] # "none" /\ ~merged /\ ~closed
  /\ HasCurrent => current.answer = "TEMPORARILY_UNAVAILABLE"

\* The view is read; then, if it says so, the lookup is asked for.  Requests
\* that wait to ask at the same time are one.
OpenDetail ==
  /\ opened' = ~opened /\ due' = (due \/ AutoRetryDue)
  /\ UNCHANGED <<ticket, lookup, current, failures>>

\* Staff Retry, past its 60 s throttle, which is another read.
Retry ==
  /\ ~merged /\ ~closed /\ Layer[site] # "none"
  /\ due' = TRUE
  /\ UNCHANGED <<ticket, lookup, current, failures, opened>>

\* Meanwhile the ticket may be corrected, closed or merged away.
AskIfDue ==
  /\ due /\ due' = FALSE
  /\ Ask(FALSE)
  /\ UNCHANGED <<ticket, current, failures, opened>>

(***************************************************************************)
(* lookupOnce()                                                            *)
(***************************************************************************)
ReadTicket ==
  /\ phase = "read"
  /\ \/ merged /\ EndRun(rerun)
     \/ /\ ~merged
        /\ phase' = IF Layer[site] = "none" THEN "supersede" ELSE "query"
        /\ read' = site
        /\ UNCHANGED <<answer, runs, rerun>>
  /\ UNCHANGED <<ticket, current, failures, detail>>

\* No layer for the category: supersede the row, without rechecking.
Supersede ==
  /\ phase = "supersede"
  /\ current' = NoRow
  /\ EndRun(rerun)
  /\ UNCHANGED <<ticket, failures, detail>>

\* queryLayer: an answer, or TEMPORARILY_UNAVAILABLE after 8 s at the latest.
AnswerArrives(a) ==
  /\ phase = "query"
  /\ phase' = "record" /\ answer' = a
  /\ UNCHANGED <<ticket, read, runs, rerun, current, failures, detail>>

\* Seeded fault: the row is written without looking at the ticket again.
RecordUnchecked ==
  /\ phase = "record"
  /\ current' = [site |-> read, answer |-> answer]
  /\ EndRun(rerun)
  /\ UNCHANGED <<ticket, failures, detail>>

\* The recording transaction, on the locked ticket row.
Record ==
  /\ phase = "record"
  /\ \/ merged /\ EndRun(rerun) /\ UNCHANGED current
     \/ ~merged /\ site # read /\ EndRun(TRUE) /\ UNCHANGED current
     \/ /\ ~merged /\ site = read
        /\ current' = [site |-> read, answer |-> answer]
        /\ EndRun(rerun)
  /\ UNCHANGED <<ticket, failures, detail>>

\* Any statement of lookupOnce throws: caught, logged, the run ends.
DatabaseError ==
  /\ phase \in {"read", "supersede", "record"} /\ failures < MaxFailures
  /\ failures' = failures + 1
  /\ EndRun(rerun)
  /\ UNCHANGED <<ticket, current, detail>>

\* The process restarts: inFlight and rerun are lost.
Restart ==
  /\ failures < MaxFailures
  /\ failures' = failures + 1
  /\ phase' = "idle" /\ runs' = 0 /\ rerun' = FALSE /\ read' = NoSite /\ answer' = "none"
  /\ due' = FALSE
  /\ UNCHANGED <<ticket, current, opened>>

(***************************************************************************)
(* Specification                                                           *)
(***************************************************************************)
\* A new ticket; triggerForNewTicket has run if its category has a layer.
Blank ==
  /\ current = NoRow
  /\ read = NoSite /\ answer = "none"
  /\ runs = 0 /\ rerun = FALSE
  /\ failures = 0 /\ opened = FALSE /\ due = FALSE

Init ==
  /\ NewTicket
  /\ Blank
  /\ phase = IF Layer[site] = "none" THEN "idle" ELSE "read"

Steps == ReadTicket \/ Supersede \/ (\E a \in Answers : AnswerArrives(a)) \/ Record

Next ==
  \/ \E s \in Sites : Correct(s)
  \/ Close \/ Return \/ MergeAway
  \/ OpenDetail \/ Retry \/ AskIfDue
  \/ Steps
  \/ DatabaseError \/ Restart

\* The event loop keeps running a lookup: every await of it is answered, the
\* request to the layer within its timeout; a request goes on after its read.
Spec == Init /\ [][Next]_vars /\ WF_vars(Steps) /\ WF_vars(AskIfDue)

(***************************************************************************)
(* Properties                                                              *)
(***************************************************************************)
\* The current row, as a context of the ticket.  A lookup that is out when
\* the ticket closes still records (OnClosed).
HazardContext == INSTANCE TicketContext WITH
  Place    <- [s \in Sites |-> s],
  Covered  <- {s \in Sites : Layer[s] # "none"},
  Nothing  <- NoSite,
  OnClosed <- TRUE,
  context  <- current.site

\* However a lookup interleaves with corrections, merges, errors and restarts,
\* what it records is for the category and pin the ticket has at that time,
\* and nothing is recorded on a merged-away ticket: no late answer of an old
\* pin becomes the current row.
HazardImplementsContext == HazardContext!Spec

\* Every lookup ends, however often the ticket is corrected meanwhile: the
\* staff member waiting in retry() gets an answer.
LookupEnds == phase # "idle" ~> phase = "idle"

\* Once nothing changes the ticket, and staff keep opening it, an active
\* ticket of an applicable category has a row for its present site: no
\* dropped rerun, error or restart leaves it "Not yet checked" for good.
SettledTicketIsChecked ==
  /\ <>[][UNCHANGED ticket]_vars
  /\ []<><<OpenDetail>>_vars
  => <>[](Layer[site] = "none" \/ merged \/ closed \/ HasCurrent)
=============================================================================
