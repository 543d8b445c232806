---------------------------- MODULE RainfallContext ----------------------------
(***************************************************************************)
(* RainfallContextService (api/src/domain): the rainfall at one ticket's    *)
(* pin.  Opening Ticket Detail, a correction and the staff's Refresh each   *)
(* ask for a refresh; one runs at a time (inFlight).  It may be answered by  *)
(* the ticket's own row of the last ten minutes, by a reading another       *)
(* refresh took at the same point, or by the provider; the row is written   *)
(* after rechecking the ticket on its locked row.                           *)
(*                                                                         *)
(* A refused or late provider answer is a failure.  Time is what the code    *)
(* compares: whether 60 s or ten minutes have passed.  A refresh is taken    *)
(* to be over within ten minutes, a call (cut off after 5 s) within a minute. *)
(***************************************************************************)
EXTENDS ContextTicket

CONSTANTS
  Rainy,   \* the sites in a rainfall category
  Pin      \* a site's point; points that round to one cache key are one

ASSUME RainfallAssumption == Rainy \subseteq Sites /\ DOMAIN Pin = Sites

VARIABLES
  rain,         \* the ticket's row with superseded_at IS NULL, or NoRain
  rainPhase,    \* where the refresh in inFlight is, "idle" when there is none
  why,          \* the reason of its present run
  rainRead,     \* the site that run read
  reading,      \* what the cache or the provider answered
  rainRuns,     \* completed runs
  rainRerun,    \* the rerun set has the ticket
  cache,        \* points with a reading of the last ten minutes
  cooldown,     \* the last call failed within the last minute
  throttled,    \* refreshed or attempted within the last minute
  rainFailures, \* database errors and restarts so far
  looked,       \* flips each time staff open Ticket Detail
  rainDue       \* a view has found a refresh due, and is about to ask

refresh  == <<rainPhase, why, rainRead, reading, rainRuns, rainRerun>>
clocks   == <<cooldown, throttled>>
views    == <<looked, rainDue>>
rainVars == <<ticket, rain, refresh, cache, clocks, rainFailures, views>>

Points  == {Pin[s] : s \in Sites}
Reasons == {"detail", "correction", "manual"}

\* A CURRENT or STALE row has a value; UNAVAILABLE has none.  fresh: fetched_at
\* is less than ten minutes old.
RainRow == [pin : Points, status : {"CURRENT", "STALE", "UNAVAILABLE"}, fresh : BOOLEAN]
NoRain  == [pin |-> NoSite, status |-> "none", fresh |-> FALSE]
Valued  == rain.status \in {"CURRENT", "STALE"}

RainTypeOK ==
  /\ TicketOK
  /\ rain \in RainRow \cup {NoRain}
  /\ rainPhase \in {"idle", "read", "supersede", "reuse", "fetch", "record"}
  /\ why \in Reasons
  /\ rainRead \in Sites \cup {NoSite}
  /\ reading \in {"none", "ok", "failed"}
  /\ rainRuns \in 0 .. (MaxRuns - 1)
  /\ rainRerun \in BOOLEAN
  /\ cache \in SUBSET Points
  /\ cooldown \in BOOLEAN /\ throttled \in BOOLEAN
  /\ rainFailures \in 0 .. MaxFailures
  /\ looked \in BOOLEAN /\ rainDue \in BOOLEAN

(***************************************************************************)
(* refresh(): start one, or join the one that runs                         *)
(***************************************************************************)
\* What a run carries along is nothing at its start.
Cleared == rainRead' = NoSite /\ reading' = "none"

AskRain(reason) ==
  IF rainPhase = "idle"
  THEN /\ rainPhase' = "read" /\ why' = reason
       /\ rainRuns' = 0 /\ rainRerun' = FALSE /\ Cleared
  ELSE /\ rainRerun' = (rainRerun \/ reason = "correction")
       /\ UNCHANGED <<rainPhase, why, rainRead, reading, rainRuns>>

\* The end of one refreshOnce.  A re-run is for a changed ticket.
EndRainRun(again) ==
  /\ IF again /\ rainRuns + 1 < MaxRuns
     THEN rainPhase' = "read" /\ why' = "correction" /\ rainRuns' = rainRuns + 1
     ELSE rainPhase' = "idle" /\ why' = "detail" /\ rainRuns' = 0
  /\ rainRerun' = FALSE /\ Cleared

(***************************************************************************)
(* The ticket and staff                                                    *)
(***************************************************************************)
RainCorrect(s) ==
  /\ CorrectTicket(s)
  /\ AskRain("correction")
  /\ UNCHANGED <<rain, cache, clocks, rainFailures, views>>

RainStatusChange ==
  /\ ChangeStatus
  /\ UNCHANGED <<rain, refresh, cache, clocks, rainFailures, views>>

HasRain == rain # NoRain /\ rain.pin = Pin[site]

\* Seeded fault: any row counts, also one left behind at an old pin.
RefreshDueAnyRow == site \in Rainy /\ ~merged /\ ~closed /\ rain = NoRain

\* Seeded fault: a row that says UNAVAILABLE or STALE is left at that.
RefreshDueOnce == site \in Rainy /\ ~merged /\ ~closed /\ ~HasRain

\* isRefreshDue, on the row Ticket Detail shows.
RefreshDue ==
  /\ site \in Rainy /\ ~merged /\ ~closed
  /\ HasRain => ~rain.fresh

\* Requests that wait to ask at the same time are one.
OpenTicket ==
  /\ looked' = ~looked /\ rainDue' = (rainDue \/ RefreshDue)
  /\ UNCHANGED <<ticket, rain, refresh, cache, clocks, rainFailures>>

\* Meanwhile the ticket may be corrected, closed or merged away.
AskRainIfDue ==
  /\ rainDue /\ rainDue' = FALSE
  /\ AskRain("detail")
  /\ UNCHANGED <<ticket, rain, cache, clocks, rainFailures, looked>>

\* Staff Refresh.  It checks the ticket, then waits for the row's fetched_at:
\* by the time it asks, the ticket may be corrected, closed or merged away.
ManualRefresh ==
  /\ ~throttled /\ throttled' = TRUE
  /\ AskRain("manual")
  /\ UNCHANGED <<ticket, rain, cache, cooldown, rainFailures, views>>

(***************************************************************************)
(* refreshOnce()                                                           *)
(***************************************************************************)
\* The cache answers at once, unless staff asked; else the provider is called.
Consult(s) ==
  /\ rainRead' = s
  /\ \/ /\ why # "manual" /\ Pin[s] \in cache
        /\ rainPhase' = "record" /\ reading' = "ok"
        /\ UNCHANGED throttled
     \/ /\ why = "manual" \/ Pin[s] \notin cache
        /\ rainPhase' = "fetch" /\ reading' = "none"
        /\ throttled' = TRUE
  /\ UNCHANGED <<why, rainRuns, rainRerun>>

RainReadTicket ==
  /\ rainPhase = "read"
  /\ \/ /\ merged \/ closed
        /\ EndRainRun(rainRerun) /\ UNCHANGED throttled
     \/ /\ ~merged /\ ~closed /\ (site \notin Rainy \/ why = "detail")
        /\ rainPhase' = IF site \in Rainy THEN "reuse" ELSE "supersede"
        /\ rainRead' = site
        /\ UNCHANGED <<why, reading, rainRuns, rainRerun, throttled>>
     \/ /\ ~merged /\ ~closed /\ site \in Rainy /\ why # "detail"
        /\ Consult(site)
  /\ UNCHANGED <<ticket, rain, cache, cooldown, rainFailures, views>>

\* No rainfall for the category that was read: supersede, without rechecking.
RainSupersede ==
  /\ rainPhase = "supersede"
  /\ rain' = NoRain
  /\ EndRainRun(rainRerun)
  /\ UNCHANGED <<ticket, cache, clocks, rainFailures, views>>

\* A detail refresh keeps the ticket's row of the last ten minutes, and does
\* not ask a provider that failed a minute ago.
Reuse ==
  /\ rainPhase = "reuse"
  /\ LET kept == rain.pin = Pin[rainRead] /\ rain.fresh IN
     \/ /\ kept \/ cooldown
        /\ EndRainRun(rainRerun) /\ UNCHANGED throttled
     \/ /\ ~kept /\ ~cooldown
        /\ Consult(rainRead)
  /\ UNCHANGED <<ticket, rain, cache, cooldown, rainFailures, views>>

\* fetchReading: an answer that parses, or a failure.
Answered ==
  /\ rainPhase = "fetch"
  /\ rainPhase' = "record" /\ reading' = "ok"
  /\ cache' = cache \cup {Pin[rainRead]} /\ cooldown' = FALSE
  /\ UNCHANGED <<ticket, rain, why, rainRead, rainRuns, rainRerun, throttled, rainFailures, views>>

CallFails ==
  /\ rainPhase = "fetch"
  /\ rainPhase' = "record" /\ reading' = "failed" /\ cooldown' = TRUE
  /\ UNCHANGED <<ticket, rain, why, rainRead, rainRuns, rainRerun, cache, throttled, rainFailures, views>>

\* Seeded fault: a value older than ten minutes is not worth keeping.
RecordedIfFresh ==
  LET pin == Pin[rainRead] IN
  IF reading = "ok" THEN [pin |-> pin, status |-> "CURRENT", fresh |-> TRUE]
  ELSE IF Valued /\ rain.pin = pin /\ rain.fresh THEN [rain EXCEPT !.status = "STALE"]
  ELSE [pin |-> pin, status |-> "UNAVAILABLE", fresh |-> TRUE]

\* The row the transaction leaves: the reading; else the last value for this
\* pin, as STALE (in place, or as a copy after a correction); else no value.
Recorded ==
  LET pin == Pin[rainRead] IN
  IF reading = "ok" THEN [pin |-> pin, status |-> "CURRENT", fresh |-> TRUE]
  ELSE IF Valued /\ rain.pin = pin THEN [rain EXCEPT !.status = "STALE"]
  ELSE [pin |-> pin, status |-> "UNAVAILABLE", fresh |-> TRUE]

\* Seeded fault: what was in flight is recorded without looking at the ticket.
RecordRainUnchecked ==
  /\ rainPhase = "record"
  /\ rain' = Recorded
  /\ EndRainRun(rainRerun)
  /\ UNCHANGED <<ticket, cache, clocks, rainFailures, views>>

\* The recording transaction, on the locked ticket row.
RecordRain ==
  /\ rainPhase = "record"
  /\ \/ /\ merged \/ closed
        /\ EndRainRun(rainRerun) /\ UNCHANGED rain
     \/ /\ ~merged /\ ~closed /\ (site \notin Rainy \/ Pin[site] # Pin[rainRead])
        /\ EndRainRun(TRUE) /\ UNCHANGED rain
     \/ /\ ~merged /\ ~closed /\ site \in Rainy /\ Pin[site] = Pin[rainRead]
        /\ rain' = Recorded
        /\ EndRainRun(rainRerun)
  /\ UNCHANGED <<ticket, cache, clocks, rainFailures, views>>

\* A statement of refreshOnce throws: caught, logged, the run ends.
RainDatabaseError ==
  /\ rainPhase \in {"read", "supersede", "reuse", "record"} /\ rainFailures < MaxFailures
  /\ rainFailures' = rainFailures + 1
  /\ EndRainRun(rainRerun)
  /\ UNCHANGED <<ticket, rain, cache, clocks, views>>

\* The process restarts: all its maps are lost.  The throttle also looks at
\* the rows' fetched_at, if the attempt left a row.
RainRestart ==
  /\ rainFailures < MaxFailures
  /\ rainFailures' = rainFailures + 1
  /\ rainPhase' = "idle" /\ why' = "detail" /\ rainRuns' = 0 /\ rainRerun' = FALSE /\ Cleared
  /\ cache' = {} /\ cooldown' = FALSE
  /\ throttled' \in {FALSE, throttled}
  /\ rainDue' = FALSE
  /\ UNCHANGED <<ticket, rain, looked>>

(***************************************************************************)
(* Time                                                                    *)
(***************************************************************************)
MinutePasses ==
  /\ rainPhase # "fetch"
  /\ cooldown' = FALSE /\ throttled' = FALSE
  /\ UNCHANGED <<ticket, rain, refresh, cache, rainFailures, views>>

TenMinutesPass ==
  /\ rainPhase = "idle" /\ ~rainDue
  /\ cooldown' = FALSE /\ throttled' = FALSE /\ cache' = {}
  /\ rain' = [rain EXCEPT !.fresh = FALSE]
  /\ UNCHANGED <<ticket, refresh, rainFailures, views>>

(***************************************************************************)
(* Specification                                                           *)
(***************************************************************************)
\* A new ticket: nothing asks for its rainfall before staff open it.
RainInit ==
  /\ NewTicket
  /\ rain = NoRain
  /\ rainPhase = "idle" /\ why = "detail"
  /\ rainRead = NoSite /\ reading = "none"
  /\ rainRuns = 0 /\ rainRerun = FALSE
  /\ cache = {}
  /\ cooldown = FALSE /\ throttled = FALSE
  /\ rainFailures = 0 /\ looked = FALSE /\ rainDue = FALSE

RainSteps ==
  RainReadTicket \/ RainSupersede \/ Reuse \/ Answered \/ CallFails \/ RecordRain

RainNext ==
  \/ \E s \in Sites : RainCorrect(s)
  \/ RainStatusChange
  \/ OpenTicket \/ AskRainIfDue \/ ManualRefresh
  \/ RainSteps
  \/ RainDatabaseError \/ RainRestart
  \/ MinutePasses \/ TenMinutesPass

\* The event loop goes on, a call has its timeout, and time passes, also
\* between one refresh and the next.
RainFairness ==
  /\ WF_rainVars(RainSteps) /\ WF_rainVars(AskRainIfDue)
  /\ WF_rainVars(MinutePasses) /\ SF_rainVars(TenMinutesPass)

RainSpec == RainInit /\ [][RainNext]_rainVars /\ RainFairness

(***************************************************************************)
(* Properties                                                              *)
(***************************************************************************)
\* The current row, as a context of the ticket: what it is about is the pin.
RainContext == INSTANCE TicketContext WITH
  Place    <- Pin,
  Covered  <- Rainy,
  Nothing  <- NoSite,
  OnClosed <- FALSE,
  context  <- rain.pin

\* A refresh, however late and however often the ticket is corrected, closed
\* or merged meanwhile, records only rainfall of the ticket's present pin, and
\* only on an active ticket.
RainfallImplementsContext == RainContext!Spec

\* A failed call never takes the last value of a pin away: what replaces a row
\* with a value, at the same pin, has a value.
LastValueKept ==
  [][Valued /\ rain' # NoRain /\ rain'.pin = rain.pin => rain'.status # "UNAVAILABLE"]_rainVars

Inapplicable == site \notin Rainy \/ merged \/ closed

\* Once nothing changes the ticket, and staff keep opening it, it has a row for
\* its pin: neither the cooldown, nor a dropped re-run, an error or a restart
\* leaves it "not yet fetched".
SettledTicketHasRainfall ==
  /\ <>[][UNCHANGED ticket]_rainVars
  /\ []<><<OpenTicket>>_rainVars
  => <>[](Inapplicable \/ HasRain)

\* When the provider works again, a ticket that staff keep opening gets a
\* reading again: no failure is remembered for good.
RainfallRecovers ==
  /\ <>[][UNCHANGED ticket /\ ~CallFails]_rainVars
  /\ []<><<OpenTicket>>_rainVars
  => []<>(Inapplicable \/ (HasRain /\ rain.status = "CURRENT"))
=============================================================================
