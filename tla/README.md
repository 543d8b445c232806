# Porac SDSS in TLA+

TLA+ modules, TLC configurations and TLAPS proofs for the API of the Porac
Smart Decision Support System (`src/api/src`): the NestJS service in which
citizens file hazard reports, reports are gathered into tickets, and the two
municipal offices (MEO, MDRRMO) and Focal Personnel work them off.  The state
that matters is in PostgreSQL; the API processes keep almost nothing between
requests, so the interleavings that matter are those of transactions and of
the reads a handler makes before its transaction.  The staff's list screens, the
one part of the web client (`src/components`) that decides something on a list
that may be out of date, are modelled too.

## 1. The system: parts, state, operations

| Part | State | Operations that change it | What is hard | What makes it correct |
|---|---|---|---|---|
| Ticket lifecycle (`admin/tickets.service.ts`, `ticket-resolution.rules.ts`, `ticket-routing.rules.ts`) | `tickets.status`, `assigned_office`, the resolution record, `status_history`, `routing_actions` | advance, resolve, return to review, reject, reassign, refer, bulk forms | two handlers write after an unlocked read; three decide on a count taken from the snapshot of the statement that waits for the row lock | status climbs one rung at a time, a resolution record exists exactly while Resolved, a referral outcome is backed by a referral |
| Work orders (`admin/work-orders.service.ts`, `work-order.rules.ts`) | `work_orders` and their history | create, edit, set status, cancel with replacement | each locks the work order, then the ticket; create only locks the ticket | final states are final, replacement chains end, nothing on a Rejected or merged-away ticket |
| Operational assessment (`admin/operational-assessment.service.ts`) | one row per ticket | save | the ticket may close or be merged away while it is filled in | an assessment precedes the first work order |
| Corrections (`admin/ticket-corrections.service.ts`) | ticket category, pin, office | correct category (may reassign), correct location | runs Reassign's rules inside its own transaction | as for routing |
| Grouping (`admin/ticket-grouping.service.ts`) | `reports.ticket_id`, `tickets.merged_into_ticket_id`, member counts | merge, remove a report, regroup a report | locks two tickets and a report | chains end, reports sit on live tickets, counts agree |
| Reports and feedback (`reports/reports.service.ts`) | `reports`, `resolution_feedback`, `tickets.disputed` and its timestamps | submit, confirm, dispute | submissions race each other and merges; feedback follows merge chains | one answer per citizen, a dispute is never lost |
| Focal intake (`admin/focal-intake.service.ts`) | acknowledgments, severity screenings | acknowledge, screen, reassign, refer | routes through a report's ticket read without a lock | acts on the ticket the report is on |
| Moderation (`admin/moderation.service.ts`) | `reports.moderation_status`, `tickets.flagged` | dismiss, quarantine | locks the report, then the ticket its UPDATE returned | one decision per report, its ticket flagged |
| Operational priority (`domain/operational-priority.service.ts`) | scores of active tickets | recalculate some, recalculate all | read, compute, UPDATE by id; locks every active ticket in no given order | the scores follow the tickets, also after passes that overtook one another |
| Hazard information (`domain/hazard-information.service.ts`) | one current lookup row per ticket, in-process `inFlight` and `rerun` | lookup (new ticket, correction, Ticket Detail), Retry | reruns, superseded rows, a process that forgets | what is recorded is for the present pin and category |
| System administrators (`admin/admins.service.ts`) | `admins.account_type`, `is_active` | update, activate, deactivate | two removals, each counting the other's account | an active System Administrator remains |
| Rainfall context (`domain/rainfall-context.service.ts`) | one current row per ticket, in-process `inFlight`, `rerun`, cooldown, throttle and cache | refresh on detail, on correction, by staff | a late reading after a correction, a close or a merge; failures that must not be remembered for good | recorded for the present pin on an active ticket; a failed call keeps the last value as stale |
| Rate limits (`domain/ratelimit.service.ts`) | five tables of events | check, record, delete an email's failures, clean up | check and record are apart, a submission's by the photo's upload | a limit is passed by the requests that raced it, never by more |
| Staff sessions (`auth/session.service.ts`, `auth.service.ts`) | stateless tokens, `admins.session_valid_after` | login, logout, password change and reset, deactivate, change of authority | a token tells whole seconds, the cutoff milliseconds | a session signed after the cutoff works |
| Citizens' logins (`citizens/account.service.ts`, `citizens/password-reset.service.ts`, `auth/oauth/*`) | `citizens.password_hash`, `citizen_identities`, reset links | sign up, Google login, link, unlink, set or reset a password | what remains after an unlink is counted in reads of their own, without a lock | a citizen keeps a way to sign in |
| The staff's lists (`components/features/admin/tickets`, `.../flagged`) | filters, rows, selection, requests under way | filter, search, view, tick, bulk action | answers out of order, a debounce that fires late, rows that moved | the rows shown answer the filters shown |
| Citizen and staff profiles | account rows | edits of one's own row | none | - |
| Notifications, email | notices | written in or after the transactions | best effort, none is read back | - |
| Read models, exports, media, barangay lookup, the other screens | none of their own | queries, I/O | none | - |

The components share rows rather than call one another: a correction runs
Reassign's rules in its own transaction and then asks for a lookup; every
grouping action, submission and staff read recalculates priorities after its
commit; Focal intake reaches a ticket through one of its reports.

## 2. The modules

| Module | Models | Composes | Checked by | Proved in |
|---|---|---|---|---|
| `StatusLadder` | what the API promises of a ticket's status and outcome, whatever requests race | - | (abstract specification) | - |
| `TicketLifecycle` | one ticket row's life: ladder, resolve, return, reject, route, correct, merge, assessment, Work Orders | instantiates `StatusLadder` | `lifecycle`, `merge`, `stale_resolve`, `merged_away` | `TicketLifecycleProofs` |
| `ReportGrouping` | which report is on which ticket: submit, merge, remove, regroup, moderate | - | `grouping` | `ReportGroupingProofs` |
| `FocalIntake` | acknowledgment and severity screening | extends `ReportGrouping` | `reports`, `ack_race` | `ReportsProofs` |
| `ResolutionFeedback` | confirm and dispute | extends `ReportGrouping` | `reports` | `ReportsProofs` |
| `RowLocks` | the order in which grouping, moderation and recalculation lock rows | - | `queues`, `lock_cycle` | `RowLocksProofs` |
| `PriorityRecalculation` | the inputs, the medians and the index of Operational Priority; passes that overtake one another or fail | - | `queues` | `PriorityRecalculationProofs` |
| `ContextTicket` | the ticket as the two context services see it | - | (part of the next three) | - |
| `TicketContext` | what a context service promises of the row it shows | extends `ContextTicket` | (abstract specification) | - |
| `HazardLookup` | the hazard lookup of one ticket | extends `ContextTicket`, instantiates `TicketContext` | `ticket_contexts` | `TicketContextsProofs` |
| `RainfallContext` | the rainfall refresh of one ticket | extends `ContextTicket`, instantiates `TicketContext` | `ticket_contexts` | `TicketContextsProofs` |
| `AdminAccounts` | who is an active System Administrator | - | `accounts` | `AccountsProofs` |
| `StaffSessions` | one staff account and the tokens signed for it | - | `accounts` | `AccountsProofs` |
| `CitizenLogins` | passwords, linked Google accounts, reset links | - | `accounts` | `AccountsProofs` |
| `RateLimits` | events counted, recorded, deleted | - | `accounts` | `AccountsProofs` |
| `ListScreen` | the Ticket Queue and the Flagged Reports in the browser | - | `queues`, `unseen_bulk` | `ListScreenProofs` |

The modules were written with the ticket first: it is where most handlers meet,
and where two of them write after a read that locked nothing.  `MC*` modules
give the constants their values and name the symmetric sets.  Four of them
(`MCReports`, `MCTicketContexts`, `MCQueues`, `MCAccounts`) check several modules in
one run: an initial choice (`who`, `service`, `part`) says which module a behaviour
follows, and the others stand still.  Modules put together this way share no
state their actions read, or only the ticket, so that nothing is lost by not
interleaving them, and the run's states are those of its parts added, not
multiplied.

### How a handler becomes actions

PostgreSQL runs the transactions at READ COMMITTED, and the whole faithfulness
of the models is in what that does to a handler:

- A handler that locks its rows first and reads what it decides on afterwards
  is **one action**: from its last lock to its commit nobody else can change
  what it has read.  Work Orders, merges, corrections, returns and assessments
  are of this kind.
- A handler that reads first and writes later is **two actions** with a request
  in flight (`req`) between them: `advanceStatus` and `rejectTicket`
  (`ReadForAdvance`/`CommitAdvance`, `ReadForReject`/`CommitReject`), `Remove`
  and `Regroup` (`ReadForMove`), the answers of citizens (`ReadOwnTicket`,
  `FollowMerges`).
- `SELECT ... FOR UPDATE` that waits re-reads **only the locked row** when it
  goes on; its subqueries and the other tables of its join keep the snapshot of
  the statement's start.  So the locking reads of `resolveTicket`,
  `lockForRouting`, `acknowledge`, `screenSeverity` and `answerResolution` have a
  `Snapshot...` action before the action that commits, and the commit uses the
  current value of the locked row and the snapshot's value of the rest.
- An `UPDATE` with a `WHERE` checks it again on the row it locks: the guard of
  `CommitAdvance` is the statement's `AND status = ...` and nothing more; the
  one of `CommitReject` is only `WHERE id`, with the CHECK constraints of
  `drizzle/0046_resolution_record.sql` (`RowAllowed`).
- A handler may fail at any of its steps (`RequestFails`, `FocalRequestFails`,
  `AnswerFails`, `PassFails`, `FetchFails`): a block that has come up, a lost
  connection, a deadlock.  Its transaction rolls back, so only the request is gone.
- A service that keeps a promise in memory (`inFlight`) is a phase variable, one
  action per `await`; a restart (`Restart`, `RainRestart`) forgets it with all its
  other maps.  A view is read (`OpenDetail`, `OpenTicket`) before the service is
  asked (`AskIfDue`, `AskRainIfDue`): the ticket may change in between.
- A component of the browser takes one step per event: a render and the effects
  it runs are one action, as React runs them; answers come in any order.

| Variable | Code |
|---|---|
| `status`, `outcome`, `office`, `category`, `mergedInto` | columns of `tickets` |
| `resolvedAt`, `assessed` | that `tickets.resolved_at`, or an Operational Assessment with conditions, is there |
| `referred`, `latestRouting` | rows of `routing_actions`, as far as a guard reads them |
| `workTicket`, `workStatus`, `replacement` | `work_orders` |
| `at`, `held` | `reports.ticket_id`, `reports.moderation_status` |
| `into`, `count`, `flagged`, `kind` | `merged_into_ticket_id`, `member_count`, `flagged`, and the category with the office, which the grouping rules only compare |
| `acked`, `seen`, `answers`, the mirrored columns | `acknowledgments`, the reports' acknowledgment, `resolution_feedback`, `tickets.disputed`... |
| `current`, `phase`, `runs`, `rerun` | `ticket_hazard_information` with `superseded_at IS NULL`, the promise in `inFlight`, `lookup()`'s loop counter, `rerun` |
| `rain`, `rainPhase`, `rainRuns`, `rainRerun`, `cache`, `cooldown`, `throttled` | the same of `ticket_rainfall_context`, and the maps of `RainfallContextService`; a time becomes whether its 60 s or ten minutes are over |
| `due`, `rainDue` | a request that has read its view and will `trigger` next |
| `site` | category and pin of the ticket, as far as a context depends on them |
| `filedOn`, `standing`, `area`, `priority`, `pass` | `reports.ticket_id`, status and merge, `barangay_id`, `priority_index`, and a running `recalculateActiveTickets` with what it has read |
| `tx`, `at`, `last`, `merged` | the open transactions with the rows they hold and will lock; `reports.ticket_id`; the last id of `tickets`, and which tickets are merged away |
| `account`, `sessions`, `asked` | the row of `admins`, the tokens that exist, the requests between their stamp and their commit |
| `citizens`, `withPassword`, `identity`, `resetLinks`, `call` | `citizens`, `password_hash`, `citizen_identities`, `password_reset_tokens`, the requests in flight |
| `recorded`, `old`, `asking` | rows of one event table, told apart by sender, place, age and a number; rows past the retention; the requests in flight |
| `query`, `typed`, `debounce`, `shown`, `fetch`, `live`, `selected`, `bulk`, `busy` | the workspace's state, the timer of the search box, and the effect's `cancelled` flags (`live` is the one request not cancelled); the bulk and row actions under way and `bulkBusy` |
| `sysAdmin`, `active` | columns of `admins` |

Definitions marked "Seeded fault" are plausible mistakes in the code a
definition models; nothing of the specifications uses them.  Putting one in the
place of its original makes the property named with it in `PROJECT.json` fail.

## 3. The plan, and what is left of it

Done: the tickets and their reports (`TicketLifecycle`, `ReportGrouping`,
`FocalIntake`, `ResolutionFeedback`), what runs beside them (`RowLocks`,
`PriorityRecalculation`, the two contexts over one abstract specification), the
accounts (`AdminAccounts`, `StaffSessions`, `CitizenLogins`, `RateLimits`) and the
staff's lists (`ListScreen`); proofs of every safety property the runs check, and
of what the runs do not state but their modules owe: that the answers and the
intake leave grouping alone, that the chain of merges is followed rightly, that a
priority is on its scale.

Left, the most important first:

1. Work Order assignees and due dates, with accounts that are deactivated or
   change office meanwhile (section 6).
2. The notification center, whose further pages are appended to whatever list is
   there when they arrive (section 6).
3. A run of moves alone, without moderation: it has room for the fourth ticket
   `grouping` leaves out.
4. Proofs from the fairness of `LookupEnds` and `PrioritiesSettle` have no prover;
   what can still be proved of them is that what they lead to is never undone, as
   `PassesKeepOrder` does for priorities.

## 4. The runs

| Run | Question | Bounds |
|---|---|---|
| `lifecycle` | do status and outcome move only along the ladder, does the resolution record agree with the status, is a referral outcome backed, do replacement chains end, is a closed ticket's work frozen | one ticket, two Work Orders, two requests in flight, two categories (one of each office), one agency |
| `merge` | do merges never cycle and never strand open work | two tickets, one Work Order, one request |
| `grouping` | do counts and flags follow the reports, is no ticket emptied, is one moderation decision final | three tickets, three reports, two requests, both verdicts |
| `reports` | does a citizen answer once, on a Resolved ticket, and do the ticket's columns say what was answered; do acknowledgment and screening act on a ticket that is current and was checked | two tickets, three reports, two of them of one citizen, one move, two answers or one intake in flight, one merge followed |
| `ticket_contexts` | do lookup and refresh record only what is about the ticket as it is, do they end, is a settled ticket checked, is a value kept, does a provider that recovers get asked | four sites (two categories at one pin, one at another, one category without a context), `MAX_RUNS` as in the code, one error or restart |
| `queues` | are grouping transactions free of deadlock; do priorities settle; do the rows shown answer what is asked and does the screen come to rest | locks: two tickets with two reports and one, one more ticket that a removal creates, two transactions.  Priorities: two tickets, three reports of different severity, two barangays, two passes, two changes, one failure.  Screen: two rows, two tabs, two texts, two requests, two bulk or row actions at once, three clicks, one move by anybody, one loss |
| `accounts` | does an active System Administrator remain, does a new session work, does a citizen keep a way in, do limits hold | three accounts, two requests; two authorities, two instants to a second, two seconds; two citizens, two Google accounts of one address; two requests, a check of each kind, two places |
| `stale_resolve`, `merged_away`, `ack_race`, `lock_cycle`, `unseen_bulk` | what section 6 describes | the smallest that shows it |

Why these are enough.  The races are of two handlers over one ticket, or of one
handler with actions that are atomic, so two requests over one ticket meet every
pair; what needs two tickets (merges) has its own run.  Merges of three tickets
make a chain.  Three reports let a ticket with two lose both at once, to two
requests, and give a ticket an odd and an even number of severities.  `Kinds` is a
single one in the grouping runs: the rules refuse a move between tickets of
different category or office, so one kind is where most moves are allowed; the
proofs are for any set of kinds.  Three accounts let two removals each count one
account the other removes, and one that nobody does.  Two answers at once are
of two citizens, or of one through two reports, which may be on two tickets of which
one is merged into the other meanwhile; `MaxMergeHops` is 1 where the code has 10,
and the proofs are for any.  No moderation
starts where it cannot matter (beside the answers), and `LegacyTickets` in every run:
tickets resolved before outcomes were recorded are covered by the proofs, which
are for any set of them.  The recheck of `lockReport` matters only with a fourth
ticket (a report moved away to a ticket it is alone on, and then a new ticket):
that too is the proofs' (`CountsCorrect`, `NeverEmpty`).  Two instants to a second
are an instant at the second's start and one within it, which is all a comparison
of whole seconds tells apart.  The limits are 1, 2 or 3 and the windows one or two
units, so that two requests reach each of them and outlive it.

What is capped: `MaxFailures` the errors and restarts of the two contexts,
`MaxChanges` and `MaxFailedPasses` the changes of tickets and failures beside the
passes, `MaxClicks`, `MaxMoves` and `MaxLost` what happens to a screen, `Actions` its bulk and
row actions under way at once, `Fetches` its requests for a list, `LastTicket` the
tickets removals create, `LastTick` the clock.  Each role (a request, a transaction,
an answer, an intake) has one member per request in flight at once; a view of a
ticket that will ask for its context is a flag, since several that wait to ask are
answered as one.  Nothing else is.  Runs without liveness use the symmetry of tickets,
reports, Work Orders and requests; those with a `~>` or `<>[]` property use none.
Deadlock is checked in every run but `queues` and `unseen_bulk`, where a screen has
nothing left to do once its clicks are spent.

### Fairness

- `HazardLookup`, `RainfallContext`: weak fairness of the service's own steps.  The
  API is one long-lived process whose event loop goes on, and the request to the
  layer or the provider has a timeout, so each `await` is answered; a view that has
  been read and found a refresh due goes on to ask (`AskIfDue`, `AskRainIfDue`).  Of time, that
  minutes pass (weak) and that ten minutes pass between two refreshes if there
  are such moments again and again (strong).  Nothing is assumed of corrections,
  staff or errors: `SettledTicketIsChecked`, `SettledTicketHasRainfall` and
  `RainfallRecovers` have as a premise that staff keep opening the ticket, since
  the code repairs a lost lookup there and nowhere else, and the last one that
  calls stop failing.
- `PriorityRecalculation`: weak fairness of the steps of a pass, and of staff
  opening the queue, the map or the dashboard, each of which runs one.
- `ListScreen`: weak fairness of answers, of the timer and of the server's part of a
  bulk action.  A user need not click.
- The other specifications are safety only.

### What the properties are about

- `ImplementsLadder`: `TicketLifecycle` with its stale reads implements
  `StatusLadder`.  `advanceStatus` may write to a ticket that has been merged or
  reassigned since, `rejectTicket` to any, and the ladder still holds: by the
  guard on the status read, and by the CHECK constraints.
- `ReferralBacksOutcome`: the referral is counted in a snapshot older than the
  locked row; it holds because routing actions are only ever added.
- `MergedAwayHasNoOpenWork`, `MergeAcyclic`, `ReplacementsEnd`: readers follow
  `merged_into_ticket_id` and `replaced_by` with recursive queries.
- `CountsMatch`, `QuarantinedIsFlagged`, `NoTicketEmptied`,
  `ReportsOnCurrentTickets`: moves read the report's ticket before the
  transaction; a move of the report being quarantined must wait for it, or the
  flag lands on the ticket it has left.
- `AnswersAreFinal`, `MirrorMatchesAnswers`, `AnswersResolvedTickets`: the answer
  is given on a ticket found by following merges in two reads, and locked after; two
  answers of one citizen may reach one survivor from two tickets.
- `HazardImplementsContext`, `RainfallImplementsContext`: both services implement
  `TicketContext`.  The rainfall does so without recording on a closed ticket
  (`OnClosed` is FALSE), the lookup with it.
- `LastValueKept`, `RainfallRecovers`: the cooldown and the STALE rows are for a
  provider that fails; neither may cost a value or outlast the failure.
- `PrioritiesSettle`: passes read and write in separate statements, so an older one
  may overwrite a newer one's result; that is made good by the next pass, and by
  nothing else.
- `ShownIsAsked`, `ScreenSettles`: the effect's `cancelled` flags make a late answer
  harmless, also when a row's own action ends before a bulk action does, and every
  way to change the query either sets the search box or
  leaves its timer running.
- `AnAdministratorRemains`: `SELECT ... FOR UPDATE` returns the rows of its
  snapshot that still qualify once locked, so the count may be stale in one
  direction only.
- `NewSessionsWork`: the cutoff is rounded down to the second for staff, or whoever
  changes their password would be signed out by their own request.
- `AlwaysAWayIn`: an unlink reads the password, counts the identities and deletes in
  three statements; it holds because nothing takes a password away again.
- `LimitsHold`: what racing requests can exceed a limit by.
- `GroupingNeverDeadlocks`: of merge, remove and regroup among themselves.  It is not
  about the rest: `ActionsNeverDeadlock` is refuted (section 6), and moderation,
  which locks a report and then its ticket, can be in a cycle with a removal or
  a regroup, of which PostgreSQL aborts one; nothing tries it again.

## 5. What is proved

All theorems are for any number of tickets, reports, Work Orders, accounts,
citizens, transactions and requests, under the named assumptions of the modules:
the constants have their types, NULL is not a row (`LifecycleAssumption`,
`GroupingAssumption`, `FeedbackAssumption`, `LocksAssumption`, `ContextAssumption`,
`HazardAssumption`, `RainfallAssumption`, `AccountsAssumption`, `LoginAssumption`,
`SessionAssumption`, `LimitAssumption`, `ScreenAssumption`, `PriorityAssumption`),
sets that are counted are finite, and there is a barangay.  The bounds of the
models (`MaxChanges`, `MaxClicks`, `LastTick` and their like) are arbitrary in the
proofs.

- **`TicketLifecycleProofs`.**  `IInv` has `TypeOK` and the five invariants, and
  three parts that make them inductive: `RequestsOK` (what a request in flight
  still knows: a referral it has counted is still there), `WorkRowsOK` (a Work
  Order that exists belongs to a ticket, one that does not has none) and
  `LegacyStayResolved`.  Without
  `RequestsOK` a resolve could commit an outcome no referral backs.  From it:
  `TypeCorrect`, `ResolutionRecordCorrect`, `ReferralCorrect`, `MergeCorrect`,
  `MergedWorkCorrect`, `ReplacementCorrect`, `FreezeCorrect` (an action property),
  and `LadderCorrect`: the implementation of `StatusLadder`, by initial states and
  by one case per action, each a rung or a stutter.
- **`ReportGroupingProofs`.**  `IInv` adds `ModerationsHoldRows` (a moderation in
  flight holds its report's row, the report is where the moderation found it,
  and no second one holds it) and `UnusedUnmerged` (a ticket that does not
  exist yet is not merged away).  The first is why the flag always
  lands on the right ticket; the second, why a new ticket is a current one.
- **`ReportsProofs`.**  `FeedbackRefinesGrouping` and `FocalRefinesGrouping`: the
  citizens' answers and Focal intake implement `ReportGrouping`, so that its
  theorems hold beside them.  `AnswersAreFinal` and `MirrorMatchesAnswers` are
  inductive as they stand: `OnlyCommitsAnswer` says that nothing but one commit
  touches the answers and the mirror, `CommittedAnswer` what it leaves.  Both
  hold for chains of merges of any length, whatever the reads before the lock found.
  `SurvivorRule` and `SurvivorIsCurrent` are about the recursive query: its
  definition has a solution, and where a chain ends is a ticket of the table that
  is not merged away.  Both are by induction on the number of hops, as the least
  number that would be wrong (`LeastOf`, from the well-foundedness of `<`).
  `FeedbackRecordsCorrect` needs them: an answer is against a ticket of the table and
  of a citizen who filed a report, from its first read on (`FeedbackRecords`).
  `AcknowledgesCurrent` and `ScreensOnTicketRead` are the action properties of Focal
  intake, and `FocalRecordsCorrect` says what its records refer to: reports stay
  filed and tickets stay in the table (`FiledForGood`), so a snapshot may be stale
  about where a report is, never about whether it is.
- **`RowLocksProofs`.**  `IInv` says that a row is held once, and what each move and
  merge holds and will still lock at each of its stages (`MovesInOrder`,
  `MergesInOrder`).  A cycle of waits would have a transaction waiting for the
  highest ticket anybody waits for (`Highest`); whoever holds that one waits for a
  higher ticket or for a report.  Nobody waits for a report: one that holds a
  report and waits is a merge, which waits for reports of the ticket it holds
  itself, and so does whoever it waits for.
- **`TicketContextsProofs`.**  `InFlightOK` and `RainInFlightOK`
  say what a run in each phase knows; type correctness includes that the run
  counter stays below `MAX_RUNS`.  `HazardRefines` and `RainfallRefines` are the
  implementation of `TicketContext`, one case per action; `LastValueCorrect` is an
  action property.
- **`AccountsProofs`**, four parts.  *Administrators*: `LocksExclusive` (no row is held
  twice) and `CountedStillHeld` (what a SELECT returned is held and still is an
  active System Administrator): two transactions cannot both count an account the
  other one removes.  *Citizens*: `SeenPasswordsStay`, an unlink that saw a
  password, or is about to delete, still has it to rely on.  *Sessions*:
  `TokensTellTheirSecond` and `CutoffsArePast`, which covers the cutoffs still under
  way.  A later instant is in the same second or a later one (`SecondsInOrder`), for
  however fine a clock, hence `SessionsWork`; and since no cutoff is in the
  future, `SigningInWorks`: a token is good when it is signed.  *Limits*:
  `RacersBounded`, that what a window holds and the requests already let past its
  check together stay below the limit and one for each request.  A request is let
  past when the window is below its limit, which leaves room for all the others;
  recording moves one from the second number to the first, time and the deletions
  only lower the first.  `LimitsHold` is its part about the window.
- **`ListScreenProofs`.**  `OneLiveRequest`: the skeleton is there exactly while one
  request is not cancelled, and that one asks for the present filters, its rows
  being read after every bulk or row action that ended and after the rows shown.
  `BehindTheServer` says that nothing read is from the future, so a request sent
  when a bulk action ends cannot be answered with what was there before.  Hence
  `ScreenShowsWhatIsAsked`, and `ScreenNeverGoesBack`: rows shown are never replaced by
  rows read earlier.
- **`PriorityRecalculationProofs`.**  `KthSmallest` (so many severities are below
  `Kth`, so many not above it), `MedianInRange`, `MaxOfNaturals` and `InputsMeasured`
  (a ticket that is counted has a largest demand of at least one, and its own is
  not above it) bound what the formula is given, `IndexOnScale` what it returns.  The
  invariant `PriorityTypeOK` keeps that of the inputs of every pass under way, however
  old: `PrioritiesOnScale`.  `PassesKeepOrder`: when a queue is `UpToDate`, every step
  that leaves the tickets alone keeps it so, and a pass with current inputs puts
  any queue in order.  It is what is left of `PrioritiesSettle` without fairness.

Only model-checked: the liveness properties (`LookupEnds`,
`SettledTicketIsChecked`, `SettledTicketHasRainfall`, `RainfallRecovers`,
`PrioritiesSettle`, `ScreenSettles`), which the prover does not reach.

## 6. What the documents say and the code does not keep

Each has a run whose counterexample is the scenario.

- `stale_resolve`.  `tickets.service.ts:1162` says no Work Order may be open and
  `:1164` that this is checked again on the locked row.  The count (`:1294`) is a
  subquery of the `SELECT ... FOR UPDATE` that waits: a Work Order created by the
  transaction it waits for is not counted.
- `merged_away`.  `ticket-grouping.rules.ts:225` says a merged-away ticket is
  never changed again.  `advanceStatus` and `rejectTicket` look at the merge on
  their unlocked read alone (`tickets.service.ts:1130`, `:1797`).
- `ack_race`.  `focal-intake.service.ts:536-538` says the first acknowledged
  report on a ticket creates its row.  `acknowledge` locks the ticket and keeps
  the report's `ticket_id` of the snapshot (`:526`), so the row may be created
  for the ticket the report has just left.
- `lock_cycle`.  `ticket-grouping.service.ts:39-41` says two of its actions
  cannot deadlock.  Their transactions cannot (`GroupingIsDeadlockFree`), but each
  action goes on to recalculate every active ticket in one `UPDATE`
  (`operational-priority.service.ts:116`), whose locks come in any order.  The run:
  one action merges ticket 1 into ticket 2; another has removed one of ticket 1's two
  reports, and recalculates.  The merge has locked ticket 1 and waits for ticket 2,
  which the recalculation has locked before it waits for ticket 1.
- `unseen_bulk`.  `useQueueSelection.ts:7-10` says no ticket is swept into a bulk
  action the admin can no longer see.  The selection is pruned against the data
  last answered; while the list loads for another filter the table shows
  skeletons, and the bulk bar still sends the ticked rows of the previous one
  (`TicketsWorkspace.tsx:359`).  The run ticks a row, chooses a view with another
  search, and sends the bulk action before its list has come.

Seen while modelling, of the same kind, and without a run of their own:

- Reassign and Refer count open Work Orders like resolve does
  (`tickets.service.ts:1600`), so they too can pass over one created meanwhile.
- The office of `advanceStatus` and `rejectTicket` is checked on the unlocked read
  (`:1102`): the old office can still change the status after a Reassign
  (`docs/security.md:99`).
- Two rejections of one ticket both write (`:1797`), with two history rows.
- The lookup in flight when a ticket closes records its answer on the closed
  ticket (`hazard-information.service.ts:237`), where `docs/project-status.md:193`
  says closed tickets keep what they have.
- A screening may be saved on a ticket closed after the statement's snapshot
  (`focal-intake.service.ts:621`); a citizen may answer on a ticket their report
  has just left (`reports.service.ts:854`).
- Two edits of administrators can wait for one another when an account becomes an
  active System Administrator between their snapshots (`admins.service.ts:148`;
  `docs/security.md:151`).  PostgreSQL aborts one of them.
- A manual rainfall refresh always asks the provider, says
  `rainfall-context.service.ts:53-54`; one that joins a refresh on detail already
  running is answered with that one's result, which may be the cache's.
- Closed tickets keep their last priority, says
  `operational-priority.service.ts:34-36`; a pass that read the ticket before it was
  closed still writes it by id afterwards (`:108-116`).
- Citizens' tokens are compared to the millisecond (`session.service.ts:185-189`),
  staff's to the second (`:150`): a citizen who logs in within the second of their
  logout or reset is signed out by it.
- `session_valid_after` is taken before the row's lock, so of two requests the
  later cutoff may be the one that is overwritten.
- `assertValidAssignee` reads the account without a lock
  (`work-orders.service.ts:232-258`): an account deactivated or moved to the other
  office in between is assigned.
- `FlaggedWorkspace.tsx:401-402` says that reports which moved leave the selection;
  it is cleared only when none failed, and otherwise they leave it when the next
  list no longer has them.
- On the Work Orders screen an edit patches the row in place (`handleUpdated`), and
  a list asked for before it overwrites the patch when it arrives after.  The
  notification center appends a further page (`loadMore`) to whatever list is
  there when it arrives, also that of another filter.  Saving a view makes it the
  active tab after the request, whatever was chosen meanwhile
  (`saveCurrentView`).
- `rainfall-context.service.ts:328-332` says that a `Date` parameter of the shared
  client throws; `cleanupOldEvents` (`ratelimit.service.ts:304-318`) passes one.
  `CleanUp` follows the service's tests, where it deletes; where it throws, it is the
  action not taken, and no property needs it.

## 7. Not modelled

The map covers some 12 % of the implementation's lines.  The rest is, by
weight: the web client (pages, forms, dialogs, tables, charts, vendored UI
parts), which shows what the API answers and sends one request per action; the
seed and migration scripts, which load data in sequence; the read models
(dashboards, exports, insights, related tickets, audit views), queries without a
state; and types, contracts and email texts.  Apart from
the screens section 6 names, none of it keeps state that two actors change, so a
model of it would have no behaviour to check.

Within the modelled services: Work Order titles, notes, assignees and due dates;
the assessment's fields; notices, emails, audit rows; timestamps and
`status_history` (so nothing is said of the order in which a history is listed);
the office check of a moderation on an unlocked read (`moderation.service.ts:361`);
photo and pin validation; the parsing of what a layer or the provider answers,
which is one of a few outcomes; the 60 s throttle of the hazard lookup's Retry,
taken as over; a deployment with the lookup switched off; pins that differ within
one rounded cache key, which count as one; tickets that close among the row locks;
the savepoints around notices; cookies, the OAuth state and the
re-authentication window; what the caller of a grouping action is told when the
recalculation after its commit fails.  `PROJECT.json` lists, for each hazard no
property covers, why not.
