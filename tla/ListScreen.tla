------------------------------- MODULE ListScreen -------------------------------
(***************************************************************************)
(* The staff's list screens in the browser: the Ticket Queue and the Flagged *)
(* Reports.  A filter, a saved view, a retry, a finished bulk action and the *)
(* search box, once it is still for 300 ms, run an effect that cancels the   *)
(* list request before it and sends another.  Answers come in any order.  A  *)
(* bulk action sends the ticked rows of the data at hand, and a row's menu    *)
(* that row, which nothing keeps from overlapping; the server treats the rows *)
(* of each one at a time, and other staff move rows meanwhile.               *)
(*                                                                          *)
(* The Work Orders and the Activity Log are screens with the same effect and *)
(* no bulk action.  Paging is one more field of the query, and a render and  *)
(* its effects are one step.                                                 *)
(***************************************************************************)
EXTENDS Naturals, FiniteSets

CONSTANTS
  Surfaces,   \* "tickets", "flagged"
  Items,      \* tickets or reports
  Tabs,       \* values of the filter each row is listed under
  Texts,      \* what may be in the search box
  Matches,    \* the items each text finds
  FirstTab, FirstText,  \* what the page is opened with
  Fetches,    \* bound of the model: list requests under way at once
  Actions,    \* bound of the model: bulk and row actions under way at once
  MaxClicks, MaxMoves, MaxLost  \* bounds: user actions, rows moved, requests that fail

NoOne == "nobody"

ASSUME ScreenAssumption ==
  /\ NoOne \notin Fetches
  /\ Matches \in [Texts -> SUBSET Items]
  /\ FirstTab \in Tabs /\ FirstText \in Texts

VARIABLES
  surface,
  tabOf, moves,             \* the server: where each row is listed, moves so far
  typed, debounce,          \* the search box, and its timer is running
  query, nowLoading, error, \* the query state, the skeleton, the error card
  shown,                    \* the data: its rows, their query and how recent they are
  fetch, live,              \* requests for a list, and the one not cancelled
  selected,
  bulk, busy,               \* the actions under way; bulkBusy
  finished,                 \* the last move of a finished action
  clicks, lost

serverVars == <<tabOf, moves>>
screenVars == <<query, nowLoading, error, fetch, live>>
listVars == <<surface, tabOf, moves, typed, debounce, query, nowLoading, error, shown,
              fetch, live, selected, bulk, busy, finished, clicks, lost>>

NoFetch == [phase |-> "none"]
NoBulk  == [phase |-> "none"]

Listed(q)   == {i \in Matches[q.text] : tabOf[i] = q.tab}
OnScreen  == IF nowLoading THEN {} ELSE shown.rows
Ticked    == shown.rows \cap selected
Click     == clicks < MaxClicks /\ clicks' = clicks + 1
Loses     == lost < MaxLost /\ lost' = lost + 1

(*-------------------------------- The list effect -------------------------*)
\* The cleanup of the previous run cancels its request.
Refetch(q) ==
  /\ \E f \in Fetches :
       /\ fetch[f] = NoFetch
       /\ fetch' = [fetch EXCEPT ![f] = [phase |-> "sent", query |-> q]]
       /\ live' = f
  /\ query' = q /\ nowLoading' = TRUE /\ error' = FALSE

ServerReads(f) ==
  /\ fetch[f].phase = "sent"
  /\ fetch' = [fetch EXCEPT ![f] = [phase |-> "read", query |-> @.query,
                                    rows |-> Listed(@.query), at |-> moves]]
  /\ UNCHANGED <<surface, serverVars, typed, debounce, query, nowLoading, error, shown, live,
                 selected, bulk, busy, finished, clicks, lost>>

\* Seeded fault (ShownIsAsked): an answer is shown whoever asked for it.
AnswersLate(f) ==
  /\ fetch[f].phase = "read"
  /\ fetch' = [fetch EXCEPT ![f] = NoFetch]
  /\ shown' = [query |-> fetch[f].query, rows |-> fetch[f].rows, at |-> fetch[f].at]
  /\ IF live = f THEN nowLoading' = FALSE /\ live' = NoOne ELSE UNCHANGED <<nowLoading, live>>
  /\ UNCHANGED <<surface, serverVars, typed, debounce, query, error, selected, bulk, busy,
                 finished, clicks, lost>>

Answers(f) ==
  /\ fetch[f].phase = "read"
  /\ fetch' = [fetch EXCEPT ![f] = NoFetch]
  /\ IF live = f
       THEN /\ shown' = [query |-> fetch[f].query, rows |-> fetch[f].rows, at |-> fetch[f].at]
            /\ nowLoading' = FALSE /\ live' = NoOne
       ELSE UNCHANGED <<shown, nowLoading, live>>
  /\ UNCHANGED <<surface, serverVars, typed, debounce, query, error, selected, bulk, busy,
                 finished, clicks, lost>>

FetchFails(f) ==
  /\ fetch[f] # NoFetch /\ Loses
  /\ fetch' = [fetch EXCEPT ![f] = NoFetch]
  /\ IF live = f THEN error' = TRUE /\ nowLoading' = FALSE /\ live' = NoOne
                 ELSE UNCHANGED <<error, nowLoading, live>>
  /\ UNCHANGED <<surface, serverVars, typed, debounce, query, shown, selected, bulk, busy,
                 finished, clicks>>

(*------------------------------ Search and filters ------------------------*)
\* Every keystroke restarts the timer.
Type(text) ==
  /\ Click /\ text # typed
  /\ typed' = text /\ debounce' = TRUE
  /\ UNCHANGED <<surface, serverVars, screenVars, shown, selected, bulk, busy, finished, lost>>

SearchBoxIsStill ==
  /\ debounce /\ debounce' = FALSE
  /\ Refetch([query EXCEPT !.text = typed])
  /\ UNCHANGED <<surface, serverVars, typed, shown, selected, bulk, busy, finished, clicks, lost>>

\* updateFilter, and retry when nothing changes.
ChooseTab(t) ==
  /\ Click
  /\ Refetch([query EXCEPT !.tab = t])
  /\ UNCHANGED <<surface, serverVars, typed, debounce, shown, selected, bulk, busy, finished, lost>>

\* Seeded fault (ScreenSettles): the search box keeps its text.
ChooseViewOnly(t, text) ==
  /\ Click
  /\ Refetch([tab |-> t, text |-> text])
  /\ UNCHANGED <<surface, serverVars, typed, debounce, shown, selected, bulk, busy, finished, lost>>

\* A built-in or saved view sets the search box with the query; a box that
\* already reads so keeps its timer.
ChooseView(t, text) ==
  /\ Click
  /\ typed' = text /\ debounce' = (debounce \/ text # typed)
  /\ Refetch([tab |-> t, text |-> text])
  /\ UNCHANGED <<surface, serverVars, shown, selected, bulk, busy, finished, lost>>

(*------------------------------ Selection and bulk ------------------------*)
Tick(i) ==
  /\ Click /\ i \in OnScreen
  /\ selected' = IF i \in selected THEN selected \ {i} ELSE selected \cup {i}
  /\ UNCHANGED <<surface, serverVars, typed, debounce, screenVars, shown, bulk, busy, finished, lost>>

Sends(b, ids, kind) ==
  /\ Click /\ bulk[b] = NoBulk /\ ids # {}
  /\ bulk' = [bulk EXCEPT ![b] = [phase |-> "sent", kind |-> kind, ids |-> ids, todo |-> ids,
                                  skipped |-> {}, at |-> moves]]
  /\ busy' = TRUE
  /\ UNCHANGED <<surface, serverVars, typed, debounce, screenVars, shown, selected, finished, lost>>

\* The bulk bar is there as long as a row of the data is ticked.
RunBulk(b) == ~busy /\ Sends(b, Ticked, "bulk")

\* A row's own menu, which bulkBusy does not disable.
AdvanceOne(b, i) == surface = "tickets" /\ i \in OnScreen /\ Sends(b, {i}, "one")

\* The server moves the row on, or skips it.
Treats(b, i) ==
  /\ bulk[b] # NoBulk /\ i \in bulk[b].todo
  /\ \/ /\ moves < MaxMoves
        /\ \E t \in Tabs \ {tabOf[i]} : tabOf' = [tabOf EXCEPT ![i] = t]
        /\ moves' = moves + 1
        /\ bulk' = [bulk EXCEPT ![b].todo = @ \ {i}, ![b].at = moves + 1]
     \/ /\ bulk' = [bulk EXCEPT ![b].todo = @ \ {i}, ![b].skipped = @ \cup {i}]
        /\ UNCHANGED serverVars
  /\ UNCHANGED <<surface, typed, debounce, screenVars, shown, selected, busy, finished, clicks, lost>>

\* The queue clears the selection; the flagged list only when no report failed.
\* Whichever action ends first makes the bar free again.
BulkEnds(b) ==
  /\ bulk[b] # NoBulk /\ bulk[b].todo = {}
  /\ bulk' = [bulk EXCEPT ![b] = NoBulk] /\ busy' = FALSE
  /\ finished' = IF bulk[b].at > finished THEN bulk[b].at ELSE finished
  /\ selected' = IF bulk[b].kind = "one" \/ (surface = "flagged" /\ bulk[b].skipped # {})
                   THEN selected ELSE {}
  /\ Refetch(query)
  /\ UNCHANGED <<surface, serverVars, typed, debounce, shown, clicks, lost>>

\* The queue's one request fails, before or after the server's work.  A failure
\* of the flagged list's requests is a report skipped.
BulkFails(b) ==
  /\ surface = "tickets" /\ bulk[b] # NoBulk /\ bulk[b].todo \in {bulk[b].ids, {}} /\ Loses
  /\ bulk' = [bulk EXCEPT ![b] = NoBulk] /\ busy' = FALSE /\ error' = TRUE
  /\ UNCHANGED <<surface, serverVars, typed, debounce, query, nowLoading, fetch, live, shown,
                 selected, finished, clicks>>

OthersMove(i, t) ==
  /\ moves < MaxMoves /\ t # tabOf[i]
  /\ tabOf' = [tabOf EXCEPT ![i] = t] /\ moves' = moves + 1
  /\ UNCHANGED <<surface, typed, debounce, screenVars, shown, selected, bulk, busy, finished, clicks, lost>>

(*------------------------------ Specification -----------------------------*)
\* The server renders the page with its first list.
ListInit ==
  /\ surface \in Surfaces
  /\ tabOf = [i \in Items |-> FirstTab] /\ moves = 0
  /\ typed = FirstText /\ debounce = FALSE
  /\ query = [tab |-> FirstTab, text |-> FirstText] /\ nowLoading = FALSE /\ error = FALSE
  /\ shown = [query |-> query, rows |-> Listed(query), at |-> 0]
  /\ fetch = [f \in Fetches |-> NoFetch] /\ live = NoOne
  /\ selected = {} /\ bulk = [b \in Actions |-> NoBulk] /\ busy = FALSE /\ finished = 0
  /\ clicks = 0 /\ lost = 0

FetchSteps == \E f \in Fetches : ServerReads(f) \/ Answers(f)
BulkSteps  == \E b \in Actions : BulkEnds(b) \/ \E i \in Items : Treats(b, i)
ListSteps  == FetchSteps \/ BulkSteps \/ SearchBoxIsStill

ListNext ==
  \/ ListSteps
  \/ \E f \in Fetches : FetchFails(f)
  \/ \E text \in Texts : Type(text)
  \/ \E t \in Tabs : ChooseTab(t) \/ \E text \in Texts : ChooseView(t, text)
  \/ \E i \in Items : Tick(i) \/ \E t \in Tabs : OthersMove(i, t)
  \/ \E b \in Actions : RunBulk(b) \/ BulkFails(b) \/ \E i \in Items : AdvanceOne(b, i)

\* Requests are answered and timers run out, one after the other.
ListSpec == ListInit /\ [][ListNext]_listVars /\ WF_listVars(ListSteps)

(*-------------------------------- Properties ------------------------------*)
\* Unless the screen says it is loading or has failed, its rows answer the
\* filters and the search it shows, and were read after every action
\* that finished, whatever order the answers came in.
ShownIsAsked == ~nowLoading /\ ~error => shown.query = query /\ shown.at >= finished

\* When the user stops, the screen comes to rest: on the rows for what is in
\* the search box, or on an error.
ScreenSettles ==
  <>[](~nowLoading /\ ~debounce /\ query.text = typed /\ (error \/ shown.query = query))

\* useQueueSelection.ts: after a change of the filters no ticket is swept into
\* a bulk action the admin can no longer see.
BulkActsOnWhatIsSeen ==
  [][\A b \in Actions :
       bulk[b] = NoBulk /\ bulk'[b] # NoBulk => bulk'[b].ids \subseteq OnScreen \/ shown.query = query
    ]_listVars
=============================================================================
