---------------------------- MODULE ListScreenProofs ----------------------------
(***************************************************************************)
(* Proof that the staff's list screens show what they were asked for, for    *)
(* any filters, texts, rows, list requests under way and other staff,        *)
(* whatever order the answers come in and whatever the user clicks.          *)
(***************************************************************************)
EXTENDS ListScreen, TLAPS

Query == [tab : Tabs, text : Texts]

\* A request for a list: on its way to the server, or on its way back with how
\* recent its rows are.
Fetch ==
  {NoFetch}
  \cup [phase : {"sent"}, query : Query]
  \cup [phase : {"read"}, query : Query, rows : SUBSET Items, at : Nat]

Bulk ==
  {NoBulk}
  \cup [phase : {"sent"}, kind : {"bulk", "one"}, ids : SUBSET Items, todo : SUBSET Items,
        skipped : SUBSET Items, at : Nat]

ScreenTypeOK ==
  /\ moves \in Nat /\ finished \in Nat
  /\ query \in Query
  /\ typed \in Texts
  /\ shown \in [query : Query, rows : SUBSET Items, at : Nat]
  /\ fetch \in [Fetches -> Fetch]
  /\ live \in Fetches \cup {NoOne}
  /\ bulk \in [Actions -> Bulk]

\* The moves of the actions under way are in the past.
ActionsBehind == \A b \in Actions : bulk[b] # NoBulk => bulk[b].at <= moves

\* What was read or done is in the past of the server's table.
BehindTheServer ==
  /\ finished <= moves /\ shown.at <= moves
  /\ ActionsBehind
  /\ \A f \in Fetches : fetch[f].phase = "read" => fetch[f].at <= moves

\* The skeleton is there as long as a request has not been cancelled, and that
\* request asks for the filters of the screen, after the last bulk action and
\* after the rows shown were read.
OneLiveRequest ==
  /\ nowLoading <=> live # NoOne
  /\ live # NoOne => /\ fetch[live] # NoFetch /\ fetch[live].query = query
                     /\ fetch[live].phase = "read" => fetch[live].at >= finished /\ fetch[live].at >= shown.at

ScreenInv == ScreenTypeOK /\ BehindTheServer /\ OneLiveRequest /\ ShownIsAsked

LEMMA InitialScreen == ListInit => ScreenInv
BY ScreenAssumption
   DEF ListInit, ScreenInv, ScreenTypeOK, BehindTheServer, ActionsBehind, OneLiveRequest, ShownIsAsked, Query, Fetch,
       NoFetch, NoBulk, Bulk, Listed

LEMMA AnswerUnderWay ==
  ASSUME ScreenTypeOK, NEW f \in Fetches, fetch[f].phase = "read"
  PROVE  fetch[f] \in [phase : {"read"}, query : Query, rows : SUBSET Items, at : Nat]
BY DEF ScreenTypeOK, Fetch, NoFetch

\* The effect runs again: whatever was live is cancelled.
LEMMA RefetchKeeps ==
  ASSUME ScreenInv, NEW q \in Query, Refetch(q), UNCHANGED <<moves, shown>>,
         typed' \in Texts, finished' \in Nat, finished' <= moves,
         bulk' \in [Actions -> Bulk], ActionsBehind'
  PROVE  ScreenInv'
<1>1. PICK f \in Fetches :
        /\ fetch' = [fetch EXCEPT ![f] = [phase |-> "sent", query |-> q]]
        /\ live' = f
  BY DEF Refetch
<1>2. query' = q /\ nowLoading' = TRUE BY DEF Refetch
<1>3. fetch' \in [Fetches -> Fetch] /\ fetch'[f] = [phase |-> "sent", query |-> q]
  BY <1>1 DEF ScreenInv, ScreenTypeOK, Fetch
<1>4. ScreenTypeOK' BY <1>1, <1>2, <1>3 DEF ScreenInv, ScreenTypeOK
<1>5. BehindTheServer'
  <2>1. fetch'[f].phase = "sent" BY <1>3
  <2>2. \A g \in Fetches \ {f} : fetch'[g] = fetch[g]
    BY <1>1 DEF ScreenInv, ScreenTypeOK
  <2> QED BY <2>1, <2>2 DEF ScreenInv, BehindTheServer
<1>6. live' # NoOne BY <1>1, ScreenAssumption
<1>7. OneLiveRequest' BY <1>1, <1>2, <1>3, <1>6 DEF OneLiveRequest, NoFetch
<1>8. ShownIsAsked' BY <1>2 DEF ShownIsAsked
<1> QED BY <1>4, <1>5, <1>7, <1>8 DEF ScreenInv

\* A step that leaves the requests, the filters and the rows alone, while the
\* server's table may move on and the error card may come up.
LEMMA QuietKeeps ==
  ASSUME ScreenInv,
         UNCHANGED <<query, nowLoading, shown, fetch, live, finished>>,
         error => error', moves' \in Nat, moves <= moves', typed' \in Texts,
         bulk' \in [Actions -> Bulk], ActionsBehind'
  PROVE  ScreenInv'
<1>1. ScreenTypeOK' BY DEF ScreenInv, ScreenTypeOK
<1>2. BehindTheServer'
  <2>1. \A f \in Fetches : fetch'[f].phase = "read" => fetch'[f].at <= moves'
    <3> SUFFICES ASSUME NEW f \in Fetches, fetch[f].phase = "read" PROVE fetch[f].at <= moves'
      OBVIOUS
    <3>1. fetch[f].at \in Nat BY AnswerUnderWay DEF ScreenInv
    <3> QED BY <3>1 DEF ScreenInv, ScreenTypeOK, BehindTheServer
  <2> QED BY <2>1 DEF ScreenInv, ScreenTypeOK, BehindTheServer
<1>3. OneLiveRequest' /\ ShownIsAsked' BY DEF ScreenInv, OneLiveRequest, ShownIsAsked
<1> QED BY <1>1, <1>2, <1>3 DEF ScreenInv

LEMMA FetchStepKeeps ==
  ASSUME ScreenInv, NEW f \in Fetches, ServerReads(f) \/ Answers(f) \/ FetchFails(f)
  PROVE  ScreenInv'
<1> USE DEF ScreenInv
<1>0. fetch \in [Fetches -> Fetch] /\ fetch[f] \in Fetch /\ NoFetch \in Fetch
      /\ UNCHANGED <<query, typed, moves, finished, bulk>>
  BY DEF ScreenTypeOK, Fetch, ServerReads, Answers, FetchFails, serverVars
<1>2. CASE ServerReads(f)
  <2> DEFINE new == [phase |-> "read", query |-> fetch[f].query,
                     rows |-> Listed(fetch[f].query), at |-> moves]
  <2>1. fetch' = [fetch EXCEPT ![f] = new] /\ UNCHANGED <<nowLoading, error, shown, live>>
    BY <1>2 DEF ServerReads
  <2>2. fetch[f].phase = "sent" /\ fetch[f].query \in Query
    BY <1>0, <1>2 DEF ServerReads, Fetch, NoFetch
  <2>3. new \in Fetch
    <3>1. Listed(fetch[f].query) \in SUBSET Items
      BY <2>2, ScreenAssumption DEF Listed, Query
    <3> QED BY <2>2, <3>1 DEF Fetch, ScreenTypeOK
  <2>4. new.query = fetch[f].query /\ new.at = moves /\ new # NoFetch BY DEF NoFetch
  <2> HIDE DEF new
  <2>5. fetch' \in [Fetches -> Fetch] /\ fetch'[f] = new
        /\ \A g \in Fetches \ {f} : fetch'[g] = fetch[g]
    BY <1>0, <2>1, <2>3
  <2>6. ScreenTypeOK' BY <1>0, <2>1, <2>5 DEF ScreenTypeOK
  <2>7. OneLiveRequest'
    <3>1. CASE live = f
      BY <1>0, <2>1, <2>4, <2>5, <3>1 DEF OneLiveRequest, BehindTheServer, ScreenTypeOK
    <3>2. CASE live # f
      BY <1>0, <2>1, <2>5, <3>2 DEF OneLiveRequest, ScreenTypeOK
    <3> QED BY <3>1, <3>2
  <2>8. ShownIsAsked' BY <1>0, <2>1 DEF ShownIsAsked
  <2>9. BehindTheServer' BY <1>0, <2>1, <2>4, <2>5 DEF BehindTheServer, ActionsBehind, ScreenTypeOK
  <2> QED BY <2>6, <2>7, <2>8, <2>9
<1>3. CASE Answers(f) \/ FetchFails(f)
  <2>1. fetch' = [fetch EXCEPT ![f] = NoFetch] BY <1>3 DEF Answers, FetchFails
  <2>2. fetch' \in [Fetches -> Fetch] /\ \A g \in Fetches \ {f} : fetch'[g] = fetch[g]
    BY <1>0, <2>1
  <2>4. \A g \in Fetches : fetch'[g].phase = "read" => fetch'[g].at <= moves
    BY <1>0, <2>1, <2>2 DEF BehindTheServer, NoFetch
  <2>3. CASE live = f
    <3>1. nowLoading' = FALSE /\ live' = NoOne BY <1>3, <2>3 DEF Answers, FetchFails
    <3>2. shown' \in [query : Query, rows : SUBSET Items, at : Nat] /\ shown'.at <= moves
      <4>1. CASE UNCHANGED shown BY <4>1 DEF ScreenTypeOK, BehindTheServer
      <4>2. CASE Answers(f)
        <5>1. fetch[f].phase = "read"
              /\ shown' = [query |-> fetch[f].query, rows |-> fetch[f].rows, at |-> fetch[f].at]
          BY <2>3, <4>2 DEF Answers
        <5>2. fetch[f] \in [phase : {"read"}, query : Query, rows : SUBSET Items, at : Nat]
          BY <1>0, <5>1 DEF Fetch, NoFetch
        <5> QED BY <5>1, <5>2 DEF BehindTheServer
      <4> QED BY <1>3, <4>1, <4>2 DEF FetchFails
    <3>4. ScreenTypeOK' BY <1>0, <2>2, <3>1, <3>2 DEF ScreenTypeOK
    <3>5. OneLiveRequest' BY <3>1 DEF OneLiveRequest
    <3>6. BehindTheServer' BY <1>0, <2>4, <3>2 DEF BehindTheServer, ActionsBehind
    <3>3. ShownIsAsked'
      <4>1. CASE FetchFails(f) BY <2>3, <4>1 DEF FetchFails, ShownIsAsked
      <4>2. CASE Answers(f)
        <5>1. shown'.query = fetch[f].query /\ shown'.at = fetch[f].at /\ fetch[f].phase = "read"
          BY <2>3, <4>2 DEF Answers
        <5>2. fetch[f].query = query /\ fetch[f].at >= finished
          BY <2>3, <5>1, ScreenAssumption DEF OneLiveRequest
        <5> QED BY <1>0, <5>1, <5>2 DEF ShownIsAsked
      <4> QED BY <1>3, <4>1, <4>2
    <3> QED BY <3>3, <3>4, <3>5, <3>6
  <2>5. CASE live # f
    <3>1. UNCHANGED <<shown, nowLoading, error, live>> BY <1>3, <2>5 DEF Answers, FetchFails
    <3>2. ScreenTypeOK' BY <1>0, <2>2, <3>1 DEF ScreenTypeOK
    <3>3. ShownIsAsked' BY <1>0, <3>1 DEF ShownIsAsked
    <3>4. OneLiveRequest'
      <4>1. live' # NoOne => live \in Fetches \ {f} BY <2>5, <3>1 DEF ScreenTypeOK
      <4> QED BY <1>0, <2>2, <3>1, <4>1 DEF OneLiveRequest
    <3>5. BehindTheServer' BY <1>0, <2>4, <3>1 DEF BehindTheServer, ActionsBehind
    <3> QED BY <3>2, <3>3, <3>4, <3>5
  <2> QED BY <2>3, <2>5
<1> QED BY <1>2, <1>3

\* The search box, the filters, the views.
LEMMA FilterKeeps ==
  ASSUME ScreenInv,
         \/ SearchBoxIsStill
         \/ \E text \in Texts : Type(text)
         \/ \E t \in Tabs : ChooseTab(t) \/ \E text \in Texts : ChooseView(t, text)
  PROVE  ScreenInv'
<1> USE DEF serverVars, screenVars
<1>0. /\ query \in Query /\ typed \in Texts /\ finished \in Nat /\ finished <= moves
      /\ bulk \in [Actions -> Bulk] /\ NoBulk \in Bulk /\ ActionsBehind
      /\ moves \in Nat
  BY DEF ScreenInv, ScreenTypeOK, BehindTheServer, Bulk
<1>b. UNCHANGED <<bulk, moves>> => ActionsBehind' BY <1>0 DEF ActionsBehind
<1>1. CASE SearchBoxIsStill
  <2>1. [query EXCEPT !.text = typed] \in Query BY <1>0 DEF Query
  <2> QED BY <1>0, <1>b, <1>1, <2>1, RefetchKeeps DEF SearchBoxIsStill
<1>2. ASSUME NEW text \in Texts, Type(text) PROVE ScreenInv'
  BY <1>0, <1>b, <1>2, QuietKeeps DEF Type
<1>3. ASSUME NEW t \in Tabs, ChooseTab(t) PROVE ScreenInv'
  <2>1. [query EXCEPT !.tab = t] \in Query BY <1>0 DEF Query
  <2> QED BY <1>0, <1>b, <1>3, <2>1, RefetchKeeps DEF ChooseTab
<1>4. ASSUME NEW t \in Tabs, NEW text \in Texts, ChooseView(t, text) PROVE ScreenInv'
  <2>1. [tab |-> t, text |-> text] \in Query BY DEF Query
  <2> QED BY <1>0, <1>b, <1>4, <2>1, RefetchKeeps DEF ChooseView
<1> QED BY <1>1, <1>2, <1>3, <1>4

\* Ticks, bulk actions, and other staff.
LEMMA BulkKeeps ==
  ASSUME ScreenInv,
         \/ \E b \in Actions : \/ RunBulk(b) \/ BulkEnds(b) \/ BulkFails(b)
                              \/ \E i \in Items : AdvanceOne(b, i) \/ Treats(b, i)
         \/ \E i \in Items : Tick(i) \/ \E t \in Tabs : OthersMove(i, t)
  PROVE  ScreenInv'
<1> USE DEF serverVars, screenVars
<1>0. /\ query \in Query /\ typed \in Texts /\ finished \in Nat /\ finished <= moves
      /\ bulk \in [Actions -> Bulk] /\ NoBulk \in Bulk /\ ActionsBehind
      /\ moves \in Nat
  BY DEF ScreenInv, ScreenTypeOK, BehindTheServer, Bulk
<1>b. UNCHANGED <<bulk, moves>> => ActionsBehind' BY <1>0 DEF ActionsBehind
<1>1. ASSUME NEW b \in Actions, NEW ids \in SUBSET Items, NEW kind \in {"bulk", "one"},
             Sends(b, ids, kind)
      PROVE  ScreenInv'
  <2> DEFINE new == [phase |-> "sent", kind |-> kind, ids |-> ids, todo |-> ids,
                     skipped |-> {}, at |-> moves]
  <2>1. new \in Bulk /\ new.at = moves BY <1>0 DEF Bulk
  <2>2. bulk' = [bulk EXCEPT ![b] = new] /\ UNCHANGED moves BY <1>1 DEF Sends
  <2> HIDE DEF new
  <2>3. bulk' \in [Actions -> Bulk] /\ ActionsBehind'
    BY <1>0, <2>1, <2>2 DEF ActionsBehind
  <2> QED BY <1>0, <1>1, <2>2, <2>3, QuietKeeps DEF Sends
<1>9. ASSUME NEW b \in Actions, bulk' = [bulk EXCEPT ![b] = NoBulk], UNCHANGED moves
      PROVE  bulk' \in [Actions -> Bulk] /\ ActionsBehind'
  BY <1>0, <1>9 DEF ActionsBehind
<1>2. ASSUME NEW b \in Actions, BulkEnds(b) PROVE ScreenInv'
  <2>1. bulk[b] # NoBulk /\ bulk' = [bulk EXCEPT ![b] = NoBulk] /\ Refetch(query)
        /\ finished' = (IF bulk[b].at > finished THEN bulk[b].at ELSE finished)
        /\ UNCHANGED <<moves, shown, typed>>
    BY <1>2 DEF BulkEnds
  <2>2. bulk[b].at \in Nat /\ bulk[b].at <= moves BY <1>0, <2>1 DEF Bulk, ActionsBehind
  <2>3. finished' \in Nat /\ finished' <= moves BY <1>0, <2>1, <2>2
  <2>4. bulk' \in [Actions -> Bulk] /\ ActionsBehind' BY <1>9, <2>1
  <2> QED BY <1>0, <2>1, <2>3, <2>4, RefetchKeeps
<1>3. ASSUME NEW b \in Actions, BulkFails(b) PROVE ScreenInv'
  <2>1. bulk' \in [Actions -> Bulk] /\ ActionsBehind' BY <1>3, <1>9 DEF BulkFails
  <2> QED BY <1>0, <1>3, <2>1, QuietKeeps DEF BulkFails
<1>4. ASSUME NEW i \in Items, Tick(i) PROVE ScreenInv'
  BY <1>0, <1>b, <1>4, QuietKeeps DEF Tick
<1>5. ASSUME NEW b \in Actions, NEW i \in Items, Treats(b, i) PROVE ScreenInv'
  <2>1. bulk[b] \in Bulk \ {NoBulk} /\ bulk[b].at \in Nat /\ bulk[b].at <= moves
        /\ UNCHANGED <<query, nowLoading, error, shown, fetch, live, finished, typed>>
    BY <1>0, <1>5 DEF Treats, Bulk, ActionsBehind
  <2>2. PICK new : /\ bulk' = [bulk EXCEPT ![b] = new]
                   /\ \/ /\ moves' = moves + 1
                         /\ new = [bulk[b] EXCEPT !.todo = bulk[b].todo \ {i}, !.at = moves + 1]
                      \/ /\ moves' = moves
                         /\ new = [bulk[b] EXCEPT !.todo = bulk[b].todo \ {i},
                                                  !.skipped = bulk[b].skipped \cup {i}]
    BY <1>5 DEF Treats
  <2> DEFINE less == [bulk[b] EXCEPT !.todo = bulk[b].todo \ {i}]
  <2>3. less \in Bulk \ {NoBulk} /\ less.at = bulk[b].at /\ less.skipped = bulk[b].skipped
    BY <2>1 DEF Bulk, NoBulk
  <2>4. new \in Bulk /\ new.at <= moves' /\ moves' \in Nat /\ moves <= moves'
    <3>1. CASE moves' = moves + 1 /\ new = [less EXCEPT !.at = moves + 1]
      <4> HIDE DEF less
      <4>1. new \in Bulk /\ new.at = moves + 1 BY <1>0, <2>3, <3>1 DEF Bulk, NoBulk
      <4> QED BY <1>0, <3>1, <4>1
    <3>2. CASE moves' = moves /\ new = [less EXCEPT !.skipped = less.skipped \cup {i}]
      <4> HIDE DEF less
      <4>1. new \in Bulk /\ new.at = less.at BY <2>3, <3>2 DEF Bulk, NoBulk
      <4> QED BY <1>0, <2>1, <2>3, <3>2, <4>1
    <3> QED BY <2>2, <2>3, <3>1, <3>2
  <2> HIDE DEF less
  <2>5. bulk' \in [Actions -> Bulk] BY <1>0, <2>2, <2>4
  <2>6. ActionsBehind'
    <3>1. \A c \in Actions : bulk[c] # NoBulk => bulk[c].at \in Nat BY <1>0 DEF Bulk
    <3> QED BY <1>0, <2>2, <2>4, <3>1 DEF ActionsBehind
  <2> QED BY <1>0, <2>1, <2>4, <2>5, <2>6, QuietKeeps
<1>6. ASSUME NEW i \in Items, NEW t \in Tabs, OthersMove(i, t) PROVE ScreenInv'
  <2>1. /\ moves' = moves + 1 /\ UNCHANGED <<typed, bulk, finished, query, shown>>
        /\ UNCHANGED <<nowLoading, error, fetch, live>>
    BY <1>6 DEF OthersMove
  <2>2. \A c \in Actions : bulk[c] # NoBulk => bulk[c].at \in Nat BY <1>0 DEF Bulk
  <2>3. moves' \in Nat /\ moves <= moves' /\ ActionsBehind'
    BY <1>0, <2>1, <2>2 DEF ActionsBehind
  <2> QED BY <1>0, <2>1, <2>3, QuietKeeps
<1>7. ASSUME NEW b \in Actions, NEW i \in Items, AdvanceOne(b, i) PROVE ScreenInv'
  <2>1. {i} \in SUBSET Items /\ Sends(b, {i}, "one") BY <1>7 DEF AdvanceOne
  <2> QED BY <1>1, <2>1
<1>8. ASSUME NEW b \in Actions, RunBulk(b) PROVE ScreenInv'
  <2>1. Ticked \in SUBSET Items BY DEF Ticked, ScreenInv, ScreenTypeOK
  <2> QED BY <1>1, <1>8, <2>1 DEF RunBulk
<1> QED BY <1>2, <1>3, <1>4, <1>5, <1>6, <1>7, <1>8

LEMMA ScreenStep == ScreenInv /\ [ListNext]_listVars => ScreenInv'
<1> SUFFICES ASSUME ScreenInv, [ListNext]_listVars PROVE ScreenInv' OBVIOUS
<1>1. CASE UNCHANGED listVars
  BY <1>1 DEF listVars, serverVars, ScreenInv, ScreenTypeOK, BehindTheServer, ActionsBehind, OneLiveRequest,
     ShownIsAsked
<1>2. CASE ListNext
  BY <1>2, FetchStepKeeps, FilterKeeps, BulkKeeps DEF ListNext, ListSteps, FetchSteps, BulkSteps
<1> QED BY <1>1, <1>2

\* Unless the screen says it loads or has failed, the rows answer its filters
\* and are younger than the last finished bulk action (TicketsWorkspace.tsx,
\* FlaggedWorkspace.tsx: the effect's cancelled flags).
THEOREM ScreenShowsWhatIsAsked == ListSpec => []ShownIsAsked
<1>1. ScreenInv => ShownIsAsked BY DEF ScreenInv
<1> QED BY <1>1, InitialScreen, ScreenStep, PTL DEF ListSpec

\* The rows on the screen never give way to rows read earlier: neither a late
\* answer nor a repeated search brings a former state of the list back.
THEOREM ScreenNeverGoesBack == ListSpec => [][shown.at <= shown'.at]_listVars
<1>1. ScreenInv /\ [ListNext]_listVars => [shown.at <= shown'.at]_listVars
  <2> SUFFICES ASSUME ScreenInv, ListNext PROVE shown.at <= shown'.at
    OBVIOUS
  <2>1. shown.at \in Nat BY DEF ScreenInv, ScreenTypeOK
  <2>2. CASE UNCHANGED shown BY <2>1, <2>2
  <2>3. ASSUME NEW f \in Fetches, Answers(f) PROVE shown.at <= shown'.at
    <3>1. CASE live = f
      <4>1. shown'.at = fetch[f].at /\ fetch[f].phase = "read" BY <2>3, <3>1 DEF Answers
      <4> QED BY <3>1, <4>1, ScreenAssumption DEF ScreenInv, OneLiveRequest
    <3>2. CASE live # f BY <2>1, <2>3, <3>2 DEF Answers
    <3> QED BY <3>1, <3>2
  <2>4. UNCHANGED shown \/ \E f \in Fetches : Answers(f)
    BY DEF ListNext, ListSteps, FetchSteps, BulkSteps, ServerReads, FetchFails, SearchBoxIsStill,
       Type, ChooseTab, ChooseView, Tick, AdvanceOne, RunBulk, Sends, Treats, BulkEnds, BulkFails,
       OthersMove
  <2> QED BY <2>2, <2>3, <2>4
<1> QED BY <1>1, InitialScreen, ScreenStep, PTL DEF ListSpec
=============================================================================
