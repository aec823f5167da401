------------------------------- MODULE Chart -------------------------------
(***************************************************************************)
(* The main chart of a browser and the bars behind it: the series of       *)
(* src/client/src/App.tsx with services/chartHistory.ts, its requests      *)
(* through services/websocket.ts, FETCH_HISTORY in src/server/src/index.ts *)
(* and the bars of storage/marketDataStore.ts.                             *)
(*                                                                         *)
(* A chart is a symbol at a time frame. A snapshot of the server starts    *)
(* the series; older bars are asked for page by page as the user scrolls   *)
(* to the left, newer ones come while the market runs. Requests and        *)
(* answers keep their order, but for pages that wait for the vendor. The   *)
(* user changes charts at any moment, and the connection is lost.          *)
(*                                                                         *)
(* A bar is the time it opens at: from Edge on it is of the live session,  *)
(* before it of history.                                                   *)
(***************************************************************************)
EXTENDS Nothing, Integers, Sequences, FiniteSets, FiniteSetsExt, SequencesExt, Functions

CONSTANTS Charts,         \* [symbol, frame]
          OpeningChart,        \* the chart a connection starts with
          Edge,           \* historyBoundary
          Page,           \* bars of a page (300)
          Priming,        \* bars a context starts with (500)
          Target,         \* bars of a refresh (historyBarsTarget)
          Fallback,       \* bars of a refresh that fails (300)
          MAX_CLIENT_BARS, MAX_CLIENT_HISTORY_BARS, MAX_HISTORY_BARS_PER_TF,
          Retained,       \* the oldest bar a purge keeps
          Vendor,         \* the bars the vendor has of every chart
          MaxNow, MaxVisits, MaxLosses   \* bounds: bars of the session, charts shown, connections lost

VARIABLES now,            \* the bar that is open
          table,          \* table bars, by chart
          historyBarsByTf,   \* what the contexts start a chart with, by chart
          subscribed,     \* the chart of the session
          fetches,        \* pages that wait for the vendor
          chartWire, replies,  \* requests and answers on their way
          chart,          \* symbolRef and timeframeRef
          state,          \* subscriptionState
          key,            \* historySeriesKeyRef
          bars,           \* the live series: time |-> the chart its bar is of
          historyBars,    \* the history: time |-> the chart its bar is of
          historyCursor, lastHistoryRequest, isLoadingHistory, hasMoreHistory,
          visit,          \* history: number of the series that were started
          mixed,          \* history: a page was on its way when the series was started
          kept,           \* history: bars older than the snapshot that started the series, still stored
          losses          \* history: connections lost

server == <<now, table, historyBarsByTf, subscribed, fetches>>
paging == <<historyCursor, lastHistoryRequest, isLoadingHistory, hasMoreHistory>>
series == <<key, bars, historyBars, visit, mixed, kept>>
chartVars == <<server, chartWire, replies, chart, state, series, paging, losses>>

NoBars == [t \in {} |-> None]
Of(c, times) == [t \in times |-> c]

\* So many of the newest.
Newest(times, count) == {t \in times : Cardinality({u \in times : u > t}) < count}
Cut(f, count) == [t \in Newest(DOMAIN f, count) |-> f[t]]

\* Bars of the same time replace those that were there.
Over(f, g) == [t \in DOMAIN f \cup DOMAIN g |-> IF t \in DOMAIN g THEN g[t] ELSE f[t]]

-----------------------------------------------------------------------------
(* The bars of the store and of the contexts. *)

\* A fault: a page is taken from the old end.
OldestFirst(c, before, limit) ==
    LET found == {t \in table[c] : t < before}
    IN  [bars |-> {t \in found : Cardinality({u \in found : u < t}) < limit}, more |-> Cardinality(found) > limit]

\* The newest before a time, so many of them, and whether there are more.
queryBars(c, before, limit) ==
    LET found == {t \in table[c] : t < before}
    IN  [bars |-> Newest(found, limit), more |-> Cardinality(found) > limit]

saveBars(c, times) == [table EXCEPT ![c] = @ \cup times]

\* fetchBars: the newest before a time.
Fetched(before, count) == Newest({t \in Vendor : t < before}, count)

\* A refresh leaves a bar out only among the newest (a dataset may come late), fewer of them than a context
\* starts with.
ASSUME ChartAssumption ==
    /\ None \notin Charts \cup Nat /\ OpeningChart \in Charts
    /\ Edge \in Nat /\ Page \in Nat /\ Priming \in Nat /\ Target \in Nat /\ Fallback \in Nat /\ Retained \in Nat
    /\ MAX_CLIENT_BARS \in Nat /\ MAX_CLIENT_HISTORY_BARS \in Nat /\ MAX_HISTORY_BARS_PER_TF \in Nat
    /\ Vendor \subseteq Nat /\ IsFiniteSet(Vendor)
    /\ \A t \in 0..(Edge - 1) :
          /\ \E b \in Fetched(Edge, Target) : b <= t
          /\ \E count \in {Priming, Fallback, MAX_HISTORY_BARS_PER_TF} : Edge - 1 - t >= count
          => t \in Vendor

primeHistoryBarsFromStore(c) ==
    IF historyBarsByTf[c] = {} THEN queryBars(c, Edge, Priming).bars ELSE historyBarsByTf[c]

LiveBars == Edge..now

\* With it, for the properties: what the store has, and keeps while the snapshot is on its way.
buildInitState(c, history, stored) ==
    [type |-> "INIT", chart |-> c, bars |-> LiveBars, history |-> history, stored |-> stored]

StillStored(m, cutoff) == IF m.type = "INIT" THEN [m EXCEPT !.stored = {t \in @ : t >= cutoff}] ELSE m

HistoryResponse(f, result) ==
    [type |-> "HISTORY", chart |-> f.chart, bars |-> result.bars, more |-> result.more]

\* SUBSCRIBE: the session moves to the chart and is sent a snapshot.
Subscribed(c) ==
    LET history == primeHistoryBarsFromStore(c)
    IN  /\ subscribed' = c
        /\ historyBarsByTf' = [historyBarsByTf EXCEPT ![c] = history]
        /\ replies' = Append(replies, buildInitState(c, history, table[c]))
        /\ UNCHANGED <<table, fetches>>

\* FETCH_HISTORY: a page of the store, which the vendor is asked to fill when it is short.
FetchHistory(m) ==
    LET result == queryBars(m.chart, m.before, Page)
        missing == Page - Cardinality(result.bars)
    IN  /\ IF missing > 0 /\ Vendor # {}
           THEN fetches' = fetches \cup {[m |-> m, missing |-> missing, result |-> result]} /\ UNCHANGED replies
           ELSE replies' = Append(replies, HistoryResponse(m, result)) /\ UNCHANGED fetches
        /\ UNCHANGED <<table, historyBarsByTf, subscribed>>

ServerTakes ==
    /\ chartWire # <<>> /\ chartWire' = Tail(chartWire)
    /\ LET m == Head(chartWire) IN
          \/ m.type = "SUBSCRIBE" /\ Subscribed(m.chart)
          \/ m.type = "HISTORY" /\ FetchHistory(m)
    /\ UNCHANGED <<now, chart, state, series, paging, losses>>

\* What the vendor sends is stored, and the page is read again.
PageFetched(f) ==
    /\ f \in fetches /\ fetches' = fetches \ {f}
    /\ table' = saveBars(f.m.chart, Fetched(f.m.before, f.missing))
    /\ LET found == {t \in table'[f.m.chart] : t < f.m.before}
           result == [bars |-> Newest(found, Page), more |-> Cardinality(found) > Page]
       IN  replies' = Append(replies, HistoryResponse(f.m, result))
    /\ UNCHANGED <<now, historyBarsByTf, subscribed, chartWire, chart, state, series, paging, losses>>

PageNotFetched(f) ==
    /\ f \in fetches /\ fetches' = fetches \ {f}
    /\ replies' = Append(replies, HistoryResponse(f.m, f.result))
    /\ UNCHANGED <<now, table, historyBarsByTf, subscribed, chartWire, chart, state, series, paging, losses>>

mergeHistoryBars(previous, incoming) ==
    IF previous = {} THEN incoming ELSE Newest(previous \cup incoming, MAX_HISTORY_BARS_PER_TF)

\* What a context starts the chart with is sent again to a session that still has the chart.
SentAgain(c, history) ==
    /\ historyBarsByTf' = [historyBarsByTf EXCEPT ![c] = history]
    /\ replies' = IF subscribed = c THEN Append(replies, buildInitState(c, history, table'[c])) ELSE replies
    /\ UNCHANGED <<now, subscribed, fetches, chartWire, chart, state, series, paging, losses>>

\* ensureHistoryBars: the context's own refresh. One that changes nothing is left out.
HistoryRefreshed(c) ==
    LET page == Fetched(Edge, Target)
        merged == mergeHistoryBars(historyBarsByTf[c], page)
    IN  /\ page # {} /\ (merged # historyBarsByTf[c] \/ ~(page \subseteq table[c]))
        /\ table' = saveBars(c, page)
        /\ SentAgain(c, merged)

\* The vendor fails, or there is none: the newest of the store take the place of what there was.
HistoryNotRefreshed(c) ==
    LET stored == queryBars(c, Edge, Fallback).bars
    IN  /\ stored \notin {{}, historyBarsByTf[c]}
        /\ UNCHANGED table
        /\ SentAgain(c, stored)

\* The open bar closes, is stored, and the next one begins; the session is told of both.
BarCloses ==
    /\ now < MaxNow /\ now' = now + 1
    /\ table' = [c \in Charts |-> table[c] \cup {now}]
    /\ replies' = Append(replies, [type |-> "BAR", chart |-> subscribed, closed |-> now, open |-> now + 1])
    /\ UNCHANGED <<historyBarsByTf, subscribed, fetches, chartWire, chart, state, series, paging, losses>>

\* Retention: bars from before a moment go.
PurgeBars(cutoff) ==
    /\ table' = [c \in Charts |-> {t \in table[c] : t >= cutoff}]
    /\ kept' = {t \in kept : t >= cutoff}
    /\ replies' = [i \in DOMAIN replies |-> StillStored(replies[i], cutoff)]
    /\ UNCHANGED <<now, historyBarsByTf, subscribed, fetches, chartWire, chart, state, key, bars, historyBars, visit,
                   mixed, paging, losses>>

-----------------------------------------------------------------------------
(* The browser. *)

\* wsClient.subscribe: nothing is sent for what is there already.
SubscribeChart(c) ==
    IF chart = c /\ state = "ACTIVE" THEN UNCHANGED <<chartWire, state>>
    ELSE chartWire' = Append(chartWire, [type |-> "SUBSCRIBE", chart |-> c]) /\ state' = "PENDING"

StartOver ==
    /\ hasMoreHistory' = TRUE /\ isLoadingHistory' = FALSE
    /\ historyCursor' = None /\ lastHistoryRequest' = None /\ key' = None

handleSelectSymbol(c) ==
    /\ visit < MaxVisits /\ c.frame = chart.frame
    /\ chart' = c /\ StartOver /\ SubscribeChart(c)
    /\ bars' = NoBars /\ historyBars' = NoBars /\ kept' = {}
    /\ UNCHANGED <<server, replies, visit, mixed, losses>>

\* The bars stay on the screen until the snapshot is there.
handleTimeframeChange(c) ==
    /\ visit < MaxVisits /\ c.symbol = chart.symbol /\ c # chart
    /\ chart' = c /\ StartOver /\ SubscribeChart(c)
    /\ kept' = {}
    /\ UNCHANGED <<server, replies, bars, historyBars, visit, mixed, losses>>

mergeHistorySeries(old, new) == Cut(Over(old, new), MAX_CLIENT_HISTORY_BARS)

mergeBar(old, c, t) == Cut(Over(old, Of(c, {t})), MAX_CLIENT_BARS)

\* Pages keep no number: one that was asked for by an earlier series of the chart comes into this one.
PageOnItsWay(c) ==
    \/ \E f \in fetches : f.m.chart = c
    \/ \E m \in Range(chartWire) \cup Range(replies) : m.type = "HISTORY" /\ m.chart = c

\* A snapshot of another time frame than the user's is not taken; it makes the browser ask again, unless it
\* has asked. One of a series that is not on the screen starts it, one of the series that is there adds to it.
onInitState(m) ==
    IF m.chart # chart
    THEN /\ UNCHANGED <<chartWire, series, paging>> /\ state' = "ACTIVE"
    ELSE LET incoming == Of(m.chart, m.history)
             oldest   == IF m.history # {} THEN Min(m.history) ELSE Min(m.bars)
         IN  /\ state' = "ACTIVE" /\ UNCHANGED chartWire
             /\ IF key # chart
                THEN /\ key' = chart /\ visit' = visit + 1 /\ mixed' = PageOnItsWay(chart)
                     /\ historyBars' = incoming
                     /\ historyCursor' = IF m.history # {} THEN Min(m.history) ELSE None
                     /\ lastHistoryRequest' = None
                     /\ kept' = {t \in m.stored : t < oldest}
                ELSE /\ historyBars' = IF m.history # {} THEN mergeHistorySeries(historyBars, incoming) ELSE historyBars
                     /\ UNCHANGED <<key, visit, mixed, kept, historyCursor, lastHistoryRequest>>
             /\ bars' = Of(m.chart, m.bars)
             /\ UNCHANGED <<isLoadingHistory, hasMoreHistory>>

\* A bar is shown whatever time frame it is of.
onBar(m) ==
    /\ bars' = mergeBar(mergeBar(bars, m.chart, m.closed), m.chart, m.open)
    /\ UNCHANGED <<chartWire, state, key, historyBars, visit, mixed, kept, paging>>

Stale(m) == m.chart # chart

onHistoryResponse(m) ==
    /\ isLoadingHistory' = FALSE
    /\ IF Stale(m)
       THEN UNCHANGED <<historyBars, historyCursor, hasMoreHistory>>
       ELSE /\ historyCursor' = IF m.bars # {} THEN Min(m.bars) ELSE historyCursor
            /\ hasMoreHistory' = (m.more /\ m.bars # {})
            /\ historyBars' = mergeHistorySeries(historyBars, Of(m.chart, m.bars))
    /\ UNCHANGED <<chartWire, state, key, bars, visit, mixed, kept, lastHistoryRequest>>

\* What is of another symbol than the chart's is nobody's.
BrowserTakes ==
    /\ replies # <<>> /\ replies' = Tail(replies)
    /\ LET m == Head(replies)
           mine == m.chart.symbol = chart.symbol
       IN  \/ m.type = "INIT" /\ ~mine /\ state' = "ACTIVE" /\ UNCHANGED <<chartWire, series, paging>>
           \/ m.type # "INIT" /\ ~mine /\ UNCHANGED <<chartWire, state, series, paging>>
           \/ m.type = "INIT" /\ mine /\ onInitState(m)
           \/ m.type = "BAR" /\ mine /\ onBar(m)
           \/ m.type = "HISTORY" /\ mine /\ onHistoryResponse(m)
    /\ UNCHANGED <<server, chart, losses>>

\* The user scrolls near the oldest bar: the next page is asked for, once.
PageOlder ==
    /\ ~isLoadingHistory /\ hasMoreHistory
    /\ DOMAIN bars # {} \/ DOMAIN historyBars # {}
    /\ LET cursor == IF historyCursor # None THEN historyCursor
                     ELSE IF DOMAIN historyBars # {} THEN Min(DOMAIN historyBars) ELSE Min(DOMAIN bars)
       IN  /\ cursor # lastHistoryRequest
           /\ lastHistoryRequest' = cursor /\ isLoadingHistory' = TRUE
           /\ chartWire' = Append(chartWire, [type |-> "HISTORY", chart |-> chart, before |-> cursor])
    /\ UNCHANGED <<server, replies, chart, state, series, historyCursor, hasMoreHistory, losses>>

\* The connection is lost with all that was on its way; the next one starts with the opening chart and asks
\* again for the one that is shown, if it was ever asked for.
Reconnect ==
    /\ losses < MaxLosses /\ losses' = losses + 1
    /\ fetches' = {} /\ subscribed' = OpeningChart
    /\ historyBarsByTf' = [historyBarsByTf EXCEPT ![OpeningChart] = primeHistoryBarsFromStore(OpeningChart)]
    /\ replies' = <<buildInitState(OpeningChart, historyBarsByTf'[OpeningChart], table[OpeningChart])>>
    /\ \/ chartWire' = <<[type |-> "SUBSCRIBE", chart |-> chart]>> /\ state' = "PENDING"
       \/ chart = OpeningChart /\ chartWire' = <<>> /\ state' = "UNSUBSCRIBED"
    /\ UNCHANGED <<now, table, chart, series, paging>>

ChartInit ==
    /\ now = Edge
    /\ table \in [Charts -> SUBSET (1..(Edge - 1))] /\ historyBarsByTf = [c \in Charts |-> {}]
    /\ subscribed = OpeningChart /\ fetches = {}
    /\ chartWire = <<[type |-> "SUBSCRIBE", chart |-> OpeningChart]>> /\ replies = <<>>
    /\ chart = OpeningChart /\ state = "PENDING" /\ key = None
    /\ bars = NoBars /\ historyBars = NoBars
    /\ historyCursor = None /\ lastHistoryRequest = None /\ isLoadingHistory = FALSE /\ hasMoreHistory = TRUE
    /\ visit = 0 /\ mixed = FALSE /\ kept = {} /\ losses = 0

ChartNext ==
    \/ ServerTakes \/ BrowserTakes \/ PageOlder \/ BarCloses \/ Reconnect
    \/ \E f \in fetches : PageFetched(f) \/ PageNotFetched(f)
    \/ \E c \in Charts : HistoryRefreshed(c) \/ HistoryNotRefreshed(c) \/ handleSelectSymbol(c) \/ handleTimeframeChange(c)
    \/ now = Edge /\ PurgeBars(Retained)

ChartSpec == ChartInit /\ [][ChartNext]_chartVars

-----------------------------------------------------------------------------
(* Properties. *)

\* historyBeforeLive: what is drawn left of the live series.
historyBeforeLive == {t \in DOMAIN historyBars : \A u \in DOMAIN bars : t < u}

\* A series that was started and not left again shows one chart only, and its pages leave no hole: every
\* bar that the store has had since the snapshot that started it, from the oldest one shown on, is shown,
\* however pages, snapshots, live bars, purges and lost connections mix; unless a page that an earlier series
\* had asked for was still on its way when this one was started.
PagesCoverTheBars ==
    key = chart /\ DOMAIN historyBars # {} =>
        /\ \A t \in DOMAIN historyBars : historyBars[t] = chart
        /\ ~mixed => \A t \in kept : t >= Min(DOMAIN historyBars) => t \in historyBeforeLive
=============================================================================
