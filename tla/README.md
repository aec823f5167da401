# DeepTrade: a TLA+ verification project

DeepTrade is a futures order-flow terminal: a Node/TypeScript server
(`server/src`) takes trades from one vendor feed (Databento, GLBX.MDP3, ES),
commits them to SQLite, folds them into bars, profiles and alerts, and serves
them over WebSocket and REST to a React client (`client/src`).

The server is one Node process, and so is each browser: a handler runs to its
next `await` without interruption, so the interleavings that matter are those of
promises, timers, socket callbacks, several browser sockets and Stripe's calls.
Processes share only the ledger of approvals and, over time, the database. What
is hard to test here is what happens between two awaits, between a commit and
what follows it, across a restart, and in an order of arrival nobody wrote down.

## The system and its parts

| Part | State it keeps | Operations | Talks to | Hard because of | Modules |
|---|---|---|---|---|---|
| Approval ledger and runtime gate: `approvalLease.ts`, `ordinaryRuntime.ts` | rows of `approval_leases`, a clock high-water mark (disk); profile, counters, deadline | reserve at boot, `allows`, `claimConnection`, `subscription`, `ack` | live client, operator | crashes, a second process, clocks set back | `ApprovalLease`, `OneShotApproval` |
| Live client: `databento/liveClient.ts` | socket, phase, generation, timers, waiters; buffer, metadata, version | connect, data, close, error, disconnect, `waitForLive`, decoding | gate, feed | callbacks that re-enter, expiry while data is worked through, bytes cut anywhere | `OrdinaryClient`, `Wire` |
| Feed of a context: `feedHealth.ts`, `startFeed`, `stopFeed`, backfills of `marketContext.ts` | phase, tokens, buffered trades, fetches | start, stop, expire, block, dispose, observe, backfill | client, browsers, vendor history | callbacks of a feed that was replaced, a stop at any await | `Feed` |
| Trades of a context: `marketContext.ts`, table `trades` | seen trades, contract, latches, engines, history | `handleTrade`, `addSubscriber` | client, store, engines, sockets | crash between commit and fan-out, SQLite outcomes nobody knows | `TradeIngestion` |
| Context manager and sessions: `marketContext.ts`, `session.ts`, `index.ts` | contexts, subscribers, cleanup timers; owners, generations, epochs | `subscribe` (with its await), `unsubscribe`, cleanup, revocation, `disposeAll` | browsers, feeds | calls that resume after what they were for is gone | `Subscriptions` |
| Engines: `footprintEngine.ts`, `profileEngine.ts`, `vwapEngine.ts`, `tapeEngine.ts`, `microstructure/engine.ts` | bars, levels, running sums, windows | `processTick`, queries | contexts, replay, charts | late ticks, duplicates, window limits | `Engines`, `Tape` |
| Replay and backtest: `replaySession.ts`, `backtestEngine.ts` | rows, cursor, speed, engines | play, pause, speed, seek, stop | sessions, live stream | timers against seeks and closes | `Replay` |
| Chart history: `chart/*`, `databento/client.ts` | checkpoints, gaps, a cache | bars, footprint, delta, VWAP, large trades, profiles | store, vendor | cut and late answers that are recorded as complete | `ChartHistory` |
| Alerts: `alerts/*` | rules (disk), duplicate keys, deliveries | evaluate, create, update, delete | context, sessions, plans | rules that change while they fire, limits that shadow each other | `Alerts` |
| Book and heatmap: `orderbook.ts`, depth tables, `depthCodec.ts` | book, ring, queue, rows | depth messages, sampling, flush, purge, heatmap | feed, store, vendor | lost changes, failing batches, three sources of one answer | `Depth` |
| Database file: `marketDataStore.ts`, `maintenance.ts` | schema version, backups, tables | open, migrate, purge, maintain | all | a kill between the steps of a migration, a purge beside writers | `Storage` |
| Accounts, plans, entitlements: `auth/entitlementService.ts`, `billing/*`, routes of `index.ts` | users, subscriptions, entitlements (disk), a map of them (memory) | register, login, admin routes, Stripe events, revocation | Stripe, operators, sessions | late, repeated and rolled back events, two copies of a plan, crashes | `Accounts` |
| Front door: `loginGuard.ts`, `token.ts`, `passwords.ts`, `rateLimiter.ts` | failures and locks per key, revoked tokens, budgets | login, register, logout, check, evict | routes | eviction of what is locked, restarts | `Access` |
| Instruments: `futuresConfig.ts`, `instrumentSync.ts`, `instruments/`, `symbols/` | catalogue, registered records, specs, master | lookups, synchronisation | vendor, routes | lookups between the answers of a synchronisation | `Instruments`, `Catalogue` |
| Options and quotes: `options/*`, `optionsRoutes.ts`, `quoteBoard.ts`, `quant/*`, `gexEngine.ts` | chains, ledger of costs, caches | chain, exposure, surface, quotes | vendor | requests that wait at once, windows at the end of a chain | `Options`, `Vendor` |
| Calendar: `calendar/`, `sessions/` | none | open, hours, session | ingestion, charts | boundaries of a day | `Calendar` |
| Browser connection: `services/websocket.ts` | socket, timers, subscription | connect, disconnect, subscribe, close, stale check | server | debounce and retry against mounts and closes | `Connection` |
| Browser panes: `websocket.ts`, `App.tsx`, `SecondaryChartPane.tsx` | what each chart wants, requests on the connection | ask, withdraw, reconnect | server | lost requests, the order of resent ones | `PaneReconnect` |
| Main chart: `App.tsx`, `chartHistory.ts`, FETCH_HISTORY | bars, pages, cursor | INIT_STATE, refresh, page, switch | server, store, vendor | answers that overtake each other | `Chart` |
| Screen: `App.tsx` | what is shown of each kind, pending trades | select, dispatch, flush, range profile | connection | messages of the symbol before, requests the server refuses | `Terminal` |
| Footprint canvas: `FootprintCanvas.tsx`, `viewportMath.ts` | viewport, fit, drag, range | gestures, two effects, drawing, hit test | chart | effects that write what both read | `Viewport`, `Canvas` |
| Heatmap widget: `LiquidityHeatmapWidget.tsx` | frames, playhead, zoom, pixels of the display | fetch, play, zoom, resize, hover | REST | answers that replace what the timer counts, two measures of one width | `Heatmap` |
| Settings, vendor JSON, routes, metrics, MCP server, acceptance runtime, panels, scripts | | | | I/O, formatting, rendering | not modelled |

`PROJECT.json` lists the source files of each part, and under `hazards` what can
go wrong at which line.

## The modules

Every module names its abstractions in its header; operators carry the names
of the code where there are any, and the map in `PROJECT.json` gives the lines.
A definition under the comment "A fault" is a plausible bug of the definition
after it; TLC has to find the property violated when it takes its place.

### Feed and trades

**OneShotApproval** is the abstract promise: an approval is handed to one boot,
which may use it once to connect, then once to subscribe, then once to count an
acknowledgement. **ApprovalLease** is the ledger and the gates: `BootApproved`
and `BootDenied` are the constructor, `Poll`, `Check*`, `Consume*` and `Perform`
the two transactions of a gate call with everything that may come between them;
`Crash`, `Revoke`, `Tick` and `SetWallClock` are the environment.
`ImplementsOneShotApproval` is the refinement: the holder is the owner of the
row, the users of a budget are the boots whose gate counted it.

**OrdinaryClient** is one client under an approval. A `data` handler is
`DataStart`, one step per record, `DataEnd`, because the context it calls may
disconnect before it returns, and the clocks run on. What the handler, or
`connect`, goes on with after a callback is in `inside`: `OnStatus` is the
callback, which past the expiry is a `Cut`, and `Resume` what follows all the
same. Gate calls are one step
here (`ApprovalLease` splits them) and may always be denied. **Wire** is what
that handler makes of bytes: lines, metadata and records are units of cells,
`Data` takes a chunk of any length, `Handle` goes through the phases, `Seen` is
what there was to see in the units that arrived, however they were cut.

**Feed** is a context's feed: `startFeed` and `stopFeed` follow each other on a
chain of promises, `ChainStep` runs to the next await; callbacks carry the token
of their start; `observe`, the health's expiry and the cleanup timer are steps
of their own, as are the rounds of both backfills. A restoration reads by the
time of the event, as the code does: a late trade (`OldIds`) that is held back
is among the rows, and `overlap` names those a restoration took from under the
buffer. `stray` says that a feed which was replaced is heard. **TradeIngestion** is a trade
from `handleTrade` to the engines and browsers: `Commit` and `Publish` are
separate because the process may die in between, `SaveFails`, `OutcomeUnknown`
and `BarWriteFails` are SQLite's answers, `Attach`, `Restore` and `RestoreFails`
are `addSubscriber`, `Recreate`, `Crash` and `Boot` the end of a context or
process. **Depth** is the book with the numbers of its changes, the gap rows,
whose writing may fail unseen, the ring, the sampled queue and its batches, the
table with its purge, and the heatmap that is answered from table, vendor or
ring. A feed may be started again in its context (`FeedRestart`): the vendor
counts anew, book and last number stay.

### What is made of trades

**Engines** holds footprint, profile and VWAP as records with a pure
`processTick`; **Replay** EXTENDS it with one chart between the live stream and
a replay, **ChartHistory** with the charts of the past, whose requests wait once
for the vendor while trades are stored, purged and lost. **Tape** is the speed
window, absorption and large trades, and the minute of the microstructure.
**Alerts** has users who write rules by requests that wait for their body, and
the four evaluations of the market, each a pass over the rules in any order; a
history of what a user was sent is what its limit is stated about.

### Sessions, accounts, data at rest

**Subscriptions** is the context manager with the sessions: `Request`,
`Withdraw`, `Drop`, `Closed`, `Revoke`, `CleanupFires` and `Shutdown` are events
of the loop, `calls` holds the calls of `subscribe` that wait for their context,
`Connected` ends the wait and `Resume` is the rest of the call after its
`await`, which runs before the next event.

**Accounts** has a plan in its two copies: `sub` and `rows` on disk, `memory`
in `EntitlementService` for the users in `loaded`. `ReplaceInMemory` and
`ReplaceRows` are what the loops of `applyPlan` and of an immediate cancellation
come to; every way to change a plan uses them: `Deliver` (one Stripe event in
its transaction), `Register`, `Login` (with the admin secret), `AdminPlan`.
`RollBack` is a transaction that fails after the map was changed, `CrashInPlan`
a process that ends inside `applyPlan`, which is no transaction outside Stripe.
Admin routes look their user up and then wait for a body. The history variables
`stale` and `half` name the users a rollback or a crash left with copies that
differ; they guard nothing. **Access** is the door before it: budgets per
address, failed attempts per name and address with their eviction, tokens that
are revoked in memory and in a table, and the operator account of a start. Its
history `guesses` keeps the failures of a key since its last success. A lock
starts a count of its own, so a window may see M-1 failures before the lock ran
out and M after it: 2M-1, for M failures and a lock at least as long as the window.

**Storage** is the life of the database file: the steps of the
migration with their backup, the two purges, maintenance, kills between any two.
**Instruments** has the tables and the pure functions over them, **Catalogue**
the three places that hold a symbol's tick value, **Options** the figures of a
chain, **Vendor** what is paid for and cached, **Calendar** the sessions. A request for
a chain is `AskChain`, `ChainAnswered` (definitions and cache) and, behind the
await of the cache, `ChainCharged`; each read and write of the store may fail
without the route being told, and the histories `paid`, `again` and `blind` keep
what that cost. `flight` are the requests between these steps, in order of their
start.

### The browser

**Connection** is one socket with its timers; **PaneReconnect** EXTENDS
`Subscriptions` with a browser: `wanted` is what the user looks at, `wire` the
requests on the open connection; `Lost` drops both, `Open` sends them again in
the order of `onopen`. **Chart** is the series of bars, from the tables of the
server to the arrays of `App.tsx`; **Terminal** keeps for each part of the
screen the symbols its content came from, and of the server what it makes of a
request: `RequestTaken`, `ServerRefuses`, `ServerDrops` (the limit of requests),
`ContextReady`, `ContextFails`, `EntitlementRevoked`; `verdict` is what became
of the last one. **Viewport** is the window on the bars
with every gesture and the two effects, **Canvas** EXTENDS it with what is drawn
and what the pointer finds, **Heatmap** is the widget: the canvas is measured in
pixels of the display (`plotWidth`), the pointer in pixels of the page
(`hoverWidth`), and `ratio` is between them.

The **MC_** modules instantiate these. Parts that share no state are put next to
each other: an initial state chooses one (its `world`), the others stand still,
so states add up instead of multiplying, and a property speaks of its own world.
An MC module EXTENDS the parts that theorems are about and takes the others by
INSTANCE; **Nothing** declares the value `None` that the extended ones share.
The **Proofs** modules hold the theorems.

## What each run checks

| Run | Shows | Bounds |
|---|---|---|
| `approval` | A budget is never spent twice, out of order, or while expired, revoked or behind the clock mark; the ledger only advances and is ahead of the wire; it implements `OneShotApproval` | 3 boots on one approval: a crash, its restart and a rival; times 0..3, window 2 |
| `client` | Live only when paid, nothing outlives the socket but a flag no context hears of, the end is reported, trades only in time, whatever a callback does inside the handler; an expired or revoked approval closes the socket in the end | 2 callers for 1 place of waiting, expiry at 2 of times 0..3, 2 trades |
| `feed` | One feed at a time, LIVE only on evidence, a stopped feed publishes nothing and a replaced one is not heard, no trade is lost to a backfill or counted twice but a late one restored while it was held back, the freshest bar stays, what is left is released | 2 browsers, 2 trades of which one comes late, 2 bars and a read of 1, an approval of 3 ticks of 4 |
| `ingestion` | What is published is durable and counted once per engine, blocks are final, contracts never mix, a restored engine has every row of the window | 4 identities of 2 contracts and a legacy row, 2 payloads, 2 time frames, a cache of 1 and a history of 2 so that both overflow, times 0..2; two identities and the payloads are interchangeable |
| `ingestion_recent` (violation) | One old trade in the window keeps recent ones from being restored | 3 trades, a day of 1 |
| `subs` | Owners, sessions and contexts agree; every owner is served what it asked for last, on one time frame per symbol; nothing comes back after a close; unused contexts are released. Beside it a browser's connection: one socket is heard, nothing is left behind, the open socket carries the chart, a lost connection comes back | 1 session, a chart and a pane, 2 symbols, 2 time frames, 3 requests per owner, slow feeds; 2 mounts, 2 series, a back-off of 2 |
| `subs_conflict` (violation) | The fallback of a revocation can reject with nobody to catch it | as `subs`, prompt feeds |
| `browser` | Charts are served again after lost connections; the series has no hole behind its cursor; the screen shows the symbol it names, its choice is served or what became of it is known, a refusal is told; everything with a place is drawn, rows add up to their bar, the pointer finds what is drawn, the effects settle; the heatmap is of its frames and its pointer errs only as the display does | 2 connections, 2 choices; 2 time frames, pages of 1 and stores of 2 and 3 bars, 1 loss; 2 symbols, 2 switches and 2 connections, refusals, range profiles and a symbol chosen again in the first; 3 bars, 2 sizes, 3 events; 1 or 3 frames, 2 requests, displays of 0.8, 1 and 2 pixels to one of the page |
| `accounts` | Map and table agree, access is the plan in force, suspended users are out, views were granted, events apply once. Beside it the door: guesses and requests stay in bounds, no password is lost, a token that was signed out stays out over restarts, whoever gets one has shown the password or the secret | 1 user, 1 connection, 2 events, or 1 event and 1 operator, periods of 1 in times 0..1; 4 starts of the server, 2 failures in a window of 2, tables of 2 keys for 3 addresses, 5 requests |
| `analysis` | A chart shows the stream or the replay and never a mix; what is called complete is all there was, and charts add up to their trades; alerts keep their cooldown, their limit, one announcement per key and the plan's number of rules | 5 trades over 3 bars, two at one time, 2 bars stored; 4 trades, ranges cut at 3, a vendor that is up to date, late, absent or ambiguous; 2 rules of one or two types, a key's life of 1, a cooldown of 2, a limit of 2 |
| `reference` | Records of a symbol agree wherever they are looked up and never change; what is paid for is charged once, or owed, or its write failed; a month is over its cap only by requests under way at once and by those that could not read the ledger, a chain is paid for twice only when asked for at once or not kept; an old quote does not pass for fresh; walls, flip and totals are those of the chain; a session is one stretch | 2 synchronisations of 3 datasets with two answers for futures, a restart; 2 underlyings, which are interchangeable, 3 paid answers, 2 requests at once, 1 that cannot read the ledger, a cache of 1 tick, 2 months; 2 quotes; all chains of 5 strikes with windows of 3 and 4, 5 spots; 2 weeks by quarter hours in 2 zones |
| `store` | Records do not depend on the cut of the bytes; volume is absorbed once and windows are whole; changes a feed missed are told or their row failed, what is kept was the book once; a migration loses no row; purges take only old rows | 12 streams in chunks of 1 to 7 cells; 4 of 5 trades against 2 books; 3 changes of 2 feeds in one context, a ring and batch of 2, a queue of 3; 3 old files and 2 starts; 5 days |

Why these are enough: each bound lets its limit be reached and passed (a cache
that evicts, a clock past the expiry, a queue that overflows, a chunk that ends
in the middle of a header), and the properties relate at most two actors on one
object, a rival and a victim: two boots, two owners, two connections, two
events, two requests that wait at once. `Accounts` has users that never touch
each other's state, so one is enough for TLC; the theorems are for any number.

Several parts are looked at beside each other in one run, and a property is then
a conjunction: what it is made of is in the MC module, with the code it is
about. Deadlock is checked but where the system really stops: `approval` (every
boot crashed), `subs` (after shutdown), `feed` (disposed and at the end of its
clock), and the runs whose worlds come to the end of their trades, requests,
days or events; a violation run ends at its counterexample.

### Fairness

`OrdinaryClient`: `Resume` and `DataEnd` (a synchronous handler goes on and
returns; strong for `DataEnd`, which is not enabled inside a callback: the input
of a handler is finite), `ApprovalTimer`
(`setTimeout` fires) and a poll that finds the approval gone (`setInterval` goes
on while the client is open). Nothing of the vendor, the operator, the ledger or
the clocks is fair. `Feed`: settled promises go on, connect and disconnect
settle (those of `registry.ts` do not wait for the vendor), the grace timer
fires, fetches end (they time out). `Subscriptions`: `Resume` (a settled promise
runs its continuation) and `CleanupFires`; feeds that connect are not fair, so
`UnusedIsReleased` speaks of contexts that are ready. `Connection`: an armed
retry fires, a socket that is closing closes, and a server that is asked again
and again accepts in the end (strong fairness of `Opened`): the only assumption
about the other side, and the weakest under which coming back can be promised.

## What is proved

`tlapm` proves these for every value of the constants, under the `ASSUME`s of
the modules (bounds are naturals, `None` is none of the values, the primary
owner is an owner, ...), which TLC evaluates in the runs.

| Module | Theorems | The argument |
|---|---|---|
| `ApprovalLeaseProofs` | type correctness, the three invariants, both action properties, and the refinement of `OneShotApproval` | `LeaseInv`: a gate's counters are in its own row, and a pending use was committed; rows only grow, so nothing another process does can undo it |
| `OrdinaryClientProofs` | `ClientInv` and what it implies, `DeliveredInTime` | a handler of the current generation works on an open socket, one that goes on after a callback does so or was cut off by the expiry, and every exit goes through one `Settled` |
| `FeedProofs` | `ToldTheTruth`, `StepsAreCurrent` | `FeedIInv`: the token in force is that of the last feed; a health that runs is that of an open one; a disposed context has let go of its feed or a stop is queued; what the history lacks of a start's trades is held back; a trade that is in the engines and held back as well is a late one of `overlap`; a feed that is not the active one is heard by nobody |
| `TradeIngestionProofs` | `IngestionInv`, durability, counting once, one contract, blocks, permanence, `RestoredIsComplete` | the trade in flight is in the table and in nothing that counts; an empty history means nothing was handed out; every row a restored engine lacks is the one in flight, or comes after the boundary of the restoration |
| | `MissedIsTold`, `KeptIsTrue` of `Depth` | `StreamInv`: once the changes of a feed are followed, the number of the last that came is one of its own and not that of a lost one; before, it may be any number of the feed before; `KeptInv`: what is kept anywhere, or on its way from the vendor, is of tops that were seen, and the queue ends with the last sample |
| | `SessionIsOneStretch` of `Calendar` | `CalendarInv`: a minute of any day; the session rolls where the halt ends, and no step of the clock passes over the whole halt |
| `SubscriptionsProofs` | `SubscriptionsInv`, served owners, one frame, closed is forgotten, unused is scheduled, disposed is empty | a context's subscribers are the sessions attached to it, which are those with an owner on it; calls that wait belong to contexts that connect |
| | `OthersAreRestored` of `PaneReconnect` | `BrowserIInv`: the wishes the server has served and the requests on the wire lead, one after the other, to what the browser asked for last |
| `AccountsProofs` | `AccountsInv` and its parts | what is valid after `ReplaceInMemory` and `ReplaceRows` is the new grants and nothing else, if map and table agreed before; `CanceledIsOver` is needed because a failed payment turns `canceled` into `past_due` |
| `ServerProofs` | `DoorHolds`, `EntryIsProven` of `Access` | `DoorInv`: what the guard counts are the last guesses of its key, and those older than the lock are outside of every window a new one is in; what a limiter holds are the last requests of an address, and the others are out of the window; a row of `revoked_tokens` goes when its token has expired |
| | `SpendIsBounded` of `Vendor` | `SpendInv`: the requests in flight count against the cap as if they were charged, but for those that could not read it; each answer under way has a place of its own among the paid, which are charged, owed or lost; what was paid for is in the table and is asked for again only by a request that overlapped or could not find it |
| | `AlertsAreRare`, `RulesWithinPlan` of `Alerts` | `AlertsRareInv`: an alert that was written down is in the row of its rule, however often that is edited; a key of this process is in the cache or older than its memory; the alerts of a user that are in the limit are the last it was sent, and all of them are counted |
| | `QuotesAreHonest` of `Vendor` | `BoardInv`: every symbol has its entry with an age, and a request adds to its board what is known of its next symbol then |
| | `RecordsAgree`, `InstrumentNeverChanges` of `Catalogue` | `CatalogueInv`: every record that is registered has the tick value of its own numbers and those of its root, and every stored specification is sound; an answer leaves one row for each of its raw symbols; the table of the 67 instruments is gone through row by row |
| | `AbsorbedOnce`, `SpeedIsOfItsTime`, `MinuteIsWhole` of `Tape` | `AbsorbInv`: what was reported of a price and side and what its level still counts is no more than was traded there; `MinuteInv`: the minute is an end of the tape, and all that is before it is older or past the limit |
| | `ExposureIsOfTheChain` of `Options` (the run's `ExposuresAreTrue`, for any chain) | a statement without time: a set of strikes in order has each once, the window around the closest one stays in the chain and holds it, the totals of the strikes are those of the sides (`PartByPart`: what holds of the empty set and of one element more holds of a finite set), and where the cumulated gamma turns the strike's own is above zero |
| | `MigrationKeepsRows`, `OnlyOldRowsGo` of `Storage` | every backup is of the file as it was found, and past the check one is whole; a purge that goes on keeps cutoffs the days only leave behind |
| `BrowserProofs` | `BrowserIsTidy` of `Connection` | `ConnectionIInv`: each mount accounts for one socket at most, the one in `ws` is heard by the client, and a close is intended exactly while the application is gone |
| | `ScreenIsTrue` of `Terminal` | `ScreenIInv`: unless the chosen symbol must be asked for again, the last request on its way is for it, or the server awaits its context, or it is served and its snapshot came or is on its way, or the first message will ask for it, or the server refused, dropped or revoked it; after a refusal the error came or is on its way, and is the last word unless a snapshot follows |
| | `HeatmapIsTrue` of `Heatmap` | `HeatIInv`: the playhead is past the last frame only by one tick, and only while no timer counts with more frames than there are; the rest follows from how columns, culling and the axis are computed: the width of a column and the price at a height grow with the plot, so the two measures of it can only be off in one direction |
| | `PagesCoverTheBars` of `Chart` | `ChartIInv`: every history of a context, and every snapshot on its way, has all that the store has from its oldest bar on, as far as a refresh does not jump over it; every request and every page of the series that is on its way closes up with the bars that are there |

None of the properties is inductive alone; the invariant of each module is their
conjunction with its types and what they rest on, and was itself checked by TLC
before it was proved. The proofs have a lemma per action, and lemmas for what
actions share. `LeastOf` (`ServerProofs`, `BrowserProofs`) takes the least
number with a property from the library's theorem about well-founded relations,
which is how a table finds its oldest entry and an evaluation its first new key.
It also stands in for an induction: an evaluation of `Alerts` goes over the
rules one after the other, and its proof is that no number of passes comes first
at which the invariant fails; that a finite set has a least and a greatest
member (`LeastIsLeast`), that a union of finitely many finite sets is finite and
that of many bars so many are left (`ManyAreLeft`) are proved the same way. So is
what the recursive definitions compute that a theorem needs: the equation of
`Gcd` has a solution and no two, the rows `upsertMaster` leaves are those of the
last record of an identifier, and the fold of `Total` grows by the amount of a
new member, whatever the order the fold takes.

Some theorems have a hypothesis the code does not always give.
`OthersAreRestoredTheorem` needs `PromptFeeds`: it is what the feeds of
`registry.ts` do, and a call that waits for a slow feed may resume after its
owner asked for something else. `DoorHoldsTheorem` is under `AccessAssumption`: at
least two failures and a lock no shorter than the window, as `loginGuard.ts` has
them. Proving it found that the bound written first, 2M-2, is wrong: TLC then
showed M-1 failures before a lock ran out and M after it in one window.
`HeatmapIsTrueTheorem` takes frames in the order of time with one level at a
price of a side, as the depth store keeps them. `PagesCoverTheBarsTheorem` is under
`ChartAssumption`: the vendor has every bar before the session that its own page
reaches back to, but for the newest, fewer than a context starts with. Where the
vendor lacks an older bar that the store has, a refresh that is merged into the
newest of the store jumps over it, and TLC shows the hole (`marketContext.ts:50`).
`SessionIsOneStretchTheorem` is under `CalendarAssumption`: the clock is looked at
at least once in the hour of the halt. `RecordsAgreeTheorem` is under
`CatalogueAssumption`: in one answer of the vendor an identifier stands for one raw
symbol and a raw symbol has one expiration, and no symbol has both a month and a
tail; that of `Tape`, of `Depth` and of `Options` is only about types and limits
above zero, and the contracts that count for an exposure have numbers.

Only model-checked: liveness, which needs fairness and ENABLED (`ExpiryCloses`,
`RevocationCloses`, `ComesToRest`, `UnusedIsReleased`, `ConnectionComesBack`); the figures of
`Engines`, `Replay`, `ChartHistory` and `Canvas`, most of which are folds over
sequences of any length, so that what they compute for every input needs
induction over data; of `Options`, the surface and the impact model. `Wire` is written with
recursive operators. What is to be proved about is written with set
comprehensions where a sequence would be filtered, because the prover cannot
expand `SelectSeq`: the table of `Depth` is a set of rows. A sum has a function
for its summand, not an operator, for the same reason.

## Where code and text disagree

| Run | Finding |
|---|---|
| `ingestion_recent` | `marketContext.ts:1167` takes the first of rows sorted ascending for the newest |
| `subs_conflict` | `index.ts:408` and `marketContext.ts:1390`: a rejection nobody handles |

Met while reading, without a run. Most of it is behaviour of the models too, and
the properties it touches set it apart.

- *Client*: the context disconnects from inside a callback when it finds the
  approval expired (`marketContext.ts:360`, `:108`), and the client does not look
  again before it goes on: after an acknowledgement it takes itself for connected
  without a socket (`liveClient.ts:772`, `:775`), after `AUTHENTICATED` it may spend
  the subscription of a connection that is gone (`:679`), and after `CONNECTING` it
  opens a socket that neither timer nor poll watches any more, and that no
  context hears (`:464`, `:477`). `ClientInv`, `ExpiryCloses` and
  `RevocationCloses` set these apart by `expiryHandled`. Records that wait in the buffer are held against the deadline the
  client counts from its own start, which is later than the boot's if UTC was set
  back in between (`liveClient.ts:740`, `:442`, against
  `docs/PRODUCTION_SAFETY_PHASE_07_LIFECYCLE.md:40`). Before version 2 a message
  whose text says nothing counts as a heartbeat. The transports other than the
  approved one, with their reconnect, have no production caller.
- *Ingestion*: a late trade of the last session makes the next one reset profile
  and VWAP again (`marketContext.ts:558`, against the comment at `:551`); a bar
  it changes is not saved again (`:619`); restoration feeds one engine only
  (`:1181`). A feed that starts again in the same context stays UNAVAILABLE
  (`feedHealth.ts:51`). A failed fetch that ends late replaces cached bars
  without asking for its token. A late trade that is held back while history is
  fetched is restored by a browser that joins, because the restoration goes by
  the time of the event, and is counted again when the buffer is drained
  (`marketContext.ts:1159`, `:600`, `:966`); `CaughtUp` sets it apart by `overlap`.
- *Panes*: the default subscription of a new connection refuses a pane that
  wants the default symbol at another time frame, and nobody asks again
  (`index.ts:1636`, `websocket.ts:241`, against
  `docs/PRODUCTION_SAFETY_PHASE_06_MULTI_SYMBOL.md:40`).
- *Depth*: the time of the last message is set before the gap is recorded, so
  the gap begins at its end (`marketContext.ts:748`, `:771`); a gap row that
  cannot be written is dropped without a word (`marketDataStore.ts:1160`); a feed
  that is started again in its context is measured with the last number of the
  one before (`marketContext.ts:328`), so what is lost before its first message
  is not told, and a first number well above it is told as a gap that is none;
  snapshots whose
  number a restarted vendor repeats are dropped by the table's key; a narrow
  fetch that is stored first makes a wider request answer with its part as all;
  two fetches of one range store it twice; throttled updates have no last send.
- *Engines*: of trades that share the earliest time the last to arrive opens the
  bar (against `footprintEngine.ts:106`); delta ignores trades of an unknown
  side, which CVD takes as sold; a trade far too late empties the window of the
  tape's speed; a buy absorption in the same tick takes the place of the sell's.
  Engines of a replay are anchored elsewhere after a seek than at its opening.
- *Chart history*: a range is called complete that is not, when the vendor was
  behind, a page was cut, or two trades the vendor cannot name were one; twice
  the asked bars from the start of a range drop its newest; 5000 rows are read
  where 50000 are asked for; an interval of 90 minutes is made of hours.
- *Alerts*: a book with walls on both sides fires twice past the cooldown; keys
  outlive their 60 s while there are fewer than 1000; a suppressed alert has
  used up its key (`alertEngine.ts:333`); the client reads `history` where the
  server sends `items`; a deleted user's rules stay.
- *Accounts*: an update sent before the deletion revives the subscription
  (`stripe.ts:171`, against the comment at `:163`); a late deletion cancels the
  subscription bought after it (`stripe.ts:189`); an older update wins over a
  newer one while the subscription is active (`stripe.ts:178`); a rolled back
  downgrade keeps its grants in memory and, retried, leaves old rows in the
  table (`billingService.ts:37`); every renewal revokes first and closes or
  resets the sessions of a paying user (`billingService.ts:39`); an admin
  request that waits for its body writes an erased account again
  (`index.ts:1364`); the end of a period takes no view away (`index.ts:1703`); a
  lapsed user has the free plan and no entitlements for it
  (`billingService.ts:114`); subscription events carry no reference to the user
  (`stripe.ts:71`); an unknown plan is put on record as applied
  (`stripe.ts:137`); the plans' limits of sessions are not enforced
  (`index.ts:1601`); the boot reactivates the operator account (`index.ts:1506`).
- *Door*: a full guard table evicts the address while it counts the same
  attempt; a process that dies between `saveUser` and `setUserPassword` leaves
  an account without password; the admin check and `/auth/me` do not read the
  row again.
- *Instruments*: what is registered before a synchronisation keeps its defaults
  until the next start; the roots of datasets overwrite each other in order; a
  unit of measure of exactly 1 becomes 50; the comment at
  `marketDataStore.ts:1759` says the set of a provider is replaced, rows are only
  added. The continuous contract may be expired; the status engine is fed by
  nothing.
- *Options and quotes*: the cap on costs is read, the request awaited, the
  definitions written, the cache awaited, and the cost added to the month it is
  by then (`optionsRoutes.ts:73`); writes of definitions and of the ledger that
  fail are swallowed, so a chain may be paid for again or never be counted
  (`marketDataStore.ts:1696`, `:1726`), and a ledger that cannot be read counts
  as nothing spent; trades, quotes and statistics are not charged; an older, slower answer
  overwrites a newer quote; snapshots of exposure are never made, so their
  routes find nothing.
- *File*: a failed ALTER is swallowed; the statements of a purge are no
  transaction; a file with two rows of one dataset and symbol never opens.
- *Browser*: a page that is lost with the connection leaves the chart loading
  for good; a page of an earlier visit is taken for this one; paging ends after
  the first page a vendor filled; bars dropped from the live list are not moved
  to the history; choosing the symbol that is shown clears the screen and asks
  for nothing; a range profile is shown whatever the symbol is by then. A request
  the server refuses (`index.ts:1690`, `:1710`, `:1728`) or a symbol whose
  entitlement is revoked (`index.ts:385`) leaves the session with the symbol
  before or the standard one, beside a screen that names the other; a snapshot
  that comes after the refusal, of the request before it or of a pane, hides it;
  after a revocation the screen still says LIVE; a request over the limit of
  requests is dropped without an answer (`index.ts:1642`) and stays PENDING. An open
  socket that is used again after a disconnect has no ping. A fit runs on the
  bars of the time frame before. In the heatmap an answer of another range or
  symbol may come last and win, and looking right of the playhead shows frames
  to come. It draws with the width of the canvas, in pixels of the display under
  a scale of as many, and points with that of the page
  (`LiquidityHeatmapWidget.tsx:217`, `:441`, `:479`): on a finer display the
  newest frames are drawn beyond what is visible, and the pointer names a later
  frame and a lower price than those below it; `PictureIsTrue` says in which
  direction it errs. A resize clears the canvas until something else redraws it.

## What the models leave out

- *ApprovalLease*: the text of a profile, checked once at boot; the wait for
  SQLite's lock between reading the clock and the commit.
- *OrdinaryClient*: the paths of the client other than the approved one.
  *Wire*: records of books, which nobody is told of on that path.
- *TradeIngestion*: vendor history, off in the ordinary runtime (`Feed` has it);
  the retention job (`Storage` has it); what the engines compute (`Engines`).
- *Feed*: gamma refreshes, the finer states of health, gap rows.
- *Subscriptions*: feeds that take time to disconnect (no feed of the source
  does), `unsubscribe` of a symbol without an owner (no caller).
- *Accounts*: token expiry and logout (`Access` has them), data types and
  patterns (all plans have `*`), a cancellation at the end of the period (no
  caller), writes that fail without failing the transaction. A closing socket is
  taken as gone, which lets more connections in than the code. The reset to the
  default symbol is immediate; its interleavings are in `Subscriptions`. An
  event's reference to nobody and to an unknown user are one branch.
- *Access*: hashes and signatures are taken to be sound; origins and headers.
- *Alerts*: the history of alerts, texts, the chime. *Engines*: the estimated
  profile from bars (no caller), deviation bands, the snapping of prices.
- *Options*: the formulas of Black and Scholes are inputs: floating point is out
  of reach of TLC and of the provers. *Calendar*: the days of daylight saving.
- *Storage*: added columns, the background vacuum and the manifest of raw files
  (no caller). *Depth*: counts of statistics.
- *Connection*: a constructor that throws, round-trip times. *Terminal*: replay
  controls and layout. *Canvas*: colours, fonts, grid, labels and the pixels of
  the display; the gestures of the chart below it, which moves the same viewport
  (`CVDPanel.tsx:54`): its drag moves it sideways and its wheel sets the
  width of a bar, both from a viewport that may be a render old.

Not modelled at all: settings and the field by field decoding of vendor JSON,
routes that only read, metrics and the MCP server, the acceptance runtime (off
in the ordinary one), panels that show what a request returned, scripts,
deployment, end-to-end tests. They keep no state that another step could find
changed.

## Plan

1. Proofs, checked now on small instances: the hit test of `Canvas`.
2. Compositions: `Accounts` with `Subscriptions` (a revocation down to the
   context), `ApprovalLease` with `Feed` (the approval that a warmed context
   spends), `Connection` with `PaneReconnect`.
3. Refinements: an abstract "access is the plan in force" by `Accounts`, an
   abstract ordered stream of bars by `Chart`.
