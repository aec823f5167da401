--------------------------------- MODULE Feed ---------------------------------
(***************************************************************************)
(* The feed of one market context: startFeed and stopFeed, one after the   *)
(* other on a chain of promises; the callbacks of a feed, which carry the  *)
(* token of the start they belong to; the health that decides whether the  *)
(* browser is told LIVE; the backfill of history that runs beside the live *)
(* trades; and the cleanup of a context nobody watches.                    *)
(*                                                                         *)
(* A step runs from one await to the next.  Tokens are only ever compared  *)
(* with activeFeedToken, which only moves on: so the model keeps for each  *)
(* callback and call whether its token is still the active one.            *)
(*                                                                         *)
(* Two runtimes are modelled, as the process was started: "ordinary" has   *)
(* one approved connection that expires, and no fetches; "open" has a feed *)
(* factory of its own, as the tests inject, and fetches history.  Ages are *)
(* counted in ticks of one clock, and the health timer runs on every tick. *)
(* Left out: the states of health that browsers see as UNAVAILABLE like    *)
(* any other, the limits of the caches, the gap rows of a reconnection,    *)
(* and feeds of provider none, which never call.                           *)
(***************************************************************************)
EXTENDS Naturals, FiniteSets, Sequences

CONSTANTS
  Modes,       (* The runtimes to explore: of {"ordinary", "open"}.        *)
  Ids,         (* Trades.                                                  *)
  OldIds,      (* Those of events before the context; they may come late.  *)
  Bars,        (* Open times of the bars of one time frame.                *)
  OldBars,     (* Those the store has when the context is created.         *)
  BarLimit,    (* A read of the store gives the newest 300 bars.           *)
  FreshFor,    (* A trade proves a live feed for 30 seconds.               *)
  Lifetime,    (* Of an approval.                                          *)
  MaxTicks,    (* Bound of the clock, by mode.                             *)
  MaxJoins,    (* Bound on the browsers that attach.                       *)
  MaxFetches   (* Bound on the fetches of bars under way.                  *)

ASSUME FeedAssumption ==
  /\ Modes \subseteq {"ordinary", "open"}
  /\ IsFiniteSet(Ids) /\ OldIds \subseteq Ids
  /\ Bars \subseteq Nat /\ IsFiniteSet(Bars) /\ OldBars \subseteq Bars
  /\ BarLimit \in Nat \ {0}
  /\ FreshFor \in Nat /\ Lifetime \in Nat \ {0}
  /\ MaxTicks \in [Modes -> Nat]
  /\ MaxJoins \in Nat /\ MaxFetches \in Nat

VARIABLES
  mode,
  ticks, market,    (* The clock; the calendar's market is open.           *)
  starts,           (* How many feeds were made; each has its number.      *)
  active,           (* The one whose token is activeFeedToken, or 0.       *)
  fetches,          (* fetchBars under way: one of the active token, which *)
                    (* pendingHistoryFetches has, and how many older ones. *)
  backfills,        (* The calls of backfillHistory at each of Stages.     *)
  lifecycle,        (* feedLifecycleState.                                 *)
  feed,             (* this.feed, or 0.                                    *)
  open,             (* The feeds not yet told to disconnect, nor ended.    *)
  chain,            (* The transitions asked for, the running one first.   *)
  step,             (* Where the running one waits.                        *)
  cancelled,        (* cancelConnect was called.                           *)
  healthTimer,
  health, status, expiryHandled,
  blocked,          (* identityBlocked or persistenceBlocked.              *)
  disposed, listed, (* Disposed; known to the manager.                     *)
  subs, joins,      (* Browsers now, and ever.                             *)
  cleanup,          (* The timer of the grace is set.                      *)
  due,              (* Finished transitions whose caller has not gone on.  *)
  published, since, (* Trades sent to browsers, ever and since the start.  *)
  engines,          (* How often each was processed.                       *)
  history, buffer, backfilling,
  past,             (* The trades of events before historyBoundary, the    *)
                    (* time of the last start, whenever they come.         *)
  stray,            (* A callback of a feed that was replaced was heard.   *)
  overlap,          (* Trades restored while they were held back, since    *)
                    (* the engines were last rebuilt from the history.     *)
  bars, savedBars   (* historyBarsByTf, and the bars of the store.         *)

clock    == <<ticks, market>>
tokens   == <<active, fetches, backfills>>
lifetime == <<starts, lifecycle, feed, chain, step, cancelled, healthTimer>>
evidence == <<health, status, expiryHandled>>
context  == <<disposed, listed, subs, joins, cleanup, due>>
trades   == <<published, since, engines, history, stray, overlap>>
seeding  == <<buffer, backfilling, past>>
barCache == <<bars, savedBars>>
vars == <<mode, clock, tokens, open, lifetime, evidence, blocked, context, trades,
          seeding, barCache>>

Fetching == mode = "open"
NoExpiry == Lifetime + 1
TooOld   == FreshFor + 1

(* A fault: callbacks do not carry a token. *)
AnyFeed(f) == ~disposed

(* The guard every callback begins with. *)
Current(f) == ~disposed /\ active = f

(* The ordinary gate allows one connection in the life of the process.     *)
Allowed(f) == Fetching \/ f = 1

Stages == {"ticks", "bars", "ready", "late"}
Idle == [s \in Stages |-> 0]

(* A backfill that was overtaken only asks for the bars yet, if it has not *)
(* asked.                                                                  *)
Late == [Idle EXCEPT !["late"] = backfills["late"] + backfills["ticks"]]

(* activeFeedToken moves on, to that of start f or to that of none.        *)
MoveTo(f) ==
  /\ active' = f
  /\ fetches' = [now |-> 0, old |-> fetches.old + fetches.now]
  /\ backfills' = Late

-----------------------------------------------------------------------------
(***************************************************************************)
(* Health.                                                                 *)
(***************************************************************************)
NewHealth == [terminal |-> FALSE, on |-> FALSE, acked |-> FALSE,
              age |-> TooOld, left |-> NoExpiry]

Begun(h, left) == IF h.terminal THEN h ELSE [h EXCEPT !.on = TRUE, !.left = left]

(* Nothing more is read of a stopped health than its expiry. *)
Stopped(h) == [terminal |-> TRUE, on |-> FALSE, acked |-> FALSE, age |-> TooOld,
               left |-> h.left]

Expired(h) == h.left = 0

(* The snapshot's state is LIVE. *)
IsLive(h, isOpen) ==
  /\ ~h.terminal
  /\ ~Expired(h)
  /\ h.on
  /\ h.acked
  /\ isOpen
  /\ h.age <= FreshFor

Status(h, isOpen) == IF IsLive(h, isOpen) THEN "LIVE" ELSE "UNAVAILABLE"

(* refreshFeedHealth, with the health as the caller leaves it, and the     *)
(* feeds it leaves open.  The first one after the expiry ends the feed.    *)
Refresh(h, isOpen, opened) ==
  IF Expired(h) /\ ~expiryHandled
  THEN /\ expiryHandled' = TRUE
       /\ MoveTo(0)
       /\ open' = opened \ {feed}
       /\ health' = Stopped(h)
       /\ status' = "UNAVAILABLE"
  ELSE /\ health' = h
       /\ status' = Status(h, isOpen)
       /\ open' = opened
       /\ UNCHANGED <<expiryHandled, tokens>>

Aged(h) ==
  [h EXCEPT !.age = IF @ <= FreshFor THEN @ + 1 ELSE @,
            !.left = IF @ \in 1..Lifetime THEN @ - 1 ELSE @]

Tick ==
  /\ ticks < MaxTicks[mode]
  /\ ticks' = ticks + 1
  /\ market' \in BOOLEAN
  /\ IF healthTimer
     THEN Refresh(Aged(health), market', open)
     ELSE /\ health' = Aged(health)
          /\ UNCHANGED <<status, expiryHandled, tokens, open>>
  /\ UNCHANGED <<mode, lifetime, blocked, context, trades, seeding, barCache>>

-----------------------------------------------------------------------------
(***************************************************************************)
(* The chain of transitions.                                               *)
(***************************************************************************)
Asked(op, caller) == chain' = Append(chain, [op |-> op, caller |-> caller])

(* stopFeed(): a start that is waiting for its connection is cancelled.    *)
StopFeed(caller) ==
  /\ Asked("stop", caller)
  /\ IF step = "connecting"
     THEN MoveTo(0) /\ cancelled' = TRUE
     ELSE UNCHANGED <<tokens, cancelled>>

Running(op, at) == chain # <<>> /\ Head(chain).op = op /\ step = at

(* The running transition is over, and its caller will go on.              *)
Over ==
  /\ chain' = Tail(chain)
  /\ step' = "none"
  /\ due' = Append(due, Head(chain).caller)

(* doStopFeed up to its await.                                             *)
CloseFeed ==
  /\ lifecycle' = "STOPPING"
  /\ MoveTo(0)
  /\ buffer' = {} /\ backfilling' = FALSE
  /\ healthTimer' = FALSE
  /\ feed' = 0
  /\ open' = open \ {feed}
  /\ step' = "closing"

(* A fault: a disposed context starts again. *)
Unblocked == ~blocked

(* doStartFeed's first checks.                                             *)
MayStart == ~disposed /\ ~blocked

(* doStartFeed first closes a feed that is still there.                    *)
BeginStop ==
  /\ \/ Running("stop", "none")
     \/ /\ Running("start", "none")
        /\ MayStart
        /\ lifecycle \in {"STARTING", "RUNNING"}
  /\ CloseFeed
  /\ UNCHANGED <<mode, clock, starts, chain, cancelled, evidence, blocked, context,
                 trades, past, barCache>>

(* disconnect() has returned, or thrown.                                   *)
EndStop ==
  /\ step = "closing"
  /\ Refresh(Stopped(health), market, open)
  /\ lifecycle' = "STOPPED"
  /\ IF Head(chain).op = "stop" THEN Over
     ELSE step' = "opening" /\ UNCHANGED <<chain, due>>
  /\ UNCHANGED <<mode, clock, starts, feed, cancelled, healthTimer, blocked, disposed,
                 listed, subs, joins, cleanup, trades, seeding, barCache>>

StartRefused ==
  /\ Running("start", "none")
  /\ ~MayStart
  /\ status' = IF disposed THEN status ELSE "UNAVAILABLE"
  /\ Over
  /\ UNCHANGED <<mode, clock, tokens, open, starts, lifecycle, feed, cancelled,
                 healthTimer, health, expiryHandled, blocked, disposed, listed, subs,
                 joins, cleanup, trades, seeding, barCache>>

(* The rest of doStartFeed up to its await, with connect() under way.      *)
OpenFeed ==
  /\ \/ Running("start", "opening")
     \/ /\ Running("start", "none")
        /\ MayStart
        /\ lifecycle \notin {"STARTING", "RUNNING"}
  /\ starts' = starts + 1
  /\ feed' = starts'
  /\ open' = open \union {starts'}
  /\ MoveTo(starts')
  /\ lifecycle' = "STARTING"
  /\ step' = "connecting"
  /\ cancelled' = FALSE
  /\ healthTimer' = TRUE
  /\ health' = Begun(health, IF Fetching THEN NoExpiry ELSE Lifetime)
  /\ since' = {}
  /\ past' = past \union published
  /\ buffer' = {}
  /\ backfilling' = Fetching
  /\ UNCHANGED <<mode, clock, chain, status, expiryHandled, blocked, context, published,
                 engines, history, stray, overlap, barCache>>

(* The part of doStartFeed after connect(), for a start that is current.   *)
Runs ==
  /\ lifecycle' = "RUNNING"
  /\ backfills' = IF Fetching THEN [backfills EXCEPT !["ticks"] = @ + 1] ELSE backfills

(* doStartFeed's check after the race of connect() and cancelConnect.      *)
Stale == disposed \/ active # starts

(* connect() succeeded, or the start was cancelled.                        *)
Connected ==
  /\ step = "connecting"
  /\ cancelled \/ Allowed(starts)
  /\ Over
  /\ cancelled' = FALSE
  /\ IF Stale THEN UNCHANGED <<lifecycle, backfills>> ELSE Runs
  /\ UNCHANGED <<mode, clock, active, fetches, open, starts, feed, healthTimer, evidence,
                 blocked, disposed, listed, subs, joins, cleanup, trades, seeding,
                 barCache>>

(* connect() failed.  The start goes on all the same: it is RUNNING, with  *)
(* a health that is over; unless that made it note the expiry.             *)
ConnectFails ==
  /\ step = "connecting"
  /\ Over
  /\ cancelled' = FALSE
  /\ IF Stale
     THEN UNCHANGED <<lifecycle, evidence, tokens, open>>
     ELSE IF Expired(health) /\ ~expiryHandled
     THEN Refresh(Stopped(health), market, open) /\ UNCHANGED lifecycle
     ELSE /\ Runs
          /\ health' = Stopped(health)
          /\ status' = "UNAVAILABLE"
          /\ UNCHANGED <<expiryHandled, active, fetches, open>>
  /\ UNCHANGED <<mode, clock, starts, feed, healthTimer, blocked, disposed, listed, subs,
                 joins, cleanup, trades, seeding, barCache>>

-----------------------------------------------------------------------------
(***************************************************************************)
(* What feed f calls back.                                                 *)
(***************************************************************************)
Hears(f) == stray' = (stray \/ f # starts)

Hear(f) == Hears(f) /\ UNCHANGED <<published, since, engines, history, overlap>>

Acked(acked) == [health EXCEPT !.acked = @ \/ (acked /\ ~health.terminal)]

(* onStatus, in any state the client reports short of an end.              *)
Heard(f, acked) ==
  /\ Current(f)
  /\ ~blocked
  /\ Refresh(Acked(acked), market, open)
  /\ Hear(f)
  /\ UNCHANGED <<mode, clock, lifetime, blocked, context, seeding, barCache>>

(* The same, back to LIVE some time after a trade: what may be missing is  *)
(* fetched.                                                                *)
BackOnline(f, acked) ==
  /\ Current(f)
  /\ ~blocked
  /\ Fetching
  /\ since # {}
  /\ status = "UNAVAILABLE" /\ IsLive(Acked(acked), market)
  /\ status' = "LIVE"
  /\ health' = Acked(acked)
  /\ backfills' = [backfills EXCEPT !["ticks"] = @ + 1]
  /\ Hear(f)
  /\ UNCHANGED <<mode, clock, active, fetches, open, expiryHandled, lifetime, blocked,
                 context, seeding, barCache>>

(* onStatus with an end, or onError.  The ordinary client disconnects      *)
(* itself; another one may go on.                                          *)
Ended(f) ==
  /\ Current(f)
  /\ Refresh(Stopped(health), market, IF Fetching THEN open ELSE open \ {f})
  /\ Hear(f)
  /\ UNCHANGED <<mode, clock, lifetime, blocked, context, seeding, barCache>>

(* onTrade, with a trade that is new, well formed, and was saved: health,  *)
(* then engines and browsers.  One of past comes late, an event before the *)
(* start.  TradeIngestion has the rest.                                    *)
Trade(f, i) ==
  /\ Current(f)
  /\ ~blocked
  /\ i \notin published \union history
  /\ Refresh([health EXCEPT !.age = IF health.terminal THEN @ ELSE 0], market, open)
  /\ published' = published \union {i}
  /\ since' = since \union {i}
  /\ Hears(f)
  /\ IF backfilling
     THEN buffer' = buffer \union {i} /\ UNCHANGED <<history, engines>>
     ELSE /\ history' = history \union {i}
          /\ engines' = [engines EXCEPT ![i] = @ + 1]
          /\ UNCHANGED buffer
  /\ UNCHANGED <<mode, clock, lifetime, blocked, context, backfilling, past, overlap, barCache>>

(* onTrade, with a trade that blocks: blockIdentity or blockPersistence.   *)
Blocks(f) ==
  /\ Current(f)
  /\ ~blocked
  /\ blocked' = TRUE
  /\ health' = Stopped(health)
  /\ status' = "UNAVAILABLE"
  /\ open' = open \ {feed}
  /\ Hear(f)
  /\ UNCHANGED <<mode, clock, tokens, lifetime, expiryHandled, context, seeding, barCache>>

-----------------------------------------------------------------------------
(***************************************************************************)
(* History: backfillHistory and ensureHistoryBars.                         *)
(***************************************************************************)
Newest(rows) ==
  CHOOSE w \in SUBSET rows :
    /\ Cardinality(w) = IF Cardinality(rows) < BarLimit THEN Cardinality(rows) ELSE BarLimit
    /\ \A b \in w, o \in rows \ w : o < b

(* Callers of one token share one fetch.                                   *)
FetchBars == fetches' = [fetches EXCEPT !.now = 1]

(* The fetch of the active token, or an older one, is over. *)
Fetched(which) ==
  /\ fetches[which] > 0
  /\ fetches' = [fetches EXCEPT ![which] = @ - 1]
  /\ backfills' =
       IF which = "now"
       THEN [backfills EXCEPT !["bars"] = 0, !["ready"] = @ + backfills["bars"]]
       ELSE backfills

(* mergeHistoryBars.                                                       *)
Merged(old, page) == old \union page

(* fetchBars gives a page, which may be empty, short or old.               *)
BarsArrive(page) ==
  /\ Fetched("now")
  /\ IF page # {}
     THEN bars' = Merged(bars, page) /\ savedBars' = savedBars \union page
     ELSE UNCHANGED barCache
  /\ UNCHANGED <<mode, clock, active, open, lifetime, evidence, blocked, context, trades,
                 seeding>>

(* The page of an older token is dropped.                                  *)
BarsDropped ==
  /\ Fetched("old")
  /\ UNCHANGED <<mode, clock, active, open, lifetime, evidence, blocked, context, trades,
                 seeding, barCache>>

(* fetchBars throws, aborted or not, of whatever token: what the store has *)
(* takes the place of what is cached.                                      *)
BarsFail(which) ==
  /\ Fetched(which)
  /\ bars' = IF savedBars = {} THEN bars ELSE Newest(savedBars)
  /\ UNCHANGED <<mode, clock, active, open, lifetime, evidence, blocked, context, trades,
                 seeding, savedBars>>

(* backfillHistory has its ticks, which Seed chooses, and asks for the     *)
(* bars, unless the cached ones are good.                                  *)
AskBars(stage) ==
  /\ stage \in {"ticks", "late"}
  /\ backfills[stage] > 0
  /\ LET next(to) == IF stage = "late" THEN [backfills EXCEPT !["late"] = @ - 1]
                     ELSE [backfills EXCEPT !["ticks"] = @ - 1, ![to] = @ + 1]
     IN \/ bars # {} /\ backfills' = next("ready") /\ UNCHANGED fetches
        \/ FetchBars /\ backfills' = next("bars")
  /\ UNCHANGED <<mode, clock, active, open, lifetime, evidence, blocked, context, trades,
                 seeding, barCache>>

Counts(ids) == [i \in Ids |-> IF i \in ids THEN 1 ELSE 0]

(* A fault: the trades that came meanwhile are left out of the rebuilding. *)
WithoutBuffer(found) == history \union found

(* What the engines are rebuilt from.                                      *)
Combined(found) == history \union found \union buffer

(* The rest of backfillHistory, with its finally.  The vendor found some   *)
(* ticks from before the start, else the store did; or none came, and      *)
(* nothing is rebuilt.  The trades that came meanwhile are handed on.      *)
Seed ==
  /\ backfills["ready"] > 0
  /\ backfills' = [backfills EXCEPT !["ready"] = @ - 1]
  /\ buffer' = {}
  /\ backfilling' = FALSE
  /\ \/ \E found \in SUBSET past \ {{}} :
          /\ history' = Combined(found)
          /\ engines' = Counts(Combined(found))
          /\ overlap' = {}
     \/ /\ history' = history \union buffer
        /\ engines' = [i \in Ids |-> engines[i] + Counts(buffer)[i]]
        /\ UNCHANGED overlap
  /\ UNCHANGED <<mode, clock, active, fetches, open, lifetime, evidence, blocked, context,
                 published, since, stray, past, barCache>>

-----------------------------------------------------------------------------
(***************************************************************************)
(* The context: browsers, cleanup, disposal.                               *)
(***************************************************************************)

(* primeHistoryBarsFromStore.                                              *)
Primed == IF bars = {} THEN savedBars ELSE bars

(* The trades a context without history is restored from: those of the     *)
(* store that are of events before the last start, also one that came late *)
(* and waits in the buffer for the end of the backfill.                    *)
Restorable == IF history = {} THEN published \intersect past ELSE {}

(* addSubscriber, on a context the manager knows.                          *)
Join ==
  /\ listed /\ ~disposed
  /\ joins < MaxJoins
  /\ joins' = joins + 1
  /\ subs' = subs + 1
  /\ cleanup' = FALSE
  /\ history' = history \union Restorable
  /\ engines' = IF Restorable = {} THEN engines ELSE Counts(Restorable)
  /\ overlap' = overlap \union (Restorable \intersect buffer)
  /\ \/ bars' = Primed /\ UNCHANGED fetches
     \/ Fetching /\ fetches.old < MaxFetches /\ bars' = Primed /\ FetchBars
     \/ ~Fetching /\ savedBars # {} /\ bars' = Newest(savedBars) /\ UNCHANGED fetches
  /\ UNCHANGED <<mode, clock, active, backfills, open, lifetime, evidence, blocked,
                 disposed, listed, due, published, since, stray, seeding, savedBars>>

Leave ==
  /\ subs > 0
  /\ subs' = subs - 1
  /\ cleanup' = (subs = 1)
  /\ UNCHANGED <<mode, clock, tokens, open, lifetime, evidence, blocked, disposed, listed,
                 joins, due, trades, seeding, barCache>>

(* The grace of ten seconds is over.                                       *)
Cleanup ==
  /\ cleanup
  /\ cleanup' = FALSE
  /\ IF subs = 0 THEN StopFeed("cleanup") ELSE UNCHANGED <<chain, tokens, cancelled>>
  /\ UNCHANGED <<mode, clock, open, starts, lifecycle, feed, step, healthTimer, evidence,
                 blocked, disposed, listed, subs, joins, due, trades, seeding, barCache>>

(* dispose() up to its await.                                              *)
Dispose ==
  /\ disposed' = TRUE
  /\ cleanup' = FALSE
  /\ Asked("stop", "dispose")
  /\ MoveTo(0)
  /\ cancelled' = (cancelled \/ step = "connecting")

NoDisposal == UNCHANGED <<disposed, cleanup, tokens, cancelled>>

(* disposeAll of the manager.                                              *)
Shutdown ==
  /\ ~disposed
  /\ Dispose
  /\ UNCHANGED <<mode, clock, open, starts, lifecycle, feed, step, healthTimer, evidence,
                 blocked, listed, subs, joins, due, trades, seeding, barCache>>

Returned(caller) ==
  /\ due # <<>>
  /\ Head(due) = caller
  /\ due' = Tail(due)
  /\ UNCHANGED <<mode, clock, open, starts, lifecycle, feed, step, healthTimer, evidence,
                 blocked, joins, trades, seeding, savedBars>>

(* getOrCreateContext goes on after startFeed.                             *)
Created ==
  /\ Returned("creation")
  /\ IF disposed THEN Dispose /\ UNCHANGED listed
     ELSE listed' = TRUE /\ NoDisposal /\ UNCHANGED chain
  /\ UNCHANGED <<subs, bars>>

(* scheduleCleanup's callback goes on after stopFeed: nobody has come, and *)
(* the manager drops the context; or somebody has.                         *)
CleanedUp ==
  /\ Returned("cleanup")
  /\ IF subs > 0
     THEN Asked("start", "restart") /\ NoDisposal /\ UNCHANGED listed
     ELSE IF listed
     THEN Dispose /\ listed' = FALSE
     ELSE NoDisposal /\ UNCHANGED <<listed, chain>>
  /\ UNCHANGED <<subs, bars>>

Restarted ==
  /\ Returned("restart")
  /\ NoDisposal
  /\ UNCHANGED <<listed, chain, subs, bars>>

(* dispose() goes on after stopFeed.                                       *)
Disposed ==
  /\ Returned("dispose")
  /\ subs' = 0
  /\ bars' = {}
  /\ NoDisposal
  /\ UNCHANGED <<listed, chain>>

Init ==
  /\ mode \in Modes
  /\ ticks = 0 /\ market = TRUE
  /\ starts = 0 /\ active = 0 /\ feed = 0 /\ open = {}
  /\ fetches = [now |-> 0, old |-> 0] /\ backfills = Idle
  /\ lifecycle = "STOPPED"
  /\ chain = <<[op |-> "start", caller |-> "creation"]>>
  /\ step = "none" /\ cancelled = FALSE /\ healthTimer = FALSE
  /\ health = NewHealth /\ status = "UNAVAILABLE" /\ expiryHandled = FALSE
  /\ blocked = FALSE
  /\ disposed = FALSE /\ listed = FALSE
  /\ subs = 0 /\ joins = 0 /\ cleanup = FALSE /\ due = <<>>
  /\ published = {} /\ since = {} /\ history = {} /\ engines = Counts({})
  /\ stray = FALSE /\ overlap = {}
  /\ buffer = {} /\ backfilling = FALSE /\ past = OldIds
  /\ bars = {} /\ savedBars = OldBars

ChainStep ==
  \/ BeginStop \/ EndStop \/ StartRefused \/ OpenFeed \/ Connected \/ ConnectFails
GoOn == Created \/ CleanedUp \/ Restarted \/ Disposed
BarsSettle ==
  \/ \E page \in SUBSET Bars : BarsArrive(page)
  \/ BarsDropped
  \/ \E which \in {"now", "old"} : BarsFail(which)
BackfillGoesOn == (\E stage \in Stages : AskBars(stage)) \/ Seed

Next ==
  \/ Tick
  \/ ChainStep
  \/ \E f \in {g \in 1..starts : Allowed(g)} :
       \/ \E acked \in BOOLEAN : Heard(f, acked) \/ BackOnline(f, acked)
       \/ Ended(f) \/ Blocks(f)
       \/ \E i \in Ids : Trade(f, i)
  \/ BarsSettle \/ BackfillGoesOn
  \/ Join \/ Leave \/ Cleanup \/ Shutdown
  \/ GoOn

(* Promises go on when they are settled, connect and disconnect settle     *)
(* (those of registry.ts do not wait for the vendor), the grace timer and  *)
(* the fetches, which time out, end.                                       *)
Fairness ==
  /\ WF_vars(ChainStep)
  /\ WF_vars(GoOn)
  /\ WF_vars(Cleanup)
  /\ WF_vars(BarsSettle)
  /\ WF_vars(BackfillGoesOn)

Spec == Init /\ [][Next]_vars /\ Fairness

-----------------------------------------------------------------------------
(***************************************************************************)
(* Properties.                                                             *)
(***************************************************************************)
TypeOK ==
  /\ mode \in Modes
  /\ ticks \in Nat /\ market \in BOOLEAN
  /\ active \in 0..starts /\ fetches.now \in 0..1
  /\ lifecycle \in {"STARTING", "RUNNING", "STOPPING", "STOPPED"}
  /\ feed \in 0..starts /\ open \subseteq 1..starts
  /\ step \in {"none", "closing", "opening", "connecting"}
  /\ status \in {"LIVE", "UNAVAILABLE"}
  /\ health.age \in 0..TooOld /\ health.left \in 0..NoExpiry
  /\ overlap \subseteq Ids
  /\ published \subseteq Ids /\ history \subseteq Ids /\ buffer \subseteq Ids
  /\ bars \subseteq Bars

(* No feed is replaced or forgotten before it was told to disconnect,      *)
(* however starts, stops, expiries and disposals overlap: an open socket   *)
(* is always that of this.feed.  A disposed context whose transitions are  *)
(* over has none, nor a timer.                                             *)
FeedInv ==
  /\ TypeOK
  /\ open \subseteq {feed}
  /\ healthTimer = (feed # 0)
  /\ disposed /\ chain = <<>> => feed = 0

(* The browser is told LIVE only while an acknowledged feed that is not    *)
(* told to disconnect brought a trade within the last 30 seconds, of an    *)
(* open market, under an approval that runs; except while the feed is      *)
(* being closed, when nobody looks.                                        *)
StatusIsEvidence ==
  status = "LIVE" /\ lifecycle # "STOPPING" =>
    /\ feed \in open
    /\ ~blocked
    /\ health.acked /\ health.age <= FreshFor /\ ~Expired(health)
    /\ market

(* A trade that browsers were sent is in the engines, once, however it     *)
(* came: live, late, restored or fetched, in any overlap with a backfill;  *)
(* it is held back at most while the backfill of its own start runs.  The  *)
(* one exception is a late trade that a browser's coming restored while it *)
(* was held back: that one is counted again when the buffer is drained.    *)
CaughtUp ==
  /\ \A i \in Ids : engines[i] <= (IF i \in overlap THEN 2 ELSE 1)
  /\ overlap \subseteq past
  /\ ~backfilling /\ lifecycle \in {"STARTING", "RUNNING"} =>
       \A i \in since : engines[i] >= 1

EndedStep ==
  /\ ~stray'
  /\ published' # published =>
       /\ feed = starts
       /\ lifecycle \in {"STARTING", "RUNNING"}
       /\ ~disposed /\ ~expiryHandled /\ ~blocked

(* A callback that comes late, after a stop, an expiry, a block or the     *)
(* disposal, publishes nothing, and one of a feed that was replaced is not *)
(* even heard, while its successor runs: although nothing but the token    *)
(* tells them from those of the last feed that was started.                *)
NothingAfterTheEnd == [][EndedStep]_vars

(* A context that browsers came to is disposed of, unless somebody is      *)
(* there; and one that is disposed, at whatever await it was, lets go of   *)
(* its feed.                                                               *)
Released ==
  /\ []<>(joins > 0 => disposed \/ subs > 0)
  /\ []<>(disposed => chain = <<>> /\ open = {} /\ subs = 0)

(* The trades a backfill holds back are not held back for ever.            *)
BackfillEnds == []<>~backfilling

NewestStep == bars = {} \/ bars' = {} \/ \A b \in bars : \E c \in bars' : b <= c

(* However pages of the vendor, failures and rows of the store replace     *)
(* each other in the cache, the chart does not lose its freshest bar.      *)
FreshestBarIsKept == [][NewestStep]_vars

(* What browsers are told is so: one feed at a time, LIVE only on evidence (feedHealth.ts), and *)
(* after the history is read no trade is lost to it, or counted twice but if it was restored    *)
(* while held back (marketContext.ts).                                                          *)
ToldTheTruth == FeedInv /\ StatusIsEvidence /\ CaughtUp

(* What a step of a feed may not do: a feed that was stopped, replaced or disposed delivers     *)
(* nothing, and no older bar takes the place of a fresher one (doStartFeed, ensureHistoryBars). *)
StepsAreCurrent == NothingAfterTheEnd /\ FreshestBarIsKept

(* What is not used any more is let go, and a backfill comes to its end (scheduleCleanup,       *)
(* stopFeed, backfillHistory).                                                                  *)
ComesToRest == Released /\ BackfillEnds
===============================================================================
