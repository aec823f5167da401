---------------------------- MODULE TradeIngestion ----------------------------
(***************************************************************************)
(* What becomes of one trade in one market context: handleTrade, the       *)
(* restoration addSubscriber does, and the trades table of the store they  *)
(* share, through crashes, contexts created anew and SQLite failures.      *)
(*                                                                         *)
(* handleTrade is one synchronous call, but the process may die between    *)
(* its commit and its fan-out, so a trade is Commit and then Publish (or   *)
(* BarWriteFails).  An engine is the ticks it was handed: FootprintEngine  *)
(* and ProfileEngine compute from no more.  Trades with malformed values,  *)
(* duplicates, and trades after a block change nothing and are no steps.   *)
(* The runtime is the ordinary one: provider databento, no vendor history. *)
(* The retention job, which deletes rows after 30 days, is left out.       *)
(***************************************************************************)
EXTENDS Naturals, FiniteSets

CONSTANTS
  Ids,           (* Trade identities.                                      *)
  Payloads,      (* Price, size, side and time, as far as they may differ. *)
  When,          (* When[i]: the event time of i.                          *)
  Contract,      (* Contract[i]: its contract key, or NoContract.          *)
  NoContract,
  Timeframes,
  DefaultTf,     (* The engine a context is built with: '1m'.              *)
  MaxKnown,      (* MAX_DEDUP_IDS.                                         *)
  MaxHistory,    (* historyTicks holds 5000 ticks.                         *)
  RestoreLimit,  (* 1000 trades are restored at most.                      *)
  Day, Hour,     (* The ages of isRecentEnough.                            *)
  SessionLength, (* A trading session of the calendar, in time units.      *)
  MaxTime        (* Bound of the clock.                                    *)

ASSUME IngestionAssumption ==
  /\ IsFiniteSet(Ids) /\ IsFiniteSet(Payloads)
  /\ When \in [Ids -> Nat \ {0}]
  /\ DefaultTf \in Timeframes
  /\ MaxKnown \in Nat \ {0} /\ MaxHistory \in Nat \ {0}
  /\ RestoreLimit \in Nat \ {0}
  /\ Day \in Nat /\ Hour \in Nat
  /\ SessionLength \in Nat \ {0}
  /\ MaxTime \in Nat

VARIABLES
  now,
  up,            (* The process runs, with its context.                    *)
  table,         (* The committed rows of trades.                          *)
  limbo,         (* Rows of a transaction neither committed nor undone.    *)
  storeBlocked,  (* tradePersistenceBlocked of the store.                  *)
  boundary,      (* historyBoundary: when the context's feed started.      *)
  identityBlocked, persistenceBlocked,
  observed,      (* observedContract, or NoContract.                       *)
  known,         (* recentVendorTickIds, with their signatures.            *)
  history,       (* The ids of historyTicks.                               *)
  profile,       (* How often the profile was handed each tick.            *)
  open,          (* The timeframes with a footprint engine.                *)
  engines,       (* How often each of them was handed each tick.           *)
  restored,      (* The engines the store's window was restored into.      *)
  lastEvent,     (* lastTradeEventTs.                                      *)
  inflight,      (* The committed trade handleTrade is about to fan out.   *)
  published      (* How often each trade was ever fanned out.              *)

disk      == <<table, limbo, storeBlocked>>
latches   == <<identityBlocked, persistenceBlocked>>
cache     == <<observed, known, history>>
analytics == <<profile, open, engines, restored, lastEvent>>
vars == <<now, up, disk, boundary, latches, cache, analytics, inflight, published>>

Trades == [id : Ids, payload : Payloads]
Counts == [Ids -> Nat]
NoTicks == [i \in Ids |-> 0]
IdsOf(rows) == {r.id : r \in rows}

(* What a read of this process finds: also what a transaction it could     *)
(* neither commit nor roll back left behind.                               *)
Visible == table \union limbo

TypeOK ==
  /\ now \in 0..MaxTime /\ boundary \in 0..MaxTime
  /\ up \in BOOLEAN /\ storeBlocked \in BOOLEAN
  /\ identityBlocked \in BOOLEAN /\ persistenceBlocked \in BOOLEAN
  /\ table \subseteq Trades /\ limbo \subseteq Trades
  /\ known \subseteq Trades /\ inflight \subseteq Trades
  /\ history \subseteq Ids
  /\ profile \in Counts /\ engines \in [Timeframes -> Counts]
  /\ open \subseteq Timeframes /\ restored \subseteq open
  /\ lastEvent \in Nat
  /\ published \in Counts

Idle == up /\ inflight = {}

(* A fault: a failed projection is forgotten by the next trade. *)
ListeningAgain == Idle /\ ~identityBlocked

(* handleTrade's first guard, for a trade that changes something. *)
Listening == Idle /\ ~identityBlocked /\ ~persistenceBlocked

-----------------------------------------------------------------------------
(***************************************************************************)
(* A trade: validation, identity, commit.                                  *)
(***************************************************************************)
Foreign(t) ==
  /\ Contract[t.id] # NoContract
  /\ IF observed = NoContract
     THEN \E i \in history : Contract[i] = NoContract
     ELSE Contract[t.id] # observed

Conflicts(t) ==
  \E r \in known \union Visible : r.id = t.id /\ r.payload # t.payload

Seen(t) == t \in known \union Visible

(* resolveTradeIdentity throws.                                            *)
MalformedTrade ==
  /\ Listening
  /\ identityBlocked' = TRUE
  /\ UNCHANGED <<now, up, disk, boundary, persistenceBlocked, cache, analytics,
                 inflight, published>>

RefuseTrade(t) ==
  /\ Listening
  /\ Foreign(t) \/ Conflicts(t)
  /\ identityBlocked' = TRUE
  /\ UNCHANGED <<now, up, disk, boundary, persistenceBlocked, cache, analytics,
                 inflight, published>>

(* BEGIN IMMEDIATE .. COMMIT.  The transaction asks Conflicts and Seen     *)
(* once more, and the primary key a third time.                            *)
Commit(t) ==
  /\ Listening
  /\ ~Foreign(t)
  /\ ~Conflicts(t)
  /\ ~Seen(t)
  /\ ~storeBlocked
  /\ table' = table \union {t}
  /\ inflight' = {t}
  /\ UNCHANGED <<now, up, limbo, storeBlocked, boundary, latches, cache,
                 analytics, published>>

(* A fault: the handler blocks, and goes on. *)
SaveFailsAndGoesOn(t) ==
  /\ Listening
  /\ ~Foreign(t)
  /\ ~Conflicts(t)
  /\ ~Seen(t)
  /\ persistenceBlocked' = TRUE
  /\ inflight' = {t}
  /\ UNCHANGED <<now, up, disk, boundary, identityBlocked, cache, analytics, published>>

(* The identity read throws, or the transaction does and is rolled back.   *)
SaveFails(t) ==
  /\ Listening
  /\ ~Foreign(t)
  /\ ~Conflicts(t)
  /\ ~Seen(t)
  /\ persistenceBlocked' = TRUE
  /\ UNCHANGED <<now, up, disk, boundary, identityBlocked, cache, analytics,
                 inflight, published>>

(* COMMIT and then ROLLBACK threw: the row is there, or not, or in a       *)
(* transaction that is still open.                                         *)
OutcomeUnknown(t) ==
  /\ Listening
  /\ ~Foreign(t)
  /\ ~Conflicts(t)
  /\ ~Seen(t)
  /\ ~storeBlocked
  /\ \/ table' = table \union {t} /\ UNCHANGED limbo
     \/ limbo' = limbo \union {t} /\ UNCHANGED table
     \/ UNCHANGED <<table, limbo>>
  /\ storeBlocked' = TRUE
  /\ persistenceBlocked' = TRUE
  /\ UNCHANGED <<now, up, boundary, identityBlocked, cache, analytics, inflight, published>>

-----------------------------------------------------------------------------
(***************************************************************************)
(* The committed trade: cache, analytics, fan-out.                         *)
(***************************************************************************)
Smaller(m, n) == IF m < n THEN m ELSE n

(* The cache with rows added.  Which ones it evicts is left open.          *)
Tracked(rows) ==
  LET all == known \union rows IN
  {k \in SUBSET all : Cardinality(k) = Smaller(MaxKnown, Cardinality(all))}

(* historyTicks with i inserted; a full one drops an earliest tick.        *)
Remembered(i) ==
  LET all == history \union {i} IN
  IF Cardinality(all) <= MaxHistory THEN {all}
  ELSE {all \ {o} : o \in {j \in all : \A k \in all : When[j] <= When[k]}}

Once(counts, ids) == [i \in Ids |-> counts[i] + (IF i \in ids THEN 1 ELSE 0)]

Session(t) == t \div SessionLength

(* isNewSession(lastTradeEventTs, ts).                                     *)
NewSession(i) ==
  /\ lastEvent > 0
  /\ When[i] > lastEvent
  /\ Session(When[i]) # Session(lastEvent)

Handed(tfs, ids) ==
  [tf \in Timeframes |-> IF tf \in tfs THEN Once(engines[tf], ids) ELSE engines[tf]]

(* Everything up to the loop over the engines.                             *)
Accept(t) ==
  /\ observed' = IF observed = NoContract THEN Contract[t.id] ELSE observed
  /\ known' \in Tracked({t})
  /\ history' \in Remembered(t.id)
  /\ profile' = Once(IF NewSession(t.id) THEN NoTicks ELSE profile, {t.id})
  /\ lastEvent' = When[t.id]
  /\ inflight' = {}
  /\ UNCHANGED <<now, up, disk, boundary, identityBlocked, open, restored>>

Publish(t) ==
  /\ up
  /\ t \in inflight
  /\ Accept(t)
  /\ engines' = Handed(open, {t.id})
  /\ published' = Once(published, {t.id})
  /\ UNCHANGED persistenceBlocked

(* saveBar fails for the bar an engine closed: the engines after it, the   *)
(* VWAP, the tape and the subscribers do not get the trade.                *)
BarWriteFails(t) ==
  /\ up
  /\ t \in inflight
  /\ Accept(t)
  /\ \E done \in SUBSET open \ {{}} : engines' = Handed(done, {t.id})
  /\ persistenceBlocked' = TRUE
  /\ UNCHANGED published

-----------------------------------------------------------------------------
(***************************************************************************)
(* A browser attaches: addSubscriber(session, tf).                         *)
(***************************************************************************)

Eligible == {r \in Visible : When[r.id] < boundary}

(* The newest n of them; ties are left open.                               *)
Newest(n) ==
  {w \in SUBSET Eligible :
     /\ Cardinality(w) = Smaller(n, Cardinality(Eligible))
     /\ \A r \in w, o \in Eligible \ w : When[o.id] <= When[r.id]}

(* A fault: the limit is off by one. *)
WindowsShort == Newest(RestoreLimit - 1)

(* queryTrades, with its limit. *)
Windows == Newest(RestoreLimit)

(* isRecentEnough, given the newest bar of the cached history (0: none).   *)
(* trades[0], of trades in ascending order, is the oldest.                 *)
RecentEnough(w, newestBar) ==
  \A r \in w : now <= When[r.id] + Day /\ newestBar <= When[r.id] + Hour

BarTimes == {0} \union {When[r.id] : r \in Eligible}

(* A fault: the window is taken as it is. *)
CohortsMixed(w) == {w}

(* contractWindow: what is of the contract of the latest trade that has    *)
(* one, or everything.                                                     *)
Cohorts(w) ==
  LET of(k) == {r \in w : Contract[r.id] = k}
      proven == w \ of(NoContract)
      latest == {r \in proven : \A o \in proven : When[o.id] <= When[r.id]}
  IN IF proven = {} THEN {w} ELSE {of(Contract[r.id]) : r \in latest}

(* ensureFootprintEngine: a new engine is seeded with the history.         *)
Ensured(tf) ==
  IF tf \in open THEN engines
  ELSE [engines EXCEPT ![tf] = Once(NoTicks, history)]

(* A fault: every attachment restores. *)
AlwaysRestore == TRUE

MayRestore == history = {}

Attach(tf) ==
  /\ Idle
  /\ \/ ~MayRestore
     \/ \E w \in Windows, b \in BarTimes : w = {} \/ ~RecentEnough(w, b)
  /\ open' = open \union {tf}
  /\ engines' = Ensured(tf)
  /\ UNCHANGED <<now, up, disk, boundary, latches, cache, profile, restored,
                 lastEvent, inflight, published>>

Restore(tf) ==
  /\ Idle
  /\ MayRestore
  /\ \E w \in Windows, b \in BarTimes :
       /\ w # {}
       /\ RecentEnough(w, b)
       /\ \E c \in Cohorts(w) : \E r \in c :
            /\ history' = IdsOf(c)
            /\ observed' = Contract[r.id]
            /\ known' \in Tracked(c)
            /\ profile' = Once(NoTicks, IdsOf(c))
            /\ engines' = [Ensured(tf) EXCEPT ![tf] = Once(@, IdsOf(c))]
  /\ open' = open \union {tf}
  /\ restored' = {tf}
  /\ UNCHANGED <<now, up, disk, boundary, latches, lastEvent, inflight, published>>

(* A read of the store or an engine throws: what was built is discarded.   *)
RestoreFails(tf) ==
  /\ Idle
  /\ persistenceBlocked' = TRUE
  /\ \E part \in SUBSET (IF MayRestore THEN Eligible ELSE {}) :
       /\ known' \in Tracked(part)
       /\ observed' \in {observed} \union {Contract[r.id] : r \in part}
  /\ history' = {}
  /\ profile' = NoTicks
  /\ open' = {tf}
  /\ engines' = [f \in Timeframes |-> NoTicks]
  /\ restored' = {}
  /\ UNCHANGED <<now, up, disk, boundary, identityBlocked, lastEvent, inflight, published>>

-----------------------------------------------------------------------------
(***************************************************************************)
(* Contexts and processes come and go.                                     *)
(***************************************************************************)
NewContext ==
  /\ identityBlocked' = FALSE /\ persistenceBlocked' = FALSE
  /\ observed' = NoContract
  /\ known' = {} /\ history' = {} /\ inflight' = {}
  /\ profile' = NoTicks
  /\ open' = {DefaultTf}
  /\ engines' = [tf \in Timeframes |-> NoTicks]
  /\ restored' = {}
  /\ lastEvent' = 0
  /\ UNCHANGED <<now, published>>

(* The last browser left and the context was cleaned up; the next one gets *)
(* a new context over the same store.                                      *)
Recreate ==
  /\ Idle
  /\ NewContext
  /\ boundary' = now
  /\ UNCHANGED <<up, disk>>

(* The process dies.  An open transaction is undone, unless its COMMIT had *)
(* reached the disk.                                                       *)
Crash ==
  /\ up
  /\ NewContext
  /\ up' = FALSE
  /\ table' \in {table, Visible}
  /\ limbo' = {}
  /\ storeBlocked' = FALSE
  /\ UNCHANGED boundary

Boot ==
  /\ ~up
  /\ up' = TRUE
  /\ boundary' = now
  /\ UNCHANGED <<now, disk, latches, cache, analytics, inflight, published>>

Tick ==
  /\ now < MaxTime
  /\ now' = now + 1
  /\ UNCHANGED <<up, disk, boundary, latches, cache, analytics, inflight, published>>

Init ==
  /\ now = 0 /\ boundary = 0
  /\ up = FALSE
  /\ table = {} /\ limbo = {} /\ storeBlocked = FALSE
  /\ identityBlocked = FALSE /\ persistenceBlocked = FALSE
  /\ observed = NoContract
  /\ known = {} /\ history = {} /\ inflight = {}
  /\ profile = NoTicks /\ published = NoTicks
  /\ open = {DefaultTf} /\ restored = {}
  /\ engines = [tf \in Timeframes |-> NoTicks]
  /\ lastEvent = 0

Next ==
  \/ MalformedTrade
  \/ \E t \in Trades :
       \/ RefuseTrade(t) \/ Commit(t) \/ SaveFails(t) \/ OutcomeUnknown(t)
       \/ Publish(t) \/ BarWriteFails(t)
  \/ \E tf \in Timeframes : Attach(tf) \/ Restore(tf) \/ RestoreFails(tf)
  \/ Recreate \/ Crash \/ Boot \/ Tick

Spec == Init /\ [][Next]_vars

-----------------------------------------------------------------------------
(***************************************************************************)
(* Properties.                                                             *)
(***************************************************************************)
Blocked == identityBlocked \/ persistenceBlocked

(* No subscriber is ever sent a trade that a crash at that moment could    *)
(* still take back, and no engine or cache holds one the store cannot      *)
(* show.                                                                   *)
DurableBeforePublished ==
  /\ \A i \in Ids : published[i] > 0 => i \in IdsOf(table)
  /\ known \subseteq Visible
  /\ history \subseteq IdsOf(Visible)
  /\ \A i \in Ids : profile[i] > 0 => i \in IdsOf(Visible)
  /\ \A tf \in Timeframes, i \in Ids : engines[tf][i] > 0 => i \in IdsOf(Visible)

(* However often the vendor repeats a trade, before or after a restart or  *)
(* an eviction from the cache, and however restoration and live trades     *)
(* overlap: it is fanned out at most once ever, and counted at most once   *)
(* by each engine of a context.                                            *)
CountedOnce ==
  /\ \A i \in Ids : published[i] <= 1 /\ profile[i] <= 1
  /\ \A tf \in Timeframes, i \in Ids : engines[tf][i] <= 1

(* One cohort, one contract: nothing the context holds, restored or live,  *)
(* is of a contract other than the observed one.                           *)
OneContract ==
  \A i \in history : Contract[i] \in {observed, NoContract}

(* An identity stands for one row, whatever payload comes with it later.   *)
OneRowPerId == \A r, s \in Visible : r.id = s.id => r = s

(* Once the store's window was restored into an engine, that engine has    *)
(* every row of the context's contract from before the context, with none  *)
(* lost to the crash they survived, and keeps up with the live trades.     *)
RestoredIsComplete ==
  Idle /\ ~persistenceBlocked /\ Cardinality(Visible) <= RestoreLimit =>
    \A tf \in restored, r \in table :
      When[r.id] < boundary /\ Contract[r.id] = observed => engines[tf][r.id] = 1

(* A step of a blocked context, or on a blocked store.                     *)
BlockedStep ==
  /\ Blocked => published' = published
  /\ (Blocked \/ storeBlocked) /\ up' => table' = table

(* A block is final: until the context is created anew nothing is          *)
(* published or written, and a store that lost track of a transaction      *)
(* takes no further trade before the process restarts.                     *)
BlockedIsFinal == [][BlockedStep]_vars

RowsKept == table \subseteq table'

(* No crash, conflict or duplicate removes or rewrites a committed row.    *)
RowsArePermanent == [][RowsKept]_vars

(* The inductive invariant: the above, and what they rest on.  A trade in  *)
(* flight is in the table and in nothing that counts; an empty history     *)
(* means that no engine was handed anything; the cache agrees with the     *)
(* table.                                                                  *)
InFlightUncounted ==
  \A t \in inflight :
    /\ inflight = {t}
    /\ t \in table
    /\ ~Blocked
    /\ ~Foreign(t)
    /\ t.id \notin history
    /\ profile[t.id] = 0 /\ published[t.id] = 0
    /\ \A tf \in Timeframes : engines[tf][t.id] = 0

EmptyHistoryEmptyEngines ==
  history = {} => profile = NoTicks /\ engines = [tf \in Timeframes |-> NoTicks]

ClosedEnginesEmpty ==
  /\ \A tf \in Timeframes \ open : engines[tf] = NoTicks
  /\ ~up => inflight = {}

IngestionInv ==
  /\ TypeOK
  /\ DurableBeforePublished
  /\ CountedOnce
  /\ OneContract
  /\ OneRowPerId
  /\ InFlightUncounted
  /\ EmptyHistoryEmptyEngines
  /\ ClosedEnginesEmpty

-----------------------------------------------------------------------------
(***************************************************************************)
(* Properties the code does not have.                                      *)
(***************************************************************************)

(* A window is left unrestored only if none of its trades is of the last   *)
(* day: what the comment above isRecentEnough says.                        *)
SkipOnlyStale ==
  \A tf \in Timeframes :
    Attach(tf) /\ history = {} =>
      \A w \in Windows : \A r \in w : now > When[r.id] + Day

(* SkipOnlyStale, of every step. *)
RecentTradesAreRestored == [][SkipOnlyStale]_vars

(* The profile starts anew only on a session boundary: a trade makes it    *)
(* forget only what is of earlier sessions.                                *)
ResetOnBoundary ==
  \A t \in inflight, j \in Ids :
    Publish(t) /\ profile[j] > 0 /\ profile'[j] = 0 =>
      Session(When[t.id]) > Session(When[j])

(* ResetOnBoundary, of every step. *)
ResetOnlyOnBoundary == [][ResetOnBoundary]_vars
===============================================================================
