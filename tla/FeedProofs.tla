------------------------------ MODULE FeedProofs ------------------------------
(***************************************************************************)
(* Proofs about Feed, for any trades, bars and limits.  FeedIInv is the    *)
(* inductive invariant; each of its parts is one reason why the context    *)
(* tells the truth, and is proved from the parts before it.                *)
(***************************************************************************)
EXTENDS Feed, FiniteSetTheorems, WellFoundedInduction, TLAPS

Callers     == {"creation", "cleanup", "restart", "dispose"}
Transitions == [op : {"start", "stop"}, caller : Callers]
Healths     == [terminal : BOOLEAN, on : BOOLEAN, acked : BOOLEAN,
                age : 0..TooOld, left : 0..NoExpiry]
Moving      == {"STARTING", "RUNNING"}

(* What TypeOK leaves open.                                                *)
Types ==
  /\ TypeOK
  /\ starts \in Nat
  /\ fetches \in [now : 0..1, old : Nat] /\ backfills \in [Stages -> Nat]
  /\ chain \in Seq(Transitions)
  /\ health \in Healths
  /\ since \subseteq Ids /\ past \subseteq Ids /\ savedBars \subseteq Bars

(* A feed is there while the context is starting or running, the timer     *)
(* with it; where a transition waits says how far it has come.             *)
Phases ==
  /\ feed # 0 <=> lifecycle \in Moving
  /\ healthTimer = (feed # 0)
  /\ open \subseteq {feed}
  /\ active # 0 => active = feed /\ feed = starts
  /\ chain = <<>> => step = "none"
  /\ step = "none" => lifecycle # "STOPPING"
  /\ step = "closing" => lifecycle = "STOPPING"
  /\ step = "opening" => lifecycle = "STOPPED" /\ Head(chain).op = "start"
  /\ step = "connecting" => lifecycle = "STARTING" /\ Head(chain).op = "start"

(* A stop is asked for that has not begun.                                 *)
StopPending == \E i \in 1..Len(chain) : chain[i].op = "stop" /\ (i > 1 \/ step = "none")

(* There is no feed and no start that will make one.                       *)
AtRest == feed = 0 /\ (step \in {"closing", "opening"} => Head(chain).op = "stop")

(* A disposed context has let go of its feed, or will.                     *)
LetsGo == disposed => AtRest \/ StopPending

(* A health that runs is that of an open feed.                             *)
Evidence ==
  /\ blocked => health.terminal
  /\ health.on /\ ~health.terminal /\ lifecycle # "STOPPING" => feed \in open
  /\ StatusIsEvidence

(* Only the one connection of the ordinary runtime expires, and after that *)
(* its token is never the active one again.                                *)
Expiry ==
  /\ mode = "open" \/ starts = 0 => health.left = NoExpiry
  /\ expiryHandled => mode = "ordinary" /\ starts # 0 /\ active # 1

(* The engines have the history, each trade once, but one that was held    *)
(* back when it was restored and is not any more; and the trades of this   *)
(* start that the history does not have are held back.                     *)
Engines ==
  /\ engines \in [Ids -> 0..2]
  /\ \A i \in Ids :
       /\ engines[i] = 0 <=> i \notin history
       /\ engines[i] = 2 => i \in overlap /\ i \notin buffer
  /\ buffer \subseteq since
  /\ overlap \subseteq past /\ buffer \intersect history \subseteq overlap
  /\ ~backfilling => buffer = {}
  /\ lifecycle \in Moving => since \subseteq history \union buffer

(* No feed but the last that was started was heard.                        *)
InTurn == ~stray

(* A bar that is cached was saved.                                         *)
Cached == bars \subseteq savedBars

FeedIInv == Types /\ Phases /\ LetsGo /\ Evidence /\ Expiry /\ Engines /\ InTurn /\ Cached

-----------------------------------------------------------------------------
(* The operators the actions share.                                        *)

Tokens == [now : 0..1, old : Nat]

(* activeFeedToken moves on.                                               *)
LEMMA MoveToTypes ==
  ASSUME Types, NEW f, MoveTo(f)
  PROVE  active' = f /\ fetches' \in Tokens /\ backfills' \in [Stages -> Nat]
  <1>1. backfills["late"] \in Nat /\ backfills["ticks"] \in Nat
    BY DEF Types, Stages
  <1>2. Idle \in [Stages -> Nat]
    BY DEF Idle
  <1>3. backfills' \in [Stages -> Nat]
    BY <1>1, <1>2 DEF MoveTo, Late, Stages
  <1>4. fetches' \in Tokens
    BY DEF Types, MoveTo, Tokens
  <1> QED
    BY <1>3, <1>4 DEF MoveTo

LEMMA HealthTypes ==
  ASSUME NEW h \in Healths
  PROVE  /\ Stopped(h) \in Healths /\ Stopped(h).terminal /\ Stopped(h).left = h.left
         /\ Aged(h) \in Healths
         /\ Aged(h).terminal = h.terminal /\ Aged(h).on = h.on
         /\ h.left = NoExpiry => Aged(h).left = NoExpiry
  <1>1. FreshFor \in Nat /\ Lifetime \in Nat \ {0}
    BY FeedAssumption
  <1>2. h.left \in 0..NoExpiry /\ h.age \in 0..TooOld
    BY DEF Healths
  <1>3. TooOld \in 0..TooOld
    BY <1>1 DEF TooOld
  <1>4. Stopped(h) \in Healths /\ Stopped(h).terminal /\ Stopped(h).left = h.left
    BY <1>2, <1>3 DEF Stopped, Healths
  <1>5. /\ (IF h.age <= FreshFor THEN h.age + 1 ELSE h.age) \in 0..TooOld
        /\ (IF h.left \in 1..Lifetime THEN h.left - 1 ELSE h.left) \in 0..NoExpiry
    BY <1>1, <1>2 DEF TooOld, NoExpiry
  <1>6. Aged(h) \in Healths /\ Aged(h).terminal = h.terminal /\ Aged(h).on = h.on
    BY <1>5 DEF Aged, Healths
  <1>7. h.left = NoExpiry => Aged(h).left = NoExpiry
    BY <1>1, <1>2 DEF Aged, Healths, NoExpiry
  <1> QED
    BY <1>4, <1>6, <1>7

(* What the health is when a trade has come.                               *)
Proven == [health EXCEPT !.age = IF health.terminal THEN @ ELSE 0]

LEMMA HeardTypes ==
  ASSUME Types
  PROVE  /\ Proven \in Healths /\ Proven.left = health.left
         /\ Proven.terminal = health.terminal /\ Proven.on = health.on
         /\ \A acked \in BOOLEAN :
              /\ Acked(acked) \in Healths /\ Acked(acked).left = health.left
              /\ Acked(acked).terminal = health.terminal /\ Acked(acked).on = health.on
         /\ market \in BOOLEAN
  <1>1. 0 \in 0..TooOld /\ health \in Healths /\ market \in BOOLEAN
    BY FeedAssumption DEF Types, TypeOK, TooOld
  <1>2. /\ Proven \in Healths /\ Proven.left = health.left
        /\ Proven.terminal = health.terminal /\ Proven.on = health.on
    BY <1>1 DEF Proven, Healths
  <1>3. ASSUME NEW acked \in BOOLEAN
        PROVE  /\ Acked(acked) \in Healths /\ Acked(acked).left = health.left
               /\ Acked(acked).terminal = health.terminal /\ Acked(acked).on = health.on
    BY <1>1 DEF Acked, Healths
  <1> QED
    BY <1>1, <1>2, <1>3

(* refreshFeedHealth says LIVE of the health it was given, and only while  *)
(* that proves it; what it ends is over.                                   *)
LEMMA RefreshFacts ==
  ASSUME Types, NEW h \in Healths, NEW isOpen \in BOOLEAN, NEW opened,
         Refresh(h, isOpen, opened)
  PROVE  /\ health' \in Healths
         /\ status' \in {"LIVE", "UNAVAILABLE"}
         /\ fetches' \in Tokens /\ backfills' \in [Stages -> Nat]
         /\ active' \in {active, 0}
         /\ open' \subseteq opened
         /\ health'.left = h.left
         /\ h.terminal => health'.terminal
         /\ health'.terminal \/ (health' = h /\ open' = opened)
         /\ status' = "LIVE" => IsLive(h, isOpen) /\ health' = h /\ open' = opened
         /\ expiryHandled' => expiryHandled \/ (h.left = 0 /\ active' = 0)
  <1>1. CASE Expired(h) /\ ~expiryHandled
    <2>1. /\ expiryHandled' = TRUE /\ MoveTo(0) /\ open' = opened \ {feed}
          /\ health' = Stopped(h) /\ status' = "UNAVAILABLE"
      BY <1>1 DEF Refresh
    <2> QED
      BY <1>1, <2>1, MoveToTypes, HealthTypes DEF Expired
  <1>2. CASE ~(Expired(h) /\ ~expiryHandled)
    <2>1. /\ health' = h /\ status' = Status(h, isOpen) /\ open' = opened
          /\ UNCHANGED <<expiryHandled, tokens>>
      BY <1>2 DEF Refresh
    <2>2. status' \in {"LIVE", "UNAVAILABLE"} /\ (status' = "LIVE" => IsLive(h, isOpen))
      BY <2>1 DEF Status
    <2> QED
      BY <2>1, <2>2 DEF Types, tokens, Tokens
  <1> QED
    BY <1>1, <1>2

-----------------------------------------------------------------------------
(* Newest.                                                                 *)

LEMMA LeastOf ==
  ASSUME NEW S \in SUBSET Nat, S # {}
  PROVE  \E x \in S : \A y \in S : x <= y
  <1> DEFINE Less == OpToRel(<, Nat)
  <1>1. PICK x \in S : \A y \in S : <<y, x>> \notin Less
    <2>1. IsWellFoundedOn(Less, Nat)
      BY NatLessThanWellFounded
    <2> HIDE DEF Less
    <2> QED
      BY <2>1, WFMin, Zenon
  <1>2. ASSUME NEW y \in S PROVE x <= y
    <2>1. x \in Nat /\ y \in Nat /\ ~(y < x)
      BY <1>1 DEF OpToRel
    <2> QED
      BY <2>1
  <1> QED
    BY <1>2

(* What Newest chooses is there: of the top sets with at least as many     *)
(* rows, a smallest one has no more, or its least row could go.            *)
LEMMA NewestFacts ==
  ASSUME NEW rows \in SUBSET Bars
  PROVE  /\ Newest(rows) \subseteq rows
         /\ rows # {} => Newest(rows) # {}
         /\ \A b \in Newest(rows), o \in rows \ Newest(rows) : o < b
  <1> DEFINE size == IF Cardinality(rows) < BarLimit THEN Cardinality(rows) ELSE BarLimit
             Top(w) == \A b \in w, o \in rows \ w : o < b
             T == {w \in SUBSET rows : Cardinality(w) >= size /\ Top(w)}
  <1>1. /\ IsFiniteSet(rows) /\ rows \subseteq Nat
        /\ Cardinality(rows) \in Nat /\ BarLimit \in Nat \ {0}
    BY FeedAssumption, FS_Subset, FS_CardinalityType
  <1>2. size \in Nat /\ size <= Cardinality(rows)
    BY <1>1
  <1>3. rows \in T
    BY <1>2
  <1>4. T \subseteq FiniteSubsetsOf(rows)
    BY <1>1, FS_Subset DEF FiniteSubsetsOf
  <1>5. PICK w \in T : \A v \in T : <<v, w>> \notin StrictSubsetOrdering(rows)
    BY <1>3, <1>4, FS_StrictSubsetOrderingWellFounded, WFMin
  <1>6. IsFiniteSet(w) /\ Cardinality(w) \in Nat /\ w \subseteq rows
    BY <1>1, FS_Subset, FS_CardinalityType
  <1>7. Cardinality(w) = size
    <2>1. SUFFICES ASSUME Cardinality(w) > size PROVE FALSE
      BY <1>2, <1>6
    <2>2. w # {}
      BY <1>2, <2>1, FS_EmptySet
    <2>3. PICK x \in w : \A y \in w : x <= y
      <3>1. w \in SUBSET Nat
        BY <1>1, <1>6
      <3> QED
        BY <2>2, <3>1, LeastOf
    <2>4. Cardinality(w \ {x}) >= size
      <3>1. Cardinality(w \ {x}) = Cardinality(w) - 1
        BY <1>6, FS_RemoveElement
      <3> HIDE DEF size
      <3> QED
        BY <1>2, <1>6, <2>1, <3>1
    <2>5. Top(w \ {x})
      BY <1>1, <1>6, <2>3
    <2>6. w \ {x} \in T
      BY <1>6, <2>4, <2>5
    <2>7. <<w \ {x}, w>> \in StrictSubsetOrdering(rows)
      BY <1>6 DEF StrictSubsetOrdering
    <2> QED
      BY <1>5, <2>6, <2>7
  <1>8. Newest(rows) \in SUBSET rows /\ Cardinality(Newest(rows)) = size /\ Top(Newest(rows))
    BY <1>5, <1>6, <1>7 DEF Newest
  <1>9. rows # {} => Newest(rows) # {}
    BY <1>1, <1>8, FS_EmptySet
  <1> QED
    BY <1>8, <1>9

-----------------------------------------------------------------------------
(* Types.                                                                  *)

LEMMA TypesInit == Init => Types
  <1> SUFFICES ASSUME Init PROVE Types
    OBVIOUS
  <1>1. chain \in Seq(Transitions)
    BY DEF Init, Transitions, Callers
  <1>2. health \in Healths
    BY FeedAssumption DEF Init, Healths, NewHealth, TooOld, NoExpiry
  <1>3. TypeOK
    BY FeedAssumption, <1>2 DEF Init, TypeOK, Healths
  <1>4. backfills \in [Stages -> Nat] /\ fetches \in [now : 0..1, old : Nat]
    BY DEF Init, Idle
  <1> QED
    BY FeedAssumption, <1>1, <1>2, <1>3, <1>4 DEF Init, Types

(* What a step writes of what is typed.                                    *)
Refreshed ==
  /\ health' \in Healths
  /\ status' \in {"LIVE", "UNAVAILABLE"}
  /\ fetches' \in Tokens /\ backfills' \in [Stages -> Nat]
  /\ active' \in {active, 0}

LEMMA RefreshTypes ==
  ASSUME Types, NEW h \in Healths, NEW opened \in SUBSET (1..starts), NEW isOpen \in BOOLEAN,
         Refresh(h, isOpen, opened)
  PROVE  Refreshed /\ open' \subseteq 1..starts
BY RefreshFacts DEF Refreshed

LEMMA AskedTypes ==
  ASSUME Types, NEW op \in {"start", "stop"}, NEW caller \in Callers, Asked(op, caller)
  PROVE  chain' \in Seq(Transitions)
BY DEF Types, Asked, Transitions

LEMMA OverTypes ==
  ASSUME Types, Phases, step # "none" \/ chain # <<>>, Over
  PROVE  chain' \in Seq(Transitions) /\ step' = "none" /\ chain # <<>>
BY DEF Types, Phases, Over

LEMMA DisposeTypes ==
  ASSUME Types, Dispose
  PROVE  /\ chain' \in Seq(Transitions) /\ disposed' = TRUE
         /\ active' = 0 /\ fetches' \in Tokens /\ backfills' \in [Stages -> Nat]
  <1>1. chain' \in Seq(Transitions)
    BY AskedTypes DEF Dispose, Callers
  <1> QED
    BY <1>1, MoveToTypes DEF Dispose, Types

LEMMA TypesStep ==
  ASSUME Types, Phases, Cached, [Next]_vars
  PROVE  Types'
  <1> USE DEF clock, tokens, lifetime, evidence, context, trades, seeding, barCache
  <1>1. CASE Tick
    <2>1. Aged(health) \in Healths
      BY HealthTypes DEF Types
    <2>2. CASE healthTimer
      <3>1. Refresh(Aged(health), market', open) /\ market' \in BOOLEAN
        BY <1>1, <2>2 DEF Tick
      <3>2. Refreshed /\ open' \subseteq 1..starts
        BY <2>1, <3>1, RefreshTypes DEF Types, TypeOK
      <3> QED
        BY <1>1, <3>1, <3>2, SMTT(30) DEF Tick, Refreshed, Types, TypeOK, Healths, Tokens
    <2>3. CASE ~healthTimer
      <3>1. /\ ticks' = ticks + 1 /\ market' \in BOOLEAN
            /\ health' = Aged(health)
            /\ UNCHANGED <<status, expiryHandled, tokens, open, mode, lifetime, blocked,
                           context, trades, seeding, barCache>>
        BY <1>1, <2>3 DEF Tick
      <3> QED
        BY <2>1, <3>1, SMTT(30) DEF Types, TypeOK, Healths
    <2> QED
      BY <2>2, <2>3
  <1>2. CASE BeginStop
    <2>1. CloseFeed /\ MoveTo(0)
      BY <1>2 DEF BeginStop, CloseFeed
    <2> QED
      BY <1>2, <2>1, MoveToTypes DEF BeginStop, CloseFeed, Types, TypeOK, Tokens
  <1>3. CASE EndStop
    <2>1. Stopped(health) \in Healths /\ market \in BOOLEAN
      BY HealthTypes DEF Types, TypeOK
    <2>2. Refresh(Stopped(health), market, open) /\ step = "closing"
      BY <1>3 DEF EndStop
    <2>3. chain' \in Seq(Transitions) /\ step' \in {"none", "opening"}
      BY <1>3, <2>2, OverTypes DEF EndStop, Types
    <2> QED
      <3>1. Refreshed /\ open' \subseteq 1..starts
        BY <2>1, <2>2, RefreshTypes DEF Types, TypeOK
      <3> QED
        BY <1>3, <2>3, <3>1, SMTT(30) DEF EndStop, Refreshed, Types, TypeOK, Healths, Tokens
  <1>4. CASE StartRefused
    <2>1. chain' \in Seq(Transitions) /\ step' = "none"
      BY <1>4, OverTypes DEF StartRefused, Running
    <2> QED
      BY <1>4, <2>1 DEF StartRefused, Types, TypeOK
  <1>5. CASE OpenFeed
    <2>1. MoveTo(starts')
      BY <1>5 DEF OpenFeed
    <2>2. health' \in Healths
      <3>1. Lifetime \in 0..NoExpiry /\ NoExpiry \in 0..NoExpiry
        BY FeedAssumption DEF NoExpiry
      <3> QED
        BY <1>5, <3>1 DEF OpenFeed, Begun, Types, Healths
    <2> QED
      BY <1>5, <2>1, <2>2, MoveToTypes
      DEF OpenFeed, Types, TypeOK, Tokens, Healths, Fetching
  <1>6. CASE Connected
    <2>1. chain' \in Seq(Transitions) /\ step' = "none"
      BY <1>6, OverTypes DEF Connected
    <2>2. lifecycle' \in {lifecycle, "RUNNING"} /\ backfills' \in [Stages -> Nat]
      BY <1>6 DEF Connected, Runs, Types, Stages
    <2> QED
      BY <1>6, <2>1, <2>2 DEF Connected, Types, TypeOK
  <1>7. CASE ConnectFails
    <2>1. chain' \in Seq(Transitions) /\ step' = "none"
      BY <1>7, OverTypes DEF ConnectFails
    <2>2. Stopped(health) \in Healths /\ market \in BOOLEAN
      BY HealthTypes DEF Types, TypeOK
    <2>3. CASE Stale
      BY <1>7, <2>1, <2>3 DEF ConnectFails, Types, TypeOK
    <2>4. CASE ~Stale /\ Expired(health) /\ ~expiryHandled
      <3>1. Refresh(Stopped(health), market, open) /\ UNCHANGED lifecycle
        BY <1>7, <2>4 DEF ConnectFails
      <3>2. Refreshed /\ open' \subseteq 1..starts
        BY <2>2, <3>1, RefreshTypes DEF Types, TypeOK
      <3> QED
        BY <1>7, <2>1, <3>1, <3>2, SMTT(30)
        DEF ConnectFails, Refreshed, Types, TypeOK, Healths, Tokens
    <2>5. CASE ~Stale /\ ~(Expired(health) /\ ~expiryHandled)
      <3>1. lifecycle' = "RUNNING" /\ backfills' \in [Stages -> Nat]
        BY <1>7, <2>5 DEF ConnectFails, Runs, Types, Stages
      <3> QED
        BY <1>7, <2>1, <2>2, <2>5, <3>1 DEF ConnectFails, Types, TypeOK, Healths
    <2> QED
      BY <2>3, <2>4, <2>5
  <1>8. ASSUME NEW f \in 1..starts, NEW acked \in BOOLEAN, Heard(f, acked)
        PROVE  Types'
    <2>1. Acked(acked) \in Healths /\ market \in BOOLEAN
      BY DEF Acked, Types, TypeOK, Healths
    <2>2. Refreshed /\ open' \subseteq 1..starts
      BY <1>8, <2>1, RefreshTypes DEF Heard, Types, TypeOK
    <2> QED
      BY <1>8, <2>2, SMTT(30) DEF Heard, Hear, Refreshed, Types, TypeOK, Healths, Tokens
  <1>9. ASSUME NEW f \in 1..starts, NEW acked \in BOOLEAN, BackOnline(f, acked)
        PROVE  Types'
    <2>1. Acked(acked) \in Healths
      BY DEF Acked, Types, Healths
    <2>2. backfills' \in [Stages -> Nat]
      BY <1>9 DEF BackOnline, Types, Stages
    <2> QED
      BY <1>9, <2>1, <2>2 DEF BackOnline, Hear, Types, TypeOK, Healths
  <1>10. ASSUME NEW f \in 1..starts, Ended(f)
         PROVE  Types'
    <2>1. Stopped(health) \in Healths /\ market \in BOOLEAN
      BY HealthTypes DEF Types, TypeOK
    <2>2. Refreshed /\ open' \subseteq 1..starts
      <3>1. Refresh(Stopped(health), market, IF Fetching THEN open ELSE open \ {f})
        BY <1>10 DEF Ended
      <3>2. (IF Fetching THEN open ELSE open \ {f}) \in SUBSET (1..starts)
        BY DEF Types, TypeOK
      <3> QED
        BY <2>1, <3>1, <3>2, RefreshTypes
    <2> QED
      BY <1>10, <2>2, SMTT(30) DEF Ended, Hear, Refreshed, Types, TypeOK, Healths, Tokens
  <1>11. ASSUME NEW f \in 1..starts, Blocks(f)
         PROVE  Types'
    <2>1. Stopped(health) \in Healths
      BY HealthTypes DEF Types
    <2> QED
      BY <1>11, <2>1 DEF Blocks, Hear, Types, TypeOK, Healths
  <1>12. ASSUME NEW f \in 1..starts, NEW i \in Ids, Trade(f, i)
         PROVE  Types'
    <2>1. Proven \in Healths /\ market \in BOOLEAN
      BY HeardTypes
    <2>2. Refresh(Proven, market, open)
      BY <1>12 DEF Trade, Proven
    <2>3. /\ published' \subseteq Ids /\ since' \subseteq Ids
          /\ history' \subseteq Ids /\ buffer' \subseteq Ids
      BY <1>12 DEF Trade, Types, TypeOK
    <2>4. Refreshed /\ open' \subseteq 1..starts
      <3>1. open \in SUBSET (1..starts)
        BY DEF Types, TypeOK
      <3> QED
        BY <2>1, <2>2, <3>1, RefreshTypes
    <2> QED
      BY <1>12, <2>3, <2>4, SMTT(30) DEF Trade, Refreshed, Types, TypeOK, Healths, Tokens
  <1>13. CASE BarsSettle
    <2>1. PICK which \in {"now", "old"} :
            \/ BarsFail(which)
            \/ which = "now" /\ \E page \in SUBSET Bars : BarsArrive(page)
            \/ which = "old" /\ BarsDropped
      BY <1>13 DEF BarsSettle
    <2>2. Fetched(which)
      BY <2>1 DEF BarsFail, BarsArrive, BarsDropped
    <2>3. fetches' \in [now : 0..1, old : Nat] /\ backfills' \in [Stages -> Nat]
      <3>1. CASE which = "now"
        BY <2>2, <3>1 DEF Fetched, Types, Stages
      <3>2. CASE which = "old"
        BY <2>2, <3>2 DEF Fetched, Types, Stages
      <3> QED
        BY <2>1, <3>1, <3>2
    <2>4. bars' \subseteq Bars /\ savedBars' \subseteq Bars
      BY <2>1, NewestFacts DEF BarsFail, BarsArrive, BarsDropped, barCache, Merged, Types, TypeOK
    <2> QED
      BY <2>1, <2>3, <2>4 DEF BarsFail, BarsArrive, BarsDropped, Types, TypeOK
  <1>14. ASSUME NEW stage \in Stages, AskBars(stage)
         PROVE  Types'
    <2>1. fetches' \in [now : 0..1, old : Nat] /\ backfills' \in [Stages -> Nat]
      <3>1. fetches' \in [now : 0..1, old : Nat]
        BY <1>14 DEF AskBars, FetchBars, Types
      <3>2. \A to \in Stages : [backfills EXCEPT ![to] = @ + 1] \in [Stages -> Nat]
        BY DEF Types
      <3>3. backfills[stage] > 0 => [backfills EXCEPT ![stage] = @ - 1] \in [Stages -> Nat]
        BY <1>14 DEF Types
      <3>4. stage = "late" => backfills' \in [Stages -> Nat]
        BY <1>14, <3>3 DEF AskBars
      <3>5. stage = "ticks" /\ backfills[stage] > 0 =>
              /\ [backfills EXCEPT !["ticks"] = @ - 1, !["bars"] = @ + 1] \in [Stages -> Nat]
              /\ [backfills EXCEPT !["ticks"] = @ - 1, !["ready"] = @ + 1] \in [Stages -> Nat]
        BY DEF Types, Stages
      <3>6. stage = "ticks" => backfills' \in [Stages -> Nat]
        BY <1>14, <3>5 DEF AskBars
      <3> QED
        BY <1>14, <3>1, <3>4, <3>6 DEF AskBars
    <2> QED
      BY <1>14, <2>1 DEF AskBars, Types, TypeOK
  <1>15. CASE Seed
    <2>1. backfills' \in [Stages -> Nat]
      BY <1>15 DEF Seed, Types, Stages
    <2>2. history' \subseteq Ids /\ overlap' \subseteq Ids
      BY <1>15 DEF Seed, Combined, Types, TypeOK
    <2> QED
      BY <1>15, <2>1, <2>2 DEF Seed, Types, TypeOK
  <1>16. CASE Join
    <2>1. fetches' \in [now : 0..1, old : Nat]
      BY <1>16 DEF Join, FetchBars, Types
    <2>2. bars' \subseteq Bars
      BY <1>16, NewestFacts DEF Join, Primed, Types, TypeOK
    <2>3. history' \subseteq Ids /\ overlap' \subseteq Ids
      BY <1>16 DEF Join, Restorable, Types, TypeOK
    <2> QED
      BY <1>16, <2>1, <2>2, <2>3 DEF Join, Types, TypeOK
  <1>17. CASE Leave
    BY <1>17 DEF Leave, Types, TypeOK
  <1>18. CASE Cleanup
    <2>1. /\ chain' \in Seq(Transitions)
          /\ fetches' \in Tokens /\ backfills' \in [Stages -> Nat]
          /\ active' \in {active, 0}
      BY <1>18, AskedTypes, MoveToTypes DEF Cleanup, StopFeed, Types, Tokens, Callers
    <2> QED
      BY <1>18, <2>1 DEF Cleanup, Types, TypeOK, Tokens
  <1>19. CASE Shutdown
    <2>1. Dispose
      BY <1>19 DEF Shutdown
    <2>2. /\ chain' \in Seq(Transitions) /\ active' = 0
          /\ fetches' \in Tokens /\ backfills' \in [Stages -> Nat]
      BY <2>1, DisposeTypes
    <2> QED
      BY <1>19, <2>2, SMTT(30) DEF Shutdown, Types, TypeOK, Tokens
  <1>20. CASE Created
    <2>1. CASE disposed
      <3>1. Dispose
        BY <1>20, <2>1 DEF Created
      <3>2. /\ chain' \in Seq(Transitions) /\ active' = 0
            /\ fetches' \in Tokens /\ backfills' \in [Stages -> Nat]
        BY <3>1, DisposeTypes
      <3> QED
        BY <1>20, <3>2, SMTT(30) DEF Created, Returned, Types, TypeOK, Tokens
    <2>2. CASE ~disposed
      BY <1>20, <2>2 DEF Created, Returned, NoDisposal, Types, TypeOK
    <2> QED
      BY <2>1, <2>2
  <1>21. CASE CleanedUp
    <2>1. subs > 0 => chain' \in Seq(Transitions)
      BY <1>21, AskedTypes DEF CleanedUp, Callers
    <2>2. CASE subs > 0 \/ ~listed
      BY <1>21, <2>1, <2>2 DEF CleanedUp, Returned, NoDisposal, Types, TypeOK
    <2>3. CASE ~(subs > 0) /\ listed
      <3>1. Dispose
        BY <1>21, <2>3 DEF CleanedUp
      <3>2. /\ chain' \in Seq(Transitions) /\ active' = 0
            /\ fetches' \in Tokens /\ backfills' \in [Stages -> Nat]
        BY <3>1, DisposeTypes
      <3> QED
        BY <1>21, <3>2, SMTT(30) DEF CleanedUp, Returned, Types, TypeOK, Tokens
    <2> QED
      BY <2>2, <2>3
  <1>22. CASE Restarted
    BY <1>22 DEF Restarted, Returned, NoDisposal, Types, TypeOK
  <1>23. CASE Disposed
    BY <1>23 DEF Disposed, Returned, NoDisposal, Types, TypeOK
  <1>24. CASE UNCHANGED vars
    BY <1>24 DEF vars, Types, TypeOK
  <1> QED
    BY <1>1, <1>2, <1>3, <1>4, <1>5, <1>6, <1>7, <1>8, <1>9, <1>10, <1>11, <1>12, <1>13,
       <1>14, <1>15, <1>16, <1>17, <1>18, <1>19, <1>20, <1>21, <1>22, <1>23, <1>24
    DEF Next, ChainStep, GoOn, BackfillGoesOn


-----------------------------------------------------------------------------
(* Phases: the feed, the life cycle and the running transition.            *)

(* A refresh leaves the transition alone; it may end the feed.             *)
LEMMA PhasesRefreshed ==
  ASSUME Phases, active' \in {active, 0}, open' \subseteq open, UNCHANGED lifetime
  PROVE  Phases'
BY DEF Phases, lifetime

(* So does whatever only asks for a transition.                            *)
LEMMA PhasesAsked ==
  ASSUME Types, Phases, active' \in {active, 0}, UNCHANGED open,
         UNCHANGED <<starts, lifecycle, feed, step, healthTimer>>,
         NEW op, NEW caller, Asked(op, caller) \/ UNCHANGED chain
  PROVE  Phases'
  <1>1. chain # <<>> => chain' # <<>> /\ Head(chain').op = Head(chain).op
    BY DEF Types, Asked, Transitions
  <1> QED
    BY <1>1 DEF Phases

LEMMA PhasesStep ==
  ASSUME Types, Phases, [Next]_vars
  PROVE  Phases'
  <1> USE DEF clock, tokens, evidence, context, trades, seeding, barCache
  <1>1. CASE Tick
    <2>1. active' \in {active, 0} /\ open' \subseteq open
      <3>1. Aged(health) \in Healths
        BY HealthTypes DEF Types
      <3>2. CASE healthTimer
        BY <1>1, <3>1, <3>2, RefreshFacts DEF Tick
      <3>3. CASE ~healthTimer
        BY <1>1, <3>3 DEF Tick
      <3> QED
        BY <3>2, <3>3
    <2> QED
      BY <1>1, <2>1, PhasesRefreshed DEF Tick
  <1>2. CASE BeginStop
    <2>1. active' = 0
      BY <1>2 DEF BeginStop, CloseFeed, MoveTo
    <2>2. /\ lifecycle' = "STOPPING" /\ healthTimer' = FALSE /\ feed' = 0 /\ step' = "closing"
          /\ open' = open \ {feed} /\ chain # <<>> /\ chain' = chain
      BY <1>2 DEF BeginStop, CloseFeed, Running
    <2> QED
      BY <2>1, <2>2 DEF Phases, Moving
  <1>3. CASE EndStop
    <2>1. active' \in {active, 0} /\ open' \subseteq open
      <3>1. Stopped(health) \in Healths /\ market \in BOOLEAN
        BY HealthTypes DEF Types, TypeOK
      <3>2. Refresh(Stopped(health), market, open)
        BY <1>3 DEF EndStop
      <3> QED
        BY <3>1, <3>2, RefreshFacts
    <2>2. /\ step = "closing" /\ lifecycle' = "STOPPED"
          /\ UNCHANGED <<starts, feed, healthTimer>>
      BY <1>3 DEF EndStop
    <2>3. feed = 0 /\ open = {} /\ chain # <<>>
      BY <2>2 DEF Phases, Moving, Types, TypeOK
    <2>4. CASE Head(chain).op = "stop"
      <3>1. step' = "none"
        BY <1>3, <2>4 DEF EndStop, Over
      <3> QED
        BY <2>1, <2>2, <2>3, <3>1 DEF Phases, Moving
    <2>5. CASE Head(chain).op # "stop"
      <3>1. step' = "opening" /\ chain' = chain
        BY <1>3, <2>5 DEF EndStop
      <3>2. Head(chain).op = "start"
        <4>1. Head(chain) \in Transitions
          BY <2>3 DEF Types
        <4> QED
          BY <2>5, <4>1 DEF Transitions
      <3> QED
        BY <2>1, <2>2, <2>3, <3>1, <3>2 DEF Phases, Moving
    <2> QED
      BY <2>4, <2>5
  <1>4. CASE StartRefused
    <2>1. step = "none" /\ step' = "none"
          /\ UNCHANGED <<tokens, open, starts, lifecycle, feed, healthTimer>>
      BY <1>4 DEF StartRefused, Running, Over
    <2> QED
      BY <2>1 DEF Phases
  <1>5. CASE OpenFeed
    <2>1. /\ feed' = starts + 1 /\ starts' = starts + 1 /\ active' = starts + 1
          /\ open' = open \union {starts + 1}
          /\ lifecycle' = "STARTING" /\ step' = "connecting" /\ healthTimer' = TRUE
          /\ chain' = chain
      BY <1>5 DEF OpenFeed, MoveTo
    <2>2. chain # <<>> /\ Head(chain).op = "start"
      BY <1>5 DEF OpenFeed, Running
    <2>3. feed = 0 /\ open = {}
      BY <1>5 DEF OpenFeed, Running, Phases, Moving, Types, TypeOK
    <2>4. starts + 1 # 0
      BY DEF Types
    <2> QED
      BY <2>1, <2>2, <2>3, <2>4 DEF Phases, Moving
  <1>6. ASSUME Connected \/ ConnectFails
        PROVE  Phases'
    <2>1. active' \in {active, 0} /\ open' \subseteq open /\ lifecycle' \in {lifecycle, "RUNNING"}
      <3>1. CASE Connected
        BY <3>1 DEF Connected, Runs
      <3>2. CASE ConnectFails /\ Expired(health) /\ ~expiryHandled /\ ~Stale
        <4>1. Stopped(health) \in Healths /\ market \in BOOLEAN
          BY HealthTypes DEF Types, TypeOK
        <4>2. Refresh(Stopped(health), market, open) /\ UNCHANGED lifecycle
          BY <3>2 DEF ConnectFails
        <4> QED
          BY <4>1, <4>2, RefreshFacts
      <3>3. CASE ConnectFails /\ (Stale \/ ~(Expired(health) /\ ~expiryHandled))
        BY <3>3 DEF ConnectFails, Runs
      <3> QED
        BY <1>6, <3>1, <3>2, <3>3
    <2>2. /\ step = "connecting" /\ step' = "none"
          /\ UNCHANGED <<starts, feed, healthTimer>>
      BY <1>6 DEF Connected, ConnectFails, Over
    <2> QED
      BY <2>1, <2>2 DEF Phases, Moving
  <1>7. ASSUME NEW f \in 1..starts, NEW acked \in BOOLEAN, Heard(f, acked) \/ BackOnline(f, acked)
        PROVE  Phases'
    <2>1. active' \in {active, 0} /\ open' \subseteq open
      <3>1. Acked(acked) \in Healths /\ market \in BOOLEAN
        BY HeardTypes
      <3>2. CASE Heard(f, acked)
        BY <3>1, <3>2, RefreshFacts DEF Heard
      <3>3. CASE BackOnline(f, acked)
        BY <3>3 DEF BackOnline
      <3> QED
        BY <1>7, <3>2, <3>3
    <2> QED
      BY <1>7, <2>1, PhasesRefreshed DEF Heard, BackOnline
  <1>8. ASSUME NEW f \in 1..starts, Ended(f)
        PROVE  Phases'
    <2>1. active' \in {active, 0} /\ open' \subseteq open
      <3>1. Stopped(health) \in Healths /\ market \in BOOLEAN
        BY HealthTypes DEF Types, TypeOK
      <3>2. Refresh(Stopped(health), market, IF Fetching THEN open ELSE open \ {f})
        BY <1>8 DEF Ended
      <3> QED
        BY <3>1, <3>2, RefreshFacts
    <2> QED
      BY <1>8, <2>1, PhasesRefreshed DEF Ended
  <1>9. ASSUME NEW f \in 1..starts, Blocks(f)
        PROVE  Phases'
    BY <1>9, PhasesRefreshed DEF Blocks
  <1>10. ASSUME NEW f \in 1..starts, NEW i \in Ids, Trade(f, i)
         PROVE  Phases'
    <2>1. Proven \in Healths /\ market \in BOOLEAN
      BY HeardTypes
    <2>2. Refresh(Proven, market, open) /\ UNCHANGED lifetime
      BY <1>10 DEF Trade, Proven
    <2> QED
      BY <2>1, <2>2, RefreshFacts, PhasesRefreshed
  <1>11. CASE BarsSettle
    BY <1>11 DEF BarsSettle, BarsFail, BarsArrive, BarsDropped, lifetime, Phases
  <1>12. CASE BackfillGoesOn
    BY <1>12 DEF BackfillGoesOn, AskBars, Seed, lifetime, Phases
  <1>13. CASE Join \/ Leave
    BY <1>13 DEF Join, Leave, lifetime, Phases
  <1>14. CASE Cleanup
    BY <1>14, PhasesAsked DEF Cleanup, StopFeed, MoveTo
  <1>15. CASE Shutdown
    BY <1>15, PhasesAsked DEF Shutdown, Dispose, MoveTo
  <1>16. CASE GoOn
    <2>1. \/ \E op, caller : Asked(op, caller)
          \/ UNCHANGED chain
      BY <1>16 DEF GoOn, Created, CleanedUp, Restarted, Disposed, Dispose
    <2>2. /\ active' \in {active, 0}
          /\ UNCHANGED <<open, starts, lifecycle, feed, step, healthTimer>>
      BY <1>16 DEF GoOn, Created, CleanedUp, Restarted, Disposed, Dispose, NoDisposal,
                   Returned, MoveTo
    <2> QED
      BY <2>1, <2>2, PhasesAsked
  <1>17. CASE UNCHANGED vars
    BY <1>17 DEF vars, lifetime, Phases
  <1> QED
    BY <1>1, <1>2, <1>3, <1>4, <1>5, <1>6, <1>7, <1>8, <1>9, <1>10, <1>11, <1>12, <1>13,
       <1>14, <1>15, <1>16, <1>17
    DEF Next, ChainStep

-----------------------------------------------------------------------------
(* LetsGo: the end of a disposed context.                                  *)

(* A stop that waits goes on waiting while others are asked for.           *)
LEMMA PendingKept ==
  ASSUME Types, Phases, StopPending \/ AtRest, UNCHANGED <<feed, step>>,
         NEW op, NEW caller, Asked(op, caller) \/ UNCHANGED chain
  PROVE  StopPending' \/ AtRest'
  <1>1. CASE StopPending
    <2>1. PICK i \in 1..Len(chain) : chain[i].op = "stop" /\ (i > 1 \/ step = "none")
      BY <1>1 DEF StopPending
    <2>2. chain \in Seq(Transitions) /\ Len(chain) \in Nat /\ i \in Nat /\ i <= Len(chain)
      BY <2>1 DEF Types
    <2>3. CASE Asked(op, caller)
      BY <2>1, <2>2, <2>3 DEF Asked, StopPending
    <2>4. CASE UNCHANGED chain
      BY <2>1, <2>4 DEF StopPending
    <2> QED
      BY <2>3, <2>4
  <1>2. CASE AtRest
    <2>1. chain # <<>> => Head(chain') = Head(chain)
      BY DEF Types, Asked
    <2> QED
      BY <1>2, <2>1 DEF AtRest, Phases
  <1> QED
    BY <1>1, <1>2

(* dispose() asks for one.                                                 *)
LEMMA PendingAsked ==
  ASSUME Types, Phases, NEW caller, Asked("stop", caller), UNCHANGED step
  PROVE  StopPending'
  <1>1. Len(chain) \in Nat /\ chain \in Seq(Transitions)
    BY DEF Types
  <1>2. /\ Len(chain') = Len(chain) + 1
        /\ chain'[Len(chain) + 1] = [op |-> "stop", caller |-> caller]
    BY <1>1 DEF Asked
  <1>3. Len(chain) + 1 > 1 \/ step = "none"
    BY <1>1 DEF Phases
  <1>4. Len(chain) + 1 \in 1..Len(chain')
    BY <1>1, <1>2
  <1> QED
    BY <1>2, <1>3, <1>4 DEF StopPending

(* One that was behind the running transition comes nearer.                *)
LEMMA PendingNearer ==
  ASSUME Types, Phases, StopPending, Over, step # "none" \/ Head(chain).op = "start",
         chain # <<>>
  PROVE  StopPending'
  <1>1. PICK i \in 1..Len(chain) : chain[i].op = "stop" /\ (i > 1 \/ step = "none")
    BY DEF StopPending
  <1>2. i > 1
    BY <1>1 DEF Types
  <1>3. chain' = Tail(chain) /\ step' = "none"
    BY DEF Over
  <1>4. i - 1 \in 1..Len(Tail(chain)) /\ Tail(chain)[i - 1] = chain[i]
    BY <1>1, <1>2 DEF Types
  <1> QED
    BY <1>1, <1>3, <1>4 DEF StopPending

LEMMA LetsGoStep ==
  ASSUME Types, Phases, LetsGo, [Next]_vars
  PROVE  LetsGo'
  <1> USE DEF clock, tokens, evidence, context, trades, seeding, barCache
  <1>1. CASE UNCHANGED <<disposed, feed, step, chain>>
    BY <1>1 DEF LetsGo, AtRest, StopPending
  <1>2. CASE BeginStop
    <2>1. /\ feed' = 0 /\ step' = "closing" /\ UNCHANGED <<disposed, chain>>
          /\ step = "none" /\ (Head(chain).op = "stop" \/ (Head(chain).op = "start" /\ ~disposed))
      BY <1>2 DEF BeginStop, CloseFeed, Running, MayStart
    <2> QED
      BY <2>1 DEF LetsGo, AtRest
  <1>3. CASE EndStop
    <2>1. step = "closing" /\ UNCHANGED <<disposed, feed>> /\ chain # <<>> /\ feed = 0
      BY <1>3 DEF EndStop, Phases, Moving
    <2>2. CASE Head(chain).op = "stop"
      <3>1. step' = "none"
        BY <1>3, <2>2 DEF EndStop, Over
      <3> QED
        BY <2>1, <3>1 DEF LetsGo, AtRest
    <2>3. CASE Head(chain).op # "stop"
      <3>1. step' = "opening" /\ chain' = chain
        BY <1>3, <2>3 DEF EndStop
      <3> QED
        BY <2>1, <2>3, <3>1 DEF LetsGo, AtRest, StopPending
    <2> QED
      BY <2>2, <2>3
  <1>4. CASE StartRefused
    <2>1. /\ step = "none" /\ Head(chain).op = "start" /\ chain # <<>>
          /\ Over /\ step' = "none" /\ UNCHANGED <<disposed, feed>>
      BY <1>4 DEF StartRefused, Running, Over
    <2> QED
      BY <2>1, PendingNearer DEF LetsGo, AtRest
  <1>5. CASE OpenFeed
    <2>1. step' = "connecting" /\ UNCHANGED <<disposed, chain>>
      BY <1>5 DEF OpenFeed
    <2>2. CASE step = "opening"
      <3>1. disposed => StopPending
        BY <2>2 DEF LetsGo, AtRest, Phases
      <3> QED
        BY <2>1, <2>2, <3>1 DEF LetsGo, StopPending
    <2>3. CASE step = "none" /\ MayStart
      BY <2>1, <2>3 DEF LetsGo, MayStart
    <2> QED
      BY <1>5, <2>2, <2>3 DEF OpenFeed, Running
  <1>6. CASE Connected \/ ConnectFails
    <2>1. step = "connecting" /\ Over /\ UNCHANGED <<disposed, feed>>
      BY <1>6 DEF Connected, ConnectFails
    <2>2. feed # 0 /\ chain # <<>>
      BY <2>1 DEF Phases, Moving
    <2> QED
      BY <2>1, <2>2, PendingNearer DEF LetsGo, AtRest
  <1>7. CASE Cleanup
    <2>1. \/ Asked("stop", "cleanup")
          \/ UNCHANGED chain
      BY <1>7 DEF Cleanup, StopFeed
    <2>2. UNCHANGED <<feed, step, disposed>>
      BY <1>7 DEF Cleanup
    <2> QED
      BY <2>1, <2>2, PendingKept DEF LetsGo
  <1>8. ASSUME Dispose, UNCHANGED step
        PROVE  LetsGo'
    <2>1. Asked("stop", "dispose")
      BY <1>8 DEF Dispose
    <2> QED
      BY <1>8, <2>1, PendingAsked DEF LetsGo
  <1>9. CASE GoOn
    <2>1. UNCHANGED <<feed, step>>
      BY <1>9 DEF GoOn, Created, CleanedUp, Restarted, Disposed, Returned
    <2>2. CASE Dispose
      BY <1>8, <2>1, <2>2
    <2>3. CASE ~Dispose
      <3>1. /\ Asked("start", "restart") \/ UNCHANGED chain
            /\ UNCHANGED disposed
        BY <1>9, <2>3 DEF GoOn, Created, CleanedUp, Restarted, Disposed, NoDisposal
      <3> QED
        BY <2>1, <3>1, PendingKept DEF LetsGo
    <2> QED
      BY <2>2, <2>3
  <1>10. CASE Shutdown
    BY <1>8, <1>10 DEF Shutdown
  <1>11. ASSUME NEW f \in 1..starts
         PROVE  /\ \A acked \in BOOLEAN : Heard(f, acked) \/ BackOnline(f, acked) => LetsGo'
                /\ Ended(f) \/ Blocks(f) => LetsGo'
                /\ \A i \in Ids : Trade(f, i) => LetsGo'
    BY <1>1 DEF Heard, BackOnline, Ended, Blocks, Trade, lifetime
  <1>12. CASE Tick \/ BarsSettle \/ BackfillGoesOn \/ Join \/ Leave
    BY <1>1, <1>12 DEF Tick, BarsSettle, BarsFail, BarsArrive, BarsDropped, BackfillGoesOn, AskBars, Seed,
                       Join, Leave, lifetime
  <1>13. CASE UNCHANGED vars
    BY <1>1, <1>13 DEF vars, lifetime
  <1> QED
    BY <1>2, <1>3, <1>4, <1>5, <1>6, <1>7, <1>9, <1>10, <1>11, <1>12, <1>13
    DEF Next, ChainStep

-----------------------------------------------------------------------------
(* Evidence: what LIVE stands on.                                          *)

(* A refresh says LIVE only of an open feed, if a health that runs was that *)
(* of an open feed.                                                        *)
LEMMA EvidenceRefreshed ==
  ASSUME Types, NEW h \in Healths, NEW opened, market' \in BOOLEAN,
         Refresh(h, market', opened), UNCHANGED <<blocked, feed>>,
         blocked => h.terminal,
         h.on /\ ~h.terminal /\ lifecycle' # "STOPPING" => feed \in opened
  PROVE  Evidence'
  <1>1. /\ health'.terminal \/ (health' = h /\ open' = opened)
        /\ status' = "LIVE" => IsLive(h, market') /\ health' = h /\ open' = opened
        /\ h.terminal => health'.terminal
    BY RefreshFacts
  <1>2. ASSUME status' = "LIVE", lifecycle' # "STOPPING"
        PROVE  /\ feed \in open' /\ ~blocked /\ market'
               /\ health'.acked /\ health'.age <= FreshFor /\ ~(health'.left = 0)
    BY <1>1, <1>2 DEF IsLive, Expired
  <1> QED
    BY <1>1, <1>2 DEF Evidence, StatusIsEvidence, Expired

(* An ended health is evidence of nothing.                                 *)
LEMMA EvidenceEnded ==
  ASSUME health'.terminal, status' = "UNAVAILABLE"
  PROVE  Evidence'
BY DEF Evidence, StatusIsEvidence

LEMMA EvidenceStep ==
  ASSUME Types, Phases, Evidence, [Next]_vars
  PROVE  Evidence'
  <1> USE DEF clock, tokens, context, trades, seeding, barCache
  <1>1. CASE UNCHANGED <<blocked, health, lifecycle, feed, open, status, market>>
    BY <1>1 DEF Evidence, StatusIsEvidence, Expired
  <1>2. CASE Tick
    <2>1. /\ Aged(health) \in Healths
          /\ Aged(health).terminal = health.terminal /\ Aged(health).on = health.on
      BY HealthTypes DEF Types
    <2>2. /\ market' \in BOOLEAN
          /\ UNCHANGED <<blocked, feed, lifecycle>>
      BY <1>2 DEF Tick, lifetime
    <2>3. CASE healthTimer
      <3>1. Refresh(Aged(health), market', open)
        BY <1>2, <2>3 DEF Tick
      <3> QED
        BY <2>1, <2>2, <3>1, EvidenceRefreshed DEF Evidence
    <2>4. CASE ~healthTimer
      <3>1. /\ UNCHANGED <<status, open>> /\ health' = Aged(health)
        BY <1>2, <2>4 DEF Tick
      <3>2. feed \notin open
        <4>1. feed = 0
          BY <2>4 DEF Phases
        <4> QED
          BY <4>1 DEF Types, TypeOK
      <3> QED
        BY <2>1, <2>2, <3>1, <3>2 DEF Evidence, StatusIsEvidence
    <2> QED
      BY <2>3, <2>4
  <1>3. CASE BeginStop
    <2>1. lifecycle' = "STOPPING" /\ UNCHANGED <<health, blocked>>
      BY <1>3 DEF BeginStop, CloseFeed, evidence
    <2> QED
      BY <2>1 DEF Evidence, StatusIsEvidence
  <1>4. CASE EndStop
    <2>1. /\ Stopped(health) \in Healths /\ Stopped(health).terminal
      BY HealthTypes DEF Types
    <2>2. /\ Refresh(Stopped(health), market', open) /\ UNCHANGED <<blocked, feed>>
          /\ market' \in BOOLEAN
      BY <1>4 DEF EndStop, Types, TypeOK
    <2> QED
      BY <2>1, <2>2, EvidenceRefreshed
  <1>5. CASE StartRefused
    <2>1. /\ status' \in {status, "UNAVAILABLE"}
          /\ UNCHANGED <<blocked, health, lifecycle, feed, open, market>>
      BY <1>5 DEF StartRefused
    <2> QED
      BY <2>1 DEF Evidence, StatusIsEvidence, Expired
  <1>6. CASE OpenFeed
    <2>1. /\ feed' \in open' /\ lifecycle' # "STOPPING"
          /\ health' = Begun(health, IF Fetching THEN NoExpiry ELSE Lifetime)
          /\ UNCHANGED <<blocked, status>>
      BY <1>6 DEF OpenFeed
    <2>2. feed \notin open /\ lifecycle # "STOPPING"
      BY <1>6 DEF OpenFeed, Running, Phases, Moving, Types, TypeOK
    <2>3. health.terminal => health'.terminal
      BY <2>1 DEF Begun
    <2> QED
      BY <2>1, <2>2, <2>3 DEF Evidence, StatusIsEvidence
  <1>7. CASE Connected
    <2>1. lifecycle # "STOPPING" /\ UNCHANGED <<blocked, health, feed, open, status, market>>
      BY <1>7 DEF Connected, Phases, evidence
    <2> QED
      BY <2>1 DEF Evidence, StatusIsEvidence, Expired
  <1>8. CASE ConnectFails
    <2>1. /\ Stopped(health) \in Healths /\ Stopped(health).terminal
      BY HealthTypes DEF Types
    <2>2. UNCHANGED <<blocked, feed, market>> /\ market' \in BOOLEAN
      BY <1>8 DEF ConnectFails, Types, TypeOK
    <2>3. CASE Stale
      BY <1>1, <1>8, <2>2, <2>3 DEF ConnectFails, evidence
    <2>4. CASE ~Stale /\ Expired(health) /\ ~expiryHandled
      <3>1. Refresh(Stopped(health), market', open)
        BY <1>8, <2>4 DEF ConnectFails
      <3> QED
        BY <2>1, <2>2, <3>1, EvidenceRefreshed
    <2>5. CASE ~Stale /\ ~(Expired(health) /\ ~expiryHandled)
      <3>1. health' = Stopped(health) /\ status' = "UNAVAILABLE"
        BY <1>8, <2>5 DEF ConnectFails
      <3> QED
        BY <2>1, <3>1, EvidenceEnded
    <2> QED
      BY <2>3, <2>4, <2>5
  <1>9. ASSUME NEW f \in 1..starts, NEW acked \in BOOLEAN, Heard(f, acked)
        PROVE  Evidence'
    <2>1. /\ Acked(acked) \in Healths
          /\ Acked(acked).terminal = health.terminal /\ Acked(acked).on = health.on
      BY HeardTypes
    <2>2. /\ Refresh(Acked(acked), market', open) /\ UNCHANGED <<blocked, feed, lifecycle>>
          /\ market' \in BOOLEAN
      BY <1>9 DEF Heard, lifetime, Types, TypeOK
    <2> QED
      BY <2>1, <2>2, EvidenceRefreshed DEF Evidence
  <1>10. ASSUME NEW f \in 1..starts, NEW acked \in BOOLEAN, BackOnline(f, acked)
         PROVE  Evidence'
    <2>1. Acked(acked).terminal = health.terminal /\ Acked(acked).on = health.on
      BY HeardTypes
    <2>2. /\ IsLive(Acked(acked), market) /\ health' = Acked(acked)
          /\ UNCHANGED <<blocked, feed, lifecycle, open, market>>
      BY <1>10 DEF BackOnline, lifetime
    <2>3. /\ health'.on /\ ~health'.terminal /\ health'.acked /\ market'
          /\ health'.age <= FreshFor /\ ~(health'.left = 0)
      BY <2>2 DEF IsLive, Expired
    <2> QED
      BY <2>1, <2>2, <2>3 DEF Evidence, StatusIsEvidence, Expired
  <1>11. ASSUME NEW f \in 1..starts, Ended(f)
         PROVE  Evidence'
    <2>1. /\ Stopped(health) \in Healths /\ Stopped(health).terminal
      BY HealthTypes DEF Types
    <2>2. /\ Refresh(Stopped(health), market', IF Fetching THEN open ELSE open \ {f})
          /\ UNCHANGED <<blocked, feed>> /\ market' \in BOOLEAN
      BY <1>11 DEF Ended, lifetime, Types, TypeOK
    <2> QED
      BY <2>1, <2>2, EvidenceRefreshed
  <1>12. ASSUME NEW f \in 1..starts, Blocks(f)
         PROVE  Evidence'
    <2>1. Stopped(health).terminal
      BY HealthTypes DEF Types
    <2> QED
      BY <1>12, <2>1, EvidenceEnded DEF Blocks
  <1>13. ASSUME NEW f \in 1..starts, NEW i \in Ids, Trade(f, i)
         PROVE  Evidence'
    <2>1. /\ Proven \in Healths
          /\ Proven.terminal = health.terminal /\ Proven.on = health.on
      BY HeardTypes
    <2>2. /\ Refresh(Proven, market', open) /\ UNCHANGED <<blocked, feed, lifecycle>>
          /\ market' \in BOOLEAN
      BY <1>13 DEF Trade, Proven, lifetime, Types, TypeOK
    <2> QED
      BY <2>1, <2>2, EvidenceRefreshed DEF Evidence
  <1>14. CASE BarsSettle \/ BackfillGoesOn \/ Join \/ Leave \/ Cleanup \/ Shutdown \/ GoOn
    BY <1>1, <1>14 DEF BarsSettle, BarsFail, BarsArrive, BarsDropped, BackfillGoesOn, AskBars, Seed, Join,
                       Leave, Cleanup, Shutdown, GoOn, Created, CleanedUp, Restarted, Disposed,
                       Returned, lifetime, evidence
  <1>15. CASE UNCHANGED vars
    BY <1>1, <1>15 DEF vars, lifetime, evidence
  <1> QED
    BY <1>2, <1>3, <1>4, <1>5, <1>6, <1>7, <1>8, <1>9, <1>10, <1>11, <1>12, <1>13, <1>14, <1>15
    DEF Next, ChainStep

-----------------------------------------------------------------------------
(* Expiry.                                                                 *)

LEMMA ExpiryRefreshed ==
  ASSUME Types, Expiry, NEW h \in Healths, NEW isOpen \in BOOLEAN, NEW opened,
         Refresh(h, isOpen, opened), UNCHANGED <<mode, starts>>,
         health.left = NoExpiry => h.left = NoExpiry
  PROVE  Expiry'
  <1>1. /\ health'.left = h.left /\ active' \in {active, 0}
        /\ expiryHandled' => expiryHandled \/ (h.left = 0 /\ active' = 0)
    BY RefreshFacts
  <1>2. NoExpiry # 0 /\ mode \in {"ordinary", "open"}
    BY FeedAssumption DEF NoExpiry, Types, TypeOK
  <1> QED
    BY <1>1, <1>2 DEF Expiry

LEMMA ExpiryStep ==
  ASSUME Types, Phases, Expiry, [Next]_vars
  PROVE  Expiry'
  <1> USE DEF clock, tokens, context, trades, seeding, barCache
  <1>1. ASSUME UNCHANGED <<mode, starts, expiryHandled>>, active' \in {active, 0},
               health.left = NoExpiry => health'.left = NoExpiry
        PROVE  Expiry'
    BY <1>1 DEF Expiry
  <1>2. CASE Tick
    <2>1. /\ Aged(health) \in Healths
          /\ health.left = NoExpiry => Aged(health).left = NoExpiry
      BY HealthTypes DEF Types
    <2>2. market' \in BOOLEAN /\ UNCHANGED <<mode, starts>>
      BY <1>2 DEF Tick, lifetime
    <2>3. CASE healthTimer
      <3>1. Refresh(Aged(health), market', open)
        BY <1>2, <2>3 DEF Tick
      <3> QED
        BY <2>1, <2>2, <3>1, ExpiryRefreshed
    <2>4. CASE ~healthTimer
      <3>1. health' = Aged(health) /\ UNCHANGED <<expiryHandled, active>>
        BY <1>2, <2>4 DEF Tick
      <3> QED
        BY <1>1, <2>1, <2>2, <3>1
    <2> QED
      BY <2>3, <2>4
  <1>3. CASE BeginStop
    BY <1>1, <1>3 DEF BeginStop, CloseFeed, MoveTo, evidence
  <1>4. CASE EndStop
    <2>1. /\ Stopped(health) \in Healths /\ Stopped(health).left = health.left
          /\ market \in BOOLEAN
      BY HealthTypes, HeardTypes DEF Types
    <2>2. Refresh(Stopped(health), market, open) /\ UNCHANGED <<mode, starts>>
      BY <1>4 DEF EndStop
    <2> QED
      BY <2>1, <2>2, ExpiryRefreshed
  <1>5. CASE StartRefused
    BY <1>1, <1>5 DEF StartRefused
  <1>6. CASE OpenFeed
    <2>1. /\ starts' = starts + 1 /\ active' = starts + 1 /\ UNCHANGED <<mode, expiryHandled>>
          /\ health' = Begun(health, IF mode = "open" THEN NoExpiry ELSE Lifetime)
      BY <1>6 DEF OpenFeed, MoveTo, Fetching
    <2>2. mode = "open" /\ health.left = NoExpiry => health'.left = NoExpiry
      BY <2>1 DEF Begun, Types, Healths
    <2>3. starts \in Nat
      BY DEF Types
    <2> QED
      BY <2>1, <2>2, <2>3 DEF Expiry
  <1>7. CASE Connected
    BY <1>1, <1>7 DEF Connected, evidence
  <1>8. CASE ConnectFails
    <2>1. /\ Stopped(health) \in Healths /\ Stopped(health).left = health.left
          /\ market \in BOOLEAN
      BY HealthTypes, HeardTypes DEF Types
    <2>2. UNCHANGED <<mode, starts>>
      BY <1>8 DEF ConnectFails
    <2>3. CASE Stale
      BY <1>1, <1>8, <2>2, <2>3 DEF ConnectFails, evidence
    <2>4. CASE ~Stale /\ Expired(health) /\ ~expiryHandled
      <3>1. Refresh(Stopped(health), market, open)
        BY <1>8, <2>4 DEF ConnectFails
      <3> QED
        BY <2>1, <2>2, <3>1, ExpiryRefreshed
    <2>5. CASE ~Stale /\ ~(Expired(health) /\ ~expiryHandled)
      <3>1. health' = Stopped(health) /\ UNCHANGED <<expiryHandled, active>>
        BY <1>8, <2>5 DEF ConnectFails
      <3> QED
        BY <1>1, <2>1, <2>2, <3>1
    <2> QED
      BY <2>3, <2>4, <2>5
  <1>9. ASSUME NEW f \in 1..starts, NEW acked \in BOOLEAN, Heard(f, acked) \/ BackOnline(f, acked)
        PROVE  Expiry'
    <2>1. /\ Acked(acked) \in Healths /\ Acked(acked).left = health.left /\ market \in BOOLEAN
      BY HeardTypes
    <2>2. UNCHANGED <<mode, starts>>
      BY <1>9 DEF Heard, BackOnline, lifetime
    <2>3. CASE Heard(f, acked)
      <3>1. Refresh(Acked(acked), market, open)
        BY <2>3 DEF Heard
      <3> QED
        BY <2>1, <2>2, <3>1, ExpiryRefreshed
    <2>4. CASE BackOnline(f, acked)
      <3>1. health' = Acked(acked) /\ UNCHANGED <<expiryHandled, active>>
        BY <2>4 DEF BackOnline
      <3> QED
        BY <1>1, <2>1, <2>2, <3>1
    <2> QED
      BY <1>9, <2>3, <2>4
  <1>10. ASSUME NEW f \in 1..starts, Ended(f)
         PROVE  Expiry'
    <2>1. /\ Stopped(health) \in Healths /\ Stopped(health).left = health.left
          /\ market \in BOOLEAN
      BY HealthTypes, HeardTypes DEF Types
    <2>2. /\ Refresh(Stopped(health), market, IF Fetching THEN open ELSE open \ {f})
          /\ UNCHANGED <<mode, starts>>
      BY <1>10 DEF Ended, lifetime
    <2> QED
      BY <2>1, <2>2, ExpiryRefreshed
  <1>11. ASSUME NEW f \in 1..starts, Blocks(f)
         PROVE  Expiry'
    <2>1. Stopped(health).left = health.left
      BY HealthTypes DEF Types
    <2> QED
      BY <1>1, <1>11, <2>1 DEF Blocks, lifetime
  <1>12. ASSUME NEW f \in 1..starts, NEW i \in Ids, Trade(f, i)
         PROVE  Expiry'
    <2>1. Proven \in Healths /\ Proven.left = health.left /\ market \in BOOLEAN
      BY HeardTypes
    <2>2. Refresh(Proven, market, open) /\ UNCHANGED <<mode, starts>>
      BY <1>12 DEF Trade, Proven, lifetime
    <2> QED
      BY <2>1, <2>2, ExpiryRefreshed
  <1>13. CASE BarsSettle \/ BackfillGoesOn \/ Join \/ Leave
    BY <1>1, <1>13 DEF BarsSettle, BarsFail, BarsArrive, BarsDropped, BackfillGoesOn, AskBars, Seed, Join,
                       Leave, lifetime, evidence
  <1>14. CASE Cleanup \/ Shutdown
    BY <1>1, <1>14 DEF Cleanup, Shutdown, StopFeed, Dispose, MoveTo, evidence
  <1>15. CASE GoOn
    BY <1>1, <1>15 DEF GoOn, Created, CleanedUp, Restarted, Disposed, Dispose, NoDisposal,
                       Returned, MoveTo, evidence
  <1>16. CASE UNCHANGED vars
    BY <1>1, <1>16 DEF vars, lifetime, evidence
  <1> QED
    BY <1>2, <1>3, <1>4, <1>5, <1>6, <1>7, <1>8, <1>9, <1>10, <1>11, <1>12, <1>13, <1>14,
       <1>15, <1>16
    DEF Next, ChainStep

-----------------------------------------------------------------------------
(* Engines: what browsers were sent and what the engines have.             *)

LEMMA EnginesStep ==
  ASSUME Types, Phases, Engines, [Next]_vars
  PROVE  Engines'
  <1> USE DEF clock, tokens, evidence, context, trades, seeding, barCache
  <1>1. CASE UNCHANGED <<since, engines, history, buffer, past, overlap, backfilling, lifecycle>>
    BY <1>1 DEF Engines
  <1>2. CASE BeginStop
    <2>1. /\ buffer' = {} /\ lifecycle' = "STOPPING"
          /\ UNCHANGED <<since, engines, history, past, overlap>>
      BY <1>2 DEF BeginStop, CloseFeed
    <2> QED
      BY <2>1 DEF Engines, Moving
  <1>3. CASE EndStop
    <2>1. /\ lifecycle' = "STOPPED"
          /\ UNCHANGED <<since, engines, history, buffer, past, overlap, backfilling>>
      BY <1>3 DEF EndStop
    <2> QED
      BY <2>1 DEF Engines, Moving
  <1>4. CASE OpenFeed
    <2>1. /\ buffer' = {} /\ since' = {} /\ past' = past \union published
          /\ UNCHANGED <<engines, history, overlap>>
      BY <1>4 DEF OpenFeed
    <2> QED
      BY <2>1 DEF Engines
  <1>5. CASE Connected \/ ConnectFails
    <2>1. /\ lifecycle \in Moving
          /\ UNCHANGED <<since, engines, history, buffer, past, overlap, backfilling>>
      BY <1>5 DEF Connected, ConnectFails, Phases, Moving
    <2> QED
      BY <2>1 DEF Engines
  <1>6. ASSUME NEW f \in 1..starts, NEW i \in Ids, Trade(f, i)
        PROVE  Engines'
    <2>1. /\ i \notin history /\ since' = since \union {i}
          /\ UNCHANGED <<past, overlap, backfilling, lifecycle>>
      BY <1>6 DEF Trade, lifetime
    <2>2. engines[i] = 0
      BY <2>1 DEF Engines
    <2>3. CASE backfilling
      <3>1. buffer' = buffer \union {i} /\ UNCHANGED <<history, engines>>
        BY <1>6, <2>3 DEF Trade
      <3> QED
        BY <2>1, <2>2, <2>3, <3>1 DEF Engines
    <2>4. CASE ~backfilling
      <3>1. /\ history' = history \union {i} /\ engines' = [engines EXCEPT ![i] = @ + 1]
            /\ UNCHANGED buffer
        BY <1>6, <2>4 DEF Trade
      <3>2. /\ engines' \in [Ids -> 0..2] /\ engines'[i] = 1
            /\ \A j \in Ids \ {i} : engines'[j] = engines[j]
        BY <2>2, <3>1 DEF Engines
      <3>3. buffer = {}
        BY <2>4 DEF Engines
      <3> QED
        BY <2>1, <3>1, <3>2, <3>3 DEF Engines
    <2> QED
      BY <2>3, <2>4
  <1>7. CASE Seed
    <2>1. buffer' = {} /\ UNCHANGED <<since, past, lifecycle>>
      BY <1>7 DEF Seed, lifetime
    <2>2. CASE \E found \in SUBSET past \ {{}} :
                 /\ history' = Combined(found) /\ engines' = Counts(Combined(found))
                 /\ overlap' = {}
      <3>1. /\ engines' = Counts(history') /\ history \union buffer \subseteq history'
            /\ overlap' = {}
        BY <2>2 DEF Combined
      <3>2. /\ engines' \in [Ids -> 0..2]
            /\ \A j \in Ids : /\ engines'[j] = 0 <=> j \notin history'
                              /\ engines'[j] # 2
        BY <3>1 DEF Counts
      <3>3. lifecycle' \in Moving => since' \subseteq history'
        BY <2>1, <3>1 DEF Engines
      <3>4. /\ buffer' \subseteq since' /\ buffer' \intersect history' \subseteq overlap'
            /\ overlap' \subseteq past'
        BY <2>1, <3>1
      <3> QED
        BY <2>1, <3>2, <3>3, <3>4 DEF Engines
    <2>3. CASE /\ history' = history \union buffer
               /\ engines' = [i \in Ids |-> engines[i] + Counts(buffer)[i]]
               /\ overlap' = overlap
      <3>1. \A j \in Ids : engines'[j] = engines[j] + (IF j \in buffer THEN 1 ELSE 0)
        BY <2>3 DEF Counts
      (* One that is held back is not in the engines, or once, and restored. *)
      <3>2. ASSUME NEW j \in Ids, j \in buffer
            PROVE  engines[j] = 0 \/ (engines[j] = 1 /\ j \in overlap)
        <4>1. engines[j] \in 0..2 /\ engines[j] # 2
          BY <3>2 DEF Engines
        <4>2. j \in history => j \in overlap
          BY <3>2 DEF Engines
        <4>3. engines[j] = 0 <=> j \notin history
          BY DEF Engines
        <4> QED
          BY <4>1, <4>2, <4>3
      <3>3. engines' \in [Ids -> 0..2]
        BY <2>3, <3>1, <3>2 DEF Engines
      <3>4. \A j \in Ids : /\ engines'[j] = 0 <=> j \notin history'
                           /\ engines'[j] = 2 => j \in overlap'
        BY <2>3, <3>1, <3>2 DEF Engines
      <3> QED
        BY <2>1, <2>3, <3>3, <3>4 DEF Engines
    <2> QED
      BY <1>7, <2>2, <2>3 DEF Seed
  <1>8. CASE Join
    <2>1. /\ history' = history \union Restorable
          /\ engines' = IF Restorable = {} THEN engines ELSE Counts(Restorable)
          /\ overlap' = overlap \union (Restorable \intersect buffer)
          /\ UNCHANGED <<since, buffer, backfilling, past, lifecycle>>
      BY <1>8 DEF Join, lifetime
    <2>2. Restorable \subseteq past /\ (Restorable = {} \/ history = {})
      BY DEF Restorable
    <2>3. CASE Restorable = {}
      BY <2>1, <2>3 DEF Engines
    <2>4. CASE Restorable # {}
      <3>1. /\ engines' \in [Ids -> 0..2]
            /\ \A j \in Ids : engines'[j] = IF j \in history' THEN 1 ELSE 0
        BY <2>1, <2>2, <2>4 DEF Counts
      <3>2. history' = Restorable
        BY <2>1, <2>2, <2>4
      <3> QED
        BY <2>1, <2>2, <3>1, <3>2 DEF Engines
    <2> QED
      BY <2>3, <2>4
  <1>9. ASSUME NEW f \in 1..starts
        PROVE  /\ \A acked \in BOOLEAN : Heard(f, acked) \/ BackOnline(f, acked) => Engines'
               /\ Ended(f) \/ Blocks(f) => Engines'
    BY <1>1 DEF Heard, BackOnline, Ended, Blocks, Hear, lifetime
  <1>10. CASE Tick \/ StartRefused \/ BarsSettle \/ Leave \/ Cleanup \/ Shutdown \/ GoOn
    BY <1>1, <1>10 DEF Tick, StartRefused, BarsSettle, BarsFail, BarsArrive, BarsDropped, Leave,
                       Cleanup, Shutdown, GoOn, Created, CleanedUp, Restarted, Disposed,
                       Returned, lifetime
  <1>11. ASSUME NEW stage \in Stages, AskBars(stage)
         PROVE  Engines'
    BY <1>1, <1>11 DEF AskBars, lifetime
  <1>12. CASE UNCHANGED vars
    BY <1>1, <1>12 DEF vars, lifetime
  <1> QED
    BY <1>2, <1>3, <1>4, <1>5, <1>6, <1>7, <1>8, <1>9, <1>10, <1>11, <1>12
    DEF Next, ChainStep, BackfillGoesOn

-----------------------------------------------------------------------------
(* InTurn: whom the context hears.                                         *)

(* A trade is published by a feed that is heard; nothing else publishes.   *)
LEMMA OnlyTradesPublish ==
  ASSUME [Next]_vars
  PROVE  \/ UNCHANGED <<published, stray>>
         \/ \E f \in 1..starts : Current(f) /\ Hears(f) /\ UNCHANGED published
         \/ \E f \in {g \in 1..starts : Allowed(g)}, i \in Ids : Trade(f, i)
  <1> USE DEF clock, tokens, evidence, context, trades, seeding, barCache
  <1>1. CASE Tick \/ ChainStep
    BY <1>1 DEF Tick, ChainStep, BeginStop, EndStop, StartRefused, OpenFeed, Connected,
                ConnectFails
  <1>2. CASE BarsSettle \/ BackfillGoesOn
    BY <1>2 DEF BarsSettle, BarsFail, BarsArrive, BarsDropped, BackfillGoesOn, AskBars, Seed
  <1>3. CASE Join \/ Leave \/ Cleanup \/ Shutdown
    BY <1>3 DEF Join, Leave, Cleanup, Shutdown
  <1>4. CASE GoOn
    BY <1>4 DEF GoOn, Created, CleanedUp, Restarted, Disposed, Returned
  <1>5. ASSUME NEW f \in 1..starts,
               (\E acked \in BOOLEAN : Heard(f, acked) \/ BackOnline(f, acked))
               \/ Ended(f) \/ Blocks(f)
        PROVE  Current(f) /\ Hears(f) /\ UNCHANGED published
    BY <1>5 DEF Heard, BackOnline, Ended, Blocks, Hear
  <1>6. CASE UNCHANGED vars
    BY <1>6 DEF vars
  <1> QED
    BY <1>1, <1>2, <1>3, <1>4, <1>5, <1>6 DEF Next

LEMMA InTurnStep ==
  ASSUME Types, Phases, InTurn, [Next]_vars
  PROVE  InTurn'
  <1>1. CASE UNCHANGED stray
    BY <1>1 DEF InTurn
  <1>2. ASSUME NEW f \in 1..starts, Current(f), Hears(f)
        PROVE  InTurn'
    <2>1. f # 0 /\ f = starts
      BY <1>2 DEF Current, Phases, Types
    <2> QED
      BY <1>2, <2>1 DEF Hears, InTurn
  <1> QED
    BY <1>1, <1>2, OnlyTradesPublish DEF Trade

-----------------------------------------------------------------------------
(* Cached: what the cache of bars has.                                     *)

LEMMA CachedStep ==
  ASSUME Types, Cached, [Next]_vars
  PROVE  Cached' /\ NewestStep
  <1> USE DEF clock, tokens, evidence, context, trades, seeding, barCache
  <1>1. \A b \in bars : b <= b
    BY FeedAssumption DEF Types, TypeOK
  <1>2. CASE UNCHANGED <<bars, savedBars>>
    BY <1>1, <1>2 DEF Cached, NewestStep
  (* What the store has takes the place of what is cached. *)
  <1>3. ASSUME bars' = Newest(savedBars), UNCHANGED savedBars
        PROVE  Cached' /\ NewestStep
    <2>1. savedBars \in SUBSET Bars /\ Bars \subseteq Nat
      BY FeedAssumption DEF Types
    <2>2. /\ bars' \subseteq savedBars /\ (savedBars # {} => bars' # {})
          /\ \A b \in bars', o \in savedBars \ bars' : o < b
      BY <1>3, <2>1, NewestFacts
    <2>3. ASSUME NEW b \in bars PROVE \E c \in bars' : b <= c
      <3>1. b \in savedBars /\ b \in Nat
        BY <2>1 DEF Cached
      <3>2. CASE b \in bars'
        BY <3>1, <3>2
      <3>3. CASE b \notin bars'
        <4>1. PICK c \in bars' : TRUE
          BY <2>2, <3>1
        <4>2. b < c /\ c \in Nat
          BY <2>1, <2>2, <3>1, <3>3, <4>1
        <4> QED
          BY <3>1, <4>2
      <3> QED
        BY <3>2, <3>3
    <2> QED
      BY <1>3, <2>2, <2>3 DEF Cached, NewestStep
  <1>4. ASSUME NEW page \in SUBSET Bars, BarsArrive(page)
        PROVE  Cached' /\ NewestStep
    <2>1. CASE page # {}
      <3>1. bars' = bars \union page /\ savedBars' = savedBars \union page
        BY <1>4, <2>1 DEF BarsArrive, Merged
      <3> QED
        BY <1>1, <3>1 DEF Cached, NewestStep
    <2>2. CASE page = {}
      BY <1>2, <1>4, <2>2 DEF BarsArrive
    <2> QED
      BY <2>1, <2>2
  <1>5. ASSUME NEW which, BarsFail(which)
        PROVE  Cached' /\ NewestStep
    BY <1>2, <1>3, <1>5 DEF BarsFail
  <1>6. CASE Join
    <2>1. CASE bars' = Primed
      <3>1. UNCHANGED savedBars
        BY <1>6 DEF Join
      <3> QED
        BY <1>1, <2>1, <3>1 DEF Primed, Cached, NewestStep
    <2>2. CASE bars' = Newest(savedBars)
      BY <1>3, <1>6, <2>2 DEF Join
    <2> QED
      BY <1>6, <2>1, <2>2 DEF Join
  <1>7. CASE Disposed
    BY <1>7 DEF Disposed, Returned, Cached, NewestStep
  <1>8. CASE Tick \/ ChainStep
    BY <1>2, <1>8 DEF Tick, ChainStep, BeginStop, EndStop, StartRefused, OpenFeed, Connected,
                      ConnectFails
  <1>9. ASSUME NEW f
        PROVE  /\ \A acked : Heard(f, acked) \/ BackOnline(f, acked) => Cached' /\ NewestStep
               /\ Ended(f) \/ Blocks(f) => Cached' /\ NewestStep
               /\ \A i : Trade(f, i) => Cached' /\ NewestStep
    BY <1>2 DEF Heard, BackOnline, Ended, Blocks, Trade
  <1>10. CASE BackfillGoesOn \/ Leave \/ Cleanup \/ Shutdown \/ Created \/ CleanedUp \/ Restarted
    BY <1>2, <1>10 DEF BackfillGoesOn, AskBars, Seed, Leave, Cleanup, Shutdown, Created,
                       CleanedUp, Restarted, Returned
  <1>11. CASE BarsDropped \/ UNCHANGED vars
    BY <1>2, <1>11 DEF BarsDropped, vars
  <1> QED
    BY <1>4, <1>5, <1>6, <1>7, <1>8, <1>9, <1>10, <1>11 DEF Next, BarsSettle, GoOn

-----------------------------------------------------------------------------
(* The theorems.                                                           *)

LEMMA InitIInv == Init => FeedIInv
  <1> SUFFICES ASSUME Init PROVE FeedIInv
    OBVIOUS
  <1>1. Types
    BY TypesInit
  <1>2. Phases
    BY DEF Init, Phases, Moving
  <1>3. LetsGo /\ Expiry /\ InTurn /\ Cached
    BY DEF Init, LetsGo, Expiry, InTurn, Cached, NewHealth
  <1>4. Evidence
    BY DEF Init, Evidence, StatusIsEvidence, NewHealth
  <1>5. Engines
    BY DEF Init, Engines, Counts
  <1> QED
    BY <1>1, <1>2, <1>3, <1>4, <1>5 DEF FeedIInv

LEMMA StepIInv == FeedIInv /\ [Next]_vars => FeedIInv'
BY TypesStep, PhasesStep, LetsGoStep, EvidenceStep, ExpiryStep, EnginesStep, InTurnStep, CachedStep
DEF FeedIInv

LEMMA FeedInductive == Spec => []FeedIInv
BY InitIInv, StepIInv, PTL DEF Spec

(* For any trades, bars, browsers and limits, and any overlap of starts,   *)
(* stops, expiries, blocks, disposals and backfills: the only open socket  *)
(* is that of this.feed, a disposed context that has come to rest has none *)
(* (startFeed, stopFeed, dispose); LIVE is told only on evidence           *)
(* (refreshFeedHealth); and the engines have each trade once, but a late   *)
(* one that was restored while it was held back (backfillHistory, onTrade, *)
(* addSubscriber).                                                         *)
THEOREM ToldTheTruthTheorem == Spec => []ToldTheTruth
  <1>1. FeedIInv => ToldTheTruth
    <2> SUFFICES ASSUME FeedIInv PROVE ToldTheTruth
      OBVIOUS
    <2>1. disposed /\ chain = <<>> => feed = 0
      BY DEF FeedIInv, Types, LetsGo, AtRest, StopPending
    <2>2. FeedInv
      BY <2>1 DEF FeedIInv, Types, Phases, FeedInv
    <2>3. StatusIsEvidence
      BY DEF FeedIInv, Evidence
    <2>4. CaughtUp
      BY DEF FeedIInv, Types, TypeOK, Engines, CaughtUp, Moving
    <2> QED
      BY <2>2, <2>3, <2>4 DEF ToldTheTruth
  <1> QED
    BY <1>1, FeedInductive, PTL

(* A callback that comes late, after a stop, an expiry, a block or the     *)
(* disposal, publishes nothing, in either runtime; one of a feed that was  *)
(* replaced is never heard while its successor runs; and no older bar ever *)
(* takes the place of a fresher one, whatever the vendor and the store     *)
(* give (the tokens of onTrade and onStatus; ensureHistoryBars).           *)
THEOREM StepsAreCurrentTheorem == Spec => StepsAreCurrent
  <1>1. FeedIInv /\ [Next]_vars => EndedStep
    <2> SUFFICES ASSUME FeedIInv, [Next]_vars PROVE EndedStep
      OBVIOUS
    <2>1. ~stray'
      BY InTurnStep DEF FeedIInv, InTurn
    <2>2. ASSUME published' # published
          PROVE  /\ feed = starts
                 /\ lifecycle \in {"STARTING", "RUNNING"}
                 /\ ~disposed /\ ~expiryHandled /\ ~blocked
      <3>1. PICK f \in {g \in 1..starts : Allowed(g)}, i \in Ids : Trade(f, i)
        BY <2>2, OnlyTradesPublish
      <3>2. ~disposed /\ ~blocked /\ active = f /\ f # 0
        BY <3>1 DEF Trade, Current
      <3>3. lifecycle \in {"STARTING", "RUNNING"} /\ feed = starts
        BY <3>2 DEF FeedIInv, Types, TypeOK, Phases, Moving
      <3>4. ~expiryHandled
        BY <3>1, <3>2 DEF FeedIInv, Expiry, Allowed, Fetching
      <3> QED
        BY <3>2, <3>3, <3>4
    <2> QED
      BY <2>1, <2>2 DEF EndedStep
  <1>2. FeedIInv /\ [Next]_vars => NewestStep
    BY CachedStep DEF FeedIInv
  <1>3. Spec => NothingAfterTheEnd
    BY <1>1, FeedInductive, PTL DEF Spec, NothingAfterTheEnd
  <1>4. Spec => FreshestBarIsKept
    BY <1>2, FeedInductive, PTL DEF Spec, FreshestBarIsKept
  <1> QED
    BY <1>3, <1>4 DEF StepsAreCurrent
===============================================================================
