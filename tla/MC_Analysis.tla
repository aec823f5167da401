----------------------------- MODULE MC_Analysis -----------------------------
(***************************************************************************)
(* Small instances of what is made of trades: the engines of a context and *)
(* of a replay, the charts that are answered from the store, and the       *)
(* alerts.  An initial state chooses one of them (its world); the others   *)
(* stand still.                                                            *)
(***************************************************************************)
EXTENDS Replay, Alerts, TLC

CONSTANTS
  jun, sep,
  (* ChartHistory *)
  Intervals, RangeLimit, PageLimit, CacheTime, Retention, Span, LargeSize, MaxPoints, Countback

VARIABLES
  world,
  (* ChartHistory *)
  market, historyTime, down, stored, gaps, checkpoints, cache, waiting, answer, purged

historyVars ==
  <<market, historyTime, down, stored, gaps, checkpoints, cache, waiting, answer, purged>>

----------------------------------------------------------------------------
(* Replay: five trades over three bars, two of them at one time, after one of the contract      *)
(* before.  Prices 2 and 3 are whole numbers, 1 is not.                                         *)
Some(id, time, price, size, side, contract) ==
  [id |-> id, time |-> time, price |-> price, size |-> size, side |-> side, contract |-> contract]

FiveTrades == {Some(1, 2, 1, 3, "buy", sep), Some(2, 3, 2, 1, "sell", sep),
               Some(3, 3, 1, 1, "unknown", sep), Some(4, 5, 3, 4, "sell", sep),
               Some(5, 6, 3, 2, "buy", sep)}
OldTrade   == {Some(0, 1, 2, 1, "buy", jun)}
WholePrices == {2, 3}

----------------------------------------------------------------------------
(* Alerts: a trade near two levels, a bar with a stack of imbalances, an absorption, a book. *)
Level(bid, ask) == [bid |-> bid, ask |-> ask]
SomeStack == <<Level(0, 0), Level(0, 1), Level(0, 1), Level(0, 1)>>

SomeMarket == {
  [kind |-> "tick", id |-> 1, size |-> 1, near |-> {"VAH", "VAL"}],
  [kind |-> "bar", time |-> 1, levels |-> SomeStack],
  [kind |-> "absorption", id |-> 1, volume |-> 1],
  [kind |-> "book", bids |-> <<[price |-> 1, size |-> 1], [price |-> 0, size |-> 1]>>,
                    asks |-> <<[price |-> 2, size |-> 1]>>]}
RulesOfPlan == [p \in Plans |-> IF p = "free" THEN 1 ELSE 2]

(* The rules of an instance are of these types. *)
RuleTypes ==
  {{"LARGE_TRADE", "LIQUIDITY_WALL"}, {"POC_VAH_VAL"}, {"STACKED_IMBALANCE"}, {"ABSORPTION"}}

Alike == Permutations(RuleIds)

----------------------------------------------------------------------------
(* ChartHistory: four trades, two of them at one time.  The vendor is up to date, or one unit   *)
(* late, or there is none; or it cannot name two trades of one price and size, which went the   *)
(* same way or not.                                                                             *)
Row(number, id, time, price, size, side) ==
  [number |-> number, id |-> id, time |-> time, price |-> price, size |-> size, side |-> side]
FourTrades == {Row(1, 1, 2, 2, 1, "buy"), Row(2, 2, 2, 3, 2, "sell"), Row(3, 3, 3, 2, 1, "unknown"),
               Row(4, 4, 5, 3, 1, "buy")}
Twins(side) == {Row(1, 9, 2, 2, 1, "buy"), Row(2, 9, 2, 2, 1, side), Row(3, 3, 3, 3, 2, "sell")}

AllCharts == {"bars", "footprint", "cvd", "profile", "range", "vwap", "large"}
Offer(trades, configured, lag, charts, n, g) ==
  [trades |-> trades, configured |-> configured, lag |-> lag, charts |-> charts, atOnce |-> n, gaps |-> g]
SomeMarkets == {Offer(FourTrades, TRUE, 0, {"range"}, 1, 1), Offer(FourTrades, TRUE, 1, {"range"}, 2, 0),
                Offer(FourTrades, FALSE, 0, {"range"}, 1, 1), Offer(Twins("buy"), TRUE, 0, {"range"}, 1, 0),
                Offer(Twins("sell"), TRUE, 0, {"range"}, 1, 0)}
                \cup {Offer(FourTrades, c, 1, AllCharts \ {"range"}, 1, 0) : c \in BOOLEAN}
Asked  == {<<1, 5>>, <<3, 4>>}
Limits == [k \in AllCharts |-> CASE k = "range" -> 3 [] k = "cvd" -> 2 [] k = "large" -> 2 [] OTHER -> 4]

Hi == INSTANCE ChartHistory WITH
  MaxStored <- 1, MaxTickIds <- 2, Whole <- {2}, Markets <- SomeMarkets, Ranges <- Asked,
  MaxTime <- 5, FetchLimit <- Limits, now <- historyTime

----------------------------------------------------------------------------
HistoryRests == Hi!Init /\ market = Offer(FourTrades, FALSE, 0, {"range"}, 1, 1)

MCInit ==
  \/ world = {"replay"} /\ Init /\ AlertsInit /\ HistoryRests
  \/ world \in RuleTypes /\ Init /\ AlertsInit /\ HistoryRests
  \/ world = {"history"} /\ Init /\ AlertsInit /\ Hi!Init

MCNext ==
  /\ UNCHANGED world
  /\ \/ world = {"replay"} /\ Next /\ UNCHANGED <<alertsVars, historyVars>>
     \/ /\ world \in RuleTypes /\ AlertsNext
        /\ \A r \in Existing' : rules'[r].type \in world
        /\ UNCHANGED <<vars, historyVars>>
     \/ world = {"history"} /\ Hi!Next /\ UNCHANGED <<vars, alertsVars>>

MCSpec == MCInit /\ [][MCNext]_<<vars, alertsVars, historyVars, world>>

(* Replay and the live chart: a chart in replay shows the trades before its cursor and no       *)
(* others, a live one every bar its context closed (replaySession.ts, marketContext.ts), and a   *)
(* replay that has ended shows what the live chart shows of the same trades.                    *)
ChartsAreTrue ==
  world = {"replay"} => ReplayShowsItsPrefix /\ ClosedBarsAreShown /\ ReplayAgreesWithLive

(* ChartHistory: a profile that is said to be complete is that of all trades of its range       *)
(* (getVolumeProfileRange).                                                                     *)
CompleteWhenSettled ==
  world = {"history"} => Hi!HistoryInv /\ Hi!CompleteWhenSettled

(* ChartHistory: the charts are of the trades they are made of (chartService.ts).               *)
FiguresAddUp == world = {"history"} => Hi!FiguresAddUp
=============================================================================
