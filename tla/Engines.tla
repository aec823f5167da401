------------------------------- MODULE Engines -------------------------------
(***************************************************************************)
(* What the server makes of a stream of trades: footprint bars             *)
(* (footprintEngine.ts), the volume and time profiles (profileEngine.ts)   *)
(* and VWAP (vwapEngine.ts).  An engine is a record, processTick an        *)
(* operator from it and a tick to what it becomes.                         *)
(*                                                                         *)
(* Prices are whole ticks, as normalizeToTick makes them; times and sizes  *)
(* are whole.  What the code recomputes from the levels of a bar at every  *)
(* tick, imbalances and unfinished auctions, is an operator here.          *)
(* The profile is never given bars by the program; processHistoricalBars   *)
(* of it is left out.                                                      *)
(***************************************************************************)
EXTENDS Integers, Sequences, FiniteSets, FiniteSetsExt, SequencesExt, Nothing

CONSTANTS
  BarTime,          (* barDurationMs.                                       *)
  MaxStored,        (* maxStoredBars.                                       *)
  MaxTickIds,       (* The 2000 ids an engine knows a duplicate by.         *)
  Whole,            (* The prices that read as whole numbers: the keys of   *)
                    (* an object come with them first.                      *)
  Ratio, Stack,     (* imbalanceRatio, stackedImbalanceLevels.              *)
  BracketTime,      (* tpoBracketDurationMs.                                *)
  SampleTime,       (* sampleIntervalMs of VWAP.                            *)
  MaxSamples        (* The 500 points VWAP keeps.                           *)

ASSUME EnginesAssumption ==
  /\ \A n \in {BarTime, MaxStored, MaxTickIds, Ratio, Stack, BracketTime, SampleTime, MaxSamples} :
       n \in Nat \ {0}
  /\ Whole \subseteq Nat

Greater(a, b) == IF a > b THEN a ELSE b
Smaller(a, b) == IF a < b THEN a ELSE b

(* The last n of a queue.                                                   *)
LastOf(s, n) == SubSeq(s, Greater(1, Len(s) - n + 1), Len(s))
First(s)     == s[1]

Sides == {"buy", "sell", "unknown"}
Volume(l)  == l.buy + l.sell + l.unknown
NoVolume   == [buy |-> 0, sell |-> 0, unknown |-> 0]
LevelAt(levels, p) == IF p \in DOMAIN levels THEN levels[p] ELSE NoVolume
Traded(levels, t) ==
  [p \in DOMAIN levels \cup {t.price} |->
     IF p = t.price THEN [LevelAt(levels, p) EXCEPT ![t.side] = @ + t.size] ELSE levels[p]]

------------------------------------------------------------------------------
(* Footprint bars.                                                          *)

NewFootprint == [bar |-> None, closed |-> <<>>, cvd |-> 0, seen |-> <<>>]

BarStart(t) == (t.time \div BarTime) * BarTime

NewBar(t, cvd) ==
  [time |-> BarStart(t), open |-> t.price, high |-> t.price, low |-> t.price, close |-> t.price,
   buy |-> 0, sell |-> 0, volume |-> 0, min |-> 0, max |-> 0, cvd |-> cvd, poc |-> t.price,
   levels |-> <<>>, keys |-> <<>>, closed |-> FALSE, first |-> t.time, last |-> t.time]

Delta(b) == b.buy - b.sell

(* The order Object.entries gives the levels in.                            *)
KeyOrder(b) ==
  SetToSortSeq(DOMAIN b.levels \cap Whole, LAMBDA p, q : p < q)
    \o SelectSeq(b.keys, LAMBDA p : p \notin Whole)

(* The first of the levels with most volume.                                *)
PointOfControl(b) ==
  LET order == KeyOrder(b)
      most  == Max({Volume(b.levels[p]) : p \in DOMAIN b.levels})
  IN  IF most = 0 THEN b.poc
      ELSE First(SelectSeq(order, LAMBDA p : Volume(b.levels[p]) = most))

(* addTickToBar, but for the running delta.                                 *)
AddTick(b, t) ==
  LET more  == [b EXCEPT !.high = Greater(@, t.price), !.low = Smaller(@, t.price),
                         !.close = IF t.time >= b.last THEN t.price ELSE @,
                         !.last  = Greater(@, t.time),
                         !.open  = IF t.time <= b.first THEN t.price ELSE @,
                         !.first = Smaller(@, t.time),
                         !.levels = Traded(@, t),
                         !.keys   = IF t.price \in DOMAIN b.levels THEN @ ELSE Append(@, t.price),
                         !.buy    = IF t.side = "buy" THEN @ + t.size ELSE @,
                         !.sell   = IF t.side = "sell" THEN @ + t.size ELSE @,
                         !.volume = @ + t.size]
  IN  [more EXCEPT !.max = Greater(@, Delta(more)), !.min = Smaller(@, Delta(more)),
                   !.poc = PointOfControl(more)]

(* calculateDiagonalImbalances: sellers against the buyers one tick above.  *)
Outweighs(x, y)   == x >= 1 /\ x >= Greater(1, y) * Ratio
BidImbalance(b)   == {p \in DOMAIN b.levels : p + 1 \in DOMAIN b.levels
                        /\ Outweighs(b.levels[p].sell, b.levels[p + 1].buy)}
AskImbalance(b)   == {p \in DOMAIN b.levels : p - 1 \in DOMAIN b.levels
                        /\ Outweighs(b.levels[p].buy, b.levels[p - 1].sell)}
Stacked(marked)   == {p \in marked : \E q \in p - Stack + 1..p : q..q + Stack - 1 \subseteq marked}
UnfinishedHigh(b) == b.high # b.low /\ b.levels[b.high].buy > 0
UnfinishedLow(b)  == b.high # b.low /\ b.levels[b.low].sell > 0

(* A late trade moves the running delta of its bar and of all after it.     *)
Ripple(f, i, d) ==
  [f EXCEPT !.closed = [j \in DOMAIN @ |-> IF j >= i THEN [@[j] EXCEPT !.cvd = @ + d] ELSE @[j]],
            !.cvd = @ + d,
            !.bar.cvd = f.cvd + d + Delta(f.bar)]

Tracked(f, t)  == [f EXCEPT !.seen = LastOf(Append(@, t.id), MaxTickIds)]
BarAt(f, time) == {i \in DOMAIN f.closed : f.closed[i].time = time}

(* What a tick does: the engine after it, the bar it closed or None, and    *)
(* the bars whose figures a late tick corrected.                            *)
Quiet(f) == [engine |-> f, closed |-> None, affected |-> <<>>]

LateTick(f, t) ==
  IF BarAt(f, BarStart(t)) = {} THEN Quiet(f)
  ELSE LET i == Min(BarAt(f, BarStart(t)))
           b == AddTick(f.closed[i], t)
           g == Ripple([f EXCEPT !.closed[i] = b], i, Delta(b) - Delta(f.closed[i]))
       IN  [engine |-> g, closed |-> None, affected |-> SubSeq(g.closed, i, Len(g.closed)) \o <<g.bar>>]

Added(f, t) ==
  LET b == AddTick(f.bar, t) IN [f EXCEPT !.bar = [b EXCEPT !.cvd = f.cvd + Delta(b)]]

(* The bar is closed, stored, and its running delta is the new baseline.    *)
Closed(f) ==
  LET b == [f.bar EXCEPT !.closed = TRUE]
  IN  [f EXCEPT !.closed = LastOf(Append(@, b), MaxStored), !.cvd = b.cvd, !.bar = b]

Process(f0, t) ==
  LET f == Tracked(f0, t)
      g == Closed(f)
  IN  IF Contains(f0.seen, t.id) THEN Quiet(f0)
      ELSE IF f.bar = None THEN Quiet(Added([f EXCEPT !.bar = NewBar(t, f.cvd)], t))
      ELSE IF BarStart(t) = f.bar.time THEN Quiet(Added(f, t))
      ELSE IF BarStart(t) < f.bar.time THEN LateTick(f, t)
      ELSE [engine |-> Added([g EXCEPT !.bar = NewBar(t, g.cvd)], t), closed |-> g.bar,
            affected |-> <<>>]

AllBars(f) == IF f.bar = None THEN f.closed ELSE f.closed \o <<f.bar>>

------------------------------------------------------------------------------
(* The profiles.                                                            *)

Letters == 52

NewProfile(start) ==
  [levels |-> <<>>, total |-> 0, start |-> start, tpo |-> <<>>, brackets |-> <<>>,
   balance |-> {}]

(* The bracket of a tick, from the session's start; a tick before it is in  *)
(* the first.                                                               *)
Bracket(pr, t) == Greater(0, t.time - pr.start) \div BracketTime

(* processTick.  balance is the prices of the initial balance, of which the *)
(* code keeps the highest and the lowest.                                   *)
ProfileTick(pr0, t) ==
  LET pr == [pr0 EXCEPT !.levels = Traded(@, t), !.total = @ + t.size,
                        !.start = IF @ = 0 \/ (pr0.total = 0 /\ t.time < @) THEN t.time ELSE @]
      n  == Bracket(pr, t)
  IN  [pr EXCEPT
         !.brackets = [i \in 1..Greater(Len(@), n + 1) |->
                         (IF i \in DOMAIN @ THEN @[i] ELSE {}) \cup (IF i = n + 1 THEN {t.price} ELSE {})],
         !.balance  = IF n < 2 THEN @ \cup {t.price} ELSE @,
         !.tpo      = [p \in DOMAIN @ \cup {t.price} |->
                         (IF p \in DOMAIN @ THEN @[p] ELSE {})
                           \cup (IF p = t.price THEN {n % Letters} ELSE {})]]

SumOver(weights, lo, hi) == MapThenSumSet(LAMBDA i : weights[i], lo..hi)

Enough(part, total) == 10 * part >= 7 * total

(* The value area, from the point of control outwards, as positions of the  *)
(* sorted prices: by two levels at a time for volume, by one for time.      *)
ValueArea(weights, poc, by) ==
  LET n     == Len(weights)
      total == SumOver(weights, 1, n)
      Up(hi)   == SumOver(weights, hi + 1, Smaller(n, hi + by))
      Down(lo) == SumOver(weights, Greater(1, lo - by), lo - 1)
      Grown[lo \in 1..n, hi \in 1..n] ==
        IF Enough(SumOver(weights, lo, hi), total) THEN <<lo, hi>>
        ELSE IF hi < n /\ Up(hi) >= Down(lo) THEN Grown[lo, Smaller(n, hi + by)]
        ELSE Grown[Greater(1, lo - by), hi]
  IN  Grown[poc, poc]

(* The prices in order, the first with the greatest weight, and the area.   *)
Area(weightOf, by) ==
  LET prices  == SetToSortSeq(DOMAIN weightOf, LAMBDA p, q : p < q)
      weights == [i \in DOMAIN prices |-> weightOf[prices[i]]]
      most    == Max(Range(weights))
      poc     == Min({i \in DOMAIN weights : weights[i] = most})
      area    == ValueArea(weights, poc, by)
  IN  [poc |-> prices[poc], val |-> prices[area[1]], vah |-> prices[area[2]]]

VolumeProfile(pr) == Area([p \in DOMAIN pr.levels |-> Volume(pr.levels[p])], 2)
TimeProfile(pr)   == Area([p \in DOMAIN pr.tpo |-> Cardinality(pr.tpo[p])], 1)

------------------------------------------------------------------------------
(* VWAP: sums of price times volume, of volume, and of squares, from an     *)
(* anchor on.                                                               *)

NewVwap(anchor) ==
  [anchor |-> anchor, pv |-> 0, volume |-> 0, pv2 |-> 0, history |-> <<>>, sampled |-> 0]

VwapPoint(v, t) == [time |-> t.time, pv |-> v.pv, volume |-> v.volume, pv2 |-> v.pv2]

VwapTick(v0, t) ==
  LET anchor == IF v0.anchor = 0 \/ (v0.volume = 0 /\ t.time < v0.anchor) THEN t.time ELSE v0.anchor
      v == [v0 EXCEPT !.anchor = anchor, !.pv = @ + t.price * t.size, !.volume = @ + t.size,
                      !.pv2 = @ + t.price * t.price * t.size]
  IN  IF t.time < anchor THEN v0
      ELSE IF v.volume # 0 /\ t.time - v0.sampled >= SampleTime
           THEN [v EXCEPT !.history = LastOf(Append(@, VwapPoint(v, t)), MaxSamples),
                          !.sampled = t.time]
           ELSE v
=============================================================================
