-------------------------------- MODULE Canvas --------------------------------
(***************************************************************************)
(* What FootprintCanvas.tsx draws through a Viewport, and what the pointer *)
(* finds there: bars, the rows their price levels are gathered in, the     *)
(* markers of signals, lines at a price, the range that was marked.        *)
(*                                                                         *)
(* Drawing is a function of the state, so a picture is a set of what is    *)
(* drawn and where.  Colours, fonts, grid and labels are left out.         *)
(***************************************************************************)
EXTENDS Viewport, Functions

CONSTANTS
  Signals,            (* Large trades and absorptions: [time, above].      *)
  Lines,              (* Prices a line is drawn at: gamma, range profile.  *)
  VwapPoints,         (* Times VWAP has a point at.                        *)
  ClusterMultiplier   (* Ticks of a row, or None for 'auto'.               *)

(* What is culled: a bar that does not reach into the plot. *)
Visible(x) == x + viewport.barWidth >= 0 /\ x <= chartWidth
InPlot(y)  == y >= 0 /\ y <= chartHeight

(* The live bars that are drawn; the footer draws the same. *)
DrawnBars == {i \in DOMAIN bars : Visible(BarX(i))}

(* historyBeforeLive: the history that ends where the live bars begin, one bar for each time. *)
History ==
  {t \in {pastBars[i].time : i \in DOMAIN pastBars} :
     \A i \in DOMAIN bars : t < bars[i].time}

(* Where a bar of the history is drawn: to the left of the live bars, the newest at their side. *)
HistoryX(t) == viewport.panX - Cardinality({u \in History : u >= t}) * barStep

DrawnHistory == {t \in History : Visible(HistoryX(t))}

(* The points of VWAP: a bar takes the point of its minute, else of the minute before or after. *)
VwapOf(time) ==
  LET minutes == {p \div Minute : p \in VwapPoints}
      m == time \div Minute
  IN  CASE m \in minutes -> m [] m \notin minutes /\ m - 1 \in minutes -> m - 1
        [] m \notin minutes /\ m - 1 \notin minutes /\ m + 1 \in minutes -> m + 1
        [] OTHER -> None

DrawnVwap ==
  {<<i, VwapOf(bars[i].time)>> :
     i \in {j \in DOMAIN bars : LET x == BarX(j) + viewport.barWidth \div 2
                                IN  x >= -50 /\ x <= chartWidth /\ VwapOf(bars[j].time) # None}}

----------------------------------------------------------------------------
(* The rows of a bar. *)

(* Ticks in a row: chosen by the scale, so that a row is high enough for its numbers. *)
clusterMultiplierNum ==
  LET needed == (11 + viewport.priceScale - 1) \div viewport.priceScale
  IN  CASE ClusterMultiplier # None -> ClusterMultiplier
        [] ClusterMultiplier = None /\ (viewport.priceScale >= 9 \/ needed <= 1) -> 1
        [] OTHER -> CASE needed = 2 -> 2 [] needed \in 3..4 -> 4 [] needed \in 5..8 -> 5
                      [] OTHER -> 10

clusterStep == 2 * clusterMultiplierNum

bucketOf(price) == Rounded(price, clusterStep) * clusterStep

LevelsIn(bar, bucket) == {p \in DOMAIN bar.levels : bucketOf(p) = bucket}

(* A fault: a row shows the last level that fell into it. *)
LastOfLevels(bar, bucket) ==
  LET p == Max(LevelsIn(bar, bucket))
  IN  [bidVol |-> bar.levels[p].bidVol, askVol |-> bar.levels[p].askVol]

(* The volumes of a row are those of its levels. *)
RowVolumes(bar, bucket) ==
  [bidVol |-> FoldSet(LAMBDA p, sum : sum + bar.levels[p].bidVol, 0, LevelsIn(bar, bucket)),
   askVol |-> FoldSet(LAMBDA p, sum : sum + bar.levels[p].askVol, 0, LevelsIn(bar, bucket))]

Buckets(bar) == {bucketOf(p) : p \in DOMAIN bar.levels}

Rows(bar) == [b \in Buckets(bar) |-> RowVolumes(bar, b)]

(* The highest price of the rows with the largest volume, and the rows that hold the bar's own. *)
PocRows(bar) ==
  LET rows == Rows(bar)
      total == [b \in DOMAIN rows |-> rows[b].bidVol + rows[b].askVol]
      largest == {b \in DOMAIN rows : total[b] > 0 /\ \A c \in DOMAIN rows : total[c] <= total[b]}
  IN  (IF largest = {} THEN {} ELSE {Max(largest)})
        \cup {b \in Buckets(bar) : \E p \in LevelsIn(bar, b) : bar.levels[p].isPOC}

RowHeight == Larger(2, clusterMultiplierNum * viewport.priceScale)
RowTop(bucket) == priceToY(bucket) - RowHeight \div 2

(* The rows of a bar that are drawn, in each of the three modes; the pointer is in one of them. *)
DrawnRows(bar) == {b \in Buckets(bar) : RowTop(b) + RowHeight >= 0 /\ RowTop(b) <= chartHeight}

RowsUnder(bar, y) == {b \in DrawnRows(bar) : y >= RowTop(b) /\ y <= RowTop(b) + RowHeight}

----------------------------------------------------------------------------
(* Signals and lines. *)

(* A marker is twelve pixels beyond the high or the low of the bar of its time. *)
MarkerX(i) == BarX(i) + viewport.barWidth \div 2
MarkerY(s, i) ==
  IF s.above THEN priceToY(bars[i].high) - 12 ELSE priceToY(bars[i].low) + 12

DrawnSignals ==
  {s \in Signals :
     LET i == findBarIndexByTime(s.time) IN
       /\ i # 0 /\ Visible(BarX(i))
       /\ MarkerY(s, i) >= 8 /\ MarkerY(s, i) <= chartHeight - 8}

(* The walls of gamma and the three lines of a range profile. *)
DrawnLines == {p \in Lines : InPlot(priceToY(p))}

(* The crosshair of another chart, by its time; a bar is taken to be a minute long. *)
CrosshairX(time) ==
  LET at == {i \in DOMAIN bars : bars[i].time = time
               \/ (bars[i].time <= time /\ bars[i].time + Minute > time)}
  IN  IF at = {} THEN None ELSE BarX(Min(at)) + viewport.barWidth \div 2

(* The first bar at a time or later, or None. *)
FirstFrom(time) ==
  LET later == {i \in DOMAIN bars : bars[i].time >= time}
  IN  IF later = {} THEN None ELSE Min(later)

(* The box of the range that was marked.  A range that ends where a bar begins takes that bar   *)
(* in as well.                                                                                  *)
RangeBox(r) ==
  LET n == Len(bars)
      s == FirstFrom(r.startTime)
      e == FirstFrom(r.endTime)
      start == CASE s # None -> BarX(s)
                 [] s = None /\ n > 0 /\ r.startTime > bars[n].time -> BarX(n + 1)
                 [] OTHER -> 0
      end == CASE e # None -> BarX(e) + viewport.barWidth
               [] e = None /\ n > 0 /\ r.endTime >= bars[n].time -> BarX(n) + viewport.barWidth
               [] OTHER -> chartWidth
      left == Larger(0, Smaller(chartWidth, start))
  IN  [left |-> left, right |-> Larger(left + 40, Smaller(chartWidth, end))]

----------------------------------------------------------------------------
(* The pointer. *)

(* onCrosshairTimeChange. *)
CrosshairTimeAt(x) ==
  IF x < chartWidth /\ SlotAt(x) \in DOMAIN bars THEN bars[SlotAt(x)].time ELSE None

SignalsAt(x, y) ==
  {s \in Signals :
     LET i == findBarIndexByTime(s.time) IN
       i # 0 /\ Distance(x, MarkerX(i)) <= 9 /\ Distance(y, MarkerY(s, i)) <= 9}

(* A bar is hovered on its own width, without the space behind it. *)
HoveredBars(x) == {i \in DOMAIN bars : x >= BarX(i) /\ x <= BarX(i) + viewport.barWidth}

(* The level the tooltip takes: of the row's price, else the nearest one, not further off than  *)
(* about a row; of two that are as near, the one that comes first.                              *)
MatchingLevels(bar, bucket) ==
  IF bucket \in DOMAIN bar.levels THEN {bucket}
  ELSE {p \in DOMAIN bar.levels : /\ 100 * Distance(p, bucket) <= 105 * clusterStep
                                  /\ \A q \in DOMAIN bar.levels :
                                       Distance(p, bucket) <= Distance(q, bucket)}

(* What the tooltip tells: a signal before a bar, and a level of the bar before its summary. *)
TooltipAt(x, y) ==
  LET hovered == HoveredBars(x)
      i == Min(hovered)
      bucket == bucketOf(yToPrice(y))
  IN  CASE SignalsAt(x, y) # {} -> [type |-> "signal"]
        [] SignalsAt(x, y) = {} /\ hovered # {} /\ y < chartHeight ->
             IF MatchingLevels(bars[i], bucket) # {}
               THEN [type |-> "cell", bar |-> i, price |-> bucket]
               ELSE [type |-> "candle", bar |-> i]
        [] OTHER -> [type |-> "none"]

----------------------------------------------------------------------------
(* Everything that has a place in the plot is drawn there, and nothing twice: bars overlap      *)
(* neither each other nor the history, which ends where they begin; every level of a bar that   *)
(* is drawn and whose price is in the plot is in a row that is drawn; VWAP is never taken from  *)
(* further than a minute.                                                                       *)
PictureIsComplete ==
  LET places == {BarX(i) : i \in DrawnBars} \cup {HistoryX(t) : t \in DrawnHistory} IN
  /\ \A x \in {0, chartWidth \div 2, chartWidth} :
       \A i \in DOMAIN bars : x \in BarX(i)..(BarX(i) + viewport.barWidth) => i \in DrawnBars
  /\ Cardinality(places) = Cardinality(DrawnBars) + Cardinality(DrawnHistory)
  /\ \A a, b \in places : a < b => b - a >= barStep
  /\ \A i \in DrawnBars : \A t \in DrawnHistory : HistoryX(t) < BarX(i) /\ t < bars[i].time
  /\ \A t, u \in DrawnHistory : t < u => HistoryX(t) < HistoryX(u)
  /\ \A i \in DrawnBars : \A p \in DOMAIN bars[i].levels :
       InPlot(priceToY(p)) => bucketOf(p) \in DrawnRows(bars[i])
  /\ \A v \in DrawnVwap : Distance(v[2], bars[v[1]].time \div Minute) <= 1

(* The rows of a bar have its volume between them, all of it and once, whatever the scale; one  *)
(* with the largest volume is marked, and so is the one that holds the bar's own point of       *)
(* control, and no other.                                                                       *)
RowsAreTheBar ==
  \A i \in DOMAIN bars :
    LET bar == bars[i]
        rows == Rows(bar)
        marked == PocRows(bar)
    IN
    /\ \A side \in {"bidVol", "askVol"} :
         FoldSet(LAMBDA b, sum : sum + rows[b][side], 0, DOMAIN rows)
           = FoldSet(LAMBDA p, sum : sum + bar.levels[p][side], 0, DOMAIN bar.levels)
    /\ \A p \in DOMAIN bar.levels : bar.levels[p].isPOC => bucketOf(p) \in marked
    /\ \A b \in marked :
         \/ \E p \in LevelsIn(bar, b) : bar.levels[p].isPOC
         \/ \A c \in DOMAIN rows : rows[c].bidVol + rows[c].askVol <= rows[b].bidVol + rows[b].askVol

(* The picture and the pointer speak of the same bar: handleMouseMove's tooltip, its crosshair, *)
(* the crosshair another chart draws from its time, the marker that is hovered, the range that  *)
(* handleMouseUp hands over and the box that comes back all agree with what is drawn there.     *)
(* With one tick in a row the tooltip's price is of the row under the pointer; with more, the   *)
(* price is rounded twice and may be of the next one.                                           *)
PointerAgrees ==
  /\ \A x \in Xs : x \in 0..(chartWidth - 1) =>
       /\ \A i \in HoveredBars(x) :
            /\ i \in DrawnBars /\ CrosshairTimeAt(x) = bars[i].time
            /\ Frame >= Minute =>
                 CrosshairX(CrosshairTimeAt(x)) \in BarX(i)..(BarX(i) + viewport.barWidth)
       /\ \A y \in Ys :
            LET tip == TooltipAt(x, y) IN
            tip.type = "cell" /\ clusterMultiplierNum = 1 /\ InPlot(y) =>
              \A b \in RowsUnder(bars[tip.bar], y) : Distance(b, tip.price) <= 2
  /\ \A s \in DrawnSignals :
       LET i == findBarIndexByTime(s.time)
       IN  TooltipAt(MarkerX(i), MarkerY(s, i)).type = "signal"
  /\ bars # << >> =>
       \A x1, x2 \in Xs : x1 < x2 - 10 =>
         LET r == MarkedRange(x1, x2)
             marked == {i \in DOMAIN bars : r.startTime <= bars[i].time /\ bars[i].time < r.endTime}
             between == {i \in DOMAIN bars : BarX(i) + barStep > x1 /\ BarX(i) <= x2}
         IN  /\ between # {} => marked = between
             /\ \A i \in marked \cap DrawnBars : MarkerX(i) \in 0..chartWidth =>
                  MarkerX(i) \in RangeBox(r).left..RangeBox(r).right
=============================================================================
