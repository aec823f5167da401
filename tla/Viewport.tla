------------------------------- MODULE Viewport -------------------------------
(***************************************************************************)
(* The window a chart looks through: components/Chart/FootprintCanvas.tsx  *)
(* and services/viewportMath.ts of the browser, with the buttons of        *)
(* App.tsx.  The mouse, the wheel and the buttons move it; two effects fit *)
(* it to a new dataset and keep the newest bar in sight; bars, prices and  *)
(* resizes come at any moment between.                                     *)
(*                                                                         *)
(* Pixels, scales and prices are whole numbers: a price is in half ticks,  *)
(* so that the middle of two prices is one.  What is drawn is in Canvas.   *)
(***************************************************************************)
EXTENDS Integers, Sequences, FiniteSets, FiniteSetsExt

CONSTANTS
  None,             (* undefined, null.                                    *)
  GUTTER_WIDTH, FOOTER_HEIGHT,
  Tape,             (* The live bars there may be: [time, low, high, levels]. *)
  Past,             (* The history there may be: [time, low, high].        *)
  Quotes,           (* Current prices.                                     *)
  Sizes,            (* Sizes of the canvas: [width, height].               *)
  Xs, Ys,           (* Where the pointer looks.                            *)
  Pressed,          (* Where it presses and drags to: [x, y].              *)
  Notches,          (* What turns of the wheel multiply by, in percent.    *)
  Frame,            (* Length of a bar.                                    *)
  Minute,           (* The length that is assumed where none is known.     *)
  MaxEvents         (* Bound on what happens to a chart.                   *)

VARIABLES
  bars,             (* The live bars.                                      *)
  pastBars,         (* historyBars.                                        *)
  quote,            (* currentPrice, 0 when there is none.                 *)
  dataset,          (* symbol, timeframe and whether it is a replay.       *)
  viewport,         (* [panX, panY, barWidth, priceScale, anchorPrice, autoFollow] *)
  size,             (* Of the canvas.                                      *)
  lastFittedDataset,
  dragStart,        (* isDragging and dragStart, or None.                  *)
  fixedRangeActive,
  rangeSelection,   (* isSelectingRange and rangeSelection, or None.       *)
  fixedRange,       (* What onFixedRangeSelect was last told, or None.     *)
  effects,          (* Effects that ran since the last event.              *)
  events            (* Bounded by MaxEvents.                               *)

dataVars == <<bars, pastBars, quote, dataset>>
pointerVars == <<dragStart, fixedRangeActive, rangeSelection, fixedRange>>
viewportVars ==
  <<dataVars, viewport, size, lastFittedDataset, pointerVars, effects, events>>

BarSpacing  == 10
chartWidth  == size.width - GUTTER_WIDTH
chartHeight == size.height - FOOTER_HEIGHT
barStep     == viewport.barWidth + BarSpacing
BarX(i)     == viewport.panX + (i - 1) * barStep

Larger(a, b)  == IF a > b THEN a ELSE b
Smaller(a, b) == IF a < b THEN a ELSE b
Distance(a, b) == IF a > b THEN a - b ELSE b - a
Rounded(a, b) == (2 * a + b) \div (2 * b)

(* clampScale, with the factor in percent. *)
clampScale(current, percent, low, high) ==
  Larger(low, Smaller(high, Rounded(current * percent, 100)))

(* The price that is at panY. *)
effectiveAnchor == IF viewport.anchorPrice = None THEN quote ELSE viewport.anchorPrice

priceToY(price) ==
  viewport.panY - Rounded((price - effectiveAnchor) * viewport.priceScale, 2)

(* A price is a whole number of ticks. *)
yToPrice(y) ==
  2 * Rounded(effectiveAnchor * viewport.priceScale + 2 * (viewport.panY - y),
              2 * viewport.priceScale)

(* findBarIndexByTime: 0 for a time before the first bar or past the end of the last. *)
findBarIndexByTime(time) ==
  LET n == Len(bars)
      interval == IF n >= 2 THEN Larger(1, bars[2].time - bars[1].time) ELSE Minute
      end(i) == IF i < n THEN bars[i + 1].time ELSE bars[n].time + interval
  IN  IF \E i \in 1..n : bars[i].time <= time /\ time < end(i)
        THEN CHOOSE i \in 1..n : bars[i].time <= time /\ time < end(i) ELSE 0

----------------------------------------------------------------------------
(* fitViewport. *)

LastOf(q, n) == SubSeq(q, Larger(1, Len(q) - n + 1), Len(q))

focusBars ==
  LET targetBarCount == Larger(16, Smaller(26, chartWidth \div 80))
  IN  LastOf(IF bars = << >> THEN pastBars ELSE bars, targetBarCount)

FocusPrices ==
  {focusBars[i].low : i \in DOMAIN focusBars} \cup {focusBars[i].high : i \in DOMAIN focusBars}
    \cup (IF quote > 0 THEN {quote} ELSE {})

(* The scale that shows a span of prices on 72 % of the height, within its limits. *)
FittedScale(span) ==
  Larger(10, Smaller(28, (chartHeight * 72) \div (100 * Larger(1, Larger(span, 16) \div 2))))

Fitted ==
  [panX |-> IF bars # << >> THEN Smaller(chartWidth - 50, chartWidth - Len(bars) * 80 - 40)
            ELSE chartWidth + 30,
   panY |-> chartHeight \div 2,
   barWidth |-> 70,
   priceScale |-> IF FocusPrices = {} THEN viewport.priceScale
                  ELSE FittedScale(Max(FocusPrices) - Min(FocusPrices)),
   anchorPrice |-> IF FocusPrices = {} THEN 200
                   ELSE (Max(FocusPrices) + Min(FocusPrices)) \div 2,
   autoFollow |-> TRUE]

HasData == quote > 0 \/ bars # << >> \/ pastBars # << >>

(* A fault: a window that was fitted once is good for every dataset. *)
FitOnce == HasData /\ viewport.anchorPrice = None

FitWanted == HasData /\ ~(lastFittedDataset = dataset /\ viewport.anchorPrice # None)

(* The effect that fits the window once to every dataset. *)
FitEffect ==
  /\ FitWanted
  /\ viewport' = Fitted /\ lastFittedDataset' = dataset
  /\ effects' = effects + 1
  /\ UNCHANGED <<dataVars, size, pointerVars, events>>

FollowedPanX(n, step) == IF n > 0 THEN chartWidth - n * step - 50 ELSE chartWidth - 50 + step

FollowWanted ==
  viewport.autoFollow /\ Distance(FollowedPanX(Len(bars), barStep), viewport.panX) > 1

(* The effect that keeps the newest bar near the right edge. *)
FollowEffect ==
  /\ FollowWanted
  /\ viewport' = [viewport EXCEPT !.panX = FollowedPanX(Len(bars), barStep)]
  /\ effects' = effects + 1
  /\ UNCHANGED <<dataVars, size, lastFittedDataset, pointerVars, events>>

----------------------------------------------------------------------------
(* Events. *)

Event == events < MaxEvents /\ events' = events + 1 /\ effects' = 0

(* A bar opens, or trades move the price. *)
BarOpens ==
  /\ Event /\ Len(bars) < Len(Tape)
  /\ bars' = Append(bars, Tape[Len(bars) + 1])
  /\ UNCHANGED <<pastBars, quote, dataset, viewport, size, lastFittedDataset, pointerVars>>

PriceMoves(p) ==
  /\ Event /\ quote' = p /\ p # quote
  /\ UNCHANGED <<bars, pastBars, dataset, viewport, size, lastFittedDataset, pointerVars>>

(* A snapshot brings everything. *)
SnapshotArrives(n, p) ==
  /\ Event /\ bars' = SubSeq(Tape, 1, n) /\ pastBars' = Past /\ quote' = p
  /\ UNCHANGED <<dataset, viewport, size, lastFittedDataset, pointerVars>>

(* handleSelectSymbol clears the chart and the anchor; another time frame keeps both. *)
DatasetChanges(cleared) ==
  /\ Event /\ dataset' = dataset + 1 /\ fixedRange' = None
  /\ IF cleared
       THEN /\ bars' = << >> /\ pastBars' = << >> /\ quote' = 0
            /\ viewport' = [viewport EXCEPT !.anchorPrice = None, !.autoFollow = TRUE]
       ELSE UNCHANGED <<bars, pastBars, quote, viewport>>
  /\ UNCHANGED <<size, lastFittedDataset, dragStart, fixedRangeActive, rangeSelection>>

(* The observer of the parent's size. *)
Resizes(s) ==
  /\ Event /\ s # size /\ size' = s
  /\ viewport' = IF viewport.autoFollow
                   THEN [viewport EXCEPT !.panX = s.width - GUTTER_WIDTH - Len(bars) * barStep - 50]
                   ELSE viewport
  /\ UNCHANGED <<dataVars, lastFittedDataset, pointerVars>>

(* handleMouseDown. *)
MouseDown(x, y) ==
  /\ Event /\ dragStart = None /\ rangeSelection = None
  /\ IF fixedRangeActive
       THEN rangeSelection' = [startX |-> x, currentX |-> x] /\ UNCHANGED dragStart
       ELSE /\ dragStart' = [x |-> x, y |-> y, panX |-> viewport.panX, panY |-> viewport.panY]
            /\ UNCHANGED rangeSelection
  /\ UNCHANGED <<dataVars, viewport, size, lastFittedDataset, fixedRangeActive, fixedRange>>

(* handleMouseMove, with the button held: a mark grows, or the window is dragged; a drag of     *)
(* more than three pixels ends the following.                                                   *)
MouseMove(x, y) ==
  /\ Event
  /\ \/ /\ rangeSelection # None
        /\ rangeSelection' = [rangeSelection EXCEPT !.currentX = x]
        /\ UNCHANGED <<viewport, dragStart>>
     \/ /\ rangeSelection = None /\ dragStart # None
        /\ LET dx == x - dragStart.x
               dy == y - dragStart.y
           IN  viewport' = [viewport EXCEPT
                 !.panX = dragStart.panX + dx, !.panY = dragStart.panY + dy,
                 !.autoFollow = @ /\ Distance(dx, 0) <= 3 /\ Distance(dy, 0) <= 3]
        /\ UNCHANGED <<rangeSelection, dragStart>>
  /\ UNCHANGED <<dataVars, size, lastFittedDataset, fixedRangeActive, fixedRange>>

(* The bar whose slot, its own width and the space behind it, a column of the canvas is in. *)
SlotAt(x) == ((x - viewport.panX) \div barStep) + 1

(* The bars that are marked between two columns, within those there are. *)
MarkedBar(x) == Larger(1, Smaller(Len(bars), SlotAt(x)))

MarkedRange(x1, x2) ==
  [startTime |-> bars[MarkedBar(Smaller(x1, x2))].time,
   endTime   |-> bars[MarkedBar(Larger(x1, x2))].time + Frame]

(* handleMouseUp. *)
MouseUp ==
  /\ Event
  /\ \/ /\ rangeSelection # None /\ rangeSelection' = None
        /\ fixedRange' =
             IF Distance(rangeSelection.currentX, rangeSelection.startX) > 10 /\ bars # << >>
               THEN MarkedRange(rangeSelection.startX, rangeSelection.currentX) ELSE fixedRange
        /\ UNCHANGED dragStart
     \/ /\ rangeSelection = None /\ dragStart # None /\ dragStart' = None
        /\ UNCHANGED <<rangeSelection, fixedRange>>
  /\ UNCHANGED <<dataVars, viewport, size, lastFittedDataset, fixedRangeActive>>

(* handleMouseLeave: a mark is given up. *)
MouseLeave ==
  /\ Event /\ (rangeSelection # None \/ dragStart # None)
  /\ rangeSelection' = None /\ dragStart' = None
  /\ UNCHANGED <<dataVars, viewport, size, lastFittedDataset, fixedRangeActive, fixedRange>>

(* The button of the range tool. *)
ToggleRange ==
  /\ Event /\ fixedRangeActive' = ~fixedRangeActive
  /\ UNCHANGED <<dataVars, viewport, size, lastFittedDataset, dragStart, rangeSelection, fixedRange>>

Zooms(to) ==
  /\ Event /\ viewport' = to /\ to # viewport
  /\ UNCHANGED <<dataVars, size, lastFittedDataset, pointerVars>>

(* The wheel: the width of the bars, with Shift the scale of the prices.  A notch is 90 or 110  *)
(* percent; several of them are one event.                                                      *)
Wheel(percent, shift) ==
  Zooms(IF shift THEN [viewport EXCEPT !.priceScale = clampScale(@, percent, 1, 55)]
        ELSE [viewport EXCEPT !.barWidth = clampScale(@, percent, 40, 260)])

handleDoubleClick == Zooms(Fitted)

(* The buttons of App.tsx. *)
handleZoomIn  == Zooms([viewport EXCEPT !.barWidth = Smaller(280, Rounded(@ * 120, 100))])
handleZoomOut == Zooms([viewport EXCEPT !.barWidth = Larger(40, Rounded(@ * 82, 100))])

handleFitView ==
  Zooms([viewport EXCEPT !.panX = 0, !.barWidth = 80, !.autoFollow = TRUE, !.anchorPrice = None])

handleToggleAutoFollow == Zooms([viewport EXCEPT !.autoFollow = ~@])

ViewportInit ==
  /\ size \in Sizes /\ dataset = 0 /\ lastFittedDataset = None
  /\ viewport = [panX |-> 0, panY |-> 300, barWidth |-> 70, priceScale |-> 16,
                 anchorPrice |-> None, autoFollow |-> TRUE]
  /\ \/ bars = << >> /\ pastBars = << >> /\ quote = 0
     \/ bars = SubSeq(Tape, 1, Len(Tape) - 1) /\ pastBars = Past /\ quote \in Quotes
  /\ dragStart = None /\ fixedRangeActive \in BOOLEAN /\ rangeSelection = None
  /\ fixedRange = None /\ effects = 0 /\ events = 0

Effect == FitEffect \/ FollowEffect

ViewportNext ==
  \/ Effect
  \/ BarOpens \/ MouseUp \/ MouseLeave \/ ToggleRange \/ handleDoubleClick
  \/ handleZoomIn \/ handleZoomOut \/ handleFitView \/ handleToggleAutoFollow
  \/ \E p \in Quotes : PriceMoves(p) \/ \E n \in {1, Len(Tape)} : SnapshotArrives(n, p)
  \/ \E cleared \in BOOLEAN : DatasetChanges(cleared)
  \/ \E s \in Sizes : Resizes(s)
  \/ \E at \in Pressed : MouseDown(at.x, at.y) \/ MouseMove(at.x, at.y)
  \/ \E percent \in Notches, shift \in BOOLEAN : Wheel(percent, shift)

----------------------------------------------------------------------------
(* The two effects write what they read, and so wake each other: after any event they come to   *)
(* rest within one fit and two follows, never in a loop of renders; and where they rest, a      *)
(* chart with data is fitted to its dataset, with an anchor of its own, and one that follows    *)
(* has the newest bar in the plot.                                                              *)
EffectsSettle ==
  /\ effects <= 3
  /\ ~FitWanted /\ ~FollowWanted =>
       /\ HasData => lastFittedDataset = dataset /\ viewport.anchorPrice # None
       /\ viewport.autoFollow /\ bars # << >> =>
            BarX(Len(bars)) + viewport.barWidth \in (chartWidth - 62)..(chartWidth - 58)
=============================================================================
