------------------------------ MODULE MC_Browser ------------------------------
(***************************************************************************)
(* Small instances of the browser: the charts of one browser that connects *)
(* twice, its main chart with the bars behind it, what its screen shows of *)
(* the market, the canvas it draws on, and the heatmap.  An initial state  *)
(* chooses one of them (its world); the others stand still.                *)
(***************************************************************************)
EXTENDS PaneReconnect, Terminal, Chart, Heatmap, TLC

VARIABLES
  world,
  (* Viewport *)
  canvasBars, pastBars, quote, dataset, viewport, size, lastFittedDataset, dragStart,
  fixedRangeActive, rangeSelection, fixedRange, effects, events

canvasVars ==
  <<canvasBars, pastBars, quote, dataset, viewport, size, lastFittedDataset, dragStart,
    fixedRangeActive, rangeSelection, fixedRange, effects, events>>

Symmetry == Permutations(Sessions)

----------------------------------------------------------------------------
(* Two time frames of one symbol; pages of one bar. *)
ES1 == [symbol |-> "ES", frame |-> "1m"]
ES5 == [symbol |-> "ES", frame |-> "5m"]

TwoCharts == {ES1, ES5}
SomeBars  == {1, 3}

OnTheWay == Len(chartWire) + Len(replies) + Cardinality(fetches)

ASSUME TerminalConstants == TerminalAssumption

----------------------------------------------------------------------------
(* Bars of three prices, two and one, with a minute missing before the last; prices in half     *)
(* ticks, times in seconds.                                                                     *)
Level(bid, ask, poc) == [bidVol |-> bid, askVol |-> ask, isPOC |-> poc]

Tape ==
  <<[time |-> 600, low |-> 200, high |-> 204,
     levels |-> 200 :> Level(3, 1, FALSE) @@ 202 :> Level(0, 5, TRUE) @@ 204 :> Level(2, 2, FALSE)],
    [time |-> 660, low |-> 206, high |-> 210,
     levels |-> 206 :> Level(1, 1, FALSE) @@ 210 :> Level(4, 4, TRUE)],
    [time |-> 780, low |-> 208, high |-> 208, levels |-> 208 :> Level(1, 0, TRUE)]>>

(* The last bar of the history is the first one of the tape. *)
Past ==
  <<[time |-> 480, low |-> 190, high |-> 200], [time |-> 540, low |-> 196, high |-> 200],
    [time |-> 600, low |-> 200, high |-> 204]>>

Ca == INSTANCE Canvas WITH
  bars <- canvasBars, GUTTER_WIDTH <- 76, FOOTER_HEIGHT <- 38, Tape <- Tape, Past <- Past, Quotes <- {202},
  Sizes <- {[width |-> 400, height |-> 300], [width |-> 340, height |-> 200]},
  Xs <- {5, 165}, Ys <- {60, 131}, Pressed <- {[x |-> 5, y |-> 60], [x |-> 165, y |-> 131]},
  Notches <- {23, 110}, Frame <- 60, Minute <- 60,
  MaxEvents <- 3,
  Signals <- {[time |-> 610, above |-> TRUE], [time |-> 665, above |-> FALSE],
              [time |-> 900, above |-> TRUE]},
  Lines <- {200, 260}, VwapPoints <- {600, 720}, ClusterMultiplier <- None

----------------------------------------------------------------------------
(* A frame with a wall, one with an empty side, and one that comes after a hole. *)
Resting(price, amount) == [price |-> price, size |-> amount]
F1 == [time |-> 1000, bids |-> {Resting(10, 1)}, asks |-> {Resting(11, 9)}]
F2 == [time |-> 2000, bids |-> {Resting(10, 2), Resting(9, 1)}, asks |-> {}]
F3 == [time |-> 9000, bids |-> {Resting(9, 1)}, asks |-> {Resting(10, 1), Resting(12, 12)}]

OneHour     == {"1h"}
SomeZooms   == {1000, 850, 1250}
SomeRatios  == {800, 1000, 2000}

----------------------------------------------------------------------------

PanesRest ==
  /\ wanted = [o \in Owners |-> IF o = Primary THEN Default ELSE None]
  /\ active = FALSE /\ conn = None /\ wire = << >> /\ choices = 0
ChartRests ==
  ChartInit /\ table = [c \in {ES1, ES5} |-> {2, 3, 4}]
TerminalRests == TerminalInit /\ shownSymbol = Standard
CanvasRests   == Ca!ViewportInit /\ canvasBars = << >> /\ size.width = 400 /\ ~fixedRangeActive
HeatRests     == HeatInit("ES", 10, << >>) /\ ratio = 1000

MCInit ==
  \/ world = "panes" /\ BrowserInit /\ ChartRests /\ TerminalRests /\ CanvasRests /\ HeatRests
  \/ /\ world = "chart" /\ Init /\ PanesRest /\ TerminalRests /\ CanvasRests /\ HeatRests
     /\ ChartRests
  \/ /\ world = "terminal" /\ Init /\ PanesRest /\ ChartRests /\ CanvasRests /\ HeatRests
     /\ TerminalInit
  \/ /\ world = "canvas" /\ Init /\ PanesRest /\ ChartRests /\ TerminalRests /\ HeatRests
     /\ Ca!ViewportInit /\ size.width = 400
  \/ /\ world = "play" /\ Init /\ PanesRest /\ ChartRests /\ TerminalRests /\ CanvasRests
     /\ HeatRests
  \/ /\ world = "look" /\ Init /\ PanesRest /\ ChartRests /\ TerminalRests /\ CanvasRests
     /\ \E frames \in {<<F1>>, <<F1, F2, F3>>} : HeatInit("ES", 10, frames) /\ ratio = 1000

PanesNext ==
  world = "panes" /\ BrowserNext /\ UNCHANGED <<chartVars, terminalVars, canvasVars, heatVars>>
(* After the loss of the connection a second thing is on its way only from before.              *)
SeriesNext ==
  /\ world = "chart" /\ ChartNext
  /\ OnTheWay' <= IF losses = 0 THEN 2 ELSE Max({1, OnTheWay})
  /\ UNCHANGED <<allVars, terminalVars, canvasVars, heatVars>>
(* Refusals, range profiles and a symbol selected again in the first of the two connections.    *)
ScreenNext ==
  /\ world = "terminal" /\ TerminalNext
  /\ LET waiting == Len(requests') + Len(messages') + Cardinality({opening'} \ {None}) IN
       /\ waiting <= IF verdict' = "dropped" THEN 1 ELSE 2
       /\ ranges' # {} => waiting <= 1
  /\ ranges' \ ranges # {} => switches = 0
  /\ ranges' # {} \/ screen'["range"] # {} => opened' = 1 /\ verdict' = "served"
  /\ verdict' # "served" => opened' = 1
  /\ again' => opened' = 1 /\ ranges' = {} /\ verdict' = "served"
  /\ UNCHANGED <<allVars, chartVars, canvasVars, heatVars>>
CanvasNext ==
  /\ world = "canvas" /\ Ca!ViewportNext
  /\ UNCHANGED <<allVars, chartVars, terminalVars, heatVars>>
HeatNext ==
  /\ \/ world = "play" /\ Playing({"ES", "NQ"}, {"1h"}, {<< >>, <<F1>>, <<F1, F2, F3>>})
     \/ world = "look" /\ Looking({15}, {-4500, 3000})
  /\ UNCHANGED <<allVars, chartVars, terminalVars, canvasVars>>

MCNext ==
  /\ UNCHANGED world
  /\ PanesNext \/ SeriesNext \/ ScreenNext \/ CanvasNext \/ HeatNext

MCSpec ==
  MCInit /\ [][MCNext]_<<allVars, chartVars, terminalVars, canvasVars, heatVars, world>>

(* Canvas and Viewport: everything that has a place in the plot is drawn, rows have the volume  *)
(* of their bar, the pointer finds what is drawn under it, and the effects that move the window *)
(* come to rest (FootprintCanvas.tsx).                                                          *)
CanvasIsTrue ==
  world = "canvas" =>
    Ca!PictureIsComplete /\ Ca!RowsAreTheBar /\ Ca!PointerAgrees /\ Ca!EffectsSettle
=============================================================================
