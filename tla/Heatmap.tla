------------------------------ MODULE Heatmap ------------------------------
(***************************************************************************)
(* The widget that draws the kept snapshots of a book                      *)
(* (src/client/src/components/DOM/LiquidityHeatmapWidget.tsx).             *)
(*                                                                         *)
(* It asks for the frames of a range when it is shown, when its symbol or  *)
(* range changes, every four seconds while it is live and when it is told  *)
(* to; the answers come in any order. In replay a playhead walks over the  *)
(* frames on a timer. The timer is armed after the picture is drawn, with  *)
(* the number of frames of that moment: a tick that comes before counts    *)
(* with the frames there were.                                             *)
(*                                                                         *)
(* The drawing takes the width and height of the canvas, which are in      *)
(* pixels of the device, for those of the page, which the pointer is in.   *)
(*                                                                         *)
(* Places and widths of columns are in thousandths of a pixel of the page, *)
(* zoomX and the ratio in thousandths. Prices are in ticks.                *)
(***************************************************************************)
EXTENDS Nothing, Integers, Sequences, FiniteSets, FiniteSetsExt, SequencesExt

CONSTANTS Presets,            \* the ranges the widget can show
          Width, Height,      \* the container, in pixels of the page
          rightMargin, bottomMargin,
          Ratios,             \* devicePixelRatio, in thousandths
          Unit,               \* ticks in one unit of price
          WallThreshold,      \* wallThresholdMultiplier
          MaxFlights,         \* bound: requests at a time
          ZoomedFrom,         \* bound: the zooms from which there is another
          MaxPan              \* bound: how far the picture is moved

\* The container is higher than the margin below the picture.
ASSUME HeatAssumption ==
    /\ Width \in Nat /\ Height \in Nat /\ rightMargin \in Nat /\ bottomMargin \in Nat
    /\ Height > bottomMargin /\ Unit \in Nat /\ Ratios \in SUBSET Nat

VARIABLES symbol, rangePreset, currentPrice,
          snapshots,          \* the frames that are shown
          shownFor,           \* the symbol they were asked for
          loading, failed,
          flights,            \* requests on their way: number |-> the symbol asked for, or None
          isReplayMode, isPlaying, playheadIndex,
          armed,              \* number of frames the playback timer counts with, None without a timer
          zoomX, panX,
          ratio,              \* devicePixelRatio when the container was measured last
          drag                \* isDraggingRef with dragStartRef: the pan when the button went down, or None

heatVars == <<symbol, rangePreset, currentPrice, snapshots, shownFor, loading, failed, flights, isReplayMode,
              isPlaying, playheadIndex, armed, zoomX, panX, ratio, drag>>

askVars == <<symbol, rangePreset, loading, failed, flights>>
playVars == <<isReplayMode, isPlaying, playheadIndex>>
viewVars == <<zoomX, panX, ratio, drag, currentPrice>>

-----------------------------------------------------------------------------
(* The picture. *)

Visible == IF isReplayMode THEN SubSeq(snapshots, 1, Min({Len(snapshots), Max({1, playheadIndex + 1})})) ELSE snapshots

LevelsOf(frames) == UNION {{[frame |-> i, side |-> "bid", level |-> l] : l \in frames[i].bids}
                           \cup {[frame |-> i, side |-> "ask", level |-> l] : l \in frames[i].asks} : i \in DOMAIN frames}

\* The axis of prices and the sizes the colours are measured by, from the frames up to the playhead. A price
\* that is off the axis stretches it by ten ticks more.
Bounds ==
    LET levels == LevelsOf(Visible)
        prices == {l.level.price : l \in levels}
        low  == Min(prices)
        high == Max(prices)
    IN  IF prices = {}
        THEN [min |-> currentPrice - 10, max |-> currentPrice + 10, total |-> 20, count |-> 1]
        ELSE [min |-> IF currentPrice > 0 /\ currentPrice < low THEN currentPrice - 10 ELSE low,
              max |-> IF currentPrice > 0 /\ currentPrice > high THEN currentPrice + 10 ELSE high,
              total |-> MapThenSumSet(LAMBDA l : l.level.size, levels), count |-> Cardinality(levels)]

\* A level as large as several times the average is a wall.
isWall(size) == size * Bounds.count >= WallThreshold * Bounds.total

\* The drawing, under a scale of the ratio, has canvas.width; the pointer has rect.width.
plotWidth   == (Width * ratio) \div 1000 - rightMargin
plotHeight  == (Height * ratio) \div 1000 - bottomMargin
hoverWidth  == Width - rightMargin
hoverHeight == Height - bottomMargin

Column(width) == Max({3000, (width * zoomX) \div Max({1, Len(snapshots)})})
colWidth == Column(plotWidth)

Ceil(a, b) == -((-a) \div b)
snapX(i) == i * colWidth + panX

firstVisibleIdx == Max({0, ((-panX) \div colWidth) - 1})

\* A fault: the last frame that begins inside the plot is taken for the last one.
LastInside == Min({Len(snapshots) - 1, ((plotWidth * 1000 - panX) \div colWidth) - 1})

lastVisibleIdx == Min({Len(snapshots) - 1, Ceil(plotWidth * 1000 - panX, colWidth) + 1})

maxRenderIdx == IF isReplayMode THEN Min({lastVisibleIdx, playheadIndex}) ELSE lastVisibleIdx

InPlot(i) == snapX(i) + colWidth >= 0 /\ snapX(i) <= plotWidth * 1000

\* The frames that are drawn, counted from 0.
Drawn == {i \in firstVisibleIdx..maxRenderIdx : InPlot(i)}

\* The levels that are drawn of a frame: those on the axis, walls apart.
Cells(i) ==
    {[side |-> l.side, price |-> l.level.price, wall |-> isWall(l.level.size)] :
        l \in {x \in LevelsOf(snapshots) :
                 x.frame = i + 1 /\ x.level.price >= Bounds.min /\ x.level.price <= Bounds.max}}

\* Before these a stripe says that more than five seconds are missing.
GapStripes == {i \in Drawn : i > 0 /\ snapshots[i + 1].time - snapshots[i].time > 5000}

\* The price the pointer reads where p is drawn, to the nearest tick.
ReadPrice(p) ==
    LET top == IF Bounds.max = Bounds.min THEN Bounds.min + Unit ELSE Bounds.max
    IN  (2 * hoverHeight * top - 2 * plotHeight * (top - p) + hoverHeight) \div (2 * hoverHeight)

\* What the pointer is told of a place: the frame it finds there, the sizes at the price it reads, and whether
\* one is a wall.
Pointed(x, p) ==
    LET i == Max({0, Min({Len(snapshots) - 1, (x - panX) \div Column(hoverWidth)})})
        price == ReadPrice(p)
        At(levels) == {l.size : l \in {y \in levels : y.price = price}}
        f == snapshots[i + 1]
    IN  [frame |-> i, price |-> price, bid |-> At(f.bids), ask |-> At(f.asks),
         wall |-> \E s \in At(f.bids) \cup At(f.asks) \cup {0} : isWall(s)]

\* Places of the pointer on a frame that is drawn: the edges of its column and that of the plot.
PlacesOn(i) ==
    {x \in {0, snapX(i), snapX(i) + colWidth - 1} :
        x >= snapX(i) /\ x < snapX(i) + colWidth /\ x >= 0 /\ x <= hoverWidth * 1000}

-----------------------------------------------------------------------------
(* Actions. *)

HeatInit(s, price, frames) ==
    /\ symbol = s /\ rangePreset = (CHOOSE p \in Presets : TRUE) /\ currentPrice = price
    /\ snapshots = frames /\ shownFor = s
    /\ loading = TRUE /\ failed = FALSE /\ flights = [n \in 1..MaxFlights |-> IF n = 1 THEN s ELSE None]
    /\ isReplayMode = FALSE /\ isPlaying = FALSE /\ playheadIndex = 0 /\ armed = None
    /\ zoomX = 1000 /\ panX = 0 /\ drag = None /\ ratio \in Ratios

\* What the playback timer counts with: after an answer it is armed when the picture is drawn, after what
\* the user does at once.
Timer == IF isReplayMode /\ isPlaying /\ snapshots # <<>> THEN Len(snapshots) ELSE None

Fetch(s) ==
    /\ loading' = TRUE /\ failed' = FALSE
    /\ \E n \in DOMAIN flights : flights[n] = None /\ flights' = [flights EXCEPT ![n] = s]

\* The symbol or the range changes: what was asked for before is not called off.
Show(s, p) ==
    /\ <<s, p>> # <<symbol, rangePreset>>
    /\ symbol' = s /\ rangePreset' = p /\ Fetch(s)
    /\ armed' = Timer /\ UNCHANGED <<snapshots, shownFor>> /\ UNCHANGED playVars /\ UNCHANGED viewVars

\* The timer of the live mode, and the refresh button, which waits for an answer.
Refresh ==
    /\ ~isReplayMode \/ ~loading
    /\ Fetch(symbol)
    /\ UNCHANGED <<symbol, rangePreset, snapshots, shownFor, armed>> /\ UNCHANGED playVars /\ UNCHANGED viewVars

\* The playhead stays on a frame.
Clamped(head, frames) == IF frames # <<>> THEN Min({head, Len(frames) - 1}) ELSE 0

\* Whatever answer comes in is shown.
Answered(n, frames) ==
    /\ flights[n] # None /\ flights' = [flights EXCEPT ![n] = None]
    /\ snapshots' = frames /\ shownFor' = flights[n]
    /\ playheadIndex' = Clamped(playheadIndex, frames)
    /\ loading' = FALSE
    /\ UNCHANGED <<symbol, rangePreset, failed, isReplayMode, isPlaying, armed>> /\ UNCHANGED viewVars

NotAnswered(n) ==
    /\ flights[n] # None /\ flights' = [flights EXCEPT ![n] = None]
    /\ snapshots' = <<>> /\ failed' = TRUE /\ loading' = FALSE
    /\ UNCHANGED <<symbol, rangePreset, shownFor, armed>> /\ UNCHANGED playVars /\ UNCHANGED viewVars

Armed ==
    /\ armed # Timer /\ armed' = Timer
    /\ UNCHANGED <<snapshots, shownFor>> /\ UNCHANGED askVars /\ UNCHANGED playVars /\ UNCHANGED viewVars

\* A tick moves the playhead or ends the playback; the next drawing arms the timer anew.
Advance ==
    /\ armed # None
    /\ IF playheadIndex >= armed - 1
       THEN isPlaying' = FALSE /\ UNCHANGED playheadIndex
       ELSE playheadIndex' = playheadIndex + 1 /\ UNCHANGED isPlaying
    /\ UNCHANGED <<snapshots, shownFor, isReplayMode>> /\ UNCHANGED askVars /\ UNCHANGED viewVars
    /\ armed' = Timer'

GoLive ==
    /\ isReplayMode' = FALSE /\ isPlaying' = FALSE
    /\ Fetch(symbol)
    /\ armed' = None
    /\ UNCHANGED <<symbol, rangePreset, snapshots, shownFor, playheadIndex>> /\ UNCHANGED viewVars

ReplayMode ==
    /\ isReplayMode' = TRUE /\ isPlaying' = FALSE
    /\ playheadIndex' = Max({0, Len(snapshots) - 1})
    /\ armed' = None
    /\ UNCHANGED <<snapshots, shownFor>> /\ UNCHANGED askVars /\ UNCHANGED viewVars

Play ==
    /\ isReplayMode /\ isPlaying' = ~isPlaying
    /\ UNCHANGED <<snapshots, shownFor, isReplayMode, playheadIndex>> /\ UNCHANGED askVars /\ UNCHANGED viewVars
    /\ armed' = Timer'

\* Stepping, starting over and scrubbing stop the playback. A step button is off at its end.
StepTo(i) ==
    /\ isReplayMode
    /\ i \in {0} \cup (0..(Len(snapshots) - 1)) \cup (IF playheadIndex > 0 THEN {playheadIndex - 1} ELSE {})
    /\ isPlaying' = FALSE /\ playheadIndex' = i /\ armed' = None
    /\ UNCHANGED <<snapshots, shownFor, isReplayMode>> /\ UNCHANGED askVars /\ UNCHANGED viewVars

StillFrames == UNCHANGED <<snapshots, shownFor, armed>> /\ UNCHANGED askVars /\ UNCHANGED playVars

\* handleResize: the canvas is measured anew, and is empty until something else has it drawn.
Resized(r) == ratio' = r /\ UNCHANGED <<zoomX, panX, drag, currentPrice>> /\ StillFrames

\* The wheel and the buttons have limits of their own.
Zoom ==
    /\ zoomX' \in {Max({200, Min({15000, (zoomX * 115) \div 100})}), Max({200, Min({15000, (zoomX * 85) \div 100})}),
                   Min({10000, (zoomX * 125) \div 100}), Max({500, (zoomX * 80) \div 100})}
    /\ UNCHANGED <<panX, ratio, drag, currentPrice>> /\ StillFrames

ResetView == zoomX' = 1000 /\ panX' = 0 /\ UNCHANGED <<ratio, drag, currentPrice>> /\ StillFrames

handleMouseDown == drag' = panX /\ UNCHANGED <<zoomX, panX, ratio, currentPrice>> /\ StillFrames

handleMouseMove(dx) ==
    /\ drag # None /\ snapshots # <<>>
    /\ panX' = drag + dx
    /\ UNCHANGED <<zoomX, ratio, drag, currentPrice>> /\ StillFrames

handleMouseUp == drag # None /\ drag' = None /\ UNCHANGED <<zoomX, panX, ratio, currentPrice>> /\ StillFrames

PriceMoves(p) == currentPrice' = p /\ UNCHANGED <<zoomX, panX, ratio, drag>> /\ StillFrames

\* The frames as they are asked for and played.
Playing(symbols, presets, replies) ==
    \/ \E s \in symbols, p \in presets : Show(s, p)
    \/ Refresh \/ GoLive \/ ReplayMode \/ Play \/ Armed \/ Advance
    \/ \E n \in DOMAIN flights : NotAnswered(n) \/ \E f \in replies : Answered(n, f)
    \/ \E i \in 0..Max({Len(snapshots), playheadIndex}) : StepTo(i)

\* The frames as they are looked at.
Looking(prices, moves) ==
    \/ ReplayMode \/ \E i \in 0..Max({Len(snapshots), playheadIndex}) : StepTo(i)
    \/ zoomX \in ZoomedFrom /\ Zoom
    \/ ResetView \/ handleMouseDown \/ handleMouseUp
    \/ \E dx \in moves : handleMouseMove(dx) /\ panX' \in -MaxPan..MaxPan
    \/ \E p \in prices : PriceMoves(p)
    \/ \E r \in Ratios : Resized(r)

\* Frames as the server sends them: in the order of time, one level at a price of a side.
InOrder(frames) == \A i, j \in DOMAIN frames : i < j => frames[i].time <= frames[j].time

Levels == [price : Int, size : Int]

OnePerPrice(levels) == \A l, m \in levels : l.price = m.price => l = m

BookSides == {levels \in SUBSET Levels : IsFiniteSet(levels) /\ OnePerPrice(levels)}

KeptFrames == [time : Int, bids : BookSides, asks : BookSides]

FrameLists == {frames \in Seq(KeptFrames) : InOrder(frames)}

\* The widget, as it plays and as it is looked at, with these prices, answers and ways of the mouse.
HeatSpec(symbols, prices, answers, moves) ==
    /\ \E s \in symbols, p \in prices, frames \in answers : HeatInit(s, p, frames)
    /\ [][Playing(symbols, Presets, answers) \/ Looking(prices, moves)]_heatVars

-----------------------------------------------------------------------------
(* Properties. *)

\* Every frame that reaches into the plot is drawn, in replay up to the playhead and none after it, and all of
\* a frame's levels are on the axis. On a display of one device pixel to a pixel of the page the pointer is told
\* of the frame and the price that are drawn below it, and of a wall where one is drawn. On a finer one it is
\* told of the same frame or a later one and of the same price or a lower one, on a coarser one of an earlier
\* frame and a higher price. The holes a trader acts on are those of the frames, at any zoom and pan.
PictureIsTrue ==
    snapshots # <<>> =>
        /\ Drawn = {i \in 0..(Len(snapshots) - 1) : InPlot(i) /\ (isReplayMode => i <= playheadIndex)}
        /\ \A i \in Drawn :
             /\ Cardinality(Cells(i)) = Cardinality(snapshots[i + 1].bids) + Cardinality(snapshots[i + 1].asks)
             /\ \A c \in Cells(i), x \in PlacesOn(i) :
                  LET told == Pointed(x, c.price)
                  IN  /\ ratio >= 1000 => told.frame >= i /\ told.price <= c.price
                      /\ ratio <= 1000 => told.frame <= i /\ told.price >= c.price
                      /\ ratio = 1000 /\ c.wall => told.wall
        /\ \A i \in GapStripes : \A j \in Drawn : j < i => snapshots[i + 1].time - snapshots[j + 1].time > 5000

\* With frames to show the playhead is on one of them, or one past the last because a tick still counted
\* with frames that an answer had taken away.
PlayheadOnAFrame ==
    snapshots # <<>> => playheadIndex >= 0 /\ playheadIndex <= Len(snapshots)

\* What is drawn, hovered and played is of the frames there are.
HeatmapIsTrue == PictureIsTrue /\ PlayheadOnAFrame
=============================================================================
