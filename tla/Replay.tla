-------------------------------- MODULE Replay --------------------------------
(***************************************************************************)
(* One chart between the live stream and a replay: the engines of the      *)
(* market context (marketContext.ts), the replay of stored trades          *)
(* (replaySession.ts over backtestEngine.ts), the commands of the browser  *)
(* (REPLAY_CONTROL in index.ts) and the bars the browser holds, which are  *)
(* the last it was sent of each time since an INIT_STATE.                  *)
(*                                                                         *)
(* The socket is open, the context listens and is not backfilling, and the *)
(* chart has the only timeframe.  Trades are new ones of one contract in   *)
(* any order; the store also holds trades of the contract before.          *)
(* Profiles and VWAP go to the browser as they are computed, at intervals, *)
(* and are not kept by it.                                                 *)
(***************************************************************************)
EXTENDS Engines

CONSTANTS
  Trades,        (* What may arrive, each with its id, time, price, size,   *)
                 (* side and contract.                                      *)
  Stored,        (* The rows the store begins with.                         *)
  Limit,         (* The 5000 rows a replay loads.                           *)
  Speeds         (* Ticks emitted by one beat of the timer.                 *)

Fields == {"id", "time", "price", "size", "side", "contract"}

ASSUME ReplayAssumption ==
  /\ IsFiniteSet(Trades) /\ IsFiniteSet(Stored)
  /\ \A t \in Trades \cup Stored :
       DOMAIN t = Fields /\ t.time \in Nat \ {0} /\ t.price \in Nat /\ t.size \in Nat \ {0} /\ t.side \in Sides
  /\ \A t, u \in Trades \cup Stored : t.id = u.id => t = u
  /\ Limit \in Nat \ {0} /\ Speeds \subseteq Nat \ {0}

VARIABLES
  arrived,       (* The trades the context has accepted and stored.         *)
  live,          (* Its engines.                                            *)
  mode,          (* ChartSession.mode.                                      *)
  replay,        (* The replay session, or None.                            *)
  shown          (* The bars of the chart, by their time.                   *)

vars == <<arrived, live, mode, replay, shown>>

NewEngines(start) == [fp |-> NewFootprint, profile |-> NewProfile(start), vwap |-> NewVwap(start)]
AfterTick(e, t) ==
  [fp |-> Process(e.fp, t).engine, profile |-> ProfileTick(e.profile, t), vwap |-> VwapTick(e.vwap, t)]

(* The chart after messages with these bars, and after an INIT_STATE.       *)
Show(chart, bars) ==
  FoldLeft(LAMBDA c, b : [x \in DOMAIN c \cup {b.time} |-> IF x = b.time THEN b ELSE c[x]], chart, bars)
Afresh(fp) == Show(<<>>, AllBars(fp))

IsReplay == mode # "LIVE" \/ replay # None

------------------------------------------------------------------------------
(* The live stream.                                                         *)

(* The bars that go out for one tick.  A bar that changes under the last    *)
(* update's 100 ms is not sent, a correction and a closed bar always are;   *)
(* CurrentOnly is a fault, corrected bars are not sent.                     *)
ClosedOnly(out) == IF out.closed = None THEN <<>> ELSE <<out.closed>>
CurrentOnly(out, quiet) == ClosedOnly(out) \o (IF quiet THEN <<>> ELSE <<out.engine.bar>>)
Outgoing(out, quiet) ==
  IF out.affected # <<>> THEN out.affected
  ELSE CurrentOnly(out, quiet)

Trade(t) ==
  /\ t \notin arrived
  /\ arrived' = arrived \cup {t}
  /\ live' = AfterTick(live, t)
  /\ \E quiet \in BOOLEAN :
       shown' = IF IsReplay THEN shown ELSE Show(shown, Outgoing(Process(live.fp, t), quiet))
  /\ UNCHANGED <<mode, replay>>

------------------------------------------------------------------------------
(* The replay.                                                              *)

(* The newest rows in their order, and those of the newest contract.        *)
Before(t, u) == t.time < u.time \/ (t.time = u.time /\ t.id < u.id)
Rows == LastOf(SetToSortSeq(arrived \cup Stored, Before), Limit)
ContractWindow(ticks) ==
  LET latest == {i \in DOMAIN ticks : ticks[i].contract # None}
      newest == CHOOSE i \in latest : \A j \in latest : ticks[j].time <= ticks[i].time
  IN  IF latest = {} THEN ticks
      ELSE SelectSeq(ticks, LAMBDA t : t.contract = ticks[newest].contract)

(* The engines are anchored at the first row, other contracts included.     *)
Opened ==
  [ticks |-> ContractWindow(Rows), index |-> 0, playing |-> FALSE, speed |-> 1,
   engines |-> NewEngines(Rows[1].time)]

(* rebuildState: the engines are made anew and given the ticks before the   *)
(* cursor; the fault leaves them where they were.                           *)
NotRebuilt(r) == r.engines
Rebuilt(r) ==
  FoldLeft(AfterTick, NewEngines(r.ticks[1].time), SubSeq(r.ticks, 1, r.index))

Ended(r)    == r.index >= Len(r.ticks)
Notified(r) == IF Ended(r) THEN "REPLAY_ENDED" ELSE IF r.playing THEN "REPLAY" ELSE "REPLAY_PAUSED"
Halted(r)   == IF Ended(r) THEN "REPLAY_ENDED" ELSE "REPLAY_PAUSED"

(* The callback: the tick under the cursor goes to the engines, what comes  *)
(* of it to the chart.                                                      *)
Emit(s) ==
  IF Ended(s.replay) THEN s
  ELSE LET r == s.replay
           t == r.ticks[r.index + 1]
       IN  [replay |-> [r EXCEPT !.index = @ + 1, !.engines = AfterTick(@, t)],
            shown  |-> Show(s.shown, Outgoing(Process(r.engines.fp, t), FALSE))]
Emitted(n) == FoldLeft(LAMBDA s, i : Emit(s), [replay |-> replay, shown |-> shown], [i \in 1..n |-> i])

(* START, STEP and SEEK open a replay where there is none, if there is      *)
(* anything to replay; the chart is emptied for it.                         *)
Start(r, chart, speed) ==
  /\ replay' = [r EXCEPT !.playing = TRUE, !.speed = speed]
  /\ mode' = Notified(replay')
  /\ shown' = chart

Paused(r) == [r EXCEPT !.playing = FALSE]

Step(r, chart) ==
  LET s == Emit([replay |-> Paused(r), shown |-> chart])
  IN  replay' = s.replay /\ shown' = s.shown /\ mode' = Halted(s.replay)

SeekTo(r, index) ==
  LET s == [Paused(r) EXCEPT !.index = index]
      e == Rebuilt(s)
  IN  replay' = [s EXCEPT !.engines = e] /\ shown' = Afresh(e.fp) /\ mode' = Halted(s)

(* An index out of range is the nearest end; a time is the first tick that  *)
(* is not before it.                                                        *)
SeekIndex(r, k) == SeekTo(r, Smaller(k, Len(r.ticks)))
SeekTime(r, time) == SeekTo(r, Len(SelectSeq(r.ticks, LAMBDA t : t.time < time)))

Control(r, chart) ==
  \/ \E speed \in Speeds : Start(r, chart, speed)
  \/ Step(r, chart)
  \/ \E k \in 0..Cardinality(Trades) : SeekIndex(r, k)
  \/ \E t \in Trades : SeekTime(r, t.time)

OpenReplay ==
  /\ replay = None /\ Rows # <<>>
  /\ Control(Opened, <<>>)
  /\ UNCHANGED <<arrived, live>>

ControlReplay ==
  /\ replay # None
  /\ Control(replay, shown)
  /\ UNCHANGED <<arrived, live>>

Pause ==
  /\ replay # None
  /\ replay' = Paused(replay) /\ mode' = Notified(replay')
  /\ UNCHANGED <<arrived, live, shown>>

SetSpeed ==
  /\ replay # None
  /\ \E speed \in Speeds : replay' = [replay EXCEPT !.speed = speed]
  /\ mode' = Notified(replay')
  /\ UNCHANGED <<arrived, live, shown>>

(* The interval of the playback: some ticks, or the pause at the end.       *)
Beat ==
  /\ replay # None /\ replay.playing
  /\ LET s == Emitted(replay.speed)
     IN  IF Ended(replay)
         THEN replay' = Paused(replay) /\ UNCHANGED shown
         ELSE replay' = s.replay /\ shown' = s.shown
  /\ mode' = Notified(replay')
  /\ UNCHANGED <<arrived, live>>

(* The interval of the progress bar, which repeats the mode of a replay     *)
(* that plays.                                                              *)
Progress ==
  /\ replay # None /\ replay.playing
  /\ mode' = IF Ended(replay) THEN "REPLAY_ENDED" ELSE "REPLAY"
  /\ UNCHANGED <<arrived, live, replay, shown>>

(* RETURN_TO_LIVE: the replay is disposed, and the context's state is sent. *)
ReturnToLive ==
  /\ replay' = None /\ mode' = "LIVE"
  /\ shown' = Afresh(live.fp)
  /\ UNCHANGED <<arrived, live>>

Init ==
  /\ arrived = {}
  /\ live = NewEngines(0)
  /\ mode = "LIVE" /\ replay = None
  /\ shown = <<>>

Next ==
  \/ \E t \in Trades : Trade(t)
  \/ OpenReplay \/ ControlReplay \/ Pause \/ SetSpeed \/ ReturnToLive
  \/ Beat \/ Progress

Spec == Init /\ [][Next]_vars

------------------------------------------------------------------------------
(* Properties.                                                              *)

ModeOf(r) == IF r = None THEN "LIVE" ELSE Notified(r)

(* The mode the browser reads is what its replay does, and a chart without  *)
(* a replay is live.                                                        *)
TypeOK ==
  /\ arrived \subseteq Trades
  /\ mode = ModeOf(replay)
  /\ replay # None => replay.index \in 0..Len(replay.ticks) /\ replay.speed \in Speeds \cup {1}

InBar(S, time) == {t \in S : BarStart(t) = time}
LevelsOf(S) ==
  [p \in {t.price : t \in S} |->
     [side \in Sides |-> MapThenSumSet(LAMBDA t : t.size, {t \in S : t.price = p /\ t.side = side})]]

(* A bar is its trades: the figures that do not depend on the order they    *)
(* came in, and a point of control that no level outweighs.                 *)
IsBarOf(b, S) ==
  /\ S # {} /\ b.levels = LevelsOf(S)
  /\ b.high = Max({t.price : t \in S}) /\ b.low = Min({t.price : t \in S})
  /\ b.first = Min({t.time : t \in S}) /\ b.last = Max({t.time : t \in S})
  /\ b.volume = MapThenSumSet(LAMBDA t : t.size, S)
  /\ \A p \in DOMAIN b.levels : Volume(b.levels[p]) <= Volume(b.levels[b.poc])
  /\ \E t \in S : t.time = b.first /\ t.price = b.open
  /\ \E t \in S : t.time = b.last /\ t.price = b.close
  /\ b.min <= Delta(b) /\ Delta(b) <= b.max

BarsAreTheirTrades(f, S) == \A b \in Range(AllBars(f)) : IsBarOf(b, InBar(S, b.time))

(* The running delta of a bar is that of the bar before and its own, from   *)
(* the oldest stored to the current one, late trades included.              *)
DeltaRuns(f) ==
  LET bars == AllBars(f)
  IN  /\ \A i \in 1..Len(bars) - 1 :
           bars[i].time < bars[i + 1].time /\ bars[i + 1].cvd = bars[i].cvd + Delta(bars[i + 1])
      /\ f.closed # <<>> => f.cvd = f.closed[Len(f.closed)].cvd

(* The value area is around the point of control and has 70% of the volume. *)
AreaHolds(area, weightOf) ==
  LET inside == {p \in DOMAIN weightOf : area.val <= p /\ p <= area.vah}
  IN  /\ area.poc \in inside
      /\ Enough(MapThenSumSet(LAMBDA p : weightOf[p], inside),
                MapThenSumSet(LAMBDA p : weightOf[p], DOMAIN weightOf))

ProfileOf(pr, S) ==
  /\ pr.levels = LevelsOf(S)
  /\ UNION Range(pr.brackets) = DOMAIN pr.levels
  /\ S # {} => AreaHolds(VolumeProfile(pr), [p \in DOMAIN pr.levels |-> Volume(pr.levels[p])])
  /\ S # {} => AreaHolds(TimeProfile(pr), [p \in DOMAIN pr.tpo |-> Cardinality(pr.tpo[p])])

(* VWAP has every trade from its anchor on, and samples it in order.        *)
VwapOf(v, S) ==
  LET counted == {t \in S : t.time >= v.anchor}
  IN  /\ v.pv = MapThenSumSet(LAMBDA t : t.price * t.size, counted)
      /\ v.volume = MapThenSumSet(LAMBDA t : t.size, counted)
      /\ \A i \in 1..Len(v.history) - 1 : v.history[i].time < v.history[i + 1].time

EnginesOf(e, S) ==
  BarsAreTheirTrades(e.fp, S) /\ DeltaRuns(e.fp) /\ ProfileOf(e.profile, S) /\ VwapOf(e.vwap, S)

(* Whatever the order trades come in, bars, profiles and VWAP are those of  *)
(* the trades they were given, in the context and in the replay.            *)
ReplayInv ==
  /\ TypeOK
  /\ EnginesOf(live, arrived)
  /\ replay # None => EnginesOf(replay.engines, Range(SubSeq(replay.ticks, 1, replay.index)))

(* A chart in replay has the bars of the trades before the cursor and no    *)
(* other: none of the live ones, none left from before a seek.              *)
ReplayShowsItsPrefix ==
  replay # None =>
    LET prefix == SubSeq(replay.ticks, 1, replay.index)
        bars   == AllBars(FoldLeft(LAMBDA f, t : Process(f, t).engine, NewFootprint, prefix))
    IN  /\ \A b \in Range(bars) : b.time \in DOMAIN shown /\ shown[b.time] = b
        /\ DOMAIN shown \subseteq {BarStart(replay.ticks[i]) : i \in 1..replay.index}

(* A closed bar the live chart has is the context's, though updates are     *)
(* held back and late trades change bars that were sent before.             *)
ClosedBarsAreShown ==
  ~IsReplay => \A b \in Range(live.fp.closed) : b.time \in DOMAIN shown /\ shown[b.time] = b

(* A replay that has come to the end shows what the live chart shows of the *)
(* same trades, if neither had to pass over a late trade or drop a bar.     *)
Summary(f) ==
  {[time |-> b.time, levels |-> b.levels, high |-> b.high, low |-> b.low, cvd |-> b.cvd] :
     b \in Range(AllBars(f))}
VolumeIn(f) == MapThenSumSet(LAMBDA b : b.volume, Range(AllBars(f)))
VolumeOf(S) == MapThenSumSet(LAMBDA t : t.size, S)

ReplayAgreesWithLive ==
  LET f == replay.engines.fp
  IN  /\ replay # None /\ Ended(replay) /\ Range(replay.ticks) = arrived
      /\ VolumeIn(f) = VolumeOf(arrived) /\ VolumeIn(live.fp) = VolumeOf(arrived)
      => Summary(f) = Summary(live.fp)
=============================================================================
