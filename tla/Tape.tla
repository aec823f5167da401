-------------------------------- MODULE Tape --------------------------------
(***************************************************************************)
(* What is told of the flow of trades as it goes by: the speed of the      *)
(* tape, absorptions and large trades (src/server/src/tapeEngine.ts) and   *)
(* the microstructure of the last minute (microstructure/engine.ts, with   *)
(* its route in index.ts).                                                 *)
(*                                                                         *)
(* Trades come in any order of their times; the microstructure goes by the *)
(* clock of the host, the tape by the time of the trade at hand. Rates are *)
(* kept as the trades they are made of.                                    *)
(***************************************************************************)
EXTENDS Nothing, Integers, Sequences, FiniteSets, FiniteSetsExt, SequencesExt

CONSTANTS Ticks,        \* the trades there may be: time, price, size, side
          Books,        \* the best bid and ask that may stand against one
          SpeedTime,    \* 3 s
          AheadTime,    \* 5 s
          LevelTime,    \* 5 s without a trade end what a level has absorbed
          StaleTime,    \* 10 s
          MaxLevels,    \* levels from which stale ones are dropped (50)
          Absorbed,     \* volume that makes an absorption
          Value,        \* price times size of a large trade
          NearTicks,    \* 1.5 ticks
          MinuteTime, MaxKept, \* 60 s and 5000 trades of the microstructure
          MaxTape, MaxHost \* bounds: trades, and the clock

TapeAssumption ==
    /\ Ticks \subseteq [time : Int, price : Int, size : Nat, side : {"buy", "sell", "unknown"}]
    /\ SpeedTime \in Nat /\ AheadTime \in Nat /\ MinuteTime \in Nat
    /\ Absorbed \in Nat \ {0} /\ MaxKept \in Nat \ {0}

VARIABLES host,         \* the clock of the host
          tape,         \* the trades in their order of arrival, with what each led to
          recentTicks,  \* places in tape of the trades of the speed
          rollingPriceVolumes, \* a price's volumes and the time of its last trade
          minute        \* places in tape of the trades of the microstructure

tapeVars == <<host, tape, recentTicks, rollingPriceVolumes, minute>>

TradeAt(i) == tape[i].tick
Total(amount, S) == FoldSet(LAMBDA i, n : amount[i] + n, 0, S)
Sided(S, side) == {i \in S : TradeAt(i).side = side}

-----------------------------------------------------------------------------
(* The tape (TapeEngine.processTick). *)

\* Of the trades kept, those from 3 s before this one to 5 s after it.
InSpeed(time, now) == time \in now - SpeedTime .. now + AheadTime

\* Levels without a trade for long are dropped when there are many.
Evicted(levels, now) ==
    IF Cardinality(DOMAIN levels) <= MaxLevels THEN levels
    ELSE [p \in {q \in DOMAIN levels : now - levels[q].last <= StaleTime} |-> levels[p]]

NewLevel == [buy |-> 0, sell |-> 0, last |-> 0]

\* The level of a trade, begun anew if it was quiet, with the trade counted.
WithTrade(levels, t) ==
    LET quiet == t.price \notin DOMAIN levels \/ t.time - levels[t.price].last > LevelTime
        level == IF quiet THEN NewLevel ELSE levels[t.price]
    IN  [buy  |-> level.buy + (IF t.side = "buy" THEN t.size ELSE 0),
         sell |-> level.sell + (IF t.side = "sell" THEN t.size ELSE 0), last |-> t.time]

Close(price, best) == best # None /\ price - best \in -NearTicks..NearTicks

\* Selling absorbed by the bid, and buying by the ask; one trade reports the latter if it is both, and
\* the volume of both begins anew.
Absorptions(level, t, book) ==
    [sell |-> level.sell >= Absorbed /\ Close(t.price, book.bid),
     buy  |-> level.buy >= Absorbed /\ Close(t.price, book.ask)]
Absorption(level, t, book) ==
    LET a == Absorptions(level, t, book) IN
    IF a.buy THEN [side |-> "buy", price |-> t.price, volume |-> level.buy]
    ELSE IF a.sell THEN [side |-> "sell", price |-> t.price, volume |-> level.sell] ELSE None

\* A fault: an absorption leaves its volume where it was.
Unabsorbed(level, t, book) == level

Rest(level, t, book) ==
    LET a == Absorptions(level, t, book) IN
    [level EXCEPT !.sell = IF a.sell THEN 0 ELSE @, !.buy = IF a.buy THEN 0 ELSE @]

deepTrade(t) == t.price * t.size >= Value

-----------------------------------------------------------------------------
(* The microstructure (MicrostructureEngine). *)

\* The oldest arrivals are dropped while they are of before the minute, and one more if there are too
\* many; a newer one in front keeps those behind it.
recordTick(kept, times, now) ==
    LET stays == {i \in DOMAIN kept : \E j \in 1..i : times[kept[j]] >= now - MinuteTime}
        fresh == SubSeq(kept, Len(kept) - Cardinality(stays) + 1, Len(kept))
    IN  IF Len(fresh) > MaxKept THEN Tail(fresh) ELSE fresh

\* The trades a snapshot counts at this moment.
snapshot == {i \in Range(minute) : TradeAt(i).time >= host - MinuteTime}

-----------------------------------------------------------------------------

TapeInit ==
    /\ host = 0 /\ tape = <<>> /\ recentTicks = {} /\ minute = <<>>
    /\ rollingPriceVolumes = [p \in {} |-> NewLevel]

\* A trade is shown to both (MarketContext.handleTrade).
ProcessTick(t, book) ==
    LET place  == Len(tape) + 1
        levels == Evicted(rollingPriceVolumes, t.time)
        level  == WithTrade(levels, t)
        times  == [i \in 1..place |-> IF i = place THEN t.time ELSE TradeAt(i).time]
    IN  /\ Len(tape) < MaxTape
        /\ tape' = Append(tape, [tick |-> t, absorption |-> Absorption(level, t, book), deep |-> deepTrade(t)])
        /\ recentTicks' = {i \in recentTicks \cup {place} : InSpeed(times[i], t.time)}
        /\ rollingPriceVolumes' =
              [p \in DOMAIN levels \cup {t.price} |-> IF p = t.price THEN Rest(level, t, book) ELSE levels[p]]
        /\ minute' = recordTick(Append(minute, place), times, host)
        /\ UNCHANGED host

HostTick == host < MaxHost /\ host' = host + 1 /\ UNCHANGED <<tape, recentTicks, rollingPriceVolumes, minute>>

TapeNext ==
    \/ \E t \in Ticks, book \in Books : ProcessTick(t, book)
    \/ HostTick

TapeSpec == TapeInit /\ [][TapeNext]_tapeVars

-----------------------------------------------------------------------------
(* Properties. *)

Absorbing(side, price) ==
    {i \in DOMAIN tape : tape[i].absorption # None /\ tape[i].absorption.side = side /\ tape[i].absorption.price = price}

\* No volume is absorbed twice: what absorptions of a side and price report is at most what was traded
\* there until the last of them, each reports at least the threshold, and what a level still counts was
\* reported by none (processTick).
AbsorbedOnce ==
    \A side \in {"buy", "sell"}, p \in {t.price : t \in Ticks} :
        LET told   == Total([i \in Absorbing(side, p) |-> tape[i].absorption.volume], Absorbing(side, p))
            traded == Total([i \in DOMAIN tape |-> TradeAt(i).size], {i \in Sided(DOMAIN tape, side) : TradeAt(i).price = p})
            open   == IF p \in DOMAIN rollingPriceVolumes THEN rollingPriceVolumes[p][side] ELSE 0
        IN  /\ told + open <= traded
            /\ \A i \in Absorbing(side, p) :
                  /\ tape[i].absorption.volume >= Absorbed
                  /\ \E j \in 1..i : TradeAt(j).side = side /\ TradeAt(j).price = p

\* The speed is that of the trades that were within the time of every trade since they came: a late one
\* takes those far ahead of it out for good (processTick).
SpeedIsOfItsTime ==
    recentTicks = {i \in DOMAIN tape : \A j \in i..Len(tape) : InSpeed(TradeAt(i).time, TradeAt(j).time)}

\* A snapshot counts every trade of the minute among the last 5000 to arrive, whatever arrived between
\* them (recordTick, snapshot).
MinuteIsWhole ==
    snapshot = {i \in Len(tape) - Min({MaxKept, Len(tape)}) + 1 .. Len(tape) : TradeAt(i).time >= host - MinuteTime}

TapeIsTrue == AbsorbedOnce /\ SpeedIsOfItsTime /\ MinuteIsWhole
=============================================================================
