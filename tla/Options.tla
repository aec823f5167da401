------------------------------ MODULE Options ------------------------------
(***************************************************************************)
(* What is computed from an option chain (src/server/src/options/*.ts,     *)
(* quant/dealerPositioning.ts, gexEngine.ts): the price that is inverted,  *)
(* the greeks it leads to or does not, the exposure per strike with its    *)
(* walls, its flip and its window around the spot, the volatility surface. *)
(*                                                                         *)
(* Prices, strikes and greeks are integers; constant factors (the contract *)
(* multiplier, the millions) and the rounding to a tenth are left out, as  *)
(* is the formula of Black and Scholes: a greek is an input, and what is   *)
(* modelled of it is when there is one at all.                             *)
(***************************************************************************)
EXTENDS Nothing, Integers, Sequences, FiniteSets, FiniteSetsExt, SequencesExt

CONSTANTS NearCount,   \* strikes near the spot that make a window of their own (10)
          HalfWindow   \* half of the strikes shown otherwise (40)
ASSUME OptionsAssumption == NearCount \in Nat \ {0} /\ HalfWindow \in Nat \ {0}

Abs(x) == IF x < 0 THEN -x ELSE x
\* A set of integers in order.
Ascending(S) ==
    [i \in 1..Cardinality(S) |-> CHOOSE s \in S : Cardinality({t \in S : t < s}) = i - 1]

Sum(S, amount) == FoldSet(LAMBDA i, n : amount[i] + n, 0, S)

-----------------------------------------------------------------------------
(* The price of a contract and its greeks (iv.ts, blackScholes.ts,         *)
(* chain.ts).                                                              *)

\* The middle of a quote that is not crossed and not too wide, or else the last price.
midQuotePrice(q) ==
    IF q.bid # None /\ q.ask # None /\ q.bid > 0 /\ q.ask > 0 /\ q.bid <= q.ask
          /\ 4 * (q.ask - q.bid) <= q.bid + q.ask
    THEN (q.bid + q.ask) \div 2
    ELSE IF q.last # None /\ q.last > 0 THEN q.last ELSE None

intrinsic(spot, c) == IF c.type = "call" THEN Max({0, spot - c.strike}) ELSE Max({0, c.strike - spot})

\* A price outside the bounds of arbitrage has no volatility. Within them the solver finds the one of
\* the contract (converges), or gives up.
impliedVol(price, spot, c, converges) ==
    IF price <= 0 \/ spot <= 0 \/ c.strike <= 0 THEN None
    ELSE IF price < intrinsic(spot, c) \/ (c.type = "call" /\ price > spot) THEN None
    ELSE IF converges THEN c.iv ELSE None

bsGreeks(spot, c, iv) == IF spot <= 0 \/ c.strike <= 0 \/ iv <= 0 THEN None ELSE c.greeks

\* Definitions, quotes and statistics joined: a contract without a usable price keeps its place in the
\* chain, without volatility and greeks.
buildPricedChain(spot, definitions, quotes, openInterest, converges) ==
    IF spot = None \/ spot <= 0 THEN {}
    ELSE {LET mid == IF quotes[d.symbol] = None THEN None ELSE midQuotePrice(quotes[d.symbol])
              iv  == IF mid = None THEN None ELSE impliedVol(mid, spot, d, converges)
          IN  [symbol |-> d.symbol, strike |-> d.strike, type |-> d.type, dte |-> d.dte,
               openInterest |-> openInterest[d.symbol], iv |-> iv,
               greeks |-> IF iv = None THEN None ELSE bsGreeks(spot, d, iv)]
             : d \in {x \in definitions : x.dte >= 0}}

-----------------------------------------------------------------------------
(* Exposure per strike. *)

Counted(contracts) ==
    {c \in contracts : c.openInterest # None /\ c.openInterest > 0 /\ c.greeks # None}

Weighted(contracts, greek) == [c \in contracts |-> c.greeks[greek] * c.openInterest]

CallGex(contracts, s) ==
    Sum({c \in contracts : c.strike = s /\ c.type = "call"}, Weighted(contracts, "gamma"))
PutGex(contracts, s) ==
    -Sum({c \in contracts : c.strike = s /\ c.type = "put"}, Weighted(contracts, "gamma"))
NetGex(contracts, s)  == CallGex(contracts, s) + PutGex(contracts, s)

Near(strikes, spot) == Ascending({s \in ToSet(strikes) : 20 * Abs(s - spot) <= spot})

\* The first of the strikes that are closest to the spot.
closestIdx(strikes, spot) ==
    CHOOSE i \in DOMAIN strikes :
       \A j \in DOMAIN strikes : /\ Abs(strikes[i] - spot) <= Abs(strikes[j] - spot)
                                 /\ j < i => Abs(strikes[i] - spot) < Abs(strikes[j] - spot)

\* A fault: the window is the first strikes of the chain, as in the other engine of this code.
FirstStrikes(strikes, spot) ==
    IF Len(Near(strikes, spot)) >= NearCount THEN Near(strikes, spot)
    ELSE SubSeq(strikes, 1, Min({2 * HalfWindow, Len(strikes)}))

\* The strikes shown: those near the spot when there are enough, or else a window centred on the
\* closest one and moved back inside the chain.
usedStrikes(strikes, spot) ==
    IF Len(Near(strikes, spot)) >= NearCount THEN Near(strikes, spot)
    ELSE LET start == Max({0, closestIdx(strikes, spot) - 1 - HalfWindow})
             end   == Min({Len(strikes), start + 2 * HalfWindow})
         IN  SubSeq(strikes, Max({0, end - 2 * HalfWindow}) + 1, end)

\* The walls: the first strike with the most gamma of its side, over the whole chain.
Wall(strikes, weight) ==
    strikes[CHOOSE i \in DOMAIN strikes :
               \A j \in DOMAIN strikes : /\ weight[strikes[i]] >= weight[strikes[j]]
                                         /\ j < i => weight[strikes[i]] > weight[strikes[j]]]

\* The flip: the first strike at which the cumulated gamma of the strikes shown turns from negative, or
\* else the first with gamma above a strike without.
FlipOf(levels, net) ==
    LET cumulative(i) == Sum(1..i, [j \in DOMAIN levels |-> net[levels[j]]])
        turns == {i \in DOMAIN levels : cumulative(i - 1) < 0 /\ cumulative(i) >= 0}
        rises == {i \in DOMAIN levels : i > 1 /\ net[levels[i - 1]] <= 0 /\ net[levels[i]] > 0}
    IN  IF turns # {} THEN levels[Min(turns)] ELSE IF rises # {} THEN levels[Min(rises)] ELSE None

buildExposure(spot, contracts) ==
    LET counted == Counted(contracts)
        strikes == Ascending({c.strike : c \in counted})
        levels  == usedStrikes(strikes, spot)
        net     == [s \in {c.strike : c \in counted} |-> NetGex(counted, s)]
        total   == Sum(DOMAIN net, net)
        greek(g) == Sum(counted, Weighted(counted, g))
    IN  IF spot = None \/ spot <= 0 \/ counted = {} THEN None
        ELSE [spot |-> spot, levels |-> levels,
              gex |-> total, dex |-> greek("delta"), charm |-> greek("charm"), vanna |-> greek("vanna"),
              callWall |-> Wall(strikes, [s \in DOMAIN net |-> CallGex(counted, s)]),
              putWall |-> Wall(strikes, [s \in DOMAIN net |-> -PutGex(counted, s)]),
              gammaFlip |-> FlipOf(levels, net),
              regime |-> IF total >= 0 THEN "POSITIVE_GAMMA" ELSE "NEGATIVE_GAMMA"]

-----------------------------------------------------------------------------
(* The engine of the older panel (gexEngine.ts). Nothing in the server     *)
(* calls it: its profiles and its flow stay empty.                         *)

buildFromChain(spot, rows) ==
    LET counted == {r \in rows : r.openInterest > 0}
        strikes == Ascending({r.strike : r \in counted})
        gamma == [r \in counted |-> IF r.type = "call" THEN r.gamma * r.openInterest ELSE -(r.gamma * r.openInterest)]
        net     == [s \in {r.strike : r \in counted} |-> Sum({r \in counted : r.strike = s}, gamma)]
        levels  == FirstStrikes(strikes, spot)
        total   == Sum(counted, gamma)
        flip    == FlipOf(levels, net)
    IN  [levels |-> levels, gex |-> total,
         zeroGammaFlip |-> IF flip = None THEN spot ELSE flip,
         regime |-> IF total >= 0 THEN "POSITIVE_GAMMA" ELSE "NEGATIVE_GAMMA"]

\* The rows with volume become flow, the largest first, at most twenty of them, and the ring of flow
\* keeps the last hundred: a chain built again puts the same rows in it again.
Notable(rows, atLeast, count) ==
    LET order == SetToSortSeq({r \in rows : r.volume >= atLeast /\ r.openInterest > 0},
                              LAMBDA a, b : a.volume > b.volume)
    IN  SubSeq(order, 1, Min({count, Len(order)}))

addFlow(ring, trades, limit) ==
    LET all == Reverse(trades) \o ring IN SubSeq(all, 1, Min({limit, Len(all)}))

-----------------------------------------------------------------------------
(* The volatility surface (volSurface.ts) and the impact model.            *)

First(S, before(_, _)) == CHOOSE x \in S : \A y \in S : ~before(y, x)

atmIvForExpiry(points, spot) ==
    LET near == {p \in points : p.iv # None /\ 50 * Abs(p.strike - spot) < spot}
    IN  IF near = {} THEN None ELSE First(near, LAMBDA a, b : Abs(a.strike - spot) < Abs(b.strike - spot)).iv

\* The wing of an expiry: the contract of the side whose delta, in hundredths, is closest to a quarter, or
\* else whatever contract out on that side lies closest to five per cent away.
Wing(contracts, spot, type) ==
    LET priced == {c \in contracts : c.iv # None}
        side == {c \in priced : /\ c.type = type
                                /\ IF type = "put" THEN c.strike <= spot ELSE c.strike >= spot}
        out == {c \in priced : IF type = "put" THEN c.strike < spot ELSE c.strike > spot}
        aim(c) == Abs(c.greeks.delta - (IF type = "put" THEN -25 ELSE 25))
        far(c) == Abs(100 * c.strike - (IF type = "put" THEN 95 ELSE 105) * spot)
    IN  IF side # {} THEN First(side, LAMBDA a, b : aim(a) < aim(b)).iv
        ELSE IF out # {} THEN First(out, LAMBDA a, b : far(a) < far(b)).iv ELSE None

buildVolSurface(spot, contracts) ==
    LET expiries == Ascending({c.dte : c \in contracts})
        Of(d) == {c \in contracts : c.dte = d}
        term  == [i \in DOMAIN expiries |-> atmIvForExpiry(Of(expiries[i]), spot)]
        front == term[1]
        back  == term[Len(term)]
        inverted == Len(term) >= 2 /\ front # None /\ back # None /\ 100 * front > 115 * back
        Skewed(d) == LET p == Wing(Of(d), spot, "put") c == Wing(Of(d), spot, "call")
                     IN  p # None /\ c # None /\ c > 0 /\ 10 * Abs(p - c) > 3 * c
        skewed == \E i \in DOMAIN expiries : Skewed(expiries[i])
    IN  IF spot = None \/ spot <= 0 \/ contracts = {} THEN None
        ELSE [term |-> term, termStructureInverted |-> inverted, skewShift |-> skewed,
              volDislocation |-> inverted /\ skewed]

\* The impact model reads nothing but the totals and the distance of the flip from the spot.
buildMarketImpact(x) ==
    [gammaImpact |-> IF Abs(x.gex) > 5000 THEN "AMPLIFIED" ELSE IF Abs(x.gex) < 500 THEN "DAMPENED" ELSE "NEUTRAL",
     deltaHedgePressure |-> IF x.dex > 1000 THEN "BUY" ELSE IF x.dex < -1000 THEN "SELL" ELSE "NEUTRAL",
     vannaCharmEffect |->
        IF x.gammaFlip # None /\ 100 * Abs(x.spot - x.gammaFlip) < x.spot
        THEN IF x.charm > 0 \/ x.vanna > 0 THEN "SUPPORTIVE"
             ELSE IF x.charm < 0 \/ x.vanna < 0 THEN "RESISTIVE" ELSE "NEUTRAL"
        ELSE "NEUTRAL"]

-----------------------------------------------------------------------------
(* What a reader of the gamma map relies on. *)

\* The ladder holds the strike closest to the spot, however lopsided the chain, and never more than the
\* window; the totals are those of the whole chain, calls less puts; no strike beats a wall on its side;
\* and the flip is one of the strikes shown, with gamma on its own or the cumulated side not negative.
ExposureIsOfTheChain(spot, contracts) ==
    LET x == buildExposure(spot, contracts)
        counted == Counted(contracts)
        strikes == {c.strike : c \in counted}
    IN  x # None =>
          /\ \E s \in ToSet(x.levels) : \A t \in strikes : Abs(s - spot) <= Abs(t - spot)
          /\ Len(Near(Ascending(strikes), spot)) < NearCount => Len(x.levels) <= 2 * HalfWindow
          /\ x.gex = Sum({c \in counted : c.type = "call"}, Weighted(counted, "gamma"))
                     - Sum({c \in counted : c.type = "put"}, Weighted(counted, "gamma"))
          /\ \A s \in strikes : /\ CallGex(counted, s) <= CallGex(counted, x.callWall)
                                /\ PutGex(counted, s) >= PutGex(counted, x.putWall)
          /\ x.gammaFlip # None => x.gammaFlip \in ToSet(x.levels) /\ NetGex(counted, x.gammaFlip) > 0
=============================================================================
