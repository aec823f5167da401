-------------------------------- MODULE MC_Feed --------------------------------
(***************************************************************************)
(* Feed with two trades, one of them from before the context, two bars,    *)
(* one of them in the store, and two browsers.  The clock moves only where *)
(* something expires: in the ordinary runtime.                             *)
(***************************************************************************)
EXTENDS Feed

CONSTANTS t0, t1

Ticks == [m \in Modes |-> IF m = "ordinary" THEN 4 ELSE 0]
Trades == {t0, t1}
OldTrades == {t0}
===============================================================================
