-------------------------- MODULE MC_TradeIngestion --------------------------
(***************************************************************************)
(* Small instances of TradeIngestion.                                      *)
(***************************************************************************)
EXTENDS TradeIngestion, TLC

CONSTANTS a, b, c, d, p, q, jun, sep

(* Trades of two contracts, and a legacy row.                              *)
MixedWhen == (a :> 1) @@ (b :> 2) @@ (c :> 1) @@ (d :> 1)
MixedContract == (a :> jun) @@ (b :> sep) @@ (c :> NoContract) @@ (d :> jun)

(* a and d are alike, and so are the payloads.                             *)
MixedSymmetry == Permutations({a, d}) \union Permutations({p, q})

(* Three trades of one contract, over three times and two sessions.        *)
SessionWhen == (a :> 1) @@ (b :> 2) @@ (c :> 3)
SessionContract == (a :> jun) @@ (b :> jun) @@ (c :> jun)
===============================================================================
