--------------------------- MODULE MC_Reference ---------------------------
(***************************************************************************)
(* Small instances of the reference data: the catalogue with its           *)
(* synchronisations, the requests to the vendor, the exposure of a chain   *)
(* and the trading calendar. They share no state, so each initial state    *)
(* chooses one of them (its world) and the others stand still.             *)
(***************************************************************************)
EXTENDS Catalogue, Vendor

CONSTANTS u1, u2, q1, q2

VARIABLES world, chain, zone, day, minute

Sym(root) == [root |-> root, month |-> None, digits |-> <<>>, tail |-> None, option |-> None]
ContractSymbol(root, letter, digits) == [Sym(root) EXCEPT !.month = letter, !.digits = digits]
OptionOf(root) == [Sym(root) EXCEPT !.tail = "OSI", !.option = [expiration |-> 20, type |-> "call", strike |-> 600]]

ES == Sym("ES")
ZQ == Sym("ZQ")
SPY == Sym("SPY")
XYZ == Sym("XYZ")
ESZ6 == ContractSymbol("ES", "Z", <<6>>)
ZQZ6 == ContractSymbol("ZQ", "Z", <<6>>)
ZQF7 == ContractSymbol("ZQ", "F", <<2, 7>>)
SpyOption == OptionOf("SPY")
MCSymbols == {ES, ZQ, SPY, XYZ, ESZ6, ZQZ6, ZQF7, SpyOption, Sym("QH")}

MCEntries == <<[root |-> "QH", wellFormed |-> TRUE, point |-> <<42000, 1>>, tick |-> <<1, 100>>, exchange |-> "NYMEX"],
               [root |-> "ES", wellFormed |-> TRUE, point |-> <<1, 1>>, tick |-> <<1, 1>>, exchange |-> "CME"],
               [root |-> "XYZ", wellFormed |-> FALSE, point |-> <<0, 1>>, tick |-> <<1, 1>>, exchange |-> "CME"]>>

\* Definitions of the vendor. An identifier is given by all of an answer or by none of it.
Definition(raw, asset, tick, uom, mult, id, expiration, underlying) ==
    [raw |-> raw, asset |-> asset, tick |-> tick, uom |-> uom, multiplier |-> mult, id |-> id,
     expiration |-> expiration, activation |-> None, underlying |-> underlying]

Futures == {<<Definition(ESZ6, "ES", <<1, 4>>, <<50, 1>>, None, 7, 10, None),
              Definition(ZQZ6, "ZQ", Sentinel, Sentinel, <<4167, 1>>, 8, 10, None),
              Definition(ZQF7, "ZQ", <<1, 400>>, <<1, 1>>, None, 9, 20, None)>>,
            <<Definition(ZQF7, "ZQ", <<1, 400>>, <<4167, 1>>, None, 8, 20, None),
              Definition(ESZ6, "ES", <<2000, 1>>, None, None, 7, 10, None)>>}
Options0 == {<<Definition(SpyOption, None, <<20000000, 1>>, None, None, None, 20, "SPY")>>}
Stocks0 == {<<Definition(SPY, None, <<1, 100>>, None, None, 1, None, None),
              Definition(XYZ, None, None, None, None, 2, None, None)>>}

MCAnswers == [GLBX |-> Futures, OPRA |-> Options0, EQUS |-> Stocks0]

\* Chains and quotes.
Greeks(gamma, delta) == [gamma |-> gamma, delta |-> delta, charm |-> 1, vanna |-> -1]
C(id, strike, type, gamma, oi) ==
    [symbol |-> id, strike |-> strike, type |-> type, dte |-> 5, iv |-> 20, openInterest |-> oi,
     greeks |-> IF gamma = None THEN None ELSE Greeks(gamma, IF type = "call" THEN 30 ELSE -30)]
MCContracts == [u \in {u1, u2} |-> {C(u, 100, "call", 2, 1)}]
MCQuoted == <<q1, q2>>

Alike == Permutations({u1, u2})

ASSUME ReferenceConstants == VendorAssumption /\ CatalogueAssumption

\* Chains to compute the exposure of: five strikes, each with calls or puts or nothing that counts, and
\* every spot from below the first to above the last.
Strikes == <<90, 94, 97, 100, 103>>
Sides == {<<"call", 3>>, <<"put", 2>>, <<"call", None>>}
ChainOf(choice) == {C(i, Strikes[i], choice[i][1], choice[i][2], 1) : i \in DOMAIN choice}

Chains == [spot : {85, 93, 98, 101, 107}, choice : [1..5 -> Sides]]

Cal == INSTANCE Calendar WITH Step <- 15

StillCatalogue == UNCHANGED <<dynamic, specs, masterRows, syncs, synced, reply>>
StillVendor == UNCHANGED vendorVars
StillCalendar == UNCHANGED <<zone, day, minute>>
Rest == UNCHANGED <<world, chain>>

Init ==
    /\ CatalogueInit /\ VendorInit
    /\ \/ world \in {"catalogue", "chains", "statistics", "quotes"} /\ chain = None /\ zone = "central" /\ day = 7 /\ minute = 0
       \/ world = "calendar" /\ chain = None /\ Cal!CalendarInit
       \/ world = "exposure" /\ chain \in Chains /\ zone = "central" /\ day = 7 /\ minute = 0

CatalogueWorld ==
    /\ world = "catalogue" /\ StillVendor /\ StillCalendar /\ Rest
    /\ CatalogueNext({ZQ, ZQZ6, ESZ6}, {ES, ZQZ6, SpyOption}, {None, "GLBX"})

\* What is paid for, and, where nothing more than one chain is, the open interest of contracts.
ChainsWorld ==
    /\ StillCatalogue /\ StillCalendar /\ Rest
    /\ \/ world = "chains" /\ ChainsNext({})
       \/ world = "statistics" /\ ChainsNext({10}) /\ Len(flight') < 2 /\ Len(paid') < 2

QuotesWorld ==
    /\ world = "quotes" /\ StillCatalogue /\ StillCalendar /\ Rest
    /\ QuotesNext({<<q1>>, <<q1, q2>>, <<q2, q1>>})

CalendarNext == world = "calendar" /\ Cal!ClockMoves /\ StillCatalogue /\ StillVendor /\ Rest

Next == CatalogueWorld \/ ChainsWorld \/ QuotesWorld \/ CalendarNext

vars == <<world, chain, catalogueVars, vendorVars, zone, day, minute>>

Spec == Init /\ [][Next]_vars

(* Options: walls, flip and totals are those of the strikes of the chain (options/exposure.ts).   *)
ExposuresAreTrue ==
    world = "exposure" => ExposureIsOfTheChain(chain.spot, ChainOf(chain.choice))

(* What a step may not do: change a registered instrument (futuresConfig.ts), answer with  *)
(* an old quote that passes for fresh (quoteBoard.ts), begin a second session in a day of       *)
(* trading (sessionCalendar.ts).                                                                *)
StepsAreHonest == InstrumentNeverChanges /\ QuotesAreHonest /\ Cal!SessionIsOneStretch
=============================================================================
