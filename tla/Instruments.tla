---------------------------- MODULE Instruments ----------------------------
(***************************************************************************)
(* The instrument tables and the pure functions over them                  *)
(* (src/server/src/futuresConfig.ts): the catalogue written by hand, the   *)
(* table of product rows expanded into it, the operator's own entries      *)
(* (EXTRA_INSTRUMENTS), the parser of contract symbols, and the record     *)
(* built for a symbol nobody listed.                                       *)
(*                                                                         *)
(* A price, a tick or a value of a tick is a fraction <<n, d>> in lowest   *)
(* terms, so two of them are the same number exactly when they are equal.  *)
(* Names, margins, currencies and base prices are left out: nothing that   *)
(* is checked depends on them.                                             *)
(*                                                                         *)
(* A symbol is a record of its parts as the regular expressions of the     *)
(* code see them: the root, the month letter and the digits of the year    *)
(* (None and <<>> without one), the tail after the root: "c" of ES.c.0,    *)
(* "FUT" and "OPT" of the parent symbols, "OSI" of one option, and of the  *)
(* last the parsed parts.                                                  *)
(***************************************************************************)
EXTENDS Nothing, Integers, Sequences, FiniteSets

CONSTANTS CurrentYear    \* the year of the process's clock

ASSUME YearAssumption == CurrentYear \in 2000..2089

Gcd[p \in Nat \X Nat] == IF p[2] = 0 THEN p[1] ELSE Gcd[<<p[2], p[1] % p[2]>>]

Fraction(n, d) == <<n \div Gcd[<<n, d>>], d \div Gcd[<<n, d>>]>>

\* The value of a tick: derived from the point value and the tick size.
tickValueFor(point, tick) == Fraction(point[1] * tick[1], point[2] * tick[2])

Plain(root) == [root |-> root, month |-> None, digits |-> <<>>, tail |-> None, option |-> None]

-----------------------------------------------------------------------------
(* The tables. *)

Instrument(sym, root, point, tick, value, parent, micro, schedule) ==
    [symbol |-> sym, root |-> root, point |-> point, tick |-> tick, value |-> value,
     parent |-> parent, micro |-> micro, microValue |-> None, isMicro |-> parent # None,
     kind |-> "CONTINUOUS", month |-> None, year |-> None, schedule |-> schedule]

\* A row written by hand states its tick value and its micro's tick value.
Listed(root, point, tick, value, parent, micro, microValue, schedule) ==
    [Instrument(Plain(root), root, point, tick, value, parent, micro, schedule)
        EXCEPT !.microValue = microValue]

IndexInstruments == <<
    Listed("ES",  <<50, 1>>, <<1, 4>>,  <<25, 2>>, None,  "MES", <<5, 4>>, "CME_EQUITY_INDEX"),
    Listed("MES", <<5, 1>>,  <<1, 4>>,  <<5, 4>>,  "ES",  None,  None,     "CME_EQUITY_INDEX"),
    Listed("NQ",  <<20, 1>>, <<1, 4>>,  <<5, 1>>,  None,  "MNQ", <<1, 2>>, "CME_EQUITY_INDEX"),
    Listed("MNQ", <<2, 1>>,  <<1, 4>>,  <<1, 2>>,  "NQ",  None,  None,     "CME_EQUITY_INDEX"),
    Listed("YM",  <<5, 1>>,  <<1, 1>>,  <<5, 1>>,  None,  "MYM", <<1, 2>>, "CBOT_EQUITY_INDEX"),
    Listed("MYM", <<1, 2>>,  <<1, 1>>,  <<1, 2>>,  "YM",  None,  None,     "CBOT_EQUITY_INDEX")>>

OtherInstruments == <<
    Listed("RTY", <<50, 1>>,    <<1, 10>>,   <<5, 1>>,  None,  "M2K", <<1, 2>>, "CME_EQUITY_INDEX"),
    Listed("M2K", <<5, 1>>,     <<1, 10>>,   <<1, 2>>,  "RTY", None,  None,     "CME_EQUITY_INDEX"),
    Listed("GC",  <<100, 1>>,   <<1, 10>>,   <<10, 1>>, None,  "MGC", <<1, 1>>, "COMEX_METALS"),
    Listed("MGC", <<10, 1>>,    <<1, 10>>,   <<1, 1>>,  "GC",  None,  None,     "COMEX_METALS"),
    Listed("CL",  <<1000, 1>>,  <<1, 100>>,  <<10, 1>>, None,  "MCL", <<1, 1>>, "NYMEX_ENERGY"),
    Listed("MCL", <<100, 1>>,   <<1, 100>>,  <<1, 1>>,  "CL",  None,  None,     "NYMEX_ENERGY"),
    Listed("NG",  <<10000, 1>>, <<1, 1000>>, <<10, 1>>, None,  "MNG", None,     "NYMEX_ENERGY")>>

\* A product row: it has no tick value of its own, that is derived when the row is expanded.
SpecRow(root, point, tick, parent, micro, schedule) ==
    [root |-> root, point |-> point, tick |-> tick, parent |-> parent, micro |-> micro,
     isMicro |-> parent # None, schedule |-> schedule]

specRowToInstrument(row) ==
    [Instrument(Plain(row.root), row.root, row.point, row.tick, tickValueFor(row.point, row.tick),
                row.parent, row.micro, row.schedule) EXCEPT !.isMicro = row.isMicro]

Stocks == <<"SPY", "QQQ", "IWM", "DIA", "SPX", "NDX", "RUT", "AAPL", "TSLA", "NVDA", "AMZN", "MSFT",
           "META", "GOOGL", "GOOG", "MSTR", "COIN", "AMD", "SMCI", "PLTR">>

ProductRows == <<
    SpecRow("SI",  <<5000, 1>>,     <<1, 200>>,     None,  "SIL", "COMEX_METALS"),
    SpecRow("SIL", <<1000, 1>>,     <<1, 200>>,     "SI",  None,  "COMEX_METALS"),
    SpecRow("HG",  <<25000, 1>>,    <<1, 2000>>,    None,  "MHG", "COMEX_METALS"),
    SpecRow("MHG", <<2500, 1>>,     <<1, 2000>>,    "HG",  None,  "COMEX_METALS"),
    SpecRow("MNG", <<1000, 1>>,     <<1, 1000>>,    "NG",  None,  "NYMEX_ENERGY"),
    SpecRow("RB",  <<42000, 1>>,    <<1, 10000>>,   None,  None,  "NYMEX_ENERGY"),
    SpecRow("HO",  <<42000, 1>>,    <<1, 10000>>,   None,  None,  "NYMEX_ENERGY"),
    SpecRow("ZC",  <<50, 1>>,       <<1, 4>>,       None,  None,  "CBOT_AG"),
    SpecRow("ZS",  <<50, 1>>,       <<1, 4>>,       None,  None,  "CBOT_AG"),
    SpecRow("ZW",  <<50, 1>>,       <<1, 4>>,       None,  None,  "CBOT_AG"),
    SpecRow("ZL",  <<600, 1>>,      <<1, 100>>,     None,  None,  "CBOT_AG"),
    SpecRow("LE",  <<400, 1>>,      <<1, 40>>,      None,  None,  "CME_LIVESTOCK"),
    SpecRow("HE",  <<400, 1>>,      <<1, 40>>,      None,  None,  "CME_LIVESTOCK"),
    SpecRow("GF",  <<500, 1>>,      <<1, 40>>,      None,  None,  "CME_LIVESTOCK"),
    SpecRow("ZT",  <<2000, 1>>,     <<1, 256>>,     None,  None,  "CBOT_RATES"),
    SpecRow("ZF",  <<1000, 1>>,     <<1, 128>>,     None,  None,  "CBOT_RATES"),
    SpecRow("ZN",  <<1000, 1>>,     <<1, 64>>,      None,  None,  "CBOT_RATES"),
    SpecRow("ZB",  <<1000, 1>>,     <<1, 32>>,      None,  None,  "CBOT_RATES"),
    SpecRow("6E",  <<125000, 1>>,   <<1, 20000>>,   None,  "M6E", "CME_FX"),
    SpecRow("M6E", <<12500, 1>>,    <<1, 10000>>,   "6E",  None,  "CME_FX"),
    SpecRow("6J",  <<12500000, 1>>, <<1, 2000000>>, None,  None,  "CME_FX"),
    SpecRow("6B",  <<62500, 1>>,    <<1, 10000>>,   None,  "M6B", "CME_FX"),
    SpecRow("M6B", <<6250, 1>>,     <<1, 10000>>,   "6B",  None,  "CME_FX"),
    SpecRow("6A",  <<100000, 1>>,   <<1, 20000>>,   None,  "M6A", "CME_FX"),
    SpecRow("M6A", <<10000, 1>>,    <<1, 10000>>,   "6A",  None,  "CME_FX"),
    SpecRow("6C",  <<100000, 1>>,   <<1, 20000>>,   None,  None,  "CME_FX"),
    [SpecRow("MSF", <<12500, 1>>, <<1, 10000>>, None, None, "CME_FX") EXCEPT !.isMicro = TRUE],
    SpecRow("BTC", <<5, 1>>,        <<5, 1>>,       None,  "MBT", "CME_CRYPTO"),
    SpecRow("MBT", <<1, 10>>,       <<5, 1>>,       "BTC", None,  "CME_CRYPTO"),
    [SpecRow("MET", <<1, 10>>, <<1, 2>>, None, None, "CME_CRYPTO") EXCEPT !.isMicro = TRUE],
    SpecRow("PL",  <<50, 1>>,       <<1, 10>>,      None,  None,  "NYMEX_METALS"),
    SpecRow("PA",  <<100, 1>>,      <<1, 2>>,       None,  None,  "NYMEX_METALS"),
    SpecRow("ZM",  <<100, 1>>,      <<1, 10>>,      None,  None,  "CBOT_AG"),
    SpecRow("VIX", <<1000, 1>>,     <<1, 20>>,      None,  None,  "CME_EQUITY")>>

StockRows == [i \in DOMAIN Stocks |->
                SpecRow(Stocks[i], <<100, 1>>, <<1, 100>>, None, None, "CME_EQUITY")]

SPEC_TABLE == ProductRows \o StockRows

-----------------------------------------------------------------------------
(* The operator's own entries, read once at boot. An entry that is not     *)
(* valid is refused, one for a root the catalogue has is ignored.          *)
parseExtraInstruments(entries) ==
    LET Valid(e) == /\ e.wellFormed
                    /\ e.point[1] > 0 /\ e.tick[1] > 0
                    /\ e.exchange \in {"CME", "NYMEX", "COMEX", "CBOT"}
    IN  [i \in {j \in DOMAIN entries : Valid(entries[j])} |->
            LET e == entries[i]
            IN  Instrument(Plain(e.root), e.root, e.point, e.tick, tickValueFor(e.point, e.tick),
                           None, None, "CUSTOM")]

BuiltIn == IndexInstruments \o OtherInstruments
           \o [i \in DOMAIN SPEC_TABLE |-> specRowToInstrument(SPEC_TABLE[i])]

RootsOf(rows) == {rows[i].root : i \in DOMAIN rows}
FirstOf(rows, r) ==
    rows[CHOOSE i \in DOMAIN rows : rows[i].root = r /\ \A j \in DOMAIN rows : j < i => rows[j].root # r]

\* FUTURES_INSTRUMENTS once the module is loaded: the first entry of a root wins, the hand-written
\* ones before the rows, the rows before the operator's.
FUTURES_INSTRUMENTS(entries) ==
    LET extra == parseExtraInstruments(entries)
    IN  [r \in RootsOf(BuiltIn) \cup RootsOf(extra) |->
            IF r \in RootsOf(BuiltIn) THEN FirstOf(BuiltIn, r) ELSE FirstOf(extra, r)]

-----------------------------------------------------------------------------
(* Contract symbols. *)

\* The text of a symbol without its trailing digits is a root only if the symbol is one.
IsRoot(s) == s.month = None /\ s.tail = None

contractYear(digits) ==
    IF Len(digits) = 2 THEN 2000 + 10 * digits[1] + digits[2]
    ELSE LET decade == (CurrentYear \div 10) * 10 + digits[1]
         IN  IF decade < CurrentYear - 2 THEN decade + 10 ELSE decade

parseContractSymbol(s) ==
    IF s.month # None /\ s.tail = None
    THEN [root |-> s.root, month |-> s.month, year |-> contractYear(s.digits), isContinuous |-> FALSE]
    ELSE [root |-> IF IsRoot(s) THEN s.root ELSE None, month |-> None, year |-> None, isContinuous |-> TRUE]

isMicroContract(table, s) ==
    LET r == parseContractSymbol(s).root IN r \in DOMAIN table /\ table[r].isMicro

getParentSymbol(table, s) ==
    LET r == parseContractSymbol(s).root IN IF r \in DOMAIN table THEN table[r].parent ELSE None

\* A contract of a catalogue root is its root's record under its own symbol.
contractOf(parent, s) ==
    [parent EXCEPT !.symbol = s, !.kind = "SPECIFIC",
                   !.month = s.month, !.year = contractYear(s.digits)]

\* The roots whose defaults are those of a future when neither table nor store knows them.
DefaultFutures ==
    {"ES", "MES", "NQ", "MNQ", "YM", "MYM", "RTY", "M2K", "GC", "MGC", "SI", "SIL", "HG", "MHG", "PL",
     "PA", "CL", "MCL", "NG", "MNG", "RB", "HO", "ZB", "ZN", "ZF", "ZT", "6E", "M6E", "6J", "6B", "M6B",
     "6A", "M6A", "6C", "MSF", "ZC", "ZW", "ZS", "ZM", "ZL", "HE", "LE", "GF", "BTC", "MBT", "MET"}

defaultInstrument(s) ==
    IF IsRoot(s) /\ s.root \in DefaultFutures
    THEN Instrument(s, s.root, <<50, 1>>, <<1, 4>>, <<25, 2>>, None, None, "CME_EQUITY_INDEX")
    ELSE Instrument(s, IF IsRoot(s) THEN s.root ELSE None, <<1, 1>>, <<1, 100>>, <<1, 100>>, None, None, "CME_EQUITY")

-----------------------------------------------------------------------------
(* What the chart and the history provider ask the vendor for a symbol. *)

CME_FUTURES_ROOTS ==
    {"ES", "NQ", "MES", "MNQ", "RTY", "M2K", "YM", "MYM", "CL", "MCL", "NG", "MNG", "GC", "MGC", "SI",
     "SIL", "HG", "ZB", "ZN", "ZF", "ZT", "UB", "6E", "6B", "6J", "6A", "6C", "ZC", "ZS", "ZW", "ZM", "ZL"}

CME_ROOTS == {"ES", "NQ", "MES", "MNQ", "CL", "GC", "ZB", "ZN", "UB", "RTY", "MGC", "SI", "HG", "MCL", "MNG"}

IsOptionSymbol(s) == s.tail \in {"OPT", "OSI"}

\* The digits are taken off before the month letter is looked for, so what is left of ESZ6 is ESZ:
\* a contract has no root here.
getSymbolRoot(s) == IF s.month = None THEN s.root ELSE None

resolveSymbolForDatabento(s) ==
    IF IsOptionSymbol(s)
    THEN [dataset |-> "OPRA", stype |-> IF s.tail = "OPT" THEN "parent" ELSE "raw_symbol", kind |-> "option"]
    ELSE IF getSymbolRoot(s) \in CME_FUTURES_ROOTS \/ s.tail = "FUT"
    THEN [dataset |-> "GLBX", kind |-> "futures",
          \* The symbol is in capitals by now: ".c." is never found in it.
          stype |-> CASE s.tail = None -> "continuous" [] s.tail = "FUT" -> "parent" [] OTHER -> None]
    ELSE [dataset |-> "EQUS", stype |-> "raw_symbol", kind |-> "stock"]

\* The history provider's own copy of the rule: other roots, the symbol as it was typed, and no
\* request at all for a symbol outside the configured list.
historyRequest(s, configured) ==
    IF IsOptionSymbol(s) THEN [dataset |-> "OPRA", stype |-> None]
    ELSE IF getSymbolRoot(s) \in CME_ROOTS
    THEN [dataset |-> "GLBX",
          stype |-> CASE s.tail \in {None, "c"} -> "continuous" [] s.tail = "FUT" -> "parent" [] OTHER -> None]
    ELSE IF s.root \in configured THEN [dataset |-> "EQUS", stype |-> None]
    ELSE None

\* Ticks are asked for over the two days before the moment wanted, or before a quarter of an hour ago.
tickRequest(s, configured, before, now) ==
    LET last == now - 15
        to   == IF before > 0 /\ before < last THEN before ELSE last
    IN  IF historyRequest(s, configured) = None THEN None
        ELSE [request |-> historyRequest(s, configured), from |-> to - 48 * 60, to |-> to]

\* The schema of a bar size, in minutes: everything from two minutes to an hour is asked as hours.
schemaForBarMinutes(minutes) ==
    IF minutes <= 1 THEN "ohlcv-1m" ELSE IF minutes <= 60 THEN "ohlcv-1h" ELSE "ohlcv-1d"

\* The price scale the chart library is given for a symbol: whole steps per point.
getUdfSymbol(table, s) ==
    LET r == IF IsRoot(s) THEN s.root ELSE getSymbolRoot(s)
    IN  IF r \in DOMAIN table
        THEN LET t == table[r].tick
                 scale == (2 * t[2] + t[1]) \div (2 * t[1])          \* rounded
             IN  [type |-> "futures", session |-> <<1800, 1700>>,
                  pricescale |-> IF scale > 0 THEN scale ELSE 100]
        ELSE [type |-> IF IsOptionSymbol(s) THEN "option" ELSE "stock",
              session |-> <<930, 1600>>, pricescale |-> 100]
=============================================================================
