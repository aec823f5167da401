------------------------------- MODULE Vendor -------------------------------
(***************************************************************************)
(* What is asked of the vendor on behalf of a page, and what it costs      *)
(* (src/server/src/marketData/optionsRoutes.ts and quoteBoard.ts,          *)
(* options/exposureRoutes.ts, storage/redisCache.ts, the option tables and *)
(* the ledger of storage/marketDataStore.ts, the quote, gex and snapshot   *)
(* routes of index.ts).                                                    *)
(*                                                                         *)
(* A chain is looked for in the memory cache, then in the store, and asked *)
(* of the vendor when neither has it and the month's ledger is below the   *)
(* cap. The ledger is read before the request is sent, the answer is       *)
(* stored and cached, and charged a moment later; any number of requests   *)
(* may be between these. Reads and writes of the store may fail: nobody is *)
(* told, a table that cannot be read is an empty one. A quote board        *)
(* request walks its symbols one after the other, each answered from a     *)
(* cache with a time to live, by the vendor, or by the last value known.   *)
(*                                                                         *)
(* Time is a count of ticks since an entry was written. A chain is the     *)
(* set of its contracts; a quote is the number of the answer it came in.   *)
(***************************************************************************)
EXTENDS Options

CONSTANTS Underlyings,    \* underlyings with options
          Contracts,      \* underlying -> the definitions the vendor has (see Options)
          Quoted,         \* symbols of the quote board, in the order they are asked for
          Configured,     \* is the vendor's key set (BOOLEAN)
          Cap,            \* DATABENTO_COST_CAP_USD, in charges
          ChainTTL,       \* ticks a chain stays in the cache (300 s)
          QuoteTTL,       \* ticks a quote is fresh (QUOTE_BOARD_TTL_MS)
          Months,         \* bound: months the clock reaches
          MaxFlight,      \* bound: chain requests, and quote requests, under way at once
          MaxPaid,        \* bound: answers with contracts
          MaxBlind,       \* bound: requests that could not read the ledger
          MaxAnswers      \* bound: answers of the quote board

VARIABLES defs,           \* table option_definitions: underlying -> stored contracts
          stats,          \* table option_statistics: symbol -> open interest or None
          ledger,         \* table vendor_usage: month -> charges
          chainCache,     \* RedisCache: underlying -> [chain, age] or None
          flight,         \* chain requests under way, each [of, got, slot]: its underlying, the
                          \* contracts it was answered with, and its place in paid, or 0 before
          month,          \* the clock's month
          quoteCache,     \* quote board: symbol -> [value, age] or None
          boards,         \* quote requests under way: each [todo, got]
          answers,        \* answers of the vendor to the quote board so far
          chainReply,     \* the last chain route's answer, None in other steps
          paid,           \* history: the answers with contracts, each [of, month, lost]: the month
                          \* it is charged to, or 0 before; or it never will be
          again,          \* history: underlyings asked for while a request for them was under way, or
                          \* whose definitions the store did not keep, or could not give
          blind           \* history: how many requests could not read the ledger

history == <<paid, again, blind>>
chainVars == <<defs, stats, ledger, chainCache, flight, history>>
boardVars == <<quoteCache, boards, answers>>
vendorVars == <<chainVars, boardVars, month, chainReply>>

MaxSymbols == 8           \* MAX_SYMBOLS of the quote board

VendorInit ==
    /\ defs = [u \in Underlyings |-> {}]
    /\ stats = [c \in {d.symbol : d \in UNION {Contracts[u] : u \in Underlyings}} |-> None]
    /\ ledger = [m \in 1..Months |-> 0]
    /\ chainCache = [u \in Underlyings |-> None]
    /\ flight = <<>>
    /\ month = 1
    /\ quoteCache = [q \in Range(Quoted) |-> None]
    /\ boards = <<>>
    /\ answers = 0
    /\ chainReply = None
    /\ paid = <<>>
    /\ again = {}
    /\ blind = 0

-----------------------------------------------------------------------------
(* Chains. *)

\* The put-call ratio is of the open interest that is known; without any it is one.
formatChainResponse(u, chain, source) ==
    LET known == {c \in chain : stats[c.symbol] # None}
        open  == [c \in known |-> stats[c.symbol]]
        calls == Sum({c \in known : c.type = "call"}, open)
        puts  == Sum({c \in known : c.type = "put"}, open)
    IN  [of |-> u, contracts |-> chain, source |-> source, calls |-> calls, puts |-> puts,
         ratio |-> IF known = {} THEN <<1, 1>> ELSE IF calls > 0 THEN <<puts, calls>> ELSE <<0, 1>>]

\* An entry is served until its time is over; the sweep only removes what nobody is served any more.
getOptionChain(u) ==
    IF chainCache[u] # None /\ chainCache[u].age < ChainTTL THEN chainCache[u].chain ELSE {}

\* A fault: the ledger of the month before is read.
UsageOfLastMonth(m) == IF m = 1 THEN 0 ELSE ledger[m - 1]

getVendorUsage(m) == ledger[m]

\* GET /options/chain: the cache, the store, and the vendor while the month's ledger is below the cap.
\* What cannot be read of the store counts as empty.
AskChain(u, broken) ==
    LET cached == getOptionChain(u)
        stored == IF "definitions" \in broken THEN {} ELSE defs[u]
        usage  == IF "ledger" \in broken THEN 0 ELSE getVendorUsage(month)
        fetch  == cached = {} /\ stored = {} /\ Configured /\ usage < Cap
    IN  /\ chainReply' = IF cached # {} THEN formatChainResponse(u, cached, "cache")
                         ELSE IF stored # {} THEN formatChainResponse(u, stored, "databento")
                         ELSE IF fetch THEN None ELSE formatChainResponse(u, {}, "none")
        /\ chainCache' = IF cached = {} THEN [chainCache EXCEPT ![u] = None] ELSE chainCache
        /\ fetch => Len(flight) < MaxFlight /\ ("ledger" \in broken => blind < MaxBlind)
        /\ flight' = IF fetch THEN Append(flight, [of |-> u, got |-> {}, slot |-> 0]) ELSE flight
        /\ again' = IF fetch /\ ("definitions" \in broken \/ \E k \in DOMAIN flight : flight[k].of = u)
                    THEN again \cup {u} ELSE again
        /\ blind' = IF fetch /\ "ledger" \in broken THEN blind + 1 ELSE blind
        /\ UNCHANGED <<defs, stats, ledger, paid, month>> /\ UNCHANGED boardVars

\* The vendor answers with contracts. They are written one by one up to the first that fails, which the
\* route is not told, and cached; it goes on when the cache's promise is settled.
ChainAnswered(k, chain, kept) ==
    LET u == flight[k].of
    IN  /\ k \in DOMAIN flight /\ flight[k].slot = 0 /\ Len(paid) < MaxPaid
        /\ chain # {} /\ kept \subseteq chain
        /\ defs' = [defs EXCEPT ![u] = @ \cup kept]
        /\ chainCache' = [chainCache EXCEPT ![u] = [chain |-> chain, age |-> 0]]
        /\ paid' = Append(paid, [of |-> u, month |-> 0, lost |-> FALSE])
        /\ flight' = [flight EXCEPT ![k] = [of |-> u, got |-> chain, slot |-> Len(paid) + 1]]
        /\ again' = IF kept = {} THEN again \cup {u} ELSE again
        /\ chainReply' = None
        /\ UNCHANGED <<stats, ledger, blind, month>> /\ UNCHANGED boardVars

\* It charges the month it is by then, or fails to, which it is not told either, and answers the page.
ChainCharged(k, written) ==
    /\ k \in DOMAIN flight /\ flight[k].slot # 0 /\ flight' = RemoveAt(flight, k)
    /\ ledger' = IF written THEN [ledger EXCEPT ![month] = @ + 1] ELSE ledger
    /\ paid' = [paid EXCEPT ![flight[k].slot] = [of |-> flight[k].of, month |-> IF written THEN month ELSE 0,
                                                lost |-> ~written]]
    /\ chainReply' = formatChainResponse(flight[k].of, flight[k].got, "databento")
    /\ UNCHANGED <<defs, stats, chainCache, again, blind, month>> /\ UNCHANGED boardVars

\* The request fails, or the answer has no contracts: so has the page's, and nothing is charged.
ChainFailed(k) ==
    /\ k \in DOMAIN flight /\ flight[k].slot = 0 /\ flight' = RemoveAt(flight, k)
    /\ chainReply' = formatChainResponse(flight[k].of, {}, "none")
    /\ UNCHANGED <<defs, stats, ledger, chainCache, history, month>> /\ UNCHANGED boardVars

\* GET /options/statistics: the store's latest, or else the vendor's, which nobody counts the cost of.
AskStatistics(c, interest) ==
    /\ stats[c] = None /\ Configured
    /\ stats' = [stats EXCEPT ![c] = interest]
    /\ chainReply' = None
    /\ UNCHANGED <<defs, ledger, chainCache, flight, history, month>> /\ UNCHANGED boardVars

\* GET /exposure: the store's definitions priced with no quotes at all, since none are stored by symbol.
\* The answer is the empty exposure; nothing is saved, cached or put in the ring of snapshots, so the
\* snapshot, impact and surface routes find none.
AskExposure(u) ==
    LET noQuotes == [s \in {c.symbol : c \in defs[u]} |-> None]
        spot     == CHOOSE c \in defs[u] : TRUE
        priced   == buildPricedChain(spot.strike, defs[u], noQuotes,
                                     [s \in DOMAIN noQuotes |-> None], TRUE)
    IN  /\ defs[u] # {}
        /\ chainReply' = [of |-> u, exposure |-> buildExposure(spot.strike, priced),
                          surface |-> buildVolSurface(spot.strike, {})]
        /\ UNCHANGED <<month>> /\ UNCHANGED chainVars /\ UNCHANGED boardVars

-----------------------------------------------------------------------------
(* The quote board. *)

\* A fault: an entry of any age counts as fresh.
AnyEntry(s) == quoteCache[s] # None

cached(s) == quoteCache[s] # None /\ quoteCache[s].age <= QuoteTTL

Put(k, s, quote) ==
    boards' = [boards EXCEPT ![k] = [todo |-> Tail(@.todo), got |-> @.got \o quote]]

Shown(s, value, stale) == <<[symbol |-> s, value |-> value, stale |-> stale]>>

\* A request: at most eight symbols, without repetition.
AskQuotes(list) ==
    /\ Len(boards) < MaxFlight /\ Len(list) <= MaxSymbols /\ IsInjective(list)
    /\ boards' = Append(boards, [todo |-> list, got |-> <<>>])
    /\ chainReply' = None
    /\ UNCHANGED <<quoteCache, answers, month>> /\ UNCHANGED chainVars

\* The next symbol is in the cache and fresh.
QuoteFromCache(k) ==
    /\ k \in DOMAIN boards /\ boards[k].todo # <<>>
    /\ LET s == Head(boards[k].todo)
       IN  cached(s) /\ Put(k, s, Shown(s, quoteCache[s].value, FALSE))
    /\ chainReply' = None
    /\ UNCHANGED <<quoteCache, answers, month>> /\ UNCHANGED chainVars

\* It is not, and the vendor answers with a trade. Another request may have asked for the same symbol
\* and have been answered in between: this answer replaces it.
QuoteAnswered(k) ==
    /\ k \in DOMAIN boards /\ boards[k].todo # <<>> /\ answers < MaxAnswers
    /\ answers' = answers + 1
    /\ LET s == Head(boards[k].todo)
       IN  /\ quoteCache' = [quoteCache EXCEPT ![s] = [value |-> answers + 1, age |-> 0]]
           /\ Put(k, s, Shown(s, answers + 1, FALSE))
    /\ chainReply' = None
    /\ UNCHANGED month /\ UNCHANGED chainVars

\* The vendor does not answer, or with nothing usable: the last value is shown as stale, if there is one.
QuoteFailed(k) ==
    /\ k \in DOMAIN boards /\ boards[k].todo # <<>>
    /\ LET s == Head(boards[k].todo)
       IN  Put(k, s, IF quoteCache[s] # None THEN Shown(s, quoteCache[s].value, TRUE) ELSE <<>>)
    /\ chainReply' = None
    /\ UNCHANGED <<quoteCache, answers, month>> /\ UNCHANGED chainVars

\* The request is through its symbols: the page has its answer.
QuotesDone(k) ==
    /\ k \in DOMAIN boards /\ boards[k].todo = <<>>
    /\ boards' = RemoveAt(boards, k)
    /\ chainReply' = None
    /\ UNCHANGED <<quoteCache, answers, month>> /\ UNCHANGED chainVars

-----------------------------------------------------------------------------
(* Time and the end of the process. *)

Older(entry, limit) ==
    IF entry = None THEN None ELSE [entry EXCEPT !.age = Min({@ + 1, limit + 1})]

\* A tick, with the sweep of the cache.
VendorTick ==
    /\ chainCache' = [u \in Underlyings |->
                        IF chainCache[u] # None /\ chainCache[u].age + 1 >= ChainTTL THEN None
                        ELSE Older(chainCache[u], ChainTTL)]
    /\ quoteCache' = [s \in DOMAIN quoteCache |-> Older(quoteCache[s], QuoteTTL)]
    /\ chainReply' = None
    /\ UNCHANGED <<defs, stats, ledger, flight, history, boards, answers, month>>

NextMonth ==
    /\ month < Months /\ month' = month + 1
    /\ chainReply' = None
    /\ UNCHANGED chainVars /\ UNCHANGED boardVars

\* The process ends: the caches and what was under way are gone, the tables stay. What was answered and
\* not charged yet will never be.
RestartVendor ==
    /\ paid' = [i \in DOMAIN paid |->
                  IF \E k \in DOMAIN flight : flight[k].slot = i THEN [paid[i] EXCEPT !.lost = TRUE] ELSE paid[i]]
    /\ chainCache' = [u \in Underlyings |-> None]
    /\ quoteCache' = [s \in DOMAIN quoteCache |-> None]
    /\ flight' = <<>>
    /\ boards' = <<>>
    /\ chainReply' = None
    /\ UNCHANGED <<defs, stats, ledger, again, blind, month, answers>>

\* The chains and their charges, with the open interest the vendor may know.
ChainsNext(interests) ==
    \/ \E u \in Underlyings : AskExposure(u) \/ \E broken \in SUBSET {"definitions", "ledger"} : AskChain(u, broken)
    \/ \E k \in DOMAIN flight :
         \/ ChainFailed(k) \/ \E written \in BOOLEAN : ChainCharged(k, written)
         \/ \E chain \in SUBSET Contracts[flight[k].of] : \E kept \in SUBSET chain : ChainAnswered(k, chain, kept)
    \/ \E c \in DOMAIN stats, interest \in interests : AskStatistics(c, interest)
    \/ VendorTick \/ NextMonth \/ RestartVendor

\* The quote board, asked for lists of symbols.
QuotesNext(lists) ==
    \/ \E l \in lists : AskQuotes(l)
    \/ \E k \in DOMAIN boards : QuoteFromCache(k) \/ QuoteAnswered(k) \/ QuoteFailed(k) \/ QuotesDone(k)
    \/ VendorTick \/ RestartVendor

VendorSpec ==
    VendorInit /\ [][ChainsNext(Nat) \/ QuotesNext(Seq(Range(Quoted)))]_vendorVars

\* Counts are numbers, there is a month, and a request may be made.
VendorAssumption ==
    /\ Cap \in Nat /\ Months \in Nat \ {0} /\ MaxFlight \in Nat \ {0} /\ QuoteTTL \in Nat
    /\ MaxPaid \in Nat /\ MaxBlind \in Nat
    /\ None \notin [value : Nat, age : Nat]

-----------------------------------------------------------------------------
(* Properties. *)

\* The ledger is the money spent, but for what nobody is told of. Every answer with contracts is in it
\* once, across restarts and the turn of the month, or its request is about to charge it; unless that
\* write failed or the process ended before it. A month passes the cap by no more than the requests that
\* were already under way and those that could not read the ledger. An underlying is paid for a second
\* time only if two requests for it were under way at once, or the store lost or withheld its definitions.
SpendIsBounded ==
    /\ \A m \in 1..Months :
         /\ ledger[m] = Cardinality({i \in DOMAIN paid : paid[i].month = m})
         /\ ledger[m] <= Cap - 1 + MaxFlight + blind
    /\ \A i \in DOMAIN paid :
         paid[i].month = 0 => paid[i].lost \/ \E k \in DOMAIN flight : flight[k].slot = i
    /\ \A i, j \in DOMAIN paid : i # j /\ paid[i].of = paid[j].of => paid[i].of \in again

\* A board never invents and never forgets (the comment over fetchWatchlistQuotes): a symbol the process
\* has a value for is in the answer with the value known at that moment, and it is not called stale only
\* if that value came in within the time to live.
QuotesAreHonest ==
    [][\A k \in DOMAIN boards :
          (k \in DOMAIN boards' /\ boards[k].todo # <<>> /\ boards'[k].todo = Tail(boards[k].todo)
              /\ Len(boards') = Len(boards)) =>
             LET s == Head(boards[k].todo)
                 new == SubSeq(boards'[k].got, Len(boards[k].got) + 1, Len(boards'[k].got))
             IN  IF quoteCache'[s] = None THEN new = <<>>
                 ELSE /\ Len(new) = 1 /\ new[1].symbol = s /\ new[1].value = quoteCache'[s].value
                      /\ ~new[1].stale => quoteCache'[s].age <= QuoteTTL]_vendorVars
=============================================================================
