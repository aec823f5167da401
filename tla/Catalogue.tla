----------------------------- MODULE Catalogue -----------------------------
(***************************************************************************)
(* The instruments a process knows (src/server/src/futuresConfig.ts,       *)
(* marketData/instrumentSync.ts, instruments/master.ts, symbols/*.ts, the  *)
(* instrument and symbol routes of index.ts, the specification tables of   *)
(* storage/marketDataStore.ts).                                            *)
(*                                                                         *)
(* Three places hold a symbol's tick and point value: the catalogue, fixed *)
(* at boot; the database, filled by a synchronisation that asks the vendor *)
(* for one dataset after the other; and the records registered in memory   *)
(* the first time a symbol is asked for, by any of five routes, in any     *)
(* order with the synchronisation's answers. The last are never replaced:  *)
(* a wrong tick in one of them is a wrong profit until the next restart.   *)
(***************************************************************************)
EXTENDS Instruments, TLC

CONSTANTS Symbols,        \* the symbols anyone may ask for
          Entries,        \* the operator's entries (EXTRA_INSTRUMENTS)
          Sentinel,       \* a number of the vendor that means "not given"
          Answers,        \* dataset -> the answers the vendor may give to a request for its definitions
          MaxSyncs        \* bound: synchronisations started in a process

VARIABLES dynamic,        \* DYNAMIC_INSTRUMENTS: symbol -> instrument, None until it is asked for
          specs,          \* table instrument_specs: root symbol -> specification or None
          masterRows,     \* table instrument_master: a set of rows
          syncs,          \* synchronisations under way: each the datasets it still has to ask for
          synced,         \* what the last step of a synchronisation wrote: [records, written], or None
          reply           \* what the last question was answered with, None in every other step

catalogueVars == <<dynamic, specs, masterRows, syncs, synced, reply>>

Table == FUTURES_INSTRUMENTS(Entries)
Datasets == <<"GLBX", "OPRA", "EQUS">>
ClassOf == [GLBX |-> "F", OPRA |-> "O", EQUS |-> "S"]

-----------------------------------------------------------------------------
(* The vendor's numbers. *)

Above(x, n) == x[1] \div x[2] >= n /\ x # <<n, 1>>

parseDbFixedPoint(value, fallback) ==
    IF value \in {None, Sentinel} \/ value = <<0, 1>> THEN fallback
    ELSE IF Above(value, 10000000) THEN fallback ELSE value

parseDbTickSize(value, fallback) ==
    LET tick == parseDbFixedPoint(value, fallback) IN IF Above(tick, 1000) THEN fallback ELSE tick

\* The unit of measure, then the multiplier, then fifty for a future: each only while the value is one.
pointValueOf(r, dataset) ==
    LET uom  == IF r.uom = None THEN <<1, 1>> ELSE parseDbFixedPoint(r.uom, <<1, 1>>)
        mult == IF uom = <<1, 1>> /\ r.multiplier \notin {None, Sentinel} THEN r.multiplier ELSE uom
    IN  IF mult = <<1, 1>> /\ ClassOf[dataset] = "F" THEN <<50, 1>> ELSE mult

\* The root of a definition: its asset, or else the raw symbol itself.
rootOf(r) == IF r.asset # None THEN Plain(r.asset) ELSE r.raw

toSpecRow(r, dataset) ==
    LET tick  == parseDbTickSize(r.tick, IF ClassOf[dataset] = "F" THEN <<1, 4>> ELSE <<1, 100>>)
        point == pointValueOf(r, dataset)
    IN  [root |-> rootOf(r), raw |-> r.raw, class |-> ClassOf[dataset], expiration |-> r.expiration,
         point |-> point, tick |-> tick, value |-> tickValueFor(point, tick)]

\* The first definition of a root stands for all of them.
dedupeByRoot(rows) ==
    {rows[i] : i \in {j \in DOMAIN rows : \A k \in 1..(j - 1) : rows[k].root # rows[j].root}}

\* The row of the master: its tick falls back to a cent, for a future too.
toMasterRow(r, dataset, index) ==
    [dataset |-> dataset, id |-> IF r.id # None THEN r.id ELSE index, raw |-> r.raw,
     asset |-> rootOf(r), class |-> ClassOf[dataset], underlying |-> r.underlying,
     expiration |-> r.expiration, activation |-> r.activation,
     tick |-> parseDbFixedPoint(r.tick, <<1, 100>>), multiplier |-> pointValueOf(r, dataset)]

\* INSERT OR REPLACE: whatever has the identifier or the raw symbol of the new row goes.
ReplaceMasterRow(rows, row) ==
    {x \in rows : x.dataset # row.dataset \/ (x.id # row.id /\ x.raw # row.raw)} \cup {row}

upsertMaster(rows, new) ==
    LET after[n \in 0..Len(new)] == IF n = 0 THEN rows ELSE ReplaceMasterRow(after[n - 1], new[n])
    IN  after[Len(new)]

\* A fault: the value of a tick is written with the tick of the master's rule.
upsertWithCentTick(table, rows) ==
    [s \in DOMAIN table |->
        IF \E r \in rows : r.root = s
        THEN LET r == CHOOSE x \in rows : x.root = s IN [r EXCEPT !.value = tickValueFor(r.point, <<1, 100>>)]
        ELSE table[s]]

upsertInstrumentSpecs(table, rows) ==
    [s \in DOMAIN table |-> IF \E r \in rows : r.root = s THEN CHOOSE r \in rows : r.root = s ELSE table[s]]

\* A row is found under its root or under its raw symbol (for a root that is a row of its own first).
getInstrumentSpec(table, s) ==
    LET found == {r \in DOMAIN table : table[r] # None /\ (r = s \/ table[r].raw = s)}
    IN  IF found = {} THEN None ELSE table[IF s \in found THEN s ELSE CHOOSE r \in found : TRUE]

purgeInvalidInstrumentSpecs(table) ==
    [s \in DOMAIN table |->
        IF table[s] # None
        THEN IF Above(table[s].tick, 1000) \/ Above(table[s].value, 1000000) \/ Above(table[s].point, 10000000)
             THEN None ELSE table[s]
        ELSE None]

-----------------------------------------------------------------------------
(* getOrRegisterInstrument. *)

fromSpec(spec, s) ==
    Instrument(s, IF IsRoot(spec.root) THEN spec.root.root ELSE None, spec.point, spec.tick, spec.value,
               None, None, IF spec.class = "F" THEN "CME_EQUITY_INDEX" ELSE "CME_EQUITY")

\* The record of a symbol: the catalogue's, the one registered before, its root's for a contract of a
\* catalogue root, the store's, or the default.
getOrRegisterInstrument(known, stored, s) ==
    IF IsRoot(s) /\ s.root \in DOMAIN Table THEN Table[s.root]
    ELSE IF known[s] # None THEN known[s]
    ELSE IF s.month # None /\ s.tail = None /\ s.root \in DOMAIN Table THEN contractOf(Table[s.root], s)
    ELSE IF getInstrumentSpec(stored, s) # None THEN fromSpec(getInstrumentSpec(stored, s), s)
    ELSE defaultInstrument(s)

\* What is left in memory once a set of symbols has been asked for.
Registered(known, stored, asked) ==
    [s \in DOMAIN known |->
        IF s \in asked /\ ~(IsRoot(s) /\ s.root \in DOMAIN Table)
        THEN getOrRegisterInstrument(known, stored, s) ELSE known[s]]

isContinuousContract(s) ==
    IF IsRoot(s) /\ s.root \in DOMAIN Table THEN TRUE
    ELSE IF dynamic[s] # None THEN dynamic[s].kind = "CONTINUOUS"
    ELSE s.month = None

-----------------------------------------------------------------------------
(* Questions about symbols: symbols/engine.ts and the resolvers over it. *)

Found(r) == [raw |-> r.raw, asset |-> r.asset, expiration |-> r.expiration, from |-> "master"]
FoundSpec(r) == [raw |-> r.raw, asset |-> r.root, expiration |-> r.expiration, from |-> "spec"]

ValidAt(r, day) == (r.activation = None \/ r.activation <= day) /\ (r.expiration = None \/ r.expiration >= day)

\* The master's row of a raw symbol. (A raw symbol has one row, so the day asked for changes nothing.)
getByRawSymbol(dataset, raw) == {r \in masterRows : r.dataset = dataset /\ r.raw = raw}

getByInstrumentId(dataset, id, day) ==
    LET inDataset == {r \in masterRows : r.id = id /\ r.dataset = dataset}
        rows == IF inDataset # {} THEN inDataset ELSE {r \in masterRows : r.id = id}
        valid == IF day = None THEN {} ELSE {r \in rows : ValidAt(r, day)}
    IN  IF valid # {} THEN valid ELSE rows

\* resolve: the master by raw symbol, the store's specification, then the option's own text. With a
\* dataset the specification is looked for under the dataset's name, where none is ever stored.
Resolve(raw, dataset) ==
    LET rows == IF dataset = None THEN {} ELSE getByRawSymbol(dataset, raw)
        spec == IF dataset = None THEN getInstrumentSpec(specs, raw) ELSE None
    IN  IF rows # {} THEN {Found(r) : r \in rows}
        ELSE IF spec # None THEN {FoundSpec(spec)}
        ELSE IF IsOptionSymbol(raw) /\ raw.option # None
        THEN {[raw |-> raw, asset |-> Plain(raw.root), expiration |-> raw.option.expiration, from |-> "text"]}
        ELSE {}

\* The chain of a root: every row of the master, or else the one specification.
continuousChain(root, dataset) ==
    LET rows == {r \in masterRows : r.asset = Plain(root) /\ r.dataset = dataset}
    IN  IF rows # {} THEN {Found(r) : r \in rows}
        ELSE IF specs[Plain(root)] # None THEN {FoundSpec(specs[Plain(root)])} ELSE {}

childrenOf(underlying, dataset) ==
    {Found(r) : r \in {x \in masterRows : x.underlying = underlying /\ x.dataset = dataset}}

\* A contract without an expiration sorts after all the others.
Before(a, b) == a.expiration # None /\ (b.expiration = None \/ a.expiration <= b.expiration)
Alive(chain, day) == {c \in chain : c.expiration = None \/ c.expiration >= day}

\* The route asks for no day: the earliest contract of the chain, expired or not.
frontMonth(root, day) ==
    LET chain  == continuousChain(root, "GLBX")
        active == IF day # None /\ Alive(chain, day) # {} THEN Alive(chain, day) ELSE chain
    IN  {c \in active : \A d \in active : Before(c, d) \/ ~Before(d, c)}

secondMonth(root, day) ==
    LET chain  == continuousChain(root, "GLBX")
        active == IF day # None /\ Cardinality(Alive(chain, day)) >= 2 THEN Alive(chain, day) ELSE chain
    IN  IF Cardinality(chain) < 2 THEN {}
        ELSE {c \in active : Cardinality({d \in active : Before(d, c) /\ ~Before(c, d)}) = 1}

\* The search over the catalogue: the master's rows of the asset, the store's, the catalogue's, the vendor.
Search(root) ==
    LET rows == {r \in masterRows : r.asset = Plain(root)}
        inStore == {s \in DOMAIN specs : specs[s] # None /\ (s = Plain(root) \/ specs[s].raw.root = root)}
    IN  IF rows # {} THEN {Found(r) : r \in rows}
        ELSE IF inStore # {} THEN {FoundSpec(specs[s]) : s \in inStore}
        ELSE IF root \in DOMAIN Table
        THEN {[raw |-> Plain(root), asset |-> Plain(root), expiration |-> None, from |-> "catalogue"]}
        ELSE {[raw |-> Plain(root), asset |-> Plain(root), expiration |-> None, from |-> "vendor"]}

-----------------------------------------------------------------------------
(* Actions. *)

CatalogueInit ==
    /\ dynamic = [s \in Symbols |-> None]
    /\ specs = [s \in Symbols |-> None]
    /\ masterRows = {}
    /\ syncs = <<>>
    /\ synced = None
    /\ reply = None

\* Any route that needs an instrument: a subscription, the detail route, a replay, an entitlement, the
\* context manager.
Lookup(s) ==
    /\ dynamic' = Registered(dynamic, specs, {s})
    /\ reply' = [asked |-> s, instrument |-> getOrRegisterInstrument(dynamic, specs, s)]
    /\ synced' = None
    /\ UNCHANGED <<specs, masterRows, syncs>>

\* The list route registers the roots of the store that the catalogue has not got, and lists the
\* catalogue: what it has just registered is not in the list.
ListInstruments ==
    /\ dynamic' = Registered(dynamic, specs, {s \in Symbols : specs[s] # None})
    /\ reply' = None /\ synced' = None
    /\ UNCHANGED <<specs, masterRows, syncs>>

\* The symbol routes read only.
Ask(s, dataset) ==
    /\ reply' = [asked |-> s, found |->
                   [resolved |-> Resolve(s, dataset), front |-> frontMonth(s.root, None),
                    search |-> Search(s.root), children |-> childrenOf(s.root, "OPRA"),
                    vendor |-> resolveSymbolForDatabento(s), history |-> historyRequest(s, {"SPY"}),
                    udf |-> getUdfSymbol(Table, s), continuous |-> isContinuousContract(s),
                    micro |-> isMicroContract(Table, s), parent |-> getParentSymbol(Table, s)]]
    /\ synced' = None
    /\ UNCHANGED <<dynamic, specs, masterRows, syncs>>

\* The operator asks for a synchronisation: what is plainly wrong is purged, the datasets are asked for
\* one after the other. Nothing stops a second one while the first waits.
StartSync ==
    /\ Len(syncs) < MaxSyncs
    /\ specs' = purgeInvalidInstrumentSpecs(specs)
    /\ syncs' = Append(syncs, Datasets)
    /\ reply' = None /\ synced' = None
    /\ UNCHANGED <<dynamic, masterRows>>

\* The answer for a synchronisation's dataset arrives. A write that fails is swallowed in both tables;
\* the roots are registered from what is stored by then.
SyncAnswered(k, records, ok) ==
    /\ k \in DOMAIN syncs /\ syncs[k] # <<>>
    /\ LET dataset == Head(syncs[k])
           rows    == [i \in DOMAIN records |-> toSpecRow(records[i], dataset)]
           deduped == dedupeByRoot(rows)
           stored  == IF ok THEN upsertInstrumentSpecs(specs, deduped) ELSE specs
       IN  /\ specs' = stored
           /\ masterRows' = IF ok THEN upsertMaster(masterRows, [i \in DOMAIN records |->
                                       toMasterRow(records[i], dataset, i)])
                        ELSE masterRows
           /\ dynamic' = Registered(dynamic, stored, {r.root : r \in deduped})
           /\ synced' = [dataset |-> dataset, records |-> records, written |-> ok]
    /\ syncs' = [syncs EXCEPT ![k] = Tail(@)]
    /\ reply' = None

\* The request fails: the dataset counts no rows, the next one is asked for.
SyncFailed(k) ==
    /\ k \in DOMAIN syncs /\ syncs[k] # <<>>
    /\ syncs' = [syncs EXCEPT ![k] = Tail(@)]
    /\ reply' = None /\ synced' = None
    /\ UNCHANGED <<dynamic, specs, masterRows>>

\* The process ends and starts: what was registered is forgotten, the tables are not.
RestartCatalogue ==
    /\ dynamic' = [s \in Symbols |-> None]
    /\ syncs' = <<>>
    /\ reply' = None /\ synced' = None
    /\ UNCHANGED <<specs, masterRows>>

\* The steps, with the symbols that are asked for, and those and the datasets a route reads.
CatalogueNext(asked, read, datasets) ==
    \/ \E s \in asked : Lookup(s)
    \/ \E s \in read, d \in datasets : Ask(s, d)
    \/ ListInstruments \/ StartSync \/ RestartCatalogue
    \/ \E k \in DOMAIN syncs :
          \/ SyncFailed(k)
          \/ syncs[k] # <<>> /\ \E records \in Answers[Head(syncs[k])], ok \in BOOLEAN :
                                  SyncAnswered(k, records, ok)

CatalogueSpec ==
    CatalogueInit /\ [][CatalogueNext(Symbols, Symbols, {None} \cup DOMAIN ClassOf)]_catalogueVars

\* A symbol has a month or a tail, not both. An answer is about known roots; in it an identifier stands
\* for one raw symbol, and a raw symbol has one expiration.
CatalogueAssumption ==
    /\ DOMAIN Entries \subseteq Nat
    /\ \A s \in Symbols : s.month # None => s.tail = None
    /\ \A d \in DOMAIN ClassOf : \A records \in Answers[d] :
          LET id(i) == toMasterRow(records[i], d, i).id
          IN  /\ Len(records) \in Nat /\ DOMAIN records = 1..Len(records)
              /\ \A i \in DOMAIN records : /\ rootOf(records[i]) \in Symbols
                                           /\ toSpecRow(records[i], d) # None
              /\ \A i, j \in DOMAIN records :
                    /\ id(i) = id(j) => records[i].raw = records[j].raw
                    /\ records[i].raw = records[j].raw => records[i].expiration = records[j].expiration

-----------------------------------------------------------------------------
(* Properties. *)

\* Every record handed out can be traded on: the value of a tick is the point value times the tick, a
\* contract has the tick and point of its catalogue root, and a micro and its parent name each other with
\* the micro's true tick value (the comment over SPEC_TABLE: "a wrong tick/multiplier means wrong P&L").
TicksAgree ==
    LET Sound(i) == i.value = tickValueFor(i.point, i.tick)
    IN  /\ \A s \in Symbols :
              dynamic[s] # None =>
                 /\ Sound(dynamic[s])
                 /\ s.month # None /\ s.root \in DOMAIN Table =>
                       dynamic[s].tick = Table[s.root].tick /\ dynamic[s].point = Table[s.root].point
        /\ \A r \in DOMAIN Table :
              /\ Sound(Table[r])
              /\ Table[r].parent # None => Table[Table[r].parent].micro = r
              /\ Table[r].micro # None =>
                    /\ Table[Table[r].micro].parent = r
                    /\ Table[r].microValue \in {None, Table[Table[r].micro].value}

\* A symbol means one instrument for the life of the process: no synchronisation, listing or later
\* question changes the tick of a symbol that is already on a chart, in a profile or in an order.
InstrumentNeverChanges ==
    [][(\E s \in Symbols : dynamic[s] # None /\ dynamic'[s] # dynamic[s]) =>
          dynamic' = [s \in Symbols |-> None]]_catalogueVars

\* Once a dataset's answer is stored, each of its definitions is found under its raw symbol with that
\* answer's expiration, whatever stood under its identifier before, and its root has a specification of
\* this dataset.
SyncLands ==
    synced # None /\ synced.written =>
       \A i \in DOMAIN synced.records :
          LET r == synced.records[i]
          IN  /\ \A x \in getByRawSymbol(synced.dataset, r.raw) : x.expiration = r.expiration
              /\ getByRawSymbol(synced.dataset, r.raw) # {}
              /\ specs[rootOf(r)] # None /\ specs[rootOf(r)].class = ClassOf[synced.dataset]

\* The records of a symbol agree wherever they are looked up, and what a synchronisation brought is
\* found (instrumentSync.ts, instruments/master.ts, futuresConfig.ts).
RecordsAgree == TicksAgree /\ SyncLands
=============================================================================
