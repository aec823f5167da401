------------------------- MODULE TradeIngestionProofs -------------------------
(***************************************************************************)
(* Proofs about TradeIngestion for any set of trades, contracts and        *)
(* timeframes, any event times and any bounds; about the sessions of       *)
(* Calendar, at whose roll a context resets its profile and VWAP; and      *)
(* about Depth, the order book of the same context and its snapshots.      *)
(***************************************************************************)
EXTENDS TradeIngestion, Calendar, Depth, SequenceTheorems, FiniteSetTheorems, TLAPS

-----------------------------------------------------------------------------
(* What the helpers return.                                                *)

LEMMA NoTicksCounts == NoTicks \in Counts /\ \A i \in Ids : NoTicks[i] = 0
  BY DEF NoTicks, Counts

LEMMA OnceCounts ==
  ASSUME NEW n \in Counts, NEW ids
  PROVE  /\ Once(n, ids) \in Counts
         /\ \A i \in Ids : Once(n, ids)[i] = IF i \in ids THEN n[i] + 1 ELSE n[i]
  BY DEF Once, Counts

(* A tick not counted yet is counted once.                                 *)
LEMMA CountUp ==
  ASSUME NEW n \in Counts, NEW i \in Ids, n[i] = 0, \A j \in Ids : n[j] <= 1
  PROVE  /\ Once(n, {i}) \in Counts
         /\ \A j \in Ids : /\ Once(n, {i})[j] <= 1
                           /\ Once(n, {i})[j] > 0 => j = i \/ n[j] > 0
  <1>1. \A j \in Ids : n[j] \in Nat
    BY DEF Counts
  <1> QED
    BY <1>1, OnceCounts

(* Handing out nothing changes nothing.                                    *)
LEMMA OnceNothing == Once(NoTicks, {}) = NoTicks
  BY DEF Once, NoTicks

LEMMA TrackedWithin ==
  ASSUME NEW ids, NEW k \in Tracked(ids)
  PROVE  k \subseteq known \union ids
  BY DEF Tracked

(* The history gains the new tick at most, and is never empty after it.    *)
LEMMA RememberedWithin ==
  ASSUME IngestionInv, NEW i \in Ids, NEW h \in Remembered(i)
  PROVE  h \subseteq history \union {i} /\ h # {}
  <1> DEFINE all == history \union {i}
  <1>1. IsFiniteSet(all)
    BY IngestionAssumption, FS_Subset DEF IngestionInv, TypeOK
  <1>2. CASE Cardinality(all) <= MaxHistory
    BY <1>2 DEF Remembered
  <1>3. CASE ~(Cardinality(all) <= MaxHistory)
    <2>1. PICK o \in all : h = all \ {o}
      BY <1>3 DEF Remembered
    <2>2. Cardinality(all) \in Nat /\ Cardinality(all) > 1
      BY <1>1, <1>3, FS_CardinalityType, IngestionAssumption
    <2>3. h # {}
      <3> SUFFICES ASSUME h = {} PROVE FALSE
        OBVIOUS
      <3>1. all = {o}
        BY <2>1
      <3>2. Cardinality(all) = 1
        BY <3>1, FS_Singleton
      <3> QED
        BY <2>2, <3>2
    <2> QED
      BY <2>1, <2>3
  <1> QED
    BY <1>2, <1>3

LEMMA WindowsVisible ==
  ASSUME NEW w \in Windows
  PROVE  w \subseteq Visible
  BY DEF Windows, Newest, Eligible

(* A cohort is of one contract.                                            *)
LEMMA CohortOfOneContract ==
  ASSUME NEW w, NEW c \in Cohorts(w), NEW r \in c
  PROVE  c \subseteq w /\ \A s \in c : Contract[s.id] = Contract[r.id]
  BY DEF Cohorts

LEMMA EnsuredCounts ==
  ASSUME IngestionInv, NEW tf \in Timeframes
  PROVE  /\ Ensured(tf) \in [Timeframes -> Counts]
         /\ \A f \in Timeframes, i \in Ids :
              /\ Ensured(tf)[f][i] <= 1
              /\ Ensured(tf)[f][i] > 0 => i \in IdsOf(Visible)
         /\ history = {} => Ensured(tf) = engines
         /\ \A f \in Timeframes : f \notin open \union {tf} => Ensured(tf)[f] = NoTicks
  <1> USE DEF IngestionInv, TypeOK
  <1>1. CASE tf \in open
    BY <1>1 DEF Ensured, DurableBeforePublished, CountedOnce, ClosedEnginesEmpty
  <1>2. CASE tf \notin open
    <2>1. /\ Once(NoTicks, history) \in Counts
          /\ \A i \in Ids : Once(NoTicks, history)[i] = IF i \in history THEN 1 ELSE 0
      BY NoTicksCounts, OnceCounts
    <2>2. Ensured(tf) = [engines EXCEPT ![tf] = Once(NoTicks, history)]
      BY <1>2 DEF Ensured
    <2>3. history = {} => Ensured(tf) = engines
      BY <1>2, <2>2, OnceNothing DEF ClosedEnginesEmpty
    <2> QED
      BY <2>1, <2>2, <2>3, <1>2 DEF DurableBeforePublished, CountedOnce, ClosedEnginesEmpty
  <1> QED
    BY <1>1, <1>2

-----------------------------------------------------------------------------
(* The inductive invariant.                                                *)

LEMMA InitIngestionInv == Init => IngestionInv
  <1> SUFFICES ASSUME Init PROVE IngestionInv
    OBVIOUS
  <1>1. TypeOK
    <2>1. now \in 0..MaxTime /\ boundary \in 0..MaxTime /\ lastEvent \in Nat
      BY IngestionAssumption DEF Init
    <2>2. open \subseteq Timeframes /\ restored \subseteq open
      BY IngestionAssumption DEF Init
    <2>3. profile \in Counts /\ published \in Counts /\ engines \in [Timeframes -> Counts]
      BY NoTicksCounts DEF Init
    <2> QED
      BY <2>1, <2>2, <2>3 DEF Init, TypeOK
  <1>2. Visible = {}
    BY DEF Init, Visible
  <1>3. DurableBeforePublished /\ CountedOnce
    BY <1>2, NoTicksCounts DEF Init, DurableBeforePublished, CountedOnce
  <1>4. /\ OneContract /\ OneRowPerId /\ InFlightUncounted
        /\ EmptyHistoryEmptyEngines /\ ClosedEnginesEmpty
    BY <1>2 DEF Init, OneContract, OneRowPerId, InFlightUncounted,
       EmptyHistoryEmptyEngines, ClosedEnginesEmpty
  <1> QED
    BY <1>1, <1>3, <1>4 DEF IngestionInv

(* Steps that at most block, or move the clock.                            *)
LEMMA LatchStep ==
  ASSUME IngestionInv, Blocked' => inflight = {},
         identityBlocked' \in BOOLEAN, persistenceBlocked' \in BOOLEAN,
         now' \in 0..MaxTime,
         UNCHANGED <<up, disk, boundary, cache, analytics, inflight, published>>
  PROVE  IngestionInv'
  <1> USE DEF disk, cache, analytics, IngestionInv
  <1>1. TypeOK'
    BY DEF TypeOK
  <1>2. InFlightUncounted'
    BY DEF InFlightUncounted, Foreign, Blocked
  <1>3. /\ DurableBeforePublished' /\ CountedOnce' /\ OneContract' /\ OneRowPerId'
        /\ EmptyHistoryEmptyEngines' /\ ClosedEnginesEmpty'
    BY DEF DurableBeforePublished, CountedOnce, OneContract, OneRowPerId,
           EmptyHistoryEmptyEngines, ClosedEnginesEmpty, Visible
  <1> QED
    BY <1>1, <1>2, <1>3

(* A write that reaches the disk, or may.                                  *)
LEMMA WriteStep ==
  ASSUME IngestionInv, NEW t \in Trades, Idle,
         ~Conflicts(t), ~Seen(t),
         table' \in {table, table \union {t}}, limbo' \in {limbo, limbo \union {t}},
         UNCHANGED <<cache, analytics, published, identityBlocked, up, now, boundary>>,
         \/ inflight' = {} /\ persistenceBlocked' = TRUE
         \/ /\ inflight' = {t} /\ UNCHANGED persistenceBlocked
            /\ t \in table' /\ ~Blocked /\ ~Foreign(t),
         storeBlocked' \in BOOLEAN
  PROVE  IngestionInv'
  <1> USE DEF cache, analytics, IngestionInv
  <1>1. Visible \subseteq Visible' /\ Visible' \subseteq Visible \union {t}
    BY DEF Visible
  <1>2. IdsOf(table) \subseteq IdsOf(table') /\ IdsOf(Visible) \subseteq IdsOf(Visible')
    BY <1>1 DEF IdsOf
  <1>3. t.id \in Ids /\ t.id \notin IdsOf(Visible)
    BY DEF Conflicts, Seen, IdsOf, Trades, TypeOK, Visible
  <1>4. TypeOK'
    BY DEF TypeOK, Idle
  <1>5. DurableBeforePublished'
    <2>1. \A i \in Ids : published'[i] > 0 => i \in IdsOf(table')
      BY <1>2 DEF DurableBeforePublished
    <2>2. known' \subseteq Visible' /\ history' \subseteq IdsOf(Visible')
      BY <1>1, <1>2 DEF DurableBeforePublished
    <2>3. /\ \A i \in Ids : profile'[i] > 0 => i \in IdsOf(Visible')
          /\ \A tf \in Timeframes, i \in Ids : engines'[tf][i] > 0 => i \in IdsOf(Visible')
      BY <1>2 DEF DurableBeforePublished
    <2> QED
      BY <2>1, <2>2, <2>3 DEF DurableBeforePublished
  <1>6. OneRowPerId'
    BY <1>1, <1>3 DEF OneRowPerId, IdsOf
  <1>7. InFlightUncounted'
    <2>1. /\ t.id \notin history /\ profile[t.id] = 0
          /\ \A tf \in Timeframes : engines[tf][t.id] = 0
      BY <1>3 DEF DurableBeforePublished, TypeOK, Counts
    <2>2. published[t.id] = 0
      <3>1. t.id \notin IdsOf(table)
        BY <1>3 DEF IdsOf, Visible
      <3> QED
        BY <1>3, <3>1 DEF DurableBeforePublished, TypeOK, Counts
    <2> QED
      BY <2>1, <2>2 DEF InFlightUncounted, Foreign, Blocked
  <1>8. CountedOnce' /\ OneContract' /\ EmptyHistoryEmptyEngines' /\ ClosedEnginesEmpty'
    BY DEF CountedOnce, OneContract, EmptyHistoryEmptyEngines, ClosedEnginesEmpty, Idle
  <1> QED
    BY <1>4, <1>5, <1>6, <1>7, <1>8

(* The trade in flight reaches the context and some of its engines.        *)
LEMMA AcceptStep ==
  ASSUME IngestionInv, NEW t \in inflight, Accept(t),
         NEW done \in SUBSET open, engines' = Handed(done, {t.id}),
         persistenceBlocked' \in BOOLEAN,
         published' \in {published, Once(published, {t.id})}
  PROVE  IngestionInv'
  <1> USE DEF Accept, disk, IngestionInv
  <1>1. /\ inflight = {t} /\ t \in table /\ t.id \in Ids /\ ~Foreign(t)
        /\ t.id \notin history /\ profile[t.id] = 0 /\ published[t.id] = 0
        /\ \A tf \in Timeframes : engines[tf][t.id] = 0
    BY DEF InFlightUncounted, TypeOK, Trades
  <1>2. /\ Visible' = Visible /\ t \in Visible /\ t.id \in IdsOf(Visible)
        /\ t.id \in IdsOf(table)
    BY <1>1 DEF Visible, IdsOf
  <1>3. history' \subseteq history \union {t.id} /\ history' # {}
    BY <1>1, RememberedWithin
  <1>4. known' \subseteq known \union {t}
    BY TrackedWithin
  <1>5. /\ profile' \in Counts
        /\ \A i \in Ids : profile'[i] <= 1 /\ (profile'[i] > 0 => i = t.id \/ profile[i] > 0)
    <2>1. PICK before \in {NoTicks, profile} : profile' = Once(before, {t.id})
      OBVIOUS
    <2>2. /\ before \in Counts /\ before[t.id] = 0
          /\ \A i \in Ids : before[i] <= 1 /\ (before[i] > 0 => profile[i] > 0)
      BY <1>1, <2>1, NoTicksCounts DEF TypeOK, CountedOnce
    <2> HIDE DEF Accept, IngestionInv
    <2> QED
      BY <1>1, <2>1, <2>2, CountUp
  <1>6. /\ published' \in Counts
        /\ \A i \in Ids : published'[i] <= 1 /\ (published'[i] > 0 => i = t.id \/ published[i] > 0)
    <2>1. published \in Counts /\ \A i \in Ids : published[i] <= 1
      BY DEF TypeOK, CountedOnce
    <2> HIDE DEF Accept, IngestionInv
    <2> QED
      BY <1>1, <2>1, CountUp
  <1>7. /\ engines' \in [Timeframes -> Counts]
        /\ \A tf \in Timeframes, i \in Ids :
             engines'[tf][i] <= 1 /\ (engines'[tf][i] > 0 => i = t.id \/ engines[tf][i] > 0)
        /\ \A tf \in Timeframes \ open : engines'[tf] = engines[tf]
    <2>1. engines \in [Timeframes -> Counts] /\ \A tf \in Timeframes, i \in Ids : engines[tf][i] <= 1
      BY DEF TypeOK, CountedOnce
    <2> HIDE DEF Accept, IngestionInv
    <2>2. \A tf \in Timeframes :
            engines'[tf] = IF tf \in done THEN Once(engines[tf], {t.id}) ELSE engines[tf]
      BY DEF Handed
    <2>3. \A tf \in Timeframes :
            /\ Once(engines[tf], {t.id}) \in Counts
            /\ \A i \in Ids : /\ Once(engines[tf], {t.id})[i] <= 1
                              /\ Once(engines[tf], {t.id})[i] > 0 => i = t.id \/ engines[tf][i] > 0
      BY <1>1, <2>1, CountUp
    <2>4. engines' \in [Timeframes -> Counts]
      BY <2>1, <2>3 DEF Handed
    <2> QED
      BY <2>1, <2>2, <2>3, <2>4
  <1>8. TypeOK'
    <2>1. known' \subseteq Trades /\ history' \subseteq Ids /\ inflight' \subseteq Trades
      BY <1>1, <1>3, <1>4 DEF TypeOK
    <2>2. lastEvent' \in Nat
      BY <1>1, IngestionAssumption
    <2> QED
      BY <1>5, <1>6, <1>7, <2>1, <2>2 DEF TypeOK
  <1>9. DurableBeforePublished'
    <2>1. \A i \in Ids : published'[i] > 0 => i \in IdsOf(table')
      BY <1>2, <1>6 DEF DurableBeforePublished
    <2>2. known' \subseteq Visible' /\ history' \subseteq IdsOf(Visible')
      BY <1>2, <1>3, <1>4 DEF DurableBeforePublished
    <2>3. /\ \A i \in Ids : profile'[i] > 0 => i \in IdsOf(Visible')
          /\ \A tf \in Timeframes, i \in Ids : engines'[tf][i] > 0 => i \in IdsOf(Visible')
      BY <1>2, <1>5, <1>7 DEF DurableBeforePublished
    <2> QED
      BY <2>1, <2>2, <2>3 DEF DurableBeforePublished
  <1>10. OneContract'
    BY <1>1, <1>3 DEF OneContract, Foreign
  <1>11. CountedOnce' /\ OneRowPerId' /\ EmptyHistoryEmptyEngines'
    BY <1>2, <1>3, <1>5, <1>6, <1>7 DEF CountedOnce, OneRowPerId, EmptyHistoryEmptyEngines
  <1>12. InFlightUncounted' /\ ClosedEnginesEmpty'
    BY <1>7 DEF InFlightUncounted, ClosedEnginesEmpty
  <1> QED
    BY <1>8, <1>9, <1>10, <1>11, <1>12

(* A context over the same store, with nothing in it.                      *)
LEMMA NewContextStep ==
  ASSUME IngestionInv, NewContext, table' \in {table, Visible}, limbo' \in {limbo, {}},
         table' \union limbo' \subseteq Visible,
         up' \in BOOLEAN, storeBlocked' \in BOOLEAN, boundary' \in 0..MaxTime
  PROVE  IngestionInv'
  <1> USE DEF NewContext
  <1>1. table \subseteq table' /\ Visible' \subseteq Visible
    BY DEF Visible
  <1>2. TypeOK'
    BY IngestionAssumption, NoTicksCounts DEF IngestionInv, TypeOK, Visible
  <1>3. DurableBeforePublished' /\ CountedOnce'
    BY <1>1, NoTicksCounts DEF IngestionInv, DurableBeforePublished, CountedOnce, IdsOf
  <1>4. /\ OneContract' /\ OneRowPerId' /\ InFlightUncounted'
        /\ EmptyHistoryEmptyEngines' /\ ClosedEnginesEmpty'
    BY <1>1 DEF IngestionInv, OneContract, OneRowPerId, InFlightUncounted,
       EmptyHistoryEmptyEngines, ClosedEnginesEmpty
  <1> QED
    BY <1>2, <1>3, <1>4 DEF IngestionInv

LEMMA AttachStep ==
  ASSUME IngestionInv, NEW tf \in Timeframes, Attach(tf)
  PROVE  IngestionInv'
  <1> USE DEF Attach, disk, latches, cache, IngestionInv
  <1>1. Visible' = Visible /\ inflight' = {} /\ history' = history
    BY DEF Visible, Idle
  <1>2. /\ engines' \in [Timeframes -> Counts]
        /\ \A f \in Timeframes, i \in Ids :
             engines'[f][i] <= 1 /\ (engines'[f][i] > 0 => i \in IdsOf(Visible))
        /\ history = {} => engines' = engines
        /\ \A f \in Timeframes \ open' : engines'[f] = NoTicks
    <2> HIDE DEF IngestionInv
    <2> QED
      BY EnsuredCounts
  <1>3. TypeOK'
    BY <1>2 DEF TypeOK
  <1>4. DurableBeforePublished' /\ CountedOnce' /\ EmptyHistoryEmptyEngines'
    BY <1>1, <1>2 DEF DurableBeforePublished, CountedOnce, EmptyHistoryEmptyEngines
  <1>5. OneContract' /\ OneRowPerId' /\ InFlightUncounted' /\ ClosedEnginesEmpty'
    BY <1>1, <1>2 DEF OneContract, OneRowPerId, InFlightUncounted, ClosedEnginesEmpty
  <1> QED
    BY <1>3, <1>4, <1>5

(* With an empty history every engine is empty: what is restored into one  *)
(* is all it has.                                                          *)
LEMMA RestoreStep ==
  ASSUME IngestionInv, NEW tf \in Timeframes, Restore(tf)
  PROVE  IngestionInv'
  <1> DEFINE From(c, r) ==
        /\ history' = IdsOf(c)
        /\ observed' = Contract[r.id]
        /\ known' \in Tracked(c)
        /\ profile' = Once(NoTicks, IdsOf(c))
        /\ engines' = [Ensured(tf) EXCEPT ![tf] = Once(@, IdsOf(c))]
  <1>a. PICK w \in Windows : \E c \in Cohorts(w) : \E r \in c : From(c, r)
    BY DEF Restore
  <1>b. PICK c \in Cohorts(w) : \E r \in c : From(c, r)
    BY <1>a
  <1>1. PICK r \in c : From(c, r)
    BY <1>b
  <1>2. /\ history = {} /\ inflight' = {} /\ open' = open \union {tf} /\ restored' = {tf}
        /\ UNCHANGED <<now, up, disk, boundary, latches, lastEvent, published>>
    BY DEF Restore, MayRestore, Idle
  <1>3. Visible' = Visible /\ table' = table
    BY <1>2 DEF disk, Visible
  <1>4. /\ c \subseteq Visible
        /\ \A s \in c : Contract[s.id] = Contract[r.id]
    BY WindowsVisible, CohortOfOneContract
  <1>5. /\ IdsOf(c) # {} /\ IdsOf(c) \subseteq IdsOf(Visible) /\ IdsOf(Visible) \subseteq Ids
    BY <1>4 DEF IdsOf, IngestionInv, TypeOK, Visible, Trades
  <1>6. /\ Once(NoTicks, IdsOf(c)) \in Counts
        /\ \A i \in Ids : Once(NoTicks, IdsOf(c))[i] = IF i \in IdsOf(c) THEN 1 ELSE 0
    BY NoTicksCounts, OnceCounts
  <1>7. engines' = [f \in Timeframes |-> IF f = tf THEN Once(NoTicks, IdsOf(c)) ELSE NoTicks]
    <2>1. Ensured(tf) = [f \in Timeframes |-> NoTicks]
      BY <1>2, EnsuredCounts DEF IngestionInv, EmptyHistoryEmptyEngines
    <2> QED
      BY <1>1, <2>1
  <1>8. TypeOK'
    <2>1. known' \subseteq Trades
      BY <1>1, <1>4, TrackedWithin DEF IngestionInv, TypeOK, Visible
    <2>2. engines' \in [Timeframes -> Counts] /\ profile' \in Counts
      BY <1>1, <1>6, <1>7, NoTicksCounts
    <2> QED
      BY <1>1, <1>2, <1>5, <2>1, <2>2 DEF IngestionInv, TypeOK, disk, latches
  <1>9. DurableBeforePublished'
    <2>1. known' \subseteq Visible
      BY <1>1, <1>4, TrackedWithin DEF IngestionInv, DurableBeforePublished
    <2>2. /\ \A i \in Ids : profile'[i] > 0 => i \in IdsOf(Visible)
          /\ \A f \in Timeframes, i \in Ids : engines'[f][i] > 0 => i \in IdsOf(Visible)
      BY <1>1, <1>5, <1>6, <1>7, NoTicksCounts
    <2>3. \A i \in Ids : published'[i] > 0 => i \in IdsOf(table')
      BY <1>2, <1>3 DEF IngestionInv, DurableBeforePublished
    <2> QED
      BY <1>1, <1>3, <1>5, <2>1, <2>2, <2>3 DEF DurableBeforePublished
  <1>10. CountedOnce'
    BY <1>1, <1>2, <1>6, <1>7, NoTicksCounts DEF IngestionInv, CountedOnce
  <1>11. OneContract'
    BY <1>1, <1>4 DEF OneContract, IdsOf
  <1>12. OneRowPerId' /\ InFlightUncounted' /\ EmptyHistoryEmptyEngines'
    BY <1>1, <1>2, <1>3, <1>5
       DEF IngestionInv, OneRowPerId, InFlightUncounted, EmptyHistoryEmptyEngines
  <1>13. ClosedEnginesEmpty'
    BY <1>2, <1>7 DEF ClosedEnginesEmpty
  <1> QED
    BY <1>8, <1>9, <1>10, <1>11, <1>12, <1>13 DEF IngestionInv

LEMMA RestoreFailsStep ==
  ASSUME IngestionInv, NEW tf \in Timeframes, RestoreFails(tf)
  PROVE  IngestionInv'
  <1>1. PICK part \in SUBSET (IF MayRestore THEN Eligible ELSE {}) : known' \in Tracked(part)
    BY DEF RestoreFails
  <1>2. /\ history' = {} /\ inflight' = {} /\ profile' = NoTicks /\ open' = {tf}
        /\ engines' = [f \in Timeframes |-> NoTicks] /\ restored' = {}
        /\ persistenceBlocked' = TRUE
        /\ UNCHANGED <<now, up, disk, boundary, identityBlocked, lastEvent, published>>
    BY DEF RestoreFails, Idle
  <1>3. Visible' = Visible /\ table' = table
    BY <1>2 DEF disk, Visible
  <1>4. known' \subseteq Visible /\ Visible \subseteq Trades
    <2>1. part \subseteq Visible
      BY DEF Eligible
    <2> QED
      BY <1>1, <2>1, TrackedWithin
         DEF IngestionInv, TypeOK, Visible, DurableBeforePublished
  <1>5. TypeOK'
    BY <1>2, <1>4, NoTicksCounts DEF IngestionInv, TypeOK, disk
  <1>6. DurableBeforePublished' /\ CountedOnce'
    BY <1>2, <1>3, <1>4, NoTicksCounts DEF IngestionInv, DurableBeforePublished, CountedOnce
  <1>7. /\ OneContract' /\ OneRowPerId' /\ InFlightUncounted'
        /\ EmptyHistoryEmptyEngines' /\ ClosedEnginesEmpty'
    BY <1>2, <1>3 DEF IngestionInv, OneContract, OneRowPerId, InFlightUncounted,
       EmptyHistoryEmptyEngines, ClosedEnginesEmpty
  <1> QED
    BY <1>5, <1>6, <1>7 DEF IngestionInv

LEMMA IngestionInvInductive == IngestionInv /\ [Next]_vars => IngestionInv'
  <1> SUFFICES ASSUME IngestionInv, [Next]_vars PROVE IngestionInv'
    OBVIOUS
  <1>1. CASE MalformedTrade
    BY <1>1, LatchStep DEF MalformedTrade, Listening, Idle, IngestionInv, TypeOK
  <1>2. ASSUME NEW t \in Trades, RefuseTrade(t)
        PROVE  IngestionInv'
    BY <1>2, LatchStep DEF RefuseTrade, Listening, Idle, IngestionInv, TypeOK
  <1>3. ASSUME NEW t \in Trades, SaveFails(t)
        PROVE  IngestionInv'
    BY <1>3, LatchStep DEF SaveFails, Listening, Idle, IngestionInv, TypeOK
  <1>4. CASE Tick
    <2>1. now' \in 0..MaxTime
      BY <1>4, IngestionAssumption DEF Tick, IngestionInv, TypeOK
    <2>2. Blocked' => inflight = {}
      BY <1>4 DEF Tick, latches, Blocked, IngestionInv, InFlightUncounted
    <2> QED
      BY <1>4, <2>1, <2>2, LatchStep DEF Tick, latches, IngestionInv, TypeOK
  <1>5. CASE UNCHANGED vars
    <2>1. Blocked' => inflight = {}
      BY <1>5 DEF vars, latches, Blocked, IngestionInv, InFlightUncounted
    <2> QED
      BY <1>5, <2>1, LatchStep DEF vars, latches, IngestionInv, TypeOK
  <1>6. ASSUME NEW t \in Trades, Commit(t)
        PROVE  IngestionInv'
    BY <1>6, WriteStep DEF Commit, Listening, latches, Blocked, IngestionInv, TypeOK
  <1>7. ASSUME NEW t \in Trades, OutcomeUnknown(t)
        PROVE  IngestionInv'
    BY <1>7, WriteStep DEF OutcomeUnknown, Listening, Idle
  <1>8. ASSUME NEW t \in Trades, Publish(t)
        PROVE  IngestionInv'
    <2>1. open \in SUBSET open /\ persistenceBlocked' \in BOOLEAN
      BY <1>8 DEF Publish, IngestionInv, TypeOK
    <2> QED
      BY <1>8, <2>1, AcceptStep DEF Publish
  <1>9. ASSUME NEW t \in Trades, BarWriteFails(t)
        PROVE  IngestionInv'
    <2>1. PICK done \in SUBSET open : engines' = Handed(done, {t.id})
      BY <1>9 DEF BarWriteFails
    <2> QED
      BY <1>9, <2>1, AcceptStep DEF BarWriteFails
  <1>10. ASSUME NEW tf \in Timeframes, Attach(tf) \/ Restore(tf) \/ RestoreFails(tf)
         PROVE  IngestionInv'
    BY <1>10, AttachStep, RestoreStep, RestoreFailsStep
  <1>11. CASE Recreate
    <2>1. /\ table' = table /\ limbo' = limbo /\ up' = up /\ storeBlocked' = storeBlocked
          /\ boundary' = now
      BY <1>11 DEF Recreate, disk
    <2> QED
      BY <1>11, <2>1, NewContextStep DEF Recreate, Visible, IngestionInv, TypeOK
  <1>12. CASE Crash
    BY <1>12, NewContextStep DEF Crash, Visible, IngestionInv, TypeOK
  <1>13. CASE Boot
    <2>1. TypeOK'
      BY <1>13 DEF Boot, disk, latches, cache, analytics, IngestionInv, TypeOK
    <2>2. /\ DurableBeforePublished' /\ CountedOnce' /\ OneContract' /\ OneRowPerId'
          /\ InFlightUncounted' /\ EmptyHistoryEmptyEngines' /\ ClosedEnginesEmpty'
      BY <1>13 DEF Boot, disk, latches, cache, analytics, IngestionInv, Visible, Blocked,
         DurableBeforePublished, CountedOnce, OneContract, OneRowPerId, InFlightUncounted,
         Foreign, EmptyHistoryEmptyEngines, ClosedEnginesEmpty
    <2> QED
      BY <2>1, <2>2 DEF IngestionInv
  <1> QED
    BY <1>1, <1>2, <1>3, <1>4, <1>5, <1>6, <1>7, <1>8, <1>9, <1>10, <1>11, <1>12, <1>13
       DEF Next

-----------------------------------------------------------------------------
(* What was restored stays complete.                                       *)

(* Beside IngestionInv: something is remembered of what was restored, so   *)
(* that no trade of a contract replaces an unknown one; and only the trade *)
(* in flight may be missing.                                               *)
RestoredInv ==
  /\ ~up => restored = {}
  /\ restored # {} => history # {}
  /\ ~persistenceBlocked /\ Cardinality(Visible) <= RestoreLimit =>
       \A tf \in restored, r \in table \ inflight :
         When[r.id] < boundary /\ Contract[r.id] = observed => engines[tf][r.id] > 0

(* One row for each identity: there are finitely many.                     *)
LEMMA FiniteRows ==
  ASSUME NEW V \in SUBSET Trades, \A r, s \in V : r.id = s.id => r = s
  PROVE  IsFiniteSet(V)
  <1> DEFINE f == [r \in V |-> r.id]
  <1>1. f \in [V -> Ids]
    BY DEF Trades
  <1>2. \A r, s \in V : f[r] = f[s] => r = s
    OBVIOUS
  <1> HIDE DEF f
  <1>3. f \in Injection(V, Ids)
    BY <1>1, <1>2 DEF Injection, IsInjective
  <1> QED
    BY <1>3, IngestionAssumption, FS_Injection

(* A window that may hold every row holds every row there is.              *)
LEMMA WholeWindow ==
  ASSUME TypeOK, OneRowPerId, Cardinality(Visible) <= RestoreLimit, NEW w \in Windows
  PROVE  w = Eligible
  <1>1. Eligible \in SUBSET Visible /\ w \in SUBSET Eligible
    BY DEF Eligible, Windows, Newest
  <1>2. IsFiniteSet(Visible)
    BY FiniteRows DEF TypeOK, OneRowPerId, Visible
  <1>3. IsFiniteSet(Eligible) /\ Cardinality(Eligible) <= Cardinality(Visible)
    BY <1>1, <1>2, FS_Subset
  <1>4. Cardinality(Eligible) \in Nat /\ Cardinality(Visible) \in Nat
    BY <1>2, <1>3, FS_CardinalityType
  <1>5. Cardinality(w) = Smaller(RestoreLimit, Cardinality(Eligible))
    BY DEF Windows, Newest
  <1>6. Cardinality(w) = Cardinality(Eligible)
    BY <1>3, <1>4, <1>5, IngestionAssumption DEF Smaller
  <1> QED
    BY <1>1, <1>3, <1>6, FS_Subset

(* Whoever is not over the limit was not over it before.                   *)
LEMMA LimitKept ==
  ASSUME TypeOK', OneRowPerId', Visible \subseteq Visible',
         Cardinality(Visible') <= RestoreLimit
  PROVE  Cardinality(Visible) <= RestoreLimit
  <1>1. IsFiniteSet(Visible')
    <2>1. Visible' \subseteq Trades
      BY DEF TypeOK, Visible, Trades
    <2> QED
      BY <2>1, FiniteRows DEF OneRowPerId
  <1>2. IsFiniteSet(Visible) /\ Cardinality(Visible) <= Cardinality(Visible')
    BY <1>1, FS_Subset
  <1>3. Cardinality(Visible) \in Nat /\ Cardinality(Visible') \in Nat
    BY <1>1, <1>2, FS_CardinalityType
  <1> QED
    BY <1>2, <1>3, IngestionAssumption

(* A cohort of the whole store has all there is of its contract.           *)
LEMMA CohortIsWhole ==
  ASSUME NEW w, NEW c \in Cohorts(w), NEW r \in c, NEW s \in w,
         Contract[s.id] = Contract[r.id]
  PROVE  s \in c
  BY DEF Cohorts

(* A step that leaves the context and what was restored as they are.       *)
LEMMA RestoredUntouched ==
  ASSUME IngestionInv, IngestionInv', RestoredInv,
         UNCHANGED <<up, boundary, cache, analytics>>,
         table' \ inflight' \subseteq table \ inflight \/ persistenceBlocked',
         persistenceBlocked => persistenceBlocked', Visible \subseteq Visible'
  PROVE  RestoredInv'
  <1>1. Cardinality(Visible') <= RestoreLimit => Cardinality(Visible) <= RestoreLimit
    BY LimitKept DEF IngestionInv
  <1> QED
    BY <1>1 DEF RestoredInv, cache, analytics

(* The trade in flight is handed to every engine that is open, also to the *)
(* one the window was restored into.                                       *)
LEMMA RestoredPublish ==
  ASSUME IngestionInv, RestoredInv, NEW t \in inflight, Publish(t)
  PROVE  RestoredInv'
  <1>1. /\ inflight = {t} /\ t \in table /\ t.id \in Ids /\ ~Foreign(t)
        /\ restored \subseteq open /\ open \subseteq Timeframes
        /\ engines \in [Timeframes -> Counts] /\ table \subseteq Trades
    BY DEF IngestionInv, InFlightUncounted, TypeOK, Trades
  <1>2. /\ history' \in Remembered(t.id) /\ up' = up /\ up /\ boundary' = boundary
        /\ restored' = restored /\ inflight' = {} /\ table' = table /\ limbo' = limbo
        /\ persistenceBlocked' = persistenceBlocked
        /\ observed' = IF observed = NoContract THEN Contract[t.id] ELSE observed
        /\ engines' = Handed(open, {t.id})
    BY DEF Publish, Accept, disk
  <1>3. history' # {}
    BY <1>1, <1>2, RememberedWithin
  <1>4. restored # {} => observed' = observed
    <2> SUFFICES ASSUME restored # {}, observed = NoContract, Contract[t.id] # NoContract
                 PROVE  FALSE
      BY <1>2
    <2>1. PICK i \in history : Contract[i] = NoContract
      BY DEF RestoredInv, IngestionInv, OneContract
    <2> QED
      BY <1>1, <2>1 DEF Foreign
  <1>5. ASSUME NEW tf \in restored, NEW r \in table
        PROVE  /\ engines[tf][r.id] > 0 => engines'[tf][r.id] > 0
               /\ r = t => engines'[tf][r.id] > 0
    <2>1. tf \in open /\ tf \in Timeframes /\ engines[tf] \in Counts /\ r.id \in Ids
      BY <1>1, <1>5 DEF Trades
    <2>2. engines'[tf] = Once(engines[tf], {t.id}) /\ engines[tf][r.id] \in Nat
      BY <1>2, <2>1 DEF Handed, Counts
    <2>3. engines'[tf][r.id] = IF r.id \in {t.id} THEN engines[tf][r.id] + 1
                               ELSE engines[tf][r.id]
      BY <2>1, <2>2, OnceCounts
    <2> QED
      BY <2>2, <2>3
  <1>6. Visible' = Visible
    BY <1>2 DEF Visible
  <1>7. ASSUME ~persistenceBlocked', Cardinality(Visible') <= RestoreLimit,
               NEW tf \in restored', NEW r \in table' \ inflight',
               When[r.id] < boundary', Contract[r.id] = observed'
        PROVE  engines'[tf][r.id] > 0
    <2>1. r \in table /\ tf \in restored
      BY <1>2, <1>7
    <2>2. CASE r = t
      BY <1>5, <2>1, <2>2
    <2>3. CASE r # t
      <3>1. r \in table \ inflight
        BY <1>1, <2>1, <2>3
      <3>2. engines[tf][r.id] > 0
        BY <1>2, <1>4, <1>6, <1>7, <2>1, <3>1 DEF RestoredInv
      <3> QED
        BY <1>5, <2>1, <3>2
    <2> QED
      BY <2>2, <2>3
  <1> QED
    BY <1>2, <1>3, <1>7 DEF RestoredInv

(* A browser attaches: another engine, or the same one.                    *)
LEMMA RestoredAttach ==
  ASSUME IngestionInv, RestoredInv, NEW tf \in Timeframes, Attach(tf)
  PROVE  RestoredInv'
  <1>1. /\ up' = up /\ restored' = restored /\ history' = history /\ boundary' = boundary
        /\ table' = table /\ limbo' = limbo /\ inflight' = inflight /\ observed' = observed
        /\ persistenceBlocked' = persistenceBlocked /\ engines' = Ensured(tf)
    BY DEF Attach, disk, cache, latches
  <1>2. /\ restored \subseteq open /\ open \subseteq Timeframes
        /\ engines \in [Timeframes -> Counts]
    BY DEF IngestionInv, TypeOK
  <1>3. \A f \in restored : engines'[f] = engines[f]
    BY <1>1, <1>2 DEF Ensured
  <1>4. Visible' = Visible
    BY <1>1 DEF Visible
  <1> QED
    BY <1>1, <1>3, <1>4 DEF RestoredInv

(* The restoration itself: the window is the whole store, and the cohort   *)
(* all of the contract.                                                    *)
LEMMA RestoredRestore ==
  ASSUME IngestionInv, NEW tf \in Timeframes, Restore(tf)
  PROVE  RestoredInv'
  <1> DEFINE From(c, r) ==
        /\ history' = IdsOf(c)
        /\ observed' = Contract[r.id]
        /\ engines' = [Ensured(tf) EXCEPT ![tf] = Once(@, IdsOf(c))]
  <1>a. PICK w \in Windows : \E c \in Cohorts(w) : \E r \in c : From(c, r)
    BY DEF Restore
  <1>b. PICK c \in Cohorts(w) : \E r \in c : From(c, r)
    BY <1>a
  <1>1. PICK r \in c : From(c, r)
    BY <1>b
  <1>2. /\ up' = up /\ up /\ history = {} /\ restored' = {tf} /\ boundary' = boundary
        /\ table' = table /\ limbo' = limbo
    BY DEF Restore, MayRestore, Idle, disk
  <1>3. history' # {}
    BY <1>1 DEF IdsOf
  <1>4. ASSUME Cardinality(Visible') <= RestoreLimit, NEW s \in table',
               When[s.id] < boundary', Contract[s.id] = observed'
        PROVE  engines'[tf][s.id] > 0
    <2>1. Visible' = Visible /\ s \in Visible /\ s.id \in Ids
      BY <1>2, <1>4 DEF Visible, IngestionInv, TypeOK, Trades
    <2>2. w = Eligible
      BY <1>4, <2>1, WholeWindow DEF IngestionInv
    <2>3. s \in w
      BY <1>2, <1>4, <2>1, <2>2 DEF Eligible
    <2>4. s \in c
      BY <1>1, <1>4, <2>3, CohortIsWhole
    <2>5. s.id \in IdsOf(c)
      BY <2>4 DEF IdsOf
    <2>6. /\ Ensured(tf) \in [Timeframes -> Counts]
          /\ engines'[tf] = Once(Ensured(tf)[tf], IdsOf(c))
      BY <1>1, EnsuredCounts
    <2>7. /\ Ensured(tf)[tf] \in Counts
          /\ Ensured(tf)[tf][s.id] \in Nat
      BY <2>1, <2>6 DEF Counts
    <2>8. engines'[tf][s.id] = Ensured(tf)[tf][s.id] + 1
      BY <2>1, <2>5, <2>6, <2>7, OnceCounts
    <2> QED
      BY <2>7, <2>8
  <1> QED
    BY <1>2, <1>3, <1>4 DEF RestoredInv

LEMMA RestoredInvInductive ==
  IngestionInv /\ IngestionInv' /\ RestoredInv /\ [Next]_vars => RestoredInv'
  <1> SUFFICES ASSUME IngestionInv, IngestionInv', RestoredInv, [Next]_vars
               PROVE  RestoredInv'
    OBVIOUS
  <1>1. CASE MalformedTrade \/ \E t \in Trades : RefuseTrade(t)
    <2>1. /\ UNCHANGED <<up, boundary, cache, analytics>>
          /\ persistenceBlocked' = persistenceBlocked
          /\ table' = table /\ inflight' = inflight /\ limbo' = limbo
      BY <1>1 DEF MalformedTrade, RefuseTrade, disk
    <2> QED
      BY <2>1, RestoredUntouched DEF Visible
  <1>2. CASE \E t \in Trades : SaveFails(t) \/ OutcomeUnknown(t)
    <2>1. /\ UNCHANGED <<up, boundary, cache, analytics>>
          /\ persistenceBlocked' /\ Visible \subseteq Visible'
      BY <1>2 DEF SaveFails, OutcomeUnknown, disk, Visible
    <2> QED
      BY <2>1, RestoredUntouched
  <1>3. ASSUME NEW t \in Trades, Commit(t)
        PROVE  RestoredInv'
    <2>1. /\ UNCHANGED <<up, boundary, cache, analytics>>
          /\ persistenceBlocked' = persistenceBlocked
          /\ table' = table \union {t} /\ inflight' = {t} /\ limbo' = limbo /\ inflight = {}
      BY <1>3 DEF Commit, latches, Listening, Idle
    <2>2. table' \ inflight' \subseteq table \ inflight /\ Visible \subseteq Visible'
      BY <2>1 DEF Visible
    <2> QED
      BY <2>1, <2>2, RestoredUntouched
  <1>4. ASSUME NEW t \in Trades, Publish(t)
        PROVE  RestoredInv'
    BY <1>4, RestoredPublish DEF Publish
  <1>5. ASSUME NEW t \in Trades, BarWriteFails(t)
        PROVE  RestoredInv'
    <2>1. /\ up' = up /\ up /\ persistenceBlocked' /\ t \in inflight /\ t.id \in Ids
          /\ history' \in Remembered(t.id)
      BY <1>5 DEF BarWriteFails, Accept, Trades
    <2>2. history' # {}
      BY <2>1, RememberedWithin
    <2> QED
      BY <2>1, <2>2 DEF RestoredInv
  <1>6. ASSUME NEW tf \in Timeframes, Attach(tf)
        PROVE  RestoredInv'
    BY <1>6, RestoredAttach
  <1>7. ASSUME NEW tf \in Timeframes, Restore(tf)
        PROVE  RestoredInv'
    BY <1>7, RestoredRestore
  <1>8. CASE \/ \E tf \in Timeframes : RestoreFails(tf)
             \/ Recreate \/ Crash
    <2>1. restored' = {}
      BY <1>8 DEF RestoreFails, Recreate, Crash, NewContext
    <2> QED
      BY <2>1 DEF RestoredInv
  <1>9. CASE Boot
    <2>1. restored' = restored /\ ~up
      BY <1>9 DEF Boot, analytics
    <2>2. restored' = {}
      BY <2>1 DEF RestoredInv
    <2> QED
      BY <2>2 DEF RestoredInv
  <1>10. CASE Tick \/ UNCHANGED vars
    <2>1. /\ UNCHANGED <<up, boundary, cache, analytics>>
          /\ persistenceBlocked' = persistenceBlocked
          /\ table' = table /\ inflight' = inflight /\ limbo' = limbo
      BY <1>10 DEF Tick, vars, disk, latches, cache, analytics
    <2> QED
      BY <2>1, RestoredUntouched DEF Visible
  <1> QED
    BY <1>1, <1>2, <1>3, <1>4, <1>5, <1>6, <1>7, <1>8, <1>9, <1>10 DEF Next

-----------------------------------------------------------------------------
(* What the store, the engines and the subscribers hold always agrees:     *)
(* durable before published, counted once, one row per identity, one       *)
(* contract per context.                                                   *)
THEOREM IngestionInvariant == Spec => []IngestionInv
  BY InitIngestionInv, IngestionInvInductive, PTL DEF Spec

(* Nothing is published or cached that the store could not show.           *)
THEOREM DurableBeforePublishedTheorem == Spec => []DurableBeforePublished
  BY IngestionInvariant, PTL DEF IngestionInv

(* A trade is fanned out at most once ever, and counted at most once by    *)
(* each engine of a context.                                               *)
THEOREM CountedOnceTheorem == Spec => []CountedOnce
  BY IngestionInvariant, PTL DEF IngestionInv

(* Once a window was restored into an engine, that engine has every row of *)
(* the context's contract from before the context, and keeps up.           *)
THEOREM RestoredIsCompleteTheorem == Spec => []RestoredIsComplete
  <1>1. Init => RestoredInv
    BY DEF Init, RestoredInv
  <1>2. IngestionInv /\ RestoredInv => RestoredIsComplete
    <2> SUFFICES ASSUME IngestionInv, RestoredInv, Idle, ~persistenceBlocked,
                        Cardinality(Visible) <= RestoreLimit,
                        NEW tf \in restored, NEW r \in table,
                        When[r.id] < boundary, Contract[r.id] = observed
                 PROVE  engines[tf][r.id] = 1
      BY DEF RestoredIsComplete
    <2>1. engines[tf][r.id] > 0
      BY DEF RestoredInv, Idle
    <2>2. tf \in Timeframes /\ r.id \in Ids /\ engines[tf][r.id] \in Nat
      BY DEF IngestionInv, TypeOK, Trades, Counts
    <2>3. engines[tf][r.id] <= 1
      BY <2>2 DEF IngestionInv, CountedOnce
    <2> QED
      BY <2>1, <2>2, <2>3
  <1> QED
    BY <1>1, <1>2, IngestionInvariant, RestoredInvInductive, PTL DEF Spec

(* No context ever mixes two contracts.                                    *)
THEOREM OneContractTheorem == Spec => []OneContract
  BY IngestionInvariant, PTL DEF IngestionInv

(* After a block nothing is published or written.                          *)
THEOREM BlockedIsFinalTheorem == Spec => BlockedIsFinal
  <1>1. IngestionInv /\ [Next]_vars => [BlockedStep]_vars
    <2> SUFFICES ASSUME IngestionInv, Next PROVE BlockedStep
      BY DEF vars
    <2>1. Blocked => published' = published
      <3>1. ASSUME NEW t \in Trades, Publish(t)
            PROVE  ~Blocked
        BY <3>1 DEF Publish, IngestionInv, InFlightUncounted
      <3> QED
        BY <3>1 DEF Next, MalformedTrade, RefuseTrade, Commit, SaveFails, OutcomeUnknown,
           BarWriteFails, Attach, Restore, RestoreFails, Recreate, NewContext, Crash, Boot, Tick
    <2>2. (Blocked \/ storeBlocked) /\ up' => table' = table
      BY DEF Next, MalformedTrade, RefuseTrade, Commit, SaveFails, OutcomeUnknown, Publish,
         Accept, BarWriteFails, Attach, Restore, RestoreFails, Recreate, Crash, Boot, Tick,
         disk, Listening, Blocked
    <2> QED
      BY <2>1, <2>2 DEF BlockedStep
  <1> QED
    BY <1>1, IngestionInvariant, PTL DEF Spec, BlockedIsFinal

(* No crash, conflict or duplicate removes or rewrites a committed row.    *)
THEOREM RowsArePermanentTheorem == Spec => RowsArePermanent
  <1>1. [Next]_vars => [RowsKept]_vars
    <2> SUFFICES ASSUME Next PROVE RowsKept
      BY DEF vars
    <2> QED
      BY DEF Next, MalformedTrade, RefuseTrade, Commit, SaveFails, OutcomeUnknown, Publish,
         Accept, BarWriteFails, Attach, Restore, RestoreFails, Recreate, Crash, Boot, Tick,
         disk, RowsKept, Visible
  <1> QED
    BY <1>1, PTL DEF Spec, RowsArePermanent

-----------------------------------------------------------------------------
(* Calendar: the sessions.                                                   *)

CalendarInv == zone \in {"central", "eastern"} /\ day \in Nat /\ minute \in 0..1439

(* The hours of an exchange: the halt is an hour, between the end of the regular hours and the day's end. *)
LEMMA HoursAre ==
  ASSUME NEW z \in {"central", "eastern"}
  PROVE  /\ Hours[z].halt \in Nat /\ Hours[z].open = Hours[z].halt + 60
         /\ 0 < Hours[z].halt /\ Hours[z].open < 1440
<1>1. At(1600) = 960 /\ At(1700) = 1020 /\ At(1800) = 1080
  BY DEF At
<1> QED BY <1>1 DEF Hours

LEMMA WeekdayIs ==
  ASSUME NEW d \in Nat
  PROVE  \/ Weekday(d) = "Sun" /\ Weekday(d + 1) = "Mon"
         \/ Weekday(d) = "Mon" /\ Weekday(d + 1) = "Tue"
         \/ Weekday(d) = "Tue" /\ Weekday(d + 1) = "Wed"
         \/ Weekday(d) = "Wed" /\ Weekday(d + 1) = "Thu"
         \/ Weekday(d) = "Thu" /\ Weekday(d + 1) = "Fri"
         \/ Weekday(d) = "Fri" /\ Weekday(d + 1) = "Sat"
         \/ Weekday(d) = "Sat" /\ Weekday(d + 1) = "Sun"
<1>1. d % 7 \in 0..6 /\ (d + 1) % 7 = IF d % 7 = 6 THEN 0 ELSE (d % 7) + 1
  OBVIOUS
<1>2. PICK r \in 0..6 : r = d % 7 /\ (d + 1) % 7 = IF r = 6 THEN 0 ELSE r + 1
  BY <1>1
<1>3. Weekday(d) = Days[r + 1] /\ Weekday(d + 1) = Days[IF r = 6 THEN 1 ELSE r + 2]
  BY <1>2 DEF Weekday
<1>4. Days[1] = "Sun" /\ Days[2] = "Mon" /\ Days[3] = "Tue" /\ Days[4] = "Wed" /\ Days[5] = "Thu"
      /\ Days[6] = "Fri" /\ Days[7] = "Sat"
  BY DEF Days
<1>5. r = 0 \/ r = 1 \/ r = 2 \/ r = 3 \/ r = 4 \/ r = 5 \/ r = 6
  OBVIOUS
<1> QED BY <1>3, <1>4, <1>5

(* What a step of the clock may do. *)
OneStretch ==
  LET was == isOpen(zone, day, minute)
      is  == isOpen(zone, day', minute')
      new == isNewSession(zone, day, minute, day', minute')
  IN  /\ was /\ is => ~new /\ sessionStart(zone, day', minute') = sessionStart(zone, day, minute)
      /\ is => /\ sessionStart(zone, day', minute') <= day' * 1440 + minute'
               /\ day' * 1440 + minute' < sessionEnd(zone, day', minute')
               /\ Weekday(sessionDate(zone, day', minute')) \notin {"Sat", "Sun"}
      /\ ~was /\ is => new

(* Before the halt, in it, and after it. *)
Halt(z) == Hours[z].halt

LEMMA SessionIs ==
  ASSUME NEW z \in {"central", "eastern"}, NEW d \in Nat, NEW m \in Nat
  PROVE  /\ m < Halt(z) =>
              /\ isOpen(z, d, m) <=> Weekday(d) \notin {"Sat", "Sun"}
              /\ sessionDate(z, d, m) = d
              /\ sessionStart(z, d, m) = (d - 1) * 1440 + (Halt(z) + 60)
         /\ m >= Halt(z) /\ m < Halt(z) + 60 => ~isOpen(z, d, m) /\ sessionDate(z, d, m) = d
         /\ m >= Halt(z) + 60 =>
              /\ isOpen(z, d, m) <=> Weekday(d) \notin {"Fri", "Sat"}
              /\ sessionDate(z, d, m) = d + 1
              /\ sessionStart(z, d, m) = d * 1440 + (Halt(z) + 60)
<1>0. PICK h \in Nat : h = Halt(z)
  BY HoursAre DEF Halt
<1>1. Hours[z].open = h + 60
  BY <1>0, HoursAre DEF Halt
<1>2. /\ sessionDate(z, d, m) = IF m >= h + 60 THEN d + 1 ELSE d
      /\ sessionStart(z, d, m) = IF m >= h + 60 THEN d * 1440 + (h + 60) ELSE (d - 1) * 1440 + (h + 60)
  BY <1>1 DEF sessionDate, sessionStart, rolloverHour
<1>3. isOpen(z, d, m) <=> \/ Weekday(d) = "Sun" /\ m >= h + 60
                          \/ Weekday(d) = "Fri" /\ m < h
                          \/ Weekday(d) \notin {"Sun", "Fri", "Sat"} /\ (m < h \/ m >= h + 60)
  BY <1>0, <1>1 DEF isOpen, Halt
<1>4. CASE m < h
  <2>1. ~(m >= h + 60)
    BY <1>4
  <2> QED BY <1>0, <1>2, <1>3, <1>4, <2>1
<1>5. CASE m >= h /\ m < h + 60
  <2>1. ~(m >= h + 60) /\ ~(m < h)
    BY <1>5
  <2> QED BY <1>0, <1>2, <1>3, <1>5, <2>1
<1>6. CASE m >= h + 60
  <2>1. ~(m < h) /\ ~(m < h + 60)
    BY <1>6
  <2> QED BY <1>0, <1>2, <1>3, <1>6, <2>1
<1> QED BY <1>0, <1>4, <1>5, <1>6

(* An open instant is between the start and the end of a weekday's session. *)
LEMMA OpenIsInSession ==
  ASSUME NEW z \in {"central", "eastern"}, NEW d \in Nat, NEW m \in Nat, m < 1440, isOpen(z, d, m)
  PROVE  /\ sessionStart(z, d, m) <= d * 1440 + m
         /\ d * 1440 + m < sessionEnd(z, d, m)
         /\ Weekday(sessionDate(z, d, m)) \notin {"Sat", "Sun"}
<1>1. PICK h \in Nat : h = Halt(z) /\ 0 < h /\ h + 60 < 1440
  BY HoursAre DEF Halt
<1>2. PICK a, b : a = sessionStart(z, d, m) /\ b = sessionEnd(z, d, m)
  OBVIOUS
<1>3. b = a + 1380
  BY <1>2 DEF sessionEnd
<1>4. CASE m < h
  <2>1. /\ a = (d - 1) * 1440 + (h + 60) /\ sessionDate(z, d, m) = d
        /\ Weekday(d) \notin {"Sat", "Sun"}
    BY <1>1, <1>2, <1>4, SessionIs
  <2>2. a <= d * 1440 + m /\ d * 1440 + m < a + 1380
    BY <1>1, <1>4, <2>1
  <2> QED BY <1>2, <1>3, <2>1, <2>2
<1>5. CASE m >= h + 60
  <2>1. /\ a = d * 1440 + (h + 60) /\ sessionDate(z, d, m) = d + 1
        /\ Weekday(d) \notin {"Fri", "Sat"}
    BY <1>1, <1>2, <1>5, SessionIs
  <2>2. a <= d * 1440 + m /\ d * 1440 + m < a + 1380
    BY <1>1, <1>5, <2>1
  <2>3. Weekday(d + 1) \notin {"Sat", "Sun"}
    BY <2>1, WeekdayIs
  <2> QED BY <1>2, <1>3, <2>1, <2>2, <2>3
<1>6. ~(m >= h /\ m < h + 60)
  BY <1>1, SessionIs
<1> QED BY <1>1, <1>4, <1>5, <1>6

(* Two instants no further apart than the halt is long are of one session if the market is open at *)
(* both, and of two if it has opened in between.                                                   *)
Apart(z, d, m, e, n) ==
  /\ isOpen(z, d, m) /\ isOpen(z, e, n) => /\ sessionDate(z, e, n) = sessionDate(z, d, m)
                                           /\ sessionStart(z, e, n) = sessionStart(z, d, m)
  /\ ~isOpen(z, d, m) /\ isOpen(z, e, n) => sessionDate(z, e, n) # sessionDate(z, d, m)

LEMMA SameDay ==
  ASSUME NEW z \in {"central", "eastern"}, NEW d \in Nat, NEW m \in Nat, NEW n \in Nat, m < n, n <= m + 60
  PROVE  Apart(z, d, m, d, n)
<1>1. PICK h \in Nat : h = Halt(z)
  BY HoursAre DEF Halt
<1>2. CASE n < h
  <2>1. m < h
    BY <1>2
  <2> QED BY <1>1, <1>2, <2>1, SessionIs DEF Apart
<1>3. CASE n >= h /\ n < h + 60
  <2>1. ~isOpen(z, d, n)
    BY <1>1, <1>3, SessionIs
  <2> QED BY <2>1 DEF Apart
<1>4. CASE n >= h + 60
  <2>1. CASE m >= h + 60
    BY <1>1, <1>4, <2>1, SessionIs DEF Apart
  <2>2. CASE m < h + 60
    <3>1. m >= h
      BY <1>4
    <3>2. ~isOpen(z, d, m) /\ sessionDate(z, d, m) = d
      BY <1>1, <2>2, <3>1, SessionIs
    <3>3. sessionDate(z, d, n) = d + 1
      BY <1>1, <1>4, SessionIs
    <3> QED BY <3>2, <3>3 DEF Apart
  <2> QED BY <2>1, <2>2
<1> QED BY <1>2, <1>3, <1>4

LEMMA NextDay ==
  ASSUME NEW z \in {"central", "eastern"}, NEW d \in Nat, NEW m \in Nat, m < 1440, m + 60 >= 1440
  PROVE  Apart(z, d, m, d + 1, 0)
<1>1. PICK h \in Nat : h = Halt(z) /\ 0 < h /\ h + 60 < 1440
  BY HoursAre DEF Halt
<1>2. PICK e \in Nat : e = d + 1
  OBVIOUS
<1>3. /\ isOpen(z, e, 0) <=> Weekday(e) \notin {"Sat", "Sun"}
      /\ sessionDate(z, e, 0) = e /\ sessionStart(z, e, 0) = (e - 1) * 1440 + (h + 60)
  BY <1>1, SessionIs
<1>4. CASE m >= h + 60
  <2>0. m >= Halt(z) + 60
    BY <1>1, <1>4
  <2>1. /\ isOpen(z, d, m) <=> Weekday(d) \notin {"Fri", "Sat"}
        /\ sessionDate(z, d, m) = d + 1 /\ sessionStart(z, d, m) = d * 1440 + (Halt(z) + 60)
    BY <2>0, SessionIs
  <2>2. Weekday(d) \notin {"Fri", "Sat"} <=> Weekday(e) \notin {"Sat", "Sun"}
    BY <1>2, WeekdayIs
  <2>3. e - 1 = d
    BY <1>2
  <2> QED BY <1>1, <1>2, <1>3, <2>1, <2>2, <2>3 DEF Apart
<1>5. CASE m >= h /\ m < h + 60
  <2>0. m >= Halt(z) /\ m < Halt(z) + 60
    BY <1>1, <1>5
  <2>1. ~isOpen(z, d, m) /\ sessionDate(z, d, m) = d
    BY <2>0, SessionIs
  <2> QED BY <1>2, <1>3, <2>1 DEF Apart
<1>6. ~(m < h)
  BY <1>1
<1> QED BY <1>1, <1>4, <1>5, <1>6

LEMMA ClockStep ==
  ASSUME CalendarAssumption, CalendarInv, ClockMoves
  PROVE  CalendarInv' /\ OneStretch
<1>1. PICK d, m, e, n : d = day /\ m = minute /\ e = day' /\ n = minute'
  OBVIOUS
<1>2. d \in Nat /\ m \in Nat /\ m < 1440 /\ zone \in {"central", "eastern"} /\ zone' = zone
  BY <1>1 DEF CalendarInv, ClockMoves
<1>3. \/ m + Step < 1440 /\ n = m + Step /\ e = d
      \/ ~(m + Step < 1440) /\ n = 0 /\ e = d + 1
  BY <1>1 DEF ClockMoves
<1>4. Step \in Nat /\ 1 <= Step /\ Step <= 60
  BY DEF CalendarAssumption
<1>5. e \in Nat /\ n \in Nat /\ n < 1440
  BY <1>2, <1>3, <1>4
<1>6. CalendarInv'
  <2>1. n \in 0..1439
    BY <1>5
  <2> QED BY <1>1, <1>2, <1>5, <2>1 DEF CalendarInv
<1>7. d * 1440 + m < e * 1440 + n
  BY <1>2, <1>3, <1>4
<1>8. Apart(zone, d, m, e, n)
  <2>1. CASE m + Step < 1440
    <3>1. e = d /\ m < n /\ n <= m + 60
      BY <1>2, <1>3, <1>4, <2>1
    <3> QED BY <1>2, <1>5, <3>1, SameDay
  <2>2. CASE ~(m + Step < 1440)
    <3>1. e = d + 1 /\ n = 0 /\ m + 60 >= 1440
      BY <1>2, <1>3, <1>4, <2>2
    <3> QED BY <1>2, <3>1, NextDay
  <2> QED BY <2>1, <2>2
<1>9. isOpen(zone, e, n) => /\ sessionStart(zone, e, n) <= e * 1440 + n
                            /\ e * 1440 + n < sessionEnd(zone, e, n)
                            /\ Weekday(sessionDate(zone, e, n)) \notin {"Sat", "Sun"}
  BY <1>2, <1>5, OpenIsInSession
<1>10. isNewSession(zone, d, m, e, n) <=> sessionDate(zone, d, m) # sessionDate(zone, e, n)
  BY <1>7 DEF isNewSession
<1>11. OneStretch
  <2>1. /\ isOpen(zone, d, m) /\ isOpen(zone, e, n) =>
             /\ ~isNewSession(zone, d, m, e, n)
             /\ sessionStart(zone, e, n) = sessionStart(zone, d, m)
        /\ ~isOpen(zone, d, m) /\ isOpen(zone, e, n) => isNewSession(zone, d, m, e, n)
    BY <1>8, <1>10, Zenon DEF Apart
  <2> QED BY <1>1, <1>9, <2>1 DEF OneStretch
<1> QED BY <1>6, <1>11

(* A session is one stretch: it neither rolls nor restarts while the market stays open, every   *)
(* open instant is between its start and its end, on a weekday's session, and a market that      *)
(* opens is in a new one, whatever the pace of the clock up to the length of the halt            *)
(* (sessionCalendar.ts).                                                                         *)
THEOREM SessionIsOneStretchTheorem ==
  ASSUME CalendarAssumption PROVE CalendarSpec => SessionIsOneStretch
<1>1. CalendarInit => CalendarInv
  BY DEF CalendarInit, CalendarInv
<1>2. CalendarInv /\ [ClockMoves]_calendarVars => CalendarInv'
  BY ClockStep DEF calendarVars, CalendarInv
<1>3. CalendarInv /\ [ClockMoves]_calendarVars => [OneStretch]_calendarVars
  BY ClockStep
<1> QED BY <1>1, <1>2, <1>3, PTL DEF CalendarSpec, SessionIsOneStretch, OneStretch

-----------------------------------------------------------------------------
(* Depth: the book of a symbol and its snapshots.                          *)

(* Once the changes of a feed are followed, the number of the last that came is one of its own and not  *)
(* that of a lost one; before, it may be any number of the feed before it.                              *)
StreamInv ==
  /\ clock \in Int /\ vendorId \in Nat /\ lastId \in Int \cup {None}
  /\ \A i \in lost : i \in Nat /\ i <= vendorId
  /\ numbered /\ base # None =>
       base \in Nat /\ base <= vendorId /\ lastId \in Nat /\ lastId \notin lost /\ lastId <= vendorId
  /\ whole => base # None
  /\ MissedIsTold

LEMMA StreamStart == DepthAssumption /\ DepthInit => StreamInv
BY DEF DepthAssumption, DepthInit, StreamInv, MissedIsTold

LEMMA WholeBookIsTold ==
  ASSUME DepthAssumption, StreamInv, NEW b, NEW late, NEW ok, HandleSnapshot(b, late, ok)
  PROVE  StreamInv'
<1>1. /\ vendorId' = vendorId + 1 /\ truth' = b /\ base' = vendorId + 1 /\ book' = b
      /\ UNCHANGED <<clock, numbered, gaps, feeds, lost, unwritten>>
      /\ clock \in Int /\ vendorId \in Nat /\ None \notin Int
      /\ lastId' = IF numbered THEN vendorId + 1 ELSE IF late THEN clock - 1 ELSE clock
  BY DEF HandleSnapshot, Arrived, StreamInv, DepthAssumption
<1>2. \A i \in lost' : i \in Nat /\ i <= vendorId
  BY <1>1 DEF StreamInv
<1>3. lastId' \in Int /\ (numbered => lastId' = vendorId + 1)
  BY <1>1
<1>4. MissedIsTold'
  BY <1>1, <1>2 DEF MissedIsTold
<1> QED BY <1>1, <1>2, <1>3, <1>4 DEF StreamInv

LEMMA LevelIsTold ==
  ASSUME DepthAssumption, StreamInv, NEW side, NEW price, NEW size, NEW written, NEW ok,
         HandleDelta(side, price, size, written, ok)
  PROVE  StreamInv'
<1>1. /\ vendorId' = vendorId + 1 /\ truth' = applyDelta(truth, side, price, size)
      /\ book' = applyDelta(book, side, price, size)
      /\ UNCHANGED <<clock, numbered, feeds, whole, lost>> /\ RecordGap(vendorId + 1, written)
      /\ base' = IF base = None THEN vendorId + 1 ELSE base
      /\ clock \in Int /\ vendorId \in Nat /\ None \notin Int
      /\ lastId' = IF numbered THEN vendorId + 1 ELSE clock
  BY DEF HandleDelta, Arrived, StreamInv, DepthAssumption
<1>2. \A i \in lost' : i \in Nat /\ i <= vendorId
  BY <1>1 DEF StreamInv
<1>3. lastId' \in Int /\ (numbered => lastId' = vendorId + 1)
  BY <1>1
<1>4. ASSUME numbered, base # None
      PROVE  /\ whole => book' = truth' \/ \E i \in lost : i > base
             /\ \A i \in lost : i > base /\ i < lastId' =>
                  \E g \in gaps' \cup unwritten' : g.feed = feeds /\ g.after < i /\ i < g.id
  <2>1. whole => book' = truth' \/ \E i \in lost : i > base
    BY <1>1, <1>4 DEF StreamInv, MissedIsTold
  <2>2. lastId \in Nat /\ lastId \notin lost /\ lastId # None /\ base \in Nat
    BY <1>1, <1>4 DEF StreamInv
  <2>3. ASSUME NEW i \in lost, i > base, i < lastId'
        PROVE  \E g \in gaps' \cup unwritten' : g.feed = feeds /\ g.after < i /\ i < g.id
    <3>1. i \in Nat /\ i <= vendorId /\ i # lastId
      BY <1>1, <1>2, <2>2, <2>3
    <3>2. CASE i < lastId
      <4>1. \E g \in gaps \cup unwritten : g.feed = feeds /\ g.after < i /\ i < g.id
        BY <1>4, <2>3, <3>2 DEF StreamInv, MissedIsTold
      <4>2. gaps \cup unwritten \subseteq gaps' \cup unwritten'
        BY <1>1 DEF RecordGap
      <4> QED BY <4>1, <4>2
    <3>3. CASE i > lastId
      <4> DEFINE g == [feed |-> feeds, after |-> lastId, id |-> vendorId + 1]
      <4>1. vendorId + 1 > lastId + 1
        BY <1>1, <2>2, <3>1, <3>3
      <4>2. g \in gaps' \cup unwritten'
        BY <1>1, <1>4, <2>2, <4>1 DEF RecordGap
      <4>3. g.feed = feeds /\ g.after < i /\ i < g.id
        BY <1>1, <3>1, <3>3
      <4> QED BY <4>2, <4>3
    <3> QED BY <2>2, <3>1, <3>2, <3>3
  <2> QED BY <2>1, <2>3
<1>5. ASSUME base = None PROVE ~whole /\ \A i \in lost : ~(i > base')
  BY <1>1, <1>2, <1>5 DEF StreamInv
<1>6. MissedIsTold'
  BY <1>1, <1>4, <1>5 DEF MissedIsTold
<1>7. base' # None /\ (numbered => base' \in Nat /\ base' <= vendorId + 1)
  <2>1. CASE base = None
    BY <1>1, <2>1
  <2>2. CASE base # None
    <3>1. numbered => base \in Nat /\ base <= vendorId
      BY <2>2 DEF StreamInv
    <3> QED BY <1>1, <2>2, <3>1
  <2> QED BY <2>1, <2>2
<1>8. numbered => lastId' \in Nat /\ lastId' \notin lost' /\ lastId' <= vendorId'
  BY <1>1, <1>2, <1>3
<1>9. \A i \in lost' : i \in Nat /\ i <= vendorId'
  BY <1>1, <1>2
<1>10. clock' \in Int /\ vendorId' \in Nat
  BY <1>1
<1>11. numbered' /\ base' # None =>
         base' \in Nat /\ base' <= vendorId' /\ lastId' \in Nat /\ lastId' \notin lost' /\ lastId' <= vendorId'
  BY <1>1, <1>7, <1>8
<1> QED BY <1>3, <1>6, <1>7, <1>9, <1>10, <1>11 DEF StreamInv

LEMMA LostIsTold ==
  ASSUME DepthAssumption, StreamInv, NEW side, NEW price, NEW size, Lost(side, price, size)
  PROVE  StreamInv'
<1>1. /\ vendorId' = vendorId + 1 /\ lost' = lost \cup {vendorId + 1}
      /\ UNCHANGED <<clock, numbered, book, lastId, gaps, feeds, base, whole, unwritten>>
      /\ vendorId \in Nat
  BY DEF Lost, StreamInv
<1>2. \A i \in lost' : i \in Nat /\ i <= vendorId + 1
  BY <1>1 DEF StreamInv
<1>3. numbered /\ base # None =>
        base \in Nat /\ base <= vendorId + 1 /\ lastId \in Nat /\ lastId \notin lost' /\ lastId <= vendorId + 1
  BY <1>1 DEF StreamInv
<1>4. ASSUME numbered, base # None
      PROVE  /\ \E i \in lost' : i > base
             /\ \A i \in lost' : i > base /\ i < lastId =>
                  \E g \in gaps \cup unwritten : g.feed = feeds /\ g.after < i /\ i < g.id
  <2>1. base \in Nat /\ lastId \in Nat /\ lastId <= vendorId /\ base <= vendorId
    BY <1>4 DEF StreamInv
  <2>2. \A i \in lost : i > base /\ i < lastId =>
          \E g \in gaps \cup unwritten : g.feed = feeds /\ g.after < i /\ i < g.id
    BY <1>4 DEF StreamInv, MissedIsTold
  <2>3. vendorId + 1 \in lost' /\ vendorId + 1 > base
    BY <1>1, <2>1
  <2>4. ASSUME NEW i \in lost', i > base, i < lastId
        PROVE  \E g \in gaps \cup unwritten : g.feed = feeds /\ g.after < i /\ i < g.id
    BY <1>1, <2>1, <2>2, <2>4
  <2> QED BY <2>3, <2>4
<1>5. MissedIsTold'
  BY <1>1, <1>4 DEF MissedIsTold
<1> QED BY <1>1, <1>2, <1>3, <1>5 DEF StreamInv

(* The book, the numbers and their gaps stay; the clock may go on. *)
LEMMA StreamRests ==
  ASSUME StreamInv, UNCHANGED <<truth, vendorId, numbered, book, lastId, gaps, streamPast>>, clock' \in Int
  PROVE  StreamInv'
BY DEF StreamInv, MissedIsTold, streamPast

(* A feed begins: nothing is claimed of it before its first message. *)
LEMMA StreamRestarts ==
  ASSUME DepthAssumption, StreamInv, FeedRestart \/ \E renewed \in BOOLEAN : DepthRestart(renewed)
  PROVE  StreamInv'
<1>1. /\ base' = None /\ whole' = FALSE /\ UNCHANGED <<clock, numbered>> /\ lastId' \in {lastId, None}
      /\ (vendorId' = 0 /\ lost' = {}) \/ (vendorId' = vendorId /\ lost' = lost)
  BY DEF FeedRestart, DepthRestart, CountsOn
<1>2. MissedIsTold'
  BY <1>1 DEF MissedIsTold
<1> QED BY <1>1, <1>2 DEF StreamInv

LEMMA StreamIsTold ==
  ASSUME DepthAssumption, StreamInv, [DepthNext]_depthVars PROVE StreamInv'
<1>1. ASSUME NEW b, NEW late, NEW ok, HandleSnapshot(b, late, ok) PROVE StreamInv'
  BY <1>1, WholeBookIsTold
<1>2. ASSUME NEW side, NEW price, NEW size, NEW written, NEW ok,
             HandleDelta(side, price, size, written, ok)
      PROVE  StreamInv'
  BY <1>2, LevelIsTold
<1>3. ASSUME NEW side, NEW price, NEW size, Lost(side, price, size) PROVE StreamInv'
  BY <1>3, LostIsTold
<1>4. CASE FeedRestart \/ \E renewed \in BOOLEAN : DepthRestart(renewed)
  BY <1>4, StreamRestarts
<1>5. CASE DepthTick
  <2>1. clock' \in Int
    BY <1>5 DEF DepthTick, StreamInv
  <2> QED BY <1>5, <2>1, StreamRests DEF DepthTick, bookVars
<1>6. ASSUME UNCHANGED <<clock, numbered, truth, vendorId, book, lastId, gaps, streamPast>> PROVE StreamInv'
  BY <1>6, StreamRests DEF StreamInv
<1>7. ASSUME NEW ok, flushDepthQueue(ok) PROVE StreamInv'
  BY <1>6, <1>7 DEF flushDepthQueue, bookVars
<1>8. ASSUME NEW from, NEW to, AskHeatmap(from, to) PROVE StreamInv'
  BY <1>6, <1>8 DEF AskHeatmap, bookVars
<1>9. ASSUME NEW r, NEW records, NEW ok, HeatmapFetched(r, records, ok) PROVE StreamInv'
  BY <1>6, <1>9 DEF HeatmapFetched, bookVars
<1>10. ASSUME NEW r, HeatmapFailed(r) PROVE StreamInv'
  BY <1>6, <1>10 DEF HeatmapFailed, bookVars
<1>11. ASSUME NEW cutoff, cleanupOldDepthSnapshots(cutoff) PROVE StreamInv'
  BY <1>6, <1>11 DEF cleanupOldDepthSnapshots, bookVars
<1>12. CASE UNCHANGED depthVars
  BY <1>6, <1>12 DEF depthVars, bookVars
<1>13. CASE Stream(Books, Nat)
  BY <1>1, <1>2, <1>3, <1>4, <1>5, <1>7, <1>13 DEF Stream
<1>14. CASE Kept(Books, Nat, Int \X Int, Int)
  BY <1>1, <1>4, <1>5, <1>7, <1>8, <1>9, <1>10, <1>11, <1>14 DEF Kept
<1> QED BY <1>9, <1>12, <1>13, <1>14 DEF DepthNext

(* Depth: a change that was lost after the first message of a feed is told of by a gap, unless its row  *)
(* could not be written, and without one the book is the vendor's from a whole book on, for any prices,  *)
(* sizes, restarts of the process and feeds that count anew (handleDepth, recordGap).                    *)
THEOREM MissedIsToldTheorem == ASSUME DepthAssumption PROVE DepthSpec => []MissedIsTold
<1>1. DepthInit => StreamInv
  BY StreamStart
<1>2. StreamInv /\ [DepthNext]_depthVars => StreamInv'
  BY StreamIsTold
<1>3. StreamInv => MissedIsTold
  BY DEF StreamInv
<1> QED BY <1>1, <1>2, <1>3, PTL DEF DepthSpec

(* The snapshots of tops that were seen, with any number; and tops with their moments. *)
Snap(x, n) == [time |-> x.time, bids |-> x.top.bids, asks |-> x.top.asks, seq |-> n]
Known(tops) == {Snap(x, n) : x \in tops, n \in Int \cup {None}}
AreTops(tops) == \A x \in tops : x.time \in Int /\ x = [time |-> x.time, top |-> [bids |-> x.top.bids, asks |-> x.top.asks]]

Shown(s, tops) == [time |-> s.time, top |-> [bids |-> s.bids, asks |-> s.asks]] \in tops
Spaced(q) == \A i \in 1..(Len(q) - 1) : q[i + 1].time - q[i].time >= Interval
EndsWith(q, time) == q # <<>> => q[Len(q)].time = time

(* What is kept is of tops that were seen; the queue ends with the last sample. *)
KeptInv ==
  /\ AreTops(seen)
  /\ ring \in Seq(Known(seen)) /\ queue \in Seq(Known(seen)) /\ rows \subseteq Known(seen)
  /\ \A r \in asking : r.live \subseteq Known(seen)
  /\ answer # None => \A s \in answer.snapshots : Shown(s, seen)
  /\ Len(ring) <= RingSize /\ Len(queue) < Batch
  /\ Spaced(queue) /\ EndsWith(queue, lastSample)

LEMMA KnownIsShown ==
  ASSUME NEW tops, AreTops(tops), NEW s \in Known(tops)
  PROVE  Shown(s, tops) /\ s.time \in Int /\ Shown(decoded(s), tops)
<1>1. PICK x \in tops, n \in Int \cup {None} : s = Snap(x, n)
  BY DEF Known
<1>2. s.time = x.time /\ s.bids = x.top.bids /\ s.asks = x.top.asks
  BY <1>1 DEF Snap
<1>3. x.time \in Int /\ x = [time |-> x.time, top |-> [bids |-> x.top.bids, asks |-> x.top.asks]]
  BY DEF AreTops
<1> QED BY <1>2, <1>3 DEF Shown, decoded

LEMMA TopIsKnown ==
  ASSUME NEW tops, NEW x \in tops, NEW n \in Int \cup {None}
  PROVE  Snap(x, n) \in Known(tops)
BY DEF Known

LEMMA KnownGrows ==
  ASSUME NEW tops, NEW more, tops \subseteq more PROVE Known(tops) \subseteq Known(more)
BY DEF Known

LEMMA ShownGrows ==
  ASSUME NEW s, NEW tops, NEW more, tops \subseteq more, Shown(s, tops) PROVE Shown(s, more)
BY DEF Shown

(* KeptInv says what KeptIsTrue asks for. *)
LEMMA KeptIsShown == KeptInv => KeptIsTrue
<1> SUFFICES ASSUME KeptInv PROVE KeptIsTrue
  OBVIOUS
<1>1. ASSUME NEW s \in ToSet(ring) \cup ToSet(queue) \cup rows
      PROVE  [time |-> s.time, top |-> [bids |-> s.bids, asks |-> s.asks]] \in seen
  <2>1. s \in Known(seen)
    BY <1>1, ElementOfSeq DEF KeptInv, ToSet
  <2> QED BY <2>1, KnownIsShown DEF KeptInv, Shown
<1>2. answer # None => \A s \in answer.snapshots : [time |-> s.time, top |-> [bids |-> s.bids, asks |-> s.asks]] \in seen
  BY DEF KeptInv, Shown
<1> QED BY <1>1, <1>2 DEF KeptInv, KeptIsTrue, Spaced

(* The queue: one more sample, and one less. *)
LEMMA AppendIsSpaced ==
  ASSUME NEW K, \A k \in K : k.time \in Int, NEW q \in Seq(K), NEW snap \in K, Spaced(q),
         q # <<>> => snap.time - q[Len(q)].time >= Interval
  PROVE  Append(q, snap) \in Seq(K) /\ Spaced(Append(q, snap)) /\ EndsWith(Append(q, snap), snap.time)
<1>1. /\ Append(q, snap) \in Seq(K) /\ Len(Append(q, snap)) = Len(q) + 1 /\ Len(q) \in Nat
      /\ \A i \in 1..Len(q) : Append(q, snap)[i] = q[i] /\ Append(q, snap)[Len(q) + 1] = snap
  BY AppendProperties, LenProperties
<1>2. Append(q, snap)[Len(q) + 1] = snap
  BY AppendProperties
<1> DEFINE all == Append(q, snap)
<1> HIDE DEF all
<1>3. ASSUME NEW i \in 1..(Len(all) - 1) PROVE all[i + 1].time - all[i].time >= Interval
  <2>1. i \in 1..Len(q) /\ Len(all) = Len(q) + 1
    BY <1>1 DEF all
  <2>2. all[i] = q[i] /\ all[Len(q) + 1] = snap
    BY <1>1, <1>2, <2>1 DEF all
  <2>3. CASE i = Len(q)
    <3>1. q # <<>>
      BY <2>1
    <3> QED BY <2>2, <2>3, <3>1
  <2>4. CASE i # Len(q)
    <3>1. i \in 1..(Len(q) - 1) /\ i + 1 \in 1..Len(q)
      BY <1>1, <2>1, <2>4
    <3>2. all[i + 1] = q[i + 1]
      BY <1>1, <3>1 DEF all
    <3> QED BY <2>2, <3>1, <3>2 DEF Spaced
  <2> QED BY <2>3, <2>4
<1>4. Spaced(all)
  BY <1>3 DEF Spaced
<1>5. EndsWith(all, snap.time)
  BY <1>1, <1>2 DEF all, EndsWith
<1> QED BY <1>1, <1>4, <1>5 DEF all

LEMMA TailIsSpaced ==
  ASSUME NEW K, NEW q \in Seq(K), q # <<>>, Spaced(q), NEW time, EndsWith(q, time)
  PROVE  Tail(q) \in Seq(K) /\ Len(Tail(q)) = Len(q) - 1 /\ Spaced(Tail(q)) /\ EndsWith(Tail(q), time)
<1>1. /\ Tail(q) \in Seq(K) /\ Len(Tail(q)) = Len(q) - 1 /\ Len(q) \in Nat \ {0}
      /\ \A i \in 1..Len(Tail(q)) : Tail(q)[i] = q[i + 1]
  BY HeadTailProperties, LenProperties, EmptySeq
<1>2. PICK t : t = Tail(q)
  OBVIOUS
<1>3. ASSUME NEW i \in 1..(Len(t) - 1) PROVE t[i + 1].time - t[i].time >= Interval
  <2>1. i \in 1..Len(t) /\ i + 1 \in 1..Len(t) /\ i + 1 \in 1..(Len(q) - 1)
    BY <1>1, <1>2
  <2>2. t[i] = q[i + 1] /\ t[i + 1] = q[i + 1 + 1]
    BY <1>1, <1>2, <2>1
  <2> QED BY <2>1, <2>2 DEF Spaced
<1>4. EndsWith(t, time)
  <2> SUFFICES ASSUME t # <<>> PROVE t[Len(t)].time = time
    BY DEF EndsWith
  <2>1. Len(t) \in Nat \ {0}
    BY <1>1, <1>2, EmptySeq, LenProperties
  <2>2. t[Len(t)] = q[Len(q)]
    BY <1>1, <1>2, <2>1
  <2> QED BY <2>2 DEF EndsWith
<1> QED BY <1>1, <1>2, <1>3, <1>4 DEF Spaced

LEMMA InsertedAreThose ==
  ASSUME NEW K, NEW old, old \subseteq K, NEW batch \in Seq(K), NEW ok
  PROVE  flushed(old, batch, ok) \subseteq K
<1>1. \A i \in DOMAIN batch : batch[i] \in K
  BY ElementOfSeq, LenProperties
<1> QED BY <1>1 DEF flushed, insertDepth

LEMMA QueueIsKept ==
  ASSUME DepthAssumption, NEW K, \A k \in K : k.time \in Int, queue \in Seq(K), rows \subseteq K,
         Len(queue) < Batch, Spaced(queue), EndsWith(queue, lastSample),
         NEW snap \in K, NEW ok, Enqueued(snap, ok)
  PROVE  /\ queue' \in Seq(K) /\ rows' \subseteq K
         /\ Len(queue') < Batch /\ Spaced(queue') /\ EndsWith(queue', lastSample')
<1> DEFINE sampled == snap.time - (IF lastSample = None THEN 0 ELSE lastSample) >= Interval
           room    == IF Len(queue) >= QueueSize THEN Tail(queue) ELSE queue
           all     == IF sampled THEN Append(room, snap) ELSE queue
           full    == sampled /\ Len(all) >= Batch
<1>1. /\ lastSample' = IF sampled THEN snap.time ELSE lastSample
      /\ queue' = IF full THEN <<>> ELSE all
      /\ rows' = IF full THEN flushed(rows, all, ok) ELSE rows
  BY DEF Enqueued
<1>2. Batch \in Nat \ {0} /\ QueueSize \in Nat \ {0} /\ None \notin Int /\ Interval \in Nat
  BY DEF DepthAssumption
<1>3. room \in Seq(K) /\ Spaced(room) /\ EndsWith(room, lastSample)
  <2>1. CASE Len(queue) >= QueueSize
    <3>1. queue # <<>>
      BY <2>1, <1>2
    <3> QED BY <2>1, <3>1, TailIsSpaced
  <2>2. CASE ~(Len(queue) >= QueueSize)
    BY <2>2
  <2> QED BY <2>1, <2>2
<1> HIDE DEF room
<1>4. CASE sampled
  <2>1. room # <<>> => snap.time - room[Len(room)].time >= Interval
    <3> SUFFICES ASSUME room # <<>> PROVE snap.time - room[Len(room)].time >= Interval
      OBVIOUS
    <3>1. Len(room) \in 1..Len(room)
      BY <1>3, LenProperties, EmptySeq
    <3>2. room[Len(room)] \in K
      BY <1>3, <3>1, ElementOfSeq
    <3>3. lastSample = room[Len(room)].time /\ lastSample \in Int /\ lastSample # None
      BY <1>2, <1>3, <3>2 DEF EndsWith
    <3> QED BY <1>4, <3>3
  <2>2. all \in Seq(K) /\ Spaced(all) /\ EndsWith(all, snap.time)
    BY <1>3, <1>4, <2>1, AppendIsSpaced
  <2> HIDE DEF all, sampled
  <2>3. CASE full
    <3>1. queue' = <<>> /\ rows' = flushed(rows, all, ok) /\ lastSample' = snap.time
      BY <1>1, <1>4, <2>3
    <3>2. rows' \subseteq K
      BY <2>2, <3>1, InsertedAreThose
    <3>3. queue' \in Seq(K) /\ Len(queue') = 0
      BY <3>1, EmptySeq
    <3> QED BY <3>1, <3>2, <3>3, <1>2 DEF Spaced, EndsWith
  <2>4. CASE ~full
    <3>1. queue' = all /\ rows' = rows /\ lastSample' = snap.time
      BY <1>1, <1>4, <2>4
    <3>2. Len(all) \in Nat /\ ~(Len(all) >= Batch)
      BY <1>4, <2>2, <2>4, LenProperties
    <3>3. Len(all) < Batch
      BY <1>2, <3>2
    <3> QED BY <2>2, <3>1, <3>3
  <2> QED BY <2>3, <2>4
<1>5. CASE ~sampled
  <2>1. queue' = queue /\ rows' = rows /\ lastSample' = lastSample
    BY <1>1, <1>5
  <2> QED BY <2>1
<1> QED BY <1>4, <1>5

(* The end of a sequence, of the length of the ring at most. *)
LEMMA RingIsKept ==
  ASSUME DepthAssumption, NEW K, NEW all \in Seq(K)
  PROVE  LET kept == SubSeq(all, Len(all) - Min({RingSize, Len(all)}) + 1, Len(all))
         IN  kept \in Seq(K) /\ Len(kept) <= RingSize
<1>1. RingSize \in Nat \ {0} /\ Len(all) \in Nat
  BY LenProperties DEF DepthAssumption
<1>2. PICK n : n = Min({RingSize, Len(all)})
  OBVIOUS
<1>3. n = IF RingSize <= Len(all) THEN RingSize ELSE Len(all)
  <2>1. CASE RingSize <= Len(all)
    <3>1. RingSize \in {RingSize, Len(all)} /\ \A x \in {RingSize, Len(all)} : RingSize <= x
      BY <1>1, <2>1
    <3>2. \A y \in {RingSize, Len(all)} : (\A x \in {RingSize, Len(all)} : y <= x) => y = RingSize
      BY <1>1, <2>1
    <3> QED BY <1>2, <2>1, <3>1, <3>2 DEF Min
  <2>2. CASE ~(RingSize <= Len(all))
    <3>1. Len(all) \in {RingSize, Len(all)} /\ \A x \in {RingSize, Len(all)} : Len(all) <= x
      BY <1>1, <2>2
    <3>2. \A y \in {RingSize, Len(all)} : (\A x \in {RingSize, Len(all)} : y <= x) => y = Len(all)
      BY <1>1, <2>2
    <3> QED BY <1>2, <2>2, <3>1, <3>2 DEF Min
  <2> QED BY <2>1, <2>2
<1>4. n \in 0..Len(all) /\ n <= RingSize
  BY <1>1, <1>3
<1>5. PICK m : m = Len(all) - n + 1
  OBVIOUS
<1>6. m \in 1..(Len(all) + 1) /\ Len(all) \in m - 1..Len(all)
  BY <1>1, <1>4, <1>5
<1>7. SubSeq(all, m, Len(all)) \in Seq(K) /\ Len(SubSeq(all, m, Len(all))) = IF m <= Len(all) THEN Len(all) - m + 1 ELSE 0
  BY <1>1, <1>6, SubSeqProperties
<1>8. Len(SubSeq(all, m, Len(all))) <= RingSize
  BY <1>1, <1>4, <1>5, <1>7
<1> QED BY <1>2, <1>5, <1>7, <1>8

(* A whole book or a level of it: what is kept of it is of tops that were seen. *)
LEMMA ArrivalIsKept ==
  ASSUME DepthAssumption, KeptInv, NEW b, NEW ts \in Int, NEW id \in Int, NEW ok, Arrived(b, ts, id, ok),
         answer' = None, asking' = asking
  PROVE  KeptInv'
<1> DEFINE snap == [time |-> ts, bids |-> TopOf(b).bids, asks |-> TopOf(b).asks, seq |-> id]
           K == Known(seen')
<1>1. /\ recordTop10Snapshot(b, book, ts, id, ok)
      /\ seen' = seen \cup {[time |-> ts, top |-> TopOf(b)], [time |-> ts, top |-> TopOf(truth')]}
  BY DEF Arrived
<1>2. AreTops(seen')
  BY <1>1 DEF AreTops, KeptInv, TopOf
<1>3. snap \in K
  <2>1. PICK top : top = TopOf(b)
    OBVIOUS
  <2>2. PICK x : x = [time |-> ts, top |-> top]
    OBVIOUS
  <2>3. x \in seen' /\ x.time = ts /\ x.top = top /\ id \in Int \cup {None}
    BY <1>1, <2>1, <2>2
  <2>4. snap = Snap(x, id)
    BY <2>1, <2>3 DEF Snap
  <2> HIDE DEF snap
  <2> QED BY <2>3, <2>4, TopIsKnown
<1>4. Known(seen) \subseteq K
  BY <1>1, KnownGrows
<1> HIDE DEF snap
<1>5. /\ ring \in Seq(K) /\ queue \in Seq(K) /\ rows \subseteq K
      /\ \A r \in asking : r.live \subseteq K
  BY <1>4, SeqMonotonic DEF KeptInv
<1>6. \A k \in K : k.time \in Int
  BY <1>2, KnownIsShown
<1> HIDE DEF K
<1>7. /\ ring' \in Seq(K) /\ Len(ring') <= RingSize
      /\ queue' \in Seq(K) /\ rows' \subseteq K
      /\ Len(queue') < Batch /\ Spaced(queue') /\ EndsWith(queue', lastSample')
  <2>1. CASE UNCHANGED <<ring, lastSample, queue, rows>>
    BY <1>5, <2>1 DEF KeptInv
  <2>2. CASE Enqueued(snap, ok) /\ LET all == Append(ring, snap)
             IN  ring' = SubSeq(all, Len(all) - Min({RingSize, Len(all)}) + 1, Len(all))
    <3>1. Append(ring, snap) \in Seq(K)
      BY <1>3, <1>5, AppendProperties
    <3>2. ring' \in Seq(K) /\ Len(ring') <= RingSize
      BY <2>2, <3>1, RingIsKept
    <3>3. /\ queue' \in Seq(K) /\ rows' \subseteq K
          /\ Len(queue') < Batch /\ Spaced(queue') /\ EndsWith(queue', lastSample')
      <4>1. Len(queue) < Batch /\ Spaced(queue) /\ EndsWith(queue, lastSample)
        BY DEF KeptInv
      <4> QED BY <1>3, <1>5, <1>6, <2>2, <4>1, QueueIsKept
    <3> QED BY <3>2, <3>3
  <2> QED BY <1>1, <2>1, <2>2 DEF recordTop10Snapshot, snap
<1>8. \A r \in asking' : r.live \subseteq K
  BY <1>5
<1> QED BY <1>2, <1>7, <1>8 DEF KeptInv, K

LEMMA SentIsKept ==
  ASSUME DepthAssumption, StreamInv, KeptInv
  PROVE  /\ \A b, late, ok : HandleSnapshot(b, late, ok) => KeptInv'
         /\ \A side, price, size, written, ok : HandleDelta(side, price, size, written, ok) => KeptInv'
         /\ \A side, price, size : Lost(side, price, size) => KeptInv'
<1>1. clock \in Int /\ vendorId \in Int /\ vendorId + 1 \in Int /\ clock - 1 \in Int
  BY DEF StreamInv
<1>2. ASSUME NEW b, NEW late, NEW ok, HandleSnapshot(b, late, ok) PROVE KeptInv'
  <2>1. PICK ts \in Int, id \in Int : Arrived(b, ts, id, ok)
    <3> DEFINE ts == IF late THEN clock - 1 ELSE clock
    <3>1. ts \in Int /\ (IF numbered THEN vendorId + 1 ELSE ts) \in Int
      BY <1>1
    <3> QED BY <1>2, <3>1 DEF HandleSnapshot
  <2>2. answer' = None /\ asking' = asking
    BY <1>2 DEF HandleSnapshot
  <2> QED BY <2>1, <2>2, ArrivalIsKept
<1>3. ASSUME NEW side, NEW price, NEW size, NEW written, NEW ok,
             HandleDelta(side, price, size, written, ok)
      PROVE  KeptInv'
  <2>1. PICK id \in Int : Arrived(applyDelta(book, side, price, size), clock, id, ok)
    <3>1. (IF numbered THEN vendorId + 1 ELSE clock) \in Int
      BY <1>1
    <3> QED BY <1>3, <3>1 DEF HandleDelta
  <2>2. answer' = None /\ asking' = asking
    BY <1>3 DEF HandleDelta
  <2> QED BY <1>1, <2>1, <2>2, ArrivalIsKept
<1>4. ASSUME NEW side, NEW price, NEW size, Lost(side, price, size) PROVE KeptInv'
  <2>1. /\ seen' = seen \cup {[time |-> clock, top |-> TopOf(truth')]} /\ answer' = None
        /\ UNCHANGED <<ring, queue, rows, asking, lastSample>>
    BY <1>4 DEF Lost
  <2>2. AreTops(seen')
    BY <1>1, <2>1 DEF AreTops, KeptInv, TopOf
  <2>3. Known(seen) \subseteq Known(seen')
    BY <2>1, KnownGrows
  <2>4. /\ ring \in Seq(Known(seen')) /\ queue \in Seq(Known(seen')) /\ rows \subseteq Known(seen')
        /\ \A r \in asking : r.live \subseteq Known(seen')
    BY <2>3, SeqMonotonic DEF KeptInv
  <2> QED BY <2>1, <2>2, <2>4 DEF KeptInv
<1> QED BY <1>2, <1>3, <1>4

(* An answer from the ring, as it was when the question came. *)
LEMMA RingIsShown ==
  ASSUME NEW tops, AreTops(tops), NEW live, live \subseteq Known(tops), NEW from, NEW to,
         NEW s \in FromRing(live, from, to).snapshots
  PROVE  Shown(s, tops)
<1>1. PICK x \in live : s = decoded(x)
  BY DEF FromRing, Answer
<1> QED BY <1>1, KnownIsShown

LEMMA HeatmapIsKept ==
  ASSUME DepthAssumption, KeptInv
  PROVE  /\ \A from, to : AskHeatmap(from, to) => KeptInv'
         /\ \A r, records, ok : HeatmapFetched(r, records, ok) => KeptInv'
         /\ \A r : HeatmapFailed(r) => KeptInv'
<1>1. ASSUME UNCHANGED <<seen, ring, queue, lastSample>>, rows' \subseteq Known(seen),
             \A r \in asking' : r.live \subseteq Known(seen),
             answer' # None => \A s \in answer'.snapshots : Shown(s, seen)
      PROVE  KeptInv'
  BY <1>1 DEF KeptInv
<1>2. AreTops(seen) /\ rows \subseteq Known(seen) /\ \A r \in asking : r.live \subseteq Known(seen)
  BY DEF KeptInv
<1>3. ASSUME NEW from, NEW to, AskHeatmap(from, to) PROVE KeptInv'
  <2> DEFINE stored == queryDepthSnapshots(from, to, 1, 500, 0)
             live == getDepthHistory(from, to)
  <2>1. UNCHANGED <<seen, ring, queue, lastSample, rows>>
    BY <1>3 DEF AskHeatmap, bookVars
  <2>2. live \subseteq Known(seen)
    BY ElementOfSeq DEF KeptInv, getDepthHistory, ToSet
  <2>3. \A s \in stored.snapshots : Shown(s, seen)
    <3>1. ASSUME NEW s \in stored.snapshots PROVE \E r \in rows : s = decoded(r)
      BY DEF queryDepthSnapshots
    <3> HIDE DEF stored
    <3> QED BY <1>2, <3>1, KnownIsShown
  <2>4. \A s \in FromRing(live, from, to).snapshots : Shown(s, seen)
    <3> HIDE DEF live
    <3> QED BY <1>2, <2>2, RingIsShown
  <2>5. \/ answer' = Answer("sqlite_mbp10", stored.snapshots, stored.hasMore) /\ asking' = asking
        \/ answer' = None /\ asking' = asking \cup {[from |-> from, to |-> to, live |-> live]}
        \/ answer' = FromRing(live, from, to) /\ asking' = asking
    BY <1>3 DEF AskHeatmap
  <2> HIDE DEF stored, live
  <2>6. answer' # None => \A s \in answer'.snapshots : Shown(s, seen)
    BY <2>3, <2>4, <2>5 DEF Answer
  <2>7. \A r \in asking' : r.live \subseteq Known(seen)
    BY <1>2, <2>2, <2>5
  <2> QED BY <1>1, <1>2, <2>1, <2>6, <2>7
<1>4. ASSUME NEW r, NEW records, NEW ok, HeatmapFetched(r, records, ok) PROVE KeptInv'
  <2> DEFINE mapped == {[time |-> x.time, bids |-> x.top.bids, asks |-> x.top.asks] : x \in records}
             batch  == {[time |-> m.time, bids |-> m.bids, asks |-> m.asks, seq |-> None] : m \in mapped}
  <2>1. /\ r \in asking /\ asking' \subseteq asking /\ records \subseteq seen
        /\ UNCHANGED <<seen, ring, queue, lastSample>>
    BY <1>4 DEF HeatmapFetched, bookVars
  <2>2. \/ rows' \subseteq rows \cup batch /\ answer' = Answer("databento", mapped, FALSE)
        \/ rows' = rows /\ answer' = FromRing(r.live, r.from, r.to)
    BY <1>4 DEF HeatmapFetched
  <2>3. ASSUME NEW m \in mapped
        PROVE  /\ Shown(m, seen)
               /\ [time |-> m.time, bids |-> m.bids, asks |-> m.asks, seq |-> None] \in Known(seen)
    <3>1. PICK x \in records : m = [time |-> x.time, bids |-> x.top.bids, asks |-> x.top.asks]
      OBVIOUS
    <3>2. m.time = x.time /\ m.bids = x.top.bids /\ m.asks = x.top.asks /\ x \in seen
      BY <2>1, <3>1
    <3>3. x = [time |-> x.time, top |-> [bids |-> x.top.bids, asks |-> x.top.asks]]
      BY <1>2, <3>2 DEF AreTops
    <3>4. None \in Int \cup {None}
      OBVIOUS
    <3>5. Snap(x, None) \in Known(seen)
      BY <3>2, <3>4, TopIsKnown
    <3>6. Shown(m, seen)
      BY <3>2, <3>3 DEF Shown
    <3> QED BY <3>2, <3>5, <3>6 DEF Snap
  <2> HIDE DEF mapped
  <2>4. batch \subseteq Known(seen)
    BY <2>3
  <2> HIDE DEF batch
  <2>5. \A s \in FromRing(r.live, r.from, r.to).snapshots : Shown(s, seen)
    <3>1. r.live \subseteq Known(seen)
      BY <1>2, <2>1
    <3> QED BY <1>2, <3>1, RingIsShown
  <2>6. answer' # None => \A s \in answer'.snapshots : Shown(s, seen)
    <3>1. \A m \in mapped : Shown(m, seen)
      BY <2>3
    <3>2. Answer("databento", mapped, FALSE).snapshots = mapped
      BY DEF Answer
    <3> QED BY <2>2, <2>5, <3>1, <3>2
  <2>7. rows' \subseteq Known(seen)
    BY <1>2, <2>2, <2>4
  <2> QED BY <1>1, <1>2, <2>1, <2>6, <2>7
<1>5. ASSUME NEW r, HeatmapFailed(r) PROVE KeptInv'
  <2>1. /\ r \in asking /\ asking' \subseteq asking /\ answer' = FromRing(r.live, r.from, r.to)
        /\ UNCHANGED <<seen, ring, queue, lastSample, rows>>
    BY <1>5 DEF HeatmapFailed, bookVars
  <2>2. r.live \subseteq Known(seen)
    BY <1>2, <2>1
  <2>3. \A s \in answer'.snapshots : Shown(s, seen)
    BY <1>2, <2>1, <2>2, RingIsShown
  <2> QED BY <1>1, <1>2, <2>1, <2>3
<1> QED BY <1>3, <1>4, <1>5

LEMMA SnapshotsAreKept ==
  ASSUME DepthAssumption, StreamInv, KeptInv, [DepthNext]_depthVars PROVE KeptInv'
<1>1. ASSUME NEW b, NEW late, NEW ok, HandleSnapshot(b, late, ok) PROVE KeptInv'
  BY <1>1, SentIsKept
<1>2. ASSUME NEW side, NEW price, NEW size, NEW written, NEW ok,
             HandleDelta(side, price, size, written, ok)
      PROVE  KeptInv'
  BY <1>2, SentIsKept
<1>3. ASSUME NEW side, NEW price, NEW size, Lost(side, price, size) PROVE KeptInv'
  BY <1>3, SentIsKept
<1>4. CASE FeedRestart \/ \E renewed \in BOOLEAN : DepthRestart(renewed)
  <2>1. <<>> \in Seq(Known(seen)) /\ Len(<<>>) = 0
    BY EmptySeq
  <2>2. RingSize \in Nat \ {0} /\ Batch \in Nat \ {0}
    BY DEF DepthAssumption
  <2>3. CASE FeedRestart
    BY <2>3 DEF FeedRestart, KeptInv
  <2>4. ASSUME NEW renewed, DepthRestart(renewed) PROVE KeptInv'
    BY <2>1, <2>2, <2>4 DEF DepthRestart, KeptInv, Spaced, EndsWith
  <2> QED BY <1>4, <2>3, <2>4
<1>5. ASSUME UNCHANGED <<seen, ring, queue, lastSample, rows, asking>>, answer' \in {answer, None} PROVE KeptInv'
  BY <1>5 DEF KeptInv
<1>6. CASE DepthTick
  BY <1>5, <1>6 DEF DepthTick, bookVars
<1>7. ASSUME NEW ok, flushDepthQueue(ok) PROVE KeptInv'
  <2>1. /\ queue' = <<>> /\ rows' = flushed(rows, queue, ok) /\ answer' = None
        /\ UNCHANGED <<seen, ring, lastSample, asking>>
    BY <1>7 DEF flushDepthQueue, bookVars
  <2>2. rows' \subseteq Known(seen)
    BY <2>1, InsertedAreThose DEF KeptInv
  <2>3. <<>> \in Seq(Known(seen)) /\ Len(<<>>) = 0 /\ Batch \in Nat \ {0}
    BY EmptySeq DEF DepthAssumption
  <2> QED BY <2>1, <2>2, <2>3 DEF KeptInv, Spaced, EndsWith
<1>8. ASSUME NEW cutoff, cleanupOldDepthSnapshots(cutoff) PROVE KeptInv'
  <2>1. /\ rows' \subseteq rows /\ answer' = None /\ UNCHANGED <<seen, ring, queue, lastSample, asking>>
    BY <1>8 DEF cleanupOldDepthSnapshots, bookVars
  <2> QED BY <2>1 DEF KeptInv
<1>9. ASSUME NEW from, NEW to, AskHeatmap(from, to) PROVE KeptInv'
  BY <1>9, HeatmapIsKept
<1>10. ASSUME NEW r, NEW records, NEW ok, HeatmapFetched(r, records, ok) PROVE KeptInv'
  BY <1>10, HeatmapIsKept
<1>11. ASSUME NEW r, HeatmapFailed(r) PROVE KeptInv'
  BY <1>11, HeatmapIsKept
<1>12. CASE UNCHANGED depthVars
  BY <1>5, <1>12 DEF depthVars, bookVars
<1>13. CASE Stream(Books, Nat)
  BY <1>1, <1>2, <1>3, <1>4, <1>6, <1>7, <1>13 DEF Stream
<1>14. CASE Kept(Books, Nat, Int \X Int, Int)
  BY <1>1, <1>4, <1>6, <1>7, <1>8, <1>9, <1>10, <1>11, <1>14 DEF Kept
<1> QED BY <1>10, <1>12, <1>13, <1>14 DEF DepthNext

(* Depth: every snapshot of the ring, the queue, the table and an answer is a top of its moment, the ring *)
(* and the queue keep to their sizes, and what is queued is an interval apart, for any prices, sizes,      *)
(* times and answers of the vendor (recordTop10Snapshot, enqueueDepthSnapshot, getDepthHeatmapExtended).   *)
THEOREM KeptIsTrueTheorem == ASSUME DepthAssumption PROVE DepthSpec => []KeptIsTrue
<1>1. DepthInit => StreamInv /\ KeptInv
  <2>1. DepthInit => StreamInv
    BY StreamStart
  <2>2. <<>> \in Seq(Known({})) /\ Len(<<>>) = 0 /\ RingSize \in Nat \ {0} /\ Batch \in Nat \ {0}
    BY EmptySeq DEF DepthAssumption
  <2>3. DepthInit => KeptInv
    BY <2>2 DEF DepthInit, KeptInv, AreTops, Spaced, EndsWith
  <2> QED BY <2>1, <2>3
<1>2. StreamInv /\ KeptInv /\ [DepthNext]_depthVars => StreamInv' /\ KeptInv'
  BY StreamIsTold, SnapshotsAreKept
<1>3. KeptInv => KeptIsTrue
  BY KeptIsShown
<1> QED BY <1>1, <1>2, <1>3, PTL DEF DepthSpec
=============================================================================
