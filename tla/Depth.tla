------------------------------- MODULE Depth -------------------------------
(***************************************************************************)
(* The order book of a symbol and the snapshots that are kept of it        *)
(* (src/server/src/orderbook.ts, the depth handler of                      *)
(* marketData/marketContext.ts, the depth tables of                        *)
(* storage/marketDataStore.ts, storage/depthCodec.ts, the heatmap of       *)
(* chart/chartService.ts).                                                 *)
(*                                                                         *)
(* The vendor numbers the changes of its book and sends each as a whole    *)
(* book or as one level; messages get lost. The handler follows the        *)
(* numbers, keeps the top of the book in a ring at most every tenth of a   *)
(* second, and hands it to the store, which samples it by the exchange's   *)
(* time into a queue and writes the queue on a timer. The heatmap is read  *)
(* from the table, else from the vendor's history, else from the ring.     *)
(*                                                                         *)
(* A tick of the clock is a tenth of a second. A book gives every price of *)
(* a side its size, 0 for a price that is not in it.                       *)
(***************************************************************************)
EXTENDS Nothing, Integers, Sequences, FiniteSets, FiniteSetsExt, SequencesExt

CONSTANTS BidPrices, AskPrices,   \* prices of either side
          MaxSize,                \* bound: sizes
          Top,                    \* levels of a side that are kept (10)
          Interval,               \* ticks of the exchange's time between two samples (250 ms)
          RingSize,               \* snapshots in the ring (1000)
          Batch,                  \* snapshots that are written at once without the timer (50)
          QueueSize,              \* snapshots the queue holds (5000)
          HasVendor,              \* is there a vendor's history to ask (BOOLEAN)
          MaxId,                  \* bound: changes of the vendor's book under one numbering
          MaxFeeds,               \* bound: numberings of the vendor
          MaxClock                \* bound: ticks

ASSUME DepthAssumption ==
    /\ Top \in Nat \ {0} /\ RingSize \in Nat \ {0} /\ Interval \in Nat
    /\ Batch \in Nat \ {0} /\ QueueSize \in Nat \ {0} /\ None \notin Int

VARIABLES clock,
          truth,          \* the vendor's book
          vendorId,       \* number of its last change
          numbered,       \* does this vendor's stream carry the numbers
          book, prev,     \* OrderbookManager: bids and asks, and those before the last update
          lastId,         \* lastDepthUpdateId
          lastRecord,     \* lastSnapshotRecordTs
          ring,           \* depthHistory
          lastUpdate,     \* lastOrderbookUpdate
          sent,           \* the book the subscribers were sent last
          gaps,           \* gap rows of the depth stream, by the numbers in their reason and the
                          \* numbering they are of, which their time tells
          lastSample,     \* lastDepthSampleBySymbol
          queue,          \* depthWriteQueue
          rows,           \* table depth_snapshots
          asking,         \* heatmap requests that wait for the vendor
          answer,         \* the last heatmap answer, None in other steps
          feeds,          \* history: how many times the vendor began to count
          base,           \* history: number of the last whole book under this numbering, or of the
                          \* first change of a feed when none has come yet
          whole,          \* history: is it that of a whole book
          lost,           \* history: numbers of the changes that were lost under this numbering
          unwritten,      \* history: gaps whose row could not be written
          seen            \* history: what the tops were, the process's and the vendor's

streamPast == <<feeds, base, whole, lost, unwritten>>
bookVars == <<truth, vendorId, book, prev, lastId, lastRecord, ring, lastUpdate, sent, gaps, lastSample, streamPast, seen>>
depthVars == <<clock, numbered, bookVars, queue, rows, asking, answer>>

Prices == [bid |-> BidPrices, ask |-> AskPrices]
Books == [bid : [BidPrices -> 0..MaxSize], ask : [AskPrices -> 0..MaxSize]]
Empty == [bid |-> [p \in BidPrices |-> 0], ask |-> [p \in AskPrices |-> 0]]

-----------------------------------------------------------------------------
(* The book. *)

\* The prices of a side that have a size, the best first, at most so many.
Best(b, side, count) ==
    {p \in Prices[side] :
        /\ b[side][p] > 0
        /\ Cardinality({q \in Prices[side] : b[side][q] > 0 /\ IF side = "bid" THEN q > p ELSE q < p}) < count}

Levels(b, side, count) == {[price |-> p, size |-> b[side][p]] : p \in Best(b, side, count)}

TopOf(b) == [bids |-> Levels(b, "bid", Top), asks |-> Levels(b, "ask", Top)]

getBestBid(b) == IF Best(b, "bid", 1) = {} THEN None ELSE CHOOSE p \in Best(b, "bid", 1) : TRUE
getBestAsk(b) == IF Best(b, "ask", 1) = {} THEN None ELSE CHOOSE p \in Best(b, "ask", 1) : TRUE

\* What subscribers are sent: every level with what was added to it or taken from it by the last update.
getSnapshot(b, before) ==
    [side \in {"bid", "ask"} |->
        {[price |-> p, size |-> b[side][p], pullingStacking |-> b[side][p] - before[side][p]] :
            p \in Best(b, side, 50)}]

getDepthHistory(from, to) == {s \in ToSet(ring) : s.time >= from /\ s.time <= to}

\* A level of size nothing leaves the book, any other takes the place of what was there.
applyDelta(b, side, price, size) == [b EXCEPT ![side][price] = size]

-----------------------------------------------------------------------------
(* The store's queue and table. *)

\* The codec keeps the levels with a size, up to fifty of a side; an empty side stays empty. What it is
\* given here are the top ten, so that decoding a row gives what was encoded.
decoded(row) == [time |-> row.time, bids |-> row.bids, asks |-> row.asks]

\* INSERT OR IGNORE: a row whose number the symbol already has is left out.
insertDepth(table, batch) ==
    LET before(i) == table \cup {batch[j] : j \in 1..(i - 1)}
    IN  table \cup {batch[i] : i \in {j \in DOMAIN batch : batch[j].seq = None \/ \A r \in before(j) : r.seq # batch[j].seq}}

\* The whole batch is written, or the whole batch is lost.
flushed(table, batch, ok) == IF ok THEN insertDepth(table, batch) ELSE table

\* enqueueDepthSnapshot: none younger than the interval after the last sample of the symbol; the oldest
\* makes room; a full batch is written at once.
Enqueued(snap, ok) ==
    LET sampled == snap.time - (IF lastSample = None THEN 0 ELSE lastSample) >= Interval
        room    == IF Len(queue) >= QueueSize THEN Tail(queue) ELSE queue
        all     == IF sampled THEN Append(room, snap) ELSE queue
        full    == sampled /\ Len(all) >= Batch
    IN  /\ lastSample' = IF sampled THEN snap.time ELSE lastSample
        /\ queue' = IF full THEN <<>> ELSE all
        /\ rows' = IF full THEN flushed(rows, all, ok) ELSE rows

\* A fault: the ring is given the book as it was before the update.
RecordBefore(b, before, ts, id, ok) ==
    LET snap == [time |-> ts, bids |-> TopOf(before).bids, asks |-> TopOf(before).asks, seq |-> id]
    IN  IF clock - lastRecord < 1
        THEN UNCHANGED <<lastRecord, ring, lastSample, queue, rows>>
        ELSE /\ lastRecord' = clock
             /\ ring' = Append(ring, snap) /\ Enqueued(snap, ok)

\* recordTop10Snapshot, with the callback into the store: not within a tenth of a second of the last one,
\* and not of an empty book.
recordTop10Snapshot(b, before, ts, id, ok) ==
    LET snap == [time |-> ts, bids |-> TopOf(b).bids, asks |-> TopOf(b).asks, seq |-> id]
        all  == Append(ring, snap)
    IN  IF clock - lastRecord < 1
        THEN UNCHANGED <<lastRecord, ring, lastSample, queue, rows>>
        ELSE /\ lastRecord' = clock
             /\ IF snap.bids = {} /\ snap.asks = {}
                THEN UNCHANGED <<ring, lastSample, queue, rows>>
                ELSE /\ ring' = SubSeq(all, Len(all) - Min({RingSize, Len(all)}) + 1, Len(all))
                     /\ Enqueued(snap, ok)

-----------------------------------------------------------------------------
(* Actions of the feed. *)

DepthInit ==
    /\ clock = 1
    /\ truth = Empty /\ vendorId = 0 /\ numbered \in BOOLEAN
    /\ book = Empty /\ prev = Empty /\ lastId = None
    /\ lastRecord = 0 /\ ring = <<>> /\ lastUpdate = 0 /\ sent = None
    /\ gaps = {} /\ lastSample = None /\ queue = <<>> /\ rows = {}
    /\ asking = {} /\ answer = None
    /\ feeds = 1 /\ base = None /\ whole = FALSE /\ lost = {} /\ unwritten = {} /\ seen = {}

Send(b, before) ==
    IF clock - lastUpdate > 1 THEN lastUpdate' = clock /\ sent' = getSnapshot(b, before)
    ELSE UNCHANGED <<lastUpdate, sent>>

Arrived(b, ts, id, ok) ==
    /\ book' = b /\ prev' = book
    /\ lastId' = id
    /\ recordTop10Snapshot(b, book, ts, id, ok)
    /\ seen' = seen \cup {[time |-> ts, top |-> TopOf(b)], [time |-> ts, top |-> TopOf(truth')]}
    /\ Send(b, book)

\* handleDepth of a whole book: it replaces what was there, whatever was missed before it.
HandleSnapshot(b, late, ok) ==
    /\ vendorId < MaxId
    /\ vendorId' = vendorId + 1 /\ truth' = b
    /\ LET ts == IF late THEN clock - 1 ELSE clock
       IN  Arrived(b, ts, IF numbered THEN vendorId + 1 ELSE ts, ok)
    /\ base' = vendorId + 1 /\ whole' = TRUE
    /\ answer' = None
    /\ UNCHANGED <<clock, numbered, gaps, feeds, lost, unwritten, asking>>

\* A fault: a gap of one is taken for none.
RecordWideGap(id, written) ==
    LET gap == IF numbered /\ lastId # None /\ id > lastId + 2
               THEN {[feed |-> feeds, after |-> lastId, id |-> id]} ELSE {}
    IN  /\ gaps' = IF written THEN gaps \cup gap ELSE gaps
        /\ unwritten' = IF written THEN unwritten ELSE unwritten \cup gap

\* A number that skips others leaves a row that names the two around the gap; a write that fails leaves none.
RecordGap(id, written) ==
    LET gap == IF numbered /\ lastId # None /\ id > lastId + 1
               THEN {[feed |-> feeds, after |-> lastId, id |-> id]} ELSE {}
    IN  /\ gaps' = IF written THEN gaps \cup gap ELSE gaps
        /\ unwritten' = IF written THEN unwritten ELSE unwritten \cup gap

\* handleDepth of one level: a gap is noted, the level is applied all the same.
HandleDelta(side, price, size, written, ok) ==
    /\ vendorId < MaxId /\ truth[side][price] # size
    /\ vendorId' = vendorId + 1 /\ truth' = applyDelta(truth, side, price, size)
    /\ RecordGap(vendorId + 1, written)
    /\ Arrived(applyDelta(book, side, price, size), clock, IF numbered THEN vendorId + 1 ELSE clock, ok)
    /\ base' = IF base = None THEN vendorId + 1 ELSE base
    /\ answer' = None
    /\ UNCHANGED <<clock, numbered, feeds, whole, lost, asking>>

\* A change of the vendor's book whose message is lost.
Lost(side, price, size) ==
    /\ vendorId < MaxId /\ truth[side][price] # size
    /\ vendorId' = vendorId + 1 /\ truth' = applyDelta(truth, side, price, size)
    /\ lost' = lost \cup {vendorId + 1}
    /\ seen' = seen \cup {[time |-> clock, top |-> TopOf(truth')]}
    /\ answer' = None
    /\ UNCHANGED <<clock, numbered, book, prev, lastId, lastRecord, ring, lastUpdate, sent, gaps, lastSample, feeds,
                   base, whole, unwritten, queue, rows, asking>>

DepthTick ==
    /\ clock < MaxClock /\ clock' = clock + 1 /\ answer' = None
    /\ UNCHANGED <<numbered, queue, rows, asking>> /\ UNCHANGED bookVars

\* The timer of half a second; the store is closed the same way.
flushDepthQueue(ok) ==
    /\ queue # <<>>
    /\ queue' = <<>> /\ rows' = flushed(rows, queue, ok) /\ answer' = None
    /\ UNCHANGED <<clock, numbered, asking>> /\ UNCHANGED bookVars

-----------------------------------------------------------------------------
(* The heatmap. *)

\* queryDepthSnapshots: a page of the rows of a range by time, thinned to the first of each bucket.
queryDepthSnapshots(from, to, resolution, limit, offset) ==
    LET inRange == {r \in rows : r.time >= from /\ r.time <= to}
        place(r) == Cardinality({q \in inRange : q.time < r.time})
        page == {r \in inRange : place(r) >= offset /\ place(r) < offset + limit}
        firsts == {r \in page : \A q \in page : q.time < r.time => q.time \div resolution # r.time \div resolution}
    IN  [snapshots |-> {decoded(r) : r \in firsts}, totalAvailable |-> Cardinality(inRange),
         hasMore |-> Cardinality(inRange) > offset + limit]

Answer(source, snapshots, more) == [source |-> source, snapshots |-> snapshots, more |-> more]

FromRing(live, from, to) ==
    LET kept == {decoded(s) : s \in {x \in live : x.time >= from /\ x.time <= to}}
    IN  IF live # {} THEN Answer("live_memory", kept, FALSE) ELSE Answer("none", {}, FALSE)

\* The table, or a request to the vendor; the ring is read when the request comes in.
AskHeatmap(from, to) ==
    LET stored == queryDepthSnapshots(from, to, 1, 500, 0)
    IN  /\ IF stored.snapshots # {}
           THEN answer' = Answer("sqlite_mbp10", stored.snapshots, stored.hasMore) /\ UNCHANGED asking
           ELSE IF HasVendor
           THEN answer' = None /\ asking' = asking \cup {[from |-> from, to |-> to, live |-> getDepthHistory(from, to)]}
           ELSE answer' = FromRing(getDepthHistory(from, to), from, to) /\ UNCHANGED asking
        /\ UNCHANGED <<clock, numbered, queue, rows>> /\ UNCHANGED bookVars

\* The vendor's records are stored without numbers and answered with.
HeatmapFetched(r, records, ok) ==
    /\ r \in asking /\ asking' = asking \ {r}
    /\ records \subseteq {x \in seen : x.time >= r.from /\ x.time <= r.to}
    /\ LET mapped == {[time |-> x.time, bids |-> x.top.bids, asks |-> x.top.asks] : x \in records}
           batch  == {[time |-> m.time, bids |-> m.bids, asks |-> m.asks, seq |-> None] : m \in mapped}
       IN  IF records # {}
           THEN rows' = (IF ok THEN rows \cup batch ELSE rows) /\ answer' = Answer("databento", mapped, FALSE)
           ELSE UNCHANGED rows /\ answer' = FromRing(r.live, r.from, r.to)
    /\ UNCHANGED <<clock, numbered, queue>> /\ UNCHANGED bookVars

HeatmapFailed(r) ==
    /\ r \in asking /\ asking' = asking \ {r}
    /\ answer' = FromRing(r.live, r.from, r.to)
    /\ UNCHANGED <<clock, numbered, queue, rows>> /\ UNCHANGED bookVars

\* The rows from before a moment go.
cleanupOldDepthSnapshots(cutoff) ==
    /\ rows' = {r \in rows : r.time >= cutoff}
    /\ answer' = None
    /\ UNCHANGED <<clock, numbered, queue, asking>> /\ UNCHANGED bookVars

\* The vendor goes on counting, or begins anew.
CountsOn(renewed) ==
    /\ renewed => feeds < MaxFeeds
    /\ feeds' = IF renewed THEN feeds + 1 ELSE feeds
    /\ vendorId' = IF renewed THEN 0 ELSE vendorId
    /\ lost' = IF renewed THEN {} ELSE lost

\* The process ends without closing the store: the queue and the ring are gone, the next one starts with
\* an empty book, of a vendor that may count anew.
DepthRestart(renewed) ==
    /\ CountsOn(renewed)
    /\ book' = Empty /\ prev' = Empty /\ lastId' = None /\ lastRecord' = 0 /\ ring' = <<>>
    /\ lastUpdate' = 0 /\ sent' = None /\ lastSample' = None /\ queue' = <<>> /\ asking' = {}
    /\ answer' = None /\ base' = None /\ whole' = FALSE
    /\ UNCHANGED <<clock, numbered, truth, gaps, unwritten, seen, rows>>

\* doStartFeed in a context that had a feed: the book and the number of its last change are kept, of a
\* vendor that counts anew. (If it goes on counting nothing here changes.)
FeedRestart ==
    /\ CountsOn(TRUE)
    /\ answer' = None /\ base' = None /\ whole' = FALSE
    /\ UNCHANGED <<clock, numbered, truth, book, prev, lastId, lastRecord, ring, lastUpdate, sent, gaps, lastSample,
                   unwritten, seen, queue, rows, asking>>

\* The feed as the manager and the store see it, started again after the changes restarts name.
Stream(books, restarts) ==
    \/ \E b \in books : HandleSnapshot(b, FALSE, TRUE)
    \/ \E side \in {"bid", "ask"}, size \in 0..MaxSize :
          \E price \in Prices[side] :
             Lost(side, price, size) \/ \E written \in BOOLEAN : HandleDelta(side, price, size, written, TRUE)
    \/ DepthTick \/ flushDepthQueue(TRUE)
    \/ vendorId \in restarts /\ (FeedRestart \/ \E renewed \in BOOLEAN : DepthRestart(renewed))

\* The snapshots as they are kept and read, with a vendor that sends whole books only.
Kept(books, restarts, ranges, cutoffs) ==
    \/ \E b \in books, late, ok \in BOOLEAN : HandleSnapshot(b, late, ok)
    \/ DepthTick
    \/ vendorId \in restarts /\ DepthRestart(FALSE)
    \/ \E ok \in BOOLEAN : flushDepthQueue(ok)
    \/ asking = {} /\ \E r \in ranges : AskHeatmap(r[1], r[2])
    \/ \E r \in asking :
          \/ HeatmapFailed(r)
          \/ \E records \in SUBSET seen : Cardinality(records) <= 2 /\ HeatmapFetched(r, records, TRUE)
    \/ \E cutoff \in cutoffs : cleanupOldDepthSnapshots(cutoff)

\* The book and what is kept of it by themselves, with any number of records from the vendor.
DepthNext ==
    \/ Stream(Books, Nat)
    \/ Kept(Books, Nat, Int \X Int, Int)
    \/ \E r \in asking, records \in SUBSET seen, ok \in BOOLEAN : HeatmapFetched(r, records, ok)

DepthSpec == DepthInit /\ [][DepthNext]_depthVars

-----------------------------------------------------------------------------
(* Properties. *)

\* While the vendor numbers its changes the book is the vendor's from the first whole book of a feed on,
\* or a change was lost since the last one; and a lost change that later ones have passed is named by a
\* gap row, or the handler tried to write one: nobody is shown walls that are not there without a trace.
\* What was lost before the first message of a new numbering is not told, since a feed that is started
\* again in its context is measured with the number of the one before it.
MissedIsTold ==
    numbered /\ base # None =>
       /\ whole => book = truth \/ \E i \in lost : i > base
       /\ \A i \in lost : i > base /\ i < lastId =>
            \E g \in gaps \cup unwritten : g.feed = feeds /\ g.after < i /\ i < g.id

\* What the ring, the queue, the table and an answer hold for a moment is what the top of the process's or
\* the vendor's book was at that moment: no update, flush, fetch, eviction or restart moves a snapshot to
\* another time or keeps half of it.
KeptIsTrue ==
    LET True(s) == [time |-> s.time, top |-> [bids |-> s.bids, asks |-> s.asks]] \in seen
    IN  /\ \A s \in ToSet(ring) \cup ToSet(queue) \cup rows : True(s)
        /\ answer # None => \A s \in answer.snapshots : True(s)
        /\ Len(ring) <= RingSize /\ Len(queue) < Batch
        /\ \A i \in 1..(Len(queue) - 1) : queue[i + 1].time - queue[i].time >= Interval
=============================================================================
