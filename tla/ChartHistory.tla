----------------------------- MODULE ChartHistory -----------------------------
(***************************************************************************)
(* The charts of the past (chart/chartService.ts behind chart/routes.ts):  *)
(* bars, footprints, cumulative delta, VWAP, large trades, the profiles,   *)
(* and the profile of a range, which says how complete it is.  They are    *)
(* made of what the store has (storage/marketDataStore.ts) and of what the *)
(* vendor serves (databento/client.ts); the figures are those of Engines.  *)
(*                                                                         *)
(* One symbol.  A request waits once, for the vendor, while the feed       *)
(* stores trades, retention deletes them and the process may restart.      *)
(* The trades are given, each happens at its time and the feed names it by *)
(* its number.  So does a record of the vendor, or where it cannot, by its *)
(* time, price and size: two trades may then have one id.  The vendor      *)
(* serves in the order of time, up to lag ago.                             *)
(***************************************************************************)
EXTENDS Engines

CONSTANTS
  Markets,      (* What may happen: trades; whether a client for the       *)
                (* vendor is configured, with its lag; and, to bound the   *)
                (* model, the charts asked for, how many at a time, and    *)
                (* the gaps recorded.                                      *)
  Ranges,       (* What is asked for.                                      *)
  Intervals,    (* The resolutions asked for, in seconds.                  *)
  MaxTime,
  FetchLimit,   (* The records one fetch asks for, by kind of chart.       *)
  RangeLimit,   (* The 25000 trades of a range's profile.                  *)
  PageLimit,    (* The 5000 rows queryTrades gives at most.                *)
  CacheTime,    (* The 15 seconds of rangeProfileCache.                    *)
  Retention,    (* olderThanMs.                                            *)
  Span,         (* How far back a request without a start goes, and a      *)
                (* fetch that the vendor is too late for.                  *)
  LargeSize,    (* minSize.                                                *)
  MaxPoints,    (* The 1000 points VWAP keeps of bars.                     *)
  Countback     (* The bars a chart asks for; a fetch is of twice as many. *)

Charts == {"bars", "footprint", "cvd", "profile", "range", "vwap", "large"}
Times  == 1..MaxTime

VARIABLES
  market,       (* One of Markets.                                         *)
  now,
  down,         (* Since when the feed is down, or None.                   *)
  stored,       (* trades, and                                             *)
  gaps,         (* gaps of the database, and                               *)
  checkpoints,  (* ingestion_checkpoints, with the time up to which the    *)
                (* vendor had trades when it was asked (history).          *)
  cache,        (* rangeProfileCache: answers and their end, by range.     *)
  waiting,      (* Requests whose fetch is under way.                      *)
  answer,       (* What the last step answered, or None.                   *)
  purged        (* History: the time before which trades were deleted.     *)

database == <<stored, gaps, checkpoints>>
vars == <<market, now, down, database, cache, waiting, answer, purged>>

----------------------------------------------------------------------------
(* What the store and the vendor give.                                      *)

ByTime(S) == SetToSortSeq(S, LAMBDA t, u : t.time < u.time \/ (t.time = u.time /\ t.number < u.number))
Earliest(S, n) == LET s == ByTime(S) IN SubSeq(s, 1, Smaller(n, Len(s)))
Latest(S, n)   == LastOf(ByTime(S), n)
During(S, from, to) == {t \in S : from <= t.time /\ t.time <= to}

(* queryTradesRange and queryTrades. *)
TradesRange(from, to) == Earliest(During(stored, from, to), RangeLimit)
TradesBefore(to)      == Latest({t \in stored : t.time < to}, PageLimit)

GapsIn(from, to)        == {g \in gaps : g.to >= from /\ g.from <= to}
CheckpointsIn(from, to) == {c \in checkpoints : c.to >= from /\ c.from <= to}

(* A window that ends after what the vendor has is cut there by a second    *)
(* request, and moved back when nothing of it is left.                      *)
Available == Greater(0, now - market.lag)
Window(from, to) ==
  IF to <= Available THEN [from |-> from, to |-> to]
  ELSE [from |-> IF from >= Available THEN Available - Span ELSE from, to |-> Available]

(* getHistoricalTrades: the first limit records of the window.  Bars are    *)
(* records of one unit of time, and those the trades beneath them.          *)
FirstTimes(S, n) == LET times == {t.time : t \in S} IN {x \in times : Cardinality({y \in times : y < x}) < n}
Fetched(r) ==
  LET w == Window(r.from, r.to)
      S == During(market.trades, w.from, w.to)
      n == FetchLimit[r.kind]
  IN  IF r.kind \in {"bars", "vwap"} THEN ByTime({t \in S : t.time \in FirstTimes(S, n)})
      ELSE Earliest(S, n)

(* getHistoricalBars. *)
BarOf(s, time) ==
  [time |-> time, open |-> s[1].price, high |-> Max({s[i].price : i \in DOMAIN s}),
   low |-> Min({s[i].price : i \in DOMAIN s}), close |-> Last(s).price,
   volume |-> SumOver([i \in DOMAIN s |-> s[i].size], 1, Len(s))]
BarsOf(s) ==
  LET times == SetToSortSeq({t.time : t \in ToSet(s)}, <)
  IN  [i \in DOMAIN times |-> BarOf(SelectSeq(s, LAMBDA t : t.time = times[i]), times[i])]

----------------------------------------------------------------------------
(* The resolution of bars: what is asked from the vendor and what is made   *)
(* of it.  Intervals are in seconds.                                        *)

Minute == 60
Hour   == 60 * Minute
Day    == 24 * Hour

(* supported_resolutions, as parseTradingViewResolution reads them.         *)
Supported == {1, 5, 15, 30} \cup {n * Minute : n \in {1, 3, 5, 15, 30, 60, 120, 240}}
               \cup {Day, 7 * Day, 30 * Day}

(* The bars of the vendor: of a second, a minute, an hour or a day.         *)
Base(interval) ==
  IF interval < Minute THEN 1
  ELSE IF interval < Hour THEN Minute
  ELSE IF interval < Day THEN Hour ELSE Day

Bucket(b, n) == (b.time \div n) * n

(* A fault: the last bucket is only pushed by a bar after it.               *)
LastLost(bars, n) ==
  LET Add(done, b) ==
        IF done = <<>> \/ Last(done).time # Bucket(b, n) THEN Append(done, [b EXCEPT !.time = Bucket(b, n)])
        ELSE done
  IN  FoldLeft(Add, <<>>, bars)
(* aggregateBars, of bars n times as long. *)
Aggregate(bars, n) ==
  LET Add(done, b) ==
        IF done = <<>> \/ Last(done).time # Bucket(b, n) THEN Append(done, [b EXCEPT !.time = Bucket(b, n)])
        ELSE [done EXCEPT ![Len(done)] = [@ EXCEPT !.high = Greater(@, b.high), !.low = Smaller(@, b.low),
                                                   !.close = b.close, !.volume = @ + b.volume]]
  IN  FoldLeft(Add, <<>>, bars)

(* getUdfHistory; interval is a multiple of Base.                           *)
Bars(s, interval) ==
  LET n == interval \div Base(interval)
  IN  LastOf(IF n > 1 THEN Aggregate(BarsOf(s), n) ELSE BarsOf(s), Countback)

----------------------------------------------------------------------------
(* The figures made of a sequence of trades.                                *)

(* getFootprintData: the bars by time, as each was last returned by a tick. *)
FootprintBars(s) ==
  LET Put(bars, b) == IF b = None THEN bars
                      ELSE [x \in DOMAIN bars \cup {b.time} |-> IF x = b.time THEN b ELSE bars[x]]
      Add(acc, t)  == LET out == Process(acc.fp, t)
                      IN  [fp |-> out.engine, bars |-> Put(Put(acc.bars, out.closed), out.engine.bar)]
  IN  FoldLeft(Add, [fp |-> NewFootprint, bars |-> <<>>], s).bars

Signed(t) == IF t.side = "buy" THEN t.size ELSE -t.size

(* getCvdData: what is not bought was sold. *)
Cvd(s) ==
  [i \in DOMAIN s |-> [time |-> s[i].time, delta |-> Signed(s[i]),
                       cumulative |-> SumOver([j \in DOMAIN s |-> Signed(s[j])], 1, i)]]

Profile(s, start) == FoldLeft(ProfileTick, NewProfile(start), s)
Ladder(pr) ==
  [total |-> pr.total, levels |-> pr.levels,
   area  |-> IF pr.total = 0 THEN None ELSE VolumeProfile(pr)]

(* getLargeTrades, whose value in dollars follows the size here. *)
Large(s) == SelectSeq(s, LAMBDA t : t.size >= LargeSize)

(* getVwapData: three times the typical price, weighed by a volume of at least one, *)
(* of the last bars.                                                                 *)
Typical(b) == b.high + b.low + b.close
Vwap(bars, start) ==
  LET used == SelectSeq(bars, LAMBDA b : b.time >= start)
      v(j) == Greater(1, used[j].volume)
  IN  LastOf([i \in DOMAIN used |->
                [time |-> used[i].time, volume |-> SumOver([j \in DOMAIN used |-> v(j)], 1, i),
                 pv |-> SumOver([j \in DOMAIN used |-> Typical(used[j]) * v(j)], 1, i)]], MaxPoints)

Figure(r, s) ==
  CASE r.kind = "footprint" -> FootprintBars(s)
    [] r.kind = "cvd"       -> Cvd(s)
    [] r.kind = "large"     -> Large(s)
    [] r.kind = "profile"   -> Ladder(Profile(s, r.from))
    [] r.kind = "bars"      -> Bars(s, r.interval)
    [] r.kind = "vwap"      -> Vwap(BarsOf(s), r.from)

----------------------------------------------------------------------------
(* The profile of a range.                                                  *)

Covers(c, r)   == c.from <= r.from /\ c.to >= r.to
Covering(r)    == {c \in checkpoints' : Covers(c, r) /\ c.status = "COMPLETE"}
OneById(s)     == FoldLeft(LAMBDA done, t : IF \E i \in DOMAIN done : done[i].id = t.id THEN done ELSE Append(done, t),
                           <<>>, s)

(* What is said of a range with trades, by how they were found and by what  *)
(* is known of it.                                                          *)
Coverage(r, s, full) ==
  LET known == {c \in checkpoints' : c.to >= r.from /\ c.from <= r.to} IN
  IF full \/ (\E g \in gaps : g.to >= r.from /\ g.from <= r.to) THEN "PARTIAL"
  ELSE IF known = {} THEN "UNKNOWN"
  ELSE IF (\E c \in known : c.status = "PARTIAL") \/ Covering(r) = {} THEN "PARTIAL"
  ELSE "COMPLETE"

(* Of one without: it had none, or nothing is known.                        *)
Emptiness(r) ==
  IF Covering(r) # {} /\ ~\E g \in gaps : g.to >= r.from /\ g.from <= r.to THEN "COMPLETE" ELSE "UNKNOWN"

(* History: what the label rests on is a fetch that the vendor was not too  *)
(* late for, and nothing of the range was deleted.                          *)
Settled(r) == purged <= r.from /\ \E c \in Covering(r) : c.upTo >= r.to

RangeAnswer(r, s, full) ==
  LET used == SelectSeq(OneById(s), LAMBDA t : r.from <= t.time /\ t.time <= r.to)
  IN  [kind |-> "range", from |-> r.from, to |-> r.to, made |-> s,
       figure |-> Ladder(Profile(used, r.from)), settled |-> Settled(r),
       label  |-> IF s = <<>> THEN Emptiness(r) ELSE Coverage(r, s, full)]

(* An answer made of trades is kept for a while. *)
KeepAnswer(r, a) ==
  cache' = IF a.made = <<>> THEN cache
           ELSE [x \in DOMAIN cache \cup {<<r.from, r.to>>} |->
                   IF x = <<r.from, r.to>> THEN [answer |-> a, exp |-> now + CacheTime] ELSE cache[x]]

AnswerRange(r, s, full) ==
  LET a == RangeAnswer(r, s, full) IN answer' = a /\ KeepAnswer(r, a)

----------------------------------------------------------------------------
(* Requests.                                                                *)

Answered(r, s) == [kind |-> r.kind, interval |-> r.interval, made |-> s, figure |-> Figure(r, s)]
NoAnswer(r)    == [kind |-> r.kind, made |-> None]

(* The store's trades, for the profiles when the vendor has none.           *)
FromStore(r) == SelectSeq(TradesBefore(r.to), LAMBDA t : t.time >= r.from)

(* The ranges of a request: given, or the last while up to now.             *)
Default == <<Greater(1, now - Span), now>>
Asked   == [kind : Charts, from : Times, to : Times, interval : Intervals]

Request(kind) ==
  {[kind |-> kind, from |-> x[1], to |-> x[2], interval |-> i] :
     x \in {y \in Ranges \cup {Default} : kind # "range" \/ y[1] < y[2]},
     i \in IF kind = "bars" THEN Intervals ELSE {Minute}}

Fetch(r) == waiting' = waiting \cup {r} /\ answer' = None /\ UNCHANGED cache

(* The profile of a range asks the cache, and the store before the vendor.  *)
AskRange(r) ==
  LET s == TradesRange(r.from, r.to)
      x == <<r.from, r.to>>
  IN  IF x \in DOMAIN cache
      THEN answer' = cache[x].answer /\ UNCHANGED <<cache, waiting>>
      ELSE IF s = <<>> /\ market.configured THEN Fetch(r)
      ELSE AnswerRange(r, s, Len(s) >= RangeLimit) /\ UNCHANGED waiting

(* The others ask the vendor first: without one the profile is of the store *)
(* and the rest have nothing.                                               *)
AskOther(r) ==
  IF market.configured THEN Fetch(r)
  ELSE /\ answer' = IF r.kind = "profile" THEN Answered(r, FromStore(r)) ELSE NoAnswer(r)
       /\ UNCHANGED <<cache, waiting>>

Ask(kind) ==
  \E r \in Request(kind) :
    /\ kind \in market.charts /\ Cardinality(waiting) < market.atOnce
    /\ UNCHANGED <<market, now, down, database, purged>>
    /\ IF kind = "range" THEN AskRange(r) ELSE AskOther(r)

(* saveTrades in one transaction: a row per id; a second trade with the id  *)
(* of another is a duplicate, or a conflict if it went the other way.       *)
Conflict(s) == \E t \in ToSet(s), u \in ToSet(s) \cup stored : t.id = u.id /\ t.side # u.side
SaveTrades(s) ==
  stored' = stored \cup {t \in ToSet(OneById(s)) : \A u \in stored : u.id # t.id}

(* recordCheckpoint replaces what was said of the same range. *)
Checkpoint(r, status) ==
  checkpoints' = {c \in checkpoints : c.from # r.from \/ c.to # r.to}
                   \cup {[from |-> r.from, to |-> r.to, status |-> status, upTo |-> Available]}

FetchStatus(n)    == IF n < FetchLimit["range"] THEN "COMPLETE" ELSE "PARTIAL"

RangeFetched(r) ==
  LET s == Fetched(r) IN
  /\ s # <<>> /\ ~Conflict(s)
  /\ SaveTrades(s) /\ Checkpoint(r, FetchStatus(Len(s))) /\ UNCHANGED gaps
  /\ AnswerRange(r, s, Len(s) >= FetchLimit["range"])

(* A fault: a fetch that failed is recorded as one that found nothing.       *)
FailureIsEmpty(r) ==
  /\ Checkpoint(r, "COMPLETE") /\ UNCHANGED <<stored, gaps>>
  /\ AnswerRange(r, <<>>, FALSE)
(* The vendor has nothing, or fails, or what it has cannot be saved. *)
RangeNotFetched(r) ==
  /\ UNCHANGED database
  /\ AnswerRange(r, <<>>, FALSE)

OtherFetched(r) ==
  LET s == Fetched(r) IN
  /\ answer' = Answered(r, IF s = <<>> /\ r.kind = "profile" THEN FromStore(r) ELSE s)
  /\ UNCHANGED <<database, cache>>

(* A failed fetch: the profile is of the store, large trades are none, the  *)
(* bars no data, the rest an error.                                         *)
OtherNotFetched(r) ==
  /\ answer' = IF r.kind = "profile" THEN Answered(r, FromStore(r)) ELSE NoAnswer(r)
  /\ UNCHANGED <<database, cache>>

VendorAnswers(r) ==
  /\ waiting' = waiting \ {r}
  /\ IF r.kind = "range" THEN RangeFetched(r) ELSE OtherFetched(r)
  /\ UNCHANGED <<market, now, down, purged>>

VendorFails(r) ==
  /\ waiting' = waiting \ {r}
  /\ IF r.kind = "range" THEN RangeNotFetched(r) ELSE OtherNotFetched(r)
  /\ UNCHANGED <<market, now, down, purged>>

----------------------------------------------------------------------------
(* Around them.                                                             *)

(* Time passes: what the feed delivers is stored, unless it is, and answers *)
(* that expired are as good as gone.                                        *)
Delivered == {[t EXCEPT !.id = t.number] : t \in {u \in market.trades : u.time = now'}}
Tick ==
  /\ now < MaxTime /\ now' = now + 1 /\ answer' = None
  /\ stored' = stored \cup IF down = None THEN {t \in Delivered : \A u \in stored : u.id # t.id} ELSE {}
  /\ cache' = [x \in {y \in DOMAIN cache : now' < cache[y].exp} |-> cache[x]]
  /\ UNCHANGED <<market, down, gaps, checkpoints, waiting, purged>>

FeedDrops ==
  /\ Cardinality(gaps) < market.gaps
  /\ down = None /\ down' = now /\ answer' = None
  /\ UNCHANGED <<market, now, database, cache, waiting, purged>>

(* The feed is back; the gap may have been noticed, then it is recorded. *)
FeedReturns(noticed) ==
  /\ down # None /\ down' = None /\ answer' = None
  /\ gaps' = IF noticed THEN gaps \cup {[from |-> down, to |-> now]} ELSE gaps
  /\ UNCHANGED <<market, now, stored, checkpoints, cache, waiting, purged>>

(* purgeOldData. *)
Purge ==
  LET cutoff == now - Retention IN
  /\ Retention > 0 /\ answer' = None
  /\ stored' = {t \in stored : t.time >= cutoff}
  /\ gaps' = {g \in gaps : g.to >= cutoff}
  /\ checkpoints' = {c \in checkpoints : c.to >= cutoff}
  /\ purged' = Greater(purged, cutoff)
  /\ UNCHANGED <<market, now, down, cache, waiting>>

Restart ==
  /\ waiting' = {} /\ cache' = <<>> /\ down' = None /\ answer' = None
  /\ UNCHANGED <<market, now, database, purged>>

Init ==
  /\ market \in Markets /\ now = 1 /\ down = None
  /\ stored = {} /\ gaps = {} /\ checkpoints = {}
  /\ cache = <<>> /\ waiting = {} /\ answer = None /\ purged = 0

Next ==
  \/ \E kind \in Charts : Ask(kind)
  \/ \E r \in waiting : VendorAnswers(r) \/ VendorFails(r)
  \/ Tick \/ FeedDrops \/ \E noticed \in BOOLEAN : FeedReturns(noticed)
  \/ Purge \/ Restart

Spec == Init /\ [][Next]_vars

----------------------------------------------------------------------------
(* What holds of them.                                                      *)

IsTrade(t) == DOMAIN t = {"number", "id", "time", "price", "size", "side"}

TypeOK ==
  /\ market \in Markets /\ now \in Times /\ down \in Times \cup {None}
  /\ \A t \in stored : IsTrade(t) /\ \E u \in market.trades : t = u \/ t = [u EXCEPT !.id = u.number]
  /\ gaps \subseteq [from : Times, to : Times]
  /\ checkpoints \subseteq [from : Times, to : Times, status : {"COMPLETE", "PARTIAL"}, upTo : 0..MaxTime]
  /\ \A x \in DOMAIN cache : x \in Times \X Times /\ cache[x].answer.kind = "range"
  /\ waiting \subseteq Asked /\ Cardinality(waiting) <= market.atOnce
  /\ purged \in Nat

TheTrades(r) == During(market.trades, r.from, r.to)
Named(S)     == \A t \in S : t.id = t.number

(* The store and what is kept beside it agree: an id has one row and a range one checkpoint, the *)
(* cache answers for its own range and not for long, and where a fetch that the vendor was not   *)
(* too late for is recorded as complete, the store has every id of the range (chartService.ts:   *)
(* 707-733, saveTrades, recordCheckpoint).                                                       *)
HistoryInv ==
  /\ TypeOK
  /\ \A t, u \in stored : t.id = u.id => t = u
  /\ \A c, d \in checkpoints : c.from = d.from /\ c.to = d.to => c = d
  /\ \A x \in DOMAIN cache :
       /\ cache[x].answer.from = x[1] /\ cache[x].answer.to = x[2]
       /\ now < cache[x].exp /\ cache[x].exp <= now + CacheTime
  /\ \A c \in checkpoints :
       c.status = "COMPLETE" /\ c.upTo >= c.to =>
         \A t \in TheTrades(c) : t.time >= purged => \E u \in stored : u.id = t.id

(* A profile that is said to be complete is the profile of all the trades of its range, if the   *)
(* vendor had them when it was asked, nothing was deleted and the records name their trades: not *)
(* cut by a limit, not of what was left after a fetch that failed (getVolumeProfileRange).       *)
CompleteWhenSettled ==
  answer # None /\ answer.kind = "range" =>
    (answer.label = "COMPLETE" /\ answer.settled =>
       /\ \A t \in TheTrades(answer) : \E i \in DOMAIN answer.made : answer.made[i].id \in {t.id, t.number}
       /\ Named(TheTrades(answer)) =>
            answer.figure = Ladder(Profile(ByTime(TheTrades(answer)), answer.from)))

(* "Zero trades recorded in verified complete session range", and no bar or volume is missing in *)
(* a profile that says so: what COMPLETE says (chartService.ts:764, 836).                        *)
CompleteMeansComplete ==
  answer # None /\ answer.kind = "range" =>
    (answer.label = "COMPLETE" =>
       \A t \in TheTrades(answer) : t.time <= now =>
         \E i \in DOMAIN answer.made : answer.made[i].id \in {t.id, t.number})

SizeOf(S) == MapThenSumSet(LAMBDA t : t.size, S)
Bought(S) == SizeOf({t \in S : t.side = "buy"})
Sold(S)   == SizeOf({t \in S : t.side = "sell"})
InBucket(S, time, n) == {t \in S : Bucket(t, n) = time}

(* The charts are of the trades they are made of: footprint bars hold them all, whatever number  *)
(* the engine remembers, with their delta; the last sum of the delta is what was bought less all *)
(* else; bars of any interval are what the trades in them make; profiles add up.  And every      *)
(* interval that is offered is a multiple of the vendor's bar it is built of.                    *)
FiguresAddUp ==
  /\ \A i \in Supported : i % Base(i) = 0
  /\ answer # None /\ answer.made # None /\ answer.kind # "range" =>
       LET S == ToSet(IF answer.kind = "footprint" THEN OneById(answer.made) ELSE answer.made) IN
       CASE answer.kind = "footprint" ->
              /\ DOMAIN answer.figure = {Bucket(t, BarTime) : t \in S}
              /\ \A x \in DOMAIN answer.figure :
                   LET T == InBucket(S, x, BarTime) IN
                   /\ answer.figure[x].volume = SizeOf(T)
                   /\ Delta(answer.figure[x]) = Bought(T) - Sold(T)
                   /\ answer.figure[x].cvd = LET U == {t \in S : Bucket(t, BarTime) <= x} IN Bought(U) - Sold(U)
         [] answer.kind = "cvd" ->
              answer.made # <<>> =>
                Last(answer.figure).cumulative = 2 * Bought(S) - SizeOf(S)
         [] answer.kind = "bars" ->
              LET n == answer.interval \div Base(answer.interval)
                  times == SetToSortSeq({Bucket(t, n) : t \in S}, <)
              IN answer.figure = LastOf([i \in DOMAIN times |->
                                   BarOf(ByTime(InBucket(S, times[i], n)), times[i])], Countback)
         [] answer.kind = "profile" -> answer.figure.total = SizeOf(S)
         [] OTHER -> TRUE

============================================================================
