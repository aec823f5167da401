------------------------------ MODULE MC_Store ------------------------------
(***************************************************************************)
(* Small instances of the store: the depth stream with its ring and gaps,  *)
(* the depth snapshots with the heatmap that is read from them, the        *)
(* migration of an old file, the retention of the other tables; and the    *)
(* bytes of the gateway, and the tape.  An initial state chooses one of    *)
(* them (its world), the others stand still.                               *)
(***************************************************************************)
EXTENDS Depth, Storage

VARIABLES world,
          stream, incoming, buffer, step, dbnVersion, acked, told,
          host, tape, recentTicks, rollingPriceVolumes, minute

B1 == [bid |-> (1 :> 1 @@ 2 :> 0), ask |-> (3 :> 1)]
B2 == [bid |-> (1 :> 1 @@ 2 :> 1), ask |-> (3 :> 0)]

ASSUME StorageConstants == StorageAssumption

Row(dataset, id, raw) == [dataset |-> dataset, id |-> id, raw |-> raw]
Files == {[key |-> "id", rows |-> {Row("cme", 1, "a"), Row("cme", 2, "b")}],
          [key |-> "id", rows |-> {Row("cme", 1, "a"), Row("cme", 2, "a")}],
          [key |-> "pair", rows |-> {Row("cme", 1, "a"), Row("opra", 1, "a")}]}
NoFile == [key |-> "pair", rows |-> {}]
NoRows == [t \in Tables |-> {}]
OldRows == [NoRows EXCEPT !["trades"] = {0, 2}, !["bars"] = {0, 1}, !["ingestion_checkpoints"] = {0}]

Wi == INSTANCE Wire WITH Header <- 2, MaxRecord <- 4, NoMagic <- 4, MaxBuffer <- 10, MaxChunk <- 7

\* Streams of the gateway: the good one, one of version 1, and those that end early.
Greeting(text) == <<Wi!Line("greeting", 2), Wi!Line(text, 2)>>
Success == Greeting("challenge") \o <<Wi!Line("lsg", 1), Wi!Line("success", 1)>>
System(code, text, long) == Wi!Record("system", IF long THEN 4 ELSE 3, IF long THEN 4 ELSE 3, long, Wi!Message(code, text))
Trade(type, action, side, price, quantity) == Wi!Record(type, 3, 3, TRUE, Wi!Order(action, side, price, quantity))
Buy     == Trade("trades", "T", "B", 7, 1)
Sell    == Trade("trades", "T", "A", 6, 2)
Empty1  == Trade("trades", "T", "A", None, 2)
Cancel  == Trade("trades", "C", "A", 6, 2)
Quote   == Trade("mbp-1", "T", "N", 6, 2)
Mapping == Wi!Record("mapping", 2, 2, FALSE, None)
Failing == Wi!Record("error", 2, 2, FALSE, None)
Broken(claim) == Wi!Record("trades", 3, claim, TRUE, Wi!Order("T", "B", 7, 1))
Ack == System("ack", "other", TRUE)
Flow == <<Mapping, Buy, Ack, Buy, Cancel, Empty1, System("heartbeat", "other", TRUE), Sell, Quote>>
Wires ==
    {Success \o <<Wi!Metadata(2, 3, 3)>> \o Flow \o tail : tail \in {<<>>, <<Failing, Sell>>, <<Ack, Sell>>, <<Broken(1), Sell>>, <<Broken(5), Sell>>}}
    \cup {Success \o <<Wi!Metadata(1, 2, 2), System("heartbeat", text, FALSE), Sell, System("ack", "slow reader", TRUE), Buy>> :
            text \in {"subscribed", "other"}}
    \cup {Greeting("lsg"), Greeting("challenge") \o <<Wi!Line("failure", 2), Wi!Line("success", 1)>>,
          Success \o <<Wi!Metadata(2, 3, 99), Buy>>, Success \o <<Ack, Buy, Sell>>,
          <<Wi!Line("success", 1)>> \o Success \o <<Wi!Metadata(2, 8, 8), Ack, Buy>>}

\* Trades of two prices, some late, against a book and against none.
At(time, price, size, side) == [time |-> time, price |-> price, size |-> size, side |-> side]
SomeTicks == {At(2, 1, 2, "sell"), At(6, 1, 1, "sell"), At(3, 2, 2, "buy"), At(2, 1, 1, "buy"), At(4, 2, 1, "unknown")}
SomeBooks == {[bid |-> 1, ask |-> 2], [bid |-> None, ask |-> 1]}

Ta == INSTANCE Tape WITH
    Ticks <- SomeTicks, Books <- SomeBooks, SpeedTime <- 2, AheadTime <- 3, LevelTime <- 2, StaleTime <- 3,
    MaxLevels <- 1, Absorbed <- 2, Value <- 3, NearTicks <- 0, MinuteTime <- 2, MaxKept <- 2, MaxTape <- 4, MaxHost <- 5

ASSUME TapeConstants == Ta!TapeAssumption

Init ==
    /\ world \in {"stream", "kept", "wire", "tape", "migration", "retention"}
    /\ DepthInit
    /\ Wi!WireInit(IF world = "wire" THEN Wires ELSE {<<>>})
    /\ Ta!TapeInit
    /\ CASE world = "migration" -> \E f \in Files : StorageInit(f, NoRows)
         [] world = "retention" -> StorageInit(NoFile, OldRows)
         [] OTHER -> StorageInit(NoFile, NoRows)

wireVars == <<stream, incoming, buffer, step, dbnVersion, acked, told>>
tapeVars == <<host, tape, recentTicks, rollingPriceVolumes, minute>>

Next ==
    /\ UNCHANGED world
    /\ \/ /\ UNCHANGED <<storageVars, wireVars, tapeVars>>
          /\ \/ world = "stream" /\ Stream({B1}, {2}) /\ clock' <= 2
             \/ world = "kept" /\ Kept({B1, B2}, {2}, {<<0, 4>>, <<2, 3>>}, {3}) /\ Cardinality(rows') <= 3
       \/ /\ UNCHANGED <<depthVars, wireVars, tapeVars>>
          /\ \/ world = "migration" /\ Migration
             \/ world = "retention" /\ Retention({"trades", "bars"}, {1, 3})
       \/ world = "wire" /\ Wi!WireNext /\ UNCHANGED <<depthVars, storageVars, tapeVars>>
       \/ world = "tape" /\ Ta!TapeNext /\ UNCHANGED <<depthVars, storageVars, wireVars>>

Spec == Init /\ [][Next]_<<depthVars, storageVars, wireVars, tapeVars, world>>

(* Depth, Wire, Tape: what the book missed is told, and what is kept or shown was the book once *)
(* (orderbook.ts, marketDataStore.ts, the heatmap of chartService.ts); the records handed on    *)
(* do not depend on how the network cut them (liveClient.ts); no volume is absorbed twice, and  *)
(* speed and microstructure are those of their windows (tapeEngine.ts, microstructure).         *)
StreamIsTrue == MissedIsTold /\ KeptIsTrue /\ Wi!ChunksDoNotMatter /\ Ta!TapeIsTrue
=============================================================================
