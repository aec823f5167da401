-------------------------------- MODULE Wire --------------------------------
(***************************************************************************)
(* The bytes of the vendor's gateway and what the live client makes of     *)
(* them (src/server/src/databento/liveClient.ts): two phases of lines, the *)
(* metadata, then binary records, cut into chunks by the network wherever  *)
(* it likes. The client is the approved one; when it connects, expires or  *)
(* is hung up on is in OrdinaryClient.                                     *)
(*                                                                         *)
(* A stream is a sequence of units: lines, the metadata, records. A unit   *)
(* is a number of cells, and a cell (eight bytes of a record, some of a    *)
(* line) is the number of its unit with its place in it. The handler may   *)
(* look only at what the bytes of a cell would tell it: a line ends in its *)
(* last cell, a record tells its type and length in its first two.         *)
(***************************************************************************)
EXTENDS Integers, Sequences, FiniteSets, FiniteSetsExt, SequencesExt

CONSTANTS None,
          Header,      \* cells of a record's header (16 bytes)
          MaxRecord,   \* cells of the longest record (1024 bytes)
          NoMagic,     \* cells after which a stream without magic is given up (128 bytes)
          MaxBuffer,   \* cells that may wait (1 MiB)
          MaxChunk     \* bound: cells of a chunk

VARIABLES stream,      \* the units the vendor sends
          incoming,    \* cells on their way
          buffer,      \* cells it has not consumed
          step,        \* phase of connectTcp, or "stopped"
          dbnVersion,
          acked,       \* connected: the subscription was acknowledged
          told         \* what the client wrote and handed on, in order

wireVars == <<stream, incoming, buffer, step, dbnVersion, acked, told>>

-----------------------------------------------------------------------------
(* Units. *)

Line(text, size)      == [kind |-> "line", text |-> text, size |-> size]
Metadata(version, size, claim) == [kind |-> "metadata", version |-> version, size |-> size, claim |-> claim]
\* A record of a type, as long as its type asks (whole) or shorter, that claims a length.
Record(type, size, claim, whole, body) ==
    [kind |-> "record", type |-> type, size |-> size, claim |-> claim, whole |-> whole, body |-> body]
Order(action, side, price, quantity) == [action |-> action, side |-> side, price |-> price, quantity |-> quantity]
Message(code, text) == [code |-> code, text |-> text]

\* The cells of the first n units.
Cells(s, n) == LET f[i \in 0..n] == IF i = 0 THEN 0 ELSE f[i - 1] + s[i].size IN f[n]
Bytes(s) == FlattenSeq([i \in DOMAIN s |-> [k \in 1..s[i].size |-> <<i, k>>]])

UnitOf(cell) == stream[cell[1]]

-----------------------------------------------------------------------------
(* One record (parseDbnRecord). *)

Valid(x) == x # None /\ x > 0

\* Only a trade with a price and a size; one of the trades schema carries its identity.
TradeOf(r) ==
    IF r.type \in {"trades", "mbp-1", "mbp-10"} /\ r.whole /\ r.body.action = "T"
          /\ Valid(r.body.price) /\ Valid(r.body.quantity)
    THEN [price |-> r.body.price, quantity |-> r.body.quantity, identified |-> r.type = "trades",
          side |-> CASE r.body.side = "B" -> "BUY" [] r.body.side = "A" -> "SELL" [] OTHER -> "UNKNOWN"]
    ELSE None

\* A message of the gateway has a code of its own since version 2; before, or if it is short, the code
\* is read out of the text, and a text that says nothing is a heartbeat.
SystemCode(r, version) ==
    IF version >= 2 /\ r.whole THEN r.body.code
    ELSE CASE r.body.text \in {"subscribed", "subscription"} -> "ack"
           [] r.body.text = "slow reader" -> "slow reader"
           [] r.body.text = "replay" -> "replay completed"
           [] OTHER -> "heartbeat"

\* The length of the record at the start of b: 0 if these bytes cannot be one, if they are metadata
\* again, or if the header is not there.
LengthAt(b) ==
    IF Len(b) < Header \/ UnitOf(b[1]).kind # "record" \/ b[1][2] # 1 THEN 0
    ELSE LET claim == UnitOf(b[1]).claim IN IF claim \in Header..MaxRecord THEN claim ELSE 0

-----------------------------------------------------------------------------
(* The handler of a chunk. A state of it has the fields below; each phase *)
(* consumes what it can and leaves the rest.                               *)

State == [buffer |-> buffer, step |-> step, version |-> dbnVersion, acked |-> acked, told |-> told]
Drop(s, n)   == [s EXCEPT !.buffer = SubSeq(@, n + 1, Len(@))]
Say(s, what) == [s EXCEPT !.told = Append(@, what)]
Stop(s, why) == [Say(s, <<"stopped", why>>) EXCEPT !.step = "stopped"]

\* The first newline in the buffer, 0 if there is none.
Newline(b) ==
    LET ends == {i \in DOMAIN b : UnitOf(b[i]).kind = "line" /\ b[i][2] = UnitOf(b[i]).size}
    IN  IF ends = {} THEN 0 ELSE Min(ends)

\* A challenge is answered, other lines are passed over.
RECURSIVE ReadChallenge(_)
ReadChallenge(s) ==
    LET n == Newline(s.buffer) IN
    IF s.step # "cram" \/ n = 0 THEN s
    ELSE IF UnitOf(s.buffer[n]).text = "challenge" THEN [Say(Drop(s, n), <<"response">>) EXCEPT !.step = "auth"]
    ELSE ReadChallenge(Drop(s, n))

\* On success the client subscribes and starts the session, on failure it hangs up.
RECURSIVE ReadVerdict(_)
ReadVerdict(s) ==
    LET n == Newline(s.buffer) IN
    IF s.step # "auth" \/ n = 0 THEN s
    ELSE CASE UnitOf(s.buffer[n]).text = "success" -> [Say(Drop(s, n), <<"subscription">>) EXCEPT !.step = "dbn_header"]
           [] UnitOf(s.buffer[n]).text = "failure" -> Stop(Drop(s, n), "rejected")
           [] OTHER -> ReadVerdict(Drop(s, n))

\* The metadata tells its version and length at its start; bytes that do not begin with the magic are
\* waited for until there are enough of them to give up.
ReadMetadata(s) ==
    LET b == s.buffer IN
    IF s.step # "dbn_header" \/ b = <<>> THEN s
    ELSE IF UnitOf(b[1]).kind = "metadata"
    THEN LET t == [s EXCEPT !.version = UnitOf(b[1]).version] IN
         IF UnitOf(b[1]).claim > MaxBuffer THEN Stop(t, "metadata")
         ELSE IF Len(b) < UnitOf(b[1]).claim THEN t
         ELSE [Drop(t, UnitOf(b[1]).claim) EXCEPT !.step = "records"]
    ELSE IF Len(b) >= NoMagic THEN Stop(s, "framing") ELSE s

\* A fault: a trade is handed on before the subscription was acknowledged.
HandledEarly(s, r) ==
    IF r.type \in {"error", "system"} THEN s
    ELSE IF TradeOf(r) # None THEN Say(s, <<"trade", TradeOf(r)>>) ELSE s

\* What one record leads to. A second acknowledgement has no budget left (OrdinaryRuntimeGate.ack).
Handled(s, r) ==
    CASE r.type = "error" -> Stop(s, "gateway")
      [] r.type = "system" ->
           LET code == SystemCode(r, s.version)
               t    == Say(s, <<"control", code>>)
           IN  IF code # "ack" THEN t
               ELSE IF s.acked THEN Stop(t, "denied") ELSE [Say(t, <<"acknowledged">>) EXCEPT !.acked = TRUE]
      [] OTHER -> IF TradeOf(r) # None /\ s.acked THEN Say(s, <<"trade", TradeOf(r)>>) ELSE s

RECURSIVE ReadRecords(_)
ReadRecords(s) ==
    LET n == LengthAt(s.buffer) IN
    IF s.step # "records" \/ Len(s.buffer) < Header THEN s
    ELSE IF n = 0 THEN Stop(s, "framing")
    ELSE IF Len(s.buffer) < n THEN s
    ELSE LET t == Handled(s, UnitOf(s.buffer[1])) IN ReadRecords(Drop(t, n))

Handle(s) == ReadRecords(ReadMetadata(ReadVerdict(ReadChallenge(s))))

Become(s) ==
    /\ buffer' = s.buffer /\ step' = s.step /\ dbnVersion' = s.version
    /\ acked' = s.acked /\ told' = s.told

-----------------------------------------------------------------------------

WireInit(streams) ==
    /\ stream \in streams
    /\ incoming = Bytes(stream) /\ buffer = <<>> /\ step = "cram" /\ dbnVersion = 2 /\ acked = FALSE /\ told = <<>>

\* A chunk of n cells: appended and worked through, unless too much is waiting.
Data(n) ==
    /\ step # "stopped"
    /\ n <= Len(incoming)
    /\ incoming' = SubSeq(incoming, n + 1, Len(incoming))
    /\ Become(IF Len(buffer) + n > MaxBuffer THEN Stop(State, "too much")
              ELSE Handle([State EXCEPT !.buffer = @ \o SubSeq(incoming, 1, n)]))
    /\ UNCHANGED stream

WireNext == \E n \in 1..MaxChunk : Data(n)

-----------------------------------------------------------------------------
(* Properties. *)

\* The units that have arrived; a bad one as soon as its beginning gives it away.
Enough(u) ==
    CASE u.kind = "metadata" -> IF u.claim > MaxBuffer THEN 1 ELSE u.size
      [] u.kind = "record"   -> IF u.claim \in Header..MaxRecord THEN u.size ELSE Header
      [] OTHER -> u.size
Whole == LET arrived == Cells(stream, Len(stream)) - Len(incoming)
         IN  {i \in DOMAIN stream : Cells(stream, i - 1) + Enough(stream[i]) <= arrived}

\* What there is to see in the units that have arrived. The first challenge and the first verdict after
\* it; what follows a success is the metadata, or else a bad beginning; then come the records.
Seen ==
    LET whole == Whole
        First(j, texts) ==
            LET S == {i \in whole : i > j /\ stream[i].kind = "line" /\ stream[i].text \in texts}
            IN  IF S = {} THEN 0 ELSE Min(S)
        challenge == First(0, {"challenge"})
        verdict   == IF challenge = 0 THEN 0 ELSE First(challenge, {"success", "failure"})
        accepted  == verdict # 0 /\ stream[verdict].text = "success"
        metadata  == accepted /\ verdict < Len(stream) /\ stream[verdict + 1].kind = "metadata"
        fits      == metadata /\ stream[verdict + 1].claim <= MaxBuffer
        records   == IF fits /\ verdict + 1 \in whole THEN {i \in whole : i > verdict + 1} ELSE {}
        acks      == {i \in records : /\ stream[i].type = "system"
                                      /\ SystemCode(stream[i], stream[verdict + 1].version) = "ack"}
        fatal     == {i \in records : \/ stream[i].claim \notin Header..MaxRecord
                                      \/ stream[i].type = "error"
                                      \/ i \in acks /\ \E j \in acks : j < i}
    IN  [challenge |-> challenge, accepted |-> accepted, rejected |-> verdict # 0 /\ ~accepted,
         misbegun  |-> /\ accepted /\ ~fits
                       /\ IF metadata THEN verdict + 1 \in whole
                          ELSE Cells(stream, Len(stream)) - Len(incoming) - Cells(stream, verdict) >= NoMagic,
         fatal     |-> fatal,
         ack       |-> {i \in acks : \A j \in acks \cup fatal : i <= j},
         trades    |-> {i \in records : /\ TradeOf(stream[i]) # None
                                        /\ \E a \in acks : a < i
                                        /\ \A f \in fatal : i < f}]

Told(tag) == SelectSeq(told, LAMBDA e : e[1] = tag)
Overrun   == \E i \in DOMAIN told : told[i] = <<"stopped", "too much">>

\* However the network cuts the stream, a client that was not overrun has made of it what its units are,
\* each once and in order: it answered the first challenge, subscribed on the verdict after it, handed
\* on the trades between the acknowledgement and the first fatal unit and no others, and hung up at that
\* unit or at a bad beginning (the data handler of connectTcp, parseDbnRecord).
ChunksDoNotMatter ==
    ~Overrun =>
    LET seen   == Seen
        handed == Told("trade")
    IN  /\ Len(Told("response")) = IF seen.challenge = 0 THEN 0 ELSE 1
        /\ Len(Told("subscription")) = IF seen.accepted THEN 1 ELSE 0
        /\ Len(Told("acknowledged")) = Cardinality(seen.ack)
        /\ Len(handed) = Cardinality(seen.trades)
        /\ \A i \in seen.trades : handed[Cardinality({j \in seen.trades : j <= i})] = <<"trade", TradeOf(stream[i])>>
        /\ step = "stopped" <=> seen.rejected \/ seen.misbegun \/ seen.fatal # {}
=============================================================================
