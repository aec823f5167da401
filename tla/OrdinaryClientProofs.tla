-------------------------- MODULE OrdinaryClientProofs --------------------------
(***************************************************************************)
(* Proofs about OrdinaryClient for any number of waiters, any expiry and   *)
(* any bounds.                                                             *)
(***************************************************************************)
EXTENDS OrdinaryClient, FiniteSetTheorems, TLAPS

(* Settling leaves nobody pending.                                         *)
LEMMA SettledNobodyPending ==
  ASSUME TypeOK, NEW verdict \in {"resolved", "rejected"}, waiters' = Settled(verdict)
  PROVE  /\ waiters' \in [Waiters -> {"none", "pending", "resolved", "rejected"}]
         /\ Pending' = {}
  BY DEF TypeOK, Settled, Pending

LEMMA EmptyWithinBudget == Cardinality({}) <= MaxWaiters
  BY ClientAssumption, FS_EmptySet

LEMMA InitClientInv == Init => ClientInv
  <1> SUFFICES ASSUME Init PROVE ClientInv
    OBVIOUS
  <1>1. Pending = {}
    BY DEF Init, Pending
  <1>2. TypeOK
    <2>1. /\ wall \in Time /\ mono \in Time /\ high \in Time
          /\ approvalMono \in Nat /\ expiryMono \in Int /\ sockets \in Nat /\ delivered \in 0..MaxTrades
      BY ClientAssumption DEF Init, Time
    <2>2. waiters \in [Waiters -> {"none", "pending", "resolved", "rejected"}]
      BY DEF Init
    <2> QED
      BY <2>1, <2>2 DEF Init, TypeOK
  <1> QED
    BY <1>1, <1>2, EmptyWithinBudget
       DEF Init, ClientInv, BudgetInOrder, HandlerOnOpenSocket, GoesOnAfterCallback,
           LiveOnlyWhenPaid, NothingOutlivesTheSocket, OpenSocketIsWatched, OneSocket,
           NoWaiterLeftBehind, EndIsTold

(* Every way out through disconnect keeps the invariant, also from inside  *)
(* a handler that is to go on, provided the context has met the expiry.    *)
LEMMA DisconnectStep ==
  ASSUME ClientInv, Disconnect, UNCHANGED <<clocks, gate, sockets>>,
         stage' \in {"cram", "auth", "dbn_header", "records"},
         inside' \in {"none", "auth", "sent", "system", "control", "ack"},
         inside' # "none" => running' /\ expiryHandled',
         approvalMono' \in Nat, delivered' \in 0..MaxTrades,
         expiryMono' \in Int, expiryHandled' \in BOOLEAN,
         running' \in BOOLEAN, current' = FALSE, told' = TRUE
  PROVE  ClientInv'
  <1> USE DEF ClientInv, Disconnect
  <1>1. /\ waiters' \in [Waiters -> {"none", "pending", "resolved", "rejected"}]
        /\ Pending' = {}
    BY SettledNobodyPending
  <1>2. TypeOK'
    BY <1>1 DEF TypeOK, clocks, gate
  <1> QED
    BY <1>1, <1>2, EmptyWithinBudget
       DEF clocks, gate, BudgetInOrder, HandlerOnOpenSocket, GoesOnAfterCallback,
           LiveOnlyWhenPaid, NothingOutlivesTheSocket, OpenSocketIsWatched, OneSocket,
           NoWaiterLeftBehind, EndIsTold

(* Steps that only move the clocks, the highwater mark or the revocation,  *)
(* or begin or end a handler or a stage, or one of its callbacks.          *)
LEMMA QuietStep ==
  ASSUME ClientInv, TypeOK', HandlerOnOpenSocket', GoesOnAfterCallback',
         inside # "ack" \/ inside' = inside, inside' = "connect" <=> inside = "connect",
         UNCHANGED <<budget, socket, connected, hasMarket, intentionallyClosed,
                     timers, expiryHandled, waiters, log>>
  PROVE  ClientInv'
  <1>1. Pending' = Pending
    BY DEF Pending
  <1> QED
    BY <1>1 DEF ClientInv, log, BudgetInOrder, LiveOnlyWhenPaid, OpenSocketIsWatched,
       NothingOutlivesTheSocket, OneSocket, NoWaiterLeftBehind, EndIsTold

(* A callback of the handler, with the flag c set before it: the context   *)
(* cuts the client off, or the handler goes on as it was.                  *)
LEMMA StatusStep ==
  ASSUME ClientInv, NEW c \in BOOLEAN, OnStatus(c),
         running, current \/ (socket = "none" /\ expiryHandled),
         inside \notin {"connect", "ack"}, UNCHANGED <<clocks, gate, running>>,
         stage' \in {"cram", "auth", "dbn_header", "records"},
         inside' \in {"none", "auth", "sent", "system", "control", "ack"},
         c => connected \/ inside' = "ack"
  PROVE  ClientInv'
  <1>1. CASE Cut
    BY <1>1, DisconnectStep DEF Cut, ClientInv, TypeOK
  <1>2. CASE /\ connected' = c
             /\ UNCHANGED <<socket, current, hasMarket, intentionallyClosed, approvalMono,
                            timers, health, waiters, log>>
    <2> USE <1>2 DEF ClientInv, health, log, clocks, gate
    <2>1. Pending' = Pending
      BY DEF Pending
    <2>2. TypeOK'
      BY DEF TypeOK
    <2>3. GoesOnAfterCallback' /\ HandlerOnOpenSocket' /\ BudgetInOrder'
      BY DEF GoesOnAfterCallback, HandlerOnOpenSocket, BudgetInOrder
    <2>4. LiveOnlyWhenPaid' /\ OpenSocketIsWatched'
      BY DEF LiveOnlyWhenPaid, OpenSocketIsWatched
    <2>5. NothingOutlivesTheSocket'
      BY <2>1 DEF NothingOutlivesTheSocket, HandlerOnOpenSocket
    <2> QED
      BY <2>1, <2>2, <2>3, <2>4, <2>5 DEF OneSocket, NoWaiterLeftBehind, EndIsTold
  <1> QED
    BY <1>1, <1>2 DEF OnStatus

LEMMA ConnectStep == ClientInv /\ Connect => ClientInv'
  <1> SUFFICES ASSUME ClientInv, Connect PROVE ClientInv'
    OBVIOUS
  <1> USE DEF ClientInv, Connect, MayConnect, Idle, Spend, clocks, health
  <1>1. Pending' = Pending
    BY DEF Pending
  <1>2. mono + Expires - wall \in Nat
    BY ClientAssumption DEF TypeOK, Time, Authorized
  <1>3. sockets = 0 /\ ~hasMarket /\ ~current
    BY DEF OneSocket, TypeOK, Spendable, NothingOutlivesTheSocket, HandlerOnOpenSocket
  <1>4. TypeOK'
    <2>1. high' \in Time /\ budget' \subseteq Kinds
      BY <1>3 DEF TypeOK, Later, Kinds
    <2> QED
      BY <1>2, <2>1 DEF TypeOK
  <1> QED
    BY <1>1, <1>3, <1>4
       DEF TypeOK, Spendable, BudgetInOrder, HandlerOnOpenSocket, GoesOnAfterCallback,
           LiveOnlyWhenPaid, NothingOutlivesTheSocket, OpenSocketIsWatched, OneSocket,
           NoWaiterLeftBehind, EndIsTold, Kinds

(* The attempt is spent; then the expiry is found.                         *)
LEMMA ConnectFailsStep == ClientInv /\ ConnectFails => ClientInv'
  <1> SUFFICES ASSUME ClientInv, ConnectFails PROVE ClientInv'
    OBVIOUS
  <1> USE DEF ClientInv, ConnectFails, MayConnect, Idle, Spend, clocks, conn, health, log
  <1>1. Pending' = Pending
    BY DEF Pending
  <1>2. /\ "attempts" \notin budget
        /\ high' \in Time /\ budget' \subseteq Kinds
    BY DEF TypeOK, Spendable, Later, Kinds
  <1>3. BudgetInOrder'
    BY <1>2 DEF BudgetInOrder, Kinds, TypeOK
  <1>4. TypeOK'
    BY <1>2 DEF TypeOK
  <1>5. ~hasMarket
    BY DEF NothingOutlivesTheSocket
  <1> QED
    BY <1>1, <1>2, <1>3, <1>4, <1>5
       DEF HandlerOnOpenSocket, GoesOnAfterCallback, LiveOnlyWhenPaid, OneSocket,
           NothingOutlivesTheSocket, OpenSocketIsWatched, NoWaiterLeftBehind, EndIsTold

(* The socket is opened: with its timers, or with the expiry handled.      *)
LEMMA ConnectTcpStep == ClientInv /\ (ConnectTcp \/ ConnectTcpCut) => ClientInv'
  <1> SUFFICES ASSUME ClientInv, ConnectTcp \/ ConnectTcpCut PROVE ClientInv'
    OBVIOUS
  <1> USE DEF ClientInv
  <1>1. /\ inside = "connect" /\ inside' = "none" /\ expiryMono' \in Int
        /\ socket' = "open" /\ stage' = "cram" /\ sockets' = 1
        /\ UNCHANGED <<clocks, gate, running, current, connected, hasMarket,
                       approvalMono, delivered>>
    BY ClientAssumption DEF ConnectTcp, ConnectTcpCut, Connecting, OpenSocket,
       GoesOnAfterCallback, TypeOK, Time
  <1>2. /\ ~running /\ ~current /\ ~connected /\ ~hasMarket
        /\ timers /\ ~intentionallyClosed /\ "attempts" \in budget
    BY <1>1 DEF GoesOnAfterCallback
  <1>3. CASE ConnectTcp
    <2> USE <1>3 DEF ConnectTcp
    <2>1. Pending' = Pending
      BY DEF Pending
    <2>2. TypeOK'
      BY <1>1 DEF TypeOK, clocks, gate
    <2> QED
      BY <1>1, <1>2, <2>1, <2>2
         DEF gate, BudgetInOrder, HandlerOnOpenSocket, GoesOnAfterCallback, LiveOnlyWhenPaid,
             NothingOutlivesTheSocket, OpenSocketIsWatched, OneSocket, NoWaiterLeftBehind,
             EndIsTold
  <1>4. CASE ConnectTcpCut
    <2> USE <1>4 DEF ConnectTcpCut
    <2>1. /\ waiters' \in [Waiters -> {"none", "pending", "resolved", "rejected"}]
          /\ Pending' = {}
      BY SettledNobodyPending
    <2>2. TypeOK'
      BY <1>1, <2>1 DEF TypeOK, clocks, gate
    <2> QED
      BY <1>1, <1>2, <2>1, <2>2, EmptyWithinBudget
         DEF gate, BudgetInOrder, HandlerOnOpenSocket, GoesOnAfterCallback, LiveOnlyWhenPaid,
             NothingOutlivesTheSocket, OpenSocketIsWatched, OneSocket, NoWaiterLeftBehind,
             EndIsTold
  <1> QED
    BY <1>3, <1>4

LEMMA ConnectTcpThrowsStep == ClientInv /\ ConnectTcpThrows => ClientInv'
  <1> SUFFICES ASSUME ClientInv, ConnectTcpThrows PROVE ClientInv'
    OBVIOUS
  <1>1. inside = "connect" /\ current' = FALSE /\ running' = FALSE
    BY DEF ConnectTcpThrows, Connecting, ClientInv, GoesOnAfterCallback, TypeOK
  <1>2. expiryMono' \in Int /\ expiryHandled' \in BOOLEAN /\ inside' = "none"
    BY ClientAssumption DEF ConnectTcpThrows, Connecting, ClientInv, TypeOK, Time
  <1> QED
    BY <1>1, <1>2, DisconnectStep DEF ConnectTcpThrows, ClientInv, TypeOK

LEMMA AckStep == ClientInv /\ Ack => ClientInv'
  <1> SUFFICES ASSUME ClientInv, Ack PROVE ClientInv'
    OBVIOUS
  <1> USE DEF ClientInv, Ack, health
  <1>1. Pending' = Pending
    BY DEF Pending
  <1>2. budget' = Kinds /\ high' \in Time /\ UNCHANGED revoked
    BY DEF Spend, gate, BudgetInOrder, Kinds, TypeOK, Later
  <1>3. running /\ (current \/ (socket = "none" /\ expiryHandled))
    BY DEF GoesOnAfterCallback
  <1>4. TypeOK'
    BY <1>2 DEF TypeOK, clocks, log
  <1>5. BudgetInOrder' /\ LiveOnlyWhenPaid' /\ OneSocket'
    BY <1>2 DEF log, BudgetInOrder, LiveOnlyWhenPaid, OneSocket, Kinds
  <1>6. HandlerOnOpenSocket' /\ GoesOnAfterCallback' /\ OpenSocketIsWatched'
    BY <1>3 DEF HandlerOnOpenSocket, GoesOnAfterCallback, OpenSocketIsWatched
  <1>7. NothingOutlivesTheSocket'
    BY <1>1, <1>3 DEF NothingOutlivesTheSocket, HandlerOnOpenSocket
  <1> QED
    BY <1>1, <1>4, <1>5, <1>6, <1>7 DEF log, NoWaiterLeftBehind, EndIsTold

LEMMA SubscribeStep == ClientInv /\ Subscribe => ClientInv'
  <1> SUFFICES ASSUME ClientInv, Subscribe PROVE ClientInv'
    OBVIOUS
  <1> USE DEF ClientInv, Subscribe, Spend, health
  <1>1. Pending' = Pending
    BY DEF Pending
  <1>2. "acks" \notin budget /\ budget' = budget \union {"commands"}
    BY DEF Spendable, BudgetInOrder, Kinds
  <1>3. TypeOK'
    BY DEF TypeOK, clocks, log, Kinds, Later
  <1>4. BudgetInOrder'
    BY <1>2 DEF BudgetInOrder
  <1> QED
    BY <1>1, <1>2, <1>3, <1>4
       DEF log, HandlerOnOpenSocket, GoesOnAfterCallback, LiveOnlyWhenPaid, Kinds,
           NothingOutlivesTheSocket, OpenSocketIsWatched, OneSocket, NoWaiterLeftBehind,
           EndIsTold

LEMMA TradeStep == ClientInv /\ Trade => ClientInv'
  <1> SUFFICES ASSUME ClientInv, Trade PROVE ClientInv'
    OBVIOUS
  <1> USE DEF ClientInv, Trade, Deliver, AtRecord, At, health
  <1>1. /\ waiters' \in [Waiters -> {"none", "pending", "resolved", "rejected"}]
        /\ Pending' = {}
    BY SettledNobodyPending
  <1>2. TypeOK'
    <2>1. delivered' \in 0..MaxTrades
      BY ClientAssumption DEF TypeOK
    <2> QED
      BY <1>1, <2>1 DEF TypeOK, clocks, gate
  <1>3. socket = "open" /\ budget = Kinds
    BY DEF HandlerOnOpenSocket, LiveOnlyWhenPaid
  <1> QED
    BY <1>1, <1>2, <1>3, EmptyWithinBudget
       DEF gate, BudgetInOrder, HandlerOnOpenSocket, GoesOnAfterCallback, LiveOnlyWhenPaid,
           NothingOutlivesTheSocket, OpenSocketIsWatched, OneSocket, NoWaiterLeftBehind,
           EndIsTold

(* An answer given at once leaves the pending ones as they were; a caller  *)
(* made to wait takes a free place; a timeout frees one.                   *)
LEMMA WaiterStep ==
  ASSUME NEW w \in Waiters, ClientInv, WaitForLive(w) \/ WaiterTimeout(w)
  PROVE  ClientInv'
  <1> USE DEF ClientInv
  <1>1. UNCHANGED <<clocks, gate, conn, log>>
    BY DEF WaitForLive, WaiterTimeout, Answer
  <1>2. Pending \subseteq Waiters /\ IsFiniteSet(Pending) /\ Cardinality(Pending) \in Nat
    <2>1. Pending \subseteq Waiters
      BY DEF Pending
    <2> QED
      BY <2>1, ClientAssumption, FS_Subset, FS_CardinalityType
  <1>3. \E verdict \in {"pending", "resolved", "rejected"} :
           waiters' = [waiters EXCEPT ![w] = verdict]
    BY DEF WaitForLive, WaiterTimeout, Answer
  <1>4. TypeOK'
    BY <1>1, <1>3 DEF TypeOK, clocks, gate, conn, health, log
  <1>5. CASE waiters' = [waiters EXCEPT ![w] = "pending"] /\ waiters[w] = "none"
             /\ ~hasMarket /\ ~intentionallyClosed /\ Cardinality(Pending) < MaxWaiters
    <2>1. Pending' = Pending \union {w} /\ w \notin Pending
      BY <1>5 DEF Pending, TypeOK
    <2>2. Cardinality(Pending') = Cardinality(Pending) + 1
      BY <2>1, <1>2, FS_AddElement
    <2> QED
      BY <1>1, <1>2, <1>4, <1>5, <2>2, ClientAssumption
         DEF gate, conn, health, log, BudgetInOrder, HandlerOnOpenSocket, LiveOnlyWhenPaid,
             GoesOnAfterCallback, NothingOutlivesTheSocket, OpenSocketIsWatched, OneSocket,
             NoWaiterLeftBehind, EndIsTold
  <1>6. CASE \E verdict \in {"resolved", "rejected"} :
                waiters' = [waiters EXCEPT ![w] = verdict]
    <2>1. Pending' \subseteq Pending
      BY <1>6 DEF Pending, TypeOK
    <2>2. Cardinality(Pending') \in Nat /\ Cardinality(Pending') <= Cardinality(Pending)
      BY <2>1, <1>2, FS_Subset, FS_CardinalityType
    <2> QED
      BY <1>1, <1>2, <1>4, <2>1, <2>2, ClientAssumption
         DEF gate, conn, health, log, BudgetInOrder, HandlerOnOpenSocket, LiveOnlyWhenPaid,
             GoesOnAfterCallback, NothingOutlivesTheSocket, OpenSocketIsWatched, OneSocket,
             NoWaiterLeftBehind, EndIsTold
  <1> QED
    BY <1>5, <1>6 DEF WaitForLive, WaiterTimeout, Answer

LEMMA ClientInvInductive == ClientInv /\ [Next]_vars => ClientInv'
  <1> SUFFICES ASSUME ClientInv, [Next]_vars PROVE ClientInv'
    OBVIOUS
  <1> USE DEF clocks, gate, log
  <1>1. CASE Connect
    BY <1>1, ConnectStep
  <1>2. CASE ConnectFails
    BY <1>2, ConnectFailsStep
  <1>3. CASE ConnectDenied \/ PollAllowed
    BY <1>3, QuietStep DEF ConnectDenied, PollAllowed, conn, health, ClientInv, TypeOK,
       HandlerOnOpenSocket, GoesOnAfterCallback, Later
  <1>4. CASE DataStart
    BY <1>4, QuietStep DEF DataStart, Idle, health, ClientInv, TypeOK, HandlerOnOpenSocket,
       GoesOnAfterCallback, Later
  <1>5. CASE DataEnd
    <2>1. TypeOK' /\ HandlerOnOpenSocket'
      BY <1>5 DEF DataEnd, health, ClientInv, TypeOK, HandlerOnOpenSocket
    <2>2. GoesOnAfterCallback'
      BY <1>5 DEF DataEnd, GoesOnAfterCallback
    <2> QED
      BY <1>5, <2>1, <2>2, QuietStep DEF DataEnd, health
  <1>6. CASE Challenge \/ Header
    BY <1>6, QuietStep DEF Challenge, Header, At, Enter, health, ClientInv, TypeOK,
       HandlerOnOpenSocket, GoesOnAfterCallback
  <1>7. CASE SystemRecord
    BY <1>7, QuietStep DEF SystemRecord, AtRecord, At, health, ClientInv, TypeOK,
       HandlerOnOpenSocket, GoesOnAfterCallback
  <1>8. CASE Authenticated \/ Subscribing \/ Control \/ Acknowledged
    <2>1. /\ running /\ (current \/ (socket = "none" /\ expiryHandled))
          /\ inside \notin {"connect", "ack"}
      BY <1>8 DEF Authenticated, At, Subscribing, Control, Acknowledged, ClientInv,
         GoesOnAfterCallback
    <2>2. connected \in BOOLEAN /\ stage \in {"cram", "auth", "dbn_header", "records"}
      BY DEF ClientInv, TypeOK
    <2>3. CASE Authenticated
      BY <2>1, <2>2, <2>3, StatusStep DEF Authenticated
    <2>4. CASE Subscribing
      BY <2>1, <2>2, <2>4, StatusStep DEF Subscribing
    <2>5. CASE Control
      BY <2>1, <2>2, <2>5, StatusStep DEF Control
    <2>6. CASE Acknowledged
      BY <2>1, <2>2, <2>6, StatusStep DEF Acknowledged
    <2> QED
      BY <1>8, <2>3, <2>4, <2>5, <2>6
  <1>9. CASE Subscribe \/ Ack \/ Trade
    BY <1>9, SubscribeStep, AckStep, TradeStep
  <1>10. CASE TradeBlocks
    <2>1. delivered' \in 0..MaxTrades
      BY <1>10, ClientAssumption DEF TradeBlocks, Deliver, ClientInv, TypeOK
    <2>2. approvalMono' \in Nat /\ running' \in BOOLEAN /\ expiryMono' \in Int
          /\ stage' \in {"cram", "auth", "dbn_header", "records"} /\ inside' = "none"
      BY <1>10 DEF TradeBlocks, Deliver, AtRecord, At, ClientInv, TypeOK
    <2> QED
      BY <1>10, <2>1, <2>2, DisconnectStep DEF TradeBlocks
  <1>11. ASSUME GiveUp, UNCHANGED <<clocks, gate>>
         PROVE  ClientInv'
    BY <1>11, DisconnectStep DEF GiveUp, health, ClientInv, TypeOK
  <1>12. CASE \/ DataRefused \/ AuthFailure \/ HeaderRefused \/ RecordRefused
              \/ SubscribeDenied \/ AckDenied \/ ApprovalTimer \/ PollDenied \/ SocketLost
    BY <1>11, <1>12 DEF DataRefused, AuthFailure, HeaderRefused, RecordRefused,
       SubscribeDenied, AckDenied, ApprovalTimer, PollDenied, SocketLost
  <1>13. CASE ContextDisconnects \/ HealthExpires
    BY <1>13, DisconnectStep
       DEF ContextDisconnects, HealthExpires, Cut, Idle, health, ClientInv, TypeOK,
           HandlerOnOpenSocket
  <1>14. ASSUME NEW w \in Waiters, WaitForLive(w) \/ WaiterTimeout(w)
         PROVE  ClientInv'
    BY <1>14, WaiterStep
  <1>15. CASE Revoke \/ Tick \/ (\E t \in Time : SetWallClock(t)) \/ UNCHANGED vars
    <2>1. wall' \in Time /\ mono' \in Time /\ revoked' \in BOOLEAN
      <3>1. revoked' \in BOOLEAN
        BY <1>15 DEF Revoke, Tick, SetWallClock, vars, ClientInv, TypeOK
      <3>2. CASE Tick
        BY <3>1, <3>2, ClientAssumption DEF Tick, ClientInv, TypeOK, Time
      <3>3. CASE \E t \in Time : SetWallClock(t)
        BY <3>1, <3>3 DEF SetWallClock, ClientInv, TypeOK
      <3>4. CASE Revoke \/ UNCHANGED vars
        BY <3>1, <3>4 DEF Revoke, vars, ClientInv, TypeOK
      <3> QED
        BY <1>15, <3>2, <3>3, <3>4
    <2>2. UNCHANGED <<high, budget, conn, waiters, log>>
      BY <1>15 DEF Revoke, Tick, SetWallClock, vars
    <2>3. TypeOK' /\ HandlerOnOpenSocket' /\ GoesOnAfterCallback'
      BY <2>1, <2>2 DEF conn, health, ClientInv, TypeOK, HandlerOnOpenSocket,
         GoesOnAfterCallback
    <2> QED
      BY <2>2, <2>3, QuietStep DEF conn, health
  <1>16. CASE ConnectTcp \/ ConnectTcpCut \/ ConnectTcpThrows
    BY <1>16, ConnectTcpStep, ConnectTcpThrowsStep
  <1> QED
    BY <1>1, <1>2, <1>3, <1>4, <1>5, <1>6, <1>7, <1>8, <1>9, <1>10, <1>12, <1>13,
       <1>14, <1>15, <1>16 DEF Next, Handler, Resume

-----------------------------------------------------------------------------
(* Every invariant of the client, whatever a callback does inside it:      *)
(* nothing is live before the ledger has been paid, nothing outlives the   *)
(* socket but a flag that no context hears of, an open socket is watched   *)
(* unless the context has met the expiry, there is one socket, nobody      *)
(* waits in vain, and every end is told.                                   *)
THEOREM ClientInvariant == Spec => []ClientInv
  BY InitClientInv, ClientInvInductive, PTL DEF Spec

(* No trade is delivered before the acknowledgement, after the end, or     *)
(* past the expiry on either clock of the client.                          *)
THEOREM DeliveredInTimeTheorem == Spec => DeliveredInTime
  <1>1. ClientInv /\ [Next]_vars => [DeliverInTime]_vars
    <2> SUFFICES ASSUME ClientInv, [Next]_vars, delivered' # delivered
                 PROVE  /\ socket = "open" /\ connected /\ "acks" \in budget
                        /\ wall < Expires /\ mono < approvalMono
      BY DEF DeliverInTime
    <2>1. Trade \/ TradeBlocks
      <3>1. ~GiveUp /\ ~Cut /\ (\A c \in BOOLEAN : ~OnStatus(c))
        BY DEF GiveUp, Cut, OnStatus, log
      <3>2. connected \in BOOLEAN
        BY DEF ClientInv, TypeOK
      <3>3. ~Resume
        BY <3>1, <3>2 DEF Resume, ConnectTcp, ConnectTcpCut, ConnectTcpThrows, OpenSocket,
           Subscribe, Subscribing, SubscribeDenied, Control, Acknowledged, Ack, AckDenied, log
      <3> QED
        BY <3>1, <3>2, <3>3 DEF Next, Handler, vars, log, Connect, ConnectFails,
           ConnectDenied, DataStart, DataRefused, DataEnd, Challenge, Header, Enter,
           Authenticated, AuthFailure, HeaderRefused, RecordRefused, SystemRecord,
           ApprovalTimer, PollDenied, PollAllowed, SocketLost, ContextDisconnects,
           HealthExpires, WaitForLive, WaiterTimeout, Answer, Revoke, Tick, SetWallClock
    <2> QED
      BY <2>1 DEF Trade, TradeBlocks, Deliver, AtRecord, At, InTime, ClientInv,
         HandlerOnOpenSocket, LiveOnlyWhenPaid, Kinds
  <1> QED
    BY <1>1, ClientInvariant, PTL DEF Spec, DeliveredInTime
===============================================================================
