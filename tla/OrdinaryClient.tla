---------------------------- MODULE OrdinaryClient ----------------------------
(***************************************************************************)
(* The live client of the vendor feed on its only production path: one TCP *)
(* connection under an operator's approval (the "ordinary" options of      *)
(* liveClient.ts), from connect to disconnect, with the gate of            *)
(* ordinaryRuntime.ts it asks and the market context it calls back.        *)
(*                                                                         *)
(* The client is one thread.  A 'data' handler consumes its input record   *)
(* by record and no other callback runs meanwhile, but the clocks go on,   *)
(* other processes write the ledger, and the context a record is handed to *)
(* may call disconnect before it returns; so a handler is several steps,   *)
(* and "inside" says what it goes on with after a callback, whatever the   *)
(* callback did.  Its input is chosen as it is parsed: any input of any    *)
(* length, complete records only.  A gate call is one step (ApprovalLease  *)
(* splits it), and may always be denied: SQLite may fail.                  *)
(***************************************************************************)
EXTENDS Integers, FiniteSets

CONSTANTS
  Waiters,    (* Calls of waitForLive.                                     *)
  MaxWaiters, (* 32 in the code.                                           *)
  Expires,    (* The approval's expiry, on the wall clock.                 *)
  MaxTime,    (* Bound of both clocks.                                     *)
  MaxTrades   (* Bound on the trades the vendor sends.                     *)

ASSUME ClientAssumption ==
  /\ IsFiniteSet(Waiters)
  /\ MaxWaiters \in Nat
  /\ Expires \in Nat
  /\ MaxTime \in Nat
  /\ MaxTrades \in Nat

VARIABLES
  wall, mono,    (* The host's clocks; the process booted at 0 and 0.      *)
  high,          (* The ledger's highwater mark.                           *)
  revoked,       (* The operator revoked the approval's row.               *)
  budget,        (* The budgets this process has spent, of Kinds.          *)
  socket,        (* "none" or "open".                                      *)
  stage,         (* phase of connectTcp.                                   *)
  running,       (* A 'data' handler runs.                                 *)
  current,       (* generation = currentGen for the running handler.       *)
  inside,        (* What connect or the handler does after a callback.     *)
  connected, hasMarket, intentionallyClosed,
  approvalMono,  (* The client's own deadline.                             *)
  timers,        (* The approval timer and the authorization poll are set. *)
  expiryMono,    (* The deadline of the context's health.                  *)
  expiryHandled, (* The context met it: it no longer hears the client.     *)
  waiters,       (* waiters[w]: "none", "pending", "resolved", "rejected". *)
  sockets,       (* How many sockets were ever opened.                     *)
  delivered,     (* How many trades the context was handed.                *)
  told           (* The context heard that the feed ended, or ended it.    *)

clocks == <<wall, mono>>
gate   == <<high, revoked, budget>>
health == <<expiryMono, expiryHandled>>
conn   == <<socket, stage, running, current, inside, connected, hasMarket,
            intentionallyClosed, approvalMono, timers, health>>
log    == <<sockets, delivered, told>>
vars   == <<clocks, gate, conn, waiters, log>>

Time  == 0..MaxTime
Kinds == {"attempts", "commands", "acks"}

TypeOK ==
  /\ wall \in Time /\ mono \in Time /\ high \in Time
  /\ revoked \in BOOLEAN
  /\ budget \subseteq Kinds
  /\ socket \in {"none", "open"}
  /\ stage \in {"cram", "auth", "dbn_header", "records"}
  /\ running \in BOOLEAN /\ current \in BOOLEAN
  /\ inside \in {"none", "connect", "auth", "sent", "system", "control", "ack"}
  /\ connected \in BOOLEAN /\ hasMarket \in BOOLEAN
  /\ intentionallyClosed \in BOOLEAN
  /\ approvalMono \in Nat
  /\ timers \in BOOLEAN
  /\ expiryMono \in Int /\ expiryHandled \in BOOLEAN
  /\ waiters \in [Waiters -> {"none", "pending", "resolved", "rejected"}]
  /\ sockets \in Nat /\ delivered \in 0..MaxTrades
  /\ told \in BOOLEAN

Pending == {w \in Waiters : waiters[w] = "pending"}

(* A fault: waiters are left to their own timeouts. *)
Unsettled(verdict) == waiters

Settled(verdict) ==
  [w \in Waiters |-> IF w \in Pending THEN verdict ELSE waiters[w]]

Later(s, t) == IF s < t THEN t ELSE s

(* A fault: the gate takes a reserved row for a valid one. *)
AuthorizedAtBoot ==
  /\ wall < Expires
  /\ mono < Expires
  /\ high <= wall

(* OrdinaryRuntimeGate.allows.  The gate's deadline was set when the       *)
(* process booted, the client's own when it connected.                     *)
Authorized ==
  /\ ~revoked
  /\ wall < Expires
  /\ mono < Expires
  /\ high <= wall

(* What consume asks of the ledger once more. *)
Spendable(k) ==
  /\ ~revoked
  /\ wall < Expires
  /\ high <= wall
  /\ k \notin budget

Spend(k) ==
  /\ budget' = budget \union {k}
  /\ high' = Later(high, wall)
  /\ UNCHANGED revoked

(* The check before every chunk and every buffered record. *)
InTime == wall < Expires /\ mono < approvalMono

(* disconnect(): the socket is destroyed with its listeners, the timers    *)
(* are cleared, the waiters rejected, the generation moves on.             *)
Disconnect ==
  /\ socket' = "none"
  /\ connected' = FALSE
  /\ hasMarket' = FALSE
  /\ intentionallyClosed' = TRUE
  /\ timers' = FALSE
  /\ waiters' = Settled("rejected")

(* The client gives up by itself: out of the handler, and it says so.      *)
GiveUp ==
  /\ Disconnect
  /\ running' = FALSE
  /\ current' = FALSE
  /\ inside' = "none"
  /\ told' = TRUE
  /\ UNCHANGED <<stage, approvalMono, health, sockets, delivered>>

(* FeedHealth.expired, once CONNECTING has told the context the expiry. *)
Overdue == wall >= Expires \/ mono >= expiryMono

(* refreshFeedHealth past the expiry: the context moves its token on and   *)
(* disconnects the client, in the middle of whatever the client is doing.  *)
Cut ==
  /\ ~expiryHandled /\ Overdue
  /\ expiryHandled' = TRUE
  /\ Disconnect
  /\ current' = FALSE
  /\ told' = TRUE
  /\ UNCHANGED <<expiryMono, approvalMono, sockets, delivered>>

(* onStatus, with c the flag the client has set before it: the context     *)
(* cuts the client off, or lets it be, or no longer hears it.              *)
OnStatus(c) ==
  \/ Cut
  \/ /\ expiryHandled \/ ~Overdue
     /\ connected' = c
     /\ UNCHANGED <<socket, current, hasMarket, intentionallyClosed, approvalMono,
                    timers, health, waiters, log>>

-----------------------------------------------------------------------------
(***************************************************************************)
(* connect().                                                              *)
(***************************************************************************)

Idle == ~running /\ inside = "none"

MayConnect ==
  /\ Idle
  /\ ~connected
  /\ socket = "none"

(* beforeConnect claims the one attempt and the timers are set; the        *)
(* context is told next.                                                   *)
Connect ==
  /\ MayConnect
  /\ Authorized
  /\ Spendable("attempts")
  /\ Spend("attempts")
  /\ approvalMono' = mono + Expires - wall
  /\ timers' = TRUE
  /\ intentionallyClosed' = FALSE
  /\ inside' = "connect"
  /\ told' = FALSE
  /\ UNCHANGED <<clocks, socket, stage, running, current, connected, hasMarket,
                 health, waiters, sockets, delivered>>

(* CONNECTING: the context computes the deadline of its own. *)
Connecting ==
  /\ inside = "connect"
  /\ inside' = "none"
  /\ expiryMono' = mono + Expires - wall

(* connectTcp, which asks nothing of what the callback did. *)
OpenSocket ==
  /\ socket' = "open"
  /\ stage' = "cram"
  /\ sockets' = sockets + 1
  /\ UNCHANGED <<running, current, connected, hasMarket, approvalMono, delivered>>

ConnectTcp ==
  /\ Connecting
  /\ wall < Expires
  /\ OpenSocket
  /\ UNCHANGED <<clocks, gate, intentionallyClosed, timers, expiryHandled, waiters, told>>

(* The approval runs out before CONNECTING is handled: the context         *)
(* disconnects a client that has no socket yet, and the client opens one   *)
(* that no timer watches.                                                  *)
ConnectTcpCut ==
  /\ Connecting
  /\ wall >= Expires
  /\ expiryHandled' = TRUE
  /\ intentionallyClosed' = TRUE
  /\ timers' = FALSE
  /\ waiters' = Settled("rejected")
  /\ told' = TRUE
  /\ OpenSocket
  /\ UNCHANGED <<clocks, gate>>

(* The socket cannot be created: connect throws after a disconnect. *)
ConnectTcpThrows ==
  /\ Connecting
  /\ expiryHandled' = (wall >= Expires)
  /\ Disconnect
  /\ told' = TRUE
  /\ UNCHANGED <<clocks, gate, stage, running, current, approvalMono, sockets, delivered>>

(* The gate allows the symbol but the attempt is gone: claimConnection     *)
(* throws, and all that is left of it is the highwater mark.               *)
ConnectDenied ==
  /\ MayConnect
  /\ Authorized
  /\ "attempts" \in budget
  /\ high' = Later(high, wall)
  /\ UNCHANGED <<clocks, revoked, budget, conn, waiters, log>>

(* The attempt is spent, then the approval is found expired: connect       *)
(* throws before anything is set.                                          *)
ConnectFails ==
  /\ MayConnect
  /\ Authorized
  /\ Spendable("attempts")
  /\ Spend("attempts")
  /\ UNCHANGED <<clocks, conn, waiters, log>>

-----------------------------------------------------------------------------
(***************************************************************************)
(* The 'data' handler.                                                     *)
(***************************************************************************)

(* A chunk arrives: within the input limit, authorized and in time. *)
DataStart ==
  /\ Idle
  /\ socket = "open"
  /\ Authorized
  /\ high' = Later(high, wall)
  /\ InTime
  /\ running' = TRUE
  /\ current' = TRUE
  /\ UNCHANGED <<clocks, revoked, budget, socket, stage, inside, connected, hasMarket,
                 intentionallyClosed, approvalMono, timers, health, waiters, log>>

(* It is refused: over the input limit, unauthorized, or out of time. *)
DataRefused ==
  /\ Idle
  /\ socket = "open"
  /\ GiveUp
  /\ UNCHANGED <<clocks, gate>>

(* The handler has used up what it can of its input, or finds that its     *)
(* generation is over.                                                     *)
DataEnd ==
  /\ running
  /\ inside = "none"
  /\ running' = FALSE
  /\ current' = FALSE
  /\ UNCHANGED <<clocks, gate, socket, stage, inside, connected, hasMarket,
                 intentionallyClosed, approvalMono, timers, health, waiters, log>>

At(s) ==
  /\ running
  /\ current
  /\ inside = "none"
  /\ stage = s

Enter(s) ==
  /\ stage' = s
  /\ UNCHANGED <<clocks, gate, socket, running, current, inside, connected, hasMarket,
                 intentionallyClosed, approvalMono, timers, health, waiters, log>>

Challenge ==
  /\ At("cram")
  /\ Enter("auth")

(* success=1, told to the context first. *)
Authenticated ==
  /\ At("auth")
  /\ OnStatus(FALSE)
  /\ inside' = "auth"
  /\ UNCHANGED <<clocks, gate, stage, running>>

(* Then the gate is asked for the one subscription command, also when the  *)
(* context has cut the client off.                                         *)
Subscribe ==
  /\ inside = "auth"
  /\ "attempts" \in budget
  /\ Authorized
  /\ Spendable("commands")
  /\ Spend("commands")
  /\ inside' = "sent"
  /\ UNCHANGED <<clocks, socket, stage, running, current, connected, hasMarket,
                 intentionallyClosed, approvalMono, timers, health, waiters, log>>

Subscribing ==
  /\ inside = "sent"
  /\ OnStatus(connected)
  /\ stage' = "dbn_header"
  /\ inside' = "none"
  /\ UNCHANGED <<clocks, gate, running>>

SubscribeDenied ==
  /\ inside = "auth"
  /\ GiveUp
  /\ UNCHANGED <<clocks, gate>>

(* success=0. *)
AuthFailure ==
  /\ At("auth")
  /\ GiveUp
  /\ UNCHANGED <<clocks, gate>>

Header ==
  /\ At("dbn_header")
  /\ Enter("records")

(* Bad framing, or metadata over the input limit. *)
HeaderRefused ==
  /\ At("dbn_header")
  /\ GiveUp
  /\ UNCHANGED <<clocks, gate>>

(* A fault: time is only looked at when the chunk arrives. *)
AtLateRecord == At("records")

AtRecord ==
  /\ At("records")
  /\ InTime

(* An ErrorMsg, bad framing, or a record after the expiry. *)
RecordRefused ==
  /\ At("records")
  /\ GiveUp
  /\ UNCHANGED <<clocks, gate>>

(* A system record is taken up in time and told to the context, which      *)
(* looks at the clocks again.                                              *)
SystemRecord ==
  /\ AtRecord
  /\ inside' = "system"
  /\ UNCHANGED <<clocks, gate, socket, stage, running, current, connected, hasMarket,
                 intentionallyClosed, approvalMono, timers, health, waiters, log>>

(* CONTROL, of a heartbeat or of an acknowledgement. *)
Control ==
  /\ inside = "system"
  /\ OnStatus(connected)
  /\ inside' \in {"none", "control"}
  /\ UNCHANGED <<clocks, gate, stage, running>>

(* ACKNOWLEDGED: the client takes itself for connected before it says so,  *)
(* and before the ledger has been asked.                                   *)
Acknowledged ==
  /\ inside = "control"
  /\ OnStatus(TRUE)
  /\ inside' = "ack"
  /\ UNCHANGED <<clocks, gate, stage, running>>

(* The ledger pays the first acknowledgement, and only that one; the       *)
(* client is connected now, whatever the context did meanwhile.            *)
Ack ==
  /\ inside = "ack"
  /\ \/ "acks" \in budget /\ UNCHANGED gate
     \/ "commands" \in budget /\ Spendable("acks") /\ Spend("acks")
  /\ connected' = TRUE
  /\ inside' = "none"
  /\ UNCHANGED <<clocks, socket, stage, running, current, hasMarket,
                 intentionallyClosed, approvalMono, timers, health, waiters, log>>

(* It denies it; it is not asked again whether it still allows the symbol. *)
AckDenied ==
  /\ inside = "ack"
  /\ "acks" \notin budget
  /\ GiveUp
  /\ UNCHANGED <<clocks, gate>>

(* A trade before the acknowledgement is dropped; one after it goes to the *)
(* context, if that still hears the client, and settles the waiters.       *)
Deliver ==
  /\ AtRecord
  /\ connected
  /\ ~expiryHandled
  /\ delivered < MaxTrades
  /\ delivered' = delivered + 1

Trade ==
  /\ \/ Deliver
     \/ AtRecord /\ connected /\ expiryHandled /\ UNCHANGED delivered
  /\ hasMarket' = TRUE
  /\ waiters' = Settled("resolved")
  /\ UNCHANGED <<clocks, gate, socket, stage, running, current, inside, connected,
                 intentionallyClosed, approvalMono, timers, health, sockets, told>>

(* The context blocks on the trade (its identity or its commit failed), or *)
(* finds the approval expired once it is committed, and disconnects before *)
(* onTrade returns: the handler is now of an old generation.               *)
TradeBlocks ==
  /\ Deliver
  /\ Disconnect
  /\ current' = FALSE
  /\ expiryHandled' \in BOOLEAN
  /\ told' = TRUE
  /\ UNCHANGED <<clocks, gate, stage, running, inside, approvalMono, expiryMono, sockets>>

-----------------------------------------------------------------------------
(***************************************************************************)
(* Timers, socket events and calls of the context.                         *)
(***************************************************************************)

(* A fault: the timer re-arms itself until the wall clock agrees. *)
ApprovalTimerOnWall ==
  /\ Idle
  /\ timers
  /\ approvalMono <= mono
  /\ Expires <= wall
  /\ GiveUp
  /\ UNCHANGED <<clocks, gate>>

(* The timer set for the expiry; node measures it on the monotonic clock. *)
ApprovalTimer ==
  /\ Idle
  /\ timers
  /\ approvalMono <= mono
  /\ GiveUp
  /\ UNCHANGED <<clocks, gate>>

(* The one-second poll of the gate. *)
PollDenied ==
  /\ Idle
  /\ timers
  /\ GiveUp
  /\ UNCHANGED <<clocks, gate>>

PollAllowed ==
  /\ Idle
  /\ timers
  /\ Authorized
  /\ high' = Later(high, wall)
  /\ UNCHANGED <<clocks, revoked, budget, conn, waiters, log>>

(* 'error' and 'close': there is no reconnect under an approval. *)
SocketLost ==
  /\ Idle
  /\ socket = "open"
  /\ GiveUp
  /\ UNCHANGED <<clocks, gate>>

(* stopFeed. *)
ContextDisconnects ==
  /\ Idle
  /\ Disconnect
  /\ told' = TRUE
  /\ UNCHANGED <<clocks, gate, stage, running, current, inside, approvalMono, health,
                 sockets, delivered>>

(* The context's own timer, or TRANSPORT told to it, finds the expiry. *)
HealthExpires ==
  /\ Idle
  /\ socket = "open"
  /\ Cut
  /\ UNCHANGED <<clocks, gate, stage, running, inside>>

Answer(w, verdict) ==
  /\ waiters' = [waiters EXCEPT ![w] = verdict]
  /\ UNCHANGED <<clocks, gate, conn, log>>

WaitForLive(w) ==
  /\ Idle
  /\ waiters[w] = "none"
  /\ \/ hasMarket /\ Answer(w, "resolved")
     \/ ~hasMarket /\ (intentionallyClosed \/ Cardinality(Pending) >= MaxWaiters)
          /\ Answer(w, "rejected")
     \/ ~hasMarket /\ ~intentionallyClosed /\ Cardinality(Pending) < MaxWaiters
          /\ Answer(w, "pending")

WaiterTimeout(w) ==
  /\ Idle
  /\ w \in Pending
  /\ Answer(w, "rejected")

(* The environment: the operator revokes, the clocks move.                 *)
Revoke ==
  /\ ~revoked
  /\ revoked' = TRUE
  /\ UNCHANGED <<clocks, high, budget, conn, waiters, log>>

Tick ==
  /\ wall < MaxTime
  /\ mono < MaxTime
  /\ wall' = wall + 1
  /\ mono' = mono + 1
  /\ UNCHANGED <<gate, conn, waiters, log>>

SetWallClock(t) ==
  /\ wall' = t
  /\ UNCHANGED <<mono, gate, conn, waiters, log>>

-----------------------------------------------------------------------------
Init ==
  /\ wall = 0 /\ mono = 0 /\ high = 0
  /\ revoked = FALSE
  /\ budget = {}
  /\ socket = "none"
  /\ stage = "cram"
  /\ running = FALSE /\ current = FALSE /\ inside = "none"
  /\ connected = FALSE /\ hasMarket = FALSE /\ intentionallyClosed = FALSE
  /\ approvalMono = 0
  /\ timers = FALSE
  /\ expiryMono = 0 /\ expiryHandled = FALSE
  /\ waiters = [w \in Waiters |-> "none"]
  /\ sockets = 0 /\ delivered = 0
  /\ told = TRUE

(* What follows a callback, before anything else can run. *)
Resume ==
  \/ ConnectTcp \/ ConnectTcpCut \/ ConnectTcpThrows
  \/ Subscribe \/ Subscribing \/ SubscribeDenied
  \/ Control \/ Acknowledged \/ Ack \/ AckDenied

Handler ==
  \/ DataEnd
  \/ Challenge \/ Authenticated \/ AuthFailure
  \/ Header \/ HeaderRefused
  \/ RecordRefused \/ SystemRecord \/ Trade \/ TradeBlocks

Next ==
  \/ Connect \/ ConnectDenied \/ ConnectFails \/ Resume
  \/ DataStart \/ DataRefused \/ Handler
  \/ ApprovalTimer \/ PollDenied \/ PollAllowed
  \/ SocketLost \/ ContextDisconnects \/ HealthExpires
  \/ \E w \in Waiters : WaitForLive(w) \/ WaiterTimeout(w)
  \/ Revoke \/ Tick
  \/ \E t \in Time : SetWallClock(t)

Spec == Init /\ [][Next]_vars

(* Handlers return, for their input is finite; timers fire, and the poll   *)
(* sees that it is denied; no other action need ever happen.               *)
LiveSpec ==
  /\ Spec
  /\ WF_vars(Resume)
  /\ SF_vars(DataEnd)
  /\ WF_vars(ApprovalTimer)
  /\ WF_vars(PollDenied /\ ~Authorized)

-----------------------------------------------------------------------------
(***************************************************************************)
(* Properties.                                                             *)
(***************************************************************************)

(* The market is live only on an open socket, and the client counts itself *)
(* connected only once attempt, command and acknowledgement are all spent  *)
(* in the ledger - but for the moment in which it is about to be asked.    *)
LiveOnlyWhenPaid ==
  /\ connected => budget = Kinds \/ inside = "ack"
  /\ hasMarket => budget = Kinds /\ socket = "open"

(* Whatever ended the connection, also a context that disconnects from     *)
(* inside a callback, nothing of it is left over: no live market, no       *)
(* timer, no caller still waiting.  Only a client that the context's own   *)
(* expiry cut off from inside an acknowledgement takes itself for          *)
(* connected without a socket, and no context hears that one any more.     *)
NothingOutlivesTheSocket ==
  socket = "none" /\ inside # "connect" =>
     /\ ~hasMarket /\ ~timers
     /\ connected => expiryHandled
     /\ intentionallyClosed => Pending = {}

(* An open socket is watched by the timer and the poll, unless the         *)
(* approval ran out while the context was told that it is being opened.    *)
OpenSocketIsWatched == socket = "open" => timers \/ expiryHandled

(* However often the context connects, stops and starts again, one socket  *)
(* is opened, and only for the spent attempt.                              *)
OneSocket == sockets <= 1 /\ (sockets = 1 => "attempts" \in budget)

(* Nobody is left waiting for a market that is live or for a feed that     *)
(* ended, and the waiters stay within their budget.                        *)
NoWaiterLeftBehind ==
  /\ Pending # {} => ~hasMarket /\ ~intentionallyClosed
  /\ Cardinality(Pending) <= MaxWaiters

(* The feed never ends behind the context's back: a client that gives up   *)
(* has reported it, so that health cannot go on showing the feed as live.  *)
EndIsTold == socket = "none" /\ inside # "connect" => told

(* What the invariants above rest on: budgets are spent in order, a        *)
(* handler of the current generation works on an open socket, and one that *)
(* goes on after a callback does so too unless it was cut off.             *)
BudgetInOrder ==
  /\ "commands" \in budget => "attempts" \in budget
  /\ "acks" \in budget => budget = Kinds

HandlerOnOpenSocket == current => running /\ socket = "open"

GoesOnAfterCallback ==
  /\ inside = "connect" => /\ socket = "none" /\ sockets = 0 /\ "attempts" \in budget
                           /\ ~running /\ ~current /\ ~connected /\ ~hasMarket
                           /\ timers /\ ~intentionallyClosed
  /\ inside \notin {"none", "connect"} =>
        running /\ (current \/ (socket = "none" /\ expiryHandled))

(* The inductive invariant: all of the above at once, in every state the   *)
(* callbacks, timers and the ledger can bring the client to.               *)
ClientInv ==
  /\ TypeOK
  /\ BudgetInOrder
  /\ HandlerOnOpenSocket
  /\ LiveOnlyWhenPaid
  /\ GoesOnAfterCallback
  /\ NothingOutlivesTheSocket
  /\ OpenSocketIsWatched
  /\ OneSocket
  /\ NoWaiterLeftBehind
  /\ EndIsTold

(* No trade reaches the context before the acknowledgement, after the      *)
(* socket is gone, or past the expiry on either of the client's clocks,    *)
(* however long a chunk takes to work through.                             *)
DeliverInTime ==
  delivered' # delivered =>
     /\ socket = "open" /\ connected /\ "acks" \in budget
     /\ wall < Expires /\ mono < approvalMono

(* DeliverInTime, of every step. *)
DeliveredInTime == [][DeliverInTime]_vars

(* No trade is delivered past the deadline that was fixed when the process *)
(* booted, which a UTC clock set back does not extend.                     *)
DeliverWithinBoot == delivered' # delivered => mono < Expires

(* DeliverWithinBoot, of every step. *)
DeliveredWithinBootDeadline == [][DeliverWithinBoot]_vars

(* An approval that has run out on the monotonic clock closes the socket,  *)
(* even if the wall clock is set back for ever - unless the context had    *)
(* met the expiry before the socket was there.                             *)
ExpiryCloses ==
  (socket = "open" /\ approvalMono <= mono /\ ~expiryHandled) ~> socket = "none"

(* A revoked approval closes the socket, with or without traffic, with the *)
(* same exception.                                                         *)
RevocationCloses ==
  (socket = "open" /\ revoked /\ ~expiryHandled) ~> socket = "none"
===============================================================================
