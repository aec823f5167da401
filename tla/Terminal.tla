------------------------------- MODULE Terminal -------------------------------
(***************************************************************************)
(* What one browser shows of the market: the listeners of                  *)
(* client/App.tsx, the dispatch of services/websocket.ts that feeds them,  *)
(* and the switch from one symbol to another.                              *)
(*                                                                         *)
(* One socket carries the symbol of the main chart and those of the panes. *)
(* Everything on the screen is kept as the set of symbols its content came *)
(* from.  Parts that are reset and fed alike are one part: "market" is the *)
(* book, both profiles, the tape, large trades, absorptions, VWAP, gamma,  *)
(* options flow and CVD.  Time frames and paging are in Chart; timers,     *)
(* closes and retries of the socket in Connection; replay is left out.     *)
(***************************************************************************)
EXTENDS Nothing, Naturals, Sequences, FiniteSets

CONSTANTS
  Instruments,   (* Symbols a user may show.                               *)
  Standard,      (* The symbol a new session is served: DEFAULT_SYMBOL.    *)
  OfPanes,       (* The symbols the panes show beside the main chart.      *)
  MaxSwitches,   (* Bound on symbols selected.                             *)
  MaxSockets,    (* Bound on connections.                                  *)
  MaxOnTheWay    (* Bound on what waits in either direction.               *)

(* The listener of the application is registered for 'ES' before anything was asked for, so a   *)
(* server whose default is another symbol would not reach it.                                   *)
VARIABLES
  shownSymbol,   (* desiredSymbolRef, symbolRef and symbol.                *)
  listening,     (* The symbol of the listener 'default'.                  *)
  requested,     (* activeSubscription's symbol, or None.                  *)
  status,        (* subscriptionState.                                     *)
  live,          (* isConnected.                                           *)
  serving,       (* The server's session: its main symbol, or None.        *)
  opening,       (* What its subscribe awaits the context of, or None.     *)
  verdict,       (* What became of the last request, as the server knows.  *)
  requests,      (* On their way to the server.                            *)
  messages,      (* On their way to the browser.                           *)
  screen,        (* screen[p]: the symbols part p was filled from.         *)
  pendingTicks,  (* Trades that wait for the next flush.                   *)
  lastPrice,     (* lastPriceRef: the symbol its price is of, or None.     *)
  instrument,    (* The symbol the instrument on screen is of, or None.    *)
  feedStatus,    (* "LIVE" or "UNAVAILABLE".                               *)
  ranges,        (* Range profiles that were asked for.                    *)
  again,         (* The symbol that was shown already was selected again.  *)
  switches, opened

screenVars == <<screen, pendingTicks, lastPrice, instrument, feedStatus>>
socketState == <<live, serving, opening, verdict, requests, messages, opened>>
terminalVars ==
  <<shownSymbol, listening, requested, status, socketState, screenVars, ranges, again, switches>>

Parts == {"market", "bars", "ticks", "price", "range"}
Blank == [p \in Parts |-> {}]

TerminalInit ==
  /\ shownSymbol \in Instruments
  /\ listening = Standard /\ requested = None /\ status = "UNSUBSCRIBED"
  /\ live = FALSE /\ serving = None /\ requests = << >> /\ messages = << >>
  /\ opening = None /\ verdict = "served"
  /\ screen = Blank /\ pendingTicks = {} /\ lastPrice = None /\ instrument = None
  /\ feedStatus = "UNAVAILABLE"
  /\ ranges = {} /\ again = FALSE /\ switches = 0 /\ opened = 0

----------------------------------------------------------------------------
(* The server's end of the socket. *)

Snapshot(s, empty) == [type |-> "INIT_STATE", symbol |-> s, empty |-> empty]

(* No listener of the application wants errors, whatever symbol they name.                      *)
Refusal == [type |-> "ERROR", symbol |-> None]

(* A refusal is forgotten when a snapshot follows it.                                           *)
Overtaken == IF verdict = "refused" THEN "overtaken" ELSE verdict

(* A new session is served the standard symbol at once; onopen asks again for what was shown.   *)
SocketOpens ==
  /\ ~live /\ opened < MaxSockets /\ opened' = opened + 1
  /\ live' = TRUE /\ serving' = Standard /\ opening' = None /\ verdict' = "served"
  /\ \E empty \in BOOLEAN : messages' = <<Snapshot(Standard, empty)>>
  /\ requests' = IF requested = None THEN << >> ELSE <<requested>>
  /\ status' = IF requested = None THEN status ELSE "PENDING"
  /\ UNCHANGED <<shownSymbol, listening, requested, screenVars, ranges, again, switches>>

(* onConnectionChange(false), when the socket is lost with everything on its way. *)
SocketLost ==
  /\ live /\ live' = FALSE
  /\ serving' = None /\ opening' = None /\ requests' = << >> /\ messages' = << >>
  /\ status' = "UNSUBSCRIBED" /\ feedStatus' = "UNAVAILABLE"
  /\ UNCHANGED <<shownSymbol, listening, requested, screen, pendingTicks, lastPrice, instrument,
                 ranges, again, switches, opened, verdict>>

(* SUBSCRIBE: the newest request supersedes the one that still awaits its context.              *)
RequestTaken ==
  /\ requests # << >> /\ requests' = Tail(requests)
  /\ opening' = Head(requests) /\ verdict' = "served"
  /\ UNCHANGED <<shownSymbol, listening, requested, status, live, serving, messages, opened,
                 screenVars, ranges, again, switches>>

(* Outside the approved profile, or not entitled: the session keeps what it has, and what it    *)
(* awaits.                                                                                      *)
ServerRefuses ==
  /\ requests # << >> /\ requests' = Tail(requests) /\ Len(messages) < MaxOnTheWay
  /\ messages' = Append(messages, Refusal) /\ verdict' = "refused"
  /\ UNCHANGED <<shownSymbol, listening, requested, status, live, serving, opening, opened,
                 screenVars, ranges, again, switches>>

(* allowMessage: too many messages, and this one is dropped without a word.                     *)
ServerDrops ==
  /\ requests # << >> /\ requests' = Tail(requests) /\ verdict' = "dropped"
  /\ UNCHANGED <<shownSymbol, listening, requested, status, live, serving, opening, messages,
                 opened, screenVars, ranges, again, switches>>

(* The session moves, and a snapshot follows everything that was sent before.                   *)
ContextReady ==
  /\ opening # None /\ opening' = None /\ serving' = opening /\ verdict' = Overtaken
  /\ Len(messages) < MaxOnTheWay
  /\ \E empty \in BOOLEAN : messages' = Append(messages, Snapshot(opening, empty))
  /\ UNCHANGED <<shownSymbol, listening, requested, status, live, requests, opened, screenVars,
                 ranges, again, switches>>

(* There is no context, or a pane has the symbol in another time frame.                         *)
ContextFails ==
  /\ opening # None /\ opening' = None /\ Len(messages) < MaxOnTheWay
  /\ messages' = Append(messages, Refusal)
  /\ verdict' = IF verdict = "served" THEN "refused" ELSE verdict
  /\ UNCHANGED <<shownSymbol, listening, requested, status, live, serving, requests, opened,
                 screenVars, ranges, again, switches>>

(* onRevocation: the session is moved to the standard symbol, unless a pane is in the way.      *)
EntitlementRevoked ==
  /\ serving \notin {None, Standard} /\ Len(messages) + 2 <= MaxOnTheWay
  /\ opening' = None /\ verdict' = "revoked"
  /\ \/ /\ serving' = Standard
        /\ \E empty \in BOOLEAN :
             messages' = messages \o <<Refusal, Snapshot(Standard, empty)>>
     \/ serving' = serving /\ messages' = Append(messages, Refusal)
  /\ UNCHANGED <<shownSymbol, listening, requested, status, live, requests, opened, screenVars,
                 ranges, again, switches>>

(* A pane is answered on the same socket.                                                       *)
PaneAnswered(s) ==
  /\ live /\ s \in OfPanes /\ Len(messages) < MaxOnTheWay
  /\ \/ /\ \E empty \in BOOLEAN : messages' = Append(messages, Snapshot(s, empty))
        /\ verdict' = Overtaken
     \/ messages' = Append(messages, Refusal) /\ UNCHANGED verdict
  /\ UNCHANGED <<shownSymbol, listening, requested, status, live, serving, opening, requests,
                 opened, screenVars, ranges, again, switches>>

(* Market data of a symbol the session has, for the main chart or for a pane. *)
ServerStreams(type, s) ==
  /\ live /\ s \in {serving} \cup OfPanes /\ Len(messages) < MaxOnTheWay
  /\ messages' = Append(messages, [type |-> type, symbol |-> s])
  /\ UNCHANGED <<shownSymbol, listening, requested, status, live, serving, opening, verdict,
                 requests, opened, screenVars, ranges, again, switches>>

----------------------------------------------------------------------------
(* The browser's end. *)

(* subscribe moves the listener of the application along. *)
FollowedBy(s) == s

(* subscribe. *)
SubscribeTo(s, state) ==
  IF requested = s /\ state = "ACTIVE" /\ live
    THEN UNCHANGED <<requested, listening, requests>> /\ status' = state
    ELSE /\ requested' = s /\ listening' = FollowedBy(s) /\ status' = "PENDING"
         /\ requests' = IF live THEN Append(requests, s) ELSE requests

(* onInitState: a snapshot of something else is answered with a request, and not shown; the     *)
(* screen starts over from one that is wanted.                                                  *)
OnInitState(m) ==
  IF m.symbol # shownSymbol
    THEN SubscribeTo(shownSymbol, "ACTIVE") /\ UNCHANGED screenVars
    ELSE LET content == IF m.empty THEN {} ELSE {m.symbol} IN
      /\ status' = "ACTIVE"
      /\ pendingTicks' = {}
      /\ screen' = [screen EXCEPT !["market"] = content, !["bars"] = content,
                                  !["ticks"] = {}, !["price"] = content]
      /\ lastPrice' = IF m.empty THEN None ELSE m.symbol
      /\ instrument' = m.symbol /\ feedStatus' = "LIVE"
      /\ UNCHANGED <<requested, listening, requests>>

(* onTick, onBarUpdate and onBarClose, and the listeners that only replace or append. *)
OnMarketData(m) ==
  /\ CASE m.type = "TICK" ->
            /\ pendingTicks' = pendingTicks \cup {m.symbol} /\ lastPrice' = m.symbol
            /\ UNCHANGED screen
       [] m.type = "BAR_UPDATE" ->
            /\ screen' = [screen EXCEPT !["bars"] = @ \cup {m.symbol}]
            /\ UNCHANGED <<pendingTicks, lastPrice>>
       [] m.type = "ORDERBOOK_UPDATE" ->
            /\ screen' = [screen EXCEPT !["market"] = @ \cup {m.symbol}]
            /\ UNCHANGED <<pendingTicks, lastPrice>>
  /\ UNCHANGED <<instrument, feedStatus, status, requested, listening, requests>>

(* onmessage: a message is for the listeners of its symbol.  A snapshot for anyone makes the    *)
(* subscription active, and an error for anyone makes it one.                                   *)
BrowserReceives ==
  /\ live /\ messages # << >> /\ messages' = Tail(messages)
  /\ LET m == Head(messages) IN
       IF m.symbol # listening
         THEN /\ status' = CASE m.type = "INIT_STATE" -> "ACTIVE" [] m.type = "ERROR" -> "ERROR"
                             [] OTHER -> status
              /\ UNCHANGED <<requested, listening, requests, screenVars>>
         ELSE IF m.type = "INIT_STATE" THEN OnInitState(m) ELSE OnMarketData(m)
  /\ UNCHANGED <<shownSymbol, live, serving, opening, verdict, opened, ranges, again, switches>>

(* flushTimer: 120 ms. *)
Flush ==
  /\ pendingTicks # {} /\ pendingTicks' = {}
  /\ screen' = [screen EXCEPT !["ticks"] = @ \cup pendingTicks,
                              !["price"] = IF lastPrice = None THEN @ ELSE {lastPrice}]
  /\ UNCHANGED <<shownSymbol, listening, requested, status, socketState, lastPrice, instrument,
                 feedStatus, ranges, again, switches>>

(* A fault: trades that wait for the flush outlive the switch. *)
KeptTicks == pendingTicks

ClearedTicks == {}

(* handleSelectSymbol: everything of the market is cleared, the instrument is not. *)
SelectSymbol(s) ==
  /\ switches < MaxSwitches /\ switches' = switches + 1
  /\ Len(requests) < MaxOnTheWay
  /\ again' = (again \/ s = shownSymbol)
  /\ shownSymbol' = s
  /\ screen' = Blank /\ pendingTicks' = ClearedTicks /\ lastPrice' = None
  /\ feedStatus' = "UNAVAILABLE"
  /\ SubscribeTo(s, status)
  /\ UNCHANGED <<live, serving, opening, verdict, messages, opened, instrument, ranges>>

(* handleFixedRangeSelect asks for a profile of the range, and shows whatever comes back. *)
SelectRange ==
  /\ screen["bars"] # {} /\ ranges' = ranges \cup {shownSymbol} /\ ranges' # ranges
  /\ UNCHANGED <<shownSymbol, listening, requested, status, socketState, screenVars, again,
                 switches>>

RangeAnswered(s) ==
  /\ s \in ranges /\ ranges' = ranges \ {s}
  /\ \E answer \in {{}, {s}} : screen' = [screen EXCEPT !["range"] = answer]
  /\ UNCHANGED <<shownSymbol, listening, requested, status, socketState, pendingTicks, lastPrice,
                 instrument, feedStatus, again, switches>>

TerminalNext ==
  \/ SocketOpens \/ SocketLost \/ BrowserReceives \/ Flush \/ SelectRange
  \/ RequestTaken \/ ServerRefuses \/ ServerDrops
  \/ ContextReady \/ ContextFails \/ EntitlementRevoked
  \/ \E s \in Instruments :
       \/ SelectSymbol(s) \/ RangeAnswered(s) \/ PaneAnswered(s)
       \/ \E type \in {"TICK", "BAR_UPDATE", "ORDERBOOK_UPDATE"} : ServerStreams(type, s)

TerminalSpec == TerminalInit /\ [][TerminalNext]_terminalVars

(* The server starts a session with a symbol there is.                                          *)
TerminalAssumption == Standard \in Instruments /\ None \notin Instruments

----------------------------------------------------------------------------
(* No part of the screen shows another symbol than the one it names: the switch clears, the     *)
(* dispatch by symbol keeps out what was still on its way, a lost socket takes the feed's light *)
(* with it.  A range profile that is still being computed is the exception: its answer is shown *)
(* whatever the screen shows by then.                                                           *)
ShownIsOfTheSymbol ==
  /\ \A p \in Parts \ {"range"} : screen[p] \subseteq {shownSymbol}
  /\ pendingTicks \subseteq {shownSymbol} /\ lastPrice \in {None, shownSymbol}
  /\ feedStatus = "LIVE" => live /\ instrument = shownSymbol

(* Nothing is on its way, in either direction or on the server.                                 *)
AllArrived == live /\ requests = << >> /\ opening = None /\ messages = << >>

(* Nothing is lost between a choice and its picture: once nothing is on its way, the server     *)
(* serves the symbol that is shown and its snapshot has arrived, unless it refused that symbol, *)
(* dropped the request or took the symbol away.  Then the session goes on with what it had.     *)
(* The other exception is a symbol that is selected while it is shown: the screen is cleared,   *)
(* and subscribe drops the request as a repetition.                                             *)
ChoiceArrives ==
  AllArrived /\ verdict = "served" /\ ~again =>
    serving = shownSymbol /\ instrument = shownSymbol /\ feedStatus = "LIVE"

(* A refusal is told: the subscription is in error, unless a snapshot came after it, of the     *)
(* request before it or of a pane.                                                              *)
RefusalIsTold == AllArrived /\ verdict = "refused" => status = "ERROR"

ScreenIsTrue == ShownIsOfTheSymbol /\ ChoiceArrives /\ RefusalIsTold
=============================================================================
