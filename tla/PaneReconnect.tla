----------------------------- MODULE PaneReconnect -----------------------------
(***************************************************************************)
(* One browser and the server: the client's multiplexer (websocket.ts),    *)
(* with the charts that use it (App.tsx, SecondaryChartPane.tsx), composed *)
(* with Subscriptions.  What the user wants to see is the state of the     *)
(* browser; a connection carries its requests in order and may be lost     *)
(* with some of them; the next connection starts from nothing, and the     *)
(* browser asks again for everything.                                      *)
(*                                                                         *)
(* Left out: a server that shuts down and entitlements that are revoked    *)
(* (Subscriptions has both).  What the server sends back decides nothing   *)
(* but the browser's first request for its main chart.                     *)
(***************************************************************************)
EXTENDS Subscriptions

CONSTANT MaxChoices  (* Bound on what the user does. *)

ASSUME ChoicesAssumption ==
  /\ MaxChoices \in Nat
  /\ IsFiniteSet(Owners) /\ None \notin Sessions

VARIABLES
  wanted,   (* wanted[o]: what pane o shows (paneSubscriptions), or the main chart. *)
  active,   (* activeSubscription is set: the main chart was asked for.    *)
  conn,     (* The open connection, or None.                               *)
  wire,     (* The requests on their way to the server, on conn.           *)
  choices   (* How much the user did.                                      *)

browser == <<wanted, active, conn, wire, choices>>
allVars == <<vars, browser>>

Panes   == Owners \ {Primary}
Default == [symbol |-> Opening, frame |-> Minute]

Messages == [type : {"SUBSCRIBE"}, owner : Owners, sub : Subs]
              \cup [type : {"UNSUBSCRIBE"}, owner : Panes, symbol : Symbols]

(* The browser's state has its types, and nothing is on its way without a connection.       *)
BrowserTypeOK ==
  /\ wanted \in [Owners -> Subs \cup {None}] /\ wanted[Primary] # None
  /\ active \in BOOLEAN
  /\ conn \in Sessions \cup {None}
  /\ wire \in Seq(Messages) /\ (conn = None => wire = << >>)
  /\ choices \in Nat

Ask(o, sub)   == [type |-> "SUBSCRIBE", owner |-> o, sub |-> sub]
Leave(o, sub) == [type |-> "UNSUBSCRIBE", owner |-> o, symbol |-> sub.symbol]

(* What a user may ask for on one connection: each symbol at one time frame. *)
ConflictFree(w) ==
  \A o, p \in Owners :
    w[o] # None /\ w[p] # None /\ w[o].symbol = w[p].symbol => w[o] = w[p]

(* send: dropped unless the socket is open. *)
Send(msgs) == wire' = IF conn = None THEN wire ELSE wire \o msgs

----------------------------------------------------------------------------
(* A fault: only the main chart is asked for again. *)
ResentPrimary(q) == IF active THEN <<Ask(Primary, wanted[Primary])>> ELSE << >>

(* onopen: the panes, then the main chart if it was ever asked for. *)
Resent(q) ==
  [i \in DOMAIN q |-> Ask(q[i], wanted[q[i]])]
    \o (IF active THEN <<Ask(Primary, wanted[Primary])>> ELSE << >>)

(* The server accepts the socket, and the browser's onopen runs. *)
Open(s) ==
  /\ conn = None /\ Accept(s)
  /\ conn' = s
  /\ \E q \in SetToSeqs({o \in Panes : wanted[o] # None}) : wire' = Resent(q)
  /\ UNCHANGED <<wanted, active, choices>>

(* The connection is lost with what was on its way; the server notices it in its own time. *)
Lost ==
  /\ Idle /\ conn # None
  /\ conn' = None /\ wire' = << >>
  /\ UNCHANGED <<vars, wanted, active, choices>>

(* The server handles the next message of the connection. *)
Deliver ==
  /\ conn # None /\ wire # << >>
  /\ LET m == Head(wire) IN
       \/ m.type = "SUBSCRIBE" /\ Request(conn, m.owner, m.sub)
       \/ m.type = "UNSUBSCRIBE" /\ Withdraw(conn, m.owner, m.symbol)
  /\ wire' = Tail(wire)
  /\ UNCHANGED <<wanted, active, conn, choices>>

(* The main chart may start with what was saved; the first snapshot of the default symbol tells *)
(* it that the server shows something else, and it asks.                                        *)
Adopt ==
  /\ Idle /\ conn # None /\ ~active
  /\ attached[conn][Opening] # None /\ wanted[Primary] # Default
  /\ active' = TRUE
  /\ Send(<<Ask(Primary, wanted[Primary])>>)
  /\ UNCHANGED <<vars, wanted, conn, choices>>

Chooses(o, sub) ==
  /\ Idle /\ choices < MaxChoices /\ choices' = choices + 1
  /\ wanted[o] # sub
  /\ wanted' = [wanted EXCEPT ![o] = sub]
  /\ ConflictFree(wanted')

(* handleSelectSymbol, handleTimeframeChange. *)
ChooseChart(sub) ==
  /\ Chooses(Primary, sub)
  /\ active' = TRUE
  /\ Send(<<Ask(Primary, sub)>>)
  /\ UNCHANGED <<vars, conn>>

(* A pane is opened, closed or changed: the effect's cleanup runs before the new effect. *)
ChoosePane(o, sub) ==
  /\ Chooses(o, sub)
  /\ Send((IF wanted[o] = None THEN << >> ELSE <<Leave(o, wanted[o])>>)
            \o (IF sub = None THEN << >> ELSE <<Ask(o, sub)>>))
  /\ UNCHANGED <<vars, active, conn>>

BrowserInit ==
  /\ Init
  /\ wanted \in [Owners -> Subs \cup {None}] /\ wanted[Primary] # None /\ ConflictFree(wanted)
  /\ active = FALSE /\ conn = None /\ wire = << >> /\ choices = 0

ServerAlone ==
  /\ \/ Resume
     \/ \E y \in Symbols : Connected(y) \/ CleanupFires(y)
     \/ \E s \in Sessions : Drop(s) \/ Closed(s)
  /\ UNCHANGED browser

BrowserNext ==
  \/ \E s \in Sessions : Open(s)
  \/ Lost \/ Deliver \/ Adopt
  \/ \E sub \in Subs : ChooseChart(sub)
  \/ \E o \in Panes, sub \in Subs \cup {None} : ChoosePane(o, sub)
  \/ ServerAlone

BrowserSpec == BrowserInit /\ [][BrowserNext]_allVars

----------------------------------------------------------------------------
(* Everything the browser asked for on an open connection has been dealt with. *)
Settled ==
  /\ conn # None /\ socket[conn] = "open" /\ wire = << >> /\ calls = << >>
  /\ active \/ wanted[Primary] = Default

(* The main chart, and each pane that does not show the default symbol at a time frame of its  *)
(* own, is served as the user sees it, however connections were lost and charts changed: no    *)
(* request is overtaken by an older one, and none is forgotten on the way.                      *)
OthersAreRestored ==
  Settled => \A o \in Owners :
    \/ owners[conn][o] = wanted[o]
    \/ o # Primary /\ wanted[o] # None /\ wanted[o].symbol = Opening /\ wanted[o].frame # Minute

Again == \E s \in Sessions \ {conn} : socket[s] # "new"

(* "Browser reconnect only restores the requests of the existing panes" (phase 06): a later     *)
(* connection does restore them, since they fit together.                                       *)
ReconnectRestores == Settled /\ Again => owners[conn] = wanted
=============================================================================
