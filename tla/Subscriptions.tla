----------------------------- MODULE Subscriptions -----------------------------
(***************************************************************************)
(* Who is subscribed to what: the manager of the market contexts           *)
(* (marketContext.ts), the sessions of the connected browsers (session.ts) *)
(* and the handlers of index.ts that bring them together.  A browser holds *)
(* several subscriptions on one connection: a primary chart and panes, each *)
(* an owner with a generation of its own.                                  *)
(*                                                                         *)
(* The server is one thread, and a step is one turn of its event loop up   *)
(* to the first await that really waits.  MarketContextManager.subscribe   *)
(* awaits the context: a call waits in calls and resumes, in its turn, when *)
(* the context is ready, before any other event.  Disconnecting a feed is  *)
(* immediate in both feeds of the source, so a context is stopped, removed *)
(* and disposed in one step; connecting is immediate too, but the code     *)
(* (and its tests) allows for feeds that take their time: PromptFeeds.     *)
(***************************************************************************)
EXTENDS Nothing, Naturals, Sequences, SequencesExt

CONSTANTS
  Sessions,     (* The connections ever made to the server.                *)
  Owners,       (* Subscription ids, the panes of a browser and            *)
  Primary,      (* "default", the one of its main chart.                   *)
  Symbols,
  Home,         (* DEFAULT_SYMBOL.                                         *)
  Opening,      (* The profile's symbol if there is one, or Home.          *)
  Frames,
  Minute,       (* "1m".                                                   *)
  AuthRequired, (* AUTH_REQUIRED=1.                                        *)
  PromptFeeds,  (* feed.connect resolves in the turn it is called in.      *)
  MaxGeneration (* Bound on what a client asks of one owner.               *)

Subs == [symbol : Symbols, frame : Frames]

ASSUME SubscriptionsAssumption ==
  /\ Primary \in Owners
  /\ Home \in Symbols /\ Opening \in Symbols
  /\ Minute \in Frames
  /\ None \notin Frames /\ None \notin Subs
  /\ AuthRequired \in BOOLEAN /\ PromptFeeds \in BOOLEAN
  /\ MaxGeneration \in Nat

VARIABLES
  socket,       (* "new", "open", "closing" (not OPEN, no 'close' event yet) or "closed". *)
  owners,       (* owners[s][o]: subscriptionOwners, a subscription or None. *)
  attached,     (* attached[s][y]: subscriptions, the time frame or None.  *)
  shown,        (* subscribedSymbol and subscribedTimeframe.               *)
  generation, epoch,
  context,      (* context[y]: "absent", "connecting" (pendingInits) or "ready". *)
  subscribers,  (* subscribers[y]: the sessions of the context of y.       *)
  timer,        (* timer[y]: the cleanup of the context of y is scheduled. *)
  calls,        (* The calls of subscribe that await their context, in order. *)
  disposed,     (* The manager is disposed.                                *)
  uncaught      (* A rejection nobody handles: Node ends the process.      *)

session == <<socket, owners, attached, shown, generation, epoch>>
manager == <<context, subscribers, timer, calls, disposed, uncaught>>
vars    == <<session, manager>>

Calls == [session : Sessions, owner : Owners, sub : Subs,
          generation : Nat, epoch : Nat, caught : BOOLEAN]

TypeOK ==
  /\ socket \in [Sessions -> {"new", "open", "closing", "closed"}]
  /\ owners \in [Sessions -> [Owners -> Subs \cup {None}]]
  /\ attached \in [Sessions -> [Symbols -> Frames \cup {None}]]
  /\ shown \in [Sessions -> Subs]
  /\ generation \in [Sessions -> [Owners -> Nat]]
  /\ epoch \in [Sessions -> Nat]
  /\ context \in [Symbols -> {"absent", "connecting", "ready"}]
  /\ subscribers \in [Symbols -> SUBSET Sessions]
  /\ timer \in [Symbols -> BOOLEAN]
  /\ calls \in Seq(Calls)
  /\ disposed \in BOOLEAN /\ uncaught \in BOOLEAN

----------------------------------------------------------------------------
(* The turns of the event loop. *)

Resumable(c) == context[c.sub.symbol] = "ready"

Idle ==
  /\ ~uncaught
  /\ \A i \in DOMAIN calls : ~Resumable(calls[i])
  /\ PromptFeeds => \A y \in Symbols : context[y] # "connecting"

(* A fault: a pane that closes or moves takes its symbol away from the others. *)
HeldByNone(h, o, y) == FALSE

(* Some owner of h other than o has a subscription to y. *)
HeldBesides(h, o, y) ==
  \E p \in Owners \ {o} : h[p] # None /\ h[p].symbol = y

Held(h, y) == \E o \in Owners : h[o] # None /\ h[o].symbol = y

(* scheduleUnused, for the symbols of left once their contexts have only the subscribers of S. *)
Scheduled(left, S) ==
  [y \in Symbols |-> \/ timer[y]
                     \/ y \in left /\ y # Home /\ context[y] = "ready" /\ S[y] = {}]

(* addSubscriber cancels the cleanup of y. *)
Cancelled(T, y) == [T EXCEPT ![y] = FALSE]

(* detach: session s leaves the contexts of the symbols of left. *)
Without(s, left) ==
  [y \in Symbols |-> IF y \in left /\ context[y] = "ready"
                     THEN subscribers[y] \ {s} ELSE subscribers[y]]

Detach(s, left) ==
  /\ subscribers' = Without(s, left)
  /\ timer' = Scheduled(left, Without(s, left))
  /\ attached' = [attached EXCEPT ![s] =
                    [y \in Symbols |-> IF y \in left THEN None ELSE @[y]]]

Bump(s, o) == generation' = [generation EXCEPT ![s][o] = @ + 1]

(* subscribe, up to its await: the call holds the generation it was given, and a context that is *)
(* not there is created.                                                                        *)
Subscribe(s, o, sub, caught) ==
  /\ Bump(s, o)
  /\ calls' = Append(calls, [session |-> s, owner |-> o, sub |-> sub,
                             generation |-> generation[s][o] + 1, epoch |-> epoch[s],
                             caught |-> caught])
  /\ context' = [context EXCEPT ![sub.symbol] = IF @ = "absent" THEN "connecting" ELSE @]

----------------------------------------------------------------------------
(* The connections and what the browsers ask. *)

(* wss 'connection': the server subscribes the primary chart, and handles no failure of it. *)
Accept(s) ==
  /\ Idle /\ ~disposed /\ socket[s] = "new"
  /\ socket' = [socket EXCEPT ![s] = "open"]
  /\ Subscribe(s, Primary, [symbol |-> Opening, frame |-> Minute], FALSE)
  /\ UNCHANGED <<owners, attached, shown, epoch, subscribers, timer, disposed, uncaught>>

(* Messages are handled until the 'close' event. *)
Hears(s) == Idle /\ ~disposed /\ socket[s] \in {"open", "closing"}

(* SUBSCRIBE, of a symbol and a time frame the user may see. *)
Request(s, o, sub) ==
  /\ Hears(s) /\ generation[s][o] < MaxGeneration
  /\ Subscribe(s, o, sub, TRUE)
  /\ UNCHANGED <<socket, owners, attached, shown, epoch, subscribers, timer, disposed, uncaught>>

(* UNSUBSCRIBE, of the symbol y or of whatever the owner has: what it asked for is withdrawn. *)
Withdraw(s, o, y) ==
  /\ Hears(s) /\ generation[s][o] < MaxGeneration
  /\ Bump(s, o)
  /\ LET old  == owners[s][o]
         ends == old # None /\ (y = None \/ old.symbol = y)
     IN  /\ owners' = IF ends THEN [owners EXCEPT ![s][o] = None] ELSE owners
         /\ Detach(s, {z \in Symbols : ends /\ z = old.symbol /\ ~HeldBesides(owners[s], o, z)})
  /\ UNCHANGED <<socket, shown, epoch, context, calls, disposed, uncaught>>

(* The server closes the socket: a browser that reads too slowly, a failed heartbeat. *)
Drop(s) ==
  /\ Idle /\ socket[s] = "open"
  /\ socket' = [socket EXCEPT ![s] = "closing"]
  /\ UNCHANGED <<owners, attached, shown, generation, epoch, manager>>

(* The 'close' event: unsubscribe of the whole session. *)
Closed(s) ==
  /\ Idle /\ socket[s] \in {"open", "closing"}
  /\ socket' = [socket EXCEPT ![s] = "closed"]
  /\ epoch' = [epoch EXCEPT ![s] = @ + 1]
  /\ generation' = [generation EXCEPT ![s] =
                      [o \in Owners |-> IF owners[s][o] # None THEN @[o] + 1 ELSE @[o]]]
  /\ owners' = [owners EXCEPT ![s] = [o \in Owners |-> None]]
  /\ Detach(s, {y \in Symbols : attached[s][y] # None \/ Held(owners[s], y)})
  /\ UNCHANGED <<shown, context, calls, disposed, uncaught>>

(* An entitlement for the symbol shown is revoked: back to the default symbol, or out. *)
Revoke(s) ==
  /\ Hears(s) /\ generation[s][Primary] < MaxGeneration
  /\ IF ~AuthRequired /\ shown[s].symbol # Home
     THEN /\ Subscribe(s, Primary, [symbol |-> Home, frame |-> Minute], FALSE)
          /\ UNCHANGED socket
     ELSE /\ socket' = [socket EXCEPT ![s] = "closing"]
          /\ UNCHANGED <<generation, calls, context>>
  /\ UNCHANGED <<owners, attached, shown, epoch, subscribers, timer, disposed, uncaught>>

----------------------------------------------------------------------------
(* The end of a call of subscribe. *)

(* The first call whose context is ready is taken from calls. *)
Takes(i) ==
  /\ ~uncaught /\ i \in DOMAIN calls /\ Resumable(calls[i])
  /\ \A j \in 1 .. (i - 1) : ~Resumable(calls[j])
  /\ calls' = RemoveAt(calls, i)

(* What subscribe checks after its await. *)
Superseded(c) ==
  \/ socket[c.session] # "open"
  \/ generation[c.session][c.owner] # c.generation
  \/ epoch[c.session] # c.epoch

(* Another owner has the symbol at another time frame. *)
Conflicts(c) ==
  \E p \in Owners \ {c.owner} :
    /\ owners[c.session][p] # None
    /\ owners[c.session][p].symbol = c.sub.symbol
    /\ owners[c.session][p].frame # c.sub.frame

(* A fault: a context whose callers all left is forgotten. *)
AbandonQuietly(i) ==
  /\ Takes(i) /\ Superseded(calls[i])
  /\ UNCHANGED <<session, context, subscribers, timer, disposed, uncaught>>

(* Nobody wants the answer any more. *)
Abandon(i) ==
  LET c == calls[i] IN
  /\ Takes(i) /\ Superseded(c)
  /\ timer' = Scheduled({c.sub.symbol}, subscribers)
  /\ UNCHANGED <<session, context, subscribers, disposed, uncaught>>

(* The request is rejected; its caller answers it with an error, or nobody does. *)
Refuse(i) ==
  LET c == calls[i] IN
  /\ Takes(i) /\ ~Superseded(c) /\ Conflicts(c)
  /\ uncaught' = ~c.caught
  /\ UNCHANGED <<session, context, subscribers, timer, disposed>>

(* The owner moves: it leaves the symbol it had, unless another owner has it too, and joins. *)
Join(i) ==
  LET c    == calls[i]
      s    == c.session
      y    == c.sub.symbol
      old  == owners[s][c.owner]
      left == {z \in Symbols : /\ old # None /\ z = old.symbol /\ z # y
                               /\ ~HeldBesides(owners[s], c.owner, z)}
      S    == Without(s, left)
  IN  /\ Takes(i) /\ ~Superseded(c) /\ ~Conflicts(c)
      /\ owners' = [owners EXCEPT ![s][c.owner] = c.sub]
      /\ subscribers' = [S EXCEPT ![y] = @ \cup {s}]
      /\ timer' = Cancelled(Scheduled(left, S), y)
      /\ attached' = [attached EXCEPT ![s] =
                        [z \in Symbols |-> IF z = y THEN c.sub.frame
                                           ELSE IF z \in left THEN None ELSE @[z]]]
      /\ shown' = IF c.owner = Primary THEN [shown EXCEPT ![s] = c.sub] ELSE shown
      /\ UNCHANGED <<socket, generation, epoch, context, disposed, uncaught>>

----------------------------------------------------------------------------
(* The contexts. *)

(* feed.connect ended, well or not: the context is there, and its callers resume. *)
Connected(y) ==
  /\ ~uncaught /\ context[y] = "connecting"
  /\ \A i \in DOMAIN calls : ~Resumable(calls[i])
  /\ context' = [context EXCEPT ![y] = "ready"]
  /\ UNCHANGED <<session, subscribers, timer, calls, disposed, uncaught>>

(* Ten seconds without subscribers: the feed is stopped, the context removed and disposed. *)
CleanupFires(y) ==
  /\ Idle /\ timer[y]
  /\ timer' = [timer EXCEPT ![y] = FALSE]
  /\ context' = IF subscribers[y] = {} THEN [context EXCEPT ![y] = "absent"] ELSE context
  /\ UNCHANGED <<session, subscribers, calls, disposed, uncaught>>

(* A fault: a context that still connects is put into the map when it is ready. *)
RemainConnecting ==
  [y \in Symbols |-> IF context[y] = "connecting" THEN "connecting" ELSE "absent"]

(* disposeAll disposes the contexts of the map and those that still connect. *)
Remain == [y \in Symbols |-> "absent"]

(* closeServer: the sockets are destroyed, then disposeAll.  The contexts that still connect are *)
(* disposed as well, and the calls that wait for them are rejected.                              *)
Shutdown ==
  /\ Idle /\ ~disposed
  /\ disposed' = TRUE
  /\ socket' = [s \in Sessions |-> IF socket[s] = "open" THEN "closing" ELSE socket[s]]
  /\ attached' = [s \in Sessions |-> [y \in Symbols |->
                    IF s \in subscribers[y] THEN None ELSE attached[s][y]]]
  /\ context' = Remain
  /\ subscribers' = [y \in Symbols |-> {}]
  /\ timer' = [y \in Symbols |-> FALSE]
  /\ calls' = << >>
  /\ uncaught' = \E i \in DOMAIN calls : ~calls[i].caught
  /\ UNCHANGED <<owners, shown, generation, epoch>>

----------------------------------------------------------------------------
Init ==
  /\ socket = [s \in Sessions |-> "new"]
  /\ owners = [s \in Sessions |-> [o \in Owners |-> None]]
  /\ attached = [s \in Sessions |-> [y \in Symbols |-> None]]
  /\ shown = [s \in Sessions |-> [symbol |-> Home, frame |-> Minute]]
  /\ generation = [s \in Sessions |-> [o \in Owners |-> 0]]
  /\ epoch = [s \in Sessions |-> 0]
  /\ context = [y \in Symbols |-> IF y = Opening THEN "connecting" ELSE "absent"]
  /\ subscribers = [y \in Symbols |-> {}]
  /\ timer = [y \in Symbols |-> FALSE]
  /\ calls = << >>
  /\ disposed = FALSE /\ uncaught = FALSE

Resume == \E i \in DOMAIN calls : Abandon(i) \/ Refuse(i) \/ Join(i)

Server(s) == Accept(s) \/ Drop(s) \/ Closed(s) \/ Revoke(s)

Next ==
  \/ \E s \in Sessions :
       \/ Server(s)
       \/ \E o \in Owners : \/ \E sub \in Subs : Request(s, o, sub)
                            \/ \E y \in Symbols \cup {None} : Withdraw(s, o, y)
  \/ Resume
  \/ \E y \in Symbols : Connected(y) \/ CleanupFires(y)
  \/ Shutdown

Spec == Init /\ [][Next]_vars

(* Timers fire, and what is ready resumes; nothing is assumed of browsers and feeds. *)
LiveSpec ==
  Spec /\ WF_vars(Resume) /\ \A y \in Symbols : WF_vars(CleanupFires(y))

----------------------------------------------------------------------------
(* Nobody has used a connection that is yet to come, a context that is not ready has no *)
(* subscribers, and nothing waits once the manager is disposed.                         *)
Fresh ==
  /\ \A s \in Sessions : socket[s] = "new" =>
       /\ \A o \in Owners : owners[s][o] = None
       /\ \A y \in Symbols : s \notin subscribers[y]
  /\ \A y \in Symbols : context[y] # "ready" => subscribers[y] = {}
  /\ disposed => calls = << >>

(* A session's own table of its symbols names the contexts it is a subscriber of. *)
AttachedAgrees ==
  \A s \in Sessions, y \in Symbols : attached[s][y] # None <=> s \in subscribers[y]

(* The bookkeeping of a session, of its owners and of the contexts agree: while the server runs *)
(* a context sends to a session exactly while some owner of the session has its symbol.         *)
OwnersAreServed ==
  ~disposed => \A s \in Sessions, y \in Symbols : (s \in subscribers[y] <=> Held(owners[s], y))

(* All owners a session has on one symbol get the one time frame the context sends, so that no *)
(* pane mixes the bars of two time frames.                                                    *)
OneFramePerSymbol ==
  \A s \in Sessions, o \in Owners :
    owners[s][o] # None /\ ~disposed
      => attached[s][owners[s][o].symbol] = owners[s][o].frame

(* A closed socket leaves nothing behind, and no call that was waiting brings it back. *)
ClosedIsForgotten ==
  \A s \in Sessions : socket[s] = "closed" =>
    /\ \A o \in Owners : owners[s][o] = None
    /\ \A y \in Symbols : attached[s][y] = None /\ s \notin subscribers[y]

Awaited(y) == \E i \in DOMAIN calls : calls[i].sub.symbol = y

(* A context nobody uses is about to be released: its cleanup is scheduled, or a call for it is *)
(* about to resume.  Kept are the default symbol, and the one warmed at boot until it is used.  *)
UnusedIsScheduled ==
  \A y \in Symbols \ {Home, Opening} :
    context[y] # "absent" /\ subscribers[y] = {} => timer[y] \/ Awaited(y)

(* A scheduled cleanup is of a context that is there and that nobody uses: whoever joins it *)
(* cancels the cleanup.                                                                     *)
ScheduledIsUnused ==
  \A y \in Symbols : timer[y] => context[y] = "ready" /\ subscribers[y] = {}

(* After the shutdown no context is left, and none is created. *)
DisposedIsEmpty ==
  disposed => \A y \in Symbols : context[y] = "absent" /\ subscribers[y] = {} /\ ~timer[y]

(* All of it together is what every step relies on. *)
SubscriptionsInv ==
  /\ TypeOK /\ Fresh /\ AttachedAgrees /\ OwnersAreServed /\ OneFramePerSymbol
  /\ ClosedIsForgotten /\ UnusedIsScheduled /\ ScheduledIsUnused /\ DisposedIsEmpty

(* A context that nobody uses is released in the end, unless somebody joins it (or the process *)
(* ends): the cleanups that are lost, re-armed and cancelled never leave one behind.           *)
UnusedIsReleased ==
  \A y \in Symbols \ {Home, Opening} :
    (context[y] = "ready" /\ subscribers[y] = {})
      ~> (context[y] = "absent" \/ subscribers[y] # {} \/ uncaught)

(* "Same symbol with differing timeframes in one socket is rejected with                        *)
(* SUBSCRIPTION_OWNERSHIP_CONFLICT" (phase 06): a conflict is answered to the browser, and no   *)
(* rejection but those of a shutdown is left for the process to die of.                         *)
ConflictIsAnswered == uncaught => disposed
=============================================================================
