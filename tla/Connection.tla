------------------------------ MODULE Connection ------------------------------
(***************************************************************************)
(* The browser's connection (client/services/websocket.ts,                 *)
(* DeepChartWSClient): one socket, the timers around it, and the request   *)
(* for the main chart that every new socket has to carry.                  *)
(*                                                                         *)
(* A socket is what the browser makes of it: it connects, opens, and       *)
(* closes with a code; its handlers are the client's until the client      *)
(* detaches them.  Time is left out: a timer that is armed fires some day, *)
(* so the debounce of a disconnect races with everything.  The panes are   *)
(* in PaneReconnect; a constructor of a socket that throws is left out.    *)
(***************************************************************************)
EXTENDS Nothing, Naturals, FiniteSets

CONSTANTS
  Series,       (* What the main chart may show: symbol and time frame.    *)
  MaxMounts,    (* Bound on how often the application is mounted.          *)
  MaxBackoff    (* The attempt at which the delay has reached 30 seconds.  *)

(* A number of a socket, and the handle of a timer, is never null.         *)
ConnectionAssumption ==
  /\ MaxMounts \in Nat /\ MaxBackoff \in Nat
  /\ None \notin 1..(MaxMounts + 1) /\ None \notin 1..2 /\ None \notin Series

VARIABLES
  mounted,           (* The application is mounted.                        *)
  mounts,            (* How often it was.                                  *)
  ws,                (* The client's socket, or None.                      *)
  sockets,           (* Every socket: what it is, and who hears it.        *)
  isConnected,
  intentionalClose,
  retries,           (* The reconnect timers that are armed.               *)
  reconnectTimer,    (* The handle of the last one, armed or not.          *)
  disconnectTimer,   (* The 50 ms of a disconnect are running.             *)
  pinging,           (* The ping's interval is running.                    *)
  watching,          (* The stale checker's interval is running.           *)
  reconnectCount,    (* Closes since the last open, up to MaxBackoff.      *)
  lastMessage,       (* None, "fresh" or "old": older than 15 s.           *)
  subscriptionState,
  activeSubscription,
  asked,             (* The last request the open socket carried.          *)
  refused            (* The server refused the session (1008).             *)

timerVars == <<retries, reconnectTimer, disconnectTimer, pinging, watching>>
seriesVars == <<subscriptionState, activeSubscription, asked>>
socketVars == <<ws, sockets, isConnected, intentionalClose>>
connectionVars ==
  <<mounted, mounts, socketVars, timerVars, seriesVars, reconnectCount, lastMessage, refused>>

Ids    == 1..(MaxMounts + 1)
Nobody == [state |-> "gone", heard |-> "nobody"]
Is(state) == ws # None /\ sockets[ws].state = state

ConnectionTypeOK ==
  /\ mounted \in BOOLEAN /\ mounts \in 0..MaxMounts
  /\ ws \in Ids \cup {None}
  /\ sockets \in [Ids -> [state : {"gone", "connecting", "open", "closing", "closed"},
                          heard : {"client", "closer", "nobody"}]]
  /\ {isConnected, intentionalClose, disconnectTimer, pinging, watching, refused} \subseteq BOOLEAN
  /\ retries \subseteq 1..2 /\ reconnectTimer \in 1..2 \cup {None}
  /\ reconnectCount \in 0..MaxBackoff
  /\ lastMessage \in {None, "fresh", "old"}
  /\ subscriptionState \in {"UNSUBSCRIBED", "PENDING", "ACTIVE", "STALE", "RECOVERING", "ERROR"}
  /\ activeSubscription \in Series \cup {None} /\ asked \in Series \cup {None}

ConnectionInit ==
  /\ mounted = FALSE /\ mounts = 0
  /\ ws = None /\ sockets = [id \in Ids |-> Nobody]
  /\ isConnected = FALSE /\ intentionalClose = FALSE
  /\ retries = {} /\ reconnectTimer = None /\ disconnectTimer = FALSE
  /\ pinging = FALSE /\ watching = FALSE
  /\ reconnectCount = 0 /\ lastMessage = None
  /\ subscriptionState = "UNSUBSCRIBED" /\ activeSubscription = None /\ asked = None
  /\ refused = FALSE

----------------------------------------------------------------------------
(* connect: an open or a connecting socket is used again; any other one is let go, and a new    *)
(* one takes its place.                                                                         *)
Connect ==
  /\ intentionalClose' = FALSE /\ disconnectTimer' = FALSE
  /\ \/ /\ Is("open")
        /\ isConnected' = TRUE
        /\ UNCHANGED <<ws, sockets>>
     \/ /\ Is("connecting")
        /\ UNCHANGED <<ws, sockets, isConnected>>
     \/ /\ ~Is("open") /\ ~Is("connecting")
        /\ LET id == CHOOSE i \in Ids : sockets[i].state = "gone" IN
             /\ ws' = id
             /\ sockets' = [i \in Ids |->
                  IF i = id THEN [state |-> "connecting", heard |-> "client"]
                  ELSE IF i # ws THEN sockets[i]
                  ELSE IF Is("closing") THEN [sockets[i] EXCEPT !.heard = "nobody"] ELSE Nobody]
        /\ UNCHANGED isConnected

(* The effect of App.tsx; a development build mounts twice. *)
Mount ==
  /\ ~mounted /\ mounts < MaxMounts
  /\ mounted' = TRUE /\ mounts' = mounts + 1
  /\ refused' = FALSE
  /\ Connect
  /\ UNCHANGED <<retries, reconnectTimer, pinging, watching, seriesVars,
                 reconnectCount, lastMessage>>

(* A fault: a retry that waits is left to fire. *)
LeaveRetry ==
  /\ intentionalClose' = TRUE
  /\ pinging' = FALSE /\ disconnectTimer' = TRUE
  /\ UNCHANGED <<retries, reconnectTimer>>

(* disconnect: nothing is tried again, and the socket is closed when the debounce ends. *)
Disconnect ==
  /\ intentionalClose' = TRUE
  /\ pinging' = FALSE /\ disconnectTimer' = TRUE
  /\ retries' = retries \ {reconnectTimer} /\ reconnectTimer' = None

(* The cleanup of the effect. *)
Unmount ==
  /\ mounted /\ mounted' = FALSE
  /\ Disconnect
  /\ UNCHANGED <<mounts, ws, sockets, isConnected, watching, seriesVars, reconnectCount,
                 lastMessage, refused>>

(* The timer of disconnect: the handlers are detached before the socket is closed, and one that *)
(* is still connecting is closed as soon as it opens.                                           *)
DebounceEnds ==
  /\ disconnectTimer /\ disconnectTimer' = FALSE
  /\ \/ ws = None /\ UNCHANGED <<ws, sockets, isConnected>>
     \/ /\ ws # None /\ ws' = None /\ isConnected' = FALSE
        /\ sockets' = [sockets EXCEPT ![ws] =
             CASE @.state = "connecting" -> [@ EXCEPT !.heard = "closer"]
               [] @.state \in {"open", "closing"} -> [state |-> "closing", heard |-> "nobody"]
               [] OTHER -> Nobody]
  /\ UNCHANGED <<mounted, mounts, intentionalClose, retries, reconnectTimer, pinging, watching,
                 seriesVars, reconnectCount, lastMessage, refused>>

(* The callback of a reconnect timer. *)
RetryFires(t) ==
  /\ t \in retries /\ retries' = retries \ {t}
  /\ Connect
  /\ UNCHANGED <<mounted, mounts, reconnectTimer, pinging, watching, seriesVars, reconnectCount,
                 lastMessage, refused>>

----------------------------------------------------------------------------
(* onopen: the main chart is asked for again, if it was ever asked for. *)
Opened ==
  /\ Is("connecting") /\ sockets[ws].heard = "client"
  /\ sockets' = [sockets EXCEPT ![ws].state = "open"]
  /\ isConnected' = TRUE /\ reconnectCount' = 0
  /\ pinging' = TRUE /\ watching' = TRUE
  /\ asked' = activeSubscription
  /\ subscriptionState' = IF activeSubscription = None THEN subscriptionState ELSE "PENDING"
  /\ UNCHANGED <<mounted, mounts, ws, intentionalClose, retries, reconnectTimer, disconnectTimer,
                 activeSubscription, lastMessage, refused>>

(* A socket the client let go while it was connecting opens, and is closed. *)
OpenedTooLate(id) ==
  /\ sockets[id] = [state |-> "connecting", heard |-> "closer"]
  /\ sockets' = [sockets EXCEPT ![id].state = "closing"]
  /\ UNCHANGED <<mounted, mounts, ws, isConnected, intentionalClose, timerVars, seriesVars,
                 reconnectCount, lastMessage, refused>>

(* A fault: a server at its capacity is not asked again. *)
RetriedOnceOnly(code) == code = 1006

(* What a close is answered with: 1008 refuses the session, 1013 comes back in 15 seconds, and  *)
(* any other after a delay that doubles.                                                        *)
Retried(code) == code # 1008

(* onclose. *)
SocketCloses(code) ==
  /\ ws # None /\ sockets[ws].heard = "client" /\ ~Is("closed")
  /\ code # 1006 => ~Is("connecting")
  /\ sockets' = [sockets EXCEPT ![ws].state = "closed"]
  /\ pinging' = FALSE /\ watching' = FALSE /\ isConnected' = FALSE
  /\ reconnectCount' = IF reconnectCount < MaxBackoff THEN reconnectCount + 1 ELSE MaxBackoff
  /\ subscriptionState' = "UNSUBSCRIBED" /\ asked' = None
  /\ IF intentionalClose \/ ~Retried(code)
       THEN UNCHANGED <<retries, reconnectTimer>>
       ELSE LET t == CHOOSE i \in 1..2 : i \notin retries
            IN  retries' = retries \cup {t} /\ reconnectTimer' = t
  /\ refused' = (refused \/ (~intentionalClose /\ code = 1008))
  /\ UNCHANGED <<mounted, mounts, ws, intentionalClose, disconnectTimer, activeSubscription,
                 lastMessage>>

(* The peer closes: the socket is closing before its onclose runs. *)
Closing ==
  /\ Is("open")
  /\ sockets' = [sockets EXCEPT ![ws].state = "closing"]
  /\ UNCHANGED <<mounted, mounts, ws, isConnected, intentionalClose, timerVars, seriesVars,
                 reconnectCount, lastMessage, refused>>

(* A socket nobody hears has closed; one may fail to connect before it could be closed. *)
Vanishes(id) ==
  /\ \/ sockets[id].heard = "nobody" /\ sockets[id].state = "closing"
     \/ sockets[id].heard = "closer"
  /\ sockets' = [sockets EXCEPT ![id] = Nobody]
  /\ UNCHANGED <<mounted, mounts, ws, isConnected, intentionalClose, timerVars, seriesVars,
                 reconnectCount, lastMessage, refused>>

----------------------------------------------------------------------------
(* onmessage: the state a message of type m leaves the subscription in. *)
Receive(m) ==
  /\ Is("open")
  /\ lastMessage' = "fresh"
  /\ subscriptionState' = CASE m = "INIT_STATE" -> "ACTIVE"
                            [] m = "ERROR" -> "ERROR"
                            [] OTHER -> subscriptionState
  /\ UNCHANGED <<mounted, mounts, socketVars, timerVars, activeSubscription, asked,
                 reconnectCount, refused>>

(* Fifteen seconds without a message. *)
Silence ==
  /\ lastMessage = "fresh" /\ lastMessage' = "old"
  /\ UNCHANGED <<mounted, mounts, socketVars, timerVars, seriesVars, reconnectCount, refused>>

(* The stale checker. *)
CheckSilence ==
  /\ watching /\ isConnected
  /\ subscriptionState' = CASE lastMessage = "old" -> "STALE"
                            [] lastMessage # "old" /\ subscriptionState = "STALE" -> "RECOVERING"
                            [] OTHER -> subscriptionState
  /\ UNCHANGED <<mounted, mounts, socketVars, timerVars, activeSubscription, asked,
                 reconnectCount, lastMessage, refused>>

(* subscribe: a repetition is dropped only while its answer is in force. *)
Repeated(s) == activeSubscription = s /\ subscriptionState = "ACTIVE" /\ isConnected

SubscribeSeries(s) ==
  /\ mounted /\ ~Repeated(s)
  /\ activeSubscription' = s /\ subscriptionState' = "PENDING"
  /\ asked' = IF Is("open") THEN s ELSE asked
  /\ UNCHANGED <<mounted, mounts, socketVars, timerVars, reconnectCount, lastMessage, refused>>

ConnectionNext ==
  \/ Mount \/ Unmount \/ DebounceEnds \/ Opened \/ Closing \/ Silence \/ CheckSilence
  \/ \E t \in retries : RetryFires(t)
  \/ \E id \in Ids : OpenedTooLate(id) \/ Vanishes(id)
  \/ \E code \in {1006, 1008, 1013} : SocketCloses(code)
  \/ \E m \in {"INIT_STATE", "ERROR", "TICK"} : Receive(m)
  \/ \E s \in Series : SubscribeSeries(s)

(* A browser runs the timers that are armed and lets a socket come to an end; a server that is  *)
(* asked again and again accepts in the end.                                                    *)
ConnectionFairness ==
  /\ WF_connectionVars(\E t \in retries : RetryFires(t))
  /\ WF_connectionVars(\E code \in {1006, 1008, 1013} : Is("closing") /\ SocketCloses(code))
  /\ SF_connectionVars(Opened)

ConnectionSpec == ConnectionInit /\ [][ConnectionNext]_connectionVars /\ ConnectionFairness

----------------------------------------------------------------------------
(* Who hears: at most one socket is heard, the client's own; at most one attempt waits, and the *)
(* client can cancel it; and when the application is gone and the debounce of disconnect has    *)
(* ended, nothing of the connection is left that could act.  The two intervals are not part of  *)
(* it: onopen starts them even during the debounce, and then nothing stops them, but without a  *)
(* socket they do nothing.                                                                      *)
NothingLeftBehind ==
  /\ \A id \in Ids : sockets[id].heard = "client" => ws = id
  /\ retries \subseteq {reconnectTimer}
  /\ retries # {} => mounted /\ Is("closed")
  /\ ~mounted /\ ~disconnectTimer =>
       ws = None /\ retries = {} /\ ~isConnected

(* Every request reaches the server: what an open socket last carried is what the chart wants,  *)
(* however the user's choices, closes and retries (connect, onopen, subscribe) interleave.      *)
OpenSocketKnowsTheChart == Is("open") /\ activeSubscription # None => asked = activeSubscription

(* Both: who hears a socket and which timers are left (connect, disconnect, onclose), and what  *)
(* the server was asked for (onopen, subscribe).                                                *)
BrowserIsTidy == NothingLeftBehind /\ OpenSocketKnowsTheChart

(* While the application is mounted and was not refused, onclose and connect bring the          *)
(* connection back.                                                                             *)
ConnectionComesBack ==
  mounted ~> (isConnected /\ Is("open")) \/ ~mounted \/ refused
=============================================================================
