--------------------------- MODULE BrowserProofs ---------------------------
(***************************************************************************)
(* Proofs about a browser: its socket, for any number of mounts and charts *)
(* (Connection), its screen, for any symbols (Terminal), the heatmap, for  *)
(* any frames (Heatmap), and the main chart with its pages, for any bars,  *)
(* limits and charts (Chart).                                              *)
(***************************************************************************)
EXTENDS Connection, Terminal, Chart, Heatmap, FiniteSetTheorems, SequenceTheorems, NaturalsInduction,
        WellFoundedInduction, TLAPS

-----------------------------------------------------------------------------
(* The inductive invariant.                                                *)

(* The sockets that have not come to an end. *)
Live == {id \in Ids : sockets[id].state # "gone"}

Sockets == [Ids -> [state : {"gone", "connecting", "open", "closing", "closed"},
                    heard : {"client", "closer", "nobody"}]]

Shapes ==
  /\ mounts \in 0..MaxMounts
  /\ ws \in Ids \cup {None}
  /\ sockets \in Sockets
  /\ retries \subseteq 1..2

(* Each mount accounts for one socket at most, so a number is left for the next one; and the    *)
(* client's own socket is one of them, which the client hears.                                  *)
Slots ==
  /\ Cardinality(Live) <= mounts
  /\ ws # None => ws \in Live /\ sockets[ws].heard = "client"

(* A close is intended exactly while the application is gone, and only then is one awaited. *)
Intent ==
  /\ disconnectTimer => ~mounted
  /\ mounted => ~intentionalClose
  /\ ~mounted /\ ws # None => intentionalClose
  /\ isConnected => ws # None

ConnectionIInv == Shapes /\ Slots /\ Intent /\ NothingLeftBehind /\ OpenSocketKnowsTheChart

-----------------------------------------------------------------------------
(* Operators.                                                              *)

(* Fewer sockets than numbers: the next one has a number, and only that one is new. *)
LEMMA FreeNumber ==
  ASSUME ConnectionAssumption, Shapes, Slots
  PROVE  /\ IsFiniteSet(Live)
         /\ \E i \in Ids : sockets[i].state = "gone"
  <1>1. IsFiniteSet(Ids) /\ Cardinality(Ids) = MaxMounts + 1
    BY FS_Interval DEF ConnectionAssumption, Ids
  <1>2. Live \in SUBSET Ids
    BY DEF Live
  <1>3. IsFiniteSet(Live)
    BY <1>1, <1>2, FS_Subset
  <1>4. Cardinality(Live) # Cardinality(Ids)
    <2>1. Cardinality(Live) \in Nat
      BY <1>3, FS_CardinalityType
    <2> QED
      BY <1>1, <2>1 DEF ConnectionAssumption, Shapes, Slots
  <1>5. Live # Ids
    BY <1>4
  <1> QED
    BY <1>2, <1>3, <1>5 DEF Live

(* What connect leaves behind. *)
LEMMA Connects ==
  ASSUME ConnectionAssumption, ConnectionIInv, Connect
  PROVE  /\ ws' \in Ids /\ ws' # None
         /\ sockets' \in Sockets
         /\ ws' \in Live' /\ sockets'[ws'].heard = "client"
         /\ \A i \in Ids : sockets'[i].heard = "client" => i = ws'
         /\ sockets'[ws'].state = "open" => Is("open") /\ ws' = ws
         /\ ~intentionalClose' /\ ~disconnectTimer'
         /\ Cardinality(Live') <= Cardinality(Live) + 1
         /\ Is("closed") => Cardinality(Live') <= Cardinality(Live)
  <1>a. Shapes /\ Slots /\ NothingLeftBehind /\ None \notin Ids
    BY DEF ConnectionIInv, ConnectionAssumption, Ids
  <1>b. ~intentionalClose' /\ ~disconnectTimer'
    BY DEF Connect
  <1>c. \A i \in Ids : sockets[i].heard = "client" => i = ws
    BY <1>a DEF NothingLeftBehind
  <1>d. /\ IsFiniteSet(Live)
        /\ \E i \in Ids : sockets[i].state = "gone"
    BY <1>a, FreeNumber
  <1>e. Cardinality(Live) \in Nat
    BY <1>d, FS_CardinalityType
  <1>1. CASE Is("open") \/ Is("connecting")
    <2>1. ws' = ws /\ sockets' = sockets /\ ws # None /\ ~Is("closed")
      BY <1>1 DEF Connect, Is
    <2>2. Live' = Live
      BY <2>1 DEF Live, Ids
    <2>3. ws' \in Ids /\ sockets' \in Sockets /\ ws \in Live /\ sockets[ws].heard = "client"
      BY <1>a, <2>1 DEF Shapes, Slots
    <2> QED
      BY <1>b, <1>c, <1>e, <2>1, <2>2, <2>3 DEF Is
  <1>2. CASE ~Is("open") /\ ~Is("connecting")
    <2> DEFINE id == CHOOSE i \in Ids : sockets[i].state = "gone"
               new(i) == IF i = id THEN [state |-> "connecting", heard |-> "client"]
                         ELSE IF i # ws THEN sockets[i]
                         ELSE IF Is("closing") THEN [sockets[i] EXCEPT !.heard = "nobody"]
                         ELSE Nobody
    <2>1. id \in Ids /\ sockets[id].state = "gone"
      BY <1>d
    <2>2. ws' = id /\ sockets' = [i \in Ids |-> new(i)]
      BY <1>2 DEF Connect
    <2> HIDE DEF id
    <2>3. /\ sockets'[id] = [state |-> "connecting", heard |-> "client"]
          /\ \A i \in Ids \ {id} : i # ws => sockets'[i] = sockets[i]
          /\ ws \in Ids \ {id} => \/ /\ Is("closing")
                                     /\ sockets'[ws] = [sockets[ws] EXCEPT !.heard = "nobody"]
                                  \/ ~Is("closing") /\ sockets'[ws] = Nobody
      BY <2>1, <2>2
    <2>4. \A i \in Ids : new(i) \in [state : {"gone", "connecting", "open", "closing", "closed"},
                                     heard : {"client", "closer", "nobody"}]
      <3> TAKE i \in Ids
      <3>1. sockets[i] \in [state : {"gone", "connecting", "open", "closing", "closed"},
                            heard : {"client", "closer", "nobody"}]
        BY <1>a DEF Shapes, Sockets
      <3> QED
        BY <3>1 DEF Nobody
    <2>5. sockets' \in Sockets
      BY <2>2, <2>4 DEF Sockets
    <2>6. Live' = {i \in Ids : sockets'[i].state # "gone"}
      BY DEF Live, Ids
    <2>7. id \in Live' /\ id \notin Live
      BY <2>1, <2>3, <2>6 DEF Live
    <2>8. \A i \in Ids \ {id} : sockets'[i].heard # "client"
      <3> SUFFICES ASSUME NEW i \in Ids \ {id}
                   PROVE  sockets'[i].heard # "client"
        OBVIOUS
      <3>1. CASE i # ws
        BY <1>c, <2>3, <3>1
      <3>2. CASE i = ws
        <4>1. sockets[ws] \in [state : {"gone", "connecting", "open", "closing", "closed"},
                               heard : {"client", "closer", "nobody"}]
          BY <1>a, <3>2 DEF Shapes, Sockets
        <4> QED
          BY <2>3, <3>2, <4>1 DEF Nobody
      <3> QED
        BY <3>1, <3>2
    <2>9. Live' \subseteq Live \cup {id}
      <3> SUFFICES ASSUME NEW i \in Ids \ {id}, i \in Live'
                   PROVE  i \in Live
        BY <2>6
      <3>1. CASE i # ws
        BY <2>3, <2>6, <3>1 DEF Live
      <3>2. CASE i = ws
        BY <1>a, <3>2 DEF Slots, ConnectionAssumption, Ids
      <3> QED
        BY <3>1, <3>2
    <2>10. /\ IsFiniteSet(Live \cup {id})
           /\ Cardinality(Live \cup {id}) = Cardinality(Live) + 1
      BY <1>d, <2>7, FS_AddElement
    <2>11. /\ Cardinality(Live') <= Cardinality(Live) + 1
           /\ IsFiniteSet(Live')
      BY <2>9, <2>10, FS_Subset
    <2>12. ASSUME Is("closed")
           PROVE  Cardinality(Live') <= Cardinality(Live)
      <3>1. ws \in Live /\ ws # id /\ ws \in Ids
        BY <1>a, <2>7, <2>12 DEF Is, Slots, Live
      <3>2. ws \notin Live'
        BY <2>3, <2>6, <2>12, <3>1 DEF Is, Nobody
      <3>3. Live' \in SUBSET ((Live \ {ws}) \cup {id})
        BY <2>9, <3>2
      <3>4. /\ IsFiniteSet(Live \ {ws})
            /\ Cardinality(Live \ {ws}) = Cardinality(Live) - 1
        BY <1>d, <3>1, FS_RemoveElement
      <3>5. id \notin Live \ {ws}
        BY <2>7
      <3>6. /\ IsFiniteSet((Live \ {ws}) \cup {id})
            /\ Cardinality((Live \ {ws}) \cup {id}) = (Cardinality(Live) - 1) + 1
        BY <3>4, <3>5, FS_AddElement
      <3>7. Cardinality(Live') <= (Cardinality(Live) - 1) + 1
        BY <3>3, <3>6, FS_Subset
      <3> QED
        BY <1>e, <3>7
    <2> QED
      BY <1>a, <1>b, <2>1, <2>2, <2>3, <2>5, <2>7, <2>8, <2>11, <2>12
  <1> QED
    BY <1>1, <1>2

-----------------------------------------------------------------------------
(* Every step keeps the invariant.                                         *)

(* A step that makes no socket keeps the count. *)
LEMMA NoneMade ==
  ASSUME ConnectionAssumption, Shapes, Slots, mounts' = mounts,
         \A i \in Ids : sockets[i].state = "gone" => sockets'[i].state = "gone"
  PROVE  Cardinality(Live') <= mounts'
  <1>1. IsFiniteSet(Live)
    BY FreeNumber
  <1>2. Live' \in SUBSET Live
    BY DEF Live, Ids
  <1>3. /\ Cardinality(Live') <= Cardinality(Live)
        /\ Cardinality(Live') \in Nat /\ Cardinality(Live) \in Nat
    BY <1>1, <1>2, FS_Subset, FS_CardinalityType
  <1> QED
    BY <1>3 DEF Shapes, Slots, ConnectionAssumption

(* connect, from a mount or from a retry. *)
LEMMA MountStep ==
  ASSUME ConnectionAssumption, ConnectionIInv, Mount
  PROVE  ConnectionIInv'
  <1>1. /\ mounted' /\ mounts' = mounts + 1 /\ mounts < MaxMounts /\ ~mounted
        /\ retries' = retries /\ reconnectTimer' = reconnectTimer
        /\ activeSubscription' = activeSubscription /\ asked' = asked
        /\ Connect
    BY DEF Mount, seriesVars
  <1>2. retries = {} /\ Shapes /\ Slots /\ OpenSocketKnowsTheChart
    BY <1>1 DEF ConnectionIInv, NothingLeftBehind
  <1>3. /\ ws' \in Ids /\ ws' # None
        /\ sockets' \in Sockets
        /\ ws' \in Live' /\ sockets'[ws'].heard = "client"
        /\ \A i \in Ids : sockets'[i].heard = "client" => i = ws'
        /\ sockets'[ws'].state = "open" => Is("open") /\ ws' = ws
        /\ ~intentionalClose' /\ ~disconnectTimer'
        /\ Cardinality(Live') <= Cardinality(Live) + 1
    BY <1>1, Connects
  <1>4. Shapes'
    BY <1>1, <1>2, <1>3 DEF Shapes, Sockets, Ids, ConnectionAssumption
  <1>5. Slots'
    <2>1. Cardinality(Live) \in Nat
      BY <1>2, FreeNumber, FS_CardinalityType
    <2>2. Cardinality(Live') \in Nat
      <3>1. IsFiniteSet(Ids)
        BY FS_Interval DEF ConnectionAssumption, Ids
      <3>2. Live' \in SUBSET Ids
        BY DEF Live, Ids
      <3> QED
        BY <3>1, <3>2, FS_Subset, FS_CardinalityType
    <2>3. Cardinality(Live') <= mounts'
      BY <1>1, <1>2, <1>3, <2>1, <2>2 DEF Shapes, Slots, ConnectionAssumption
    <2> QED
      BY <1>3, <2>3 DEF Slots
  <1>6. Intent'
    BY <1>1, <1>3 DEF Intent
  <1>7. NothingLeftBehind'
    BY <1>1, <1>2, <1>3 DEF NothingLeftBehind, Ids
  <1>8. OpenSocketKnowsTheChart'
    BY <1>1, <1>2, <1>3 DEF OpenSocketKnowsTheChart, Is
  <1> QED
    BY <1>4, <1>5, <1>6, <1>7, <1>8 DEF ConnectionIInv

LEMMA RetryStep ==
  ASSUME ConnectionAssumption, ConnectionIInv, NEW t \in retries, RetryFires(t)
  PROVE  ConnectionIInv'
  <1>1. /\ mounted' = mounted /\ mounts' = mounts /\ reconnectTimer' = reconnectTimer
        /\ retries' = retries \ {t}
        /\ activeSubscription' = activeSubscription /\ asked' = asked
        /\ Connect
    BY DEF RetryFires, seriesVars
  <1>2. /\ Shapes /\ Slots /\ OpenSocketKnowsTheChart
        /\ mounted /\ Is("closed") /\ retries' = {}
    BY <1>1 DEF ConnectionIInv, NothingLeftBehind
  <1>3. /\ ws' \in Ids /\ ws' # None
        /\ sockets' \in Sockets
        /\ ws' \in Live' /\ sockets'[ws'].heard = "client"
        /\ \A i \in Ids : sockets'[i].heard = "client" => i = ws'
        /\ sockets'[ws'].state = "open" => Is("open") /\ ws' = ws
        /\ ~intentionalClose' /\ ~disconnectTimer'
        /\ Cardinality(Live') <= Cardinality(Live)
    BY <1>1, <1>2, Connects
  <1>4. Shapes'
    BY <1>1, <1>2, <1>3 DEF Shapes, Sockets, Ids
  <1>5. Slots'
    <2>1. Cardinality(Live) \in Nat
      BY <1>2, FreeNumber, FS_CardinalityType
    <2>2. Cardinality(Live') \in Nat
      <3>1. IsFiniteSet(Ids)
        BY FS_Interval DEF ConnectionAssumption, Ids
      <3>2. Live' \in SUBSET Ids
        BY DEF Live, Ids
      <3> QED
        BY <3>1, <3>2, FS_Subset, FS_CardinalityType
    <2>3. Cardinality(Live') <= mounts'
      BY <1>1, <1>2, <1>3, <2>1, <2>2 DEF Shapes, Slots, ConnectionAssumption
    <2> QED
      BY <1>3, <2>3 DEF Slots
  <1>6. Intent'
    BY <1>1, <1>2, <1>3 DEF Intent
  <1>7. NothingLeftBehind'
    BY <1>1, <1>2, <1>3 DEF NothingLeftBehind, Ids
  <1>8. OpenSocketKnowsTheChart'
    BY <1>1, <1>2, <1>3 DEF OpenSocketKnowsTheChart, Is
  <1> QED
    BY <1>4, <1>5, <1>6, <1>7, <1>8 DEF ConnectionIInv

(* The debounce of a disconnect, from its start to its end. *)
LEMMA UnmountStep ==
  ASSUME ConnectionAssumption, ConnectionIInv, Unmount
  PROVE  ConnectionIInv'
  <1>1. /\ ~mounted' /\ intentionalClose' /\ disconnectTimer'
        /\ retries' = retries \ {reconnectTimer}
        /\ mounts' = mounts /\ ws' = ws /\ sockets' = sockets /\ isConnected' = isConnected
        /\ activeSubscription' = activeSubscription /\ asked' = asked
    BY DEF Unmount, Disconnect, seriesVars
  <1>2. retries' = {}
    BY <1>1 DEF ConnectionIInv, NothingLeftBehind
  <1>3. Shapes' /\ Slots'
    BY <1>1, <1>2 DEF ConnectionIInv, Shapes, Slots, Live, Ids, Sockets
  <1>4. Intent' /\ NothingLeftBehind' /\ OpenSocketKnowsTheChart'
    BY <1>1, <1>2
    DEF ConnectionIInv, Intent, NothingLeftBehind, OpenSocketKnowsTheChart, Is, Ids
  <1> QED
    BY <1>3, <1>4 DEF ConnectionIInv

LEMMA DebounceStep ==
  ASSUME ConnectionAssumption, ConnectionIInv, DebounceEnds
  PROVE  ConnectionIInv'
  <1>a. Shapes /\ Slots /\ Intent /\ NothingLeftBehind /\ None \notin Ids
    BY DEF ConnectionIInv, ConnectionAssumption, Ids
  <1>1. /\ mounted' = mounted /\ mounts' = mounts /\ intentionalClose' = intentionalClose
        /\ retries' = retries /\ reconnectTimer' = reconnectTimer
        /\ ws' = None /\ (isConnected' => isConnected /\ ws = None)
    BY DEF DebounceEnds
  <1>2. /\ sockets' \in Sockets
        /\ \A i \in Ids : sockets[i].state = "gone" => sockets'[i].state = "gone"
        /\ \A i \in Ids : sockets'[i].heard # "client"
    <2>1. CASE ws = None
      BY <1>a, <2>1 DEF DebounceEnds, Shapes, NothingLeftBehind
    <2>2. CASE ws # None
      <3>1. ws \in Live /\ ws \in Ids
        BY <1>a, <2>2 DEF Slots, Live
      <3> DEFINE r == CASE sockets[ws].state = "connecting" ->
                             [sockets[ws] EXCEPT !.heard = "closer"]
                        [] sockets[ws].state \in {"open", "closing"} ->
                             [state |-> "closing", heard |-> "nobody"]
                        [] OTHER -> Nobody
      <3>2. sockets' = [sockets EXCEPT ![ws] = r]
        BY <2>2 DEF DebounceEnds
      <3>3. sockets[ws] \in [state : {"gone", "connecting", "open", "closing", "closed"},
                             heard : {"client", "closer", "nobody"}]
        BY <1>a, <3>1 DEF Shapes, Sockets
      <3>4. /\ r \in [state : {"gone", "connecting", "open", "closing", "closed"},
                      heard : {"client", "closer", "nobody"}]
            /\ r.heard # "client"
        BY <3>3 DEF Nobody
      <3> HIDE DEF r
      <3>5. /\ sockets'[ws] = r
            /\ \A i \in Ids \ {ws} : sockets'[i] = sockets[i]
            /\ sockets' \in Sockets
        BY <1>a, <3>1, <3>2, <3>4 DEF Shapes, Sockets
      <3> QED
        BY <1>a, <3>1, <3>4, <3>5 DEF NothingLeftBehind, Live
    <2> QED
      BY <2>1, <2>2
  <1>3. Cardinality(Live') <= mounts'
    BY <1>a, <1>1, <1>2, NoneMade
  <1>4. ~isConnected' /\ retries' = {} /\ ~mounted' /\ ~disconnectTimer'
    BY <1>a, <1>1 DEF DebounceEnds, Intent, NothingLeftBehind
  <1>5. Shapes' /\ Slots'
    BY <1>a, <1>1, <1>2, <1>3 DEF Shapes, Slots, Sockets, Ids
  <1>6. Intent' /\ NothingLeftBehind' /\ OpenSocketKnowsTheChart'
    BY <1>a, <1>1, <1>2, <1>4
    DEF Intent, NothingLeftBehind, OpenSocketKnowsTheChart, Is, Ids
  <1> QED
    BY <1>5, <1>6 DEF ConnectionIInv

(* What the client's own socket does. *)
LEMMA OwnSocket ==
  ASSUME ConnectionAssumption, ConnectionIInv, ws # None,
         NEW st \in {"open", "closing", "closed"},
         sockets' = [sockets EXCEPT ![ws].state = st],
         ws' = ws, mounts' = mounts, retries' \subseteq 1..2
  PROVE  /\ Shapes' /\ Slots'
         /\ sockets'[ws].state = st
         /\ \A i \in Ids : sockets'[i].heard = sockets[i].heard
  <1>1. /\ Shapes /\ Slots /\ None \notin Ids
        /\ ws \in Live /\ ws \in Ids /\ sockets[ws].heard = "client"
    BY DEF ConnectionIInv, ConnectionAssumption, Slots, Live, Ids
  <1>2. /\ sockets'[ws] = [sockets[ws] EXCEPT !.state = st]
        /\ \A i \in Ids \ {ws} : sockets'[i] = sockets[i]
        /\ sockets' \in Sockets
    BY <1>1 DEF Shapes, Sockets
  <1>3. /\ sockets'[ws].state = st /\ sockets'[ws].heard = "client"
        /\ \A i \in Ids : sockets'[i].heard = sockets[i].heard
    <2>1. sockets[ws] \in [state : {"gone", "connecting", "open", "closing", "closed"},
                           heard : {"client", "closer", "nobody"}]
      BY <1>1 DEF Shapes, Sockets
    <2>2. sockets'[ws].state = st /\ sockets'[ws].heard = "client"
      BY <1>1, <1>2, <2>1
    <2> QED
      BY <1>1, <1>2, <2>2
  <1>4. \A i \in Ids : sockets[i].state = "gone" => sockets'[i].state = "gone"
    BY <1>1, <1>2 DEF Live
  <1>5. Cardinality(Live') <= mounts'
    BY <1>1, <1>4, NoneMade
  <1>6. ws \in Live'
    BY <1>1, <1>3 DEF Live, Ids
  <1> QED
    BY <1>1, <1>2, <1>3, <1>5, <1>6 DEF Shapes, Slots, Sockets, Ids

LEMMA OpenedStep ==
  ASSUME ConnectionAssumption, ConnectionIInv, Opened
  PROVE  ConnectionIInv'
  <1>1. /\ ws # None /\ Is("connecting")
        /\ sockets' = [sockets EXCEPT ![ws].state = "open"]
        /\ asked' = activeSubscription /\ activeSubscription' = activeSubscription
        /\ ws' = ws /\ mounts' = mounts /\ mounted' = mounted
        /\ intentionalClose' = intentionalClose /\ disconnectTimer' = disconnectTimer
        /\ retries' = retries /\ reconnectTimer' = reconnectTimer
    BY DEF Opened, Is
  <1>2. retries = {} /\ retries' \subseteq 1..2
    BY <1>1 DEF ConnectionIInv, NothingLeftBehind, Is
  <1>3. /\ Shapes' /\ Slots'
        /\ sockets'[ws].state = "open"
        /\ \A i \in Ids : sockets'[i].heard = sockets[i].heard
    BY <1>1, <1>2, OwnSocket
  <1>4. Intent' /\ NothingLeftBehind' /\ OpenSocketKnowsTheChart'
    BY <1>1, <1>2, <1>3
    DEF ConnectionIInv, Intent, NothingLeftBehind, OpenSocketKnowsTheChart, Is, Ids
  <1> QED
    BY <1>3, <1>4 DEF ConnectionIInv

LEMMA ClosingStep ==
  ASSUME ConnectionAssumption, ConnectionIInv, Closing
  PROVE  ConnectionIInv'
  <1>1. /\ ws # None /\ Is("open")
        /\ sockets' = [sockets EXCEPT ![ws].state = "closing"]
        /\ ws' = ws /\ mounts' = mounts /\ mounted' = mounted /\ isConnected' = isConnected
        /\ intentionalClose' = intentionalClose /\ disconnectTimer' = disconnectTimer
        /\ retries' = retries /\ reconnectTimer' = reconnectTimer
    BY DEF Closing, Is, timerVars
  <1>2. retries = {} /\ retries' \subseteq 1..2
    BY <1>1 DEF ConnectionIInv, NothingLeftBehind, Is
  <1>3. /\ Shapes' /\ Slots'
        /\ sockets'[ws].state = "closing"
        /\ \A i \in Ids : sockets'[i].heard = sockets[i].heard
    BY <1>1, <1>2, OwnSocket
  <1>4. Intent' /\ NothingLeftBehind' /\ OpenSocketKnowsTheChart'
    BY <1>1, <1>2, <1>3
    DEF ConnectionIInv, Intent, NothingLeftBehind, OpenSocketKnowsTheChart, Is, Ids
  <1> QED
    BY <1>3, <1>4 DEF ConnectionIInv

(* onclose: no attempt waits yet, so the one it arms is the one the client remembers. *)
LEMMA ClosedStep ==
  ASSUME ConnectionAssumption, ConnectionIInv, NEW code \in {1006, 1008, 1013}, SocketCloses(code)
  PROVE  ConnectionIInv'
  <1>1. /\ ws # None /\ ~Is("closed")
        /\ sockets' = [sockets EXCEPT ![ws].state = "closed"]
        /\ ws' = ws /\ mounts' = mounts /\ mounted' = mounted /\ ~isConnected'
        /\ intentionalClose' = intentionalClose /\ disconnectTimer' = disconnectTimer
    BY DEF SocketCloses
  <1>2. retries = {}
    BY <1>1 DEF ConnectionIInv, NothingLeftBehind
  <1>3. /\ retries' \subseteq 1..2 /\ retries' \subseteq {reconnectTimer'}
        /\ retries' # {} => ~intentionalClose
    <2>1. CASE intentionalClose \/ ~Retried(code)
      BY <1>2, <2>1 DEF SocketCloses
    <2>2. CASE ~intentionalClose /\ Retried(code)
      <3> DEFINE t == CHOOSE i \in 1..2 : i \notin retries
      <3>1. t \in 1..2
        BY <1>2
      <3>2. retries' = retries \cup {t} /\ reconnectTimer' = t
        BY <2>2 DEF SocketCloses
      <3> HIDE DEF t
      <3> QED
        BY <1>2, <2>2, <3>1, <3>2
    <2> QED
      BY <2>1, <2>2
  <1>4. /\ Shapes' /\ Slots'
        /\ sockets'[ws].state = "closed"
        /\ \A i \in Ids : sockets'[i].heard = sockets[i].heard
    BY <1>1, <1>3, OwnSocket
  <1>5. Intent' /\ NothingLeftBehind' /\ OpenSocketKnowsTheChart'
    BY <1>1, <1>2, <1>3, <1>4
    DEF ConnectionIInv, Intent, NothingLeftBehind, OpenSocketKnowsTheChart, Is, Ids
  <1> QED
    BY <1>4, <1>5 DEF ConnectionIInv

(* What becomes of a socket the client has let go. *)
LEMMA OtherSocketStep ==
  ASSUME ConnectionAssumption, ConnectionIInv, NEW id \in Ids, OpenedTooLate(id) \/ Vanishes(id)
  PROVE  ConnectionIInv'
  <1>1. /\ ws' = ws /\ mounts' = mounts /\ mounted' = mounted /\ isConnected' = isConnected
        /\ intentionalClose' = intentionalClose /\ disconnectTimer' = disconnectTimer
        /\ retries' = retries /\ reconnectTimer' = reconnectTimer
        /\ activeSubscription' = activeSubscription /\ asked' = asked
    BY DEF OpenedTooLate, Vanishes, timerVars, seriesVars
  <1>2. Shapes /\ Slots /\ NothingLeftBehind /\ None \notin Ids
    BY DEF ConnectionIInv, ConnectionAssumption, Ids
  <1>3. sockets[id] \in [state : {"gone", "connecting", "open", "closing", "closed"},
                         heard : {"client", "closer", "nobody"}]
    BY <1>2 DEF Shapes, Sockets
  <1>4. sockets[id].heard # "client" /\ id # ws
    BY <1>2 DEF OpenedTooLate, Vanishes, Slots
  <1>5. /\ \A i \in Ids \ {id} : sockets'[i] = sockets[i]
        /\ sockets' \in Sockets
        /\ sockets'[id].heard # "client"
        /\ sockets[id].state = "gone" => sockets'[id].state = "gone"
    <2>1. CASE OpenedTooLate(id)
      BY <1>2, <1>3, <2>1 DEF OpenedTooLate, Shapes, Sockets
    <2>2. CASE Vanishes(id)
      BY <1>2, <1>3, <2>2 DEF Vanishes, Nobody, Shapes, Sockets
    <2> QED
      BY <2>1, <2>2
  <1>6. \A i \in Ids : sockets[i].state = "gone" => sockets'[i].state = "gone"
    BY <1>5
  <1>7. Cardinality(Live') <= mounts'
    BY <1>1, <1>2, <1>6, NoneMade
  <1>8. ws # None => ws \in Ids /\ sockets'[ws] = sockets[ws]
    BY <1>2, <1>4, <1>5 DEF Shapes
  <1>9. Shapes' /\ Slots'
    BY <1>1, <1>2, <1>5, <1>7, <1>8 DEF Shapes, Slots, Sockets, Ids, Live
  <1>10. Intent' /\ NothingLeftBehind' /\ OpenSocketKnowsTheChart'
    BY <1>1, <1>2, <1>5, <1>8
    DEF ConnectionIInv, Intent, NothingLeftBehind, OpenSocketKnowsTheChart, Is, Ids
  <1> QED
    BY <1>9, <1>10 DEF ConnectionIInv

(* The other steps leave sockets and timers alone. *)
LEMMA QuietStep ==
  ASSUME ConnectionIInv,
         \/ Silence \/ CheckSilence \/ UNCHANGED connectionVars
         \/ \E m \in {"INIT_STATE", "ERROR", "TICK"} : Receive(m)
         \/ \E s \in Series : SubscribeSeries(s)
  PROVE  ConnectionIInv'
  <1>1. /\ ws' = ws /\ mounts' = mounts /\ mounted' = mounted /\ isConnected' = isConnected
        /\ intentionalClose' = intentionalClose /\ disconnectTimer' = disconnectTimer
        /\ retries' = retries /\ reconnectTimer' = reconnectTimer /\ sockets' = sockets
    BY DEF Silence, CheckSilence, Receive, SubscribeSeries, connectionVars, socketVars, timerVars
  <1>2. \/ activeSubscription' = activeSubscription /\ asked' = asked
        \/ ~Is("open") \/ asked' = activeSubscription'
    BY DEF Silence, CheckSilence, Receive, SubscribeSeries, connectionVars, seriesVars
  <1>3. Shapes' /\ Slots' /\ Intent' /\ NothingLeftBehind'
    BY <1>1
    DEF ConnectionIInv, Shapes, Slots, Intent, NothingLeftBehind, Is, Live, Ids, Sockets
  <1>4. OpenSocketKnowsTheChart'
    BY <1>1, <1>2 DEF ConnectionIInv, OpenSocketKnowsTheChart, Is
  <1> QED
    BY <1>3, <1>4 DEF ConnectionIInv

-----------------------------------------------------------------------------
LEMMA ConnectionBegins ==
  ASSUME ConnectionAssumption, ConnectionInit
  PROVE  ConnectionIInv
  <1>1. Live = {} /\ Shapes
    BY DEF ConnectionInit, ConnectionAssumption, Live, Shapes, Sockets, Ids, Nobody
  <1>2. Slots
    BY <1>1, FS_EmptySet DEF ConnectionInit, Slots
  <1>3. Intent /\ NothingLeftBehind /\ OpenSocketKnowsTheChart
    BY DEF ConnectionInit, Intent, NothingLeftBehind, OpenSocketKnowsTheChart, Is, Ids, Nobody
  <1> QED
    BY <1>1, <1>2, <1>3 DEF ConnectionIInv

LEMMA ConnectionSteps ==
  ASSUME ConnectionAssumption, ConnectionIInv, [ConnectionNext]_connectionVars
  PROVE  ConnectionIInv'
  <1>1. CASE Mount                       BY <1>1, MountStep
  <1>2. CASE Unmount                     BY <1>2, UnmountStep
  <1>3. CASE DebounceEnds                BY <1>3, DebounceStep
  <1>4. CASE Opened                      BY <1>4, OpenedStep
  <1>5. CASE Closing                     BY <1>5, ClosingStep
  <1>6. CASE \E t \in retries : RetryFires(t)
    BY <1>6, RetryStep
  <1>7. CASE \E id \in Ids : OpenedTooLate(id) \/ Vanishes(id)
    BY <1>7, OtherSocketStep
  <1>8. CASE \E code \in {1006, 1008, 1013} : SocketCloses(code)
    BY <1>8, ClosedStep
  <1>9. CASE \/ Silence \/ CheckSilence \/ UNCHANGED connectionVars
             \/ \E m \in {"INIT_STATE", "ERROR", "TICK"} : Receive(m)
             \/ \E s \in Series : SubscribeSeries(s)
    BY <1>9, QuietStep
  <1> QED
    BY <1>1, <1>2, <1>3, <1>4, <1>5, <1>6, <1>7, <1>8, <1>9 DEF ConnectionNext

(* However mounts, closes, retries and the debounce of a disconnect interleave, at most one     *)
(* socket is heard and at most one attempt waits, nothing is left of an application that is     *)
(* gone, and an open socket has asked for the chart that is shown (connect, disconnect,         *)
(* onopen, onclose, subscribe).                                                                 *)
THEOREM BrowserIsTidyTheorem ==
  ASSUME ConnectionAssumption
  PROVE  ConnectionSpec => []BrowserIsTidy
  <1>1. ConnectionInit => ConnectionIInv
    BY ConnectionBegins
  <1>2. ConnectionIInv /\ [ConnectionNext]_connectionVars => ConnectionIInv'
    BY ConnectionSteps
  <1>3. ConnectionIInv => BrowserIsTidy
    BY DEF ConnectionIInv, BrowserIsTidy
  <1> QED
    BY <1>1, <1>2, <1>3, PTL DEF ConnectionSpec

-----------------------------------------------------------------------------
(* Terminal: the screen.                                                    *)

Updates  == {"TICK", "BAR_UPDATE", "ORDERBOOK_UPDATE"}
Messages == [type : {"INIT_STATE"}, symbol : Instruments, empty : BOOLEAN]
            \cup [type : Updates, symbol : Instruments] \cup {Refusal}

SnapshotOf(i, s) == messages[i].type = "INIT_STATE" /\ messages[i].symbol = s

(* Before the first request the application listens to the standard symbol.  Whenever that is   *)
(* not the one it shows, the first message it will hear is a snapshot, which makes it ask.      *)
Listens ==
  /\ requested \in {None, shownSymbol}
  /\ requested = None => listening = Standard
  /\ requested # None => listening = shownSymbol
  /\ live /\ listening # shownSymbol => messages # << >> /\ SnapshotOf(1, Standard)

(* What is shown was asked for last; or its context is awaited; or it is served, and its        *)
(* snapshot has come or is on its way; or it will be asked for when the first message comes.    *)
UnderWay ==
  \/ requests # << >> /\ requests[Len(requests)] = shownSymbol
  \/ requests = << >> /\ opening = shownSymbol
  \/ /\ requests = << >> /\ opening = None /\ serving = shownSymbol
     /\ \/ instrument = shownSymbol /\ feedStatus = "LIVE"
        \/ \E i \in DOMAIN messages : SnapshotOf(i, shownSymbol)
  \/ requests = << >> /\ listening # shownSymbol

(* The error has come, or is on its way, and no snapshot follows it.                            *)
ErrorIsLast ==
  /\ status = "ERROR" \/ \E i \in DOMAIN messages : messages[i].type = "ERROR"
  /\ \A j \in DOMAIN messages :
       messages[j].type = "INIT_STATE" => \E i \in DOMAIN messages : i > j /\ messages[i].type = "ERROR"

ScreenIInv ==
  /\ shownSymbol \in Instruments /\ screen \in [Parts -> SUBSET (Instruments \cup {None})]
  /\ requests \in Seq(Instruments) /\ messages \in Seq(Messages)
  /\ opening \in Instruments \cup {None}
  /\ ~live => requests = << >> /\ messages = << >> /\ opening = None /\ serving = None
  /\ Listens
  /\ live /\ ~again /\ (requests # << >> \/ verdict = "served") => UnderWay
  /\ live /\ requests = << >> /\ verdict = "refused" => ErrorIsLast
  /\ ShownIsOfTheSymbol

(* What a sequence ends with, and what a message is.                                            *)
LEMMA LastAppended ==
  ASSUME NEW S, NEW q \in Seq(S), NEW x \in S
  PROVE  /\ Append(q, x) \in Seq(S) /\ Append(q, x) # << >>
         /\ Len(Append(q, x)) = Len(q) + 1 /\ Append(q, x)[Len(q) + 1] = x
         /\ \A i \in DOMAIN q : i \in DOMAIN Append(q, x) /\ Append(q, x)[i] = q[i]
  OBVIOUS

LEMMA FirstTaken ==
  ASSUME NEW S, NEW q \in Seq(S), q # << >>
  PROVE  /\ Head(q) \in S /\ Head(q) = q[1] /\ Tail(q) \in Seq(S) /\ 1 \in DOMAIN q
         /\ Len(q) \in Nat /\ Len(Tail(q)) = Len(q) - 1
         /\ \A i \in DOMAIN q : i # 1 => i - 1 \in DOMAIN Tail(q) /\ Tail(q)[i - 1] = q[i]
         /\ Tail(q) = << >> => Len(q) = 1
         /\ Tail(q) # << >> => Tail(q)[Len(Tail(q))] = q[Len(q)]
<1>1. /\ Head(q) \in S /\ Head(q) = q[1] /\ Tail(q) \in Seq(S) /\ 1 \in DOMAIN q
      /\ Len(q) \in Nat /\ Len(Tail(q)) = Len(q) - 1 /\ DOMAIN q = 1..Len(q)
      /\ DOMAIN Tail(q) = 1..Len(Tail(q))
  OBVIOUS
<1>2. \A j \in 1..Len(q) - 1 : Tail(q)[j] = q[j + 1]
  OBVIOUS
<1>3. ASSUME NEW i \in DOMAIN q, i # 1 PROVE i - 1 \in DOMAIN Tail(q) /\ Tail(q)[i - 1] = q[i]
  <2>1. i - 1 \in 1..Len(q) - 1 /\ (i - 1) + 1 = i
    BY <1>1, <1>3
  <2> QED BY <1>1, <1>2, <2>1
<1>4. ASSUME Tail(q) = << >> PROVE Len(q) = 1
  <2>1. DOMAIN Tail(q) = DOMAIN << >>
    BY <1>4, Zenon
  <2>2. 1 \notin DOMAIN << >>
    OBVIOUS
  <2>3. ASSUME Len(q) # 1 PROVE 1 \in DOMAIN Tail(q)
    BY <1>1, <2>3
  <2> QED BY <2>1, <2>2, <2>3, Zenon
<1>5. ASSUME Tail(q) # << >> PROVE Tail(q)[Len(Tail(q))] = q[Len(q)]
  <2>1. Len(q) # 1 /\ Len(q) \in DOMAIN q
    BY <1>1, <1>5
  <2> QED BY <1>1, <1>3, <2>1
<1> QED BY <1>1, <1>3, <1>4, <1>5

LEMMA ASnapshot ==
  ASSUME NEW s \in Instruments, NEW e \in BOOLEAN
  PROVE  /\ Snapshot(s, e) \in Messages
         /\ Snapshot(s, e).type = "INIT_STATE" /\ Snapshot(s, e).symbol = s
  BY DEF Snapshot, Messages

LEMMA AMessage ==
  ASSUME TerminalAssumption, NEW m \in Messages
  PROVE  /\ m.type \in {"INIT_STATE", "ERROR"} \cup Updates
         /\ m.type # "ERROR" => m.symbol \in Instruments
         /\ m.type = "ERROR" => m.symbol = None /\ None \notin Instruments
<1>1. CASE m = Refusal
  BY <1>1 DEF Refusal, TerminalAssumption
<1>2. CASE m # Refusal
  <2>1. /\ m.type \in {"INIT_STATE"} \cup Updates /\ m.symbol \in Instruments
    BY <1>2 DEF Messages
  <2> QED BY <2>1 DEF Updates
<1> QED BY <1>1, <1>2

LEMMA ARefusal == Refusal \in Messages /\ Refusal.type = "ERROR"
  BY DEF Refusal, Messages

(* One more message changes nothing of what was to be heard first.                              *)
LEMMA StillListens ==
  ASSUME ScreenIInv, NEW m \in Messages, messages' = Append(messages, m),
         UNCHANGED <<shownSymbol, listening, requested, live>>
  PROVE  Listens'
<1>1. messages \in Seq(Messages) /\ Listens
  BY DEF ScreenIInv
<1>2. /\ messages' # << >>
      /\ \A i \in DOMAIN messages : i \in DOMAIN messages' /\ messages'[i] = messages[i]
  BY <1>1, LastAppended
<1>3. messages # << >> => 1 \in DOMAIN messages
  BY <1>1
<1> QED BY <1>1, <1>2, <1>3 DEF Listens, SnapshotOf

LEMMA StillUnderWay ==
  ASSUME messages \in Seq(Messages), NEW m \in Messages, messages' = Append(messages, m), UnderWay,
         UNCHANGED <<shownSymbol, listening, serving, opening, requests, screenVars>>
  PROVE  UnderWay'
<1>1. \A i \in DOMAIN messages : i \in DOMAIN messages' /\ messages'[i] = messages[i]
  BY LastAppended
<1> QED BY <1>1 DEF UnderWay, SnapshotOf, screenVars

(* An error is the last one; and so it stays, if no snapshot follows.                           *)
LEMMA ErrorSent ==
  ASSUME messages \in Seq(Messages), NEW m \in Messages, messages' = Append(messages, m),
         m.type = "ERROR" \/ (m.type # "INIT_STATE" /\ ErrorIsLast /\ UNCHANGED status)
  PROVE  ErrorIsLast'
<1>1. /\ Len(messages) \in Nat /\ DOMAIN messages = 1..Len(messages)
      /\ \A i \in DOMAIN messages : i \in DOMAIN messages' /\ messages'[i] = messages[i]
  BY LastAppended
<1>2. PICK n : n = Len(messages) + 1
  OBVIOUS
<1>3. n \in Nat /\ DOMAIN messages' = 1..n /\ n \in DOMAIN messages' /\ messages'[n] = m
  <2>1. Len(messages') = n /\ messages' \in Seq(Messages) /\ n \in Nat /\ n > 0
    BY <1>1, <1>2, LastAppended
  <2>2. DOMAIN messages' = 1..n
    BY <2>1
  <2>3. messages'[n] = m
    BY <1>2, LastAppended
  <2> QED BY <2>1, <2>2, <2>3
<1>4. \A j \in DOMAIN messages' : j = n \/ (j \in DOMAIN messages /\ n > j)
  <2>1. PICK k \in Nat : k = Len(messages)
    BY <1>1
  <2>2. \A j \in 1..n : j = n \/ (j \in 1..k /\ n > j)
    BY <1>2, <2>1
  <2> QED BY <1>1, <1>3, <2>1, <2>2
<1>5. CASE m.type = "ERROR"
  BY <1>3, <1>4, <1>5 DEF ErrorIsLast
<1>6. CASE m.type # "INIT_STATE" /\ ErrorIsLast /\ UNCHANGED status
  <2>1. status' = "ERROR" \/ \E i \in DOMAIN messages' : messages'[i].type = "ERROR"
    BY <1>1, <1>6 DEF ErrorIsLast
  <2>2. ASSUME NEW j \in DOMAIN messages', messages'[j].type = "INIT_STATE"
        PROVE  \E i \in DOMAIN messages' : i > j /\ messages'[i].type = "ERROR"
    <3>1. j \in DOMAIN messages /\ messages[j].type = "INIT_STATE"
      BY <1>1, <1>3, <1>4, <1>6, <2>2
    <3>2. PICK i \in DOMAIN messages : i > j /\ messages[i].type = "ERROR"
      BY <1>6, <3>1 DEF ErrorIsLast
    <3> QED BY <1>1, <3>2
  <2> QED BY <2>1, <2>2 DEF ErrorIsLast
<1> QED BY <1>5, <1>6

(* What the server sends, whatever it did to its session.                                       *)
LEMMA MessageSent ==
  ASSUME ScreenIInv, NEW m \in Messages, live, messages' = Append(messages, m),
         UNCHANGED <<shownSymbol, listening, requested, status, live, screenVars, again>>,
         requests' \in Seq(Instruments), opening' \in Instruments \cup {None},
         ~again /\ (requests' # << >> \/ verdict' = "served") => UnderWay',
         \/ ~(requests' = << >> /\ verdict' = "refused")
         \/ m.type = "ERROR"
         \/ m.type # "INIT_STATE" /\ ErrorIsLast
  PROVE  ScreenIInv'
<1>1. /\ messages \in Seq(Messages) /\ ShownIsOfTheSymbol
      /\ shownSymbol \in Instruments /\ screen \in [Parts -> SUBSET (Instruments \cup {None})]
  BY DEF ScreenIInv
<1>2. messages' \in Seq(Messages)
  BY <1>1, LastAppended
<1>3. Listens'
  BY StillListens
<1>4. requests' = << >> /\ verdict' = "refused" => ErrorIsLast'
  <2> SUFFICES ASSUME requests' = << >>, verdict' = "refused" PROVE ErrorIsLast'
    OBVIOUS
  <2>1. status' = status
    OBVIOUS
  <2>2. m.type = "ERROR" \/ (m.type # "INIT_STATE" /\ ErrorIsLast)
    BY Zenon
  <2> QED BY <1>1, <2>1, <2>2, ErrorSent
<1>5. ShownIsOfTheSymbol'
  BY <1>1 DEF ShownIsOfTheSymbol, screenVars
<1> QED BY <1>1, <1>2, <1>3, <1>4, <1>5 DEF ScreenIInv, screenVars

LEMMA SocketOpensStep ==
  ASSUME TerminalAssumption, ScreenIInv, SocketOpens PROVE ScreenIInv'
<1>1. PICK e \in BOOLEAN : messages' = <<Snapshot(Standard, e)>>
  BY DEF SocketOpens
<1>2. /\ live' = TRUE /\ ~live /\ serving' = Standard /\ opening' = None /\ verdict' = "served"
      /\ requests' = IF requested = None THEN << >> ELSE <<requested>>
      /\ UNCHANGED <<shownSymbol, listening, requested, screenVars, again>>
  BY DEF SocketOpens
<1>3. /\ Listens /\ ShownIsOfTheSymbol /\ Standard \in Instruments /\ None \notin Instruments
      /\ shownSymbol \in Instruments /\ screen \in [Parts -> SUBSET (Instruments \cup {None})]
      /\ (feedStatus = "LIVE" => live)
  BY DEF ScreenIInv, TerminalAssumption, ShownIsOfTheSymbol
<1>4. /\ Snapshot(Standard, e) \in Messages /\ Snapshot(Standard, e).type = "INIT_STATE"
      /\ Snapshot(Standard, e).symbol = Standard
  BY <1>3, ASnapshot
<1>5. /\ messages' \in Seq(Messages) /\ messages' # << >> /\ DOMAIN messages' = {1}
      /\ messages'[1] = Snapshot(Standard, e)
  BY <1>1, <1>4
<1>6. SnapshotOf(1, Standard)'
  BY <1>4, <1>5 DEF SnapshotOf
<1>7. Listens'
  BY <1>2, <1>3, <1>5, <1>6 DEF Listens
<1>8. requests' \in Seq(Instruments) /\ UnderWay'
  <2>1. CASE requested = None
    <3>1. requests' = << >> /\ listening = Standard
      BY <1>2, <1>3, <2>1 DEF Listens
    <3> QED BY <1>2, <1>5, <1>6, <3>1 DEF UnderWay
  <2>2. CASE requested # None
    <3>1. requests' = <<shownSymbol>>
      BY <1>2, <1>3, <2>2 DEF Listens
    <3>2. requests' \in Seq(Instruments) /\ requests' # << >> /\ requests'[Len(requests')] = shownSymbol
      BY <1>3, <3>1
    <3> QED BY <1>2, <3>2 DEF UnderWay
  <2> QED BY <2>1, <2>2
<1>9. ShownIsOfTheSymbol'
  BY <1>2, <1>3 DEF ShownIsOfTheSymbol, screenVars
<1> QED BY <1>2, <1>3, <1>5, <1>7, <1>8, <1>9 DEF ScreenIInv, screenVars

LEMMA SocketLostStep ==
  ASSUME ScreenIInv, SocketLost PROVE ScreenIInv'
<1>1. /\ ~live' /\ requests' = << >> /\ messages' = << >> /\ feedStatus' = "UNAVAILABLE"
      /\ serving' = None /\ opening' = None
      /\ UNCHANGED <<shownSymbol, listening, requested, screen, pendingTicks, lastPrice>>
  BY DEF SocketLost
<1>2. Listens' /\ ShownIsOfTheSymbol'
  BY <1>1 DEF ScreenIInv, Listens, ShownIsOfTheSymbol
<1> QED BY <1>1, <1>2 DEF ScreenIInv

(* The server takes, refuses or drops a request: the last one is still for what is shown.       *)
LEMMA OneRequestLess ==
  ASSUME ScreenIInv, requests # << >>, requests' = Tail(requests), UNCHANGED shownSymbol
  PROVE  /\ live /\ requests' \in Seq(Instruments) /\ Head(requests) \in Instruments
         /\ ~again /\ requests' # << >> => UnderWay'
         /\ ~again /\ requests' = << >> => Head(requests) = shownSymbol
<1>1. /\ requests \in Seq(Instruments) /\ live /\ (~again => UnderWay)
  BY DEF ScreenIInv
<1>2. /\ Head(requests) \in Instruments /\ Head(requests) = requests[1] /\ Tail(requests) \in Seq(Instruments)
      /\ Tail(requests) = << >> => Len(requests) = 1
      /\ Tail(requests) # << >> => Tail(requests)[Len(Tail(requests))] = requests[Len(requests)]
  BY <1>1, FirstTaken
<1>3. ~again => requests[Len(requests)] = shownSymbol
  BY <1>1 DEF UnderWay
<1> QED BY <1>1, <1>2, <1>3 DEF UnderWay

LEMMA RequestStep ==
  ASSUME ScreenIInv, RequestTaken \/ ServerRefuses \/ ServerDrops PROVE ScreenIInv'
<1>1. /\ requests # << >> /\ requests' = Tail(requests)
      /\ UNCHANGED <<shownSymbol, listening, requested, status, live, serving, screenVars, again>>
  BY DEF RequestTaken, ServerRefuses, ServerDrops
<1>2. /\ live /\ requests' \in Seq(Instruments) /\ Head(requests) \in Instruments
      /\ ~again /\ requests' # << >> => UnderWay'
      /\ ~again /\ requests' = << >> => Head(requests) = shownSymbol
  BY <1>1, OneRequestLess
<1>3. /\ messages \in Seq(Messages) /\ Listens /\ ShownIsOfTheSymbol
      /\ shownSymbol \in Instruments /\ screen \in [Parts -> SUBSET (Instruments \cup {None})]
      /\ opening \in Instruments \cup {None}
  BY DEF ScreenIInv
<1>4. CASE RequestTaken \/ ServerDrops
  <2>1. /\ UNCHANGED messages /\ verdict' # "refused" /\ opening' \in {opening, Head(requests)}
        /\ verdict' = "served" => opening' = Head(requests)
    BY <1>4 DEF RequestTaken, ServerDrops
  <2>2. Listens'
    BY <1>1, <1>3, <2>1 DEF Listens, SnapshotOf
  <2>3. (live /\ ~again /\ (requests # << >> \/ verdict = "served") => UnderWay)'
    BY <1>1, <1>2, <2>1 DEF UnderWay
  <2>4. ShownIsOfTheSymbol'
    BY <1>1, <1>3 DEF ShownIsOfTheSymbol, screenVars
  <2> QED BY <1>1, <1>2, <1>3, <2>1, <2>2, <2>3, <2>4 DEF ScreenIInv, screenVars
<1>5. CASE ServerRefuses
  <2>1. messages' = Append(messages, Refusal) /\ verdict' = "refused" /\ UNCHANGED opening
    BY <1>5 DEF ServerRefuses
  <2> QED BY <1>1, <1>2, <1>3, <2>1, ARefusal, MessageSent
<1> QED BY <1>4, <1>5

LEMMA ContextStep ==
  ASSUME TerminalAssumption, ScreenIInv, ContextReady \/ ContextFails PROVE ScreenIInv'
<1>1. /\ opening # None /\ opening' = None
      /\ UNCHANGED <<shownSymbol, listening, requested, status, live, requests, screenVars, again>>
  BY DEF ContextReady, ContextFails
<1>2. /\ messages \in Seq(Messages) /\ live /\ opening \in Instruments /\ requests \in Seq(Instruments)
      /\ ~again /\ (requests # << >> \/ verdict = "served") => UnderWay
  BY <1>1 DEF ScreenIInv
<1>3. CASE ContextReady
  <2>1. PICK e \in BOOLEAN : messages' = Append(messages, Snapshot(opening, e))
    BY <1>3 DEF ContextReady
  <2>2. serving' = opening /\ verdict' = Overtaken
    BY <1>3 DEF ContextReady
  <2>3. PICK m : m = Snapshot(opening, e)
    OBVIOUS
  <2>4. m \in Messages /\ m.type = "INIT_STATE" /\ m.symbol = opening
    BY <1>2, <2>3, ASnapshot
  <2>5. PICK n : n = Len(messages) + 1
    OBVIOUS
  <2>6. n \in DOMAIN messages' /\ messages'[n] = m
    <3>1. messages' = Append(messages, m) /\ Len(messages) \in Nat
      BY <1>2, <2>1, <2>3
    <3> QED BY <1>2, <2>4, <2>5, <3>1
  <2>7. verdict' # "refused" /\ (verdict' = "served" => verdict = "served")
    BY <2>2 DEF Overtaken
  <2>8. ~again /\ (requests' # << >> \/ verdict' = "served") => UnderWay'
    <3> SUFFICES ASSUME ~again, requests' # << >> \/ verdict' = "served" PROVE UnderWay'
      OBVIOUS
    <3>1. UnderWay
      BY <1>1, <1>2, <2>7
    <3>2. CASE requests # << >>
      BY <1>1, <3>1, <3>2 DEF UnderWay
    <3>3. CASE requests = << >> /\ opening = shownSymbol
      <4>1. \E i \in DOMAIN messages' : SnapshotOf(i, shownSymbol)'
        BY <1>1, <2>4, <2>6, <3>3 DEF SnapshotOf
      <4> QED BY <1>1, <2>2, <3>3, <4>1 DEF UnderWay
    <3>4. CASE requests = << >> /\ listening # shownSymbol
      BY <1>1, <3>4 DEF UnderWay
    <3> QED BY <1>1, <3>1, <3>2, <3>3, <3>4 DEF UnderWay
  <2>9. messages' = Append(messages, m)
    BY <2>1, <2>3
  <2> QED BY <1>1, <1>2, <2>4, <2>7, <2>8, <2>9, MessageSent
<1>4. CASE ContextFails
  <2>1. /\ messages' = Append(messages, Refusal) /\ verdict' # "served"
    BY <1>4 DEF ContextFails
  <2>2. requests' # << >> /\ ~again => UnderWay'
    BY <1>1, <1>2 DEF UnderWay
  <2> QED BY <1>1, <1>2, <2>1, <2>2, ARefusal, MessageSent
<1> QED BY <1>3, <1>4

(* A symbol is taken away: two messages at once.                                                *)
LEMMA RevokedStep ==
  ASSUME TerminalAssumption, ScreenIInv, EntitlementRevoked PROVE ScreenIInv'
<1>1. /\ serving # None /\ opening' = None /\ verdict' = "revoked"
      /\ UNCHANGED <<shownSymbol, listening, requested, status, live, requests, screenVars, again>>
  BY DEF EntitlementRevoked
<1>2. /\ messages \in Seq(Messages) /\ live /\ requests \in Seq(Instruments) /\ Listens
      /\ ShownIsOfTheSymbol /\ Standard \in Instruments /\ shownSymbol \in Instruments
      /\ screen \in [Parts -> SUBSET (Instruments \cup {None})]
      /\ ~again /\ requests # << >> => UnderWay
  BY <1>1 DEF ScreenIInv, TerminalAssumption
<1>3. /\ messages' \in Seq(Messages) /\ messages' # << >>
      /\ messages # << >> => messages'[1] = messages[1]
  <2>1. CASE messages' = Append(messages, Refusal)
    <3>1. messages # << >> => 1 \in DOMAIN messages
      BY <1>2
    <3> QED BY <1>2, <2>1, <3>1, ARefusal, LastAppended
  <2>2. CASE \E e \in BOOLEAN : messages' = messages \o <<Refusal, Snapshot(Standard, e)>>
    <3>1. PICK e \in BOOLEAN : messages' = messages \o <<Refusal, Snapshot(Standard, e)>>
      BY <2>2
    <3>2. PICK a, b : a = Refusal /\ b = Snapshot(Standard, e)
      OBVIOUS
    <3>3. a \in Messages /\ b \in Messages /\ messages' = messages \o <<a, b>>
      BY <1>2, <3>1, <3>2, ARefusal, ASnapshot
    <3>4. messages' \in Seq(Messages) /\ Len(messages') = Len(messages) + 2 /\ Len(messages) \in Nat
      BY <1>2, <3>3
    <3>5. messages # << >> => messages'[1] = messages[1]
      BY <1>2, <3>3
    <3> QED BY <3>4, <3>5
  <2> QED BY <2>1, <2>2 DEF EntitlementRevoked
<1>4. Listens'
  BY <1>1, <1>2, <1>3 DEF Listens, SnapshotOf
<1>5. (live /\ ~again /\ (requests # << >> \/ verdict = "served") => UnderWay)'
  BY <1>1, <1>2 DEF UnderWay
<1>6. ShownIsOfTheSymbol'
  BY <1>1, <1>2 DEF ShownIsOfTheSymbol, screenVars
<1> QED BY <1>1, <1>2, <1>3, <1>4, <1>5, <1>6 DEF ScreenIInv, screenVars

(* An error that is taken is shown, and one behind the first message is still to come.          *)
LEMMA ErrorTaken ==
  ASSUME messages \in Seq(Messages), messages # << >>, messages' = Tail(messages), ErrorIsLast,
         NEW m, m = messages[1],
         \/ m.type = "ERROR" /\ status' = "ERROR"
         \/ m.type = "INIT_STATE"
         \/ m.type # "ERROR" /\ status' = status
  PROVE  ErrorIsLast'
<1>1. /\ Len(messages) \in Nat /\ DOMAIN messages = 1..Len(messages) /\ 1 \in DOMAIN messages
      /\ DOMAIN messages' = 1..Len(messages) - 1
      /\ \A i \in DOMAIN messages : i # 1 => i - 1 \in DOMAIN messages' /\ messages'[i - 1] = messages[i]
      /\ \A j \in 1..Len(messages) - 1 : messages'[j] = messages[j + 1]
  BY FirstTaken
<1>2. ASSUME NEW i \in DOMAIN messages, i # 1, messages[i].type = "ERROR"
      PROVE  \E k \in DOMAIN messages' : messages'[k].type = "ERROR" /\ k + 1 = i
  <2>1. PICK k : k = i - 1
    OBVIOUS
  <2>2. k \in DOMAIN messages' /\ messages'[k] = messages[i] /\ k + 1 = i
    BY <1>1, <1>2, <2>1
  <2> QED BY <1>2, <2>2
<1>3. status' = "ERROR" \/ \E i \in DOMAIN messages' : messages'[i].type = "ERROR"
  <2>1. CASE m.type = "INIT_STATE"
    <3>1. PICK i \in DOMAIN messages : i > 1 /\ messages[i].type = "ERROR"
      BY <1>1, <2>1 DEF ErrorIsLast
    <3> QED BY <1>1, <1>2, <3>1
  <2>2. CASE m.type # "ERROR" /\ status' = status
    BY <1>2, <2>2 DEF ErrorIsLast
  <2> QED BY <2>1, <2>2
<1>4. ASSUME NEW j \in DOMAIN messages', messages'[j].type = "INIT_STATE"
      PROVE  \E i \in DOMAIN messages' : i > j /\ messages'[i].type = "ERROR"
  <2>1. PICK n : n = j + 1
    OBVIOUS
  <2>2. n \in DOMAIN messages /\ messages[n].type = "INIT_STATE" /\ j \in Nat
    BY <1>1, <1>4, <2>1
  <2>3. PICK i \in DOMAIN messages : i > n /\ messages[i].type = "ERROR"
    BY <2>2 DEF ErrorIsLast
  <2>4. i # 1 /\ i \in Nat
    BY <1>1, <2>2, <2>3
  <2>5. PICK k \in DOMAIN messages' : messages'[k].type = "ERROR" /\ k + 1 = i
    BY <1>2, <2>3, <2>4
  <2>6. k > j
    BY <1>1, <2>1, <2>2, <2>3, <2>4, <2>5
  <2> QED BY <2>5, <2>6
<1> QED BY <1>3, <1>4 DEF ErrorIsLast

(* A message that is not heard, or that is market data of the symbol that is shown. *)
LEMMA ReceivedStep ==
  ASSUME TerminalAssumption, ScreenIInv, BrowserReceives PROVE ScreenIInv'
<1> DEFINE m == Head(messages)
<1>1. /\ live /\ messages # << >> /\ messages' = Tail(messages)
      /\ UNCHANGED <<shownSymbol, live, serving, opening, verdict, again>>
      /\ IF m.symbol # listening
         THEN /\ status' = CASE m.type = "INIT_STATE" -> "ACTIVE" [] m.type = "ERROR" -> "ERROR"
                             [] OTHER -> status
              /\ UNCHANGED <<requested, listening, requests, screenVars>>
         ELSE IF m.type = "INIT_STATE" THEN OnInitState(m) ELSE OnMarketData(m)
  BY DEF BrowserReceives
<1>2. /\ messages \in Seq(Messages) /\ Listens /\ ShownIsOfTheSymbol /\ requests \in Seq(Instruments)
      /\ shownSymbol \in Instruments /\ screen \in [Parts -> SUBSET (Instruments \cup {None})]
      /\ (~again /\ (requests # << >> \/ verdict = "served") => UnderWay)
      /\ opening \in Instruments \cup {None} /\ (requests = << >> /\ verdict = "refused" => ErrorIsLast)
  BY <1>1 DEF ScreenIInv
<1>3. /\ m \in Messages /\ m = messages[1] /\ messages' \in Seq(Messages)
      /\ \A i \in DOMAIN messages : i # 1 => i - 1 \in DOMAIN messages' /\ messages'[i - 1] = messages[i]
  BY <1>1, <1>2, FirstTaken
<1>4. /\ m.type \in {"INIT_STATE", "ERROR"} \cup Updates
      /\ m.type # "ERROR" => m.symbol \in Instruments
      /\ m.type = "ERROR" => m.symbol = None /\ None \notin Instruments
  BY <1>3, AMessage
<1> HIDE DEF m
(* The application listens to what it shows, or hears the snapshot that makes it ask. *)
<1>5. listening # shownSymbol => m.symbol = listening /\ m.type = "INIT_STATE" /\ requested = None
  BY <1>1, <1>2, <1>3 DEF Listens, SnapshotOf
(* What was on its way still is, but for this message. *)
<1>6. ASSUME UnderWay, listening = shownSymbol, UNCHANGED requests,
             \/ UNCHANGED <<instrument, feedStatus>> /\ ~(m.type = "INIT_STATE" /\ m.symbol = shownSymbol)
             \/ instrument' = shownSymbol /\ feedStatus' = "LIVE"
      PROVE  UnderWay'
  <2>1. CASE requests # << >> \/ opening = shownSymbol
    BY <1>1, <1>6, <2>1 DEF UnderWay
  <2>2. CASE requests = << >> /\ opening # shownSymbol /\ instrument' = shownSymbol /\ feedStatus' = "LIVE"
    BY <1>1, <1>6, <2>2 DEF UnderWay
  <2>3. CASE /\ requests = << >> /\ opening # shownSymbol /\ UNCHANGED <<instrument, feedStatus>>
             /\ ~(m.type = "INIT_STATE" /\ m.symbol = shownSymbol)
             /\ ~(instrument = shownSymbol /\ feedStatus = "LIVE")
    <3>1. serving = shownSymbol /\ opening = None /\ \E i \in DOMAIN messages : SnapshotOf(i, shownSymbol)
      BY <1>6, <2>3 DEF UnderWay
    <3>2. PICK i \in DOMAIN messages : SnapshotOf(i, shownSymbol)
      BY <3>1
    <3>3. i # 1
      BY <1>3, <2>3, <3>2 DEF SnapshotOf
    <3>4. PICK k : k = i - 1
      OBVIOUS
    <3>5. k \in DOMAIN messages' /\ messages'[k] = messages[i]
      BY <1>3, <3>3, <3>4
    <3>6. \E n \in DOMAIN messages' : SnapshotOf(n, shownSymbol)'
      BY <1>1, <3>2, <3>5 DEF SnapshotOf
    <3> QED BY <1>1, <1>6, <2>3, <3>1, <3>6 DEF UnderWay
  <2>4. CASE /\ requests = << >> /\ opening # shownSymbol /\ UNCHANGED <<instrument, feedStatus>>
             /\ instrument = shownSymbol /\ feedStatus = "LIVE"
    <3>1. serving = shownSymbol /\ opening = None
      BY <1>6, <2>4 DEF UnderWay
    <3> QED BY <1>1, <1>6, <2>4, <3>1 DEF UnderWay
  <2> QED BY <1>6, <2>1, <2>2, <2>3, <2>4
(* And so is an error, or it is shown.                                                          *)
<1>e. ASSUME UNCHANGED requests,
             \/ m.type = "ERROR" /\ status' = "ERROR"
             \/ m.type = "INIT_STATE"
             \/ m.type # "ERROR" /\ status' = status
      PROVE  (live /\ requests = << >> /\ verdict = "refused" => ErrorIsLast)'
  BY <1>1, <1>2, <1>3, <1>e, ErrorTaken
<1>l. listening \in Instruments
  BY <1>2 DEF Listens, TerminalAssumption
<1>7. CASE m.symbol # listening
  <2>1. UNCHANGED <<requested, listening, requests, screenVars>> /\ listening = shownSymbol
    BY <1>1, <1>5, <1>7
  <2>2. Listens'
    BY <1>1, <1>2, <2>1 DEF Listens
  <2>3. (live /\ ~again /\ (requests # << >> \/ verdict = "served") => UnderWay)'
    BY <1>1, <1>2, <1>6, <1>7, <2>1 DEF screenVars
  <2>5. (live /\ requests = << >> /\ verdict = "refused" => ErrorIsLast)'
    BY <1>1, <1>4, <1>7, <1>e, <2>1
  <2>4. ShownIsOfTheSymbol'
    BY <1>1, <1>2, <2>1 DEF ShownIsOfTheSymbol, screenVars
  <2> QED BY <1>1, <1>2, <1>3, <2>1, <2>2, <2>3, <2>4, <2>5 DEF ScreenIInv, screenVars
<1>8. CASE m.symbol = listening /\ m.type = "INIT_STATE" /\ listening # shownSymbol
  <2>1. SubscribeTo(shownSymbol, "ACTIVE") /\ UNCHANGED screenVars
    BY <1>1, <1>8 DEF OnInitState
  <2>2. requested # shownSymbol
    BY <1>2, <1>5, <1>8 DEF TerminalAssumption
  <2>3. /\ requested' = shownSymbol /\ listening' = shownSymbol
        /\ requests' = Append(requests, shownSymbol)
    BY <1>1, <2>1, <2>2 DEF SubscribeTo, FollowedBy
  <2>4. /\ requests' \in Seq(Instruments) /\ requests' # << >>
        /\ requests'[Len(requests')] = shownSymbol
    BY <1>2, <2>3
  <2>5. Listens' /\ UnderWay'
    BY <1>1, <1>2, <2>3, <2>4 DEF Listens, UnderWay, TerminalAssumption
  <2>6. ShownIsOfTheSymbol'
    BY <1>1, <1>2, <2>1 DEF ShownIsOfTheSymbol, screenVars
  <2> QED BY <1>1, <1>2, <1>3, <2>1, <2>4, <2>5, <2>6 DEF ScreenIInv, screenVars
<1>9. CASE m.symbol = listening /\ m.type = "INIT_STATE" /\ listening = shownSymbol
  <2> DEFINE content == IF m.empty THEN {} ELSE {m.symbol}
  <2>1. /\ pendingTicks' = {}
        /\ screen' = [screen EXCEPT !["market"] = content, !["bars"] = content,
                                    !["ticks"] = {}, !["price"] = content]
        /\ lastPrice' = IF m.empty THEN None ELSE m.symbol
        /\ instrument' = m.symbol /\ feedStatus' = "LIVE"
        /\ UNCHANGED <<requested, listening, requests>>
    BY <1>1, <1>9 DEF OnInitState
  <2>2. content \in SUBSET Instruments /\ content \subseteq {shownSymbol} /\ lastPrice' \in {None, shownSymbol}
    BY <1>4, <1>9, <2>1
  <2> HIDE DEF content
  <2>3. /\ screen' \in [Parts -> SUBSET (Instruments \cup {None})]
        /\ \A p \in Parts \ {"range"} : screen'[p] \subseteq {shownSymbol}
    BY <1>2, <2>1, <2>2 DEF ShownIsOfTheSymbol, Parts
  <2>4. Listens'
    BY <1>1, <1>2, <1>9, <2>1 DEF Listens
  <2>5. (live /\ ~again /\ (requests # << >> \/ verdict = "served") => UnderWay)'
    BY <1>1, <1>2, <1>6, <1>9, <2>1
  <2>7. (live /\ requests = << >> /\ verdict = "refused" => ErrorIsLast)'
    BY <1>9, <1>e, <2>1
  <2>6. ShownIsOfTheSymbol'
    BY <1>1, <1>9, <2>1, <2>2, <2>3 DEF ShownIsOfTheSymbol
  <2> QED BY <1>1, <1>2, <1>3, <2>1, <2>3, <2>4, <2>5, <2>6, <2>7 DEF ScreenIInv
<1>10. CASE m.symbol = listening /\ m.type # "INIT_STATE"
  <2>1. OnMarketData(m) /\ listening = shownSymbol /\ m.type \in Updates
    BY <1>1, <1>4, <1>5, <1>10, <1>l
  <2>2. UNCHANGED <<instrument, feedStatus, status, requested, listening, requests>>
    BY <2>1 DEF OnMarketData
  <2>3. /\ pendingTicks' \subseteq pendingTicks \cup {m.symbol} /\ lastPrice' \in {lastPrice, m.symbol}
        /\ \/ screen' = screen
           \/ screen' = [screen EXCEPT !["bars"] = @ \cup {m.symbol}]
           \/ screen' = [screen EXCEPT !["market"] = @ \cup {m.symbol}]
    BY <2>1 DEF OnMarketData, Updates
  <2>4. /\ screen' \in [Parts -> SUBSET (Instruments \cup {None})]
        /\ \A p \in Parts \ {"range"} : screen'[p] \subseteq {shownSymbol}
    BY <1>2, <1>4, <1>10, <2>1, <2>3 DEF ShownIsOfTheSymbol, Parts
  <2>5. Listens'
    BY <1>1, <1>2, <2>1, <2>2 DEF Listens
  <2>6. (live /\ ~again /\ (requests # << >> \/ verdict = "served") => UnderWay)'
    BY <1>1, <1>2, <1>6, <1>10, <2>1, <2>2
  <2>8. (live /\ requests = << >> /\ verdict = "refused" => ErrorIsLast)'
    BY <1>10, <1>e, <2>1, <2>2 DEF Updates
  <2>7. ShownIsOfTheSymbol'
    BY <1>1, <1>2, <1>10, <2>1, <2>2, <2>3, <2>4 DEF ShownIsOfTheSymbol
  <2> QED BY <1>1, <1>2, <1>3, <2>2, <2>4, <2>5, <2>6, <2>7, <2>8 DEF ScreenIInv
<1> QED BY <1>7, <1>8, <1>9, <1>10

(* Another symbol clears the screen and is asked for at once if the socket is open.             *)
LEMMA SelectStep ==
  ASSUME TerminalAssumption, ScreenIInv, NEW s \in Instruments, SelectSymbol(s) PROVE ScreenIInv'
<1>1. /\ again' = (again \/ s = shownSymbol) /\ shownSymbol' = s
      /\ screen' = Blank /\ pendingTicks' = {} /\ lastPrice' = None /\ feedStatus' = "UNAVAILABLE"
      /\ SubscribeTo(s, status) /\ UNCHANGED <<live, serving, opening, verdict, messages, instrument>>
  BY DEF SelectSymbol, ClearedTicks
<1>2. /\ messages \in Seq(Messages) /\ Listens /\ requests \in Seq(Instruments)
      /\ shownSymbol \in Instruments /\ None \notin Instruments /\ opening \in Instruments \cup {None}
      /\ (~live => requests = << >> /\ messages = << >> /\ opening = None /\ serving = None)
      /\ (live /\ requests = << >> /\ verdict = "refused" => ErrorIsLast)
  BY DEF ScreenIInv, TerminalAssumption
<1>3. screen' \in [Parts -> SUBSET (Instruments \cup {None})] /\ ShownIsOfTheSymbol'
  BY <1>1 DEF Blank, Parts, ShownIsOfTheSymbol
<1>4. CASE requested = s /\ live /\ UNCHANGED <<requested, listening, requests, status>>
  <2>1. s = shownSymbol /\ again'
    BY <1>1, <1>2, <1>4 DEF Listens
  <2>2. Listens'
    BY <1>1, <1>2, <1>4, <2>1 DEF Listens, SnapshotOf
  <2>3. (live /\ requests = << >> /\ verdict = "refused" => ErrorIsLast)'
    BY <1>1, <1>2, <1>4 DEF ErrorIsLast
  <2> QED BY <1>1, <1>2, <1>3, <1>4, <2>1, <2>2, <2>3 DEF ScreenIInv
<1>5. CASE requested' = s /\ listening' = s /\ requests' = IF live THEN Append(requests, s) ELSE requests
  <2>1. Listens'
    BY <1>1, <1>2, <1>5 DEF Listens
  <2>2. /\ requests' \in Seq(Instruments) /\ (~live => requests' = << >>)
        /\ live => requests' # << >> /\ requests'[Len(requests')] = s
    BY <1>2, <1>5
  <2>3. (live /\ ~again /\ (requests # << >> \/ verdict = "served") => UnderWay)'
    BY <1>1, <2>2 DEF UnderWay
  <2> QED BY <1>1, <1>2, <1>3, <1>5, <2>1, <2>2, <2>3 DEF ScreenIInv
<1> QED BY <1>1, <1>4, <1>5 DEF SubscribeTo, FollowedBy

(* What only fills parts of the screen. *)
LEMMA FilledStep ==
  ASSUME ScreenIInv, Flush \/ SelectRange \/ \E s \in Instruments : RangeAnswered(s)
  PROVE  ScreenIInv'
<1>1. /\ UNCHANGED <<shownSymbol, listening, requested, status, live, serving, opening, verdict,
                     requests, messages, lastPrice, instrument, feedStatus, again>>
  BY DEF Flush, SelectRange, RangeAnswered, socketState, screenVars
<1>2. /\ ShownIsOfTheSymbol /\ screen \in [Parts -> SUBSET (Instruments \cup {None})]
      /\ shownSymbol \in Instruments
  BY DEF ScreenIInv
<1>3. pendingTicks' \subseteq pendingTicks
  BY DEF Flush, SelectRange, RangeAnswered, socketState, screenVars
<1>4. /\ screen' \in [Parts -> SUBSET (Instruments \cup {None})]
      /\ \A p \in Parts \ {"range"} : screen'[p] \subseteq {shownSymbol}
  <2>1. CASE Flush
    <3>1. screen' = [screen EXCEPT !["ticks"] = @ \cup pendingTicks,
                                   !["price"] = IF lastPrice = None THEN @ ELSE {lastPrice}]
      BY <2>1 DEF Flush
    <3> QED BY <1>2, <3>1 DEF ShownIsOfTheSymbol, Parts
  <2>2. CASE SelectRange
    BY <1>2, <2>2 DEF SelectRange, screenVars, ShownIsOfTheSymbol
  <2>3. CASE \E s \in Instruments : RangeAnswered(s)
    <3>1. PICK s \in Instruments : \E answer \in {{}, {s}} : screen' = [screen EXCEPT !["range"] = answer]
      BY <2>3 DEF RangeAnswered
    <3> QED BY <1>2, <3>1 DEF ShownIsOfTheSymbol, Parts
  <2> QED BY <2>1, <2>2, <2>3
<1>5. ShownIsOfTheSymbol'
  BY <1>1, <1>2, <1>3, <1>4 DEF ShownIsOfTheSymbol
<1>6. Listens' /\ (live /\ ~again /\ (requests # << >> \/ verdict = "served") => UnderWay)'
  BY <1>1 DEF ScreenIInv, Listens, UnderWay, SnapshotOf
<1>7. (live /\ requests = << >> /\ verdict = "refused" => ErrorIsLast)'
  BY <1>1 DEF ScreenIInv, ErrorIsLast
<1> QED BY <1>1, <1>4, <1>5, <1>6, <1>7 DEF ScreenIInv

LEMMA ScreenSteps ==
  ASSUME TerminalAssumption, ScreenIInv, [TerminalNext]_terminalVars PROVE ScreenIInv'
(* What adds a message and leaves the session alone.                                            *)
<1>1. ASSUME NEW m \in Messages, live, messages' = Append(messages, m),
             UNCHANGED <<shownSymbol, listening, requested, status, live, serving, opening,
                         requests, screenVars, again>>,
             verdict' = verdict \/ verdict' \notin {"served", "refused"},
             m.type = "INIT_STATE" => verdict' # "refused"
      PROVE  ScreenIInv'
  <2>1. /\ messages \in Seq(Messages) /\ requests' \in Seq(Instruments)
        /\ opening' \in Instruments \cup {None}
        /\ ~again /\ (requests # << >> \/ verdict = "served") => UnderWay
        /\ requests = << >> /\ verdict = "refused" => ErrorIsLast
    BY <1>1 DEF ScreenIInv
  <2>2. ~again /\ (requests' # << >> \/ verdict' = "served") => UnderWay'
    BY <1>1, <2>1, StillUnderWay
  <2> QED BY <1>1, <2>1, <2>2, MessageSent
<1>2. ASSUME NEW type \in Updates, NEW s \in Instruments, ServerStreams(type, s) PROVE ScreenIInv'
  <2>1. PICK m : m = [type |-> type, symbol |-> s]
    OBVIOUS
  <2>2. m \in Messages /\ m.type # "INIT_STATE"
    BY <2>1 DEF Messages, Updates
  <2>3. /\ live /\ messages' = Append(messages, m)
        /\ UNCHANGED <<shownSymbol, listening, requested, status, live, serving, opening, verdict,
                       requests, screenVars, again>>
    BY <1>2, <2>1 DEF ServerStreams
  <2> QED BY <1>1, <2>2, <2>3
<1>3. ASSUME NEW s \in Instruments, PaneAnswered(s) PROVE ScreenIInv'
  <2>1. /\ live
        /\ UNCHANGED <<shownSymbol, listening, requested, status, live, serving, opening, requests,
                       screenVars, again>>
    BY <1>3 DEF PaneAnswered
  <2>2. CASE \E e \in BOOLEAN : messages' = Append(messages, Snapshot(s, e)) /\ verdict' = Overtaken
    <3>1. PICK e \in BOOLEAN : messages' = Append(messages, Snapshot(s, e)) /\ verdict' = Overtaken
      BY <2>2
    <3>2. PICK m : m = Snapshot(s, e)
      OBVIOUS
    <3>3. m \in Messages
      BY <3>2, ASnapshot
    <3>4. (verdict' = verdict \/ verdict' \notin {"served", "refused"}) /\ verdict' # "refused"
      BY <3>1 DEF Overtaken
    <3>5. messages' = Append(messages, m)
      BY <3>1, <3>2
    <3> QED BY <1>1, <2>1, <3>3, <3>4, <3>5
  <2>3. CASE messages' = Append(messages, Refusal) /\ UNCHANGED verdict
    BY <1>1, <2>1, <2>3, ARefusal
  <2> QED BY <1>3, <2>2, <2>3 DEF PaneAnswered
<1>4. CASE UNCHANGED terminalVars
  <2>1. UNCHANGED <<shownSymbol, listening, requested, status, live, serving, opening, verdict,
                    requests, messages, again, screen, pendingTicks, lastPrice, instrument, feedStatus>>
    BY <1>4 DEF terminalVars, socketState, screenVars
  <2>2. Listens' /\ (live /\ ~again /\ (requests # << >> \/ verdict = "served") => UnderWay)'
    BY <2>1 DEF ScreenIInv, Listens, UnderWay, SnapshotOf
  <2>3. (live /\ requests = << >> /\ verdict = "refused" => ErrorIsLast)' /\ ShownIsOfTheSymbol'
    BY <2>1 DEF ScreenIInv, ErrorIsLast, ShownIsOfTheSymbol
  <2> QED BY <2>1, <2>2, <2>3 DEF ScreenIInv
<1>5. TerminalNext => ScreenIInv'
  BY <1>2, <1>3, SocketOpensStep, SocketLostStep, RequestStep, ContextStep, RevokedStep, ReceivedStep,
     SelectStep, FilledStep
     DEF TerminalNext, Updates
<1> QED BY <1>4, <1>5

(* Whatever is on its way when the user changes symbols, and however often the socket is lost:  *)
(* every part of the screen is of the symbol it names, and once nothing is on its way that      *)
(* symbol is served and shown, unless the server refused it, dropped the request or took it     *)
(* away; a refusal is told as long as no snapshot follows it (App.tsx's listeners, the dispatch *)
(* by symbol of websocket.ts, SUBSCRIBE of index.ts).                                           *)
THEOREM ScreenIsTrueTheorem ==
  ASSUME TerminalAssumption
  PROVE  TerminalSpec => []ScreenIsTrue
<1>1. TerminalInit => ScreenIInv
  BY DEF TerminalInit, ScreenIInv, Listens, ShownIsOfTheSymbol, Blank, Parts
<1>2. ScreenIInv /\ [TerminalNext]_terminalVars => ScreenIInv'
  BY ScreenSteps
<1>3. ScreenIInv => ScreenIsTrue
  <2> SUFFICES ASSUME ScreenIInv PROVE ScreenIsTrue
    OBVIOUS
  <2>1. ASSUME AllArrived, verdict = "served", ~again
        PROVE  serving = shownSymbol /\ instrument = shownSymbol /\ feedStatus = "LIVE"
    <3>1. UnderWay /\ listening = shownSymbol /\ shownSymbol # None
      BY <2>1 DEF ScreenIInv, Listens, AllArrived, TerminalAssumption
    <3> QED BY <2>1, <3>1 DEF UnderWay, AllArrived
  <2>2. ASSUME AllArrived, verdict = "refused" PROVE status = "ERROR"
    <3>1. ErrorIsLast /\ messages = << >>
      BY <2>2 DEF ScreenIInv, AllArrived
    <3> QED BY <3>1 DEF ErrorIsLast
  <2> QED BY <2>1, <2>2 DEF ScreenIInv, ScreenIsTrue, ChoiceArrives, RefusalIsTold
<1> QED BY <1>1, <1>2, <1>3, PTL DEF TerminalSpec

-----------------------------------------------------------------------------
(* Numbers: the least and the greatest of them, and division.              *)

LEMMA LeastOf ==
  ASSUME NEW S \in SUBSET Nat, S # {}
  PROVE  \E x \in S : \A y \in S : x <= y
<1> DEFINE Less == OpToRel(<, Nat)
<1>1. PICK x \in S : \A y \in S : <<y, x>> \notin Less
  <2>1. IsWellFoundedOn(Less, Nat)
    BY NatLessThanWellFounded
  <2> HIDE DEF Less
  <2> QED BY <2>1, WFMin, Zenon
<1>2. ASSUME NEW y \in S PROVE x <= y
  <2>1. x \in Nat /\ y \in Nat /\ ~(y < x)
    BY <1>1 DEF OpToRel
  <2> QED BY <2>1
<1> QED BY <1>2

LEMMA LeastOfTwo ==
  ASSUME NEW a \in Int, NEW b \in Int
  PROVE  Min({a, b}) = IF a <= b THEN a ELSE b
BY DEF Min

LEMMA GreatestOfTwo ==
  ASSUME NEW a \in Int, NEW b \in Int
  PROVE  Max({a, b}) = IF a >= b THEN a ELSE b
BY DEF Max

(* A finite set of integers has a least and a greatest one. *)
LEMMA FiniteIsBounded ==
  ASSUME NEW S \in SUBSET Int, IsFiniteSet(S)
  PROVE  \E n \in Nat : \A x \in S : -n <= x /\ x <= n
<1> DEFINE size(x) == IF x >= 0 THEN x ELSE -x
           Within(T, n) == \A x \in T : size(x) <= n
           T(k) == {t \in SUBSET S : Cardinality(t) = k}
           Bad == {k \in Nat : \E t \in T(k) : \A n \in Nat : ~Within(t, n)}
<1>1. Bad = {}
  <2> SUFFICES ASSUME Bad # {} PROVE FALSE
    OBVIOUS
  <2>1. PICK k \in Bad : \A j \in Bad : k <= j
    BY LeastOf
  <2>2. PICK t \in SUBSET S : Cardinality(t) = k /\ \A n \in Nat : ~Within(t, n)
    BY <2>1
  <2>3. IsFiniteSet(t)
    BY FS_Subset
  <2>4. t # {}
    <3>1. ~Within(t, 0)
      BY <2>2
    <3> QED BY <3>1
  <2>5. PICK x \in t : TRUE
    BY <2>4
  <2>6. Cardinality(t \ {x}) = k - 1 /\ k \in Nat /\ k - 1 \in Nat
    <3>1. Cardinality(t \ {x}) = Cardinality(t) - 1 /\ IsFiniteSet(t \ {x})
      BY <2>3, <2>5, FS_RemoveElement
    <3>2. Cardinality(t \ {x}) \in Nat
      BY <3>1, FS_CardinalityType
    <3> QED BY <3>1, <3>2, <2>2, <2>1
  <2>7. k - 1 \notin Bad
    BY <2>1, <2>6
  <2>8. PICK n \in Nat : Within(t \ {x}, n)
    BY <2>6, <2>7
  <2>9. n + size(x) \in Nat /\ Within(t, n + size(x))
    BY <2>8, <2>5
  <2> QED BY <2>9, <2>2
<1>2. Cardinality(S) \in Nat /\ S \in T(Cardinality(S))
  BY FS_CardinalityType
<1>3. PICK n \in Nat : Within(S, n)
  BY <1>1, <1>2
<1> QED BY <1>3

LEMMA LeastIsLeast ==
  ASSUME NEW S \in SUBSET Int, IsFiniteSet(S), S # {}
  PROVE  Min(S) \in S /\ \A x \in S : Min(S) <= x
<1>1. PICK n \in Nat : \A x \in S : -n <= x /\ x <= n
  BY FiniteIsBounded
<1> DEFINE N == {x + n : x \in S}
<1>2. N \in SUBSET Nat /\ N # {}
  <2>1. ASSUME NEW x \in S PROVE x + n \in Nat
    BY <1>1
  <2>2. PICK x \in S : TRUE
    OBVIOUS
  <2>3. x + n \in N
    BY <2>2
  <2> QED BY <2>1, <2>3
<1>3. PICK m \in N : \A y \in N : m <= y
  BY <1>2, LeastOf
<1>4. m - n \in S /\ \A y \in S : m - n <= y
  <2>1. PICK z \in S : m = z + n
    BY <1>3
  <2>2. z \in Int /\ m - n = z
    BY <2>1
  <2>3. ASSUME NEW y \in S PROVE z <= y
    <3>1. y + n \in N /\ y \in Int
      OBVIOUS
    <3>2. z + n <= y + n
      BY <3>1, <1>3, <2>1
    <3> QED BY <3>1, <3>2, <2>2
  <2> QED BY <2>2, <2>3
<1> QED BY <1>4 DEF Min

LEMMA GreatestIsGreatest ==
  ASSUME NEW S \in SUBSET Int, IsFiniteSet(S), S # {}
  PROVE  Max(S) \in S /\ \A x \in S : x <= Max(S)
<1>1. PICK n \in Nat : \A x \in S : -n <= x /\ x <= n
  BY FiniteIsBounded
<1> DEFINE N == {n - x : x \in S}
<1>2. N \in SUBSET Nat /\ N # {}
  <2>1. ASSUME NEW x \in S PROVE n - x \in Nat
    BY <1>1
  <2>2. PICK x \in S : TRUE
    OBVIOUS
  <2>3. n - x \in N
    BY <2>2
  <2> QED BY <2>1, <2>3
<1>3. PICK m \in N : \A y \in N : m <= y
  BY <1>2, LeastOf
<1>4. n - m \in S /\ \A y \in S : y <= n - m
  <2>1. PICK z \in S : m = n - z
    BY <1>3
  <2>2. z \in Int /\ n - m = z
    BY <2>1
  <2>3. ASSUME NEW y \in S PROVE y <= z
    <3>1. n - y \in N /\ y \in Int
      OBVIOUS
    <3>2. n - z <= n - y
      BY <3>1, <1>3, <2>1
    <3> QED BY <3>1, <3>2, <2>2
  <2> QED BY <2>2, <2>3
<1> QED BY <1>4 DEF Max

(* Dividing is the inverse of multiplying. *)
LEMMA ProductsGrow ==
  ASSUME NEW w \in Nat \ {0}, NEW x \in Int, NEW y \in Int, x * w <= y * w
  PROVE  x <= y
OBVIOUS

LEMMA ProductsTell ==
  ASSUME NEW w \in Nat \ {0}, NEW x \in Int, NEW y \in Int, x * w < y * w
  PROVE  x < y
<1> SUFFICES ASSUME y <= x PROVE FALSE
  OBVIOUS
<1>1. PICK d \in Nat : x = y + d
  <2>1. x - y \in Nat /\ x = y + (x - y)
    OBVIOUS
  <2> QED BY <2>1
<1>2. (y + d) * w = y * w + d * w /\ d * w \in Nat /\ y * w \in Int
  OBVIOUS
<1> QED BY <1>1, <1>2

LEMMA Quotient ==
  ASSUME NEW w \in Nat \ {0}, NEW a \in Int
  PROVE  /\ a \div w \in Int
         /\ (a \div w) * w <= a
         /\ a < (a \div w + 1) * w
OBVIOUS

LEMMA Exactly ==
  ASSUME NEW w \in Nat \ {0}, NEW i \in Int
  PROVE  (i * w) \div w = i
OBVIOUS

-----------------------------------------------------------------------------
(* The heatmap. *)

(* The inductive invariant: the playhead can be past the last frame only while no timer counts  *)
(* with frames that are gone.                                                                   *)
HeatShapes ==
  /\ snapshots \in FrameLists /\ playheadIndex \in Nat
  /\ zoomX \in Nat /\ panX \in Int /\ drag \in Int \cup {None} /\ currentPrice \in Int
  /\ armed \in Nat \cup {None} /\ ratio \in Ratios

HeatIInv ==
  /\ HeatShapes
  /\ snapshots # << >> =>
       /\ playheadIndex <= Len(snapshots)
       /\ armed # None /\ armed > Len(snapshots) => playheadIndex < Len(snapshots)

(* A size in pixels of the device is no smaller than in pixels of the page where these are      *)
(* coarser, and no larger where they are finer.                                                 *)
LEMMA Measured ==
  ASSUME NEW size \in Nat, NEW r \in Nat
  PROVE  /\ (size * r) \div 1000 \in Int
         /\ r >= 1000 => (size * r) \div 1000 >= size
         /\ r <= 1000 => (size * r) \div 1000 <= size
<1> DEFINE a == size * r
           q == a \div 1000
<1>1. a \in Nat
  OBVIOUS
<1>2. q \in Int /\ q * 1000 <= a /\ a < (q + 1) * 1000
  <2> HIDE DEF a
  <2> QED BY <1>1
<1>3. r >= 1000 => a >= size * 1000
  <2> SUFFICES ASSUME r >= 1000 PROVE size * r >= size * 1000
    OBVIOUS
  <2>1. PICK d \in Nat : r = 1000 + d
    <3>1. r - 1000 \in Nat /\ r = 1000 + (r - 1000)
      OBVIOUS
    <3> QED BY <3>1
  <2>2. size * (1000 + d) = size * 1000 + size * d /\ size * d \in Nat
    OBVIOUS
  <2> QED BY <2>1, <2>2
<1>4. r <= 1000 => a <= size * 1000
  <2> SUFFICES ASSUME r <= 1000 PROVE size * r <= size * 1000
    OBVIOUS
  <2>1. PICK d \in Nat : r + d = 1000
    <3>1. 1000 - r \in Nat /\ r + (1000 - r) = 1000
      OBVIOUS
    <3> QED BY <3>1
  <2>2. size * (r + d) = size * r + size * d /\ size * d \in Nat /\ size * r \in Nat
    OBVIOUS
  <2> QED BY <2>1, <2>2
<1> HIDE DEF a, q
<1> QED BY <1>1, <1>2, <1>3, <1>4 DEF a, q

LEMMA Sizes ==
  ASSUME HeatShapes
  PROVE  /\ plotWidth \in Int /\ plotHeight \in Int /\ hoverWidth \in Int /\ hoverHeight \in Nat \ {0}
         /\ ratio >= 1000 => plotWidth >= hoverWidth /\ plotHeight >= hoverHeight
         /\ ratio <= 1000 => plotWidth <= hoverWidth /\ plotHeight <= hoverHeight
<1>1. /\ Width \in Nat /\ Height \in Nat /\ rightMargin \in Nat /\ bottomMargin \in Nat
      /\ Height > bottomMargin /\ ratio \in Nat
  BY HeatAssumption DEF HeatShapes
<1>2. PICK w \in Int, h \in Int : w = (Width * ratio) \div 1000 /\ h = (Height * ratio) \div 1000
  BY <1>1, Measured
<1>3. /\ ratio >= 1000 => w >= Width /\ h >= Height
      /\ ratio <= 1000 => w <= Width /\ h <= Height
  BY <1>1, <1>2, Measured
<1>4. /\ plotWidth = w - rightMargin /\ plotHeight = h - bottomMargin
      /\ hoverWidth = Width - rightMargin /\ hoverHeight = Height - bottomMargin
  BY <1>2 DEF plotWidth, plotHeight, hoverWidth, hoverHeight
<1> QED BY <1>1, <1>3, <1>4

LEMMA AColumn ==
  ASSUME HeatShapes, NEW width \in Int
  PROVE  /\ Column(width) \in Nat \ {0}
         /\ \A wider \in Int : width <= wider => Column(width) <= Column(wider)
<1>1. PICK n \in Nat \ {0} : n = Max({1, Len(snapshots)})
  <2>1. Len(snapshots) \in Nat
    BY LenProperties DEF HeatShapes, FrameLists
  <2> QED BY <2>1, GreatestOfTwo
<1>2. zoomX \in Nat
  BY DEF HeatShapes
<1> DEFINE part(v) == (v * zoomX) \div n
<1>3. ASSUME NEW v \in Int PROVE part(v) \in Int /\ Column(v) = IF 3000 >= part(v) THEN 3000 ELSE part(v)
  <2>1. v * zoomX \in Int
    BY <1>2
  <2>2. part(v) \in Int
    <3> DEFINE a == v * zoomX
    <3>1. a \in Int
      BY <2>1
    <3> HIDE DEF a
    <3>2. a \div n \in Int
      BY <1>1, <3>1, Quotient
    <3> QED BY <3>2 DEF a
  <2>3. Column(v) = Max({3000, part(v)})
    BY <1>1 DEF Column
  <2> HIDE DEF part
  <2> QED BY <2>2, <2>3, GreatestOfTwo
<1>4. ASSUME NEW wider \in Int, width <= wider PROVE part(width) <= part(wider)
  <2> DEFINE a == width * zoomX
             b == wider * zoomX
  <2>1. a \in Int /\ b \in Int /\ a <= b
    <3>1. PICK d \in Nat : wider = width + d
      <4>1. wider - width \in Nat /\ wider = width + (wider - width)
        BY <1>4
      <4> QED BY <4>1
    <3>2. (width + d) * zoomX = width * zoomX + d * zoomX /\ d * zoomX \in Nat /\ width * zoomX \in Int
      BY <1>2
    <3> QED BY <3>1, <3>2
  <2> HIDE DEF a, b
  <2>2. PICK p \in Int, q \in Int : p = a \div n /\ q = b \div n
    BY <1>1, <2>1, Quotient
  <2>3. p * n <= a /\ b < (q + 1) * n
    BY <1>1, <2>1, <2>2, Quotient
  <2>4. p * n < (q + 1) * n
    <3>1. p * n \in Int /\ (q + 1) * n \in Int
      BY <1>1, <2>2
    <3> QED BY <2>1, <2>3, <3>1
  <2>5. p < q + 1
    <3> SUFFICES ASSUME q + 1 <= p PROVE FALSE
      BY <2>2
    <3>1. (q + 1) * n <= p * n
      <4>1. PICK d \in Nat : p = q + 1 + d
        <5>1. p - (q + 1) \in Nat /\ p = q + 1 + (p - (q + 1))
          BY <2>2
        <5> QED BY <5>1
      <4>2. (q + 1 + d) * n = (q + 1) * n + d * n /\ d * n \in Nat /\ (q + 1) * n \in Int
        BY <1>1, <2>2
      <4> QED BY <4>1, <4>2
    <3>2. (q + 1) * n \in Int /\ p * n \in Int
      BY <1>1, <2>2
    <3> QED BY <2>4, <3>1, <3>2
  <2> QED BY <2>2, <2>5 DEF a, b
<1> HIDE DEF part
<1>5. Column(width) \in Nat \ {0}
  BY <1>3
<1>6. ASSUME NEW wider \in Int, width <= wider PROVE Column(width) <= Column(wider)
  <2>1. /\ part(width) \in Int /\ part(wider) \in Int /\ part(width) <= part(wider)
        /\ Column(width) = IF 3000 >= part(width) THEN 3000 ELSE part(width)
        /\ Column(wider) = IF 3000 >= part(wider) THEN 3000 ELSE part(wider)
    BY <1>3, <1>4, <1>6
  <2> QED BY <2>1
<1> QED BY <1>5, <1>6

LEMMA ColumnsAreWide ==
  ASSUME HeatShapes
  PROVE  colWidth \in Nat \ {0}
BY Sizes, AColumn DEF colWidth

(* What reaches into the plot is between the first and the last frame that the widget looks at. *)
LEMMA InPlotIsLookedAt ==
  ASSUME HeatShapes, NEW i \in Nat, InPlot(i)
  PROVE  /\ i >= firstVisibleIdx
         /\ i <= Ceil(plotWidth * 1000 - panX, colWidth) + 1
         /\ firstVisibleIdx \in Nat
         /\ Ceil(plotWidth * 1000 - panX, colWidth) \in Int
<1> DEFINE w == colWidth
<1>1. w \in Nat \ {0}
  BY ColumnsAreWide
<1>2. i * w + panX + w >= 0 /\ i * w + panX <= plotWidth * 1000
  BY DEF InPlot, snapX
<1>3. panX \in Int /\ plotWidth * 1000 \in Int
  BY Sizes DEF HeatShapes
<1> DEFINE a == -panX
           b == plotWidth * 1000 - panX
<1>4. a \in Int /\ b \in Int /\ -b \in Int
  BY <1>3
<1>5. /\ a \div w \in Int /\ (a \div w) * w <= a
      /\ (-b) \div w \in Int /\ ((-b) \div w) * w <= -b
  <2> HIDE DEF a, b, w
  <2> QED BY <1>1, <1>4, Quotient
<1> DEFINE p == a \div w
           q == (-b) \div w
<1>6. a <= (i + 1) * w /\ i * w <= b
  <2>1. i * w \in Int /\ (i + 1) * w = i * w + w
    BY <1>1
  <2> QED BY <1>1, <1>2, <1>3, <2>1
<1>7. p <= i + 1
  <2> HIDE DEF w
  <2>1. a <= (i + 1) * w /\ p * w <= a /\ p \in Int /\ w \in Nat \ {0} /\ a \in Int
    BY <1>1, <1>4, <1>5, <1>6
  <2> HIDE DEF a, p
  <2>2. p * w <= (i + 1) * w
    <3>1. p * w \in Int /\ (i + 1) * w \in Int
      BY <2>1
    <3> QED BY <2>1, <3>1
  <2> QED BY <2>1, <2>2, ProductsGrow
<1>8. i <= -q
  <2> HIDE DEF w
  <2>1. i * w <= b /\ q * w <= -b /\ q \in Int /\ w \in Nat \ {0} /\ b \in Int
    BY <1>1, <1>4, <1>5, <1>6
  <2> HIDE DEF b, q
  <2>2. i * w <= (-q) * w
    <3>1. i * w \in Int /\ q * w \in Int /\ (-q) * w = -(q * w)
      BY <2>1
    <3> QED BY <2>1, <3>1
  <2> QED BY <2>1, <2>2, ProductsGrow
<1>9. p \in Int /\ q \in Int
  BY <1>5
<1>10. firstVisibleIdx = Max({0, p - 1}) /\ Ceil(plotWidth * 1000 - panX, colWidth) = -q
  BY DEF firstVisibleIdx, Ceil
<1> HIDE DEF p, q, w, a, b
<1> QED BY <1>7, <1>8, <1>9, <1>10, GreatestOfTwo

LEMMA DrawnIsInPlot ==
  ASSUME HeatShapes, snapshots # << >>
  PROVE  Drawn = {i \in 0..(Len(snapshots) - 1) : InPlot(i) /\ (isReplayMode => i <= playheadIndex)}
<1> DEFINE n == Len(snapshots)
           c == Ceil(plotWidth * 1000 - panX, colWidth)
<1>1. n \in Nat /\ playheadIndex \in Nat
  BY LenProperties DEF HeatShapes, FrameLists
<1>2. \A i \in Nat : InPlot(i) => i >= firstVisibleIdx /\ i <= c + 1 /\ firstVisibleIdx \in Nat /\ c \in Int
  BY InPlotIsLookedAt
<1>3. c \in Int /\ firstVisibleIdx \in Nat
  <2>1. colWidth \in Nat \ {0} /\ panX \in Int /\ plotWidth * 1000 - panX \in Int
    BY ColumnsAreWide, Sizes DEF HeatShapes
  <2> DEFINE b == plotWidth * 1000 - panX
             w == colWidth
             p == (-panX) \div w
  <2>2. -b \in Int /\ -panX \in Int /\ w \in Nat \ {0}
    BY <2>1
  <2>3. (-b) \div w \in Int /\ p \in Int
    <3> HIDE DEF b, w
    <3> QED BY <2>2, Quotient
  <2>4. c = -((-b) \div w) /\ firstVisibleIdx = Max({0, p - 1})
    BY DEF Ceil, firstVisibleIdx
  <2> HIDE DEF b, w, p, c
  <2> QED BY <2>3, <2>4, GreatestOfTwo
<1>4. lastVisibleIdx = Min({n - 1, c + 1})
  BY DEF lastVisibleIdx
<1> HIDE DEF n, c
<1>5. lastVisibleIdx = (IF n - 1 <= c + 1 THEN n - 1 ELSE c + 1) /\ lastVisibleIdx \in Int
  BY <1>1, <1>3, <1>4, LeastOfTwo
<1>6. maxRenderIdx = (IF isReplayMode /\ playheadIndex <= lastVisibleIdx THEN playheadIndex ELSE lastVisibleIdx)
  <2>1. Min({lastVisibleIdx, playheadIndex}) = IF lastVisibleIdx <= playheadIndex THEN lastVisibleIdx ELSE playheadIndex
    BY <1>1, <1>5, LeastOfTwo
  <2>2. CASE isReplayMode
    <3>1. maxRenderIdx = Min({lastVisibleIdx, playheadIndex})
      BY <2>2 DEF maxRenderIdx
    <3> QED BY <3>1, <2>1, <2>2, <1>1, <1>5
  <2>3. CASE ~isReplayMode
    BY <2>3 DEF maxRenderIdx
  <2> QED BY <2>2, <2>3
<1>7. ASSUME NEW i \in Drawn
      PROVE  i \in 0..(n - 1) /\ InPlot(i) /\ (isReplayMode => i <= playheadIndex)
  BY <1>1, <1>3, <1>5, <1>6 DEF Drawn
<1>8. ASSUME NEW i \in 0..(n - 1), InPlot(i), isReplayMode => i <= playheadIndex
      PROVE  i \in Drawn
  BY <1>1, <1>2, <1>3, <1>5, <1>6, <1>8 DEF Drawn
<1> QED BY <1>7, <1>8 DEF n

(* What is drawn is also what the axis is made for. *)
LEMMA DrawnIsVisible ==
  ASSUME HeatShapes, snapshots # << >>, NEW i \in Drawn
  PROVE  /\ i + 1 \in DOMAIN snapshots
         /\ i + 1 \in DOMAIN Visible
         /\ Visible[i + 1] = snapshots[i + 1]
<1> DEFINE n == Len(snapshots)
<1>1. n \in Nat /\ playheadIndex \in Nat /\ snapshots \in Seq(KeptFrames) /\ DOMAIN snapshots = 1..n
  BY LenProperties DEF HeatShapes, FrameLists
<1>2. i \in 0..(n - 1) /\ (isReplayMode => i <= playheadIndex)
  BY DrawnIsInPlot
<1>3. CASE ~isReplayMode
  <2>1. Visible = snapshots
    BY <1>3 DEF Visible
  <2> QED BY <1>1, <1>2, <2>1
<1>4. CASE isReplayMode
  <2> DEFINE m == Min({n, Max({1, playheadIndex + 1})})
  <2>1. m \in Nat /\ m <= n /\ i + 1 <= m
    <3>1. Max({1, playheadIndex + 1}) = playheadIndex + 1
      BY <1>1, GreatestOfTwo
    <3>2. Min({n, playheadIndex + 1}) = IF n <= playheadIndex + 1 THEN n ELSE playheadIndex + 1
      BY <1>1, LeastOfTwo
    <3>3. m = IF n <= playheadIndex + 1 THEN n ELSE playheadIndex + 1
      BY <3>1, <3>2
    <3> HIDE DEF m, n
    <3> QED BY <1>1, <1>2, <1>4, <3>3
  <2>2. Visible = SubSeq(snapshots, 1, m)
    BY <1>4 DEF Visible
  <2> HIDE DEF m
  <2>3. Len(Visible) = m /\ \A j \in 1..m : Visible[j] = snapshots[j]
    BY <1>1, <2>1, <2>2
  <2>4. DOMAIN Visible = 1..m
    BY <2>1, <2>2, <1>1
  <2> QED BY <1>1, <1>2, <2>1, <2>3, <2>4
<1> QED BY <1>3, <1>4

(* A union of finitely many finite sets is finite. *)
LEMMA ManyAreFinite ==
  ASSUME NEW n \in Nat, NEW f, \A i \in 1..n : IsFiniteSet(f[i])
  PROVE  IsFiniteSet(UNION {f[i] : i \in 1..n})
<1> DEFINE U(k) == UNION {f[i] : i \in 1..k}
           Bad == {k \in 0..n : ~IsFiniteSet(U(k))}
<1>1. Bad = {}
  <2> SUFFICES ASSUME Bad # {} PROVE FALSE
    OBVIOUS
  <2>1. PICK k \in Bad : \A j \in Bad : k <= j
    <3>1. Bad \in SUBSET Nat
      OBVIOUS
    <3> HIDE DEF Bad
    <3> QED BY <3>1, LeastOf
  <2>2. k # 0
    <3>1. U(0) = {}
      OBVIOUS
    <3> QED BY <3>1, <2>1, FS_EmptySet
  <2>3. k - 1 \in 0..n /\ k - 1 \notin Bad /\ k \in 1..n
    <3>1. k \in Nat /\ k <= n
      BY <2>1
    <3>2. k - 1 \in 0..n /\ ~(k <= k - 1) /\ k \in 1..n
      BY <3>1, <2>2
    <3>3. k - 1 \notin Bad
      <4> HIDE DEF Bad
      <4> QED BY <3>2, <2>1
    <3> QED BY <3>2, <3>3
  <2>4. U(k) = U(k - 1) \cup f[k]
    <3>1. 1..k = 1..(k - 1) \cup {k}
      BY <2>3
    <3> QED BY <3>1
  <2>5. IsFiniteSet(U(k - 1)) /\ IsFiniteSet(f[k])
    <3> HIDE DEF U
    <3> QED BY <2>3
  <2>6. IsFiniteSet(U(k - 1) \cup f[k])
    <3> HIDE DEF U
    <3> QED BY <2>5, FS_Union
  <2>7. IsFiniteSet(U(k))
    <3> HIDE DEF U
    <3> QED BY <2>4, <2>6, Zenon
  <2> QED BY <2>1, <2>7
<1> QED BY <1>1

(* The axis reaches over all the levels that are drawn. *)
LEMMA LevelsAreOnTheAxis ==
  ASSUME HeatShapes, snapshots # << >>, NEW x \in LevelsOf(Visible)
  PROVE  /\ x.level.price >= Bounds.min /\ x.level.price <= Bounds.max
         /\ x.level.price \in Int /\ Bounds.min \in Int /\ Bounds.max \in Int
<1> DEFINE levels == LevelsOf(Visible)
           prices == {l.level.price : l \in levels}
           bidsOf(f) == {l.price : l \in f.bids}
           asksOf(f) == {l.price : l \in f.asks}
           p == [i \in DOMAIN Visible |-> bidsOf(Visible[i]) \cup asksOf(Visible[i])]
<1>1. PICK n \in Nat : DOMAIN Visible = 1..n /\ \A i \in 1..n : Visible[i] \in KeptFrames
  <2>1. snapshots \in Seq(KeptFrames) /\ Len(snapshots) \in Nat /\ playheadIndex \in Nat
    BY LenProperties DEF HeatShapes, FrameLists
  <2>2. CASE ~isReplayMode
    <3>1. Visible = snapshots
      BY <2>2 DEF Visible
    <3> QED BY <3>1, <2>1
  <2>3. CASE isReplayMode
    <3> DEFINE m == Min({Len(snapshots), Max({1, playheadIndex + 1})})
    <3>1. m \in Nat /\ m <= Len(snapshots)
      <4>1. Max({1, playheadIndex + 1}) = playheadIndex + 1
        BY <2>1, GreatestOfTwo
      <4>2. Min({Len(snapshots), playheadIndex + 1})
              = IF Len(snapshots) <= playheadIndex + 1 THEN Len(snapshots) ELSE playheadIndex + 1
        BY <2>1, LeastOfTwo
      <4>3. m = Min({Len(snapshots), playheadIndex + 1})
        BY <4>1
      <4> HIDE DEF m
      <4> QED BY <2>1, <4>2, <4>3
    <3>2. Visible = SubSeq(snapshots, 1, m)
      BY <2>3 DEF Visible
    <3> HIDE DEF m
    <3>3. DOMAIN Visible = 1..m /\ \A i \in 1..m : Visible[i] \in KeptFrames
      BY <2>1, <3>1, <3>2
    <3> QED BY <3>1, <3>3
  <2> QED BY <2>2, <2>3
<1>2. ASSUME NEW i \in 1..n
      PROVE  IsFiniteSet(p[i]) /\ p[i] \subseteq Int
  <2>1. Visible[i].bids \in BookSides /\ Visible[i].asks \in BookSides
    BY <1>1 DEF KeptFrames
  <2>2. ASSUME NEW s \in BookSides
        PROVE  IsFiniteSet({l.price : l \in s}) /\ {l.price : l \in s} \subseteq Int
    <3>1. IsFiniteSet(s) /\ s \subseteq Levels
      BY DEF BookSides
    <3> DEFINE f == [l \in s |-> l.price]
               T == {l.price : l \in s}
    <3>2. f \in Surjection(s, T)
      BY DEF Surjection
    <3> HIDE DEF f
    <3>3. IsFiniteSet(T)
      <4> HIDE DEF T
      <4> QED BY <3>1, <3>2, FS_Surjection
    <3> QED BY <3>1, <3>3 DEF Levels
  <2> QED BY <1>1, <2>1, <2>2, FS_Union
<1>3. prices = UNION {p[i] : i \in 1..n}
  <2>1. ASSUME NEW i \in 1..n, NEW l \in Visible[i].bids PROVE l.price \in prices
    <3>1. [frame |-> i, side |-> "bid", level |-> l] \in levels
      BY <1>1 DEF LevelsOf
    <3> HIDE DEF levels
    <3> QED BY <3>1
  <2>2. ASSUME NEW i \in 1..n, NEW l \in Visible[i].asks PROVE l.price \in prices
    <3>1. [frame |-> i, side |-> "ask", level |-> l] \in levels
      BY <1>1 DEF LevelsOf
    <3> HIDE DEF levels
    <3> QED BY <3>1
  <2>3. ASSUME NEW y \in levels
        PROVE  y.level.price \in UNION {p[i] : i \in 1..n}
    <3>1. PICK i \in 1..n : \/ \E l \in Visible[i].bids : y = [frame |-> i, side |-> "bid", level |-> l]
                            \/ \E l \in Visible[i].asks : y = [frame |-> i, side |-> "ask", level |-> l]
      BY <1>1 DEF LevelsOf
    <3>2. y.level.price \in p[i]
      BY <1>1, <3>1
    <3> HIDE DEF p
    <3> QED BY <3>2
  <2>4. ASSUME NEW i \in 1..n, NEW q \in p[i] PROVE q \in prices
    <3>1. q \in bidsOf(Visible[i]) \/ q \in asksOf(Visible[i])
      BY <1>1
    <3> HIDE DEF prices
    <3> QED BY <3>1, <2>1, <2>2
  <2> HIDE DEF p, levels
  <2> QED BY <2>3, <2>4
<1>4. IsFiniteSet(prices) /\ prices \in SUBSET Int
  <2>1. \A i \in 1..n : IsFiniteSet(p[i]) /\ p[i] \subseteq Int
    BY <1>2
  <2> HIDE DEF p, prices
  <2> QED BY <1>1, <1>3, <2>1, ManyAreFinite
<1>5. x.level.price \in prices
  OBVIOUS
<1>6. Min(prices) <= x.level.price /\ x.level.price <= Max(prices) /\ Min(prices) \in Int /\ Max(prices) \in Int
  <2> HIDE DEF prices
  <2> QED BY <1>4, <1>5, LeastIsLeast, GreatestIsGreatest
<1>7. /\ Bounds.min = IF currentPrice > 0 /\ currentPrice < Min(prices) THEN currentPrice - 10 ELSE Min(prices)
      /\ Bounds.max = IF currentPrice > 0 /\ currentPrice > Max(prices) THEN currentPrice + 10 ELSE Max(prices)
  <2>1. prices # {}
    BY <1>5
  <2> QED BY <2>1 DEF Bounds
<1>8. currentPrice \in Int /\ x.level.price \in Int
  BY <1>4, <1>5 DEF HeatShapes
<1> HIDE DEF prices
<1> QED BY <1>6, <1>7, <1>8

(* The levels of a side, as they are drawn. *)
Drawing(levels, side) == {[side |-> side, price |-> l.price, wall |-> isWall(l.size)] : l \in levels}

LEMMA AsManyAsLevels ==
  ASSUME NEW levels \in BookSides, NEW side
  PROVE  IsFiniteSet(Drawing(levels, side)) /\ Cardinality(Drawing(levels, side)) = Cardinality(levels)
<1> DEFINE T == Drawing(levels, side)
           f == [l \in levels |-> [side |-> side, price |-> l.price, wall |-> isWall(l.size)]]
<1>1. IsFiniteSet(levels) /\ \A l, m \in levels : l.price = m.price => l = m
  BY DEF BookSides, OnePerPrice
<1>2. f \in [levels -> T]
  BY DEF Drawing
<1>3. ASSUME NEW l \in levels, NEW m \in levels, f[l] = f[m] PROVE l = m
  <2>1. f[l].price = l.price /\ f[m].price = m.price
    OBVIOUS
  <2> QED BY <2>1, <1>1, <1>3
<1>4. \A c \in T : \E l \in levels : f[l] = c
  BY DEF Drawing
<1>5. f \in Bijection(levels, T)
  <2> HIDE DEF f, T
  <2> QED BY <1>2, <1>3, <1>4 DEF Bijection, Injection, Surjection, IsInjective
<1>6. ExistsBijection(levels, T)
  BY <1>5 DEF ExistsBijection
<1> QED BY <1>1, <1>6, FS_Bijection DEF T

LEMMA CellsAreTheLevels ==
  ASSUME HeatShapes, snapshots # << >>, NEW i \in Drawn
  PROVE  Cells(i) = Drawing(snapshots[i + 1].bids, "bid") \cup Drawing(snapshots[i + 1].asks, "ask")
<1> DEFINE f == snapshots[i + 1]
           Cell(x) == [side |-> x.side, price |-> x.level.price, wall |-> isWall(x.level.size)]
<1>1. i + 1 \in DOMAIN snapshots /\ i + 1 \in DOMAIN Visible /\ Visible[i + 1] = f
  BY DrawnIsVisible
<1>2. ASSUME NEW l \in f.bids PROVE [side |-> "bid", price |-> l.price, wall |-> isWall(l.size)] \in Cells(i)
  <2> DEFINE x == [frame |-> i + 1, side |-> "bid", level |-> l]
  <2>1. x \in LevelsOf(Visible) /\ x \in LevelsOf(snapshots)
    BY <1>1 DEF LevelsOf
  <2>2. x.level.price >= Bounds.min /\ x.level.price <= Bounds.max
    BY <2>1, LevelsAreOnTheAxis
  <2>3. Cell(x) \in Cells(i)
    BY <2>1, <2>2 DEF Cells
  <2> QED BY <2>3
<1>3. ASSUME NEW l \in f.asks PROVE [side |-> "ask", price |-> l.price, wall |-> isWall(l.size)] \in Cells(i)
  <2> DEFINE x == [frame |-> i + 1, side |-> "ask", level |-> l]
  <2>1. x \in LevelsOf(Visible) /\ x \in LevelsOf(snapshots)
    BY <1>1 DEF LevelsOf
  <2>2. x.level.price >= Bounds.min /\ x.level.price <= Bounds.max
    BY <2>1, LevelsAreOnTheAxis
  <2>3. Cell(x) \in Cells(i)
    BY <2>1, <2>2 DEF Cells
  <2> QED BY <2>3
<1>4. ASSUME NEW c \in Cells(i)
      PROVE  c \in Drawing(f.bids, "bid") \cup Drawing(f.asks, "ask")
  <2>1. PICK x \in LevelsOf(snapshots) : x.frame = i + 1 /\ c = Cell(x)
    BY DEF Cells
  <2>2. PICK j \in DOMAIN snapshots : \/ \E l \in snapshots[j].bids : x = [frame |-> j, side |-> "bid", level |-> l]
                                      \/ \E l \in snapshots[j].asks : x = [frame |-> j, side |-> "ask", level |-> l]
    BY <2>1 DEF LevelsOf
  <2>3. j = i + 1
    BY <2>1, <2>2
  <2>4. CASE \E l \in f.bids : x = [frame |-> j, side |-> "bid", level |-> l]
    <3>1. PICK l \in f.bids : x = [frame |-> j, side |-> "bid", level |-> l]
      BY <2>4
    <3>2. x.side = "bid" /\ x.level = l
      BY <3>1
    <3>3. c = [side |-> "bid", price |-> l.price, wall |-> isWall(l.size)]
      BY <3>2, <2>1
    <3>4. c \in Drawing(f.bids, "bid")
      BY <3>3 DEF Drawing
    <3> QED BY <3>4
  <2>5. CASE \E l \in f.asks : x = [frame |-> j, side |-> "ask", level |-> l]
    <3>1. PICK l \in f.asks : x = [frame |-> j, side |-> "ask", level |-> l]
      BY <2>5
    <3>2. x.side = "ask" /\ x.level = l
      BY <3>1
    <3>3. c = [side |-> "ask", price |-> l.price, wall |-> isWall(l.size)]
      BY <3>2, <2>1
    <3>4. c \in Drawing(f.asks, "ask")
      BY <3>3 DEF Drawing
    <3> QED BY <3>4
  <2> QED BY <2>2, <2>3, <2>4, <2>5
<1>5. Drawing(f.bids, "bid") \cup Drawing(f.asks, "ask") \subseteq Cells(i)
  BY <1>2, <1>3 DEF Drawing
<1> QED BY <1>4, <1>5

(* The frame the pointer finds on a column: the one that is drawn there, a later one where the   *)
(* picture is finer than the page, an earlier one where it is coarser.                          *)
LEMMA TheFrameBelow ==
  ASSUME HeatShapes, NEW i \in 0..(Len(snapshots) - 1), NEW x \in PlacesOn(i), NEW found,
         found = Max({0, Min({Len(snapshots) - 1, (x - panX) \div Column(hoverWidth)})})
  PROVE  /\ found \in 0..(Len(snapshots) - 1)
         /\ ratio >= 1000 => found >= i
         /\ ratio <= 1000 => found <= i
<1>1. PICK w \in Nat \ {0} : w = colWidth
  BY ColumnsAreWide
<1>2. PICK h \in Nat \ {0} : h = Column(hoverWidth)
  BY Sizes, AColumn
<1>3. (ratio >= 1000 => h <= w) /\ (ratio <= 1000 => w <= h)
  <2>1. /\ plotWidth \in Int /\ hoverWidth \in Int
        /\ ratio >= 1000 => hoverWidth <= plotWidth
        /\ ratio <= 1000 => plotWidth <= hoverWidth
    BY Sizes
  <2>2. hoverWidth <= plotWidth => Column(hoverWidth) <= Column(plotWidth)
    BY <2>1, AColumn
  <2>3. plotWidth <= hoverWidth => Column(plotWidth) <= Column(hoverWidth)
    BY <2>1, AColumn
  <2> QED BY <1>1, <1>2, <2>1, <2>2, <2>3 DEF colWidth
<1>4. Len(snapshots) \in Nat /\ panX \in Int /\ ratio \in Nat
  BY LenProperties, HeatAssumption DEF HeatShapes, FrameLists
<1>5. PICK y \in Int : y = x - panX /\ y >= i * w /\ y < i * w + w
  <2>1. snapX(i) = i * w + panX /\ i * w \in Int
    BY <1>1, <1>4 DEF snapX
  <2>2. x \in Int /\ x >= i * w + panX /\ x < i * w + panX + w
    BY <1>1, <1>4, <2>1 DEF PlacesOn
  <2>3. x - panX \in Int /\ x - panX >= i * w /\ x - panX < i * w + w
    BY <1>1, <1>4, <2>1, <2>2
  <2> QED BY <2>3
<1>6. PICK q \in Int : q = y \div h /\ q * h <= y /\ y < (q + 1) * h
  BY <1>2, Quotient
<1>7. ratio >= 1000 => q >= i
  <2> SUFFICES ASSUME ratio >= 1000 PROVE i < q + 1
    BY <1>6
  <2>1. PICK d \in Nat : w = h + d
    <3>1. w - h \in Nat /\ w = h + (w - h)
      BY <1>1, <1>2, <1>3
    <3> QED BY <3>1
  <2>2. i * (h + d) = i * h + i * d /\ i * h \in Int /\ i * d \in Nat
    BY <1>2, <2>1
  <2>3. i * h <= y
    BY <1>5, <2>1, <2>2
  <2>4. i * h < (q + 1) * h
    <3>1. (q + 1) * h \in Int /\ y < (q + 1) * h
      BY <1>2, <1>6
    <3> QED BY <1>5, <2>2, <2>3, <3>1
  <2> QED BY <1>2, <1>6, <2>4, ProductsTell
<1>8. ratio <= 1000 => q <= i
  <2> SUFFICES ASSUME ratio <= 1000 PROVE q < i + 1
    BY <1>6
  <2>1. PICK d \in Nat : h = w + d
    <3>1. h - w \in Nat /\ h = w + (h - w)
      BY <1>1, <1>2, <1>3
    <3> QED BY <3>1
  <2>2. /\ (i + 1) * (w + d) = i * w + w + (i + 1) * d
        /\ i * w \in Int /\ (i + 1) * d \in Nat
    BY <1>1, <2>1
  <2>3. y < (i + 1) * h
    BY <1>1, <1>5, <2>1, <2>2
  <2>4. q * h < (i + 1) * h
    <3>1. (i + 1) * h \in Int
      BY <1>2
    <3>2. q * h \in Int /\ q * h <= y
      BY <1>2, <1>6
    <3> QED BY <1>5, <2>3, <3>1, <3>2
  <2> QED BY <1>2, <1>6, <2>4, ProductsTell
<1>9. Min({Len(snapshots) - 1, q}) = IF Len(snapshots) - 1 <= q THEN Len(snapshots) - 1 ELSE q
  BY <1>4, <1>6, LeastOfTwo
<1>10. PICK m \in Int : m = Min({Len(snapshots) - 1, q}) /\ m = IF Len(snapshots) - 1 <= q THEN Len(snapshots) - 1 ELSE q
  BY <1>4, <1>6, <1>9
<1>11. found = Max({0, m})
  BY <1>2, <1>5, <1>6, <1>10
<1>12. found = IF 0 >= m THEN 0 ELSE m
  BY <1>11, GreatestOfTwo
<1> QED BY <1>4, <1>7, <1>8, <1>10, <1>12

(* The price the pointer reads on a level: the one that is drawn there, a lower one where the    *)
(* picture is finer than the page, a higher one where it is coarser.                            *)
LEMMA ThePriceBelow ==
  ASSUME HeatShapes, NEW p \in Int, Bounds.min \in Int, Bounds.max \in Int, p <= Bounds.max
  PROVE  /\ ReadPrice(p) \in Int
         /\ ratio >= 1000 => ReadPrice(p) <= p
         /\ ratio <= 1000 => ReadPrice(p) >= p
<1>1. PICK H \in Nat \ {0}, D \in Int : H = hoverHeight /\ D = plotHeight
  BY Sizes
<1>2. (ratio >= 1000 => D >= H) /\ (ratio <= 1000 => D <= H)
  BY <1>1, Sizes
<1>3. PICK top \in Int : /\ top = IF Bounds.max = Bounds.min THEN Bounds.min + Unit ELSE Bounds.max
                         /\ top >= p
  <2>1. Unit \in Nat
    BY HeatAssumption
  <2> QED BY <2>1
<1>4. PICK k \in Nat : top = p + k
  <2>1. top - p \in Nat /\ top = p + (top - p)
    BY <1>3
  <2> QED BY <2>1
<1> DEFINE W == 2 * H
           N == 2 * H * top - 2 * D * (top - p) + H
<1>5. W \in Nat \ {0}
  OBVIOUS
<1>6. PICK a \in Int, b \in Int, c \in Int : a = H * k /\ b = D * k /\ c = H * p
  <2>1. H * k \in Int /\ D * k \in Int /\ H * p \in Int
    OBVIOUS
  <2> QED BY <2>1
<1>7. N = 2 * c + 2 * a - 2 * b + H
  <2>1. 2 * H * (p + k) = 2 * (H * p) + 2 * (H * k)
    OBVIOUS
  <2>2. 2 * D * k = 2 * (D * k) /\ top - p = k
    BY <1>4
  <2>3. N = 2 * H * (p + k) - 2 * D * k + H
    BY <1>4, <2>2
  <2> HIDE DEF N
  <2> QED BY <1>6, <2>1, <2>2, <2>3
<1>8. p * W = 2 * c
  <2>1. p * (2 * H) = 2 * (H * p)
    OBVIOUS
  <2> QED BY <1>6, <2>1
<1>9. (D >= H => b >= a) /\ (D <= H => b <= a)
  <2>1. D >= H => D * k >= H * k
    <3> SUFFICES ASSUME D >= H PROVE D * k >= H * k
      OBVIOUS
    <3>1. PICK d \in Nat : D = H + d
      <4>1. D - H \in Nat /\ D = H + (D - H)
        OBVIOUS
      <4> QED BY <4>1
    <3>2. (H + d) * k = H * k + d * k /\ d * k \in Nat /\ H * k \in Int
      OBVIOUS
    <3> QED BY <3>1, <3>2
  <2>2. D <= H => D * k <= H * k
    <3> SUFFICES ASSUME D <= H PROVE D * k <= H * k
      OBVIOUS
    <3>1. PICK d \in Nat : H = D + d
      <4>1. H - D \in Nat /\ H = D + (H - D)
        OBVIOUS
      <4> QED BY <4>1
    <3>2. (D + d) * k = D * k + d * k /\ d * k \in Nat /\ D * k \in Int
      OBVIOUS
    <3> QED BY <3>1, <3>2
  <2> QED BY <1>6, <2>1, <2>2
<1>10. N \in Int
  <2> HIDE DEF N
  <2> QED BY <1>6, <1>7
<1>11. ReadPrice(p) = N \div W
  BY <1>1, <1>3 DEF ReadPrice
<1>12. W = H + H
  OBVIOUS
<1> HIDE DEF N, W
<1>13. PICK q \in Int : q = N \div W /\ q * W <= N /\ N < (q + 1) * W
  BY <1>5, <1>10, Quotient
<1>14. D >= H => q <= p
  <2> SUFFICES ASSUME D >= H PROVE q < p + 1
    BY <1>13
  <2>1. (p + 1) * W = p * W + W /\ q * W \in Int
    BY <1>5, <1>13
  <2>2. q * W < (p + 1) * W
    BY <1>5, <1>6, <1>7, <1>8, <1>9, <1>12, <1>13, <2>1
  <2> QED BY <1>5, <2>2, <1>13, ProductsTell
<1>15. D <= H => q >= p
  <2> SUFFICES ASSUME D <= H PROVE p < q + 1
    BY <1>13
  <2>1. (q + 1) * W \in Int
    BY <1>5, <1>13
  <2>2. p * W < (q + 1) * W
    BY <1>6, <1>7, <1>8, <1>9, <1>13, <2>1
  <2> QED BY <1>5, <2>2, <1>13, ProductsTell
<1> QED BY <1>2, <1>11, <1>13, <1>14, <1>15

LEMMA ThePictureIsTrue ==
  ASSUME HeatShapes
  PROVE  PictureIsTrue
<1> SUFFICES ASSUME snapshots # << >>
             PROVE  /\ Drawn = {i \in 0..(Len(snapshots) - 1) : InPlot(i) /\ (isReplayMode => i <= playheadIndex)}
                    /\ \A i \in Drawn :
                         /\ Cardinality(Cells(i)) = Cardinality(snapshots[i + 1].bids) + Cardinality(snapshots[i + 1].asks)
                         /\ \A c \in Cells(i), x \in PlacesOn(i) :
                              LET told == Pointed(x, c.price)
                              IN  /\ ratio >= 1000 => told.frame >= i /\ told.price <= c.price
                                  /\ ratio <= 1000 => told.frame <= i /\ told.price >= c.price
                                  /\ ratio = 1000 /\ c.wall => told.wall
                    /\ \A i \in GapStripes : \A j \in Drawn : j < i => snapshots[i + 1].time - snapshots[j + 1].time > 5000
  BY DEF PictureIsTrue
<1>1. Drawn = {i \in 0..(Len(snapshots) - 1) : InPlot(i) /\ (isReplayMode => i <= playheadIndex)}
  BY DrawnIsInPlot
<1>2. snapshots \in Seq(KeptFrames) /\ InOrder(snapshots) /\ Len(snapshots) \in Nat /\ DOMAIN snapshots = 1..Len(snapshots)
  BY LenProperties DEF HeatShapes, FrameLists
<1>3. ASSUME NEW i \in Drawn
      PROVE  /\ i \in 0..(Len(snapshots) - 1) /\ i + 1 \in DOMAIN snapshots /\ snapshots[i + 1] \in KeptFrames
             /\ snapshots[i + 1].bids \in BookSides /\ snapshots[i + 1].asks \in BookSides
             /\ snapshots[i + 1].time \in Int
  <2>1. i \in 0..(Len(snapshots) - 1)
    BY <1>1
  <2>2. i + 1 \in DOMAIN snapshots
    BY <2>1, <1>2
  <2>3. snapshots[i + 1] \in KeptFrames
    BY <2>2, <1>2
  <2> QED BY <2>1, <2>2, <2>3 DEF KeptFrames
<1>4. ASSUME NEW i \in Drawn
      PROVE  Cardinality(Cells(i)) = Cardinality(snapshots[i + 1].bids) + Cardinality(snapshots[i + 1].asks)
  <2> DEFINE B == Drawing(snapshots[i + 1].bids, "bid")
             A == Drawing(snapshots[i + 1].asks, "ask")
  <2>1. /\ IsFiniteSet(B) /\ Cardinality(B) = Cardinality(snapshots[i + 1].bids)
        /\ IsFiniteSet(A) /\ Cardinality(A) = Cardinality(snapshots[i + 1].asks)
    BY <1>3, AsManyAsLevels
  <2>2. B \cap A = {}
    <3>1. \A c \in B : c.side = "bid"
      BY DEF Drawing
    <3>2. \A c \in A : c.side = "ask"
      BY DEF Drawing
    <3> HIDE DEF A, B
    <3> QED BY <3>1, <3>2
  <2>3. Cells(i) = B \cup A
    BY CellsAreTheLevels
  <2> HIDE DEF A, B
  <2>4. Cardinality(B \cup A) = Cardinality(B) + Cardinality(A) - Cardinality(B \cap A)
    BY <2>1, FS_Union
  <2>5. Cardinality(B \cap A) = 0 /\ Cardinality(A) \in Nat /\ Cardinality(B) \in Nat
    BY <2>1, <2>2, FS_EmptySet, FS_CardinalityType
  <2> QED BY <2>1, <2>3, <2>4, <2>5
<1>5. ASSUME NEW i \in Drawn, NEW c \in Cells(i), NEW x \in PlacesOn(i)
      PROVE  /\ ratio >= 1000 => Pointed(x, c.price).frame >= i /\ Pointed(x, c.price).price <= c.price
             /\ ratio <= 1000 => Pointed(x, c.price).frame <= i /\ Pointed(x, c.price).price >= c.price
             /\ ratio = 1000 /\ c.wall => Pointed(x, c.price).wall
  <2> DEFINE f == snapshots[i + 1]
             At(levels, at) == {l.size : l \in {y \in levels : y.price = at}}
  <2>1. PICK found : found = Max({0, Min({Len(snapshots) - 1, (x - panX) \div Column(hoverWidth)})})
    OBVIOUS
  <2>2. /\ found \in 0..(Len(snapshots) - 1)
        /\ ratio >= 1000 => found >= i
        /\ ratio <= 1000 => found <= i
    <3>1. i \in 0..(Len(snapshots) - 1)
      BY <1>3
    <3> QED BY <3>1, <2>1, TheFrameBelow, Zenon
  <2>3. c.price \in Int /\ c.price <= Bounds.max /\ Bounds.min \in Int /\ Bounds.max \in Int
    <3>1. PICK l \in LevelsOf(snapshots) : l.frame = i + 1 /\ c.price = l.level.price
      BY DEF Cells
    <3>2. l \in LevelsOf(Visible)
      <4>1. i + 1 \in DOMAIN Visible /\ Visible[i + 1] = snapshots[i + 1]
        BY DrawnIsVisible
      <4>2. \/ \E m \in snapshots[i + 1].bids : l = [frame |-> i + 1, side |-> "bid", level |-> m]
            \/ \E m \in snapshots[i + 1].asks : l = [frame |-> i + 1, side |-> "ask", level |-> m]
        BY <3>1 DEF LevelsOf
      <4> QED BY <4>1, <4>2 DEF LevelsOf
    <3> QED BY <3>1, <3>2, LevelsAreOnTheAxis
  <2>4. PICK price \in Int : /\ price = ReadPrice(c.price)
                             /\ ratio >= 1000 => price <= c.price
                             /\ ratio <= 1000 => price >= c.price
    BY <2>3, ThePriceBelow
  <2>5. /\ Pointed(x, c.price).frame = found /\ Pointed(x, c.price).price = price
        /\ Pointed(x, c.price).wall
             = \E s \in At(snapshots[found + 1].bids, price) \cup At(snapshots[found + 1].asks, price) \cup {0} : isWall(s)
    BY <2>1, <2>4 DEF Pointed
  <2>6. ASSUME ratio = 1000, c.wall
        PROVE  \E s \in At(snapshots[found + 1].bids, price) \cup At(snapshots[found + 1].asks, price) \cup {0} : isWall(s)
    <3>1. found = i /\ price = c.price
      <4>1. i \in Int /\ found \in Int
        BY <1>3, <2>2
      <4> QED BY <2>2, <2>3, <2>4, <2>6, <4>1
    <3>2. c \in Drawing(f.bids, "bid") \cup Drawing(f.asks, "ask")
      BY CellsAreTheLevels
    <3>3. PICK l \in f.bids \cup f.asks : c.price = l.price /\ c.wall = isWall(l.size)
      BY <3>2 DEF Drawing
    <3>4. isWall(l.size)
      BY <3>3, <2>6
    <3>5. l.size \in At(f.bids, c.price) \cup At(f.asks, c.price) \cup {0}
      BY <3>3
    <3> QED BY <3>1, <3>4, <3>5
  <2> HIDE DEF At
  <2>7. ratio >= 1000 => Pointed(x, c.price).frame >= i /\ Pointed(x, c.price).price <= c.price
    BY <2>2, <2>4, <2>5, Zenon
  <2>8. ratio <= 1000 => Pointed(x, c.price).frame <= i /\ Pointed(x, c.price).price >= c.price
    BY <2>2, <2>4, <2>5, Zenon
  <2>9. ratio = 1000 /\ c.wall => Pointed(x, c.price).wall
    BY <2>5, <2>6, Zenon
  <2> QED BY <2>7, <2>8, <2>9, Zenon
<1>6. ASSUME NEW i \in GapStripes, NEW j \in Drawn, j < i
      PROVE  snapshots[i + 1].time - snapshots[j + 1].time > 5000
  <2>1. i \in Drawn /\ i > 0 /\ snapshots[i + 1].time - snapshots[i].time > 5000
    BY DEF GapStripes
  <2>2. i \in 0..(Len(snapshots) - 1) /\ j \in 0..(Len(snapshots) - 1)
    BY <1>3, <2>1
  <2>3. i \in DOMAIN snapshots /\ j + 1 \in DOMAIN snapshots /\ j + 1 <= i
    BY <1>2, <1>6, <2>1, <2>2
  <2>4. snapshots[j + 1].time <= snapshots[i].time
    <3>1. CASE j + 1 = i
      <4>1. snapshots[i] \in KeptFrames
        BY <1>2, <2>3
      <4> QED BY <3>1, <4>1 DEF KeptFrames
    <3>2. CASE j + 1 # i
      <4>1. j + 1 < i
        BY <3>2, <2>2, <2>3
      <4> QED BY <4>1, <1>2, <2>3 DEF InOrder
    <3> QED BY <3>1, <3>2
  <2>5. snapshots[i].time \in Int /\ snapshots[i + 1].time \in Int /\ snapshots[j + 1].time \in Int
    <3>1. snapshots[i] \in KeptFrames
      BY <1>2, <2>3
    <3> QED BY <3>1, <2>1, <1>3 DEF KeptFrames
  <2> QED BY <2>1, <2>4, <2>5
<1>7. \A i \in Drawn :
        /\ Cardinality(Cells(i)) = Cardinality(snapshots[i + 1].bids) + Cardinality(snapshots[i + 1].asks)
        /\ \A c \in Cells(i), x \in PlacesOn(i) :
             LET told == Pointed(x, c.price)
             IN  /\ ratio >= 1000 => told.frame >= i /\ told.price <= c.price
                 /\ ratio <= 1000 => told.frame <= i /\ told.price >= c.price
                 /\ ratio = 1000 /\ c.wall => told.wall
  BY <1>4, <1>5
<1>8. \A i \in GapStripes : \A j \in Drawn : j < i => snapshots[i + 1].time - snapshots[j + 1].time > 5000
  BY <1>6
<1> QED BY <1>1, <1>7, <1>8, Zenon

(* Answers, clamping and the timer keep the playhead where it may be. *)
LEMMA TheTimer ==
  ASSUME HeatShapes
  PROVE  Timer \in Nat \cup {None} /\ (Timer # None => Timer = Len(snapshots))
BY LenProperties DEF HeatShapes, FrameLists, Timer

LEMMA StillHeat ==
  ASSUME HeatIInv, UNCHANGED <<snapshots, playheadIndex>>, UNCHANGED viewVars, armed' \in {armed, None, Timer}
  PROVE  HeatIInv'
<1>1. HeatShapes'
  BY TheTimer DEF HeatIInv, HeatShapes, viewVars
<1>2. Timer \in Nat \cup {None} /\ (Timer # None => Timer = Len(snapshots)) /\ Len(snapshots) \in Nat
  BY TheTimer, LenProperties DEF HeatIInv, HeatShapes, FrameLists
<1>3. snapshots' # << >> =>
        /\ playheadIndex' <= Len(snapshots)'
        /\ armed' # None /\ armed' > Len(snapshots)' => playheadIndex' < Len(snapshots)'
  BY <1>2 DEF HeatIInv
<1> QED BY <1>1, <1>3 DEF HeatIInv

LEMMA AnswerStep ==
  ASSUME NEW answers \in SUBSET FrameLists, NEW n, NEW frames \in answers, HeatIInv, Answered(n, frames)
  PROVE  HeatIInv'
<1>1. /\ snapshots' = frames /\ frames \in FrameLists /\ playheadIndex' = Clamped(playheadIndex, frames)
      /\ armed' = armed /\ UNCHANGED viewVars /\ Len(frames) \in Nat /\ playheadIndex \in Nat
      /\ (frames # << >> => Len(frames) \in Nat \ {0})
  <2>1. frames \in Seq(KeptFrames)
    BY DEF FrameLists
  <2>2. Len(frames) \in Nat /\ (frames # << >> => Len(frames) \in Nat \ {0})
    BY <2>1, EmptySeq, LenProperties
  <2> QED BY <2>2 DEF Answered, HeatIInv, HeatShapes
<1>2. playheadIndex' \in Nat /\ (frames # << >> => playheadIndex' < Len(frames))
  <2>1. CASE frames = << >>
    BY <1>1, <2>1 DEF Clamped
  <2>2. CASE frames # << >>
    <3>1. playheadIndex' = Min({playheadIndex, Len(frames) - 1})
      BY <1>1, <2>2 DEF Clamped
    <3>2. Min({playheadIndex, Len(frames) - 1})
            = IF playheadIndex <= Len(frames) - 1 THEN playheadIndex ELSE Len(frames) - 1
      BY <1>1, LeastOfTwo
    <3> QED BY <1>1, <2>2, <3>1, <3>2
  <2> QED BY <2>1, <2>2
<1>3. HeatShapes'
  BY <1>1, <1>2 DEF HeatIInv, HeatShapes, viewVars
<1> QED BY <1>1, <1>2, <1>3 DEF HeatIInv

(* A tick counts with the frames there were when the timer was armed. *)
LEMMA TickStep ==
  ASSUME HeatIInv, Advance
  PROVE  HeatIInv'
<1>1. /\ armed # None /\ armed \in Nat /\ playheadIndex \in Nat /\ Len(snapshots) \in Nat
      /\ UNCHANGED snapshots /\ UNCHANGED viewVars /\ armed' = Timer'
  BY LenProperties DEF Advance, HeatIInv, HeatShapes, FrameLists
<1>2. \/ playheadIndex' = playheadIndex
      \/ playheadIndex < armed - 1 /\ playheadIndex' = playheadIndex + 1
  BY <1>1 DEF Advance
<1>3. playheadIndex' \in Nat /\ (snapshots # << >> => playheadIndex' <= Len(snapshots))
  BY <1>1, <1>2 DEF HeatIInv
<1>4. Timer' \in Nat \cup {None} /\ (Timer' # None => Timer' = Len(snapshots))
  BY <1>1 DEF Timer
<1>5. HeatShapes'
  BY <1>1, <1>3, <1>4 DEF HeatIInv, HeatShapes, viewVars
<1> QED BY <1>1, <1>3, <1>4, <1>5 DEF HeatIInv

LEMMA ReplayStep ==
  ASSUME HeatIInv, ReplayMode
  PROVE  HeatIInv'
<1>1. /\ playheadIndex' = Max({0, Len(snapshots) - 1}) /\ armed' = None
      /\ UNCHANGED snapshots /\ UNCHANGED viewVars /\ Len(snapshots) \in Nat
  BY LenProperties DEF ReplayMode, HeatIInv, HeatShapes, FrameLists
<1>2. Max({0, Len(snapshots) - 1}) = IF 0 >= Len(snapshots) - 1 THEN 0 ELSE Len(snapshots) - 1
  BY <1>1, GreatestOfTwo
<1>3. playheadIndex' \in Nat /\ playheadIndex' <= Len(snapshots)
  BY <1>1, <1>2
<1>4. HeatShapes'
  BY <1>1, <1>3 DEF HeatIInv, HeatShapes, viewVars
<1> QED BY <1>1, <1>3, <1>4 DEF HeatIInv

LEMMA StepToStep ==
  ASSUME HeatIInv, NEW i, StepTo(i)
  PROVE  HeatIInv'
<1>1. /\ playheadIndex' = i /\ armed' = None /\ UNCHANGED snapshots /\ UNCHANGED viewVars
      /\ Len(snapshots) \in Nat /\ playheadIndex \in Nat
      /\ i \in {0} \cup (0..(Len(snapshots) - 1)) \cup (IF playheadIndex > 0 THEN {playheadIndex - 1} ELSE {})
  BY LenProperties DEF StepTo, HeatIInv, HeatShapes, FrameLists
<1>2. i \in Nat /\ (snapshots # << >> => i <= Len(snapshots))
  BY <1>1 DEF HeatIInv
<1>3. HeatShapes'
  BY <1>1, <1>2 DEF HeatIInv, HeatShapes, viewVars
<1> QED BY <1>1, <1>2, <1>3 DEF HeatIInv

LEMMA ZoomStep ==
  ASSUME HeatIInv, Zoom
  PROVE  HeatIInv'
<1>1. zoomX \in Nat
  BY DEF HeatIInv, HeatShapes
<1> DEFINE a == (zoomX * 115) \div 100
           b == (zoomX * 85) \div 100
           c == (zoomX * 125) \div 100
           d == (zoomX * 80) \div 100
<1>2. a \in Nat /\ b \in Nat /\ c \in Nat /\ d \in Nat
  BY <1>1
<1>3. zoomX' \in {Max({200, Min({15000, a})}), Max({200, Min({15000, b})}), Min({10000, c}), Max({500, d})}
  BY DEF Zoom
<1> HIDE DEF a, b, c, d
<1>4. Min({15000, a}) \in Nat /\ Min({15000, b}) \in Nat /\ Min({10000, c}) \in Nat /\ Max({500, d}) \in Nat
  BY <1>2, LeastOfTwo, GreatestOfTwo
<1>5. Max({200, Min({15000, a})}) \in Nat /\ Max({200, Min({15000, b})}) \in Nat
  <2>1. \A x \in Nat : Max({200, x}) \in Nat
    BY GreatestOfTwo
  <2> QED BY <1>4, <2>1
<1>6. zoomX' \in Nat
  BY <1>3, <1>4, <1>5
<1>7. UNCHANGED <<snapshots, playheadIndex, armed, panX, ratio, drag, currentPrice>>
  BY DEF Zoom, StillFrames, playVars
<1>8. HeatShapes'
  BY <1>6, <1>7 DEF HeatIInv, HeatShapes
<1> QED BY <1>7, <1>8 DEF HeatIInv

LEMMA LookStep ==
  ASSUME NEW prices \in SUBSET Int, NEW moves \in SUBSET Int, HeatIInv,
         \/ ResetView \/ handleMouseDown \/ handleMouseUp
         \/ \E dx \in moves : handleMouseMove(dx)
         \/ \E p \in prices : PriceMoves(p)
         \/ \E r \in Ratios : Resized(r)
  PROVE  HeatIInv'
<1>1. zoomX \in Nat /\ panX \in Int /\ drag \in Int \cup {None} /\ currentPrice \in Int /\ ratio \in Ratios
  BY DEF HeatIInv, HeatShapes
<1>2. /\ UNCHANGED <<snapshots, playheadIndex, armed>>
      /\ zoomX' \in Nat /\ panX' \in Int /\ drag' \in Int \cup {None} /\ currentPrice' \in Int /\ ratio' \in Ratios
  <2>1. CASE ResetView
    BY <1>1, <2>1 DEF ResetView, StillFrames, playVars
  <2>2. CASE handleMouseDown
    BY <1>1, <2>2 DEF handleMouseDown, StillFrames, playVars
  <2>3. CASE handleMouseUp
    BY <1>1, <2>3 DEF handleMouseUp, StillFrames, playVars
  <2>4. CASE \E dx \in moves : handleMouseMove(dx)
    <3>1. PICK dx \in moves : handleMouseMove(dx)
      BY <2>4
    <3>2. drag \in Int /\ dx \in Int /\ panX' = drag + dx
      BY <1>1, <3>1 DEF handleMouseMove
    <3> QED BY <1>1, <3>1, <3>2 DEF handleMouseMove, StillFrames, playVars
  <2>5. CASE \E p \in prices : PriceMoves(p)
    BY <1>1, <2>5 DEF PriceMoves, StillFrames, playVars
  <2>6. CASE \E r \in Ratios : Resized(r)
    BY <1>1, <2>6 DEF Resized, StillFrames, playVars
  <2> QED BY <2>1, <2>2, <2>3, <2>4, <2>5, <2>6
<1>3. HeatShapes'
  BY <1>2 DEF HeatIInv, HeatShapes
<1> QED BY <1>2, <1>3 DEF HeatIInv

LEMMA HeatSteps ==
  ASSUME NEW symbols, NEW prices \in SUBSET Int, NEW answers \in SUBSET FrameLists, NEW moves \in SUBSET Int,
         HeatIInv, [Playing(symbols, Presets, answers) \/ Looking(prices, moves)]_heatVars
  PROVE  HeatIInv'
<1>1. CASE UNCHANGED heatVars
  BY <1>1, StillHeat DEF heatVars, viewVars
<1>2. CASE \/ \E s \in symbols, p \in Presets : Show(s, p)
           \/ Refresh \/ GoLive \/ Play \/ Armed \/ \E n \in DOMAIN flights : NotAnswered(n)
  <2>1. CASE \E s \in symbols, p \in Presets : Show(s, p)
    BY <2>1, StillHeat DEF Show, playVars
  <2>2. CASE Refresh
    BY <2>2, StillHeat DEF Refresh, playVars
  <2>3. CASE GoLive
    BY <2>3, StillHeat DEF GoLive
  <2>4. CASE Armed
    BY <2>4, StillHeat DEF Armed, playVars
  <2>5. CASE Play
    <3>1. UNCHANGED <<snapshots, playheadIndex, isReplayMode>> /\ UNCHANGED viewVars /\ armed' = Timer'
      BY <2>5 DEF Play
    <3>2. Len(snapshots) \in Nat
      BY LenProperties DEF HeatIInv, HeatShapes, FrameLists
    <3>3. armed' \in Nat \cup {None} /\ (armed' # None => armed' = Len(snapshots))
      BY <3>1, <3>2 DEF Timer
    <3>4. HeatShapes'
      BY <3>1, <3>3 DEF HeatIInv, HeatShapes, viewVars
    <3> QED BY <3>1, <3>2, <3>3, <3>4 DEF HeatIInv
  <2>6. CASE \E n \in DOMAIN flights : NotAnswered(n)
    <3>1. snapshots' = << >> /\ UNCHANGED <<armed, playheadIndex>> /\ UNCHANGED viewVars
      BY <2>6 DEF NotAnswered, playVars
    <3>2. << >> \in FrameLists
      BY DEF FrameLists, InOrder
    <3>3. HeatShapes'
      BY <3>1, <3>2 DEF HeatIInv, HeatShapes, viewVars
    <3> QED BY <3>1, <3>3 DEF HeatIInv
  <2> QED BY <1>2, <2>1, <2>2, <2>3, <2>4, <2>5, <2>6
<1>3. CASE \E n \in DOMAIN flights : \E f \in answers : Answered(n, f)
  BY <1>3, AnswerStep
<1>4. CASE ReplayMode
  BY <1>4, ReplayStep
<1>5. CASE Advance
  BY <1>5, TickStep
<1>6. CASE \E i \in 0..Max({Len(snapshots), playheadIndex}) : StepTo(i)
  BY <1>6, StepToStep
<1>7. CASE Zoom
  BY <1>7, ZoomStep
<1>8. CASE \/ ResetView \/ handleMouseDown \/ handleMouseUp
           \/ \E dx \in moves : handleMouseMove(dx)
           \/ \E p \in prices : PriceMoves(p)
           \/ \E r \in Ratios : Resized(r)
  BY <1>8, LookStep
<1> QED BY <1>1, <1>2, <1>3, <1>4, <1>5, <1>6, <1>7, <1>8 DEF Playing, Looking

(* What is drawn, hovered and played is of the frames there are, at any zoom and pan: every     *)
(* frame that reaches into the plot is drawn with all of its levels, the pointer is told of     *)
(* what is drawn below it when a pixel of the device is one of the page, and of a later frame   *)
(* and a lower price or an earlier one and a higher price, never the other way round, when it   *)
(* is finer or coarser, and the playhead stays with the frames (LiquidityHeatmapWidget.tsx),    *)
(* for all books in the order of time, prices, displays, answers and ways of the mouse.         *)
THEOREM HeatmapIsTrueTheorem ==
  ASSUME NEW symbols, NEW prices \in SUBSET Int, NEW answers \in SUBSET FrameLists, NEW moves \in SUBSET Int
  PROVE  HeatSpec(symbols, prices, answers, moves) => []HeatmapIsTrue
<1>1. ASSUME \E s \in symbols, p \in prices, frames \in answers : HeatInit(s, p, frames)
      PROVE  HeatIInv
  <2>1. PICK s \in symbols, p \in prices, frames \in answers : HeatInit(s, p, frames)
    BY <1>1
  <2>2. /\ snapshots \in FrameLists /\ playheadIndex = 0 /\ zoomX = 1000 /\ panX = 0 /\ drag = None
        /\ currentPrice \in Int /\ armed = None /\ ratio \in Ratios
    BY <2>1 DEF HeatInit
  <2>3. Len(snapshots) \in Nat
    BY <2>2, LenProperties DEF FrameLists
  <2> QED BY <2>2, <2>3 DEF HeatIInv, HeatShapes
<1>2. HeatIInv /\ [Playing(symbols, Presets, answers) \/ Looking(prices, moves)]_heatVars => HeatIInv'
  BY HeatSteps
<1>3. HeatIInv => HeatmapIsTrue
  <2> SUFFICES ASSUME HeatIInv PROVE HeatmapIsTrue
    OBVIOUS
  <2>1. PictureIsTrue
    BY ThePictureIsTrue DEF HeatIInv
  <2>2. PlayheadOnAFrame
    BY DEF PlayheadOnAFrame, HeatIInv, HeatShapes
  <2> QED BY <2>1, <2>2 DEF HeatmapIsTrue
<1> QED BY <1>1, <1>2, <1>3, PTL DEF HeatSpec

-----------------------------------------------------------------------------
(* The main chart. *)

(* What the refresh of a context asks the vendor for. *)
RefreshPage == Fetched(Edge, Target)

Behind(t, times) == \A x \in times : t < x

(* A refresh does not jump over it. *)
NotJumped(t) ==
  \/ t \in Vendor
  \/ \E count \in {Priming, Fallback, MAX_HISTORY_BARS_PER_TF} : Edge - 1 - t >= count
  \/ Behind(t, RefreshPage)

(* From its oldest bar on the second has all of the first. *)
Joins(some, times) == \A t \in some, x \in times : t >= x => t \in times

(* The bars a series that starts with this snapshot will have to page for. *)
Older(m) == {t \in m.stored : t < Edge /\ Behind(t, m.history)}


BarSets == {times \in SUBSET Nat : IsFiniteSet(times)}
Asks == [type : {"SUBSCRIBE"}, chart : Charts] \cup [type : {"HISTORY"}, chart : Charts, before : Nat]
Pages == [bars : BarSets, more : BOOLEAN]
Snapshots ==
  [type : {"INIT"}, chart : Charts, bars : {times \in SUBSET Nat : Edge \in times /\ \A t \in times : t >= Edge},
   history : SUBSET (0..(Edge - 1)), stored : SUBSET Nat]
ClosedBars == [type : {"BAR"}, chart : Charts, closed : {n \in Nat : n >= Edge}, open : {n \in Nat : n >= Edge}]
PageAnswers == [type : {"HISTORY"}, chart : Charts, bars : BarSets, more : BOOLEAN]
Answers == Snapshots \cup ClosedBars \cup PageAnswers
Waiting == [m : [type : {"HISTORY"}, chart : Charts, before : Nat], missing : Nat, result : Pages]

ChartShapes ==
  /\ now \in Nat /\ now >= Edge
  /\ table \in [Charts -> BarSets]
  /\ historyBarsByTf \in [Charts -> SUBSET (0..(Edge - 1))]
  /\ subscribed \in Charts /\ chart \in Charts /\ key \in Charts \cup {None}
  /\ chartWire \in Seq(Asks) /\ replies \in Seq(Answers) /\ fetches \in SUBSET Waiting
  /\ DOMAIN bars \in SUBSET {n \in Nat : n >= Edge}
  /\ DOMAIN historyBars \in BarSets
  /\ historyCursor \in Nat \cup {None}
  /\ kept \in SUBSET (0..(Edge - 1))

(* Every snapshot on its way goes back as far as those behind it and its context leave no hole. *)
Context(c) ==
  historyBarsByTf[c] # {} => \A t \in table[c] : t < Edge /\ Behind(t, historyBarsByTf[c]) => NotJumped(t)

SnapshotFits(m) ==
  /\ m.stored \subseteq table[m.chart]
  /\ \A t \in Older(m) : NotJumped(t)
  /\ Joins(Older(m), historyBarsByTf[m.chart])

InitAt(q, i) == i \in DOMAIN q /\ q[i].type = "INIT"

Queue ==
  /\ \A i \in DOMAIN replies : InitAt(replies, i) => SnapshotFits(replies[i])
  /\ \A i, j \in DOMAIN replies :
       InitAt(replies, i) /\ InitAt(replies, j) /\ i < j /\ replies[i].chart = replies[j].chart
         => Joins(Older(replies[i]), replies[j].history)

(* The series. *)
HistoryIsFull == Cardinality(DOMAIN historyBars) >= MAX_CLIENT_HISTORY_BARS

Reached(x) == HistoryIsFull \/ \A t \in kept : t >= x => t \in DOMAIN historyBars

(* What a page brings closes up with what is there; so will what the store had for one that     *)
(* waits for the vendor.                                                                        *)
PageJoins(times) == HistoryIsFull \/ \A t \in kept, x \in times : t >= x => t \in DOMAIN historyBars \cup times

WaitJoins(f) == Reached(f.m.before) /\ Joins({t \in kept : t < f.m.before}, f.result.bars)

SeriesHolds ==
  /\ \A t \in DOMAIN historyBars : historyBars[t] = chart
  /\ kept \subseteq table[chart] /\ \A t \in kept : NotJumped(t)
  /\ Joins(kept, historyBarsByTf[chart])
  /\ \A i \in DOMAIN replies : InitAt(replies, i) /\ replies[i].chart = chart => Joins(kept, replies[i].history)

PagesHold ==
  /\ Joins(kept, DOMAIN historyBars)
  /\ historyCursor # None => Reached(historyCursor)
  /\ \A i \in DOMAIN chartWire :
       chartWire[i].type = "HISTORY" /\ chartWire[i].chart = chart => Reached(chartWire[i].before)
  /\ \A f \in fetches : f.m.chart = chart => WaitJoins(f)
  /\ \A i \in DOMAIN replies :
       replies[i].type = "HISTORY" /\ replies[i].chart = chart => PageJoins(replies[i].bars)

ChartIInv ==
  /\ ChartShapes /\ (\A c \in Charts : Context(c)) /\ Queue
  /\ key = chart => SeriesHolds
  /\ key = chart /\ ~mixed => PagesHold

-----------------------------------------------------------------------------
(* The newest of a set. *)

LEMMA NewerAreFewer ==
  ASSUME NEW S \in SUBSET Nat, IsFiniteSet(S), NEW x \in Nat, NEW t \in Nat, x <= t
  PROVE  /\ IsFiniteSet({u \in S : u > t}) /\ Cardinality({u \in S : u > t}) \in Nat
         /\ Cardinality({u \in S : u > t}) <= Cardinality({u \in S : u > x})
<1> DEFINE A == {u \in S : u > t}
           B == {u \in S : u > x}
<1>1. A \in SUBSET B /\ B \in SUBSET S
  <2>1. ASSUME NEW u \in S, u > t PROVE u > x
    <3>1. u \in Nat
      OBVIOUS
    <3> QED BY <2>1, <3>1
  <2> QED BY <2>1
<1> HIDE DEF A, B
<1>2. IsFiniteSet(B)
  BY <1>1, FS_Subset
<1>3. IsFiniteSet(A) /\ Cardinality(A) <= Cardinality(B) /\ Cardinality(A) \in Nat
  BY <1>1, <1>2, FS_Subset, FS_CardinalityType
<1> QED BY <1>3 DEF A, B

LEMMA NewestGoUp ==
  ASSUME NEW S \in SUBSET Nat, IsFiniteSet(S), NEW n \in Nat, NEW x \in Newest(S, n), NEW t \in S, t >= x
  PROVE  t \in Newest(S, n)
<1>1. x \in S /\ Cardinality({u \in S : u > x}) < n /\ Cardinality({u \in S : u > x}) \in Nat
  BY NewerAreFewer DEF Newest
<1>2. Cardinality({u \in S : u > t}) <= Cardinality({u \in S : u > x}) /\ Cardinality({u \in S : u > t}) \in Nat
  <2>1. x \in Nat /\ t \in Nat /\ x <= t
    BY <1>1
  <2> QED BY <2>1, NewerAreFewer
<1>3. Cardinality({u \in S : u > t}) < n
  BY <1>1, <1>2
<1> QED BY <1>3 DEF Newest

LEMMA FewAreAllNewest ==
  ASSUME NEW S \in SUBSET Nat, IsFiniteSet(S), NEW n \in Nat, Cardinality(S) <= n
  PROVE  Newest(S, n) = S
<1>1. ASSUME NEW t \in S PROVE Cardinality({u \in S : u > t}) < n
  <2> DEFINE A == {u \in S : u > t}
  <2>1. A \in SUBSET (S \ {t})
    OBVIOUS
  <2>2. IsFiniteSet(S \ {t}) /\ Cardinality(S \ {t}) = Cardinality(S) - 1
    BY FS_RemoveElement
  <2> HIDE DEF A
  <2>3. Cardinality(A) <= Cardinality(S \ {t}) /\ Cardinality(A) \in Nat /\ Cardinality(S) \in Nat
    BY <2>1, <2>2, FS_Subset, FS_CardinalityType
  <2>4. Cardinality(A) < n
    BY <2>2, <2>3
  <2> QED BY <2>4 DEF A
<1> QED BY <1>1 DEF Newest

(* Of many, so many are left. *)
LEMMA ManyAreLeft ==
  ASSUME NEW S \in SUBSET Nat, IsFiniteSet(S), NEW n \in Nat, Cardinality(S) >= n
  PROVE  Cardinality(Newest(S, n)) >= n /\ IsFiniteSet(Newest(S, n)) /\ Newest(S, n) \in SUBSET S
<1> DEFINE Short(T) == Cardinality(T) >= n /\ ~(Cardinality(Newest(T, n)) >= n)
           Bad == {k \in Nat : \E T \in SUBSET S : Cardinality(T) = k /\ Short(T)}
<1>1. Bad = {}
  <2> SUFFICES ASSUME Bad # {} PROVE FALSE
    OBVIOUS
  <2>1. PICK k \in Bad : \A j \in Bad : k <= j
    <3>1. Bad \in SUBSET Nat
      OBVIOUS
    <3> HIDE DEF Bad
    <3> QED BY <3>1, LeastOf
  <2>2. PICK T \in SUBSET S : Cardinality(T) = k /\ Short(T)
    BY <2>1
  <2>3. IsFiniteSet(T) /\ k \in Nat /\ T \in SUBSET Nat /\ T \in SUBSET Int
    <3>1. IsFiniteSet(T)
      BY <2>2, FS_Subset
    <3> QED BY <2>1, <2>2, <3>1
  <2>4. k > n
    <3>1. ASSUME k = n PROVE FALSE
      <4>1. Newest(T, n) = T
        BY <2>2, <2>3, <3>1, FewAreAllNewest
      <4> QED BY <4>1, <2>2
    <3>2. k >= n
      BY <2>2
    <3> QED BY <3>1, <3>2, <2>3
  <2>5. T # {}
    BY <2>2, <2>3, <2>4, FS_EmptySet
  <2> DEFINE m == Min(T)
             R == T \ {m}
  <2>6. m \in T /\ \A x \in T : m <= x
    BY <2>3, <2>5, LeastIsLeast
  <2> HIDE DEF m
  <2>7. IsFiniteSet(R) /\ Cardinality(R) = k - 1 /\ R \in SUBSET S /\ R \in SUBSET Nat /\ k - 1 \in Nat
    BY <2>2, <2>3, <2>4, <2>6, FS_RemoveElement
  <2>8. ~Short(R)
    <3>1. k - 1 \notin Bad
      <4>1. ~(k <= k - 1)
        BY <2>3
      <4> HIDE DEF Bad
      <4> QED BY <2>1, <4>1
    <3> HIDE DEF Short, R
    <3> QED BY <2>7, <3>1
  <2>9. Cardinality(Newest(R, n)) >= n
    BY <2>4, <2>7, <2>8, <2>3
  <2>10. Newest(R, n) \in SUBSET Newest(T, n)
    <3>1. ASSUME NEW t \in R PROVE {u \in T : u > t} = {u \in R : u > t}
      <4>1. ~(m > t)
        BY <2>3, <2>6
      <4> QED BY <4>1
    <3> QED BY <3>1 DEF Newest
  <2>11. IsFiniteSet(Newest(T, n)) /\ Cardinality(Newest(R, n)) <= Cardinality(Newest(T, n))
    <3>1. Newest(T, n) \in SUBSET T
      BY DEF Newest
    <3>2. IsFiniteSet(Newest(T, n))
      BY <2>3, <3>1, FS_Subset
    <3> QED BY <3>2, <2>10, FS_Subset
  <2>12. Cardinality(Newest(R, n)) \in Nat /\ Cardinality(Newest(T, n)) \in Nat
    <3>1. IsFiniteSet(Newest(R, n))
      BY <2>10, <2>11, FS_Subset
    <3> QED BY <3>1, <2>11, FS_CardinalityType
  <2> HIDE DEF R
  <2> QED BY <2>2, <2>9, <2>11, <2>12
<1>2. Cardinality(S) \in Nat
  BY FS_CardinalityType
<1>3. ~Short(S)
  <2> HIDE DEF Short
  <2> QED BY <1>1, <1>2
<1>4. Newest(S, n) \in SUBSET S
  BY DEF Newest
<1>5. IsFiniteSet(Newest(S, n))
  BY <1>4, FS_Subset
<1> QED BY <1>3, <1>4, <1>5

LEMMA NewestArePart ==
  ASSUME NEW S \in SUBSET Nat, IsFiniteSet(S), NEW n
  PROVE  Newest(S, n) \in SUBSET S /\ IsFiniteSet(Newest(S, n))
<1>1. Newest(S, n) \in SUBSET S
  BY DEF Newest
<1> QED BY <1>1, FS_Subset

(* What is older than all of the newest of the history has that many behind it. *)
LEMMA OlderHaveManyBehind ==
  ASSUME ChartAssumption, NEW S \in SUBSET (0..(Edge - 1)), NEW n \in Nat, NEW t \in S, Behind(t, Newest(S, n))
  PROVE  Edge - 1 - t >= n
<1>1. Edge \in Nat /\ S \in SUBSET Nat /\ IsFiniteSet(S) /\ t \in Nat /\ t <= Edge - 1
  <2>1. Edge \in Nat
    BY DEF ChartAssumption
  <2>2. S \in SUBSET Nat /\ \A s \in S : s <= Edge
    BY <2>1
  <2>3. IsFiniteSet(S)
    BY <2>1, <2>2, FS_BoundedSetOfNaturals
  <2> QED BY <2>1, <2>2, <2>3
<1> DEFINE A == {u \in S : u > t}
<1>2. t \notin Newest(S, n)
  <2>1. ~(t < t)
    BY <1>1
  <2> QED BY <2>1 DEF Behind
<1>3. ~(Cardinality(A) < n)
  BY <1>2 DEF Newest
<1>4. A \in SUBSET ((t + 1)..(Edge - 1)) /\ IsFiniteSet(A)
  <2>1. A \in SUBSET S
    OBVIOUS
  <2>2. ASSUME NEW u \in A PROVE u \in (t + 1)..(Edge - 1)
    <3>1. u \in 0..(Edge - 1) /\ u > t
      OBVIOUS
    <3> HIDE DEF A
    <3> QED BY <3>1, <1>1
  <2> HIDE DEF A
  <2> QED BY <1>1, <2>1, <2>2, FS_Subset
<1>5. IsFiniteSet((t + 1)..(Edge - 1)) /\ Cardinality((t + 1)..(Edge - 1)) = Edge - 1 - t
  <2>1. t + 1 \in Int /\ Edge - 1 \in Int
    BY <1>1
  <2>2. Cardinality((t + 1)..(Edge - 1)) = IF t + 1 > Edge - 1 THEN 0 ELSE (Edge - 1) - (t + 1) + 1
    BY <2>1, FS_Interval
  <2>3. IsFiniteSet((t + 1)..(Edge - 1))
    BY <2>1, FS_Interval
  <2> QED BY <1>1, <2>2, <2>3
<1> HIDE DEF A
<1>6. Cardinality(A) <= Edge - 1 - t /\ Cardinality(A) \in Nat
  BY <1>4, <1>5, FS_Subset, FS_CardinalityType
<1> QED BY <1>1, <1>3, <1>6

-----------------------------------------------------------------------------
(* What a context starts a chart with.                                     *)

(* It leaves no hole to the right of what was known, and what is older than all of it is not    *)
(* jumped over by a refresh.                                                                    *)
GoodHistory(c, h, stored) ==
  /\ h \in SUBSET (0..(Edge - 1))
  /\ \A some \in SUBSET table[c] :
       (\A t \in some : t < Edge /\ NotJumped(t)) /\ Joins(some, historyBarsByTf[c]) => Joins(some, h)
  /\ \A t \in stored : t < Edge /\ Behind(t, h) => NotJumped(t)

LEMMA HistoryOfTheStore ==
  ASSUME ChartAssumption, ChartShapes, NEW c \in Charts, NEW n \in {Priming, Fallback}
  PROVE  GoodHistory(c, queryBars(c, Edge, n).bars, table[c])
<1> DEFINE S == {t \in table[c] : t < Edge}
           h == Newest(S, n)
<1>1. Edge \in Nat /\ n \in Nat /\ table[c] \in SUBSET Nat /\ IsFiniteSet(table[c])
  BY DEF ChartAssumption, ChartShapes, BarSets
<1>2. S \in SUBSET (0..(Edge - 1)) /\ S \in SUBSET Nat /\ S \in SUBSET table[c]
  BY <1>1
<1>3. IsFiniteSet(S)
  <2> HIDE DEF S
  <2> QED BY <1>1, <1>2, FS_Subset
<1>4. queryBars(c, Edge, n).bars = h
  BY DEF queryBars
<1>5. h \in SUBSET S
  <2> HIDE DEF S
  <2> QED BY <1>2, <1>3, NewestArePart
<1>6. ASSUME NEW some \in SUBSET table[c], \A t \in some : t < Edge /\ NotJumped(t)
      PROVE  Joins(some, h)
  <2>1. ASSUME NEW t \in some, NEW x \in h, t >= x PROVE t \in h
    <3>1. t \in S
      BY <1>6
    <3> HIDE DEF S
    <3> QED BY <1>1, <1>2, <1>3, <2>1, <3>1, NewestGoUp
  <2> HIDE DEF h
  <2> QED BY <2>1 DEF Joins
<1>7. ASSUME NEW t \in table[c], t < Edge, Behind(t, h)
      PROVE  NotJumped(t)
  <2>1. t \in S
    BY <1>7
  <2>2. Edge - 1 - t >= n
    <3> HIDE DEF S
    <3> QED BY <1>1, <1>2, <1>7, <2>1, OlderHaveManyBehind
  <2> QED BY <2>2 DEF NotJumped
<1>8. h \in SUBSET (0..(Edge - 1))
  BY <1>2, <1>5
<1> HIDE DEF S, h
<1> QED BY <1>4, <1>6, <1>7, <1>8 DEF GoodHistory

LEMMA HistoryPrimed ==
  ASSUME ChartAssumption, ChartShapes, NEW c \in Charts, Context(c)
  PROVE  GoodHistory(c, primeHistoryBarsFromStore(c), table[c])
<1>1. CASE historyBarsByTf[c] = {}
  <2>1. primeHistoryBarsFromStore(c) = queryBars(c, Edge, Priming).bars
    BY <1>1 DEF primeHistoryBarsFromStore
  <2> QED BY <2>1, HistoryOfTheStore
<1>2. CASE historyBarsByTf[c] # {}
  <2>1. primeHistoryBarsFromStore(c) = historyBarsByTf[c]
    BY <1>2 DEF primeHistoryBarsFromStore
  <2>2. historyBarsByTf[c] \in SUBSET (0..(Edge - 1))
    BY DEF ChartShapes
  <2> QED BY <1>2, <2>1, <2>2 DEF GoodHistory, Context
<1> QED BY <1>1, <1>2

LEMMA TheRefreshPage ==
  ASSUME ChartAssumption
  PROVE  /\ RefreshPage \in SUBSET (0..(Edge - 1)) /\ RefreshPage \in SUBSET Vendor
         /\ RefreshPage \in SUBSET Nat /\ IsFiniteSet(RefreshPage)
         /\ \A x \in RefreshPage, t \in Vendor : t < Edge /\ t >= x => t \in RefreshPage
<1> DEFINE S == {t \in Vendor : t < Edge}
<1>1. Edge \in Nat /\ Target \in Nat /\ Vendor \in SUBSET Nat /\ IsFiniteSet(Vendor)
  BY DEF ChartAssumption
<1>2. S \in SUBSET (0..(Edge - 1)) /\ S \in SUBSET Nat /\ S \in SUBSET Vendor
  <2>1. ASSUME NEW t \in Vendor, t < Edge PROVE t \in 0..(Edge - 1) /\ t \in Nat
    <3>1. t \in Nat
      BY <1>1
    <3> QED BY <1>1, <2>1, <3>1
  <2> QED BY <2>1
<1>3. IsFiniteSet(S)
  <2> HIDE DEF S
  <2> QED BY <1>1, <1>2, FS_Subset
<1>4. RefreshPage = Newest(S, Target)
  BY DEF RefreshPage, Fetched
<1>5. ASSUME NEW x \in RefreshPage, NEW t \in Vendor, t < Edge, t >= x
      PROVE  t \in RefreshPage
  <2>1. t \in S
    BY <1>5
  <2> HIDE DEF S
  <2> QED BY <1>1, <1>2, <1>3, <1>4, <1>5, <2>1, NewestGoUp
<1>6. RefreshPage \in SUBSET S /\ IsFiniteSet(RefreshPage)
  <2> HIDE DEF S
  <2> QED BY <1>2, <1>3, <1>4, NewestArePart
<1> QED BY <1>2, <1>5, <1>6

LEMMA HistoryMerged ==
  ASSUME ChartAssumption, ChartShapes, NEW c \in Charts, Context(c), RefreshPage # {}
  PROVE  GoodHistory(c, mergeHistoryBars(historyBarsByTf[c], RefreshPage), table[c] \cup RefreshPage)
<1> DEFINE P == RefreshPage
           old == historyBarsByTf[c]
           cap == MAX_HISTORY_BARS_PER_TF
           all == old \cup P
           h == mergeHistoryBars(old, P)
<1>1. /\ P \in SUBSET (0..(Edge - 1)) /\ P \in SUBSET Vendor /\ P \in SUBSET Nat /\ IsFiniteSet(P)
      /\ \A x \in P, t \in Vendor : t < Edge /\ t >= x => t \in P
  BY TheRefreshPage
<1>2. Edge \in Nat /\ cap \in Nat /\ old \in SUBSET (0..(Edge - 1)) /\ table[c] \in SUBSET Nat
  BY DEF ChartAssumption, ChartShapes, BarSets
<1>3. all \in SUBSET (0..(Edge - 1)) /\ all \in SUBSET Nat /\ IsFiniteSet(all)
  <2> HIDE DEF P, old
  <2>1. all \in SUBSET (0..(Edge - 1)) /\ all \in SUBSET Nat
    BY <1>1, <1>2
  <2>2. \A t \in all : t <= Edge
    BY <2>1, <1>2
  <2> HIDE DEF all
  <2> QED BY <2>1, <2>2, <1>2, FS_BoundedSetOfNaturals
<1>4. h = all \/ h = Newest(all, cap)
  BY DEF mergeHistoryBars
<1>5. \A x \in h, t \in all : t >= x => t \in h
  <2>1. CASE h = all
    BY <2>1
  <2>2. CASE h = Newest(all, cap)
    <3> HIDE DEF all, h, cap
    <3> QED BY <2>2, <1>2, <1>3, NewestGoUp
  <2> QED BY <1>4, <2>1, <2>2
<1>6. h \in SUBSET all
  <2> HIDE DEF all, h, cap
  <2> QED BY <1>3, <1>4, NewestArePart
<1>7. \A x \in P, t \in table[c] : NotJumped(t) /\ t < Edge /\ t >= x => t \in P
  <2> SUFFICES ASSUME NEW x \in P, NEW t \in table[c], NotJumped(t), t < Edge, t >= x
               PROVE  t \in Vendor
    BY <1>1
  <2>1. t \in 0..(Edge - 1) /\ x \in Nat /\ x <= t
    BY <1>1, <1>2
  <2>2. ~Behind(t, RefreshPage)
    BY <2>1 DEF Behind
  <2>3. CASE \E count \in {Priming, Fallback, MAX_HISTORY_BARS_PER_TF} : Edge - 1 - t >= count
    <3>1. \E b \in Fetched(Edge, Target) : b <= t
      BY <2>1 DEF RefreshPage
    <3> QED BY <2>1, <2>3, <3>1 DEF ChartAssumption
  <2> QED BY <2>2, <2>3 DEF NotJumped
<1>8. ASSUME NEW some \in SUBSET table[c], \A t \in some : t < Edge /\ NotJumped(t), Joins(some, old)
      PROVE  Joins(some, h)
  <2>1. ASSUME NEW t \in some, NEW x \in h, t >= x PROVE t \in h
    <3>1. x \in old \/ x \in P
      BY <1>6
    <3>2. t \in all
      <4>1. CASE x \in old
        BY <4>1, <2>1, <1>8 DEF Joins
      <4>2. CASE x \in P
        BY <4>2, <2>1, <1>7, <1>8
      <4> QED BY <3>1, <4>1, <4>2
    <3> HIDE DEF all, h
    <3> QED BY <3>2, <2>1, <1>5
  <2> HIDE DEF h
  <2> QED BY <2>1 DEF Joins
<1>9. ASSUME NEW t \in table[c] \cup P, t < Edge, Behind(t, h)
      PROVE  NotJumped(t)
  <2>1. CASE t \in P
    BY <2>1, <1>1 DEF NotJumped
  <2>2. CASE h = all
    <3>1. Behind(t, P)
      BY <2>2, <1>9 DEF Behind
    <3> QED BY <3>1 DEF NotJumped
  <2>3. CASE h = Newest(all, cap) /\ Cardinality(all) <= cap
    <3>1. h = all
      <4> HIDE DEF all, h, cap
      <4> QED BY <2>3, <1>2, <1>3, FewAreAllNewest
    <3>2. Behind(t, P)
      BY <3>1, <1>9 DEF Behind
    <3> QED BY <3>2 DEF NotJumped
  <2>4. CASE h = Newest(all, cap) /\ Cardinality(all) > cap
    <3>1. Cardinality(h) >= cap /\ IsFiniteSet(h) /\ Cardinality(h) \in Nat
      <4> HIDE DEF all, h, cap
      <4>1. Cardinality(all) \in Nat
        BY <1>3, FS_CardinalityType
      <4>2. Cardinality(all) >= cap
        BY <4>1, <2>4, <1>2
      <4> QED BY <4>2, <2>4, <1>2, <1>3, ManyAreLeft, FS_CardinalityType
    <3>2. t \in Nat /\ t <= Edge - 1
      <4>1. t \in Nat
        BY <1>1, <1>2, <1>9
      <4> QED BY <4>1, <1>2, <1>9
    <3>3. h \in SUBSET ((t + 1)..(Edge - 1))
      <4>1. ASSUME NEW x \in h PROVE x \in (t + 1)..(Edge - 1)
        <5>1. x \in 0..(Edge - 1) /\ t < x
          BY <1>3, <1>6, <1>9 DEF Behind
        <5> QED BY <5>1, <3>2, <1>2
      <4> HIDE DEF h
      <4> QED BY <4>1
    <3>4. IsFiniteSet((t + 1)..(Edge - 1)) /\ Cardinality((t + 1)..(Edge - 1)) = Edge - 1 - t
      <4>1. t + 1 \in Int /\ Edge - 1 \in Int
        BY <1>2, <3>2
      <4>2. Cardinality((t + 1)..(Edge - 1)) = IF t + 1 > Edge - 1 THEN 0 ELSE (Edge - 1) - (t + 1) + 1
        BY <4>1, FS_Interval
      <4>3. IsFiniteSet((t + 1)..(Edge - 1))
        BY <4>1, FS_Interval
      <4> QED BY <1>2, <3>2, <4>2, <4>3
    <3>5. Cardinality(h) <= Edge - 1 - t
      <4> DEFINE between == (t + 1)..(Edge - 1)
      <4>1. h \in SUBSET between /\ IsFiniteSet(between) /\ Cardinality(between) = Edge - 1 - t
        BY <3>3, <3>4
      <4> HIDE DEF h, between
      <4>2. Cardinality(h) <= Cardinality(between)
        BY <4>1, FS_Subset
      <4> QED BY <4>1, <4>2
    <3>6. Edge - 1 - t >= cap
      <4> HIDE DEF h, cap
      <4> QED BY <3>1, <3>2, <3>5, <1>2
    <3> QED BY <3>6 DEF NotJumped
  <2>5. Cardinality(all) \in Nat
    BY <1>3, FS_CardinalityType
  <2> HIDE DEF all, h, cap, P
  <2> QED BY <1>2, <1>4, <2>1, <2>2, <2>3, <2>4, <2>5
<1>10. h \in SUBSET (0..(Edge - 1))
  BY <1>3, <1>6
<1> HIDE DEF all, h, cap
<1>11. GoodHistory(c, h, table[c] \cup P)
  BY <1>8, <1>9, <1>10 DEF GoodHistory
<1> QED BY <1>11 DEF h

-----------------------------------------------------------------------------
(* A context takes a history, and sends it or not.                         *)

WireShrinks ==
  /\ chartWire' \in Seq(Asks)
  /\ \A i \in DOMAIN chartWire' : chartWire'[i].type = "HISTORY" =>
       \E j \in DOMAIN chartWire : chartWire'[i] = chartWire[j]

ContextTakes(c, h, q) ==
  /\ table' \in [Charts -> BarSets]
  /\ \A d \in Charts : table[d] \subseteq table'[d] /\ (d # c => table'[d] = table[d])
  /\ historyBarsByTf' = [historyBarsByTf EXCEPT ![c] = h]
  /\ q \in {replies, << >>} /\ (replies' = q \/ replies' = Append(q, buildInitState(c, h, table'[c])))
  /\ WireShrinks /\ fetches' \subseteq fetches /\ subscribed' \in Charts
  /\ UNCHANGED <<now, chart, series, historyCursor>>

LEMMA ASnapshotOfIt ==
  ASSUME ChartAssumption, ChartShapes, NEW c \in Charts, NEW h \in SUBSET (0..(Edge - 1)), NEW stored \in SUBSET Nat
  PROVE  /\ buildInitState(c, h, stored) \in Snapshots
         /\ buildInitState(c, h, stored).type = "INIT" /\ buildInitState(c, h, stored).chart = c
         /\ buildInitState(c, h, stored).history = h /\ buildInitState(c, h, stored).stored = stored
<1>1. Edge \in Nat /\ now \in Nat /\ now >= Edge
  BY DEF ChartAssumption, ChartShapes
<1>2. LiveBars \in SUBSET Nat /\ Edge \in LiveBars /\ \A t \in LiveBars : t >= Edge
  BY <1>1 DEF LiveBars
<1> QED BY <1>2 DEF buildInitState, Snapshots

LEMMA AnAnswer ==
  ASSUME NEW m \in Answers
  PROVE  /\ m.chart \in Charts
         /\ m.type = "INIT" <=> m \in Snapshots
         /\ m.type = "BAR" <=> m \in ClosedBars
         /\ m.type = "HISTORY" <=> m \in PageAnswers
         /\ m.type \in {"INIT", "BAR", "HISTORY"}
BY DEF Answers, Snapshots, ClosedBars, PageAnswers

LEMMA ContextTakesStep ==
  ASSUME ChartAssumption, ChartIInv, NEW c \in Charts, NEW h, NEW q,
         ContextTakes(c, h, q), GoodHistory(c, h, table'[c])
  PROVE  ChartIInv'
<1> DEFINE m == buildInitState(c, h, table'[c])
<1>1. ChartShapes
  BY DEF ChartIInv
<1>2. /\ table' \in [Charts -> BarSets]
      /\ \A d \in Charts : table[d] \subseteq table'[d] /\ (d # c => table'[d] = table[d])
      /\ q \in {replies, << >>} /\ (replies' = q \/ replies' = Append(q, m))
      /\ fetches' \subseteq fetches /\ subscribed' \in Charts
      /\ UNCHANGED <<now, chart, key, bars, historyBars, mixed, kept, historyCursor>>
  BY DEF ContextTakes, series
<1>3. h \in SUBSET (0..(Edge - 1)) /\ table'[c] \in SUBSET Nat
  BY <1>2 DEF GoodHistory, BarSets
<1>4. /\ m \in Snapshots /\ m \in Answers /\ m.type = "INIT" /\ m.chart = c /\ m.history = h /\ m.stored = table'[c]
  BY <1>1, <1>3, ASnapshotOfIt DEF Answers
<1> HIDE DEF m
<1>5. /\ historyBarsByTf' \in [Charts -> SUBSET (0..(Edge - 1))]
      /\ historyBarsByTf'[c] = h /\ \A d \in Charts \ {c} : historyBarsByTf'[d] = historyBarsByTf[d]
  BY <1>1, <1>3 DEF ContextTakes, ChartShapes
<1>6. /\ replies' \in Seq(Answers)
      /\ \A i \in DOMAIN replies' :
           \/ i \in DOMAIN q /\ replies'[i] = q[i]
           \/ i = Len(q) + 1 /\ replies'[i] = m
      /\ q \in Seq(Answers) /\ DOMAIN q = 1..Len(q) /\ Len(q) \in Nat
  <2>1. q \in Seq(Answers)
    <3>1. replies \in Seq(Answers) /\ << >> \in Seq(Answers)
      BY <1>1 DEF ChartShapes
    <3> QED BY <3>1, <1>2
  <2>2. DOMAIN q = 1..Len(q) /\ Len(q) \in Nat
    BY <2>1, LenProperties
  <2>3. CASE replies' = q
    BY <2>1, <2>2, <2>3
  <2>4. CASE replies' = Append(q, m)
    <3>1. Append(q, m) \in Seq(Answers) /\ DOMAIN Append(q, m) = 1..(Len(q) + 1)
      BY <2>1, <1>4
    <3>2. Append(q, m)[Len(q) + 1] = m /\ \A i \in DOMAIN q : Append(q, m)[i] = q[i]
      BY <2>1, <1>4, LastAppended
    <3>3. \A i \in 1..(Len(q) + 1) : i \in 1..Len(q) \/ i = Len(q) + 1
      BY <2>2
    <3> QED BY <2>1, <2>2, <2>4, <3>1, <3>2, <3>3
  <2> QED BY <1>2, <2>3, <2>4
<1>7. \A i \in DOMAIN q : i \in DOMAIN replies /\ q[i] = replies[i] /\ q[i] \in Answers
  <2>1. CASE q = replies
    BY <2>1, <1>6
  <2>2. CASE q = << >>
    <3>1. DOMAIN q = {}
      BY <2>2
    <3> QED BY <3>1
  <2> QED BY <1>2, <2>1, <2>2
<1>8. ChartShapes'
  BY <1>1, <1>2, <1>5, <1>6 DEF ChartShapes, ContextTakes, WireShrinks
<1>9. \A d \in Charts : Context(d)'
  <2> SUFFICES ASSUME NEW d \in Charts PROVE Context(d)'
    OBVIOUS
  <2>1. CASE d = c
    BY <2>1, <1>5 DEF Context, GoodHistory, NotJumped, Behind
  <2>2. CASE d # c
    <3>1. Context(d) /\ table'[d] = table[d] /\ historyBarsByTf'[d] = historyBarsByTf[d]
      BY <2>2, <1>2, <1>5 DEF ChartIInv
    <3> QED BY <3>1 DEF Context, NotJumped, Behind
  <2> QED BY <2>1, <2>2
<1>10. ASSUME NEW x \in Answers, x.stored \subseteq table[x.chart], \A t \in Older(x) : NotJumped(t),
              Joins(Older(x), historyBarsByTf[x.chart])
       PROVE  Joins(Older(x), historyBarsByTf'[x.chart]) /\ x.stored \subseteq table'[x.chart]
  <2>1. x.chart \in Charts
    BY AnAnswer
  <2>2. CASE x.chart = c
    <3>1. Older(x) \in SUBSET table[c] /\ \A t \in Older(x) : t < Edge /\ NotJumped(t)
      BY <1>10, <2>2 DEF Older
    <3>2. Joins(Older(x), h)
      BY <3>1, <1>10, <2>2 DEF GoodHistory
    <3> QED BY <3>2, <2>2, <1>2, <1>5, <1>10
  <2>3. CASE x.chart # c
    BY <2>1, <2>3, <1>2, <1>5, <1>10
  <2> QED BY <2>2, <2>3
<1>11. ASSUME NEW i \in DOMAIN q, InitAt(q, i)
       PROVE  SnapshotFits(q[i]) /\ Joins(Older(q[i]), historyBarsByTf'[q[i].chart]) /\ q[i].stored \subseteq table'[q[i].chart]
              /\ \A t \in Older(q[i]) : NotJumped(t)
  <2>1. InitAt(replies, i) /\ i \in DOMAIN replies /\ q[i] = replies[i] /\ q[i] \in Answers
    BY <1>7, <1>11 DEF InitAt
  <2>2. SnapshotFits(q[i])
    BY <2>1 DEF ChartIInv, Queue
  <2> QED BY <2>1, <2>2, <1>10 DEF SnapshotFits
<1>12. \A t \in Older(m) : NotJumped(t)
  <2> SUFFICES ASSUME NEW t \in Older(m) PROVE NotJumped(t)
    OBVIOUS
  <2>1. t \in table'[c] /\ t < Edge /\ Behind(t, h)
    BY <1>4 DEF Older
  <2> QED BY <2>1 DEF GoodHistory
<1>13. Joins(Older(m), h)
  <2> SUFFICES ASSUME NEW t \in Older(m), NEW x \in h, t >= x PROVE FALSE
    BY DEF Joins
  <2>1. t < x /\ t \in table'[c]
    BY <1>4 DEF Older, Behind
  <2>2. t \in Nat /\ x \in Nat
    <3>1. t \in Nat
      BY <2>1, <1>3
    <3>2. x \in 0..(Edge - 1)
      BY <1>3
    <3> QED BY <3>1, <3>2
  <2> QED BY <2>1, <2>2
<1>14. Queue'
  <2>1. ASSUME NEW i \in DOMAIN replies', replies'[i].type = "INIT"
        PROVE  /\ replies'[i].stored \subseteq table'[replies'[i].chart] /\ (\A t \in Older(replies'[i]) : NotJumped(t))
               /\ Joins(Older(replies'[i]), historyBarsByTf'[replies'[i].chart])
    <3>1. CASE i \in DOMAIN q /\ replies'[i] = q[i]
      <4>1. InitAt(q, i)
        BY <3>1, <2>1 DEF InitAt
      <4>2. /\ Joins(Older(q[i]), historyBarsByTf'[q[i].chart]) /\ q[i].stored \subseteq table'[q[i].chart]
            /\ \A t \in Older(q[i]) : NotJumped(t)
        BY <4>1, <3>1, <1>11
      <4> QED BY <3>1, <4>2
    <3>2. CASE replies'[i] = m
      <4>1. Joins(Older(m), historyBarsByTf'[m.chart]) /\ m.stored \subseteq table'[m.chart]
        BY <1>4, <1>5, <1>13
      <4> QED BY <3>2, <4>1, <1>12
    <3> QED BY <1>6, <3>1, <3>2
  <2>2. ASSUME NEW i \in DOMAIN replies', NEW j \in DOMAIN replies', replies'[i].type = "INIT", replies'[j].type = "INIT",
               i < j, replies'[i].chart = replies'[j].chart
        PROVE  Joins(Older(replies'[i]), replies'[j].history)
    <3>1. i \in DOMAIN q /\ replies'[i] = q[i]
      BY <1>6, <2>2
    <3>2. InitAt(q, i)
      BY <3>1, <2>2 DEF InitAt
    <3>3. CASE j \in DOMAIN q /\ replies'[j] = q[j]
      <4>1. InitAt(replies, i) /\ InitAt(replies, j) /\ replies[i] = q[i] /\ replies[j] = q[j]
            /\ i \in DOMAIN replies /\ j \in DOMAIN replies
        BY <3>1, <3>3, <2>2, <1>7 DEF InitAt
      <4> QED BY <4>1, <3>1, <3>3, <2>2 DEF ChartIInv, Queue
    <3>4. CASE replies'[j] = m
      <4>1. Joins(Older(q[i]), historyBarsByTf'[q[i].chart])
        BY <3>1, <3>2, <1>11
      <4>2. q[i].chart = c
        BY <3>1, <3>4, <2>2, <1>4
      <4> QED BY <4>1, <4>2, <3>1, <3>4, <1>4, <1>5
    <3>5. (j \in DOMAIN q /\ replies'[j] = q[j]) \/ replies'[j] = m
      BY <1>6
    <3> QED BY <3>3, <3>4, <3>5
  <2> QED BY <2>1, <2>2 DEF Queue, SnapshotFits, InitAt, Older, Joins, NotJumped, Behind
<1>15. ASSUME key' = chart' PROVE SeriesHolds'
  <2>1. SeriesHolds /\ chart \in Charts
    BY <1>1, <1>2, <1>15 DEF ChartIInv, ChartShapes
  <2>2. kept \subseteq table'[chart]
    BY <2>1, <1>2 DEF SeriesHolds
  <2>3. Joins(kept, historyBarsByTf'[chart])
    <3>1. CASE chart = c
      <4>1. kept \in SUBSET table[c] /\ \A t \in kept : t < Edge /\ NotJumped(t)
        <5>1. kept \in SUBSET (0..(Edge - 1)) /\ Edge \in Nat
          BY <1>1 DEF ChartShapes, ChartAssumption
        <5>2. \A t \in kept : t < Edge
          BY <5>1
        <5> QED BY <5>2, <2>1, <3>1 DEF SeriesHolds
      <4>2. Joins(kept, h)
        BY <4>1, <3>1, <2>1 DEF GoodHistory, SeriesHolds
      <4> QED BY <4>2, <3>1, <1>5
    <3>2. CASE chart # c
      BY <3>2, <2>1, <1>5 DEF SeriesHolds
    <3> QED BY <3>1, <3>2
  <2>4. ASSUME NEW i \in DOMAIN replies', replies'[i].type = "INIT", replies'[i].chart = chart
        PROVE  Joins(kept, replies'[i].history)
    <3>1. CASE i \in DOMAIN q /\ replies'[i] = q[i]
      <4>1. InitAt(replies, i) /\ replies[i] = q[i] /\ i \in DOMAIN replies
        BY <3>1, <2>4, <1>7 DEF InitAt
      <4> QED BY <4>1, <3>1, <2>1, <2>4 DEF SeriesHolds
    <3>2. CASE replies'[i] = m
      BY <3>2, <2>3, <2>4, <1>4, <1>5
    <3> QED BY <1>6, <3>1, <3>2
  <2>5. (\A t \in DOMAIN historyBars : historyBars[t] = chart) /\ \A t \in kept : NotJumped(t)
    BY <2>1 DEF SeriesHolds
  <2> QED BY <2>2, <2>3, <2>4, <2>5, <1>2 DEF SeriesHolds, InitAt, Joins, NotJumped, Behind
<1>16. ASSUME key' = chart', ~mixed' PROVE PagesHold'
  <2>1. PagesHold
    BY <1>2, <1>16 DEF ChartIInv
  <2>2. UNCHANGED <<historyBars, kept, historyCursor, chart>>
    BY <1>2
  <2>3. Joins(kept, DOMAIN historyBars)' /\ (historyCursor # None => Reached(historyCursor))'
    BY <2>1, <2>2 DEF PagesHold, Joins, Reached, HistoryIsFull
  <2>4. ASSUME NEW i \in DOMAIN chartWire', chartWire'[i].type = "HISTORY", chartWire'[i].chart = chart
        PROVE  Reached(chartWire'[i].before)
    <3>1. PICK j \in DOMAIN chartWire : chartWire'[i] = chartWire[j]
      BY <2>4 DEF ContextTakes, WireShrinks
    <3>2. Reached(chartWire[j].before)
      <4>1. chartWire[j].type = "HISTORY" /\ chartWire[j].chart = chart
        BY <3>1, <2>4
      <4> QED BY <4>1, <2>1 DEF PagesHold
    <3> QED BY <3>1, <3>2
  <2>5. ASSUME NEW f \in fetches', f.m.chart = chart
        PROVE  WaitJoins(f)
    <3>1. f \in fetches
      BY <1>2
    <3> QED BY <3>1, <2>1, <2>5 DEF PagesHold
  <2>6. ASSUME NEW i \in DOMAIN replies', replies'[i].type = "HISTORY", replies'[i].chart = chart
        PROVE  PageJoins(replies'[i].bars)
    <3>1. replies'[i] # m
      BY <2>6, <1>4
    <3>2. i \in DOMAIN replies /\ replies'[i] = replies[i]
      BY <3>1, <1>6, <1>7
    <3> QED BY <3>2, <2>1, <2>6 DEF PagesHold
  <2> QED BY <2>2, <2>3, <2>4, <2>5, <2>6 DEF PagesHold, WaitJoins, PageJoins, Reached, HistoryIsFull, Joins
<1> QED BY <1>8, <1>9, <1>14, <1>15, <1>16 DEF ChartIInv

-----------------------------------------------------------------------------
(* Requests, answers and bars of the store.                                *)

Claimed == key = chart /\ ~mixed

ServerGoesOn ==
  /\ now' \in Nat /\ now' >= Edge /\ subscribed' \in Charts
  /\ table' \in [Charts -> BarSets]
  /\ \A c \in Charts : table[c] \subseteq table'[c] /\ \A t \in table'[c] : t \in table[c] \/ t \in Vendor \/ t >= Edge
  /\ chartWire' \in Seq(Asks) /\ replies' \in Seq(Answers) /\ fetches' \in SUBSET Waiting
  /\ \A i \in DOMAIN chartWire' :
       \/ \E j \in DOMAIN chartWire : chartWire'[i] = chartWire[j]
       \/ Claimed /\ chartWire'[i].type = "HISTORY" /\ chartWire'[i].chart = chart => Reached(chartWire'[i].before)
  /\ \A f \in fetches' : f \in fetches \/ (Claimed /\ f.m.chart = chart => WaitJoins(f))
  /\ \A i \in DOMAIN replies' :
       \/ i \in DOMAIN replies /\ replies'[i] = replies[i]
       \/ /\ replies'[i].type # "INIT"
          /\ Claimed /\ replies'[i].type = "HISTORY" /\ replies'[i].chart = chart => PageJoins(replies'[i].bars)
  /\ UNCHANGED <<historyBarsByTf, chart, series, historyCursor>>

LEMMA ServerGoesOnStep ==
  ASSUME ChartAssumption, ChartIInv, ServerGoesOn
  PROVE  ChartIInv'
<1>1. ChartShapes /\ Queue /\ \A c \in Charts : Context(c)
  BY DEF ChartIInv
<1>2. UNCHANGED <<historyBarsByTf, chart, key, bars, historyBars, mixed, kept, historyCursor>>
  BY DEF ServerGoesOn, series
<1>3. ChartShapes'
  BY <1>1, <1>2 DEF ChartShapes, ServerGoesOn
<1>4. ASSUME NEW c \in Charts PROVE Context(c)'
  <2>1. ASSUME historyBarsByTf[c] # {}, NEW t \in table'[c], t < Edge, Behind(t, historyBarsByTf[c]) PROVE NotJumped(t)
    <3>1. t \in Nat /\ Edge \in Nat
      BY DEF ServerGoesOn, BarSets, ChartAssumption
    <3>2. t \in table[c] \/ t \in Vendor
      BY <3>1, <2>1 DEF ServerGoesOn
    <3>3. CASE t \in Vendor
      BY <3>3 DEF NotJumped
    <3>4. CASE t \in table[c]
      BY <3>4, <2>1, <1>1 DEF Context
    <3> QED BY <3>2, <3>3, <3>4
  <2> QED BY <2>1, <1>2 DEF Context, NotJumped, Behind
<1>5. ASSUME NEW i \in DOMAIN replies', replies'[i].type = "INIT"
      PROVE  i \in DOMAIN replies /\ replies'[i] = replies[i] /\ InitAt(replies, i) /\ replies[i].chart \in Charts
  <2>1. i \in DOMAIN replies /\ replies'[i] = replies[i]
    BY <1>5 DEF ServerGoesOn
  <2>2. replies[i] \in Answers
    BY <2>1, <1>1 DEF ChartShapes
  <2> QED BY <2>1, <2>2, <1>5, AnAnswer DEF InitAt
<1>6. Queue'
  <2>1. ASSUME NEW i \in DOMAIN replies', replies'[i].type = "INIT"
        PROVE  /\ replies'[i].stored \subseteq table'[replies'[i].chart] /\ (\A t \in Older(replies'[i]) : NotJumped(t))
               /\ Joins(Older(replies'[i]), historyBarsByTf'[replies'[i].chart])
    <3>1. i \in DOMAIN replies /\ replies'[i] = replies[i] /\ InitAt(replies, i) /\ replies[i].chart \in Charts
      BY <1>5, <2>1
    <3>2. SnapshotFits(replies[i])
      BY <3>1, <1>1 DEF Queue
    <3>3. table[replies[i].chart] \subseteq table'[replies[i].chart]
      BY <3>1 DEF ServerGoesOn
    <3> QED BY <3>1, <3>2, <3>3, <1>2 DEF SnapshotFits
  <2>2. ASSUME NEW i \in DOMAIN replies', NEW j \in DOMAIN replies', replies'[i].type = "INIT", replies'[j].type = "INIT",
               i < j, replies'[i].chart = replies'[j].chart
        PROVE  Joins(Older(replies'[i]), replies'[j].history)
    BY <1>5, <1>1, <2>2 DEF Queue
  <2> QED BY <2>1, <2>2 DEF Queue, SnapshotFits, InitAt, Older, Joins, NotJumped, Behind
<1>7. ASSUME key' = chart' PROVE SeriesHolds'
  <2>1. SeriesHolds /\ chart \in Charts
    BY <1>1, <1>2, <1>7 DEF ChartIInv, ChartShapes
  <2>2. kept \subseteq table'[chart]
    BY <2>1 DEF SeriesHolds, ServerGoesOn
  <2>3. ASSUME NEW i \in DOMAIN replies', replies'[i].type = "INIT", replies'[i].chart = chart
        PROVE  Joins(kept, replies'[i].history)
    BY <1>5, <2>1, <2>3 DEF SeriesHolds
  <2> QED BY <2>1, <2>2, <2>3, <1>2 DEF SeriesHolds, InitAt, Joins, NotJumped, Behind
<1>8. ASSUME key' = chart', ~mixed' PROVE PagesHold'
  <2>1. Claimed /\ PagesHold
    BY <1>2, <1>8 DEF ChartIInv, Claimed
  <2>2. ASSUME NEW i \in DOMAIN chartWire', chartWire'[i].type = "HISTORY", chartWire'[i].chart = chart
        PROVE  Reached(chartWire'[i].before)
    <3>1. CASE \E j \in DOMAIN chartWire : chartWire'[i] = chartWire[j]
      <4>1. PICK j \in DOMAIN chartWire : chartWire'[i] = chartWire[j]
        BY <3>1
      <4>2. chartWire[j].type = "HISTORY" /\ chartWire[j].chart = chart
        BY <4>1, <2>2
      <4>3. Reached(chartWire[j].before)
        BY <4>2, <2>1 DEF PagesHold
      <4> QED BY <4>1, <4>3
    <3>2. CASE ~ \E j \in DOMAIN chartWire : chartWire'[i] = chartWire[j]
      BY <3>2, <2>1, <2>2 DEF ServerGoesOn
    <3> QED BY <3>1, <3>2
  <2>3. ASSUME NEW f \in fetches', f.m.chart = chart
        PROVE  WaitJoins(f)
    BY <2>1, <2>3 DEF PagesHold, ServerGoesOn
  <2>4. ASSUME NEW i \in DOMAIN replies', replies'[i].type = "HISTORY", replies'[i].chart = chart
        PROVE  PageJoins(replies'[i].bars)
    BY <2>1, <2>4 DEF PagesHold, ServerGoesOn
  <2>5. Joins(kept, DOMAIN historyBars) /\ (historyCursor # None => Reached(historyCursor))
    BY <2>1 DEF PagesHold
  <2> QED BY <2>2, <2>3, <2>4, <2>5, <1>2 DEF PagesHold, WaitJoins, PageJoins, Reached, HistoryIsFull, Joins
<1> QED BY <1>3, <1>4, <1>6, <1>7, <1>8 DEF ChartIInv

(* A purge takes bars from what the store has, and from what it must have.                      *)
LEMMA PurgeStep ==
  ASSUME ChartAssumption, ChartIInv, NEW cutoff \in Nat, PurgeBars(cutoff)
  PROVE  ChartIInv'
<1>1. ChartShapes /\ Queue /\ \A c \in Charts : Context(c)
  BY DEF ChartIInv
<1>2. /\ UNCHANGED <<now, historyBarsByTf, subscribed, fetches, chartWire, chart, key, bars, historyBars, mixed, historyCursor>>
      /\ table' = [c \in Charts |-> {t \in table[c] : t >= cutoff}]
      /\ kept' = {t \in kept : t >= cutoff}
      /\ replies' = [i \in DOMAIN replies |-> StillStored(replies[i], cutoff)]
  BY DEF PurgeBars, paging
<1>3. table' \in [Charts -> BarSets] /\ \A c \in Charts : table'[c] = {t \in table[c] : t >= cutoff}
  <2>1. ASSUME NEW c \in Charts PROVE {t \in table[c] : t >= cutoff} \in BarSets
    <3>1. table[c] \in SUBSET Nat /\ IsFiniteSet(table[c])
      BY <1>1 DEF ChartShapes, BarSets
    <3>2. {t \in table[c] : t >= cutoff} \in SUBSET table[c]
      OBVIOUS
    <3>3. IsFiniteSet({t \in table[c] : t >= cutoff})
      BY <3>1, <3>2, FS_Subset
    <3> QED BY <3>1, <3>2, <3>3 DEF BarSets
  <2> QED BY <2>1, <1>2
<1>4. ASSUME NEW m \in Answers
      PROVE  /\ StillStored(m, cutoff) \in Answers
             /\ StillStored(m, cutoff).type = m.type /\ StillStored(m, cutoff).chart = m.chart
             /\ m.type = "INIT" => /\ StillStored(m, cutoff).history = m.history
                                  /\ StillStored(m, cutoff).stored = {t \in m.stored : t >= cutoff}
             /\ m.type # "INIT" => StillStored(m, cutoff) = m
  <2>1. CASE m.type = "INIT"
    <3>1. m \in Snapshots
      BY <2>1, AnAnswer
    <3>2. StillStored(m, cutoff) = [m EXCEPT !.stored = {t \in m.stored : t >= cutoff}]
      BY <2>1 DEF StillStored
    <3> DEFINE kept2 == {t \in m.stored : t >= cutoff}
    <3>3. kept2 \in SUBSET Nat
      BY <3>1 DEF Snapshots
    <3> HIDE DEF kept2
    <3>4. [m EXCEPT !.stored = kept2] \in Snapshots /\ [m EXCEPT !.stored = kept2].stored = kept2
          /\ [m EXCEPT !.stored = kept2].history = m.history /\ [m EXCEPT !.stored = kept2].chart = m.chart
          /\ [m EXCEPT !.stored = kept2].type = m.type
      BY <3>1, <3>3 DEF Snapshots
    <3> QED BY <3>2, <3>4, <2>1 DEF kept2, Answers
  <2>2. CASE m.type # "INIT"
    BY <2>2 DEF StillStored
  <2> QED BY <2>1, <2>2
<1>5. replies' \in Seq(Answers) /\ DOMAIN replies' = DOMAIN replies
      /\ \A i \in DOMAIN replies : replies[i] \in Answers /\ replies'[i] = StillStored(replies[i], cutoff)
  <2>1. replies \in Seq(Answers) /\ DOMAIN replies = 1..Len(replies) /\ Len(replies) \in Nat
        /\ \A i \in DOMAIN replies : replies[i] \in Answers
    BY <1>1, LenProperties DEF ChartShapes
  <2>2. replies' \in [1..Len(replies) -> Answers]
    <3>1. \A i \in 1..Len(replies) : StillStored(replies[i], cutoff) \in Answers
      BY <2>1, <1>4
    <3> QED BY <3>1, <2>1, <1>2
  <2>3. replies' \in Seq(Answers)
    BY <2>1, <2>2, IsASeq
  <2> QED BY <2>1, <2>3, <1>2
<1>6. ChartShapes'
  <2>1. kept' \in SUBSET (0..(Edge - 1))
    BY <1>1, <1>2 DEF ChartShapes
  <2> QED BY <1>1, <1>2, <1>3, <1>5, <2>1 DEF ChartShapes
<1>7. ASSUME NEW c \in Charts PROVE Context(c)'
  <2>1. Context(c)
    BY <1>1
  <2> QED BY <2>1, <1>2, <1>3 DEF Context, NotJumped, Behind
<1>8. ASSUME NEW i \in DOMAIN replies', replies'[i].type = "INIT"
      PROVE  /\ i \in DOMAIN replies /\ InitAt(replies, i) /\ replies[i].chart \in Charts /\ replies'[i].chart = replies[i].chart
             /\ replies'[i].history = replies[i].history
             /\ replies'[i].stored = {t \in replies[i].stored : t >= cutoff}
             /\ Older(replies'[i]) \subseteq Older(replies[i])
  <2>1. i \in DOMAIN replies /\ replies[i] \in Answers /\ replies'[i] = StillStored(replies[i], cutoff)
    BY <1>5
  <2>2. /\ replies[i].type = "INIT" /\ replies'[i].chart = replies[i].chart /\ replies'[i].history = replies[i].history
        /\ replies'[i].stored = {t \in replies[i].stored : t >= cutoff}
    BY <1>4, <1>8, <2>1
  <2> QED BY <2>1, <2>2, AnAnswer DEF InitAt, Older
<1>9. Queue'
  <2>1. ASSUME NEW i \in DOMAIN replies', replies'[i].type = "INIT"
        PROVE  /\ replies'[i].stored \subseteq table'[replies'[i].chart] /\ (\A t \in Older(replies'[i]) : NotJumped(t))
               /\ Joins(Older(replies'[i]), historyBarsByTf'[replies'[i].chart])
    <3>1. /\ i \in DOMAIN replies /\ InitAt(replies, i) /\ replies[i].chart \in Charts /\ replies'[i].chart = replies[i].chart
          /\ replies'[i].stored = {t \in replies[i].stored : t >= cutoff}
          /\ Older(replies'[i]) \subseteq Older(replies[i])
      BY <1>8, <2>1
    <3>2. SnapshotFits(replies[i])
      BY <3>1, <1>1 DEF Queue
    <3>3. table'[replies[i].chart] = {t \in table[replies[i].chart] : t >= cutoff}
      BY <3>1, <1>3
    <3> QED BY <3>1, <3>2, <3>3, <1>2 DEF SnapshotFits, Joins
  <2>2. ASSUME NEW i \in DOMAIN replies', NEW j \in DOMAIN replies', replies'[i].type = "INIT", replies'[j].type = "INIT",
               i < j, replies'[i].chart = replies'[j].chart
        PROVE  Joins(Older(replies'[i]), replies'[j].history)
    <3>1. Joins(Older(replies[i]), replies[j].history)
      BY <1>8, <1>1, <2>2 DEF Queue
    <3>2. Older(replies'[i]) \subseteq Older(replies[i]) /\ replies'[j].history = replies[j].history
      BY <1>8, <2>2
    <3> QED BY <3>1, <3>2 DEF Joins
  <2> QED BY <2>1, <2>2 DEF Queue, SnapshotFits, InitAt, Older, Joins, NotJumped, Behind
<1>10. ASSUME key' = chart' PROVE SeriesHolds'
  <2>1. SeriesHolds /\ chart \in Charts
    BY <1>1, <1>2, <1>10 DEF ChartIInv, ChartShapes
  <2>2. kept' \subseteq table'[chart] /\ kept' \subseteq kept
    BY <2>1, <1>2, <1>3 DEF SeriesHolds
  <2>3. ASSUME NEW i \in DOMAIN replies', replies'[i].type = "INIT", replies'[i].chart = chart
        PROVE  Joins(kept', replies'[i].history)
    <3>1. Joins(kept, replies[i].history) /\ replies'[i].history = replies[i].history
      BY <1>8, <2>1, <2>3 DEF SeriesHolds
    <3> QED BY <3>1, <2>2 DEF Joins
  <2>4. Joins(kept', historyBarsByTf[chart])
    BY <2>1, <2>2 DEF SeriesHolds, Joins
  <2>5. (\A t \in DOMAIN historyBars : historyBars[t] = chart) /\ \A t \in kept' : NotJumped(t)
    BY <2>1, <2>2 DEF SeriesHolds
  <2>6. UNCHANGED <<historyBars, chart, historyBarsByTf>>
    BY <1>2
  <2> QED BY <2>2, <2>3, <2>4, <2>5, <2>6 DEF SeriesHolds, InitAt, Joins, NotJumped, Behind
<1>11. ASSUME key' = chart', ~mixed' PROVE PagesHold'
  <2>1. PagesHold
    BY <1>2, <1>11 DEF ChartIInv
  <2>2. kept' \subseteq kept /\ UNCHANGED <<historyBars, chart, historyCursor, chartWire, fetches>>
    BY <1>2
  <2>3. \A i \in DOMAIN replies' : replies'[i].type = "HISTORY" => i \in DOMAIN replies /\ replies'[i] = replies[i]
    <3>1. ASSUME NEW i \in DOMAIN replies', replies'[i].type = "HISTORY"
          PROVE  i \in DOMAIN replies /\ replies'[i] = replies[i]
      <4>1. i \in DOMAIN replies /\ replies[i] \in Answers /\ replies'[i] = StillStored(replies[i], cutoff)
        BY <1>5
      <4>2. replies[i].type = "HISTORY"
        BY <4>1, <1>4, <3>1
      <4> QED BY <4>1, <4>2, <1>4
    <3> QED BY <3>1
  <2>4. \A x : Reached(x) => (HistoryIsFull \/ \A t \in kept' : t >= x => t \in DOMAIN historyBars)
    BY <2>2 DEF Reached
  <2>5. ASSUME NEW f \in fetches, f.m.chart = chart
        PROVE  /\ HistoryIsFull \/ \A t \in kept' : t >= f.m.before => t \in DOMAIN historyBars
               /\ Joins({t \in kept' : t < f.m.before}, f.result.bars)
    <3>1. WaitJoins(f)
      BY <2>1, <2>5 DEF PagesHold
    <3> QED BY <3>1, <2>2 DEF WaitJoins, Joins, Reached
  <2>6. ASSUME NEW i \in DOMAIN replies', replies'[i].type = "HISTORY", replies'[i].chart = chart
        PROVE  \/ HistoryIsFull
               \/ \A t \in kept', x \in replies'[i].bars : t >= x => t \in DOMAIN historyBars \cup replies'[i].bars
    <3>1. PageJoins(replies'[i].bars)
      BY <2>1, <2>3, <2>6 DEF PagesHold
    <3> QED BY <3>1, <2>2 DEF PageJoins
  <2>7. Joins(kept', DOMAIN historyBars)
    BY <2>1, <2>2 DEF PagesHold, Joins
  <2>8. ASSUME NEW i \in DOMAIN chartWire, chartWire[i].type = "HISTORY", chartWire[i].chart = chart
        PROVE  HistoryIsFull \/ \A t \in kept' : t >= chartWire[i].before => t \in DOMAIN historyBars
    BY <2>1, <2>4, <2>8 DEF PagesHold
  <2>9. historyCursor # None => (HistoryIsFull \/ \A t \in kept' : t >= historyCursor => t \in DOMAIN historyBars)
    BY <2>1, <2>4 DEF PagesHold
  <2> QED BY <2>2, <2>5, <2>6, <2>7, <2>8, <2>9 DEF PagesHold, WaitJoins, PageJoins, Reached, HistoryIsFull, Joins
<1> QED BY <1>6, <1>7, <1>9, <1>10, <1>11 DEF ChartIInv

-----------------------------------------------------------------------------
(* What the browser takes from the queue.                                  *)

LEMMA QueueMovesOn ==
  ASSUME ChartAssumption, ChartIInv, replies # << >>, replies' = Tail(replies), UNCHANGED server
  PROVE  /\ replies' \in Seq(Answers) /\ Head(replies) \in Answers
         /\ \A i \in DOMAIN replies' : i + 1 \in DOMAIN replies /\ replies'[i] = replies[i + 1] /\ i + 1 > 1
         /\ 1 \in DOMAIN replies /\ replies[1] = Head(replies)
         /\ Queue' /\ \A c \in Charts : Context(c)'
<1>1. ChartShapes /\ Queue /\ \A c \in Charts : Context(c)
  BY DEF ChartIInv
<1>2. replies \in Seq(Answers) /\ UNCHANGED <<table, historyBarsByTf>>
  BY <1>1 DEF ChartShapes, server
<1>3. replies' \in Seq(Answers) /\ Head(replies) \in Answers /\ Head(replies) = replies[1] /\ 1 \in DOMAIN replies
  BY <1>2, FirstTaken
<1>4. ASSUME NEW i \in DOMAIN replies'
      PROVE  i + 1 \in DOMAIN replies /\ replies'[i] = replies[i + 1] /\ i \in Nat /\ i + 1 > 1
  <2>1. DOMAIN replies = 1..Len(replies) /\ Len(replies) \in Nat /\ DOMAIN replies' = 1..Len(replies') /\ Len(replies') = Len(replies) - 1
    BY <1>2, <1>3, FirstTaken, LenProperties
  <2>2. i \in 1..(Len(replies) - 1)
    BY <2>1
  <2>3. Tail(replies)[i] = replies[i + 1]
    BY <1>2, <2>2
  <2> QED BY <2>1, <2>2, <2>3
<1>5. Queue'
  <2>1. ASSUME NEW i \in DOMAIN replies', replies'[i].type = "INIT"
        PROVE  /\ replies'[i].stored \subseteq table'[replies'[i].chart] /\ (\A t \in Older(replies'[i]) : NotJumped(t))
               /\ Joins(Older(replies'[i]), historyBarsByTf'[replies'[i].chart])
    <3>1. InitAt(replies, i + 1) /\ i + 1 \in DOMAIN replies /\ replies'[i] = replies[i + 1]
      BY <1>4, <2>1 DEF InitAt
    <3>2. SnapshotFits(replies[i + 1])
      BY <3>1, <1>1 DEF Queue
    <3> QED BY <3>1, <3>2, <1>2 DEF SnapshotFits
  <2>2. ASSUME NEW i \in DOMAIN replies', NEW j \in DOMAIN replies', replies'[i].type = "INIT", replies'[j].type = "INIT",
               i < j, replies'[i].chart = replies'[j].chart
        PROVE  Joins(Older(replies'[i]), replies'[j].history)
    <3>1. /\ InitAt(replies, i + 1) /\ i + 1 \in DOMAIN replies /\ replies'[i] = replies[i + 1] /\ i \in Nat
          /\ InitAt(replies, j + 1) /\ j + 1 \in DOMAIN replies /\ replies'[j] = replies[j + 1] /\ j \in Nat
      BY <1>4, <2>2 DEF InitAt
    <3>2. i + 1 < j + 1
      BY <3>1, <2>2
    <3> QED BY <3>1, <3>2, <1>1, <2>2 DEF Queue
  <2> QED BY <2>1, <2>2 DEF Queue, SnapshotFits, InitAt, Older, Joins, NotJumped, Behind
<1>6. ASSUME NEW c \in Charts PROVE Context(c)'
  <2>1. Context(c)
    BY <1>1
  <2> QED BY <2>1, <1>2 DEF Context, NotJumped, Behind
<1> QED BY <1>3, <1>4, <1>5, <1>6

(* More bars in the history, cut to the newest. *)
LEMMA HistoryMerges ==
  ASSUME ChartAssumption, NEW H \in BarSets, NEW X \in BarSets, NEW N,
         N = Newest(H \cup X, MAX_CLIENT_HISTORY_BARS)
  PROVE  /\ N \in BarSets /\ N \subseteq H \cup X
         /\ Cardinality(H) >= MAX_CLIENT_HISTORY_BARS => Cardinality(N) >= MAX_CLIENT_HISTORY_BARS
         /\ Cardinality(N) >= MAX_CLIENT_HISTORY_BARS \/ N = H \cup X
<1> DEFINE M == MAX_CLIENT_HISTORY_BARS
           all == H \cup X
<1>1. M \in Nat /\ H \in SUBSET Nat /\ IsFiniteSet(H) /\ X \in SUBSET Nat /\ IsFiniteSet(X)
  BY DEF ChartAssumption, BarSets
<1>0. N = Newest(all, M)
  OBVIOUS
<1>2. all \in SUBSET Nat /\ IsFiniteSet(all) /\ H \in SUBSET all
  BY <1>1, FS_Union
<1>3. Cardinality(H) \in Nat /\ Cardinality(all) \in Nat /\ Cardinality(H) <= Cardinality(all)
  <2> HIDE DEF all, M
  <2> QED BY <1>1, <1>2, FS_Subset, FS_CardinalityType
<1>4. N \in SUBSET all /\ IsFiniteSet(N) /\ Cardinality(N) \in Nat
  <2> HIDE DEF all, M
  <2> QED BY <1>0, <1>1, <1>2, NewestArePart, FS_CardinalityType
<1>5. Cardinality(all) >= M => Cardinality(N) >= M
  <2> HIDE DEF all, M
  <2> QED BY <1>0, <1>1, <1>2, ManyAreLeft
<1>6. Cardinality(all) <= M => N = all
  <2> HIDE DEF all, M
  <2> QED BY <1>0, <1>1, <1>2, FewAreAllNewest
<1>7. Cardinality(H) >= M => Cardinality(N) >= M
  BY <1>1, <1>3, <1>5
<1>8. Cardinality(N) >= M \/ N = all
  <2> HIDE DEF all, M
  <2> QED BY <1>1, <1>3, <1>5, <1>6
<1>9. N \in BarSets
  <2>1. N \in SUBSET Nat
    BY <1>2, <1>4
  <2> HIDE DEF all, M
  <2> QED BY <2>1, <1>4 DEF BarSets
<1> QED BY <1>4, <1>7, <1>8, <1>9

(* What is known of the bars behind it stays so. *)
LEMMA HistoryCloses ==
  ASSUME ChartAssumption, NEW H \in BarSets, NEW X \in BarSets, NEW K \in SUBSET Nat, NEW N,
         N = Newest(H \cup X, MAX_CLIENT_HISTORY_BARS), Joins(K, H),
         Cardinality(H) >= MAX_CLIENT_HISTORY_BARS \/ \A t \in K, x \in X : t >= x => t \in H \cup X
  PROVE  Joins(K, N)
<1> DEFINE M == MAX_CLIENT_HISTORY_BARS
           all == H \cup X
<1>1. M \in Nat /\ H \in SUBSET Nat /\ IsFiniteSet(H) /\ X \in SUBSET Nat /\ IsFiniteSet(X)
  BY DEF ChartAssumption, BarSets
<1>0. N = Newest(all, M)
  OBVIOUS
<1>2. all \in SUBSET Nat /\ IsFiniteSet(all) /\ H \in SUBSET all
  BY <1>1, FS_Union
<1>3. Cardinality(H) \in Nat /\ Cardinality(all) \in Nat /\ Cardinality(H) <= Cardinality(all)
  <2> HIDE DEF all, M
  <2> QED BY <1>1, <1>2, FS_Subset, FS_CardinalityType
<1>4. N \in SUBSET all /\ IsFiniteSet(N) /\ Cardinality(N) \in Nat
  <2> HIDE DEF all, M
  <2> QED BY <1>0, <1>1, <1>2, NewestArePart, FS_CardinalityType
<1>5. Joins(K, H) /\ (Cardinality(H) >= M \/ \A t \in K, x \in X : t >= x => t \in H \cup X)
  OBVIOUS
<1>6. Joins(K, N)
  <2> SUFFICES ASSUME NEW t \in K, NEW x \in N, t >= x PROVE t \in N
    BY DEF Joins
  <2>1. t \in Nat /\ x \in Nat /\ x \in all
    BY <1>2, <1>4
  <2>2. t \in all
    <3>1. CASE Cardinality(H) >= M
      <4>1. \E y \in H : y <= x
        <5>1. SUFFICES ASSUME \A y \in H : ~(y <= x) PROVE FALSE
          OBVIOUS
        <5> DEFINE A == {u \in all : u > x}
        <5>2. Cardinality(A) < M
          BY DEF Newest
        <5>3. H \in SUBSET A /\ A \in SUBSET all
          <6>1. ASSUME NEW y \in H PROVE y > x
            <7>1. y \in Nat /\ ~(y <= x)
              BY <5>1, <1>1
            <7> QED BY <7>1, <2>1
          <6> QED BY <6>1
        <5> HIDE DEF A, all
        <5>4. IsFiniteSet(A) /\ Cardinality(H) <= Cardinality(A) /\ Cardinality(A) \in Nat
          BY <5>3, <1>2, FS_Subset, FS_CardinalityType
        <5> QED BY <5>2, <5>4, <3>1, <1>1, <1>3
      <4>2. PICK y \in H : y <= x
        BY <4>1
      <4>3. t >= y /\ y \in Nat
        BY <4>2, <2>1, <1>1
      <4> QED BY <4>3, <1>5 DEF Joins
    <3>2. CASE \A s \in K, y \in X : s >= y => s \in H \cup X
      BY <3>2, <2>1, <1>5 DEF Joins
    <3> QED BY <1>5, <3>1, <3>2
  <2> HIDE DEF all, M
  <2> QED BY <1>0, <2>1, <2>2, <1>1, <1>2, NewestGoUp
<1> QED BY <1>6

LEMMA MergedSeries ==
  ASSUME NEW old, NEW c, NEW X, NEW N, N = mergeHistorySeries(old, Of(c, X))
  PROVE  /\ DOMAIN N = Newest(DOMAIN old \cup X, MAX_CLIENT_HISTORY_BARS)
         /\ (\A t \in DOMAIN old : old[t] = c) => \A t \in DOMAIN N : N[t] = c
<1> DEFINE o == Over(old, Of(c, X))
<1>1. DOMAIN o = DOMAIN old \cup X /\ \A t \in DOMAIN o : o[t] = IF t \in X THEN c ELSE old[t]
  BY DEF Over, Of
<1>2. N = [t \in Newest(DOMAIN o, MAX_CLIENT_HISTORY_BARS) |-> o[t]]
  BY DEF mergeHistorySeries, Cut
<1> HIDE DEF o
<1>3. Newest(DOMAIN o, MAX_CLIENT_HISTORY_BARS) \subseteq DOMAIN o
  BY DEF Newest
<1> QED BY <1>1, <1>2, <1>3

(* A message that leaves the history alone. *)
LEMMA HistoryStays ==
  ASSUME ChartAssumption, ChartIInv, replies # << >>, replies' = Tail(replies),
         UNCHANGED <<server, chart, chartWire, key, mixed, kept, historyBars, historyCursor>>,
         DOMAIN bars' \in SUBSET {n \in Nat : n >= Edge}
  PROVE  ChartIInv'
<1>1. ChartShapes
  BY DEF ChartIInv
<1>2. /\ replies' \in Seq(Answers)
      /\ \A i \in DOMAIN replies' : i + 1 \in DOMAIN replies /\ replies'[i] = replies[i + 1]
      /\ Queue' /\ \A c \in Charts : Context(c)'
  BY QueueMovesOn
<1>3. UNCHANGED <<now, table, historyBarsByTf, subscribed, fetches, chart, chartWire, key, mixed, kept, historyBars, historyCursor>>
  BY DEF server
<1>4. ChartShapes'
  BY <1>1, <1>2, <1>3 DEF ChartShapes
<1>5. ASSUME key' = chart' PROVE SeriesHolds'
  <2>1. SeriesHolds
    BY <1>3, <1>5 DEF ChartIInv
  <2>2. ASSUME NEW i \in DOMAIN replies', InitAt(replies, i + 1), replies'[i].chart = chart
        PROVE  Joins(kept, replies'[i].history)
    <3>1. i + 1 \in DOMAIN replies /\ replies'[i] = replies[i + 1]
      BY <1>2
    <3> QED BY <3>1, <2>1, <2>2 DEF SeriesHolds
  <2>3. \A i \in DOMAIN replies' : replies'[i].type = "INIT" => InitAt(replies, i + 1)
    BY <1>2 DEF InitAt
  <2> QED BY <2>1, <2>2, <2>3, <1>3 DEF SeriesHolds, InitAt, Joins, NotJumped, Behind
<1>6. ASSUME key' = chart', ~mixed' PROVE PagesHold'
  <2>1. PagesHold
    BY <1>3, <1>6 DEF ChartIInv
  <2>2. ASSUME NEW i \in DOMAIN replies', replies'[i].type = "HISTORY", replies'[i].chart = chart
        PROVE  PageJoins(replies'[i].bars)
    <3>1. i + 1 \in DOMAIN replies /\ replies'[i] = replies[i + 1]
      BY <1>2
    <3> QED BY <3>1, <2>1, <2>2 DEF PagesHold
  <2> QED BY <2>1, <2>2, <1>3 DEF PagesHold, WaitJoins, PageJoins, Reached, HistoryIsFull, Joins
<1> QED BY <1>2, <1>4, <1>5, <1>6 DEF ChartIInv

(* A message that brings bars of the chart to the history. *)
LEMMA HistoryGrows ==
  ASSUME ChartAssumption, ChartIInv, replies # << >>, replies' = Tail(replies),
         UNCHANGED <<server, chart, chartWire, key, mixed, kept>>,
         DOMAIN bars' \in SUBSET {n \in Nat : n >= Edge},
         NEW X \in BarSets, historyBars' = mergeHistorySeries(historyBars, Of(chart, X)),
         historyCursor' \in X \cup {historyCursor},
         key = chart /\ ~mixed => PageJoins(X)
  PROVE  ChartIInv'
<1> DEFINE H == DOMAIN historyBars
           N == DOMAIN historyBars'
<1>1. ChartShapes
  BY DEF ChartIInv
<1>2. /\ replies' \in Seq(Answers)
      /\ \A i \in DOMAIN replies' : i + 1 \in DOMAIN replies /\ replies'[i] = replies[i + 1]
      /\ Queue' /\ \A c \in Charts : Context(c)'
  BY QueueMovesOn
<1>3. UNCHANGED <<now, table, historyBarsByTf, subscribed, fetches, chart, chartWire, key, mixed, kept>>
  BY DEF server
<1>4. N = Newest(H \cup X, MAX_CLIENT_HISTORY_BARS)
      /\ ((\A t \in H : historyBars[t] = chart) => \A t \in N : historyBars'[t] = chart)
  BY MergedSeries
<1>5. H \in BarSets /\ kept \in SUBSET Nat
  BY <1>1 DEF ChartShapes
<1>6. /\ N \in BarSets /\ N \subseteq H \cup X
      /\ Cardinality(H) >= MAX_CLIENT_HISTORY_BARS => Cardinality(N) >= MAX_CLIENT_HISTORY_BARS
      /\ Cardinality(N) >= MAX_CLIENT_HISTORY_BARS \/ N = H \cup X
      /\ Joins(kept, H) /\ PageJoins(X) => Joins(kept, N)
  <2> HIDE DEF N, H
  <2>1. N = Newest(H \cup X, MAX_CLIENT_HISTORY_BARS)
    BY <1>4
  <2>2. /\ N \in BarSets /\ N \subseteq H \cup X
        /\ Cardinality(H) >= MAX_CLIENT_HISTORY_BARS => Cardinality(N) >= MAX_CLIENT_HISTORY_BARS
        /\ Cardinality(N) >= MAX_CLIENT_HISTORY_BARS \/ N = H \cup X
    BY <2>1, <1>5, HistoryMerges
  <2>3. ASSUME Joins(kept, H), Cardinality(H) >= MAX_CLIENT_HISTORY_BARS \/ \A t \in kept, x \in X : t >= x => t \in H \cup X
        PROVE  Joins(kept, N)
    BY <2>1, <2>3, <1>5, HistoryCloses
  <2> QED BY <2>2, <2>3 DEF H, PageJoins, HistoryIsFull
<1>7. ChartShapes'
  <2>1. historyCursor' \in Nat \cup {None}
    BY <1>1 DEF ChartShapes, BarSets
  <2>2. DOMAIN historyBars' \in BarSets
    BY <1>6
  <2> HIDE DEF N, H
  <2> QED BY <1>1, <1>2, <1>3, <2>1, <2>2 DEF ChartShapes
<1>8. ASSUME key' = chart' PROVE SeriesHolds'
  <2>1. SeriesHolds
    BY <1>3, <1>8 DEF ChartIInv
  <2>2. ASSUME NEW i \in DOMAIN replies', InitAt(replies, i + 1), replies'[i].chart = chart
        PROVE  Joins(kept, replies'[i].history)
    <3>1. i + 1 \in DOMAIN replies /\ replies'[i] = replies[i + 1]
      BY <1>2
    <3> QED BY <3>1, <2>1, <2>2 DEF SeriesHolds
  <2>3. \A i \in DOMAIN replies' : replies'[i].type = "INIT" => InitAt(replies, i + 1)
    BY <1>2 DEF InitAt
  <2>4. \A t \in DOMAIN historyBars' : historyBars'[t] = chart
    BY <2>1, <1>4 DEF SeriesHolds
  <2> HIDE DEF N, H
  <2> QED BY <2>1, <2>2, <2>3, <2>4, <1>3 DEF SeriesHolds, InitAt, Joins, NotJumped, Behind
<1>9. ASSUME key' = chart', ~mixed' PROVE PagesHold'
  <2>1. PagesHold /\ PageJoins(X)
    BY <1>3, <1>9 DEF ChartIInv
  <2>2. HistoryIsFull => HistoryIsFull'
    BY <1>6 DEF HistoryIsFull
  <2>3. HistoryIsFull' \/ N = H \cup X
    BY <1>6 DEF HistoryIsFull
  <2>4. Joins(kept, N)
    BY <1>6, <2>1 DEF PagesHold
  <2>5. \A x : Reached(x) => HistoryIsFull' \/ \A t \in kept : t >= x => t \in N
    BY <2>2, <2>3 DEF Reached
  <2>6. \A times : PageJoins(times) => HistoryIsFull' \/ \A t \in kept, x \in times : t >= x => t \in N \cup times
    BY <2>2, <2>3 DEF PageJoins
  <2>7. ASSUME historyCursor' # None
        PROVE  HistoryIsFull' \/ \A t \in kept : t >= historyCursor' => t \in N
    <3>1. CASE historyCursor' = historyCursor
      BY <3>1, <2>1, <2>5, <2>7 DEF PagesHold
    <3>2. CASE historyCursor' \in X
      BY <3>2, <2>1, <2>2, <2>3 DEF PageJoins
    <3> QED BY <3>1, <3>2
  <2>8. ASSUME NEW i \in DOMAIN replies', replies'[i].type = "HISTORY", replies'[i].chart = chart
        PROVE  HistoryIsFull' \/ \A t \in kept, x \in replies'[i].bars : t >= x => t \in N \cup replies'[i].bars
    <3>1. i + 1 \in DOMAIN replies /\ replies'[i] = replies[i + 1]
      BY <1>2
    <3>2. PageJoins(replies[i + 1].bars)
      BY <3>1, <2>1, <2>8 DEF PagesHold
    <3> HIDE DEF N
    <3> QED BY <3>1, <3>2, <2>6
  <2>9. ASSUME NEW i \in DOMAIN chartWire, chartWire[i].type = "HISTORY", chartWire[i].chart = chart
        PROVE  HistoryIsFull' \/ \A t \in kept : t >= chartWire[i].before => t \in N
    <3>1. Reached(chartWire[i].before)
      BY <2>1, <2>9 DEF PagesHold
    <3> QED BY <3>1, <2>5
  <2>10. ASSUME NEW f \in fetches, f.m.chart = chart
         PROVE  /\ HistoryIsFull' \/ \A t \in kept : t >= f.m.before => t \in N
                /\ Joins({t \in kept : t < f.m.before}, f.result.bars)
    <3>1. WaitJoins(f)
      BY <2>1, <2>10 DEF PagesHold
    <3> QED BY <3>1, <2>5 DEF WaitJoins
  <2>11. UNCHANGED <<kept, chart, chartWire, fetches>>
    BY <1>3
  <2>12. N = DOMAIN historyBars'
    OBVIOUS
  <2> HIDE DEF N, H
  <2> QED BY <2>4, <2>7, <2>8, <2>9, <2>10, <2>11, <2>12 DEF PagesHold, WaitJoins, PageJoins, Reached, HistoryIsFull, Joins
<1> QED BY <1>2, <1>7, <1>8, <1>9 DEF ChartIInv

(* A snapshot starts the series. *)
LEMMA SeriesStarts ==
  ASSUME ChartAssumption, ChartIInv, replies # << >>, replies' = Tail(replies),
         UNCHANGED <<server, chart, chartWire>>,
         NEW m, m = Head(replies), m.type = "INIT", m.chart = chart, onInitState(m), key # chart
  PROVE  ChartIInv'
<1>1. ChartShapes /\ Queue
  BY DEF ChartIInv
<1>2. /\ replies' \in Seq(Answers) /\ Head(replies) \in Answers
      /\ \A i \in DOMAIN replies' : i + 1 \in DOMAIN replies /\ replies'[i] = replies[i + 1] /\ i + 1 > 1
      /\ 1 \in DOMAIN replies /\ replies[1] = Head(replies)
      /\ Queue' /\ \A c \in Charts : Context(c)'
  BY QueueMovesOn
<1>3. UNCHANGED <<now, table, historyBarsByTf, subscribed, fetches, chart, chartWire>>
  BY DEF server
<1>4. m \in Snapshots /\ Edge \in Nat /\ chart \in Charts
  BY <1>1, <1>2, AnAnswer DEF ChartAssumption, ChartShapes
<1>5. /\ m.history \in SUBSET (0..(Edge - 1)) /\ m.stored \in SUBSET Nat
      /\ m.bars \in SUBSET Nat /\ Edge \in m.bars /\ \A t \in m.bars : t >= Edge
  BY <1>4 DEF Snapshots
<1>6. m.history \in BarSets /\ m.history \in SUBSET Int /\ m.history \in SUBSET Nat
  <2>1. m.history \in SUBSET Nat /\ \A t \in m.history : t <= Edge
    BY <1>4, <1>5
  <2>2. IsFiniteSet(m.history)
    BY <1>4, <2>1, FS_BoundedSetOfNaturals
  <2> QED BY <2>1, <2>2 DEF BarSets
<1> DEFINE oldest == IF m.history # {} THEN Min(m.history) ELSE Min(m.bars)
           old == {t \in m.stored : t < oldest}
<1>7. /\ key' = chart /\ mixed' = PageOnItsWay(chart) /\ historyBars' = Of(chart, m.history)
      /\ historyCursor' = (IF m.history # {} THEN Min(m.history) ELSE None)
      /\ kept' = old /\ bars' = Of(chart, m.bars)
  BY DEF onInitState
<1>8. m.history # {} => Min(m.history) \in m.history /\ \A x \in m.history : Min(m.history) <= x
  BY <1>6, LeastIsLeast DEF BarSets
<1>9. old \subseteq Older(m) /\ old \in SUBSET (0..(Edge - 1))
  <2>1. ASSUME NEW t \in old PROVE t \in Older(m) /\ t \in 0..(Edge - 1)
    <3>1. t \in m.stored /\ t \in Nat /\ t < oldest
      BY <1>5
    <3>2. CASE m.history # {}
      <4> DEFINE x == Min(m.history)
      <4>1. t < x /\ x \in m.history /\ x \in 0..(Edge - 1)
        BY <3>1, <3>2, <1>5, <1>8
      <4>2. \A y \in m.history : x <= y /\ y \in Nat
        BY <3>2, <1>6, <1>8
      <4> HIDE DEF x
      <4>3. t < Edge /\ \A y \in m.history : t < y
        BY <4>1, <4>2, <3>1, <1>4
      <4> QED BY <4>3, <3>1, <1>4 DEF Older, Behind
    <3>3. CASE m.history = {}
      <4>1. Min(m.bars) = Edge
        <5> DEFINE least(y) == \A z \in m.bars : y <= z
        <5>1. Edge \in m.bars /\ least(Edge)
          BY <1>4, <1>5
        <5>2. ASSUME NEW y \in m.bars, least(y) PROVE y = Edge
          <6>1. y \in Nat /\ y <= Edge /\ y >= Edge
            BY <5>1, <5>2, <1>5
          <6> QED BY <6>1, <1>4
        <5>3. Min(m.bars) = CHOOSE y \in m.bars : least(y)
          BY DEF Min
        <5> HIDE DEF least
        <5> QED BY <5>1, <5>2, <5>3
      <4>2. t < Edge
        BY <4>1, <3>1, <3>3
      <4> QED BY <4>2, <3>1, <3>3, <1>4 DEF Older, Behind
    <3> QED BY <3>2, <3>3
  <2> QED BY <2>1
<1> HIDE DEF old, oldest
<1>10. DOMAIN historyBars' = m.history /\ (\A t \in m.history : historyBars'[t] = chart) /\ DOMAIN bars' = m.bars
  BY <1>7 DEF Of
<1>11. ChartShapes'
  <2>1. kept' \in SUBSET (0..(Edge - 1)) /\ DOMAIN historyBars' \in BarSets /\ key' \in Charts
        /\ DOMAIN bars' \in SUBSET {n \in Nat : n >= Edge}
    BY <1>4, <1>5, <1>6, <1>7, <1>9, <1>10
  <2>2. historyCursor' \in Nat \cup {None}
    BY <1>6, <1>7, <1>8
  <2> QED BY <1>1, <1>2, <1>3, <2>1, <2>2 DEF ChartShapes
<1>12. InitAt(replies, 1) /\ replies[1] = m
  BY <1>2 DEF InitAt
<1>13. SnapshotFits(m)
  <2>1. SnapshotFits(replies[1])
    BY <1>1, <1>2, <1>12 DEF Queue
  <2> QED BY <2>1, <1>12
<1>14. SeriesHolds'
  <2>1. ASSUME NEW i \in DOMAIN replies', replies'[i].type = "INIT", replies'[i].chart = chart
        PROVE  Joins(kept', replies'[i].history)
    <3>1. i + 1 \in DOMAIN replies /\ replies'[i] = replies[i + 1] /\ 1 < i + 1
      <4>1. i + 1 \in Int
        <5>1. DOMAIN replies = 1..Len(replies)
          BY <1>1, LenProperties DEF ChartShapes
        <5> QED BY <5>1, <1>2
      <4> QED BY <4>1, <1>2
    <3>2. InitAt(replies, i + 1)
      BY <3>1, <2>1 DEF InitAt
    <3>3. Joins(Older(replies[1]), replies[i + 1].history)
      <4>1. replies[1].chart = replies[i + 1].chart /\ 1 \in DOMAIN replies
        BY <3>1, <2>1, <1>12, <1>2
      <4> QED BY <4>1, <3>1, <3>2, <1>1, <1>12 DEF Queue
    <3> QED BY <3>1, <3>3, <1>7, <1>9, <1>12 DEF Joins
  <2>2. kept' \subseteq table[chart] /\ (\A t \in kept' : NotJumped(t)) /\ Joins(kept', historyBarsByTf[chart])
    <3>1. kept' \subseteq Older(m) /\ kept' \subseteq m.stored
      BY <1>7, <1>9 DEF Older
    <3> QED BY <3>1, <1>13 DEF SnapshotFits, Joins
  <2> QED BY <2>1, <2>2, <1>3, <1>10 DEF SeriesHolds, InitAt, Joins, NotJumped, Behind
<1>15. ASSUME ~mixed' PROVE PagesHold'
  <2>1. ~PageOnItsWay(chart)
    BY <1>7, <1>15
  <2>2. \A f \in fetches : f.m.chart # chart
    BY <2>1 DEF PageOnItsWay
  <2>3. \A i \in DOMAIN chartWire : ~(chartWire[i].type = "HISTORY" /\ chartWire[i].chart = chart)
    BY <2>1 DEF PageOnItsWay, Range
  <2>4. \A i \in DOMAIN replies' : ~(replies'[i].type = "HISTORY" /\ replies'[i].chart = chart)
    <3>1. \A i \in DOMAIN replies : ~(replies[i].type = "HISTORY" /\ replies[i].chart = chart)
      BY <2>1 DEF PageOnItsWay, Range
    <3> QED BY <3>1, <1>2
  <2>5. ASSUME NEW t \in kept', NEW x \in m.history PROVE ~(t >= x)
    <3>1. Behind(t, m.history) /\ t \in Nat /\ x \in Nat
      BY <1>7, <1>9, <1>5, <1>6 DEF Older
    <3> QED BY <3>1 DEF Behind
  <2>6. Joins(kept', m.history)
    BY <2>5 DEF Joins
  <2>7. historyCursor' # None => historyCursor' \in m.history
    BY <1>7, <1>8
  <2> QED BY <2>2, <2>3, <2>4, <2>5, <2>6, <2>7, <1>3, <1>10 DEF PagesHold, WaitJoins, PageJoins, Reached, HistoryIsFull, Joins
<1> QED BY <1>2, <1>11, <1>14, <1>15 DEF ChartIInv

LEMMA BrowserTakesStep ==
  ASSUME ChartAssumption, ChartIInv, BrowserTakes
  PROVE  ChartIInv'
<1> DEFINE m == Head(replies)
<1>1. ChartShapes /\ Queue
  BY DEF ChartIInv
<1>2. replies # << >> /\ replies' = Tail(replies) /\ UNCHANGED <<server, chart>>
  BY DEF BrowserTakes
<1>3. m \in Answers /\ chart \in Charts /\ DOMAIN bars \in SUBSET {n \in Nat : n >= Edge}
  BY <1>1, <1>2, QueueMovesOn DEF ChartShapes
<1> HIDE DEF m
<1>4. ASSUME UNCHANGED <<chartWire, series, paging>> PROVE ChartIInv'
  <2>1. UNCHANGED <<chart, chartWire, key, mixed, kept, historyBars, historyCursor, server>> /\ bars' = bars
    BY <1>2, <1>4 DEF series, paging
  <2> QED BY <1>2, <1>3, <2>1, HistoryStays
<1>5. CASE m.type = "INIT" /\ m.chart = chart /\ onInitState(m)
  <2>1. m \in Snapshots
    BY <1>3, <1>5, AnAnswer
  <2>2. /\ m.history \in SUBSET (0..(Edge - 1)) /\ m.bars \in SUBSET Nat /\ (\A t \in m.bars : t >= Edge) /\ Edge \in Nat
    BY <2>1 DEF Snapshots, ChartAssumption
  <2>3. chartWire' = chartWire
    BY <1>5 DEF onInitState
  <2>4. CASE key # chart
    BY <1>2, <1>5, <2>3, <2>4, SeriesStarts DEF m
  <2>5. CASE key = chart
    <3>1. /\ UNCHANGED <<chart, chartWire, key, mixed, kept, historyCursor, server>>
          /\ historyBars' = (IF m.history # {} THEN mergeHistorySeries(historyBars, Of(chart, m.history)) ELSE historyBars)
          /\ DOMAIN bars' = m.bars
      BY <1>2, <1>5, <2>5 DEF onInitState, Of
    <3>2. DOMAIN bars' \in SUBSET {n \in Nat : n >= Edge}
      BY <2>2, <3>1
    <3>3. CASE m.history = {}
      BY <1>2, <3>1, <3>2, <3>3, HistoryStays
    <3>4. CASE m.history # {}
      <4>1. m.history \in BarSets
        <5>1. m.history \in SUBSET Nat /\ \A t \in m.history : t <= Edge
          BY <2>2
        <5> QED BY <5>1, <2>2, FS_BoundedSetOfNaturals DEF BarSets
      <4>2. ASSUME ~mixed PROVE PageJoins(m.history)
        <5>1. SeriesHolds
          BY <2>5 DEF ChartIInv
        <5>2. InitAt(replies, 1) /\ replies[1] = m
          BY <1>2, <1>5, QueueMovesOn DEF InitAt, m
        <5>3. Joins(kept, m.history)
          <6>1. 1 \in DOMAIN replies
            BY <5>2 DEF InitAt
          <6> QED BY <5>1, <5>2, <6>1, <1>5 DEF SeriesHolds
        <5> QED BY <5>3 DEF Joins, PageJoins
      <4> DEFINE X == m.history
      <4>3. X \in BarSets /\ historyBars' = mergeHistorySeries(historyBars, Of(chart, X)) /\ (key = chart /\ ~mixed => PageJoins(X))
        BY <4>1, <4>2, <3>1, <3>4
      <4> HIDE DEF X
      <4> QED BY <1>2, <3>1, <3>2, <4>3, HistoryGrows
    <3> QED BY <3>3, <3>4
  <2> QED BY <2>4, <2>5
<1>6. CASE m.type = "BAR" /\ onBar(m)
  <2>1. m \in ClosedBars
    BY <1>3, <1>6, AnAnswer
  <2>2. m.closed \in Nat /\ m.closed >= Edge /\ m.open \in Nat /\ m.open >= Edge
    BY <2>1 DEF ClosedBars
  <2>3. ASSUME NEW b, NEW c, NEW t, DOMAIN b \in SUBSET {n \in Nat : n >= Edge}, t \in {n \in Nat : n >= Edge}
        PROVE  DOMAIN mergeBar(b, c, t) \in SUBSET {n \in Nat : n >= Edge}
    <3>1. DOMAIN Over(b, Of(c, {t})) = DOMAIN b \cup {t}
      BY DEF Over, Of
    <3>2. DOMAIN mergeBar(b, c, t) \subseteq DOMAIN b \cup {t}
      BY <3>1 DEF mergeBar, Cut, Newest
    <3> QED BY <2>3, <3>2
  <2>4. DOMAIN mergeBar(mergeBar(bars, m.chart, m.closed), m.chart, m.open) \in SUBSET {n \in Nat : n >= Edge}
    <3>1. DOMAIN mergeBar(bars, m.chart, m.closed) \in SUBSET {n \in Nat : n >= Edge}
      BY <1>3, <2>2, <2>3
    <3> QED BY <2>2, <2>3, <3>1
  <2>5. DOMAIN bars' \in SUBSET {n \in Nat : n >= Edge} /\ UNCHANGED <<chartWire, key, mixed, kept, historyBars, historyCursor>>
    BY <1>6, <2>4 DEF onBar, paging
  <2> QED BY <1>2, <2>5, HistoryStays
<1>7. CASE m.type = "HISTORY" /\ onHistoryResponse(m)
  <2>1. UNCHANGED <<chart, chartWire, key, mixed, kept, server, bars>>
    BY <1>2, <1>7 DEF onHistoryResponse
  <2>2. CASE m.chart # chart
    <3>1. UNCHANGED <<historyBars, historyCursor>>
      BY <1>7, <2>2 DEF onHistoryResponse, Stale
    <3> QED BY <1>2, <1>3, <2>1, <3>1, HistoryStays
  <2>3. CASE m.chart = chart
    <3> DEFINE X == m.bars
    <3>1. X \in BarSets /\ X \in SUBSET Int
      <4>1. m \in PageAnswers
        BY <1>3, <1>7, AnAnswer
      <4> QED BY <4>1 DEF PageAnswers, BarSets
    <3>2. /\ historyBars' = mergeHistorySeries(historyBars, Of(chart, X))
          /\ historyCursor' = (IF X # {} THEN Min(X) ELSE historyCursor)
      BY <1>7, <2>3 DEF onHistoryResponse, Stale
    <3>3. ASSUME key = chart, ~mixed PROVE PageJoins(X)
      <4>1. PagesHold
        BY <3>3 DEF ChartIInv
      <4>2. 1 \in DOMAIN replies /\ replies[1] = m
        BY <1>2, QueueMovesOn DEF m
      <4> QED BY <4>1, <4>2, <1>7, <2>3 DEF PagesHold
    <3> HIDE DEF X
    <3>4. X # {} => Min(X) \in X
      BY <3>1, LeastIsLeast DEF BarSets
    <3>5. historyCursor' \in X \cup {historyCursor}
      BY <3>2, <3>4
    <3> QED BY <1>2, <1>3, <2>1, <3>1, <3>2, <3>3, <3>5, HistoryGrows
  <2> QED BY <2>2, <2>3
<1>8. \/ UNCHANGED <<chartWire, series, paging>>
      \/ m.type = "INIT" /\ m.chart = chart /\ onInitState(m)
      \/ m.type = "BAR" /\ onBar(m)
      \/ m.type = "HISTORY" /\ onHistoryResponse(m)
  BY DEF BrowserTakes, onInitState, m
<1> QED BY <1>4, <1>5, <1>6, <1>7, <1>8

-----------------------------------------------------------------------------
(* Steps that leave the series.                                            *)

LEMMA SeriesLeft ==
  ASSUME ChartAssumption, ChartIInv, NEW c \in Charts, handleSelectSymbol(c) \/ handleTimeframeChange(c)
  PROVE  ChartIInv'
<1>1. ChartShapes /\ Queue /\ \A d \in Charts : Context(d)
  BY DEF ChartIInv
<1>2. /\ chart' = c /\ StartOver /\ SubscribeChart(c) /\ kept' = {}
      /\ UNCHANGED <<server, replies>> /\ bars' \in {NoBars, bars} /\ historyBars' \in {NoBars, historyBars}
  BY DEF handleSelectSymbol, handleTimeframeChange
<1>3. key' = None /\ historyCursor' = None
      /\ UNCHANGED <<now, table, historyBarsByTf, subscribed, fetches, replies>>
  BY <1>2 DEF StartOver, server
<1>4. key' # chart'
  BY <1>2, <1>3 DEF ChartAssumption
<1>5. chartWire' \in Seq(Asks)
  <2>1. chartWire \in Seq(Asks) /\ [type |-> "SUBSCRIBE", chart |-> c] \in Asks
    BY <1>1 DEF ChartShapes, Asks
  <2>2. chartWire' = chartWire \/ chartWire' = Append(chartWire, [type |-> "SUBSCRIBE", chart |-> c])
    BY <1>2 DEF SubscribeChart
  <2> QED BY <2>1, <2>2, AppendProperties
<1>6. DOMAIN bars' \in SUBSET {n \in Nat : n >= Edge} /\ DOMAIN historyBars' \in BarSets
  <2>1. DOMAIN NoBars = {} /\ IsFiniteSet({})
    BY FS_EmptySet DEF NoBars
  <2> QED BY <1>1, <1>2, <2>1 DEF ChartShapes, BarSets
<1>7. ChartShapes'
  BY <1>1, <1>2, <1>3, <1>5, <1>6 DEF ChartShapes
<1>8. Queue' /\ \A d \in Charts : Context(d)'
  <2>1. UNCHANGED <<table, historyBarsByTf, replies>>
    BY <1>3
  <2>2. Queue'
    BY <1>1, <2>1 DEF Queue, SnapshotFits, InitAt, Older, Joins, NotJumped, Behind
  <2>3. ASSUME NEW d \in Charts PROVE Context(d)'
    <3>1. Context(d)
      BY <1>1
    <3> QED BY <3>1, <2>1 DEF Context, NotJumped, Behind
  <2> QED BY <2>2, <2>3
<1> QED BY <1>4, <1>7, <1>8 DEF ChartIInv

-----------------------------------------------------------------------------
(* Each step of the server is one of those.                                *)

LEMMA OneMore ==
  ASSUME NEW S, NEW q \in Seq(S), NEW x \in S
  PROVE  /\ Append(q, x) \in Seq(S)
         /\ \A i \in DOMAIN Append(q, x) :
              \/ i \in DOMAIN q /\ Append(q, x)[i] = q[i]
              \/ Append(q, x)[i] = x
<1>1. Append(q, x) \in Seq(S) /\ DOMAIN Append(q, x) = 1..(Len(q) + 1) /\ DOMAIN q = 1..Len(q) /\ Len(q) \in Nat
  OBVIOUS
<1>2. ASSUME NEW i \in 1..(Len(q) + 1) PROVE (i \in DOMAIN q /\ Append(q, x)[i] = q[i]) \/ Append(q, x)[i] = x
  <2>1. CASE i = Len(q) + 1
    BY <2>1, <1>1
  <2>2. CASE i \in 1..Len(q)
    BY <2>2, <1>1
  <2> QED BY <2>1, <2>2, <1>1
<1> QED BY <1>1, <1>2

LEMMA OneLess ==
  ASSUME NEW S, NEW q \in Seq(S), q # << >>
  PROVE  /\ Tail(q) \in Seq(S) /\ Head(q) \in S /\ Head(q) = q[1] /\ 1 \in DOMAIN q
         /\ \A i \in DOMAIN Tail(q) : \E j \in DOMAIN q : Tail(q)[i] = q[j]
<1>1. /\ Tail(q) \in Seq(S) /\ Head(q) \in S /\ Head(q) = q[1] /\ 1 \in DOMAIN q
      /\ Len(q) \in Nat /\ Len(Tail(q)) = Len(q) - 1
  BY FirstTaken
<1>2. DOMAIN Tail(q) = 1..(Len(q) - 1) /\ DOMAIN q = 1..Len(q)
  BY <1>1, LenProperties
<1>3. ASSUME NEW i \in DOMAIN Tail(q) PROVE \E j \in DOMAIN q : Tail(q)[i] = q[j]
  <2>1. i \in 1..(Len(q) - 1)
    BY <1>2
  <2>2. Tail(q)[i] = q[i + 1] /\ i + 1 \in DOMAIN q
    BY <2>1, <1>1, <1>2
  <2> QED BY <2>2
<1> QED BY <1>1, <1>3

LEMMA TableSaved ==
  ASSUME ChartShapes, NEW c \in Charts, NEW times \in BarSets
  PROVE  /\ saveBars(c, times) \in [Charts -> BarSets] /\ saveBars(c, times)[c] = table[c] \cup times
         /\ \A d \in Charts : table[d] \subseteq saveBars(c, times)[d] /\ (d # c => saveBars(c, times)[d] = table[d])
<1>1. table \in [Charts -> BarSets] /\ table[c] \in SUBSET Nat /\ IsFiniteSet(table[c])
  BY DEF ChartShapes, BarSets
<1>2. table[c] \cup times \in BarSets
  <2>1. IsFiniteSet(table[c] \cup times)
    BY <1>1, FS_Union DEF BarSets
  <2> QED BY <1>1, <2>1 DEF BarSets
<1>3. saveBars(c, times) = [table EXCEPT ![c] = table[c] \cup times]
  BY DEF saveBars
<1> QED BY <1>1, <1>2, <1>3

(* A context starts the chart with h, sent or not. *)
LEMMA ContextSteps ==
  ASSUME ChartAssumption, ChartIInv, NEW c \in Charts, NEW q, NEW h,
         /\ q \in {replies, << >>} /\ (replies' = q \/ replies' = Append(q, buildInitState(c, h, table'[c])))
         /\ WireShrinks /\ fetches' \subseteq fetches /\ subscribed' \in Charts
         /\ UNCHANGED <<now, chart, series, historyCursor>>,
         historyBarsByTf' = [historyBarsByTf EXCEPT ![c] = h],
         \/ table' = table /\ h = primeHistoryBarsFromStore(c)
         \/ table' = table /\ h = queryBars(c, Edge, Fallback).bars
         \/ /\ table' = saveBars(c, RefreshPage) /\ RefreshPage # {}
            /\ h = mergeHistoryBars(historyBarsByTf[c], RefreshPage)
  PROVE  ChartIInv'
<1>1. ChartShapes /\ Context(c) /\ table \in [Charts -> BarSets]
  BY DEF ChartIInv, ChartShapes
<1>2. /\ table' \in [Charts -> BarSets]
      /\ \A d \in Charts : table[d] \subseteq table'[d] /\ (d # c => table'[d] = table[d])
      /\ GoodHistory(c, h, table'[c])
  <2>1. CASE table' = table /\ h = primeHistoryBarsFromStore(c)
    BY <1>1, <2>1, HistoryPrimed
  <2>2. CASE table' = table /\ h = queryBars(c, Edge, Fallback).bars
    <3>1. GoodHistory(c, queryBars(c, Edge, Fallback).bars, table[c])
      BY <1>1, HistoryOfTheStore
    <3> QED BY <1>1, <2>2, <3>1
  <2>3. CASE table' = saveBars(c, RefreshPage) /\ RefreshPage # {} /\ h = mergeHistoryBars(historyBarsByTf[c], RefreshPage)
    <3>1. RefreshPage \in BarSets
      BY TheRefreshPage DEF BarSets
    <3>2. GoodHistory(c, h, table[c] \cup RefreshPage)
      BY <1>1, <2>3, HistoryMerged
    <3>3. /\ saveBars(c, RefreshPage) \in [Charts -> BarSets] /\ saveBars(c, RefreshPage)[c] = table[c] \cup RefreshPage
          /\ \A d \in Charts : table[d] \subseteq saveBars(c, RefreshPage)[d]
                /\ (d # c => saveBars(c, RefreshPage)[d] = table[d])
      BY <1>1, <3>1, TableSaved
    <3> QED BY <2>3, <3>2, <3>3
  <2> QED BY <2>1, <2>2, <2>3
<1>3. ContextTakes(c, h, q)
  BY <1>2 DEF ContextTakes
<1> QED BY <1>2, <1>3, ContextTakesStep

LEMMA WireStays ==
  ASSUME ChartShapes, chartWire' = chartWire
  PROVE  WireShrinks
BY DEF ChartShapes, WireShrinks

LEMMA RefreshStep ==
  ASSUME ChartAssumption, ChartIInv, NEW c \in Charts, HistoryRefreshed(c) \/ HistoryNotRefreshed(c)
  PROVE  ChartIInv'
<1>1. ChartShapes
  BY DEF ChartIInv
<1>2. ASSUME NEW h, SentAgain(c, h)
      PROVE  /\ replies' = replies \/ replies' = Append(replies, buildInitState(c, h, table'[c]))
             /\ historyBarsByTf' = [historyBarsByTf EXCEPT ![c] = h]
             /\ WireShrinks /\ fetches' \subseteq fetches /\ subscribed' \in Charts
             /\ UNCHANGED <<now, chart, series, historyCursor>>
  BY <1>1, <1>2, WireStays DEF SentAgain, ChartShapes, paging
<1>3. PICK q : q = replies
  OBVIOUS
<1>4. CASE HistoryRefreshed(c)
  <2>1. PICK h : h = mergeHistoryBars(historyBarsByTf[c], RefreshPage)
    OBVIOUS
  <2>2. SentAgain(c, h) /\ table' = saveBars(c, RefreshPage) /\ RefreshPage # {}
    BY <1>4, <2>1 DEF HistoryRefreshed, RefreshPage
  <2>3. /\ replies' = q \/ replies' = Append(q, buildInitState(c, h, table'[c]))
        /\ historyBarsByTf' = [historyBarsByTf EXCEPT ![c] = h] /\ q \in {replies, << >>}
        /\ WireShrinks /\ fetches' \subseteq fetches /\ subscribed' \in Charts
        /\ UNCHANGED <<now, chart, series, historyCursor>>
    BY <1>2, <1>3, <2>2
  <2> QED BY <2>1, <2>2, <2>3, ContextSteps
<1>5. CASE HistoryNotRefreshed(c)
  <2>1. PICK h : h = queryBars(c, Edge, Fallback).bars
    OBVIOUS
  <2>2. SentAgain(c, h) /\ table' = table
    BY <1>5, <2>1 DEF HistoryNotRefreshed
  <2>3. /\ replies' = q \/ replies' = Append(q, buildInitState(c, h, table'[c]))
        /\ historyBarsByTf' = [historyBarsByTf EXCEPT ![c] = h] /\ q \in {replies, << >>}
        /\ WireShrinks /\ fetches' \subseteq fetches /\ subscribed' \in Charts
        /\ UNCHANGED <<now, chart, series, historyCursor>>
    BY <1>2, <1>3, <2>2
  <2> QED BY <2>1, <2>2, <2>3, ContextSteps
<1> QED BY <1>4, <1>5

LEMMA ReconnectStep ==
  ASSUME ChartAssumption, ChartIInv, Reconnect
  PROVE  ChartIInv'
<1>1. ChartShapes /\ OpeningChart \in Charts
  BY DEF ChartIInv, ChartAssumption
<1>2. PICK h : h = primeHistoryBarsFromStore(OpeningChart)
  OBVIOUS
<1>3. /\ historyBarsByTf' = [historyBarsByTf EXCEPT ![OpeningChart] = h] /\ table' = table
      /\ fetches' \subseteq fetches /\ subscribed' \in Charts
      /\ UNCHANGED <<now, chart, series, historyCursor>>
      /\ replies' = <<buildInitState(OpeningChart, historyBarsByTf'[OpeningChart], table[OpeningChart])>>
      /\ chartWire' = << >> \/ chartWire' = <<[type |-> "SUBSCRIBE", chart |-> chart]>>
  BY <1>1, <1>2 DEF Reconnect, paging
<1>4. historyBarsByTf'[OpeningChart] = h
  BY <1>1, <1>3 DEF ChartShapes
<1>5. PICK q : q = << >>
  OBVIOUS
<1>6. replies' = Append(q, buildInitState(OpeningChart, h, table'[OpeningChart]))
  BY <1>3, <1>4, <1>5
<1>7. WireShrinks
  <2>1. CASE chartWire' = << >>
    BY <2>1 DEF WireShrinks
  <2>2. CASE chartWire' = <<[type |-> "SUBSCRIBE", chart |-> chart]>>
    <3>1. [type |-> "SUBSCRIBE", chart |-> chart] \in Asks
      BY <1>1 DEF ChartShapes, Asks
    <3> QED BY <2>2, <3>1 DEF WireShrinks
  <2> QED BY <1>3, <2>1, <2>2
<1> QED BY <1>1, <1>2, <1>3, <1>5, <1>6, <1>7, ContextSteps

LEMMA SubscribedStep ==
  ASSUME ChartAssumption, ChartIInv, ServerTakes, Head(chartWire).type = "SUBSCRIBE", Subscribed(Head(chartWire).chart)
  PROVE  ChartIInv'
<1>1. ChartShapes /\ chartWire \in Seq(Asks) /\ chartWire # << >> /\ chartWire' = Tail(chartWire)
  BY DEF ChartIInv, ChartShapes, ServerTakes
<1>2. /\ Tail(chartWire) \in Seq(Asks) /\ Head(chartWire) \in Asks
      /\ \A i \in DOMAIN Tail(chartWire) : \E j \in DOMAIN chartWire : Tail(chartWire)[i] = chartWire[j]
  BY <1>1, OneLess
<1>3. PICK c \in Charts : c = Head(chartWire).chart
  BY <1>2 DEF Asks
<1>4. PICK h : h = primeHistoryBarsFromStore(c)
  OBVIOUS
<1>5. PICK q : q = replies
  OBVIOUS
<1>6. /\ historyBarsByTf' = [historyBarsByTf EXCEPT ![c] = h] /\ table' = table
      /\ fetches' \subseteq fetches /\ subscribed' \in Charts
      /\ UNCHANGED <<now, chart, series, historyCursor>>
      /\ replies' = Append(q, buildInitState(c, h, table'[c])) /\ q \in {replies, << >>}
  BY <1>3, <1>4, <1>5 DEF ServerTakes, Subscribed, paging
<1>7. WireShrinks
  BY <1>1, <1>2 DEF WireShrinks
<1> QED BY <1>4, <1>6, <1>7, ContextSteps

(* A page of the store has all that it has from its oldest bar on.         *)
LEMMA PageOfTheStore ==
  ASSUME NEW S \in BarSets, NEW before \in Nat, NEW n \in Nat, NEW found, found = {t \in S : t < before},
         NEW times, times = Newest(found, n)
  PROVE  /\ times \in BarSets /\ Cardinality(times) \in Nat
         /\ \A t \in S, x \in times : t < before /\ t >= x => t \in times
<1>1. found \in SUBSET S /\ S \in SUBSET Nat /\ IsFiniteSet(S)
  BY DEF BarSets
<1>2. IsFiniteSet(found) /\ found \in SUBSET Nat
  BY <1>1, FS_Subset
<1>3. times \in SUBSET found /\ IsFiniteSet(times)
  BY <1>1, <1>2, NewestArePart
<1>4. times \in BarSets /\ Cardinality(times) \in Nat
  BY <1>1, <1>2, <1>3, FS_CardinalityType DEF BarSets
<1>5. ASSUME NEW t \in S, t < before, NEW x \in times, t >= x PROVE t \in times
  <2>1. t \in found
    BY <1>5
  <2> QED BY <1>1, <1>2, <1>5, <2>1, NewestGoUp
<1> QED BY <1>4, <1>5

(* A page that was asked for from a bar that was reached closes up. *)
LEMMA PageClosesUp ==
  ASSUME ChartShapes, NEW before \in Nat, Reached(before), NEW times \in BarSets, Joins({t \in kept : t < before}, times)
  PROVE  PageJoins(times)
<1>1. ASSUME ~HistoryIsFull, NEW t \in kept, NEW x \in times, t >= x PROVE t \in DOMAIN historyBars \cup times
  <2>1. t \in Nat
    BY DEF ChartShapes
  <2>2. CASE t >= before
    BY <1>1, <2>2 DEF Reached
  <2>3. CASE t < before
    BY <1>1, <2>3 DEF Joins
  <2> QED BY <2>1, <2>2, <2>3
<1> QED BY <1>1 DEF PageJoins

LEMMA ThePageAnswer ==
  ASSUME NEW f, NEW result, f.chart \in Charts, result \in Pages
  PROVE  /\ HistoryResponse(f, result) \in Answers /\ HistoryResponse(f, result).type = "HISTORY"
         /\ HistoryResponse(f, result).chart = f.chart /\ HistoryResponse(f, result).bars = result.bars
BY DEF HistoryResponse, Pages, Answers, PageAnswers

LEMMA BarClosesStep ==
  ASSUME ChartAssumption, ChartIInv, BarCloses
  PROVE  ChartIInv'
<1>1. ChartShapes /\ now \in Nat /\ now >= Edge /\ Edge \in Nat
  BY DEF ChartIInv, ChartShapes, ChartAssumption
<1> DEFINE m == [type |-> "BAR", chart |-> subscribed, closed |-> now, open |-> now + 1]
<1>2. m \in Answers /\ m.type = "BAR"
  <2>1. now + 1 \in Nat /\ now + 1 >= Edge
    BY <1>1
  <2> QED BY <1>1, <2>1 DEF Answers, ClosedBars, ChartShapes
<1>3. /\ now' = now + 1 /\ table' = [c \in Charts |-> table[c] \cup {now}] /\ replies' = Append(replies, m)
      /\ UNCHANGED <<historyBarsByTf, subscribed, fetches, chartWire, chart, series, historyCursor>>
  BY DEF BarCloses, paging
<1> HIDE DEF m
<1>4. table' \in [Charts -> BarSets]
  <2>1. ASSUME NEW c \in Charts PROVE table[c] \cup {now} \in BarSets
    <3>1. table[c] \in SUBSET Nat /\ IsFiniteSet(table[c])
      BY <1>1 DEF ChartShapes, BarSets
    <3>2. IsFiniteSet(table[c] \cup {now})
      BY <3>1, FS_AddElement
    <3> QED BY <3>1, <3>2, <1>1 DEF BarSets
  <2> QED BY <2>1, <1>3
<1>5. \A c \in Charts : table[c] \subseteq table'[c] /\ \A t \in table'[c] : t \in table[c] \/ t \in Vendor \/ t >= Edge
  BY <1>1, <1>3
<1>6. /\ replies' \in Seq(Answers)
      /\ \A i \in DOMAIN replies' : (i \in DOMAIN replies /\ replies'[i] = replies[i]) \/ replies'[i] = m
  BY <1>1, <1>2, <1>3, OneMore DEF ChartShapes
<1>7. now' \in Nat /\ now' >= Edge
  BY <1>1, <1>3
<1>8. /\ \A i \in DOMAIN chartWire' : \E j \in DOMAIN chartWire : chartWire'[i] = chartWire[j]
      /\ fetches' \in SUBSET Waiting /\ (\A f \in fetches' : f \in fetches) /\ chartWire' \in Seq(Asks) /\ subscribed' \in Charts
  BY <1>1, <1>3 DEF ChartShapes
<1>9. m.type # "INIT" /\ m.type # "HISTORY"
  BY <1>2
<1>10. ServerGoesOn
  BY <1>3, <1>4, <1>5, <1>6, <1>7, <1>8, <1>9 DEF ServerGoesOn
<1> QED BY <1>10, ServerGoesOnStep

LEMMA FetchHistoryStep ==
  ASSUME ChartAssumption, ChartIInv, ServerTakes, Head(chartWire).type = "HISTORY", FetchHistory(Head(chartWire))
  PROVE  ChartIInv'
<1>1. ChartShapes /\ chartWire \in Seq(Asks) /\ chartWire # << >> /\ chartWire' = Tail(chartWire) /\ Page \in Nat
  BY DEF ChartIInv, ChartShapes, ServerTakes, ChartAssumption
<1>2. /\ Tail(chartWire) \in Seq(Asks) /\ Head(chartWire) \in Asks /\ Head(chartWire) = chartWire[1] /\ 1 \in DOMAIN chartWire
      /\ \A i \in DOMAIN Tail(chartWire) : \E j \in DOMAIN chartWire : Tail(chartWire)[i] = chartWire[j]
  BY <1>1, OneLess
<1>3. PICK m : m = Head(chartWire)
  OBVIOUS
<1>4. m \in [type : {"HISTORY"}, chart : Charts, before : Nat] /\ m.type = "HISTORY" /\ m.chart \in Charts /\ m.before \in Nat
  BY <1>2, <1>3 DEF Asks
<1>5. PICK result : result = queryBars(m.chart, m.before, Page)
  OBVIOUS
<1>6. result.bars = Newest({t \in table[m.chart] : t < m.before}, Page)
  BY <1>5 DEF queryBars
<1>7. table[m.chart] \in BarSets
  BY <1>1, <1>4 DEF ChartShapes
<1>8. /\ result.bars \in BarSets /\ Cardinality(result.bars) \in Nat
      /\ \A t \in table[m.chart], x \in result.bars : t < m.before /\ t >= x => t \in result.bars
  <2>1. PICK S \in BarSets : S = table[m.chart]
    BY <1>7
  <2>2. PICK before \in Nat : before = m.before
    BY <1>4
  <2>3. PICK times : times = result.bars
    OBVIOUS
  <2>4. PICK found : found = {t \in S : t < before} /\ times = Newest(found, Page)
    BY <1>6, <2>1, <2>2, <2>3
  <2>5. times \in BarSets /\ Cardinality(times) \in Nat /\ \A t \in S, x \in times : t < before /\ t >= x => t \in times
    BY <2>4, <1>1, PageOfTheStore
  <2> QED BY <2>1, <2>2, <2>3, <2>5
<1>9. result \in Pages
  BY <1>5, <1>8 DEF queryBars, Pages
<1>10. ASSUME Claimed, m.chart = chart
       PROVE  Reached(m.before) /\ Joins({t \in kept : t < m.before}, result.bars) /\ PageJoins(result.bars)
  <2>1. SeriesHolds /\ PagesHold
    BY <1>10 DEF Claimed, ChartIInv
  <2>2. Reached(m.before)
    BY <2>1, <1>2, <1>3, <1>4, <1>10 DEF PagesHold
  <2>3. Joins({t \in kept : t < m.before}, result.bars)
    BY <2>1, <1>8, <1>10 DEF SeriesHolds, Joins
  <2> QED BY <2>2, <2>3, <1>1, <1>4, <1>8, PageClosesUp
<1> DEFINE missing == Page - Cardinality(result.bars)
           f == [m |-> m, missing |-> missing, result |-> result]
<1>11. \/ missing > 0 /\ fetches' = fetches \cup {f} /\ UNCHANGED replies
       \/ replies' = Append(replies, HistoryResponse(m, result)) /\ UNCHANGED fetches
  BY <1>3, <1>5 DEF FetchHistory
<1>12. UNCHANGED <<table, now, subscribed, historyBarsByTf, chart, series, historyCursor>>
  BY DEF ServerTakes, FetchHistory, paging
<1>13. missing > 0 => f \in Waiting /\ f.m = m /\ f.result = result
  <2>1. missing \in Int
    BY <1>1, <1>8
  <2>2. missing > 0 => missing \in Nat
    BY <2>1
  <2> HIDE DEF missing
  <2> QED BY <2>2, <1>4, <1>9 DEF Waiting
<1> HIDE DEF f, missing
<1>14. /\ fetches' \in SUBSET Waiting
       /\ \A g \in fetches' : g \in fetches \/ (Claimed /\ g.m.chart = chart => WaitJoins(g))
  <2>1. ASSUME missing > 0, Claimed, f.m.chart = chart PROVE WaitJoins(f)
    BY <2>1, <1>10, <1>13 DEF WaitJoins
  <2> QED BY <2>1, <1>1, <1>11, <1>13 DEF ChartShapes
<1>15. /\ replies' \in Seq(Answers)
       /\ \A i \in DOMAIN replies' :
            \/ i \in DOMAIN replies /\ replies'[i] = replies[i]
            \/ /\ replies'[i].type # "INIT"
               /\ Claimed /\ replies'[i].type = "HISTORY" /\ replies'[i].chart = chart => PageJoins(replies'[i].bars)
  <2>1. CASE replies' = replies
    BY <2>1, <1>1 DEF ChartShapes
  <2>2. CASE replies' = Append(replies, HistoryResponse(m, result))
    <3>1. PICK a : a = HistoryResponse(m, result)
      OBVIOUS
    <3>2. a \in Answers /\ a.type = "HISTORY" /\ a.chart = m.chart /\ a.bars = result.bars
      BY <3>1, <1>4, <1>9, ThePageAnswer
    <3>3. /\ replies' \in Seq(Answers)
          /\ \A i \in DOMAIN replies' : (i \in DOMAIN replies /\ replies'[i] = replies[i]) \/ replies'[i] = a
      BY <1>1, <2>2, <3>1, <3>2, OneMore DEF ChartShapes
    <3> QED BY <3>2, <3>3, <1>10
  <2> QED BY <2>1, <2>2, <1>11
<1>16. /\ now' \in Nat /\ now' >= Edge /\ subscribed' \in Charts /\ table' \in [Charts -> BarSets]
       /\ \A c \in Charts : table[c] \subseteq table'[c] /\ \A t \in table'[c] : t \in table[c]
  BY <1>1, <1>12 DEF ChartShapes
<1>17. /\ chartWire' \in Seq(Asks)
       /\ \A i \in DOMAIN chartWire' : \E j \in DOMAIN chartWire : chartWire'[i] = chartWire[j]
  BY <1>1, <1>2
<1>18. ServerGoesOn
  BY <1>12, <1>14, <1>15, <1>16, <1>17 DEF ServerGoesOn
<1> QED BY <1>18, ServerGoesOnStep

(* A page that waited for the vendor is answered, with what the store has now or had then. *)
LEMMA PageAnswered ==
  ASSUME ChartAssumption, ChartIInv, NEW f \in fetches, NEW result \in Pages,
         fetches' = fetches \ {f}, replies' = Append(replies, HistoryResponse(f.m, result)),
         table' \in [Charts -> BarSets],
         \A c \in Charts : table[c] \subseteq table'[c] /\ \A t \in table'[c] : t \in table[c] \/ t \in Vendor,
         UNCHANGED <<now, historyBarsByTf, subscribed, chartWire, chart, series, historyCursor>>,
         Claimed /\ f.m.chart = chart => Joins({t \in kept : t < f.m.before}, result.bars)
  PROVE  ChartIInv'
<1>1. ChartShapes /\ f.m.chart \in Charts /\ f.m.before \in Nat /\ result.bars \in BarSets
  BY DEF ChartIInv, ChartShapes, Waiting, Pages
<1>2. ASSUME Claimed, f.m.chart = chart PROVE PageJoins(result.bars)
  <2>1. WaitJoins(f)
    BY <1>2 DEF Claimed, ChartIInv, PagesHold
  <2>2. Reached(f.m.before)
    BY <2>1 DEF WaitJoins
  <2> QED BY <2>2, <1>1, <1>2, PageClosesUp
<1>3. PICK a : a = HistoryResponse(f.m, result)
  OBVIOUS
<1>4. a \in Answers /\ a.type = "HISTORY" /\ a.chart = f.m.chart /\ a.bars = result.bars
  BY <1>1, <1>3, ThePageAnswer
<1>5. /\ replies' \in Seq(Answers)
      /\ \A i \in DOMAIN replies' : (i \in DOMAIN replies /\ replies'[i] = replies[i]) \/ replies'[i] = a
  BY <1>1, <1>3, <1>4, OneMore DEF ChartShapes
<1>6. \A i \in DOMAIN replies' :
        \/ i \in DOMAIN replies /\ replies'[i] = replies[i]
        \/ /\ replies'[i].type # "INIT"
           /\ Claimed /\ replies'[i].type = "HISTORY" /\ replies'[i].chart = chart => PageJoins(replies'[i].bars)
  BY <1>2, <1>4, <1>5
<1>7. /\ now' \in Nat /\ now' >= Edge /\ subscribed' \in Charts /\ chartWire' \in Seq(Asks)
      /\ \A i \in DOMAIN chartWire' : \E j \in DOMAIN chartWire : chartWire'[i] = chartWire[j]
      /\ fetches' \in SUBSET Waiting /\ \A g \in fetches' : g \in fetches
  BY <1>1 DEF ChartShapes
<1>8. ServerGoesOn
  BY <1>5, <1>6, <1>7 DEF ServerGoesOn
<1> QED BY <1>8, ServerGoesOnStep

LEMMA PageFetchedStep ==
  ASSUME ChartAssumption, ChartIInv, NEW f \in fetches, PageFetched(f)
  PROVE  ChartIInv'
<1>1. ChartShapes /\ f \in Waiting /\ Page \in Nat
  BY DEF ChartIInv, ChartShapes, ChartAssumption
<1>2. f.m.chart \in Charts /\ f.m.before \in Nat /\ f.missing \in Nat
  BY <1>1 DEF Waiting
<1>3. PICK c \in Charts : c = f.m.chart
  BY <1>2
<1>4. PICK before \in Nat : before = f.m.before
  BY <1>2
<1>5. PICK new : new = Fetched(before, f.missing)
  OBVIOUS
<1>6. new \in BarSets /\ new \in SUBSET Vendor
  <2> DEFINE S == {t \in Vendor : t < before}
  <2>1. S \in SUBSET Vendor /\ Vendor \in SUBSET Nat /\ IsFiniteSet(Vendor) /\ new = Newest(S, f.missing)
    BY <1>5 DEF ChartAssumption, Fetched
  <2> HIDE DEF S
  <2>2. S \in SUBSET Nat /\ IsFiniteSet(S)
    BY <2>1, FS_Subset
  <2>3. new \in SUBSET S /\ IsFiniteSet(new)
    BY <2>1, <2>2, NewestArePart
  <2> QED BY <2>1, <2>2, <2>3 DEF BarSets
<1>7. table' = saveBars(c, new)
  BY <1>3, <1>4, <1>5 DEF PageFetched
<1>8. /\ table' \in [Charts -> BarSets] /\ table'[c] = table[c] \cup new
      /\ \A d \in Charts : table[d] \subseteq table'[d] /\ (d # c => table'[d] = table[d])
  <2>1. /\ saveBars(c, new) \in [Charts -> BarSets] /\ saveBars(c, new)[c] = table[c] \cup new
        /\ \A d \in Charts : table[d] \subseteq saveBars(c, new)[d] /\ (d # c => saveBars(c, new)[d] = table[d])
    BY <1>1, <1>6, TableSaved
  <2> QED BY <1>7, <2>1
<1>9. \A d \in Charts : table[d] \subseteq table'[d] /\ \A t \in table'[d] : t \in table[d] \/ t \in Vendor
  BY <1>6, <1>8
<1>10. PICK S \in BarSets : S = table'[c]
  BY <1>8
<1>11. PICK found : found = {t \in S : t < before}
  OBVIOUS
<1>12. PICK times : times = Newest(found, Page)
  OBVIOUS
<1>13. PICK result : result = [bars |-> times, more |-> Cardinality(found) > Page]
  OBVIOUS
<1>14. /\ replies' = Append(replies, HistoryResponse(f.m, result)) /\ fetches' = fetches \ {f}
       /\ UNCHANGED <<now, historyBarsByTf, subscribed, chartWire, chart, series, historyCursor>>
  BY <1>3, <1>4, <1>10, <1>11, <1>12, <1>13 DEF PageFetched, paging
<1>15. times \in BarSets /\ \A t \in S, x \in times : t < before /\ t >= x => t \in times
  BY <1>1, <1>11, <1>12, PageOfTheStore
<1>16. result \in Pages /\ result.bars = times
  BY <1>13, <1>15 DEF Pages
<1>17. ASSUME Claimed, f.m.chart = chart PROVE Joins({t \in kept : t < f.m.before}, result.bars)
  <2>1. SeriesHolds
    BY <1>17 DEF Claimed, ChartIInv
  <2>2. kept \subseteq S
    BY <2>1, <1>3, <1>8, <1>10, <1>17 DEF SeriesHolds
  <2> QED BY <2>2, <1>4, <1>15, <1>16 DEF Joins
<1> QED BY <1>8, <1>9, <1>14, <1>16, <1>17, PageAnswered

LEMMA PageNotFetchedStep ==
  ASSUME ChartAssumption, ChartIInv, NEW f \in fetches, PageNotFetched(f)
  PROVE  ChartIInv'
<1>1. ChartShapes /\ f \in Waiting /\ table \in [Charts -> BarSets]
  BY DEF ChartIInv, ChartShapes
<1>2. PICK result \in Pages : result = f.result
  BY <1>1 DEF Waiting
<1>3. /\ replies' = Append(replies, HistoryResponse(f.m, result)) /\ fetches' = fetches \ {f} /\ table' = table
      /\ UNCHANGED <<now, historyBarsByTf, subscribed, chartWire, chart, series, historyCursor>>
  BY <1>2 DEF PageNotFetched, paging
<1>4. ASSUME Claimed, f.m.chart = chart PROVE Joins({t \in kept : t < f.m.before}, result.bars)
  BY <1>2, <1>4 DEF Claimed, ChartIInv, PagesHold, WaitJoins
<1> QED BY <1>1, <1>3, <1>4, PageAnswered

LEMMA LeastOfThem ==
  ASSUME NEW S \in SUBSET Nat, S # {}
  PROVE  Min(S) \in S /\ \A x \in S : Min(S) <= x
BY LeastOf DEF Min

LEMMA PageOlderStep ==
  ASSUME ChartAssumption, ChartIInv, PageOlder
  PROVE  ChartIInv'
<1>1. ChartShapes /\ Edge \in Nat
  BY DEF ChartIInv, ChartAssumption
<1>2. PICK cursor : cursor = IF historyCursor # None THEN historyCursor
                     ELSE IF DOMAIN historyBars # {} THEN Min(DOMAIN historyBars) ELSE Min(DOMAIN bars)
  OBVIOUS
<1>3. PICK m : m = [type |-> "HISTORY", chart |-> chart, before |-> cursor]
  OBVIOUS
<1>4. /\ chartWire' = Append(chartWire, m) /\ (DOMAIN bars # {} \/ DOMAIN historyBars # {})
      /\ UNCHANGED <<server, replies, chart, series, historyCursor>>
  BY <1>2, <1>3 DEF PageOlder
<1>5. cursor \in Nat /\ (Claimed => Reached(cursor))
  <2>1. CASE historyCursor # None
    <3>1. historyCursor \in Nat /\ cursor = historyCursor
      BY <1>1, <1>2, <2>1 DEF ChartShapes
    <3>2. ASSUME Claimed PROVE Reached(historyCursor)
      BY <2>1, <3>2 DEF Claimed, ChartIInv, PagesHold
    <3> QED BY <3>1, <3>2
  <2>2. CASE historyCursor = None /\ DOMAIN historyBars # {}
    <3>1. DOMAIN historyBars \in SUBSET Nat /\ cursor = Min(DOMAIN historyBars)
      BY <1>1, <1>2, <2>2 DEF ChartShapes, BarSets
    <3>2. cursor \in DOMAIN historyBars
      <4>1. PICK S \in SUBSET Nat : S = DOMAIN historyBars
        BY <3>1
      <4>2. Min(S) \in S
        BY <4>1, <2>2, LeastOfThem
      <4> QED BY <3>1, <4>1, <4>2
    <3>3. ASSUME Claimed PROVE Reached(cursor)
      <4>1. Joins(kept, DOMAIN historyBars)
        BY <3>3 DEF Claimed, ChartIInv, PagesHold
      <4> QED BY <4>1, <3>2 DEF Joins, Reached
    <3> QED BY <3>1, <3>2, <3>3
  <2>3. CASE historyCursor = None /\ DOMAIN historyBars = {}
    <3>1. DOMAIN bars # {} /\ cursor = Min(DOMAIN bars) /\ DOMAIN bars \in SUBSET {n \in Nat : n >= Edge}
      BY <1>1, <1>2, <1>4, <2>3 DEF ChartShapes
    <3>2. cursor \in Nat /\ cursor >= Edge
      <4>1. PICK S \in SUBSET {n \in Nat : n >= Edge} : S = DOMAIN bars
        BY <3>1
      <4>2. Min(S) \in S
        <5>1. S \in SUBSET Nat /\ S # {}
          BY <4>1, <3>1
        <5> QED BY <5>1, LeastOfThem
      <4>3. cursor \in S
        BY <3>1, <4>1, <4>2
      <4> QED BY <4>3
    <3>3. \A t \in kept : ~(t >= cursor)
      <4>1. ASSUME NEW t \in kept PROVE ~(t >= cursor)
        <5>1. t \in 0..(Edge - 1)
          BY <1>1 DEF ChartShapes
        <5> QED BY <5>1, <3>2, <1>1
      <4> QED BY <4>1
    <3> QED BY <3>2, <3>3 DEF Reached
  <2> QED BY <2>1, <2>2, <2>3
<1>6. m \in Asks /\ m.type = "HISTORY" /\ m.before = cursor
  BY <1>1, <1>3, <1>5 DEF Asks, ChartShapes
<1>7. /\ chartWire' \in Seq(Asks)
      /\ \A i \in DOMAIN chartWire' : (i \in DOMAIN chartWire /\ chartWire'[i] = chartWire[i]) \/ chartWire'[i] = m
  BY <1>1, <1>4, <1>6, OneMore DEF ChartShapes
<1>8. \A i \in DOMAIN chartWire' :
        \/ \E j \in DOMAIN chartWire : chartWire'[i] = chartWire[j]
        \/ Claimed /\ chartWire'[i].type = "HISTORY" /\ chartWire'[i].chart = chart => Reached(chartWire'[i].before)
  BY <1>5, <1>6, <1>7
<1>9. /\ now' \in Nat /\ now' >= Edge /\ subscribed' \in Charts /\ table' \in [Charts -> BarSets]
      /\ replies' \in Seq(Answers) /\ (\A i \in DOMAIN replies' : i \in DOMAIN replies /\ replies'[i] = replies[i])
      /\ fetches' \in SUBSET Waiting /\ (\A f \in fetches' : f \in fetches)
      /\ \A c \in Charts : table[c] \subseteq table'[c] /\ \A t \in table'[c] : t \in table[c]
      /\ UNCHANGED <<historyBarsByTf, chart, series, historyCursor>>
  BY <1>1, <1>4 DEF ChartShapes, server
<1>10. ServerGoesOn
  BY <1>7, <1>8, <1>9 DEF ServerGoesOn
<1> QED BY <1>10, ServerGoesOnStep

-----------------------------------------------------------------------------
(* The invariant holds, and says what is shown. *)

LEMMA ServerStep ==
  ASSUME ChartAssumption, ChartIInv, ServerTakes
  PROVE  ChartIInv'
<1>1. \/ Head(chartWire).type = "SUBSCRIBE" /\ Subscribed(Head(chartWire).chart)
      \/ Head(chartWire).type = "HISTORY" /\ FetchHistory(Head(chartWire))
  BY DEF ServerTakes
<1> QED BY <1>1, SubscribedStep, FetchHistoryStep

LEMMA ChartStarts ==
  ASSUME ChartAssumption, ChartInit
  PROVE  ChartIInv
<1>1. Edge \in Nat /\ OpeningChart \in Charts /\ None \notin Charts
  BY DEF ChartAssumption
<1>2. table \in [Charts -> BarSets]
  <2>1. ASSUME NEW times \in SUBSET (1..(Edge - 1)) PROVE times \in BarSets
    <3>1. times \in SUBSET Nat /\ \A t \in times : t <= Edge
      BY <1>1
    <3> QED BY <3>1, <1>1, FS_BoundedSetOfNaturals DEF BarSets
  <2>2. table \in [Charts -> SUBSET (1..(Edge - 1))]
    BY DEF ChartInit
  <2> QED BY <2>1, <2>2
<1>3. /\ now = Edge /\ historyBarsByTf = [c \in Charts |-> {}] /\ subscribed = OpeningChart /\ fetches = {}
      /\ chartWire = <<[type |-> "SUBSCRIBE", chart |-> OpeningChart]>> /\ replies = << >>
      /\ chart = OpeningChart /\ key = None /\ bars = NoBars /\ historyBars = NoBars /\ historyCursor = None /\ kept = {}
  BY DEF ChartInit
<1>4. chartWire \in Seq(Asks)
  <2>1. [type |-> "SUBSCRIBE", chart |-> OpeningChart] \in Asks
    BY <1>1 DEF Asks
  <2> QED BY <2>1, <1>3
<1>5. DOMAIN bars = {} /\ DOMAIN historyBars = {} /\ {} \in BarSets
  BY <1>3, FS_EmptySet DEF NoBars, BarSets
<1>6. replies \in Seq(Answers) /\ \A i : i \notin DOMAIN replies
  BY <1>3
<1>7. ChartShapes
  BY <1>1, <1>2, <1>3, <1>4, <1>5, <1>6 DEF ChartShapes
<1>8. Queue
  BY <1>6 DEF Queue, InitAt
<1>9. ASSUME NEW c \in Charts PROVE Context(c)
  BY <1>3 DEF Context
<1>10. key # chart
  BY <1>1, <1>3
<1> QED BY <1>7, <1>8, <1>9, <1>10 DEF ChartIInv

LEMMA ChartSteps ==
  ASSUME ChartAssumption, ChartIInv, [ChartNext]_chartVars
  PROVE  ChartIInv'
<1>1. CASE UNCHANGED chartVars
  <2>1. UNCHANGED <<now, table, historyBarsByTf, subscribed, fetches, chartWire, replies, chart, key, bars, historyBars, mixed,
                    kept, historyCursor>>
    BY <1>1 DEF chartVars, server, series, paging
  <2>2. ChartShapes'
    BY <2>1 DEF ChartIInv, ChartShapes
  <2>3. Queue' /\ \A c \in Charts : Context(c)'
    BY <2>1 DEF ChartIInv, Queue, SnapshotFits, InitAt, Context, Older, Joins, NotJumped, Behind
  <2>4. key' = chart' => SeriesHolds'
    BY <2>1 DEF ChartIInv, SeriesHolds, InitAt, Joins, NotJumped, Behind
  <2>5. key' = chart' /\ ~mixed' => PagesHold'
    BY <2>1 DEF ChartIInv, PagesHold, WaitJoins, PageJoins, Reached, HistoryIsFull, Joins
  <2> QED BY <2>2, <2>3, <2>4, <2>5 DEF ChartIInv
<1>2. CASE ServerTakes
  BY <1>2, ServerStep
<1>3. CASE BrowserTakes
  BY <1>3, BrowserTakesStep
<1>4. CASE PageOlder
  BY <1>4, PageOlderStep
<1>5. CASE BarCloses
  BY <1>5, BarClosesStep
<1>6. CASE Reconnect
  BY <1>6, ReconnectStep
<1>7. ASSUME NEW f \in fetches, PageFetched(f) \/ PageNotFetched(f)
      PROVE  ChartIInv'
  BY <1>7, PageFetchedStep, PageNotFetchedStep
<1>8. ASSUME NEW c \in Charts,
             HistoryRefreshed(c) \/ HistoryNotRefreshed(c) \/ handleSelectSymbol(c) \/ handleTimeframeChange(c)
      PROVE  ChartIInv'
  BY <1>8, RefreshStep, SeriesLeft
<1>9. CASE PurgeBars(Retained)
  <2>1. Retained \in Nat
    BY DEF ChartAssumption
  <2> QED BY <2>1, <1>9, PurgeStep
<1> QED BY <1>1, <1>2, <1>3, <1>4, <1>5, <1>6, <1>7, <1>8, <1>9 DEF ChartNext

LEMMA WhatIsShown ==
  ASSUME ChartAssumption, ChartIInv
  PROVE  PagesCoverTheBars
<1> SUFFICES ASSUME key = chart, DOMAIN historyBars # {}
             PROVE  /\ \A t \in DOMAIN historyBars : historyBars[t] = chart
                    /\ ~mixed => \A t \in kept : t >= Min(DOMAIN historyBars) => t \in historyBeforeLive
  BY DEF PagesCoverTheBars
<1>1. SeriesHolds /\ ChartShapes
  BY DEF ChartIInv
<1>2. ASSUME ~mixed, NEW t \in kept, t >= Min(DOMAIN historyBars) PROVE t \in historyBeforeLive
  <2>1. Joins(kept, DOMAIN historyBars)
    BY <1>2 DEF ChartIInv, PagesHold
  <2>2. Min(DOMAIN historyBars) \in DOMAIN historyBars
    <3>1. PICK S \in SUBSET Nat : S = DOMAIN historyBars
      BY <1>1 DEF ChartShapes, BarSets
    <3>2. Min(S) \in S
      BY <3>1, LeastOfThem
    <3> QED BY <3>1, <3>2
  <2>3. t \in DOMAIN historyBars
    BY <1>2, <2>1, <2>2 DEF Joins
  <2>4. ASSUME NEW u \in DOMAIN bars PROVE t < u
    <3>1. u \in Nat /\ u >= Edge /\ t \in 0..(Edge - 1) /\ Edge \in Nat
      BY <1>1 DEF ChartShapes, ChartAssumption
    <3> QED BY <3>1
  <2> QED BY <2>3, <2>4 DEF historyBeforeLive
<1> QED BY <1>1, <1>2 DEF SeriesHolds

(* A series that was started and not left again shows one chart only, and its pages leave no hole: every bar that the store  *)
(* has had since the snapshot that started it, from the oldest one shown on, is shown, however pages, snapshots, live bars,  *)
(* refreshes, purges and lost connections mix; unless a page that an earlier series had asked for was still on its way when  *)
(* this one was started.                                                                                                     *)
THEOREM PagesCoverTheBarsTheorem == ChartSpec => []PagesCoverTheBars
<1>1. ChartInit => ChartIInv
  BY ChartAssumption, ChartStarts
<1>2. ChartIInv /\ [ChartNext]_chartVars => ChartIInv'
  BY ChartAssumption, ChartSteps
<1>3. ChartIInv => PagesCoverTheBars
  BY ChartAssumption, WhatIsShown
<1> QED BY <1>1, <1>2, <1>3, PTL DEF ChartSpec
=============================================================================
