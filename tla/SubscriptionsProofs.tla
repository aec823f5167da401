-------------------------- MODULE SubscriptionsProofs --------------------------
(***************************************************************************)
(* Proofs about Subscriptions for any sets of connections, panes, symbols  *)
(* and time frames, prompt feeds or slow ones; and about PaneReconnect, a  *)
(* browser with any number of panes, with prompt feeds.                    *)
(***************************************************************************)
EXTENDS PaneReconnect, SequenceTheorems, FiniteSetTheorems, TLAPS

-----------------------------------------------------------------------------
(* What waits.                                                             *)

(* Removing one call keeps the others.                                     *)
LEMMA Removed ==
  ASSUME NEW S, NEW q \in Seq(S), NEW i \in DOMAIN q
  PROVE  /\ RemoveAt(q, i) \in Seq(S)
         /\ \A j \in DOMAIN q \ {i} :
              \E k \in DOMAIN RemoveAt(q, i) : RemoveAt(q, i)[k] = q[j]
  <1> DEFINE a == SubSeq(q, 1, i - 1)
             b == SubSeq(q, i + 1, Len(q))
  <1>1. i \in Nat /\ 1 <= i /\ i <= Len(q) /\ Len(q) \in Nat
    BY LenProperties
  <1>2. /\ a \in Seq(S) /\ Len(a) = i - 1
        /\ \A k \in 1 .. (i - 1) : a[k] = q[k]
    BY <1>1, SubSeqProperties
  <1>3. /\ b \in Seq(S) /\ Len(b) = Len(q) - i
        /\ \A k \in 1 .. (Len(q) - i) : b[k] = q[k + i]
    BY <1>1, SubSeqProperties
  <1> HIDE DEF a, b
  <1>4. /\ a \o b \in Seq(S) /\ Len(a \o b) = Len(q) - 1
        /\ \A k \in 1 .. (Len(q) - 1) :
             (a \o b)[k] = IF k <= i - 1 THEN a[k] ELSE b[k - (i - 1)]
    <2>1. /\ a \o b \in Seq(S) /\ Len(a \o b) = Len(a) + Len(b)
          /\ \A k \in 1 .. Len(a) + Len(b) :
               (a \o b)[k] = IF k <= Len(a) THEN a[k] ELSE b[k - Len(a)]
      BY <1>2, <1>3, ConcatProperties, Zenon
    <2>2. Len(a) + Len(b) = Len(q) - 1
      BY <1>1, <1>2, <1>3
    <2>3. Len(a) = i - 1
      BY <1>2
    <2> QED
      BY <2>1, <2>2, <2>3, Zenon
  <1>5. DOMAIN (a \o b) = 1 .. (Len(q) - 1)
    BY <1>4, LenProperties
  <1>6. ASSUME NEW j \in DOMAIN q \ {i}
        PROVE  \E k \in DOMAIN (a \o b) : (a \o b)[k] = q[j]
    <2>1. j \in Nat /\ 1 <= j /\ j <= Len(q) /\ j # i
      BY LenProperties
    <2>2. CASE j < i
      <3>1. j \in 1 .. (i - 1) /\ j \in 1 .. (Len(q) - 1) /\ j <= i - 1
        BY <1>1, <2>1, <2>2
      <3>2. (a \o b)[j] = q[j]
        BY <1>2, <1>4, <3>1
      <3> QED
        BY <1>5, <3>1, <3>2
    <2>3. CASE j > i
      <3>1. /\ j - 1 \in 1 .. (Len(q) - 1) /\ ~(j - 1 <= i - 1)
            /\ (j - 1) - (i - 1) = j - i
            /\ j - i \in 1 .. (Len(q) - i) /\ (j - i) + i = j
        BY <1>1, <2>1, <2>3
      <3>2. (a \o b)[j - 1] = b[j - i]
        BY <1>4, <3>1
      <3>3. b[j - i] = q[j]
        BY <1>3, <3>1
      <3> QED
        BY <1>5, <3>1, <3>2, <3>3
    <2> QED
      BY <1>1, <2>1, <2>2, <2>3
  <1>7. RemoveAt(q, i) = a \o b
    BY DEF RemoveAt, a, b
  <1> QED
    BY <1>4, <1>6, <1>7

(* A call that is taken leaves the others waiting.                         *)
LEMMA TakesKeeps ==
  ASSUME TypeOK, NEW i, Takes(i)
  PROVE  /\ calls[i] \in Calls /\ calls' \in Seq(Calls)
         /\ calls # << >> /\ ~uncaught
         /\ context[calls[i].sub.symbol] = "ready"
         /\ \A y \in Symbols \ {calls[i].sub.symbol} : Awaited(y) => Awaited(y)'
  <1>1. calls \in Seq(Calls) /\ i \in DOMAIN calls /\ calls' = RemoveAt(calls, i)
    BY DEF TypeOK, Takes
  <1>2. calls[i] \in Calls /\ calls # << >>
    BY <1>1, ElementOfSeq, LenProperties
  <1>3. calls' \in Seq(Calls)
    BY <1>1, Removed
  <1>4. ASSUME NEW y \in Symbols \ {calls[i].sub.symbol}, Awaited(y)
        PROVE  Awaited(y)'
    <2>1. PICK j \in DOMAIN calls : calls[j].sub.symbol = y
      BY <1>4 DEF Awaited
    <2>2. j # i
      BY <1>4, <2>1
    <2>3. PICK k \in DOMAIN calls' : calls'[k] = calls[j]
      BY <1>1, <2>2, Removed
    <2> QED
      BY <2>1, <2>3 DEF Awaited
  <1> QED
    BY <1>1, <1>2, <1>3, <1>4 DEF Takes, Resumable

(* A call of subscribe waits for its context, behind the others.           *)
LEMMA SubscribeWaits ==
  ASSUME TypeOK, NEW s \in Sessions, NEW o \in Owners, NEW sub \in Subs,
         NEW caught \in BOOLEAN, Subscribe(s, o, sub, caught)
  PROVE  /\ calls' \in Seq(Calls)
         /\ generation' \in [Sessions -> [Owners -> Nat]]
         /\ context' \in [Symbols -> {"absent", "connecting", "ready"}]
         /\ \A y \in Symbols : Awaited(y) => Awaited(y)'
         /\ \A y \in Symbols : \/ context'[y] = context[y]
                               \/ context[y] = "absent" /\ context'[y] = "connecting" /\ Awaited(y)'
  <1> DEFINE c == [session |-> s, owner |-> o, sub |-> sub,
                   generation |-> generation[s][o] + 1, epoch |-> epoch[s], caught |-> caught]
  <1>1. calls \in Seq(Calls) /\ calls' = Append(calls, c)
    BY DEF TypeOK, Subscribe
  <1>2. generation[s][o] \in Nat /\ epoch[s] \in Nat
    BY DEF TypeOK
  <1>3. c \in Calls
    BY <1>2 DEF Calls
  <1>4. sub.symbol \in Symbols
    BY DEF Subs
  <1>5. generation' \in [Sessions -> [Owners -> Nat]]
    BY <1>2 DEF TypeOK, Subscribe, Bump
  <1>6. c.sub.symbol = sub.symbol
    OBVIOUS
  <1> HIDE DEF c
  <1>7. /\ calls' \in Seq(Calls) /\ Len(calls') = Len(calls) + 1
        /\ \A k \in 1 .. Len(calls) : calls'[k] = calls[k]
        /\ calls'[Len(calls) + 1] = c
    BY <1>1, <1>3, AppendProperties
  <1>8. /\ DOMAIN calls = 1 .. Len(calls) /\ DOMAIN calls' = 1 .. (Len(calls) + 1)
        /\ Len(calls) \in Nat
    BY <1>1, <1>7, LenProperties
  <1>9. Awaited(sub.symbol)'
    BY <1>6, <1>7, <1>8 DEF Awaited
  <1>10. \A y \in Symbols : Awaited(y) => Awaited(y)'
    BY <1>7, <1>8 DEF Awaited
  <1> QED
    BY <1>4, <1>5, <1>7, <1>9, <1>10 DEF TypeOK, Subscribe

-----------------------------------------------------------------------------
(* The connections.                                                        *)

(* Calling subscribe changes who waits and nothing that is settled: Accept, Request and Revoke. *)
LEMMA SubscribeKeeps ==
  ASSUME SubscriptionsInv, ~disposed,
         NEW s \in Sessions, NEW o \in Owners, NEW sub \in Subs, NEW caught \in BOOLEAN,
         Subscribe(s, o, sub, caught),
         socket' \in [Sessions -> {"new", "open", "closing", "closed"}],
         \A t \in Sessions : socket'[t] \in {"new", "closed"} => socket'[t] = socket[t],
         UNCHANGED <<owners, attached, shown, epoch, subscribers, timer, disposed, uncaught>>
  PROVE  SubscriptionsInv'
  <1>1. TypeOK
    BY DEF SubscriptionsInv
  <1>2. /\ calls' \in Seq(Calls)
        /\ generation' \in [Sessions -> [Owners -> Nat]]
        /\ context' \in [Symbols -> {"absent", "connecting", "ready"}]
        /\ \A y \in Symbols : Awaited(y) => Awaited(y)'
        /\ \A y \in Symbols : \/ context'[y] = context[y]
                              \/ context[y] = "absent" /\ context'[y] = "connecting" /\ Awaited(y)'
    BY <1>1, SubscribeWaits
  <1>3. TypeOK'
    BY <1>1, <1>2 DEF TypeOK
  <1>4. Fresh'
    BY <1>2 DEF SubscriptionsInv, Fresh
  <1>5. (AttachedAgrees /\ OwnersAreServed /\ OneFramePerSymbol)'
    BY DEF SubscriptionsInv, AttachedAgrees, OwnersAreServed, OneFramePerSymbol, Held
  <1>6. ClosedIsForgotten'
    BY DEF SubscriptionsInv, ClosedIsForgotten
  <1>7. UnusedIsScheduled'
    BY <1>2 DEF SubscriptionsInv, UnusedIsScheduled
  <1>8. ScheduledIsUnused'
    BY <1>2 DEF SubscriptionsInv, ScheduledIsUnused
  <1>9. DisposedIsEmpty'
    BY DEF DisposedIsEmpty
  <1> QED
    BY <1>3, <1>4, <1>5, <1>6, <1>7, <1>8, <1>9 DEF SubscriptionsInv

LEMMA DefaultIsASub == /\ [symbol |-> Opening, frame |-> Minute] \in Subs
                       /\ [symbol |-> Home, frame |-> Minute] \in Subs
  BY SubscriptionsAssumption DEF Subs

LEMMA AcceptKeeps ==
  ASSUME SubscriptionsInv, NEW s \in Sessions, Accept(s)
  PROVE  SubscriptionsInv'
  <1>1. /\ ~disposed
        /\ socket' = [socket EXCEPT ![s] = "open"]
        /\ Subscribe(s, Primary, [symbol |-> Opening, frame |-> Minute], FALSE)
        /\ UNCHANGED <<owners, attached, shown, epoch, subscribers, timer, disposed, uncaught>>
    BY DEF Accept
  <1>2. socket \in [Sessions -> {"new", "open", "closing", "closed"}]
    BY DEF SubscriptionsInv, TypeOK
  <1>3. /\ socket' \in [Sessions -> {"new", "open", "closing", "closed"}]
        /\ \A t \in Sessions : socket'[t] \in {"new", "closed"} => socket'[t] = socket[t]
    BY <1>1, <1>2
  <1> QED
    BY <1>1, <1>3, DefaultIsASub, SubscribeKeeps, SubscriptionsAssumption

LEMMA RequestKeeps ==
  ASSUME SubscriptionsInv, NEW s \in Sessions, NEW o \in Owners, NEW sub \in Subs,
         Request(s, o, sub)
  PROVE  SubscriptionsInv'
  <1>1. /\ ~disposed /\ socket' = socket
        /\ Subscribe(s, o, sub, TRUE)
        /\ UNCHANGED <<owners, attached, shown, epoch, subscribers, timer, disposed, uncaught>>
    BY DEF Request, Hears
  <1>2. socket \in [Sessions -> {"new", "open", "closing", "closed"}]
    BY DEF SubscriptionsInv, TypeOK
  <1> QED
    BY <1>1, <1>2, SubscribeKeeps

(* Closing a socket alone changes nothing.                                 *)
LEMMA ClosingKeeps ==
  ASSUME SubscriptionsInv, NEW s \in Sessions,
         socket' = [socket EXCEPT ![s] = "closing"],
         UNCHANGED <<owners, attached, shown, generation, epoch, manager>>
  PROVE  SubscriptionsInv'
  <1> USE DEF SubscriptionsInv, manager
  <1>1. TypeOK' /\ \A t \in Sessions : socket'[t] \in {"new", "closed"} => socket'[t] = socket[t]
    BY DEF TypeOK
  <1>2. (Fresh /\ AttachedAgrees /\ ClosedIsForgotten)'
    BY <1>1 DEF Fresh, AttachedAgrees, ClosedIsForgotten
  <1>3. (OwnersAreServed /\ OneFramePerSymbol)'
    BY DEF OwnersAreServed, OneFramePerSymbol, Held
  <1>4. (UnusedIsScheduled /\ ScheduledIsUnused /\ DisposedIsEmpty)'
    BY DEF UnusedIsScheduled, ScheduledIsUnused, DisposedIsEmpty, Awaited
  <1> QED
    BY <1>1, <1>2, <1>3, <1>4

LEMMA RevokeKeeps ==
  ASSUME SubscriptionsInv, NEW s \in Sessions, Revoke(s)
  PROVE  SubscriptionsInv'
  <1>1. CASE ~AuthRequired /\ shown[s].symbol # Home
    <2>1. /\ ~disposed /\ socket' = socket
          /\ Subscribe(s, Primary, [symbol |-> Home, frame |-> Minute], FALSE)
          /\ UNCHANGED <<owners, attached, shown, epoch, subscribers, timer, disposed, uncaught>>
      BY <1>1 DEF Revoke, Hears
    <2>2. socket \in [Sessions -> {"new", "open", "closing", "closed"}]
      BY DEF SubscriptionsInv, TypeOK
    <2> QED
      BY <2>1, <2>2, DefaultIsASub, SubscribeKeeps, SubscriptionsAssumption
  <1>2. CASE ~(~AuthRequired /\ shown[s].symbol # Home)
    BY <1>2, ClosingKeeps DEF Revoke, manager
  <1> QED
    BY <1>1, <1>2

-----------------------------------------------------------------------------
(* Leaving.                                                                *)

(* The subscribers and the cleanups once s has left the symbols of left.   *)
LEMMA WithoutAt ==
  ASSUME SubscriptionsInv, NEW s \in Sessions, NEW left \in SUBSET Symbols
  PROVE  /\ Without(s, left) \in [Symbols -> SUBSET Sessions]
         /\ \A y \in Symbols :
              Without(s, left)[y] = IF y \in left THEN subscribers[y] \ {s} ELSE subscribers[y]
  <1>1. subscribers \in [Symbols -> SUBSET Sessions]
    BY DEF SubscriptionsInv, TypeOK
  <1>2. \A y \in Symbols : context[y] # "ready" => subscribers[y] = {}
    BY DEF SubscriptionsInv, Fresh
  <1> QED
    BY <1>1, <1>2 DEF Without

(* The cleanups that are scheduled are those of unused contexts, all but the default one's. *)
LEMMA ScheduledAt ==
  ASSUME SubscriptionsInv, NEW s \in Sessions, NEW left \in SUBSET Symbols
  PROVE  LET S == Without(s, left)
             T == Scheduled(left, S)
         IN  /\ T \in [Symbols -> BOOLEAN]
             /\ \A y \in Symbols : T[y] => context[y] = "ready" /\ S[y] = {}
             /\ \A y \in Symbols \ {Home, Opening} :
                  context[y] # "absent" /\ S[y] = {} => T[y] \/ Awaited(y)
  <1> DEFINE S == Without(s, left)
             T == Scheduled(left, S)
  <1>1. \A y \in Symbols : S[y] = IF y \in left THEN subscribers[y] \ {s} ELSE subscribers[y]
    BY WithoutAt
  <1>2. \A y \in Symbols : timer[y] => context[y] = "ready" /\ subscribers[y] = {}
    BY DEF SubscriptionsInv, ScheduledIsUnused
  <1>3. \A y \in Symbols \ {Home, Opening} :
          context[y] # "absent" /\ subscribers[y] = {} => timer[y] \/ Awaited(y)
    BY DEF SubscriptionsInv, UnusedIsScheduled
  <1>4. timer \in [Symbols -> BOOLEAN]
    BY DEF SubscriptionsInv, TypeOK
  <1>5. \A y \in Symbols : context[y] # "ready" => subscribers[y] = {}
    BY DEF SubscriptionsInv, Fresh
  <1>6. /\ T \in [Symbols -> BOOLEAN]
        /\ \A y \in Symbols : T[y] <=> \/ timer[y]
                                       \/ y \in left /\ y # Home /\ context[y] = "ready" /\ S[y] = {}
    BY <1>4 DEF Scheduled
  <1> HIDE DEF S, T
  <1>7. ASSUME NEW y \in Symbols, T[y]
        PROVE  context[y] = "ready" /\ S[y] = {}
    <2>1. CASE timer[y]
      BY <1>1, <1>2, <2>1
    <2>2. CASE ~timer[y]
      BY <1>6, <1>7, <2>2
    <2> QED
      BY <2>1, <2>2
  <1>8. ASSUME NEW y \in Symbols \ {Home, Opening}, context[y] # "absent", S[y] = {}
        PROVE  T[y] \/ Awaited(y)
    <2>1. CASE subscribers[y] = {}
      BY <1>3, <1>6, <1>8, <2>1
    <2>2. CASE subscribers[y] # {}
      BY <1>1, <1>5, <1>6, <1>8, <2>2
    <2> QED
      BY <2>1, <2>2
  <1> QED
    BY <1>6, <1>7, <1>8 DEF S, T

(* A session that leaves the contexts of left keeps the books of the contexts in order. *)
LEMMA DetachKeeps ==
  ASSUME SubscriptionsInv, NEW s \in Sessions, NEW left \in SUBSET Symbols,
         Detach(s, left), UNCHANGED <<context, calls, disposed>>
  PROVE  /\ subscribers' \in [Symbols -> SUBSET Sessions]
         /\ timer' \in [Symbols -> BOOLEAN]
         /\ attached' \in [Sessions -> [Symbols -> Frames \cup {None}]]
         /\ \A y \in Symbols :
              subscribers'[y] = IF y \in left THEN subscribers[y] \ {s} ELSE subscribers[y]
         /\ \A t \in Sessions, y \in Symbols :
              attached'[t][y] = IF t = s /\ y \in left THEN None ELSE attached[t][y]
         /\ AttachedAgrees' /\ UnusedIsScheduled' /\ ScheduledIsUnused' /\ DisposedIsEmpty'
  <1>1. /\ subscribers' \in [Symbols -> SUBSET Sessions]
        /\ \A y \in Symbols :
              subscribers'[y] = IF y \in left THEN subscribers[y] \ {s} ELSE subscribers[y]
    BY WithoutAt DEF Detach
  <1>2. /\ timer' \in [Symbols -> BOOLEAN]
        /\ \A y \in Symbols : timer'[y] => context[y] = "ready" /\ subscribers'[y] = {}
        /\ \A y \in Symbols \ {Home, Opening} :
             context[y] # "absent" /\ subscribers'[y] = {} => timer'[y] \/ Awaited(y)
    BY ScheduledAt DEF Detach
  <1>3. attached \in [Sessions -> [Symbols -> Frames \cup {None}]]
    BY DEF SubscriptionsInv, TypeOK
  <1>4. /\ attached' \in [Sessions -> [Symbols -> Frames \cup {None}]]
        /\ \A t \in Sessions, y \in Symbols :
              attached'[t][y] = IF t = s /\ y \in left THEN None ELSE attached[t][y]
    BY <1>3 DEF Detach
  <1>5. AttachedAgrees'
    BY <1>1, <1>4 DEF SubscriptionsInv, AttachedAgrees
  <1>6. ScheduledIsUnused'
    BY <1>2 DEF ScheduledIsUnused
  <1>7. UnusedIsScheduled'
    BY <1>2 DEF UnusedIsScheduled, Awaited
  <1>8. DisposedIsEmpty'
    BY <1>1, <1>2 DEF SubscriptionsInv, DisposedIsEmpty
  <1> QED
    BY <1>1, <1>2, <1>4, <1>5, <1>6, <1>7, <1>8

LEMMA WithdrawKeeps ==
  ASSUME SubscriptionsInv, NEW s \in Sessions, NEW o \in Owners, NEW y, Withdraw(s, o, y)
  PROVE  SubscriptionsInv'
  <1> DEFINE old  == owners[s][o]
             ends == old # None /\ (y = None \/ old.symbol = y)
             left == {z \in Symbols : ends /\ z = old.symbol /\ ~HeldBesides(owners[s], o, z)}
  <1>1. /\ ~disposed /\ socket[s] \in {"open", "closing"}
        /\ generation' = [generation EXCEPT ![s][o] = @ + 1]
        /\ owners' = IF ends THEN [owners EXCEPT ![s][o] = None] ELSE owners
        /\ Detach(s, left)
        /\ UNCHANGED <<socket, shown, epoch, context, calls, disposed, uncaught>>
    BY DEF Withdraw, Hears, Bump
  <1>2. TypeOK
    BY DEF SubscriptionsInv
  <1>3. /\ subscribers' \in [Symbols -> SUBSET Sessions]
        /\ timer' \in [Symbols -> BOOLEAN]
        /\ attached' \in [Sessions -> [Symbols -> Frames \cup {None}]]
        /\ \A z \in Symbols :
              subscribers'[z] = IF z \in left THEN subscribers[z] \ {s} ELSE subscribers[z]
        /\ \A t \in Sessions, z \in Symbols :
              attached'[t][z] = IF t = s /\ z \in left THEN None ELSE attached[t][z]
        /\ AttachedAgrees' /\ UnusedIsScheduled' /\ ScheduledIsUnused' /\ DisposedIsEmpty'
    <2>1. left \in SUBSET Symbols
      OBVIOUS
    <2> QED
      BY <1>1, <2>1, DetachKeeps
  <1>4. /\ owners' \in [Sessions -> [Owners -> Subs \cup {None}]]
        /\ \A t \in Sessions, p \in Owners :
             owners'[t][p] = IF t = s /\ p = o /\ ends THEN None ELSE owners[t][p]
    BY <1>1, <1>2 DEF TypeOK
  <1>5. generation' \in [Sessions -> [Owners -> Nat]]
    BY <1>1, <1>2 DEF TypeOK
  <1>6. TypeOK'
    BY <1>1, <1>2, <1>3, <1>4, <1>5 DEF TypeOK
  <1>7. \A z \in Symbols : z \in left <=> ends /\ z = old.symbol /\ ~HeldBesides(owners[s], o, z)
    OBVIOUS
  <1> HIDE DEF left
  <1>8. Fresh'
    BY <1>1, <1>3, <1>4 DEF SubscriptionsInv, Fresh
  <1>9. ClosedIsForgotten'
    <2> SUFFICES ASSUME NEW t \in Sessions, socket'[t] = "closed"
                 PROVE  /\ \A p \in Owners : owners'[t][p] = None
                        /\ \A z \in Symbols : attached'[t][z] = None /\ t \notin subscribers'[z]
      BY DEF ClosedIsForgotten
    <2>1. socket[t] = "closed"
      BY <1>1
    <2>2. /\ \A p \in Owners : owners[t][p] = None
          /\ \A z \in Symbols : attached[t][z] = None /\ t \notin subscribers[z]
      BY <2>1 DEF SubscriptionsInv, ClosedIsForgotten
    <2> QED
      BY <1>3, <1>4, <2>2
  <1>10. OwnersAreServed'
    <2> SUFFICES ASSUME NEW t \in Sessions, NEW z \in Symbols
                 PROVE  t \in subscribers'[z] <=> Held(owners'[t], z)
      BY DEF OwnersAreServed
    <2>1. t \in subscribers[z] <=> Held(owners[t], z)
      BY <1>1 DEF SubscriptionsInv, OwnersAreServed
    <2>2. CASE t # s \/ ~ends
      <3>1. \A p \in Owners : owners'[t][p] = owners[t][p]
        BY <1>4, <2>2
      <3>2. t \in subscribers'[z] <=> t \in subscribers[z]
        BY <1>3, <1>7, <2>2
      <3> QED
        BY <2>1, <3>1, <3>2 DEF Held
    <2>3. CASE t = s /\ ends
      <3>1. Held(owners'[s], z) <=> HeldBesides(owners[s], o, z)
        BY <1>4, <2>3 DEF Held, HeldBesides
      <3>2. CASE z = old.symbol
        BY <1>3, <1>7, <2>1, <2>3, <3>1, <3>2 DEF Held, HeldBesides
      <3>3. CASE z # old.symbol
        BY <1>3, <1>7, <2>1, <2>3, <3>1, <3>3 DEF Held, HeldBesides
      <3> QED
        BY <3>2, <3>3
    <2> QED
      BY <2>2, <2>3
  <1>11. OneFramePerSymbol'
    <2> SUFFICES ASSUME NEW t \in Sessions, NEW p \in Owners, owners'[t][p] # None
                 PROVE  attached'[t][owners'[t][p].symbol] = owners'[t][p].frame
      BY DEF OneFramePerSymbol
    <2>1. owners'[t][p] = owners[t][p] /\ owners[t][p] \in Subs
      BY <1>2, <1>4 DEF TypeOK
    <2>2. owners[t][p].symbol \in Symbols
      BY <2>1 DEF Subs
    <2>3. attached[t][owners[t][p].symbol] = owners[t][p].frame
      BY <1>1, <2>1 DEF SubscriptionsInv, OneFramePerSymbol
    <2>4. ~(t = s /\ owners[t][p].symbol \in left)
      BY <1>4, <1>7, <2>1, <2>2 DEF HeldBesides
    <2> QED
      BY <1>3, <2>1, <2>2, <2>3, <2>4
  <1> QED
    BY <1>3, <1>6, <1>8, <1>9, <1>10, <1>11 DEF SubscriptionsInv

LEMMA ClosedKeeps ==
  ASSUME SubscriptionsInv, NEW s \in Sessions, Closed(s)
  PROVE  SubscriptionsInv'
  <1> DEFINE left == {y \in Symbols : attached[s][y] # None \/ Held(owners[s], y)}
  <1>1. /\ socket' = [socket EXCEPT ![s] = "closed"]
        /\ epoch' = [epoch EXCEPT ![s] = @ + 1]
        /\ generation' = [generation EXCEPT ![s] =
                            [o \in Owners |-> IF owners[s][o] # None THEN @[o] + 1 ELSE @[o]]]
        /\ owners' = [owners EXCEPT ![s] = [o \in Owners |-> None]]
        /\ Detach(s, left)
        /\ UNCHANGED <<shown, context, calls, disposed, uncaught>>
    BY DEF Closed
  <1>2. TypeOK
    BY DEF SubscriptionsInv
  <1>3. /\ subscribers' \in [Symbols -> SUBSET Sessions]
        /\ timer' \in [Symbols -> BOOLEAN]
        /\ attached' \in [Sessions -> [Symbols -> Frames \cup {None}]]
        /\ \A z \in Symbols :
              subscribers'[z] = IF z \in left THEN subscribers[z] \ {s} ELSE subscribers[z]
        /\ \A t \in Sessions, z \in Symbols :
              attached'[t][z] = IF t = s /\ z \in left THEN None ELSE attached[t][z]
        /\ AttachedAgrees' /\ UnusedIsScheduled' /\ ScheduledIsUnused' /\ DisposedIsEmpty'
    <2>1. left \in SUBSET Symbols
      OBVIOUS
    <2> QED
      BY <1>1, <2>1, DetachKeeps
  <1>4. /\ owners' \in [Sessions -> [Owners -> Subs \cup {None}]]
        /\ \A t \in Sessions, p \in Owners : owners'[t][p] = IF t = s THEN None ELSE owners[t][p]
    BY <1>1, <1>2 DEF TypeOK
  <1>5. /\ generation' \in [Sessions -> [Owners -> Nat]]
        /\ epoch' \in [Sessions -> Nat]
        /\ socket' \in [Sessions -> {"new", "open", "closing", "closed"}]
        /\ \A t \in Sessions : socket'[t] = IF t = s THEN "closed" ELSE socket[t]
    BY <1>1, <1>2 DEF TypeOK
  <1>6. TypeOK'
    BY <1>1, <1>2, <1>3, <1>4, <1>5 DEF TypeOK
  <1>7. \A z \in Symbols : z \in left <=> attached[s][z] # None \/ Held(owners[s], z)
    OBVIOUS
  <1> HIDE DEF left
  <1>8. Fresh'
    <2>1. \A t \in Sessions : socket'[t] = "new" =>
            /\ \A o \in Owners : owners'[t][o] = None
            /\ \A y \in Symbols : t \notin subscribers'[y]
      <3> SUFFICES ASSUME NEW t \in Sessions, socket'[t] = "new"
                   PROVE  /\ \A o \in Owners : owners'[t][o] = None
                          /\ \A y \in Symbols : t \notin subscribers'[y]
        OBVIOUS
      <3>1. t # s /\ socket[t] = "new"
        BY <1>5
      <3>2. /\ \A o \in Owners : owners[t][o] = None
            /\ \A y \in Symbols : t \notin subscribers[y]
        BY <3>1 DEF SubscriptionsInv, Fresh
      <3> QED
        BY <1>3, <1>4, <3>1, <3>2
    <2>2. \A y \in Symbols : context[y] # "ready" => subscribers'[y] = {}
      BY <1>3 DEF SubscriptionsInv, Fresh
    <2>3. disposed => calls = << >>
      BY DEF SubscriptionsInv, Fresh
    <2> QED
      BY <1>1, <2>1, <2>2, <2>3 DEF Fresh
  <1>9. \A z \in Symbols : s \notin subscribers'[z] /\ attached'[s][z] = None
    BY <1>3, <1>7 DEF SubscriptionsInv, AttachedAgrees
  <1>10. ClosedIsForgotten'
    <2> SUFFICES ASSUME NEW t \in Sessions, socket'[t] = "closed"
                 PROVE  /\ \A p \in Owners : owners'[t][p] = None
                        /\ \A z \in Symbols : attached'[t][z] = None /\ t \notin subscribers'[z]
      BY DEF ClosedIsForgotten
    <2>1. CASE t = s
      BY <1>4, <1>9, <2>1
    <2>2. CASE t # s
      <3>1. socket[t] = "closed"
        BY <1>5, <2>2
      <3>2. /\ \A p \in Owners : owners[t][p] = None
            /\ \A z \in Symbols : attached[t][z] = None /\ t \notin subscribers[z]
        BY <3>1 DEF SubscriptionsInv, ClosedIsForgotten
      <3> QED
        BY <1>3, <1>4, <2>2, <3>2
    <2> QED
      BY <2>1, <2>2
  <1>11. OwnersAreServed'
    <2> SUFFICES ASSUME ~disposed, NEW t \in Sessions, NEW z \in Symbols
                 PROVE  t \in subscribers'[z] <=> Held(owners'[t], z)
      BY <1>1 DEF OwnersAreServed
    <2>1. CASE t = s
      BY <1>4, <1>9, <2>1 DEF Held
    <2>2. CASE t # s
      <3>1. t \in subscribers[z] <=> Held(owners[t], z)
        BY DEF SubscriptionsInv, OwnersAreServed
      <3> QED
        BY <1>3, <1>4, <2>2, <3>1 DEF Held
    <2> QED
      BY <2>1, <2>2
  <1>12. OneFramePerSymbol'
    <2> SUFFICES ASSUME ~disposed, NEW t \in Sessions, NEW p \in Owners, owners'[t][p] # None
                 PROVE  attached'[t][owners'[t][p].symbol] = owners'[t][p].frame
      BY <1>1 DEF OneFramePerSymbol
    <2>1. t # s /\ owners'[t][p] = owners[t][p] /\ owners[t][p] \in Subs
      BY <1>2, <1>4 DEF TypeOK
    <2>2. owners[t][p].symbol \in Symbols
      BY <2>1 DEF Subs
    <2> QED
      BY <1>3, <2>1, <2>2 DEF SubscriptionsInv, OneFramePerSymbol
  <1> QED
    BY <1>3, <1>6, <1>8, <1>10, <1>11, <1>12 DEF SubscriptionsInv

-----------------------------------------------------------------------------
(* The end of a call.                                                      *)

LEMMA AbandonKeeps ==
  ASSUME SubscriptionsInv, NEW i, Abandon(i)
  PROVE  SubscriptionsInv'
  <1> DEFINE y == calls[i].sub.symbol
  <1>1. /\ calls[i] \in Calls /\ calls' \in Seq(Calls) /\ calls # << >>
        /\ context[y] = "ready"
        /\ \A z \in Symbols \ {y} : Awaited(z) => Awaited(z)'
    BY TakesKeeps DEF Abandon, SubscriptionsInv
  <1>2. y \in Symbols
    BY <1>1 DEF Calls, Subs
  <1>3. /\ timer' = Scheduled({y}, subscribers)
        /\ UNCHANGED <<session, context, subscribers, disposed, uncaught>>
    BY DEF Abandon
  <1> HIDE DEF y
  <1>4. timer \in [Symbols -> BOOLEAN]
    BY DEF SubscriptionsInv, TypeOK
  <1>5. /\ timer' \in [Symbols -> BOOLEAN]
        /\ \A z \in Symbols :
             timer'[z] <=> \/ timer[z]
                           \/ z = y /\ z # Home /\ context[z] = "ready" /\ subscribers[z] = {}
    <2> DEFINE T == Scheduled({y}, subscribers)
    <2>1. /\ T \in [Symbols -> BOOLEAN]
          /\ \A z \in Symbols : T[z] <=> \/ timer[z]
                                         \/ z = y /\ z # Home /\ context[z] = "ready"
                                            /\ subscribers[z] = {}
      BY <1>4 DEF Scheduled
    <2>2. timer' = T
      BY <1>3
    <2> HIDE DEF T
    <2> QED
      BY <2>1, <2>2, Zenon
  <1>6. TypeOK'
    BY <1>1, <1>3, <1>5 DEF SubscriptionsInv, TypeOK, session
  <1>7. ~disposed
    BY <1>1 DEF SubscriptionsInv, Fresh
  <1>8. Fresh'
    BY <1>3, <1>7 DEF SubscriptionsInv, Fresh, session
  <1>9. (AttachedAgrees /\ OwnersAreServed /\ OneFramePerSymbol)'
    BY <1>3 DEF SubscriptionsInv, AttachedAgrees, OwnersAreServed, OneFramePerSymbol, Held, session
  <1>10. ClosedIsForgotten'
    BY <1>3 DEF SubscriptionsInv, ClosedIsForgotten, session
  <1>11. ScheduledIsUnused'
    BY <1>3, <1>5 DEF SubscriptionsInv, ScheduledIsUnused
  <1>12. UnusedIsScheduled'
    <2> SUFFICES ASSUME NEW z \in Symbols \ {Home, Opening},
                        context[z] # "absent", subscribers[z] = {}
                 PROVE  timer'[z] \/ Awaited(z)'
      BY <1>3 DEF UnusedIsScheduled
    <2>1. CASE z = y
      BY <1>1, <1>5, <2>1
    <2>2. CASE z # y
      <3>1. timer[z] \/ Awaited(z)
        BY DEF SubscriptionsInv, UnusedIsScheduled
      <3>2. Awaited(z) => Awaited(z)'
        BY <1>1, <2>2
      <3>3. timer[z] => timer'[z]
        BY <1>5, Zenon
      <3> QED
        BY <3>1, <3>2, <3>3, Zenon
    <2> QED
      BY <2>1, <2>2
  <1>13. DisposedIsEmpty'
    BY <1>3, <1>7 DEF DisposedIsEmpty
  <1> QED
    BY <1>6, <1>8, <1>9, <1>10, <1>11, <1>12, <1>13 DEF SubscriptionsInv

LEMMA RefuseKeeps ==
  ASSUME SubscriptionsInv, NEW i, Refuse(i)
  PROVE  SubscriptionsInv'
  <1> DEFINE c == calls[i]
             y == c.sub.symbol
  <1>1. /\ c \in Calls /\ calls' \in Seq(Calls) /\ calls # << >>
        /\ context[y] = "ready"
        /\ \A z \in Symbols \ {y} : Awaited(z) => Awaited(z)'
    BY TakesKeeps DEF Refuse, SubscriptionsInv
  <1>2. y \in Symbols /\ c.session \in Sessions /\ c.caught \in BOOLEAN
    BY <1>1 DEF Calls, Subs
  <1>3. /\ uncaught' = ~c.caught
        /\ UNCHANGED <<session, context, subscribers, timer, disposed>>
    BY DEF Refuse
  <1>4. ~disposed
    BY <1>1 DEF SubscriptionsInv, Fresh
  <1>5. subscribers[y] # {}
    <2>1. PICK p \in Owners : owners[c.session][p] # None /\ owners[c.session][p].symbol = y
      BY DEF Refuse, Conflicts
    <2>2. c.session \in subscribers[y]
      BY <1>2, <1>4, <2>1 DEF SubscriptionsInv, OwnersAreServed, Held
    <2> QED
      BY <2>2
  <1> HIDE DEF c, y
  <1>6. TypeOK'
    BY <1>1, <1>2, <1>3 DEF SubscriptionsInv, TypeOK, session
  <1>7. Fresh'
    BY <1>3, <1>4 DEF SubscriptionsInv, Fresh, session
  <1>8. (AttachedAgrees /\ OwnersAreServed /\ OneFramePerSymbol)'
    BY <1>3 DEF SubscriptionsInv, AttachedAgrees, OwnersAreServed, OneFramePerSymbol, Held, session
  <1>9. ClosedIsForgotten'
    BY <1>3 DEF SubscriptionsInv, ClosedIsForgotten, session
  <1>10. ScheduledIsUnused'
    BY <1>3 DEF SubscriptionsInv, ScheduledIsUnused
  <1>11. UnusedIsScheduled'
    BY <1>1, <1>3, <1>5 DEF SubscriptionsInv, UnusedIsScheduled
  <1>12. DisposedIsEmpty'
    BY <1>3, <1>4 DEF DisposedIsEmpty
  <1> QED
    BY <1>6, <1>7, <1>8, <1>9, <1>10, <1>11, <1>12 DEF SubscriptionsInv

LEMMA JoinKeeps ==
  ASSUME SubscriptionsInv, NEW i, Join(i)
  PROVE  SubscriptionsInv'
  <1> DEFINE c    == calls[i]
             s    == c.session
             o    == c.owner
             y    == c.sub.symbol
             old  == owners[s][o]
             left == {z \in Symbols : /\ old # None /\ z = old.symbol /\ z # y
                                      /\ ~HeldBesides(owners[s], o, z)}
             S    == Without(s, left)
             T    == Scheduled(left, S)
  <1>1. /\ c \in Calls /\ calls' \in Seq(Calls) /\ calls # << >>
        /\ context[y] = "ready"
        /\ \A z \in Symbols \ {y} : Awaited(z) => Awaited(z)'
    BY TakesKeeps DEF Join, SubscriptionsInv
  <1>2. /\ s \in Sessions /\ o \in Owners /\ c.sub \in Subs
        /\ y \in Symbols /\ c.sub.frame \in Frames
    BY <1>1 DEF Calls, Subs
  <1>3. /\ socket[s] = "open"
        /\ \A p \in Owners \ {o} : owners[s][p] # None /\ owners[s][p].symbol = y
                                     => owners[s][p].frame = c.sub.frame
        /\ owners' = [owners EXCEPT ![s][o] = c.sub]
        /\ subscribers' = [S EXCEPT ![y] = @ \cup {s}]
        /\ timer' = [T EXCEPT ![y] = FALSE]
        /\ attached' = [attached EXCEPT ![s] =
                          [z \in Symbols |-> IF z = y THEN c.sub.frame
                                             ELSE IF z \in left THEN None ELSE @[z]]]
        /\ shown' = IF o = Primary THEN [shown EXCEPT ![s] = c.sub] ELSE shown
        /\ UNCHANGED <<socket, generation, epoch, context, disposed, uncaught>>
    BY DEF Join, Superseded, Conflicts, Cancelled
  <1>4. TypeOK /\ ~disposed
    BY <1>1 DEF SubscriptionsInv, Fresh
  <1>5. left \in SUBSET Symbols
    OBVIOUS
  <1>6. \A z \in Symbols : z \in left <=> /\ old # None /\ z = old.symbol /\ z # y
                                          /\ ~HeldBesides(owners[s], o, z)
    OBVIOUS
  <1> HIDE DEF left
  <1>7. /\ S \in [Symbols -> SUBSET Sessions]
        /\ \A z \in Symbols : S[z] = IF z \in left THEN subscribers[z] \ {s} ELSE subscribers[z]
    BY <1>2, <1>5, WithoutAt
  <1>8. /\ T \in [Symbols -> BOOLEAN]
        /\ \A z \in Symbols : T[z] => context[z] = "ready" /\ S[z] = {}
        /\ \A z \in Symbols \ {Home, Opening} :
             context[z] # "absent" /\ S[z] = {} => T[z] \/ Awaited(z)
    BY <1>2, <1>5, ScheduledAt
  <1> HIDE DEF S, T, y, o, s, c
  <1>9. /\ subscribers' \in [Symbols -> SUBSET Sessions]
        /\ \A z \in Symbols : subscribers'[z] = IF z = y THEN subscribers[z] \cup {s}
                                               ELSE IF z \in left THEN subscribers[z] \ {s}
                                               ELSE subscribers[z]
    BY <1>2, <1>3, <1>6, <1>7
  <1>10. /\ timer' \in [Symbols -> BOOLEAN]
         /\ \A z \in Symbols : timer'[z] = IF z = y THEN FALSE ELSE T[z]
    BY <1>2, <1>3, <1>8
  <1>11. /\ attached' \in [Sessions -> [Symbols -> Frames \cup {None}]]
         /\ \A t \in Sessions, z \in Symbols :
              attached'[t][z] = IF t = s /\ z = y THEN c.sub.frame
                                ELSE IF t = s /\ z \in left THEN None ELSE attached[t][z]
    BY <1>2, <1>3, <1>4 DEF TypeOK
  <1>12. /\ owners' \in [Sessions -> [Owners -> Subs \cup {None}]]
         /\ \A t \in Sessions, p \in Owners :
              owners'[t][p] = IF t = s /\ p = o THEN c.sub ELSE owners[t][p]
    BY <1>2, <1>3, <1>4 DEF TypeOK
  <1>13. TypeOK'
    <2>1. shown' \in [Sessions -> Subs]
      BY <1>2, <1>3, <1>4 DEF TypeOK
    <2> QED
      BY <1>1, <1>3, <1>4, <1>9, <1>10, <1>11, <1>12, <2>1 DEF TypeOK
  <1>14. Fresh'
    <2>1. ASSUME NEW t \in Sessions, socket'[t] = "new"
          PROVE  /\ \A p \in Owners : owners'[t][p] = None
                 /\ \A z \in Symbols : t \notin subscribers'[z]
      <3>1. socket[t] = "new" /\ t # s
        BY <1>3, <2>1
      <3>2. /\ \A p \in Owners : owners[t][p] = None
            /\ \A z \in Symbols : t \notin subscribers[z]
        BY <3>1 DEF SubscriptionsInv, Fresh
      <3>3. \A p \in Owners : owners'[t][p] = None
        BY <1>12, <3>1, <3>2
      <3> QED
        BY <1>9, <3>1, <3>2, <3>3
    <2>2. \A z \in Symbols : context'[z] # "ready" => subscribers'[z] = {}
      BY <1>1, <1>3, <1>9 DEF SubscriptionsInv, Fresh
    <2> QED
      BY <1>3, <1>4, <2>1, <2>2 DEF Fresh
  <1>15. AttachedAgrees'
    <2> SUFFICES ASSUME NEW t \in Sessions, NEW z \in Symbols
                 PROVE  attached'[t][z] # None <=> t \in subscribers'[z]
      BY DEF AttachedAgrees
    <2>1. attached[t][z] # None <=> t \in subscribers[z]
      BY DEF SubscriptionsInv, AttachedAgrees
    <2>2. c.sub.frame # None
      BY <1>2, SubscriptionsAssumption
    <2>3. CASE z = y
      BY <1>6, <1>9, <1>11, <2>1, <2>2, <2>3
    <2>4. CASE z # y
      BY <1>9, <1>11, <2>1, <2>4
    <2> QED
      BY <2>3, <2>4
  <1>16. OwnersAreServed'
    <2> SUFFICES ASSUME NEW t \in Sessions, NEW z \in Symbols
                 PROVE  t \in subscribers'[z] <=> Held(owners'[t], z)
      BY DEF OwnersAreServed
    <2>1. t \in subscribers[z] <=> Held(owners[t], z)
      BY <1>4 DEF SubscriptionsInv, OwnersAreServed
    <2>2. CASE t # s
      <3>1. \A p \in Owners : owners'[t][p] = owners[t][p]
        BY <1>12, <2>2
      <3>2. t \in subscribers'[z] <=> t \in subscribers[z]
        BY <1>9, <2>2
      <3> QED
        BY <2>1, <3>1, <3>2 DEF Held
    <2>3. CASE t = s
      <3>1. Held(owners'[s], z) <=> z = y \/ HeldBesides(owners[s], o, z)
        <4>1. c.sub # None /\ c.sub.symbol = y
          BY <1>2, SubscriptionsAssumption DEF y
        <4> QED
          BY <1>2, <1>12, <4>1 DEF Held, HeldBesides
      <3>2. Held(owners[s], z) <=> (old # None /\ z = old.symbol) \/ HeldBesides(owners[s], o, z)
        BY <1>2 DEF Held, HeldBesides
      <3>3. s \in subscribers'[z] <=> z = y \/ (z \notin left /\ s \in subscribers[z])
        BY <1>9
      <3> QED
        BY <1>6, <2>1, <2>3, <3>1, <3>2, <3>3
    <2> QED
      BY <2>2, <2>3
  <1>17. OneFramePerSymbol'
    <2> SUFFICES ASSUME NEW t \in Sessions, NEW p \in Owners, owners'[t][p] # None
                 PROVE  attached'[t][owners'[t][p].symbol] = owners'[t][p].frame
      BY DEF OneFramePerSymbol
    <2>1. CASE t = s /\ p = o
      BY <1>2, <1>11, <1>12, <2>1 DEF y
    <2>2. CASE ~(t = s /\ p = o)
      <3>1. owners'[t][p] = owners[t][p] /\ owners[t][p] \in Subs
        BY <1>4, <1>12, <2>2 DEF TypeOK
      <3>2. owners[t][p].symbol \in Symbols
        BY <3>1 DEF Subs
      <3>3. attached[t][owners[t][p].symbol] = owners[t][p].frame
        BY <1>4, <3>1 DEF SubscriptionsInv, OneFramePerSymbol
      <3>4. CASE t = s /\ owners[t][p].symbol = y
        BY <1>3, <1>11, <2>2, <3>1, <3>2, <3>4
      <3>5. CASE ~(t = s /\ owners[t][p].symbol = y)
        <4>1. ~(t = s /\ owners[t][p].symbol \in left)
          BY <1>6, <2>2, <3>1, <3>2 DEF HeldBesides
        <4> QED
          BY <1>11, <3>1, <3>2, <3>3, <3>5, <4>1
      <3> QED
        BY <3>4, <3>5
    <2> QED
      BY <2>1, <2>2
  <1>18. ClosedIsForgotten'
    <2> SUFFICES ASSUME NEW t \in Sessions, socket[t] = "closed"
                 PROVE  /\ \A p \in Owners : owners'[t][p] = None
                        /\ \A z \in Symbols : attached'[t][z] = None /\ t \notin subscribers'[z]
      BY <1>3 DEF ClosedIsForgotten
    <2>1. t # s
      BY <1>3
    <2>2. /\ \A p \in Owners : owners[t][p] = None
          /\ \A z \in Symbols : attached[t][z] = None /\ t \notin subscribers[z]
      BY DEF SubscriptionsInv, ClosedIsForgotten
    <2>3. \A p \in Owners : owners'[t][p] = None
      BY <1>12, <2>1, <2>2
    <2>4. \A z \in Symbols : attached'[t][z] = None
      BY <1>11, <2>1, <2>2
    <2>5. \A z \in Symbols : t \notin subscribers'[z]
      BY <1>9, <2>1, <2>2
    <2> QED
      BY <2>3, <2>4, <2>5
  <1>19. ScheduledIsUnused'
    BY <1>3, <1>7, <1>8, <1>9, <1>10 DEF ScheduledIsUnused
  <1>20. UnusedIsScheduled'
    <2> SUFFICES ASSUME NEW z \in Symbols \ {Home, Opening},
                        context[z] # "absent", subscribers'[z] = {}
                 PROVE  timer'[z] \/ Awaited(z)'
      BY <1>3 DEF UnusedIsScheduled
    <2>1. z # y /\ S[z] = {}
      BY <1>7, <1>9
    <2>2. T[z] \/ Awaited(z)
      BY <1>8, <2>1
    <2>3. Awaited(z) => Awaited(z)'
      BY <1>1, <2>1
    <2> QED
      BY <1>10, <2>1, <2>2, <2>3
  <1>21. DisposedIsEmpty'
    BY <1>3, <1>4 DEF DisposedIsEmpty
  <1> QED
    BY <1>13, <1>14, <1>15, <1>16, <1>17, <1>18, <1>19, <1>20, <1>21 DEF SubscriptionsInv

-----------------------------------------------------------------------------
(* The contexts.                                                           *)

LEMMA ConnectedKeeps ==
  ASSUME SubscriptionsInv, NEW y \in Symbols, Connected(y)
  PROVE  SubscriptionsInv'
  <1>1. /\ context[y] = "connecting"
        /\ context' = [context EXCEPT ![y] = "ready"]
        /\ UNCHANGED <<session, subscribers, timer, calls, disposed, uncaught>>
    BY DEF Connected
  <1>2. ~disposed
    BY <1>1 DEF SubscriptionsInv, DisposedIsEmpty
  <1>3. /\ context' \in [Symbols -> {"absent", "connecting", "ready"}]
        /\ \A z \in Symbols : context'[z] = IF z = y THEN "ready" ELSE context[z]
    BY <1>1 DEF SubscriptionsInv, TypeOK
  <1>4. TypeOK'
    BY <1>1, <1>3 DEF SubscriptionsInv, TypeOK, session
  <1>5. Fresh'
    BY <1>1, <1>2, <1>3 DEF SubscriptionsInv, Fresh, session
  <1>6. (AttachedAgrees /\ OwnersAreServed /\ OneFramePerSymbol)'
    BY <1>1 DEF SubscriptionsInv, AttachedAgrees, OwnersAreServed, OneFramePerSymbol, Held, session
  <1>7. ClosedIsForgotten'
    BY <1>1 DEF SubscriptionsInv, ClosedIsForgotten, session
  <1>8. UnusedIsScheduled'
    BY <1>1, <1>3 DEF SubscriptionsInv, UnusedIsScheduled, Awaited
  <1>9. ScheduledIsUnused'
    BY <1>1, <1>3 DEF SubscriptionsInv, ScheduledIsUnused
  <1>10. DisposedIsEmpty'
    BY <1>1, <1>2 DEF DisposedIsEmpty
  <1> QED
    BY <1>4, <1>5, <1>6, <1>7, <1>8, <1>9, <1>10 DEF SubscriptionsInv

LEMMA CleanupKeeps ==
  ASSUME SubscriptionsInv, NEW y \in Symbols, CleanupFires(y)
  PROVE  SubscriptionsInv'
  <1>1. /\ timer[y]
        /\ timer' = [timer EXCEPT ![y] = FALSE]
        /\ UNCHANGED <<session, subscribers, calls, disposed, uncaught>>
    BY DEF CleanupFires
  <1>2. context[y] = "ready" /\ subscribers[y] = {} /\ ~disposed
    BY <1>1 DEF SubscriptionsInv, ScheduledIsUnused, DisposedIsEmpty
  <1>3. context' = [context EXCEPT ![y] = "absent"]
    BY <1>2 DEF CleanupFires
  <1>4. /\ context' \in [Symbols -> {"absent", "connecting", "ready"}]
        /\ \A z \in Symbols : context'[z] = IF z = y THEN "absent" ELSE context[z]
    BY <1>3 DEF SubscriptionsInv, TypeOK
  <1>5. /\ timer' \in [Symbols -> BOOLEAN]
        /\ \A z \in Symbols : timer'[z] = IF z = y THEN FALSE ELSE timer[z]
    BY <1>1 DEF SubscriptionsInv, TypeOK
  <1>6. TypeOK'
    BY <1>1, <1>4, <1>5 DEF SubscriptionsInv, TypeOK, session
  <1>7. Fresh'
    BY <1>1, <1>2, <1>4 DEF SubscriptionsInv, Fresh, session
  <1>8. (AttachedAgrees /\ OwnersAreServed /\ OneFramePerSymbol)'
    BY <1>1 DEF SubscriptionsInv, AttachedAgrees, OwnersAreServed, OneFramePerSymbol, Held, session
  <1>9. ClosedIsForgotten'
    BY <1>1 DEF SubscriptionsInv, ClosedIsForgotten, session
  <1>10. UnusedIsScheduled'
    BY <1>1, <1>4, <1>5 DEF SubscriptionsInv, UnusedIsScheduled, Awaited
  <1>11. ScheduledIsUnused'
    BY <1>1, <1>4, <1>5 DEF SubscriptionsInv, ScheduledIsUnused
  <1>12. DisposedIsEmpty'
    BY <1>1, <1>2 DEF DisposedIsEmpty
  <1> QED
    BY <1>6, <1>7, <1>8, <1>9, <1>10, <1>11, <1>12 DEF SubscriptionsInv

LEMMA ShutdownKeeps ==
  ASSUME SubscriptionsInv, Shutdown
  PROVE  SubscriptionsInv'
  <1>1. /\ disposed'
        /\ socket' = [s \in Sessions |-> IF socket[s] = "open" THEN "closing" ELSE socket[s]]
        /\ attached' = [s \in Sessions |-> [y \in Symbols |->
                          IF s \in subscribers[y] THEN None ELSE attached[s][y]]]
        /\ context' = [y \in Symbols |-> "absent"]
        /\ subscribers' = [y \in Symbols |-> {}]
        /\ timer' = [y \in Symbols |-> FALSE]
        /\ calls' = << >>
        /\ uncaught' = \E i \in DOMAIN calls : ~calls[i].caught
        /\ UNCHANGED <<owners, shown, generation, epoch>>
    BY DEF Shutdown, Remain
  <1>2. /\ attached' \in [Sessions -> [Symbols -> Frames \cup {None}]]
        /\ \A s \in Sessions, y \in Symbols : attached'[s][y] = None
    BY <1>1 DEF SubscriptionsInv, TypeOK, AttachedAgrees
  <1>3. /\ socket' \in [Sessions -> {"new", "open", "closing", "closed"}]
        /\ \A s \in Sessions : socket'[s] \in {"new", "closed"} => socket'[s] = socket[s]
    BY <1>1 DEF SubscriptionsInv, TypeOK
  <1>4. uncaught' \in BOOLEAN /\ disposed' \in BOOLEAN
    BY <1>1 DEF Shutdown
  <1>5. TypeOK'
    BY <1>1, <1>2, <1>3, <1>4, EmptySeq DEF SubscriptionsInv, TypeOK
  <1>6. Fresh'
    BY <1>1, <1>3 DEF SubscriptionsInv, Fresh
  <1>7. (AttachedAgrees /\ OwnersAreServed /\ OneFramePerSymbol)'
    BY <1>1, <1>2 DEF AttachedAgrees, OwnersAreServed, OneFramePerSymbol
  <1>8. ClosedIsForgotten'
    BY <1>1, <1>2, <1>3 DEF SubscriptionsInv, ClosedIsForgotten
  <1>9. (UnusedIsScheduled /\ ScheduledIsUnused /\ DisposedIsEmpty)'
    BY <1>1 DEF UnusedIsScheduled, ScheduledIsUnused, DisposedIsEmpty
  <1> QED
    BY <1>5, <1>6, <1>7, <1>8, <1>9 DEF SubscriptionsInv

-----------------------------------------------------------------------------
LEMMA InitHolds ==
  ASSUME Init
  PROVE  SubscriptionsInv
  <1>1. TypeOK
    BY DefaultIsASub, EmptySeq, SubscriptionsAssumption DEF Init, TypeOK
  <1>2. (Fresh /\ AttachedAgrees /\ OwnersAreServed /\ OneFramePerSymbol)
    BY DEF Init, Fresh, AttachedAgrees, OwnersAreServed, OneFramePerSymbol, Held
  <1>3. (ClosedIsForgotten /\ UnusedIsScheduled /\ ScheduledIsUnused /\ DisposedIsEmpty)
    BY DEF Init, ClosedIsForgotten, UnusedIsScheduled, ScheduledIsUnused, DisposedIsEmpty
  <1> QED
    BY <1>1, <1>2, <1>3 DEF SubscriptionsInv

LEMMA StepKeeps ==
  ASSUME SubscriptionsInv, [Next]_vars
  PROVE  SubscriptionsInv'
  <1>1. ASSUME NEW s \in Sessions, Server(s)
        PROVE  SubscriptionsInv'
    <2>1. CASE Drop(s)
      BY <2>1, ClosingKeeps DEF Drop
    <2> QED
      BY <1>1, <2>1, AcceptKeeps, ClosedKeeps, RevokeKeeps DEF Server
  <1>2. ASSUME NEW s \in Sessions, NEW o \in Owners, NEW sub \in Subs, Request(s, o, sub)
        PROVE  SubscriptionsInv'
    BY <1>2, RequestKeeps
  <1>3. ASSUME NEW s \in Sessions, NEW o \in Owners, NEW y, Withdraw(s, o, y)
        PROVE  SubscriptionsInv'
    BY <1>3, WithdrawKeeps
  <1>4. CASE Resume
    BY <1>4, AbandonKeeps, RefuseKeeps, JoinKeeps DEF Resume
  <1>5. ASSUME NEW y \in Symbols, Connected(y) \/ CleanupFires(y)
        PROVE  SubscriptionsInv'
    BY <1>5, ConnectedKeeps, CleanupKeeps
  <1>6. CASE Shutdown
    BY <1>6, ShutdownKeeps
  <1>7. CASE UNCHANGED vars
    <2> USE <1>7 DEF vars, session, manager
    <2>1. TypeOK'
      BY DEF SubscriptionsInv, TypeOK
    <2>2. (Fresh /\ AttachedAgrees /\ OwnersAreServed /\ OneFramePerSymbol)'
      BY DEF SubscriptionsInv, Fresh, AttachedAgrees, OwnersAreServed, OneFramePerSymbol, Held
    <2>3. (ClosedIsForgotten /\ ScheduledIsUnused /\ DisposedIsEmpty)'
      BY DEF SubscriptionsInv, ClosedIsForgotten, ScheduledIsUnused, DisposedIsEmpty
    <2>4. UnusedIsScheduled'
      BY DEF SubscriptionsInv, UnusedIsScheduled, Awaited
    <2> QED
      BY <2>1, <2>2, <2>3, <2>4 DEF SubscriptionsInv
  <1> QED
    BY <1>1, <1>2, <1>3, <1>4, <1>5, <1>6, <1>7 DEF Next

(* Owners, sessions and contexts keep agreeing through every order of requests, answers,        *)
(* closed sockets, cleanups and a shutdown, whatever time the feeds take to connect.            *)
THEOREM SubscriptionsInvariant == Spec => []SubscriptionsInv
  <1> QED
    BY InitHolds, StepKeeps, PTL DEF Spec

(* A context sends to a session exactly while some pane of it has the symbol: closing one pane  *)
(* never silences another, and nothing is sent for a pane that is gone.                         *)
THEOREM OwnersAreServedTheorem == Spec => []OwnersAreServed
  <1>1. SubscriptionsInv => OwnersAreServed
    BY DEF SubscriptionsInv
  <1> QED
    BY <1>1, SubscriptionsInvariant, PTL

(* The panes of one connection that show a symbol get the bars of one time frame.               *)
THEOREM OneFrameTheorem == Spec => []OneFramePerSymbol
  <1>1. SubscriptionsInv => OneFramePerSymbol
    BY DEF SubscriptionsInv
  <1> QED
    BY <1>1, SubscriptionsInvariant, PTL

(* What a closed connection asked for never comes back, although the answer may be late.        *)
THEOREM ClosedIsForgottenTheorem == Spec => []ClosedIsForgotten
  <1>1. SubscriptionsInv => ClosedIsForgotten
    BY DEF SubscriptionsInv
  <1> QED
    BY <1>1, SubscriptionsInvariant, PTL

(* No context is left without subscribers, without a cleanup and without a caller.              *)
THEOREM UnusedIsScheduledTheorem == Spec => []UnusedIsScheduled
  <1>1. SubscriptionsInv => UnusedIsScheduled
    BY DEF SubscriptionsInv
  <1> QED
    BY <1>1, SubscriptionsInvariant, PTL

(* A disposed manager has no context, not even one that was connecting when it was disposed.    *)
THEOREM DisposedIsEmptyTheorem == Spec => []DisposedIsEmpty
  <1>1. SubscriptionsInv => DisposedIsEmpty
    BY DEF SubscriptionsInv
  <1> QED
    BY <1>1, SubscriptionsInvariant, PTL
-----------------------------------------------------------------------------
(* A browser and its requests.                                             *)

Wishes == [Owners -> Subs \cup {None}]

(* What is wished for when a request has been dealt with. *)
After(w, m) == [w EXCEPT ![m.owner] = IF m.type = "SUBSCRIBE" THEN m.sub ELSE None]

(* A subscription agrees with the other wishes; only a pane may disagree with the chart a       *)
(* connection begins with.                                                                      *)
Agrees(w, o, sub) ==
  \A p \in Owners \ {o} :
    w[p] # None /\ w[p].symbol = sub.symbol => w[p] = sub \/ (p = Primary /\ w[p] = Default)

(* A request that fits the wishes before it: a pane that moves has left its symbol first. *)
Fits(w, m) ==
  \/ /\ m.type = "SUBSCRIBE" /\ Agrees(w, m.owner, m.sub)
     /\ m.owner # Primary => w[m.owner] = None
  \/ m.type = "UNSUBSCRIBE" /\ w[m.owner] # None /\ w[m.owner].symbol = m.symbol

(* The requests of q lead from the wishes v to w, each of them fitting those before it. *)
Leads(v, q, w) ==
  \E h \in [0 .. Len(q) -> Wishes] :
    /\ h[0] = v /\ h[Len(q)] = w
    /\ \A i \in 1 .. Len(q) : Fits(h[i - 1], q[i]) /\ h[i] = After(h[i - 1], q[i])

(* What the browser has asked for on its connection, if all of it arrived. *)
Asked == [o \in Owners |-> IF o = Primary /\ ~active THEN Default ELSE wanted[o]]

(* A pane that disagrees with the chart a connection begins with may have been refused. *)
Shown(o, wish) ==
  \/ owners[conn][o] = wish
  \/ /\ o # Primary /\ wish # None /\ wish.symbol = Opening /\ wish.frame # Minute
     /\ owners[conn][o] = None

(* The server has dealt with the wishes w, or is about to, for one owner. *)
Served(w) ==
  \/ calls = << >> /\ \A o \in Owners : Shown(o, w[o])
  \/ /\ calls # << >>
     /\ LET c == calls[1] IN
          /\ c.session = conn /\ c.epoch = epoch[conn]
          /\ c.generation = generation[conn][c.owner]
          /\ c.sub = w[c.owner] /\ Agrees(w, c.owner, c.sub)
          /\ c.owner # Primary => owners[conn][c.owner] = None
          /\ \A o \in Owners \ {c.owner} : Shown(o, w[o])

(* Feeds that connect at once leave one call to wait, and one of the open connection. *)
OneWaits ==
  /\ Len(calls) <= 1
  /\ \A i \in DOMAIN calls : context[calls[i].sub.symbol] # "absent"
  /\ conn = None => calls = << >>

(* The wishes the server has dealt with and the requests on their way lead to what the browser  *)
(* has asked for.                                                                               *)
NothingForgotten ==
  conn # None /\ socket[conn] = "open" => \E w \in Wishes : Served(w) /\ Leads(w, wire, Asked)

BrowserIInv ==
  /\ SubscriptionsInv /\ BrowserTypeOK
  /\ ConflictFree(wanted) /\ OneWaits /\ NothingForgotten

-----------------------------------------------------------------------------
(* Chains of requests.                                                     *)

LEMMA AfterIsWished ==
  ASSUME NEW w \in Wishes, NEW m \in Messages
  PROVE  After(w, m) \in Wishes
  <1>1. m.type = "SUBSCRIBE" => m.sub \in Subs
    BY DEF Messages
  <1> QED
    BY <1>1 DEF After, Wishes

LEMMA LeadsNowhere ==
  ASSUME NEW w \in Wishes
  PROVE  Leads(w, << >>, w)
  <1> DEFINE h == [i \in 0 .. 0 |-> w]
  <1>1. Len(<< >>) = 0
    OBVIOUS
  <1>2. h \in [0 .. Len(<< >>) -> Wishes] /\ h[0] = w
    BY <1>1
  <1> HIDE DEF h
  <1> QED
    BY <1>1, <1>2 DEF Leads

LEMMA LeadsOne ==
  ASSUME NEW w \in Wishes, NEW m \in Messages, Fits(w, m)
  PROVE  Leads(w, <<m>>, After(w, m))
  <1> DEFINE h == [i \in 0 .. 1 |-> IF i = 0 THEN w ELSE After(w, m)]
  <1>1. Len(<<m>>) = 1 /\ <<m>>[1] = m
    OBVIOUS
  <1>2. After(w, m) \in Wishes
    BY AfterIsWished
  <1>3. h \in [0 .. 1 -> Wishes] /\ h[0] = w /\ h[1] = After(w, m)
    BY <1>2
  <1> HIDE DEF h
  <1>4. \A i \in 1 .. 1 : Fits(h[i - 1], <<m>>[i]) /\ h[i] = After(h[i - 1], <<m>>[i])
    <2> SUFFICES ASSUME NEW i \in 1 .. 1
                 PROVE  Fits(h[i - 1], <<m>>[i]) /\ h[i] = After(h[i - 1], <<m>>[i])
      OBVIOUS
    <2>1. i = 1 /\ i - 1 = 0
      OBVIOUS
    <2> QED
      BY <1>1, <1>3, <2>1
  <1> QED
    BY <1>1, <1>3, <1>4 DEF Leads

LEMMA LeadsOn ==
  ASSUME NEW u, NEW v, NEW w, NEW q \in Seq(Messages), NEW r \in Seq(Messages),
         Leads(u, q, v), Leads(v, r, w)
  PROVE  Leads(u, q \o r, w)
  <1> DEFINE n == Len(q)
             k == Len(r)
  <1>1. n \in Nat /\ k \in Nat
    BY LenProperties
  <1>2. PICK f \in [0 .. n -> Wishes] :
          /\ f[0] = u /\ f[n] = v
          /\ \A i \in 1 .. n : Fits(f[i - 1], q[i]) /\ f[i] = After(f[i - 1], q[i])
    BY DEF Leads
  <1>3. PICK g \in [0 .. k -> Wishes] :
          /\ g[0] = v /\ g[k] = w
          /\ \A i \in 1 .. k : Fits(g[i - 1], r[i]) /\ g[i] = After(g[i - 1], r[i])
    BY DEF Leads
  <1>4. /\ Len(q \o r) = n + k
        /\ \A i \in 1 .. n + k : (q \o r)[i] = IF i <= n THEN q[i] ELSE r[i - n]
    BY ConcatProperties
  <1> DEFINE h == [i \in 0 .. n + k |-> IF i <= n THEN f[i] ELSE g[i - n]]
  <1> HIDE DEF n, k
  <1>5. h \in [0 .. n + k -> Wishes]
    <2> SUFFICES ASSUME NEW i \in 0 .. n + k
                 PROVE  (IF i <= n THEN f[i] ELSE g[i - n]) \in Wishes
      OBVIOUS
    <2>1. CASE i <= n
      BY <1>1, <2>1
    <2>2. CASE ~(i <= n)
      <3>1. i - n \in 0 .. k
        BY <1>1, <2>2
      <3> QED
        BY <2>2, <3>1
    <2> QED
      BY <2>1, <2>2
  <1>6. \A i \in 0 .. n + k : /\ i <= n => h[i] = f[i]
                              /\ i >= n => h[i] = g[i - n]
    <2> SUFFICES ASSUME NEW i \in 0 .. n + k
                 PROVE  (i <= n => h[i] = f[i]) /\ (i >= n => h[i] = g[i - n])
      OBVIOUS
    <2>1. CASE i # n
      BY <1>1, <2>1
    <2>2. CASE i = n
      <3>1. i - n = 0 /\ h[i] = f[i]
        BY <1>1, <2>2
      <3> QED
        BY <1>2, <1>3, <2>2, <3>1
    <2> QED
      BY <2>1, <2>2
  <1> HIDE DEF h
  <1>7. h[0] = u /\ h[n + k] = w
    <2>1. 0 \in 0 .. n + k /\ n + k \in 0 .. n + k /\ 0 <= n /\ n + k >= n /\ n + k - n = k
      BY <1>1
    <2>2. h[0] = f[0]
      BY <1>6, <2>1, Zenon
    <2>3. h[n + k] = g[k]
      <3>1. h[n + k] = g[(n + k) - n]
        BY <1>6, <2>1, Zenon
      <3>2. (n + k) - n = k
        BY <1>1
      <3> QED
        BY <3>1, <3>2
    <2> QED
      BY <1>2, <1>3, <2>2, <2>3, Zenon
  <1>8. ASSUME NEW i \in 1 .. n + k
        PROVE  Fits(h[i - 1], (q \o r)[i]) /\ h[i] = After(h[i - 1], (q \o r)[i])
    <2>1. CASE i <= n
      <3>1. i \in 0 .. n + k /\ i - 1 \in 0 .. n + k /\ i - 1 <= n /\ i \in 1 .. n
        BY <1>1, <2>1
      <3>2. h[i] = f[i] /\ h[i - 1] = f[i - 1] /\ (q \o r)[i] = q[i]
        BY <1>4, <1>6, <2>1, <3>1
      <3> QED
        BY <1>2, <3>1, <3>2
    <2>2. CASE i > n
      <3>1. /\ i \in 0 .. n + k /\ i - 1 \in 0 .. n + k /\ i - 1 >= n /\ i >= n
            /\ i - n \in 1 .. k /\ (i - 1) - n = (i - n) - 1 /\ ~(i <= n)
        BY <1>1, <2>2
      <3>2. h[i] = g[i - n] /\ h[i - 1] = g[(i - n) - 1] /\ (q \o r)[i] = r[i - n]
        BY <1>4, <1>6, <3>1
      <3> QED
        BY <1>3, <3>1, <3>2
    <2>3. i <= n \/ i > n
      BY <1>1
    <2> QED
      BY <2>1, <2>2, <2>3
  <1> QED
    BY <1>4, <1>5, <1>7, <1>8 DEF Leads

(* The first request of a chain, and the chain without it. *)
LEMMA LeadsAfter ==
  ASSUME NEW v, NEW w, NEW q \in Seq(Messages), q # << >>, Leads(v, q, w)
  PROVE  /\ v \in Wishes /\ Fits(v, Head(q))
         /\ Leads(After(v, Head(q)), Tail(q), w)
  <1> DEFINE n == Len(q)
  <1>1. n \in Nat /\ n > 0
    BY LenProperties, EmptySeq
  <1>2. PICK f \in [0 .. n -> Wishes] :
          /\ f[0] = v /\ f[n] = w
          /\ \A i \in 1 .. n : Fits(f[i - 1], q[i]) /\ f[i] = After(f[i - 1], q[i])
    BY DEF Leads
  <1>3. /\ Head(q) = q[1] /\ Len(Tail(q)) = n - 1
        /\ \A i \in 1 .. n - 1 : Tail(q)[i] = q[i + 1]
    BY HeadTailProperties
  <1> DEFINE h == [i \in 0 .. n - 1 |-> f[i + 1]]
  <1> HIDE DEF n
  <1>4. h \in [0 .. n - 1 -> Wishes] /\ \A i \in 0 .. n - 1 : h[i] = f[i + 1]
    BY <1>1
  <1> HIDE DEF h
  <1>5. v \in Wishes /\ Fits(v, q[1]) /\ h[0] = After(v, q[1]) /\ h[n - 1] = w
    <2>1. 1 \in 1 .. n /\ 0 \in 0 .. n /\ 0 \in 0 .. n - 1 /\ n - 1 \in 0 .. n - 1
          /\ 1 - 1 = 0 /\ 0 + 1 = 1 /\ (n - 1) + 1 = n
      BY <1>1
    <2>2. Fits(v, q[1]) /\ f[1] = After(v, q[1]) /\ v \in Wishes
      BY <1>2, <2>1
    <2>3. h[0] = f[1] /\ h[n - 1] = f[n]
      BY <1>4, <2>1
    <2> QED
      BY <1>2, <2>2, <2>3, Zenon
  <1>6. ASSUME NEW i \in 1 .. n - 1
        PROVE  Fits(h[i - 1], Tail(q)[i]) /\ h[i] = After(h[i - 1], Tail(q)[i])
    <2>1. /\ i + 1 \in 1 .. n /\ i \in 0 .. n - 1 /\ i - 1 \in 0 .. n - 1
          /\ (i - 1) + 1 = (i + 1) - 1
      BY <1>1
    <2> QED
      BY <1>2, <1>3, <1>4, <2>1
  <1> QED
    BY <1>3, <1>4, <1>5, <1>6 DEF Leads
(* The requests of a new connection lead to all its panes show, and to its main chart if that   *)
(* was ever asked for.                                                                          *)
LEMMA ResentLeads ==
  ASSUME BrowserTypeOK, ConflictFree(wanted),
         NEW q \in SetToSeqs({o \in Panes : wanted[o] # None})
  PROVE  LET v == [o \in Owners |-> IF o = Primary THEN Default ELSE None]
         IN  v \in Wishes /\ Resent(q) \in Seq(Messages) /\ Leads(v, Resent(q), Asked)
  <1> DEFINE S == {o \in Panes : wanted[o] # None}
             n == Cardinality(S)
             v == [o \in Owners |-> IF o = Primary THEN Default ELSE None]
             r == [i \in DOMAIN q |-> Ask(q[i], wanted[q[i]])]
             u == [o \in Owners |-> IF o = Primary THEN Default ELSE wanted[o]]
             last == IF active THEN <<Ask(Primary, wanted[Primary])>> ELSE << >>
  <1>1. /\ wanted \in [Owners -> Subs \cup {None}] /\ wanted[Primary] # None
        /\ Default \in Subs /\ Primary \in Owners /\ None \notin Subs
    BY SubscriptionsAssumption, DefaultIsASub DEF BrowserTypeOK, Default
  <1>2. /\ IsFiniteSet(S) /\ n \in Nat
    <2>1. S \in SUBSET Owners
      BY DEF Panes
    <2> QED
      BY <2>1, ChoicesAssumption, FS_Subset, FS_CardinalityType
  <1>3. /\ q \in [1 .. n -> S]
        /\ \A i, j \in 1 .. n : i # j => q[i] # q[j]
    BY DEF SetToSeqs
  <1>4. \A o \in S : \E i \in 1 .. n : q[i] = o
    <2>1. q \in Injection(1 .. n, S)
      BY <1>3 DEF Injection, IsInjective
    <2>2. Cardinality(1 .. n) = n
      BY <1>2, FS_Interval
    <2>3. q \in Surjection(1 .. n, S)
      BY <1>2, <2>1, <2>2, FS_Injection
    <2> QED
      BY <2>3 DEF Surjection
  <1> HIDE DEF n
  <1>5. /\ r \in Seq(Messages) /\ Len(r) = n
        /\ \A i \in 1 .. n : r[i] = Ask(q[i], wanted[q[i]])
    <2>1. r = [i \in 1 .. n |-> Ask(q[i], wanted[q[i]])]
      BY <1>3
    <2>2. \A i \in 1 .. n : Ask(q[i], wanted[q[i]]) \in Messages
      BY <1>1, <1>3 DEF Ask, Messages, Panes
    <2> HIDE DEF r
    <2> QED
      BY <1>2, <2>1, <2>2
  <1>6. v \in Wishes /\ u \in Wishes
    BY <1>1 DEF Wishes
  <1>7. Leads(v, r, u)
    <2> DEFINE to(i) == [o \in Owners |-> IF o = Primary THEN Default
                                           ELSE IF \E j \in 1 .. i : q[j] = o THEN wanted[o]
                                           ELSE None]
               h == [i \in 0 .. n |-> to(i)]
    <2>1. h \in [0 .. n -> Wishes]
      BY <1>1 DEF Wishes
    <2>2. to(0) = v
      BY <1>1
    <2>3. to(n) = u
      <3>1. ASSUME NEW o \in Owners
            PROVE  to(n)[o] = u[o]
        <4>1. CASE o = Primary
          BY <4>1
        <4>2. CASE o # Primary /\ wanted[o] = None
          BY <4>2
        <4>3. CASE o # Primary /\ wanted[o] # None
          <5>1. o \in S
            BY <4>3 DEF Panes
          <5>2. \E j \in 1 .. n : q[j] = o
            BY <1>4, <5>1
          <5> QED
            BY <4>3, <5>2
        <4> QED
          BY <4>1, <4>2, <4>3
      <3> QED
        BY <3>1
    <2>4. ASSUME NEW i \in 1 .. n
          PROVE  Fits(to(i - 1), r[i]) /\ to(i) = After(to(i - 1), r[i])
      <3> DEFINE o == q[i]
      <3>1. /\ o \in Owners /\ o # Primary /\ wanted[o] # None /\ wanted[o] \in Subs
            /\ i \in Nat /\ i - 1 \in Nat
        BY <1>1, <1>2, <1>3 DEF Panes
      <3>2. r[i] = [type |-> "SUBSCRIBE", owner |-> o, sub |-> wanted[o]]
        BY <1>5 DEF Ask
      <3>3. ~ \E j \in 1 .. (i - 1) : q[j] = o
        <4> SUFFICES ASSUME NEW j \in 1 .. (i - 1), q[j] = o PROVE FALSE
          OBVIOUS
        <4>1. j \in 1 .. n /\ j # i
          BY <1>2
        <4> QED
          BY <1>3, <4>1
      <3>4. to(i - 1)[o] = None
        BY <3>1, <3>3
      <3>5. Agrees(to(i - 1), o, wanted[o])
        <4> SUFFICES ASSUME NEW p \in Owners \ {o}, to(i - 1)[p] # None,
                            to(i - 1)[p].symbol = wanted[o].symbol
                     PROVE  to(i - 1)[p] = wanted[o] \/ (p = Primary /\ to(i - 1)[p] = Default)
          BY DEF Agrees
        <4>1. CASE p = Primary
          BY <4>1
        <4>2. CASE p # Primary
          <5>1. to(i - 1)[p] = wanted[p]
            BY <4>2
          <5> QED
            BY <3>1, <5>1 DEF ConflictFree
        <4> QED
          BY <4>1, <4>2
      <3>6. Fits(to(i - 1), r[i])
        BY <3>2, <3>4, <3>5 DEF Fits
      <3>7. After(to(i - 1), r[i]) = [to(i - 1) EXCEPT ![o] = wanted[o]]
        <4>1. r[i].type = "SUBSCRIBE" /\ r[i].owner = o /\ r[i].sub = wanted[o]
          BY <3>2
        <4> QED
          BY <4>1, Zenon DEF After
      <3>8. ASSUME NEW p \in Owners
            PROVE  to(i)[p] = (IF p = o THEN wanted[o] ELSE to(i - 1)[p])
        <4>1. (\E j \in 1 .. i : q[j] = p) <=> p = o \/ \E j \in 1 .. (i - 1) : q[j] = p
          <5>1. 1 .. i = 1 .. (i - 1) \cup {i}
            BY <3>1
          <5> QED
            BY <5>1
        <4> QED
          BY <3>1, <4>1
      <3>9. to(i) = [to(i - 1) EXCEPT ![o] = wanted[o]]
        BY <3>8
      <3> QED
        BY <3>6, <3>7, <3>9
    <2> HIDE DEF to
    <2>5. h[0] = v /\ h[n] = u
      BY <1>2, <2>2, <2>3
    <2>6. \A i \in 1 .. n : Fits(h[i - 1], r[i]) /\ h[i] = After(h[i - 1], r[i])
      <3> SUFFICES ASSUME NEW i \in 1 .. n
                   PROVE  Fits(h[i - 1], r[i]) /\ h[i] = After(h[i - 1], r[i])
        OBVIOUS
      <3>1. h[i] = to(i) /\ h[i - 1] = to(i - 1)
        BY <1>2
      <3> QED
        BY <2>4, <3>1
    <2> HIDE DEF h, r, u, v
    <2> QED
      BY <1>5, <2>1, <2>5, <2>6 DEF Leads
  <1>8. last \in Seq(Messages) /\ Leads(u, last, Asked)
    <2>1. CASE ~active
      <3>1. Asked = u
        BY <2>1 DEF Asked
      <3> QED
        BY <1>6, <2>1, <3>1, LeadsNowhere, EmptySeq
    <2>2. CASE active
      <3> DEFINE m == Ask(Primary, wanted[Primary])
      <3>1. m \in Messages /\ last = <<m>> /\ <<m>> \in Seq(Messages)
        BY <1>1, <2>2 DEF Ask, Messages
      <3>2. m.type = "SUBSCRIBE" /\ m.owner = Primary /\ m.sub = wanted[Primary]
        BY DEF Ask
      <3>3. Agrees(u, Primary, wanted[Primary])
        BY <1>1 DEF Agrees, ConflictFree
      <3>4. Fits(u, m)
        BY <3>2, <3>3 DEF Fits
      <3>5. After(u, m) = Asked
        BY <1>1, <2>2, <3>2 DEF After, Asked
      <3> HIDE DEF m, u, last
      <3>6. Leads(u, <<m>>, After(u, m))
        BY <1>6, <3>1, <3>4, LeadsOne
      <3> QED
        BY <3>1, <3>5, <3>6
    <2> QED
      BY <2>1, <2>2
  <1>9. Resent(q) = r \o last
    BY DEF Resent
  <1> HIDE DEF r, last, u
  <1>10. r \o last \in Seq(Messages)
    BY <1>5, <1>8, ConcatProperties
  <1>11. Leads(v, r \o last, Asked)
    BY <1>5, <1>7, <1>8, LeadsOn
  <1> QED
    BY <1>6, <1>9, <1>10, <1>11
-----------------------------------------------------------------------------
(* Every step keeps the invariant.                                         *)

(* Between the turns of the event loop nothing waits. *)
LEMMA IdleIsEmpty ==
  ASSUME BrowserIInv, PromptFeeds, Idle
  PROVE  calls = << >>
  <1>1. calls \in Seq(Calls) /\ context \in [Symbols -> {"absent", "connecting", "ready"}]
    BY DEF BrowserIInv, SubscriptionsInv, TypeOK
  <1>2. SUFFICES ASSUME calls # << >> PROVE FALSE
    OBVIOUS
  <1>3. 1 \in DOMAIN calls /\ calls[1] \in Calls
    <2>1. Len(calls) \in Nat \ {0} /\ DOMAIN calls = 1 .. Len(calls)
      BY <1>1, <1>2, EmptySeq, LenProperties
    <2> QED
      BY <1>1, <2>1, ElementOfSeq
  <1>4. calls[1].sub.symbol \in Symbols
    BY <1>3 DEF Calls, Subs
  <1>5. context[calls[1].sub.symbol] \in {"connecting"}
    BY <1>1, <1>3, <1>4 DEF Idle, Resumable, BrowserIInv, OneWaits
  <1> QED
    BY <1>4, <1>5 DEF Idle

(* subscribe, when nothing waits: now one call does. *)
LEMMA OneCall ==
  ASSUME SubscriptionsInv, calls = << >>, NEW s \in Sessions, NEW o \in Owners,
         NEW sub \in Subs, NEW caught \in BOOLEAN, Subscribe(s, o, sub, caught)
  PROVE  /\ Len(calls') = 1 /\ DOMAIN calls' = {1} /\ calls' # << >>
         /\ calls'[1].session = s /\ calls'[1].owner = o /\ calls'[1].sub = sub
         /\ calls'[1].generation = generation'[s][o] /\ calls'[1].epoch = epoch[s]
         /\ context'[sub.symbol] # "absent"
  <1> DEFINE c == [session |-> s, owner |-> o, sub |-> sub,
                   generation |-> generation[s][o] + 1, epoch |-> epoch[s], caught |-> caught]
  <1>1. /\ generation \in [Sessions -> [Owners -> Nat]]
        /\ context \in [Symbols -> {"absent", "connecting", "ready"}]
        /\ sub.symbol \in Symbols
    BY DEF SubscriptionsInv, TypeOK, Subs
  <1>2. calls' = <<c>>
    BY DEF Subscribe
  <1>3. generation'[s][o] = generation[s][o] + 1
    BY <1>1 DEF Subscribe, Bump
  <1>4. context'[sub.symbol] # "absent"
    BY <1>1 DEF Subscribe
  <1>5. /\ c.session = s /\ c.owner = o /\ c.sub = sub
        /\ c.generation = generation[s][o] + 1 /\ c.epoch = epoch[s]
    OBVIOUS
  <1> HIDE DEF c
  <1>6. Len(<<c>>) = 1 /\ DOMAIN <<c>> = {1} /\ <<c>>[1] = c /\ <<c>> # << >>
    OBVIOUS
  <1> QED
    BY <1>2, <1>3, <1>4, <1>5, <1>6

(* A new connection begins with the call for the main chart that the server makes itself. *)
LEMMA OpenKeeps ==
  ASSUME BrowserIInv, PromptFeeds, NEW s \in Sessions, Open(s)
  PROVE  BrowserIInv'
  <1>1. /\ conn = None /\ Accept(s) /\ conn' = s
        /\ wanted' = wanted /\ active' = active /\ choices' = choices
    BY DEF Open
  <1>2. SubscriptionsInv /\ BrowserTypeOK /\ ConflictFree(wanted)
    BY DEF BrowserIInv
  <1>3. calls = << >>
    BY <1>1 DEF BrowserIInv, OneWaits
  <1>4. PICK q \in SetToSeqs({o \in Panes : wanted[o] # None}) : wire' = Resent(q)
    BY DEF Open
  <1> DEFINE v == [o \in Owners |-> IF o = Primary THEN Default ELSE None]
  <1>5. v \in Wishes /\ wire' \in Seq(Messages) /\ Leads(v, wire', Asked)
    BY <1>2, <1>4, ResentLeads
  <1>6. Asked' = Asked
    BY <1>1 DEF Asked
  <1>7. SubscriptionsInv'
    BY <1>1, <1>2, AcceptKeeps
  <1>8. /\ Subscribe(s, Primary, Default, FALSE)
        /\ socket[s] = "new" /\ owners' = owners /\ epoch' = epoch
    BY <1>1 DEF Accept, Default
  <1>9. Default \in Subs /\ Primary \in Owners /\ None \notin Subs /\ s # None
    BY DefaultIsASub, SubscriptionsAssumption, ChoicesAssumption DEF Default
  <1>10. /\ Len(calls') = 1 /\ DOMAIN calls' = {1} /\ calls' # << >>
         /\ calls'[1].session = s /\ calls'[1].owner = Primary /\ calls'[1].sub = Default
         /\ calls'[1].generation = generation'[s][Primary] /\ calls'[1].epoch = epoch[s]
         /\ context'[Default.symbol] # "absent"
    BY <1>2, <1>3, <1>8, <1>9, OneCall
  <1>11. OneWaits'
    BY <1>1, <1>9, <1>10 DEF OneWaits
  <1>12. BrowserTypeOK'
    BY <1>1, <1>2, <1>5, <1>9 DEF BrowserTypeOK
  <1>13. \A o \in Owners : owners'[s][o] = None
    BY <1>2, <1>8 DEF SubscriptionsInv, Fresh
  <1>14. Served(v)'
    <2>1. Agrees(v, Primary, Default)
      BY DEF Agrees
    <2>2. v[Primary] = Default /\ \A o \in Owners \ {Primary} : v[o] = None
      BY <1>9
    <2> HIDE DEF v
    <2>3. Served(v)' <=> \/ calls' = << >> /\ \A o \in Owners : Shown(o, v[o])'
                         \/ /\ calls' # << >>
                            /\ calls'[1].session = conn' /\ calls'[1].epoch = epoch'[conn']
                            /\ calls'[1].generation = generation'[conn'][calls'[1].owner]
                            /\ calls'[1].sub = v[calls'[1].owner]
                            /\ Agrees(v, calls'[1].owner, calls'[1].sub)
                            /\ calls'[1].owner # Primary => owners'[conn'][calls'[1].owner] = None
                            /\ \A o \in Owners \ {calls'[1].owner} : Shown(o, v[o])'
      BY DEF Served, Agrees, Shown
    <2>4. \A o \in Owners \ {Primary} : Shown(o, v[o])'
      BY <1>1, <1>13, <2>2 DEF Shown
    <2> QED
      BY <1>1, <1>8, <1>10, <2>1, <2>2, <2>3, <2>4
  <1>15. Leads(v, wire, Asked)'
    BY <1>5, <1>6 DEF Leads, Fits, After, Agrees
  <1>16. NothingForgotten'
    BY <1>5, <1>14, <1>15 DEF NothingForgotten, Wishes
  <1> QED
    BY <1>1, <1>2, <1>7, <1>11, <1>12, <1>16 DEF BrowserIInv, ConflictFree
(* What the user does is sent, if there is a connection, and dropped if there is none. *)
LEMMA SendKeeps ==
  ASSUME BrowserIInv, UNCHANGED <<vars, conn>>, NEW msgs \in Seq(Messages), Send(msgs),
         wanted' \in [Owners -> Subs \cup {None}], wanted'[Primary] # None,
         active' \in BOOLEAN, choices' \in Nat, ConflictFree(wanted'),
         Leads(Asked, msgs, Asked')
  PROVE  BrowserIInv'
  <1>1. /\ socket' = socket /\ owners' = owners /\ attached' = attached /\ shown' = shown
        /\ generation' = generation /\ epoch' = epoch /\ context' = context
        /\ subscribers' = subscribers /\ timer' = timer /\ calls' = calls
        /\ disposed' = disposed /\ uncaught' = uncaught /\ conn' = conn
    BY DEF vars, session, manager
  <1>2. SubscriptionsInv'
    BY StepKeeps DEF BrowserIInv
  <1>3. wire \in Seq(Messages) /\ conn \in Sessions \cup {None} /\ (conn = None => wire = << >>)
    BY DEF BrowserIInv, BrowserTypeOK
  <1>4. wire' \in Seq(Messages) /\ (conn = None => wire' = wire)
    BY <1>3, ConcatProperties DEF Send
  <1>5. BrowserTypeOK'
    BY <1>1, <1>3, <1>4 DEF BrowserTypeOK
  <1>6. OneWaits'
    BY <1>1 DEF BrowserIInv, OneWaits
  <1>7. NothingForgotten'
    <2> SUFFICES ASSUME conn # None, socket[conn] = "open"
                 PROVE  \E w \in Wishes : Served(w)' /\ Leads(w, wire', Asked')
      BY <1>1 DEF NothingForgotten, Leads, Fits, After, Agrees, Wishes
    <2>1. PICK w \in Wishes : Served(w) /\ Leads(w, wire, Asked)
      BY DEF BrowserIInv, NothingForgotten
    <2>2. Served(w)'
      BY <1>1, <2>1 DEF Served, Shown, Agrees
    <2>3. wire' = wire \o msgs
      BY DEF Send
    <2>4. Leads(w, wire', Asked')
      BY <1>3, <2>1, <2>3, LeadsOn
    <2> QED
      BY <2>2, <2>4
  <1> QED
    BY <1>2, <1>5, <1>6, <1>7 DEF BrowserIInv, ConflictFree

LEMMA ChartIsAsked ==
  ASSUME BrowserIInv, NEW sub \in Subs,
         wanted' = [wanted EXCEPT ![Primary] = sub], ConflictFree(wanted'), active' = TRUE
  PROVE  /\ <<Ask(Primary, sub)>> \in Seq(Messages)
         /\ Leads(Asked, <<Ask(Primary, sub)>>, Asked')
         /\ wanted' \in [Owners -> Subs \cup {None}] /\ wanted'[Primary] # None
  <1>1. /\ wanted \in [Owners -> Subs \cup {None}]
        /\ Default \in Subs /\ Primary \in Owners /\ None \notin Subs
    BY SubscriptionsAssumption, DefaultIsASub DEF BrowserIInv, BrowserTypeOK, Default
  <1>2. wanted' \in [Owners -> Subs \cup {None}] /\ wanted'[Primary] = sub
    BY <1>1
  <1> DEFINE m == Ask(Primary, sub)
  <1>3. m \in Messages /\ m.type = "SUBSCRIBE" /\ m.owner = Primary /\ m.sub = sub
    BY <1>1 DEF Ask, Messages
  <1>4. Asked \in Wishes /\ \A p \in Owners \ {Primary} : Asked[p] = wanted'[p]
    BY <1>1 DEF Asked, Wishes
  <1>5. Agrees(Asked, Primary, sub)
    BY <1>1, <1>2, <1>4 DEF Agrees, ConflictFree
  <1>6. Fits(Asked, m)
    BY <1>3, <1>5 DEF Fits
  <1>7. After(Asked, m) = Asked'
    <2>1. Asked' = [o \in Owners |-> wanted'[o]]
      BY DEF Asked
    <2>2. After(Asked, m) = [Asked EXCEPT ![Primary] = sub]
      BY <1>3, Zenon DEF After
    <2> QED
      BY <1>1, <1>2, <1>4, <2>1, <2>2 DEF Wishes
  <1> HIDE DEF m
  <1>8. Leads(Asked, <<m>>, After(Asked, m)) /\ <<m>> \in Seq(Messages)
    BY <1>3, <1>4, <1>6, LeadsOne
  <1> QED
    BY <1>1, <1>2, <1>7, <1>8 DEF m

LEMMA ChartKeeps ==
  ASSUME BrowserIInv, Adopt \/ \E sub \in Subs : ChooseChart(sub)
  PROVE  BrowserIInv'
  <1>1. CASE Adopt
    <2> DEFINE sub == wanted[Primary]
    <2>1. /\ active' = TRUE /\ Send(<<Ask(Primary, sub)>>)
          /\ UNCHANGED <<vars, conn>> /\ wanted' = wanted /\ choices' = choices
      BY <1>1 DEF Adopt
    <2>2. /\ wanted \in [Owners -> Subs \cup {None}] /\ sub \in Subs /\ choices \in Nat
          /\ ConflictFree(wanted)
      BY SubscriptionsAssumption DEF BrowserIInv, BrowserTypeOK
    <2>3. wanted' = [wanted EXCEPT ![Primary] = sub]
      BY <2>1, <2>2
    <2>4. ConflictFree(wanted')
      BY <2>1, <2>2
    <2> HIDE DEF sub
    <2> QED
      BY <2>1, <2>2, <2>3, <2>4, ChartIsAsked, SendKeeps
  <1>2. ASSUME NEW sub \in Subs, ChooseChart(sub)
        PROVE  BrowserIInv'
    <2>1. /\ active' = TRUE /\ Send(<<Ask(Primary, sub)>>)
          /\ UNCHANGED <<vars, conn>> /\ choices' = choices + 1
          /\ wanted' = [wanted EXCEPT ![Primary] = sub] /\ ConflictFree(wanted')
      BY <1>2 DEF ChooseChart, Chooses
    <2>2. choices' \in Nat
      BY <2>1 DEF BrowserIInv, BrowserTypeOK
    <2> QED
      BY <2>1, <2>2, ChartIsAsked, SendKeeps
  <1> QED
    BY <1>1, <1>2

(* A pane leaves what it showed, and asks for what it shows now. *)
LEMMA PaneKeeps ==
  ASSUME BrowserIInv, NEW o \in Panes, NEW sub \in Subs \cup {None}, ChoosePane(o, sub)
  PROVE  BrowserIInv'
  <1> DEFINE a == IF wanted[o] = None THEN << >> ELSE <<Leave(o, wanted[o])>>
             b == IF sub = None THEN << >> ELSE <<Ask(o, sub)>>
             w == [Asked EXCEPT ![o] = None]
  <1>1. /\ Send(a \o b) /\ UNCHANGED <<vars, conn>> /\ active' = active
        /\ choices' = choices + 1
        /\ wanted' = [wanted EXCEPT ![o] = sub] /\ ConflictFree(wanted')
    BY DEF ChoosePane, Chooses
  <1>2. /\ wanted \in [Owners -> Subs \cup {None}] /\ wanted[Primary] # None
        /\ active \in BOOLEAN /\ choices \in Nat
        /\ Default \in Subs /\ Primary \in Owners /\ None \notin Subs
        /\ o \in Owners /\ o # Primary
    BY SubscriptionsAssumption, DefaultIsASub DEF BrowserIInv, BrowserTypeOK, Default, Panes
  <1>3. /\ Asked \in Wishes /\ Asked[o] = wanted[o]
        /\ w \in Wishes /\ w[o] = None /\ \A p \in Owners \ {o} : w[p] = Asked[p]
    BY <1>2 DEF Asked, Wishes
  <1>4. /\ Asked' = [w EXCEPT ![o] = sub]
        /\ wanted' \in [Owners -> Subs \cup {None}] /\ wanted'[Primary] # None
        /\ wanted'[o] = sub
    <2>1. /\ wanted' \in [Owners -> Subs \cup {None}] /\ wanted'[o] = sub
          /\ \A p \in Owners \ {o} : wanted'[p] = wanted[p]
      BY <1>1, <1>2
    <2>2. Asked' = [p \in Owners |-> IF p = Primary /\ ~active THEN Default ELSE wanted'[p]]
      BY <1>1 DEF Asked
    <2>3. \A p \in Owners : Asked'[p] = (IF p = o THEN sub ELSE w[p])
      BY <1>2, <1>3, <2>1, <2>2 DEF Asked
    <2>4. w = [p \in Owners |-> w[p]]
      BY <1>3 DEF Wishes
    <2> HIDE DEF w
    <2> QED
      BY <1>2, <2>1, <2>2, <2>3, <2>4
  <1> HIDE DEF w
  <1>5. a \in Seq(Messages) /\ Leads(Asked, a, w)
    <2>1. CASE wanted[o] = None
      <3>1. w = Asked
        BY <1>3, <2>1 DEF Wishes
      <3> QED
        BY <1>3, <2>1, <3>1, LeadsNowhere, EmptySeq
    <2>2. CASE wanted[o] # None
      <3> DEFINE m == Leave(o, wanted[o])
      <3>1. /\ m \in Messages /\ m.type = "UNSUBSCRIBE" /\ m.owner = o
            /\ m.symbol = wanted[o].symbol
        BY <1>2, <2>2 DEF Leave, Messages, Subs
      <3>2. Fits(Asked, m)
        BY <1>3, <2>2, <3>1 DEF Fits
      <3>3. After(Asked, m) = w
        BY <3>1 DEF After, w
      <3>4. a = <<m>>
        BY <2>2
      <3> HIDE DEF m, a
      <3>5. Leads(Asked, <<m>>, After(Asked, m)) /\ <<m>> \in Seq(Messages)
        BY <1>3, <3>1, <3>2, LeadsOne
      <3> QED
        BY <3>3, <3>4, <3>5
    <2> QED
      BY <2>1, <2>2
  <1>6. b \in Seq(Messages) /\ Leads(w, b, Asked')
    <2>1. CASE sub = None
      <3>1. Asked' = w
        BY <1>3, <1>4, <2>1 DEF Wishes
      <3> QED
        BY <1>3, <2>1, <3>1, LeadsNowhere, EmptySeq
    <2>2. CASE sub # None
      <3> DEFINE m == Ask(o, sub)
      <3>1. m \in Messages /\ m.type = "SUBSCRIBE" /\ m.owner = o /\ m.sub = sub
        BY <1>2, <2>2 DEF Ask, Messages
      <3>2. Agrees(w, o, sub)
        <4> SUFFICES ASSUME NEW p \in Owners \ {o}, w[p] # None, w[p].symbol = sub.symbol
                     PROVE  w[p] = sub \/ (p = Primary /\ w[p] = Default)
          BY DEF Agrees
        <4>1. CASE p = Primary /\ ~active
          BY <1>3, <4>1 DEF Asked
        <4>2. CASE ~(p = Primary /\ ~active)
          <5>1. w[p] = wanted'[p]
            BY <1>1, <1>2, <1>3, <4>2 DEF Asked
          <5> QED
            BY <1>1, <1>2, <1>4, <2>2, <5>1 DEF ConflictFree
        <4> QED
          BY <4>1, <4>2
      <3>3. Fits(w, m)
        BY <1>3, <3>1, <3>2 DEF Fits
      <3>4. After(w, m) = Asked'
        BY <1>4, <3>1 DEF After
      <3>5. b = <<m>>
        BY <2>2
      <3> HIDE DEF m, b
      <3>6. Leads(w, <<m>>, After(w, m)) /\ <<m>> \in Seq(Messages)
        BY <1>3, <3>1, <3>3, LeadsOne
      <3> QED
        BY <3>4, <3>5, <3>6
    <2> QED
      BY <2>1, <2>2
  <1> HIDE DEF a, b
  <1>7. a \o b \in Seq(Messages) /\ Leads(Asked, a \o b, Asked')
    BY <1>5, <1>6, LeadsOn, ConcatProperties
  <1>8. active' \in BOOLEAN /\ choices' \in Nat
    BY <1>1, <1>2
  <1> QED
    BY <1>1, <1>4, <1>7, <1>8, SendKeeps

(* A connection that is lost takes its requests with it. *)
LEMMA LostKeeps ==
  ASSUME BrowserIInv, PromptFeeds, Lost
  PROVE  BrowserIInv'
  <1>1. /\ Idle /\ conn' = None /\ wire' = << >>
        /\ UNCHANGED <<vars, wanted, active, choices>>
    BY DEF Lost
  <1>2. calls = << >> /\ calls' = calls /\ context' = context
    BY <1>1, IdleIsEmpty DEF vars, manager
  <1>3. SubscriptionsInv'
    BY <1>1, StepKeeps DEF BrowserIInv
  <1>4. BrowserTypeOK'
    BY <1>1, EmptySeq DEF BrowserIInv, BrowserTypeOK
  <1>5. OneWaits' /\ NothingForgotten'
    BY <1>1, <1>2 DEF BrowserIInv, OneWaits, NothingForgotten
  <1> QED
    BY <1>1, <1>3, <1>4, <1>5 DEF BrowserIInv, ConflictFree
(* The next request of the connection has its effect, or begins to wait for it. *)
LEMMA DeliverKeeps ==
  ASSUME BrowserIInv, PromptFeeds, Deliver
  PROVE  BrowserIInv'
  <1> DEFINE m == Head(wire)
             s == conn
  <1>1. /\ conn # None /\ wire # << >> /\ wire' = Tail(wire)
        /\ wanted' = wanted /\ active' = active /\ conn' = conn /\ choices' = choices
        /\ \/ m.type = "SUBSCRIBE" /\ Request(s, m.owner, m.sub)
           \/ m.type = "UNSUBSCRIBE" /\ Withdraw(s, m.owner, m.symbol)
    BY DEF Deliver
  <1>2. SubscriptionsInv /\ BrowserTypeOK /\ ConflictFree(wanted) /\ TypeOK
    BY DEF BrowserIInv, SubscriptionsInv
  <1>3. s \in Sessions /\ wire \in Seq(Messages)
    BY <1>1, <1>2 DEF BrowserTypeOK
  <1>4. m \in Messages /\ Tail(wire) \in Seq(Messages)
    BY <1>1, <1>3, HeadTailProperties
  <1>5. calls = << >> /\ Idle /\ socket' = socket /\ epoch' = epoch
    BY <1>1, IdleIsEmpty DEF Request, Withdraw, Hears
  <1>6. BrowserTypeOK' /\ ConflictFree(wanted') /\ Asked' = Asked
    BY <1>1, <1>2, <1>4 DEF BrowserTypeOK, Asked
  <1>7. socket[s] = "open" =>
          \E v \in Wishes : /\ \A o \in Owners : Shown(o, v[o])
                           /\ Fits(v, m) /\ Leads(After(v, m), wire', Asked)
    <2> SUFFICES ASSUME socket[s] = "open"
                 PROVE  \E v \in Wishes : /\ \A o \in Owners : Shown(o, v[o])
                                          /\ Fits(v, m) /\ Leads(After(v, m), wire', Asked)
      OBVIOUS
    <2>1. PICK v \in Wishes : Served(v) /\ Leads(v, wire, Asked)
      BY <1>1 DEF BrowserIInv, NothingForgotten
    <2>2. \A o \in Owners : Shown(o, v[o])
      BY <1>5, <2>1 DEF Served
    <2>3. Fits(v, m) /\ Leads(After(v, m), wire', Asked)
      BY <1>1, <1>3, <2>1, LeadsAfter
    <2> QED
      BY <2>2, <2>3
  <1>a. ASSUME m.type = "SUBSCRIBE", Request(s, m.owner, m.sub)
        PROVE  BrowserIInv'
    <2> DEFINE o == m.owner
               sub == m.sub
    <2>1. o \in Owners /\ sub \in Subs
      BY <1>4, <1>a DEF Messages
    <2>2. Subscribe(s, o, sub, TRUE) /\ owners' = owners
      BY <1>a DEF Request
    <2>3. SubscriptionsInv'
      BY <1>2, <1>3, <1>a, <2>1, RequestKeeps
    <2> HIDE DEF o, sub, s
    <2>4. /\ Len(calls') = 1 /\ DOMAIN calls' = {1} /\ calls' # << >>
          /\ calls'[1].session = s /\ calls'[1].owner = o /\ calls'[1].sub = sub
          /\ calls'[1].generation = generation'[s][o] /\ calls'[1].epoch = epoch[s]
          /\ context'[sub.symbol] # "absent"
      BY <1>2, <1>3, <1>5, <2>1, <2>2, OneCall
    <2>5. OneWaits'
      BY <1>1, <2>4 DEF OneWaits
    <2>6. NothingForgotten'
      <3> SUFFICES ASSUME socket[conn] = "open"
                   PROVE  \E w \in Wishes : Served(w)' /\ Leads(w, wire', Asked')
        BY <1>1, <1>5 DEF NothingForgotten, Leads, Fits, After, Agrees, Wishes
      <3>1. PICK v \in Wishes : /\ \A p \in Owners : Shown(p, v[p])
                               /\ Fits(v, m) /\ Leads(After(v, m), wire', Asked)
        BY <1>7 DEF s
      <3>0. PICK w \in Wishes : w = After(v, m)
        BY <1>4, AfterIsWished
      <3>2. w = [v EXCEPT ![o] = sub]
        BY <3>0, <1>a DEF After, o, sub
      <3>3. w[o] = sub /\ \A p \in Owners \ {o} : w[p] = v[p]
        BY <2>1, <3>2 DEF Wishes
      <3>4. Agrees(v, o, sub) /\ (o # Primary => v[o] = None)
        BY <1>a, <3>1 DEF Fits, o, sub
      <3>5. Agrees(w, o, sub)
        BY <3>3, <3>4 DEF Agrees
      <3>6. o # Primary => owners[conn][o] = None
        BY <2>1, <3>1, <3>4 DEF Shown
      <3>7. \A p \in Owners \ {o} : Shown(p, w[p])'
        BY <1>1, <2>2, <3>1, <3>3 DEF Shown
      <3>8. Served(w)' <=> \/ calls' = << >> /\ \A p \in Owners : Shown(p, w[p])'
                           \/ /\ calls' # << >>
                              /\ calls'[1].session = conn' /\ calls'[1].epoch = epoch'[conn']
                              /\ calls'[1].generation = generation'[conn'][calls'[1].owner]
                              /\ calls'[1].sub = w[calls'[1].owner]
                              /\ Agrees(w, calls'[1].owner, calls'[1].sub)
                              /\ calls'[1].owner # Primary
                                   => owners'[conn'][calls'[1].owner] = None
                              /\ \A p \in Owners \ {calls'[1].owner} : Shown(p, w[p])'
        BY DEF Served, Agrees, Shown
      <3>9. Served(w)'
        BY <1>1, <1>5, <2>2, <2>4, <3>3, <3>5, <3>6, <3>7, <3>8 DEF s
      <3> QED
        BY <1>6, <3>0, <3>1, <3>9
    <2> QED
      BY <1>1, <1>6, <2>3, <2>5, <2>6 DEF BrowserIInv, ConflictFree
  <1>b. ASSUME m.type = "UNSUBSCRIBE", Withdraw(s, m.owner, m.symbol)
        PROVE  BrowserIInv'
    <2> DEFINE o == m.owner
               y == m.symbol
    <2>1. o \in Owners /\ o # Primary /\ y \in Symbols
      BY <1>4, <1>b DEF Messages, Panes
    <2>2. /\ owners' = IF owners[s][o] # None /\ (y = None \/ owners[s][o].symbol = y)
                       THEN [owners EXCEPT ![s][o] = None] ELSE owners
          /\ calls' = calls
      BY <1>b DEF Withdraw
    <2>3. SubscriptionsInv'
      BY <1>2, <1>3, <1>b, <2>1, WithdrawKeeps
    <2> HIDE DEF o, y, s
    <2>4. OneWaits'
      BY <1>1, <1>5, <2>2 DEF OneWaits
    <2>5. NothingForgotten'
      <3> SUFFICES ASSUME socket[conn] = "open"
                   PROVE  \E w \in Wishes : Served(w)' /\ Leads(w, wire', Asked')
        BY <1>1, <1>5 DEF NothingForgotten, Leads, Fits, After, Agrees, Wishes
      <3>1. PICK v \in Wishes : /\ \A p \in Owners : Shown(p, v[p])
                               /\ Fits(v, m) /\ Leads(After(v, m), wire', Asked)
        BY <1>7 DEF s
      <3>0. PICK w \in Wishes : w = After(v, m)
        BY <1>4, AfterIsWished
      <3>2. w = [v EXCEPT ![o] = None]
        BY <3>0, <1>b DEF After, o
      <3>3. w[o] = None /\ \A p \in Owners \ {o} : w[p] = v[p]
        BY <2>1, <3>2 DEF Wishes
      <3>4. v[o] # None /\ v[o].symbol = y
        BY <1>b, <3>1 DEF Fits, o, y
      <3>5. owners \in [Sessions -> [Owners -> Subs \cup {None}]]
        BY <1>2 DEF TypeOK
      <3>6. owners'[conn][o] = None /\ \A p \in Owners \ {o} : owners'[conn][p] = owners[conn][p]
        <4>1. owners[s][o] = None \/ owners[s][o] = v[o]
          BY <2>1, <3>1 DEF Shown, s
        <4>2. CASE owners[s][o] = None
          BY <2>2, <4>2 DEF s
        <4>3. CASE owners[s][o] # None
          <5>1. owners' = [owners EXCEPT ![s][o] = None]
            BY <2>2, <3>4, <4>1, <4>3
          <5> QED
            BY <1>3, <2>1, <3>5, <5>1 DEF s
        <4> QED
          BY <4>2, <4>3
      <3>7. \A p \in Owners : Shown(p, w[p])'
        BY <1>1, <3>1, <3>3, <3>6 DEF Shown
      <3>8. Served(w)'
        BY <1>5, <2>2, <3>7 DEF Served, Shown
      <3> QED
        BY <1>6, <3>0, <3>1, <3>8
    <2> QED
      BY <1>1, <1>6, <2>3, <2>4, <2>5 DEF BrowserIInv, ConflictFree
  <1> QED
    BY <1>1, <1>a, <1>b
(* Steps after which the server has dealt with as much as before. *)
LEMMA StillServed ==
  ASSUME BrowserIInv, SubscriptionsInv', UNCHANGED browser, OneWaits',
         conn # None /\ socket'[conn] = "open" => socket[conn] = "open",
         \A w \in Wishes :
           conn # None /\ socket[conn] = "open" /\ socket'[conn] = "open" /\ Served(w)
             => Served(w)'
  PROVE  BrowserIInv'
  <1>1. /\ wanted' = wanted /\ active' = active /\ conn' = conn /\ wire' = wire
        /\ choices' = choices
    BY DEF browser
  <1>2. BrowserTypeOK' /\ Asked' = Asked
    BY <1>1 DEF BrowserIInv, BrowserTypeOK, Asked
  <1>3. NothingForgotten'
    <2> SUFFICES ASSUME conn # None, socket'[conn] = "open"
                 PROVE  \E w \in Wishes : Served(w)' /\ Leads(w, wire', Asked')
      BY <1>1 DEF NothingForgotten, Leads, Fits, After, Agrees, Wishes
    <2>1. socket[conn] = "open"
      OBVIOUS
    <2>2. PICK w \in Wishes : Served(w) /\ Leads(w, wire, Asked)
      BY <2>1 DEF BrowserIInv, NothingForgotten
    <2> QED
      BY <1>1, <1>2, <2>1, <2>2
  <1> QED
    BY <1>1, <1>2, <1>3 DEF BrowserIInv, ConflictFree

(* The call that waits ends: its owner is served, or is a pane that had to be refused. *)
LEMMA ResumeServes ==
  ASSUME BrowserIInv, Resume, UNCHANGED browser
  PROVE  BrowserIInv'
  <1> DEFINE c == calls[1]
  <1>1. SubscriptionsInv /\ OneWaits /\ TypeOK
    BY DEF BrowserIInv, SubscriptionsInv
  <1>2. PICK i \in DOMAIN calls : Abandon(i) \/ Refuse(i) \/ Join(i)
    BY DEF Resume
  <1>3. i = 1 /\ calls # << >> /\ Len(calls) = 1 /\ c \in Calls /\ calls \in Seq(Calls)
    <2>1. calls \in Seq(Calls) /\ Len(calls) <= 1
      BY <1>1 DEF TypeOK, OneWaits
    <2>2. DOMAIN calls = 1 .. Len(calls) /\ Len(calls) \in Nat
      BY <2>1, LenProperties
    <2>3. i = 1 /\ Len(calls) = 1
      BY <1>2, <2>1, <2>2
    <2> QED
      BY <2>1, <2>3, ElementOfSeq, EmptySeq
  <1>4. /\ calls' = RemoveAt(calls, 1) /\ socket' = socket /\ generation' = generation
        /\ epoch' = epoch /\ context' = context
    BY <1>2, <1>3 DEF Abandon, Refuse, Join, Takes, session
  <1>5. calls' = << >>
    <2>1. SubSeq(calls, 1, 1 - 1) = << >> /\ SubSeq(calls, 1 + 1, Len(calls)) = << >>
      BY <1>3, SubSeqEmpty
    <2> QED
      BY <1>4, <2>1 DEF RemoveAt
  <1>6. SubscriptionsInv'
    BY <1>1, <1>2, AbandonKeeps, RefuseKeeps, JoinKeeps
  <1>7. conn' = conn
    BY DEF browser
  <1>8. OneWaits'
    BY <1>5, <1>7 DEF OneWaits
  <1>9. ASSUME NEW w \in Wishes, conn # None, socket[conn] = "open", Served(w)
        PROVE  Served(w)'
    <2>1. /\ c.session = conn /\ c.epoch = epoch[conn]
          /\ c.generation = generation[conn][c.owner]
          /\ c.sub = w[c.owner] /\ Agrees(w, c.owner, c.sub)
          /\ c.owner # Primary => owners[conn][c.owner] = None
          /\ \A o \in Owners \ {c.owner} : Shown(o, w[o])
      BY <1>3, <1>9 DEF Served
    <2>2. c.owner \in Owners /\ c.sub \in Subs /\ conn \in Sessions /\ None \notin Subs
      BY <1>3, <1>9, SubscriptionsAssumption DEF Calls, BrowserIInv, BrowserTypeOK
    <2>3. ~Superseded(c)
      BY <1>9, <2>1 DEF Superseded
    <2> HIDE DEF c
    <2>4. \A o \in Owners : Shown(o, w[o])'
      <3>1. CASE Refuse(1)
        <4>1. owners' = owners /\ Conflicts(c)
          BY <3>1 DEF Refuse, session, c
        <4>2. PICK p \in Owners \ {c.owner} :
                /\ owners[conn][p] # None /\ owners[conn][p].symbol = c.sub.symbol
                /\ owners[conn][p].frame # c.sub.frame
          BY <2>1, <4>1 DEF Conflicts
        <4>3. owners[conn][p] = w[p]
          BY <2>1, <4>2 DEF Shown
        <4>4. p = Primary /\ w[p] = Default
          BY <2>1, <4>2, <4>3 DEF Agrees
        <4>5. c.sub.symbol = Opening /\ c.sub.frame # Minute /\ c.owner # Primary
          BY <4>2, <4>3, <4>4 DEF Default
        <4> QED
          BY <1>7, <2>1, <2>2, <4>1, <4>5 DEF Shown
      <3>2. CASE Join(1)
        <4>1. owners' = [owners EXCEPT ![conn][c.owner] = c.sub]
          BY <2>1, <3>2 DEF Join, c
        <4>2. owners \in [Sessions -> [Owners -> Subs \cup {None}]]
          BY <1>1 DEF TypeOK
        <4>3. /\ owners'[conn][c.owner] = c.sub
              /\ \A o \in Owners \ {c.owner} : owners'[conn][o] = owners[conn][o]
          BY <2>2, <4>1, <4>2
        <4> QED
          BY <1>7, <2>1, <4>3 DEF Shown
      <3>3. ~Abandon(1)
        BY <2>3 DEF Abandon, c
      <3> QED
        BY <1>2, <1>3, <3>1, <3>2, <3>3
    <2> QED
      BY <1>5, <2>4 DEF Served, Shown
  <1> QED
    BY <1>4, <1>6, <1>8, <1>9, StillServed

LEMMA ServerKeeps ==
  ASSUME BrowserIInv, PromptFeeds, ServerAlone
  PROVE  BrowserIInv'
  <1>1. UNCHANGED browser /\ conn' = conn
    BY DEF ServerAlone, browser
  <1>2. CASE Resume
    BY <1>1, <1>2, ResumeServes
  <1>3. ASSUME NEW y \in Symbols, Connected(y) \/ CleanupFires(y)
        PROVE  BrowserIInv'
    <2>1. /\ socket' = socket /\ owners' = owners /\ generation' = generation
          /\ epoch' = epoch /\ calls' = calls
      BY <1>3 DEF Connected, CleanupFires, session
    <2>2. SubscriptionsInv'
      BY <1>3, ConnectedKeeps, CleanupKeeps DEF BrowserIInv
    <2>3. OneWaits'
      <3>1. CASE Connected(y)
        <4>1. context' = [context EXCEPT ![y] = "ready"]
              /\ context \in [Symbols -> {"absent", "connecting", "ready"}]
          BY <3>1 DEF Connected, BrowserIInv, SubscriptionsInv, TypeOK
        <4>2. \A z : context[z] # "absent" => context'[z] # "absent"
          BY <4>1
        <4> QED
          BY <1>1, <2>1, <4>2 DEF OneWaits, BrowserIInv
      <3>2. CASE CleanupFires(y)
        <4>1. calls' = << >>
          BY <2>1, <3>2, IdleIsEmpty DEF CleanupFires
        <4> QED
          BY <4>1 DEF OneWaits
      <3> QED
        BY <1>3, <3>1, <3>2
    <2>4. \A w \in Wishes : Served(w) => Served(w)'
      BY <1>1, <2>1 DEF Served, Shown, Agrees
    <2> QED
      BY <1>1, <2>1, <2>2, <2>3, <2>4, StillServed
  <1>4. ASSUME NEW s \in Sessions, Drop(s) \/ Closed(s)
        PROVE  BrowserIInv'
    <2>1. /\ Idle /\ calls' = calls /\ context' = context
          /\ socket' \in {[socket EXCEPT ![s] = "closing"], [socket EXCEPT ![s] = "closed"]}
          /\ owners' \in {owners, [owners EXCEPT ![s] = [o \in Owners |-> None]]}
      BY <1>4 DEF Drop, Closed, manager
    <2>2. calls = << >>
      BY <2>1, IdleIsEmpty
    <2>3. TypeOK
      BY DEF BrowserIInv, SubscriptionsInv
    <2>4. /\ socket'[s] # "open"
          /\ \A t \in Sessions \ {s} : socket'[t] = socket[t] /\ owners'[t] = owners[t]
      BY <2>1, <2>3 DEF TypeOK
    <2>5. conn # None => conn \in Sessions
      BY DEF BrowserIInv, BrowserTypeOK
    <2>6. SubscriptionsInv'
      BY <1>4, ClosingKeeps, ClosedKeeps DEF Drop, BrowserIInv
    <2>7. OneWaits'
      BY <2>1, <2>2 DEF OneWaits
    <2>8. ASSUME NEW w \in Wishes, conn # None, socket'[conn] = "open", Served(w)
          PROVE  Served(w)'
      <3>1. owners'[conn] = owners[conn]
        BY <2>4, <2>5, <2>8
      <3> QED
        BY <1>1, <2>1, <2>2, <2>8, <3>1 DEF Served, Shown
    <2> QED
      BY <1>1, <2>4, <2>5, <2>6, <2>7, <2>8, StillServed
  <1> QED
    BY <1>2, <1>3, <1>4 DEF ServerAlone

-----------------------------------------------------------------------------
LEMMA BrowserBegins ==
  ASSUME BrowserInit
  PROVE  BrowserIInv
  <1>1. SubscriptionsInv
    BY InitHolds DEF BrowserInit
  <1>2. BrowserTypeOK
    BY EmptySeq DEF BrowserInit, BrowserTypeOK
  <1>3. calls = << >> /\ conn = None /\ ConflictFree(wanted)
    BY DEF BrowserInit, Init
  <1>4. OneWaits /\ NothingForgotten
    BY <1>3 DEF OneWaits, NothingForgotten
  <1> QED
    BY <1>1, <1>2, <1>3, <1>4 DEF BrowserIInv

LEMMA BrowserSteps ==
  ASSUME PromptFeeds, BrowserIInv, [BrowserNext]_allVars
  PROVE  BrowserIInv'
  <1>1. CASE \E s \in Sessions : Open(s)                      BY <1>1, OpenKeeps
  <1>2. CASE Lost                                              BY <1>2, LostKeeps
  <1>3. CASE Deliver                                           BY <1>3, DeliverKeeps
  <1>4. CASE Adopt \/ \E sub \in Subs : ChooseChart(sub)       BY <1>4, ChartKeeps
  <1>5. CASE \E o \in Panes, sub \in Subs \cup {None} : ChoosePane(o, sub)
    BY <1>5, PaneKeeps
  <1>6. CASE ServerAlone                                       BY <1>6, ServerKeeps
  <1>7. CASE UNCHANGED allVars
    <2>1. UNCHANGED vars /\ UNCHANGED browser
      BY <1>7 DEF allVars
    <2>2. /\ socket' = socket /\ owners' = owners /\ generation' = generation
          /\ epoch' = epoch /\ calls' = calls /\ context' = context /\ conn' = conn
      BY <2>1 DEF vars, session, manager, browser
    <2>3. SubscriptionsInv'
      BY <2>1, StepKeeps DEF BrowserIInv
    <2>4. OneWaits' /\ \A w \in Wishes : Served(w) => Served(w)'
      BY <2>2 DEF BrowserIInv, OneWaits, Served, Shown, Agrees
    <2> QED
      BY <2>1, <2>2, <2>3, <2>4, StillServed
  <1> QED
    BY <1>1, <1>2, <1>3, <1>4, <1>5, <1>6, <1>7 DEF BrowserNext

(* However connections are lost and charts change, once everything the browser asked for on an  *)
(* open connection has been dealt with, each chart is served as the user sees it, if feeds      *)
(* connect at once, as those of the source do (onopen, subscribe, unsubscribePane, the          *)
(* handlers of SUBSCRIBE and UNSUBSCRIBE).                                                      *)
THEOREM OthersAreRestoredTheorem ==
  ASSUME PromptFeeds
  PROVE  BrowserSpec => []OthersAreRestored
  <1>1. BrowserIInv => OthersAreRestored
    <2> SUFFICES ASSUME BrowserIInv, Settled, NEW o \in Owners
                 PROVE  \/ owners[conn][o] = wanted[o]
                        \/ /\ o # Primary /\ wanted[o] # None
                           /\ wanted[o].symbol = Opening /\ wanted[o].frame # Minute
      BY DEF OthersAreRestored
    <2>1. /\ conn # None /\ socket[conn] = "open" /\ wire = << >> /\ calls = << >>
          /\ active \/ wanted[Primary] = Default
      BY DEF Settled
    <2>2. PICK w \in Wishes : Served(w) /\ Leads(w, wire, Asked)
      BY <2>1 DEF BrowserIInv, NothingForgotten
    <2>3. w = Asked
      <3>1. Len(<< >>) = 0
        OBVIOUS
      <3> QED
        BY <2>1, <2>2, <3>1 DEF Leads
    <2>4. Asked[o] = wanted[o]
      BY <2>1 DEF Asked
    <2>5. Shown(o, wanted[o])
      BY <2>1, <2>2, <2>3, <2>4 DEF Served
    <2> QED
      BY <2>5 DEF Shown
  <1>2. BrowserInit => BrowserIInv
    BY BrowserBegins
  <1>3. BrowserIInv /\ [BrowserNext]_allVars => BrowserIInv'
    BY BrowserSteps
  <1> QED
    BY <1>1, <1>2, <1>3, PTL DEF BrowserSpec
=============================================================================
