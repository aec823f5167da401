---------------------------- MODULE AccountsProofs ----------------------------
(***************************************************************************)
(* Proofs about Accounts.  Everything that changes a plan goes through     *)
(* ReplaceInMemory and ReplaceRows, so the proof is about those two: what  *)
(* the map and the table have that is valid is the new grants and nothing  *)
(* else, if they agreed before.                                            *)
(***************************************************************************)
EXTENDS Accounts, TLAPS

LEMMA GrantsType ==
  ASSUME NEW p \in Plans, NEW t \in Nat
  PROVE  Grants(p, t) \in SUBSET Entitlements
BY DEF Grants, Entitlements

(* Types of what the two operators compute. *)
LEMMA LoadedType ==
  ASSUME TypeOK, NEW u \in Users
  PROVE  Loaded(u) \in SUBSET Entitlements /\ Kept(u) \in SUBSET Entitlements
BY DEF TypeOK, Loaded, Kept, Active

(* Nothing valid is left of what is revoked. *)
LEMMA RevokedFromMemory ==
  ASSUME NEW u, NEW G
  PROVE  Active(With(Loaded(u) \ Revoked(u), G)) = Active(G)
<1>1. ASSUME NEW e \in Loaded(u) \ Revoked(u) PROVE ~(e.until > now)
  BY <1>1 DEF Revoked, Active
<1> QED BY <1>1 DEF Active, With

LEMMA RevokedFromRows ==
  ASSUME MemoryAgreesWithRows, NEW u, u \notin stale, NEW G
  PROVE  Active(With(Kept(u), G)) = Active(G)
<1>1. Revoked(u) = Active(rows[u])
  BY DEF Revoked, Loaded, Active, MemoryAgreesWithRows
<1>2. ASSUME NEW e \in Kept(u) PROVE ~(e.until > now)
  <2>1. SUFFICES ASSUME e.until > now PROVE FALSE
    OBVIOUS
  <2>2. e \in Revoked(u)
    BY <1>1, <2>1 DEF Kept, Active
  <2>3. Id(e) \in Ids(Revoked(u))
    BY <2>2 DEF Ids
  <2> QED BY <2>3 DEF Kept
<1> QED BY <1>2 DEF Active, With

(* The connections that are left were there before; none of them has lost what it shows. *)
LEMMA ToldViews ==
  ASSUME TypeOK, NEW u \in Users, NEW lost
  PROVE  /\ Told(u, lost) \in [Sessions -> Views \cup {None}]
         /\ \A s \in Sessions : Told(u, lost)[s] # None =>
              /\ session[s] # None
              /\ Told(u, lost)[s].user = session[s].user
              /\ Told(u, lost)[s].symbol = "other" =>
                   session[s].symbol = "other" /\ (session[s].user = u => lost = {})
<1> DEFINE T == Told(u, lost)
<1>1. ASSUME NEW s \in Sessions
      PROVE  /\ T[s] \in Views \cup {None}
             /\ T[s] # None => /\ session[s] # None
                               /\ T[s].user = session[s].user
                               /\ T[s].symbol = "other" =>
                                    session[s].symbol = "other" /\ (session[s].user = u => lost = {})
  <2>1. session[s] \in Views \cup {None}
    BY DEF TypeOK
  <2>2. T[s] = IF lost = {} \/ session[s] = None THEN session[s]
               ELSE IF session[s].user # u THEN session[s]
               ELSE IF ~AuthRequired /\ session[s].symbol = "other"
                    THEN [session[s] EXCEPT !.symbol = "default"]
                    ELSE None
    BY DEF Told
  <2>3. CASE lost = {} \/ session[s] = None
    BY <2>1, <2>2, <2>3
  <2>4. CASE ~(lost = {} \/ session[s] = None)
    BY <2>1, <2>2, <2>4, NoneAssumption DEF Views
  <2> QED BY <2>3, <2>4
<1>2. T = [s \in Sessions |-> T[s]]
  BY DEF Told
<1> HIDE DEF T
<1>3. T \in [Sessions -> Views \cup {None}]
  BY <1>1, <1>2
<1> QED BY <1>1, <1>3 DEF T

(* A change of the map: the views keep what they were granted. *)
LEMMA MemoryStep ==
  ASSUME TypeOK, UnloadedIsEmpty, OtherWasGranted, NEW u \in Users,
         NEW G \in SUBSET Entitlements, ReplaceInMemory(u, G), now' = now
  PROVE  /\ loaded' \subseteq Users /\ u \in loaded'
         /\ loaded \subseteq loaded' /\ \A v \in loaded' : v = u \/ v \in loaded
         /\ memory' \in [Users -> SUBSET Entitlements]
         /\ Active(memory'[u]) = Active(G)
         /\ \A v \in Users \ {u} : memory'[v] = memory[v]
         /\ session' \in [Sessions -> Views \cup {None}]
         /\ \A s \in Sessions : session'[s] # None =>
              session[s] # None /\ session'[s].user = session[s].user
         /\ UnloadedIsEmpty' /\ OtherWasGranted'
<1> DEFINE M == With(Loaded(u) \ Revoked(u), G)
<1>1. M \in SUBSET Entitlements
  BY LoadedType DEF With
<1>2. /\ loaded' = loaded \cup {u}
      /\ memory' = [memory EXCEPT ![u] = M]
      /\ session' = Told(u, Revoked(u))
  BY DEF ReplaceInMemory
<1>3. Active(M) = Active(G)
  BY RevokedFromMemory
<1>4. memory' \in [Users -> SUBSET Entitlements] /\ memory'[u] = M
      /\ \A v \in Users \ {u} : memory'[v] = memory[v]
  BY <1>1, <1>2 DEF TypeOK
<1>5. UnloadedIsEmpty'
  BY <1>2, <1>4 DEF UnloadedIsEmpty
<1>6. OtherWasGranted'
  <2>1. SUFFICES ASSUME NEW s \in Sessions, session'[s] # None, session'[s].symbol = "other"
                 PROVE  memory'[session'[s].user] # {}
    BY DEF OtherWasGranted
  <2>2. /\ session[s] # None /\ session'[s].user = session[s].user /\ session[s].symbol = "other"
        /\ session[s].user = u => Revoked(u) = {}
    BY <1>2, <2>1, ToldViews
  <2>3. memory[session[s].user] # {} /\ session[s].user \in Users
    BY <2>2 DEF OtherWasGranted, TypeOK, Views
  <2>4. CASE session[s].user # u
    BY <1>4, <2>2, <2>3, <2>4
  <2>5. CASE session[s].user = u
    <3>1. u \in loaded /\ Loaded(u) = memory[u] /\ Revoked(u) = {}
      BY <2>2, <2>3, <2>5 DEF UnloadedIsEmpty, Loaded
    <3>2. PICK e : e \in Loaded(u) \ Revoked(u)
      BY <2>3, <2>5, <3>1
    <3>3. M # {}
      <4>1. CASE Id(e) \in Ids(G)
        BY <4>1 DEF Ids, With
      <4>2. CASE Id(e) \notin Ids(G)
        BY <3>2, <4>2 DEF With
      <4> QED BY <4>1, <4>2
    <3> QED BY <1>4, <2>2, <2>5, <3>3
  <2> QED BY <2>4, <2>5
<1>7. /\ session' \in [Sessions -> Views \cup {None}]
      /\ \A s \in Sessions : session'[s] # None =>
           session[s] # None /\ session'[s].user = session[s].user
  BY <1>2, ToldViews
<1>8. Active(memory'[u]) = Active(G)
  BY <1>3, <1>4
<1>9. /\ loaded' \subseteq Users /\ u \in loaded'
      /\ loaded \subseteq loaded' /\ \A v \in loaded' : v = u \/ v \in loaded
  BY <1>2 DEF TypeOK
<1> QED
  BY <1>4, <1>5, <1>6, <1>7, <1>8, <1>9

(* The same change of the table: map and table agree on the user again, and on all others still. *)
LEMMA RowsStep ==
  ASSUME TypeOK, UnloadedIsEmpty, OtherWasGranted, MemoryAgreesWithRows, NEW u \in Users,
         NEW G \in SUBSET Entitlements, ReplaceInMemory(u, G), ReplaceRows(u, G),
         now' = now, stale' = stale
  PROVE  /\ rows' \in [Users -> SUBSET Entitlements] /\ half' \subseteq Users
         /\ \A v \in Users \ {u} : rows'[v] = rows[v] /\ (v \in half' <=> v \in half)
         /\ u \notin half' => u \notin stale /\ Active(rows'[u]) = Active(G)
         /\ MemoryAgreesWithRows'
<1>1. With(Kept(u), G) \in SUBSET Entitlements
  BY LoadedType DEF With
<1>2. /\ rows' = [rows EXCEPT ![u] = With(Kept(u), G)]
      /\ half' = IF u \in stale THEN half \cup {u} ELSE half \ {u}
  BY DEF ReplaceRows
<1>3. rows' \in [Users -> SUBSET Entitlements] /\ rows'[u] = With(Kept(u), G)
      /\ \A v \in Users \ {u} : rows'[v] = rows[v]
  BY <1>1, <1>2 DEF TypeOK
<1>4. half' \subseteq Users /\ \A v \in Users \ {u} : v \in half' <=> v \in half
  BY <1>2 DEF TypeOK
<1>5. u \notin stale => Active(rows'[u]) = Active(G)
  BY <1>3, RevokedFromRows
<1>6. u \notin half' => u \notin stale
  BY <1>2
<1>7. MemoryAgreesWithRows'
  <2>1. SUFFICES ASSUME NEW v \in loaded', v \notin stale
                 PROVE  Active(memory'[v]) = Active(rows'[v])
    BY DEF MemoryAgreesWithRows, Active
  <2>2. CASE v = u
    BY <1>5, <2>1, <2>2, MemoryStep
  <2>3. CASE v # u
    <3>1. v \in loaded /\ v \in Users /\ memory'[v] = memory[v]
      BY <2>3, MemoryStep DEF TypeOK
    <3>2. Active(memory[v]) = Active(rows[v])
      BY <2>1, <3>1 DEF MemoryAgreesWithRows
    <3> QED BY <1>3, <2>3, <3>1, <3>2
  <2> QED BY <2>2, <2>3
<1> QED BY <1>3, <1>4, <1>5, <1>6, <1>7

(* The part of the state a plan is written in, and what holds of it. *)
PlanTypes ==
  /\ rows \in [Users -> SUBSET Entitlements]
  /\ sub \in [Users -> Subs \cup {None}]
  /\ loaded \subseteq Users
  /\ memory \in [Users -> SUBSET Entitlements]
  /\ session \in [Sessions -> Views \cup {None}]
  /\ half \subseteq Users
  /\ canceledBy \in [Users -> Nat]

PlanInv ==
  /\ PlanTypes
  /\ CanceledIsOver
  /\ UnloadedIsEmpty
  /\ MemoryAgreesWithRows
  /\ AccessFollowsPlan
  /\ OtherWasGranted

(* No connection comes, and none changes hands. *)
NoNewSession ==
  \A s \in Sessions : session'[s] # None =>
    session[s] # None /\ session'[s].user = session[s].user

LEMMA GrantsActive ==
  ASSUME NEW p, NEW t \in Nat
  PROVE  Active(Grants(p, t)) = IF t > now THEN Grants(p, t) ELSE {}
BY DEF Active, Grants

LEMMA ApplyPlanStep ==
  ASSUME AccountsInv, NEW u \in Users, NEW p \in Plans, NEW t \in Nat,
         NEW status \in {"active", "past_due"}, ApplyPlan(u, p, t, status),
         now' = now, stale' = stale
  PROVE  PlanInv' /\ NoNewSession
<1> DEFINE G == Grants(p, t)
<1>1. G \in SUBSET Entitlements
  BY GrantsType
<1>2. /\ ReplaceInMemory(u, G) /\ ReplaceRows(u, G)
      /\ sub' = [sub EXCEPT ![u] = [plan |-> p, status |-> status, end |-> t, updatedAt |-> now]]
      /\ canceledBy' = [canceledBy EXCEPT ![u] = 0]
  BY DEF ApplyPlan
<1>3. TypeOK /\ UnloadedIsEmpty /\ OtherWasGranted /\ MemoryAgreesWithRows
      /\ AccessFollowsPlan /\ CanceledIsOver
  BY DEF AccountsInv
<1>4. [plan |-> p, status |-> status, end |-> t, updatedAt |-> now] \in Subs
  BY <1>3 DEF Subs, Statuses, TypeOK
<1>5. /\ sub' \in [Users -> Subs \cup {None}] /\ canceledBy' \in [Users -> Nat]
      /\ sub'[u] = [plan |-> p, status |-> status, end |-> t, updatedAt |-> now]
      /\ \A v \in Users \ {u} : sub'[v] = sub[v]
  BY <1>2, <1>3, <1>4 DEF TypeOK
<1>6. sub'[u] # None /\ sub'[u].status # "canceled" /\ sub'[u].plan = p /\ sub'[u].end = t
  BY <1>4, <1>5, NoneAssumption
<1> HIDE DEF G
<1>7. PlanTypes' /\ UnloadedIsEmpty' /\ OtherWasGranted' /\ NoNewSession
  BY <1>1, <1>2, <1>3, <1>5, MemoryStep, RowsStep DEF PlanTypes, NoNewSession
<1>8. MemoryAgreesWithRows'
  BY <1>1, <1>2, <1>3, RowsStep
<1>9. CanceledIsOver'
  BY <1>3, <1>5, <1>6 DEF CanceledIsOver
<1>10. AccessFollowsPlan'
  <2>1. SUFFICES ASSUME NEW v \in Users, v \notin half'
                 PROVE  Active(rows'[v]) = (IF InForce(v)' THEN Grants(sub'[v].plan, sub'[v].end) ELSE {})
    BY DEF AccessFollowsPlan, Active
  <2>2. CASE v = u
    <3>1. Active(rows'[u]) = Active(G)
      BY <1>1, <1>2, <1>3, <2>1, <2>2, RowsStep
    <3>2. InForce(u)' <=> t > now
      BY <1>6 DEF InForce
    <3> QED BY <1>6, <2>2, <3>1, <3>2, GrantsActive DEF G
  <2>3. CASE v # u
    <3>1. rows'[v] = rows[v] /\ v \notin half
      BY <1>1, <1>2, <1>3, <2>1, <2>3, RowsStep
    <3>2. sub'[v] = sub[v] /\ (InForce(v)' <=> InForce(v))
      BY <1>5, <2>3 DEF InForce
    <3> QED BY <1>3, <3>1, <3>2 DEF AccessFollowsPlan
  <2> QED BY <2>2, <2>3
<1> QED BY <1>7, <1>8, <1>9, <1>10 DEF PlanInv

(* What a step that leaves these alone leaves alone. *)
LEMMA PlanUnchanged ==
  ASSUME AccountsInv, UNCHANGED <<rows, sub, loaded, memory, session, half, canceledBy, now, stale>>
  PROVE  PlanInv' /\ NoNewSession
<1>1. PlanTypes' /\ NoNewSession
  BY DEF AccountsInv, TypeOK, PlanTypes, NoNewSession
<1>2. CanceledIsOver' /\ UnloadedIsEmpty' /\ OtherWasGranted'
  BY DEF AccountsInv, CanceledIsOver, UnloadedIsEmpty, OtherWasGranted
<1>3. MemoryAgreesWithRows' /\ AccessFollowsPlan'
  BY DEF AccountsInv, MemoryAgreesWithRows, AccessFollowsPlan, InForce, Active
<1> QED BY <1>1, <1>2, <1>3 DEF PlanInv

LEMMA CancelStep ==
  ASSUME AccountsInv, NEW u \in Users, NEW i \in Nat, CancelSubscription(u, i),
         now' = now, stale' = stale
  PROVE  PlanInv' /\ NoNewSession
<1>1. CASE sub[u] = None
  BY <1>1, PlanUnchanged DEF CancelSubscription
<1>2. CASE sub[u] # None
  <2>1. /\ ReplaceInMemory(u, {}) /\ ReplaceRows(u, {})
        /\ sub' = [sub EXCEPT ![u] = Canceled(sub[u])]
        /\ canceledBy' = [canceledBy EXCEPT ![u] = i]
    BY <1>2 DEF CancelSubscription
  <2>2. TypeOK /\ UnloadedIsEmpty /\ OtherWasGranted /\ MemoryAgreesWithRows
        /\ AccessFollowsPlan /\ CanceledIsOver
    BY DEF AccountsInv
  <2>3. Canceled(sub[u]) \in Subs /\ Canceled(sub[u]).status = "canceled" /\ Canceled(sub[u]).end = now
    BY <1>2, <2>2 DEF Canceled, Subs, Statuses, TypeOK
  <2>4. /\ sub' \in [Users -> Subs \cup {None}] /\ canceledBy' \in [Users -> Nat]
        /\ sub'[u] = Canceled(sub[u])
        /\ \A v \in Users \ {u} : sub'[v] = sub[v]
    BY <2>1, <2>2, <2>3 DEF TypeOK
  <2>5. PlanTypes' /\ UnloadedIsEmpty' /\ OtherWasGranted' /\ NoNewSession
    BY <2>1, <2>2, <2>4, MemoryStep, RowsStep DEF PlanTypes, NoNewSession
  <2>6. MemoryAgreesWithRows'
    BY <2>1, <2>2, RowsStep
  <2>7. CanceledIsOver'
    <3>1. sub'[u].end <= now'
      BY <2>2, <2>3, <2>4 DEF TypeOK
    <3> QED BY <2>2, <2>4, <3>1 DEF CanceledIsOver
  <2>8. AccessFollowsPlan'
    <3>1. SUFFICES ASSUME NEW v \in Users, v \notin half'
                   PROVE  Active(rows'[v]) = (IF InForce(v)' THEN Grants(sub'[v].plan, sub'[v].end) ELSE {})
      BY DEF AccessFollowsPlan, Active
    <3>2. CASE v = u
      <4>1. Active(rows'[u]) = Active({})
        BY <2>1, <2>2, <3>1, <3>2, RowsStep
      <4>2. ~InForce(u)'
        BY <2>3, <2>4 DEF InForce
      <4> QED BY <3>2, <4>1, <4>2 DEF Active
    <3>3. CASE v # u
      <4>1. rows'[v] = rows[v] /\ v \notin half
        BY <2>1, <2>2, <3>1, <3>3, RowsStep
      <4>2. sub'[v] = sub[v] /\ (InForce(v)' <=> InForce(v))
        BY <2>4, <3>3 DEF InForce
      <4> QED BY <2>2, <4>1, <4>2 DEF AccessFollowsPlan
    <3> QED BY <3>2, <3>3
  <2> QED BY <2>5, <2>6, <2>7, <2>8 DEF PlanInv
<1> QED BY <1>1, <1>2

(* A failed payment ends no access, and brings none back: what was canceled is over. *)
LEMMA MarkPastDueStep ==
  ASSUME AccountsInv, NEW u \in Users, MarkPastDue(u), now' = now, stale' = stale
  PROVE  PlanInv' /\ NoNewSession
<1>1. CASE sub[u] = None
  BY <1>1, PlanUnchanged DEF MarkPastDue
<1>2. CASE sub[u] # None
  <2> DEFINE b == [sub[u] EXCEPT !.status = "past_due", !.updatedAt = now]
  <2>1. TypeOK /\ CanceledIsOver /\ AccessFollowsPlan /\ MemoryAgreesWithRows
        /\ UnloadedIsEmpty /\ OtherWasGranted
    BY DEF AccountsInv
  <2>2. b \in Subs /\ b.status = "past_due" /\ b.end = sub[u].end /\ b.plan = sub[u].plan
    BY <1>2, <2>1 DEF Subs, Statuses, TypeOK
  <2>3. sub' = [sub EXCEPT ![u] = b]
    BY <1>2 DEF MarkPastDue
  <2>4. UNCHANGED <<rows, loaded, memory, session, half, canceledBy>>
    BY DEF MarkPastDue
  <2> HIDE DEF b
  <2>5. /\ sub' \in [Users -> Subs \cup {None}]
        /\ sub'[u] = b /\ b # None
        /\ \A v \in Users \ {u} : sub'[v] = sub[v]
    BY <2>1, <2>2, <2>3, NoneAssumption DEF TypeOK
  <2>6. PlanTypes' /\ NoNewSession
    BY <2>1, <2>4, <2>5 DEF TypeOK, PlanTypes, NoNewSession
  <2>7. CanceledIsOver'
    BY <2>1, <2>2, <2>5 DEF CanceledIsOver
  <2>8. UnloadedIsEmpty' /\ OtherWasGranted'
    BY <2>1, <2>4 DEF UnloadedIsEmpty, OtherWasGranted
  <2>9. MemoryAgreesWithRows'
    BY <2>1, <2>4 DEF MemoryAgreesWithRows, Active
  <2>10. AccessFollowsPlan'
    <3>1. \A v \in Users : InForce(v)' <=> InForce(v)
      <4>1. SUFFICES ASSUME NEW v \in Users PROVE InForce(v)' <=> InForce(v)
        OBVIOUS
      <4>2. CASE v # u
        BY <2>5, <4>2 DEF InForce
      <4>3. CASE v = u
        <5>1. sub[u].end \in Nat /\ now \in Nat /\ (sub[u].status = "canceled" => ~(sub[u].end > now))
          BY <1>2, <2>1 DEF CanceledIsOver, TypeOK, Subs
        <5> QED BY <1>2, <2>2, <2>5, <4>3, <5>1 DEF InForce
      <4> QED BY <4>2, <4>3
    <3>2. \A v \in Users : InForce(v) => sub'[v].plan = sub[v].plan /\ sub'[v].end = sub[v].end
      BY <2>2, <2>5
    <3> QED BY <2>1, <2>4, <3>1, <3>2 DEF AccessFollowsPlan, Active
  <2> QED BY <2>6, <2>7, <2>8, <2>9, <2>10 DEF PlanInv
<1> QED BY <1>1, <1>2

(* The rest of the invariant: what a change of plan leaves alone. *)
RestTypes ==
  /\ account \in [Users -> {"none", "active", "suspended"}]
  /\ processed \subseteq 1..Len(events)
  /\ tokens \subseteq Users
  /\ calls \subseteq Calls
  /\ events \in Seq(Events)
  /\ now \in Nat
  /\ stale \subseteq Users
  /\ applied \in [1..MaxEvents -> Nat]
  /\ Len(events) <= MaxEvents

LEMMA Parts == AccountsInv <=> PlanInv /\ RestTypes /\ SuspendedAreOut /\ AppliedOnce
BY DEF AccountsInv, TypeOK, PlanInv, PlanTypes, RestTypes

LEMMA NextParts == AccountsInv' <=> PlanInv' /\ RestTypes' /\ SuspendedAreOut' /\ AppliedOnce'
BY DEF AccountsInv, TypeOK, PlanInv, PlanTypes, RestTypes

(* Nobody is let in by a step that opens no connection and suspends nobody. *)
LEMMA StayOut ==
  ASSUME AccountsInv, NoNewSession, session' \in [Sessions -> Views \cup {None}],
         \A u \in Users : account'[u] = "suspended" => account[u] = "suspended"
  PROVE  SuspendedAreOut'
<1>1. SUFFICES ASSUME NEW s \in Sessions, session'[s] # None
               PROVE  account'[session'[s].user] # "suspended"
  BY DEF SuspendedAreOut
<1>2. session[s] # None /\ session'[s].user = session[s].user
  BY <1>1 DEF NoNewSession
<1>3. session[s].user \in Users
  BY <1>2 DEF AccountsInv, TypeOK, Views
<1> QED BY <1>2, <1>3 DEF AccountsInv, SuspendedAreOut

LEMMA EventType ==
  ASSUME AccountsInv, NEW i \in DOMAIN events
  PROVE  /\ i \in 1..MaxEvents /\ i \in 1..Len(events) /\ i \in Nat
         /\ events[i].user \in Users /\ events[i].plan \in Plans
         /\ events[i].status \in {"active", "past_due"}
         /\ Until(events[i]) \in Nat
<1>1. events \in Seq(Events) /\ Len(events) \in Nat /\ Len(events) <= MaxEvents /\ now \in Nat
  BY DEF AccountsInv, TypeOK
<1>2. i \in 1..Len(events) /\ i \in 1..MaxEvents
  BY <1>1, AccountsAssumption
<1>3. events[i] \in Events
  BY <1>1, <1>2
<1> QED BY <1>1, <1>2, <1>3, AccountsAssumption DEF Events, Until, Plans

LEMMA SendStep ==
  ASSUME AccountsInv, Send
  PROVE  AccountsInv'
<1>1. PICK e \in Sendable : events' = Append(events, e)
  BY DEF Send
<1>2. e \in Events
  BY <1>1, AccountsAssumption DEF Sendable, Events, AccountsInv, TypeOK
<1>3. events \in Seq(Events) /\ Len(events) \in Nat /\ Len(events) < MaxEvents
  BY DEF AccountsInv, TypeOK, Send
<1>4. events' \in Seq(Events) /\ Len(events') = Len(events) + 1 /\ Len(events') <= MaxEvents
  BY <1>1, <1>2, <1>3, AccountsAssumption
<1>5. UNCHANGED <<account, rows, sub, processed, loaded, memory, session, calls, tokens, now,
                  stale, half, applied, canceledBy>>
  BY DEF Send, store, process, history
<1>6. PlanInv' /\ NoNewSession
  BY <1>5, PlanUnchanged
<1>7. processed' \subseteq 1..Len(events')
  BY <1>3, <1>4, <1>5 DEF AccountsInv, TypeOK
<1>8. RestTypes'
  BY <1>4, <1>5, <1>7 DEF RestTypes, AccountsInv, TypeOK
<1>9. SuspendedAreOut' /\ AppliedOnce'
  BY <1>5 DEF AccountsInv, SuspendedAreOut, AppliedOnce
<1> QED BY <1>6, <1>8, <1>9, NextParts

LEMMA DeliverStep ==
  ASSUME AccountsInv, NEW i \in DOMAIN events, Deliver(i)
  PROVE  AccountsInv'
<1> DEFINE e == events[i]
<1>1. UNCHANGED <<account, calls, tokens, events, now, stale>> /\ processed' = processed \cup {i}
  BY DEF Deliver
<1>2. PlanInv' /\ NoNewSession
  <2>1. CASE UNCHANGED <<rows, sub, loaded, memory, session, half, canceledBy>>
    BY <1>1, <2>1, PlanUnchanged
  <2>2. CASE Effect(i)
    <3>1. CASE Buys(e) /\ ApplyPlan(e.user, e.plan, Until(e), e.status)
      BY <1>1, <3>1, EventType, ApplyPlanStep
    <3>2. CASE UNCHANGED <<rows, sub, loaded, memory, session, half, canceledBy>>
      BY <1>1, <3>2, PlanUnchanged
    <3>3. CASE CancelSubscription(e.user, i)
      BY <1>1, <3>3, EventType, CancelStep
    <3>4. CASE MarkPastDue(e.user)
      BY <1>1, <3>4, EventType, MarkPastDueStep
    <3> QED BY <2>2, <3>1, <3>2, <3>3, <3>4 DEF Effect
  <2> QED BY <2>1, <2>2 DEF Deliver
<1>3. i \notin processed /\ i \in 1..MaxEvents /\ i \in 1..Len(events)
  BY EventType DEF Deliver, Fresh
<1>4. applied' = applied \/ applied' = [applied EXCEPT ![i] = applied[i] + 1]
  BY DEF Deliver
<1>5. /\ applied \in [1..MaxEvents -> Nat]
      /\ \A j \in 1..MaxEvents : applied[j] <= 1 /\ (applied[j] = 1 => j \in processed)
  BY DEF AccountsInv, TypeOK, AppliedOnce
<1>6. applied[i] = 0
  BY <1>3, <1>5
<1>7. applied' \in [1..MaxEvents -> Nat] /\ AppliedOnce'
  <2>1. CASE applied' = applied
    BY <1>1, <1>5, <2>1 DEF AppliedOnce
  <2>2. CASE applied' = [applied EXCEPT ![i] = applied[i] + 1]
    <3>1. applied' \in [1..MaxEvents -> Nat] /\ applied'[i] = 1
          /\ \A j \in 1..MaxEvents : j # i => applied'[j] = applied[j]
      BY <1>3, <1>5, <1>6, <2>2
    <3> QED BY <1>1, <1>5, <3>1 DEF AppliedOnce
  <2> QED BY <1>4, <2>1, <2>2
<1>8. RestTypes'
  BY <1>1, <1>3, <1>7 DEF RestTypes, AccountsInv, TypeOK
<1>9. SuspendedAreOut'
  BY <1>1, <1>2, StayOut DEF PlanInv, PlanTypes
<1> QED BY <1>2, <1>7, <1>8, <1>9, NextParts

(* A rollback: the map changes, the table does not, and the user is stale. *)
LEMMA RollBackStep ==
  ASSUME AccountsInv, NEW i \in DOMAIN events, RollBack(i)
  PROVE  AccountsInv'
<1> DEFINE u == events[i].user
<1>1. u \in Users
  BY EventType
<1>2. UNCHANGED <<account, rows, sub, processed, calls, tokens, events, now, half, applied, canceledBy>>
      /\ stale' = stale \cup {u}
  BY DEF RollBack, store
<1>3. PICK G \in SUBSET Entitlements : ReplaceInMemory(u, G)
  <2>1. {} \in SUBSET Entitlements
    OBVIOUS
  <2>2. Grants(events[i].plan, Until(events[i])) \in SUBSET Entitlements
    BY EventType, GrantsType
  <2> QED BY <2>1, <2>2 DEF RollBack
<1> HIDE DEF u
<1>4. TypeOK /\ UnloadedIsEmpty /\ OtherWasGranted /\ MemoryAgreesWithRows
      /\ AccessFollowsPlan /\ CanceledIsOver
  BY DEF AccountsInv
<1>5. PlanTypes' /\ UnloadedIsEmpty' /\ OtherWasGranted' /\ NoNewSession
  BY <1>1, <1>2, <1>3, <1>4, MemoryStep DEF PlanTypes, NoNewSession, TypeOK
<1>6. MemoryAgreesWithRows'
  <2>1. SUFFICES ASSUME NEW v \in loaded', v \notin stale'
                 PROVE  Active(memory'[v]) = Active(rows'[v])
    BY <1>2 DEF MemoryAgreesWithRows, Active
  <2>2. v # u /\ v \notin stale
    BY <1>2, <2>1
  <2>3. v \in loaded /\ v \in Users /\ memory'[v] = memory[v]
    BY <1>1, <1>2, <1>3, <1>4, <2>1, <2>2, MemoryStep DEF TypeOK
  <2> QED BY <1>2, <1>4, <2>2, <2>3 DEF MemoryAgreesWithRows
<1>7. CanceledIsOver' /\ AccessFollowsPlan'
  BY <1>2, <1>4 DEF CanceledIsOver, AccessFollowsPlan, InForce, Active
<1>8. RestTypes'
  BY <1>1, <1>2 DEF RestTypes, AccountsInv, TypeOK
<1>9. SuspendedAreOut' /\ AppliedOnce'
  BY <1>2, <1>5, StayOut DEF PlanTypes, AppliedOnce, AccountsInv
<1> QED BY <1>5, <1>6, <1>7, <1>8, <1>9, NextParts DEF PlanInv

LEMMA RegisterStep ==
  ASSUME AccountsInv, NEW u \in Users, Register(u)
  PROVE  AccountsInv'
<1>1. UNCHANGED <<processed, calls, events, now, stale, applied>>
      /\ account' = [account EXCEPT ![u] = "active"] /\ tokens' = tokens \cup {u}
      /\ ApplyPlan(u, FreePlan, now + Period, "active")
  BY DEF Register
<1>2. FreePlan \in Plans /\ now + Period \in Nat
  BY AccountsAssumption DEF Plans, AccountsInv, TypeOK
<1>3. PlanInv' /\ NoNewSession
  BY <1>1, <1>2, ApplyPlanStep
<1>4. RestTypes'
  BY <1>1 DEF RestTypes, AccountsInv, TypeOK
<1>5. SuspendedAreOut' /\ AppliedOnce'
  <2>1. \A v \in Users : account'[v] = "suspended" => account[v] = "suspended"
    BY <1>1 DEF AccountsInv, TypeOK
  <2> QED BY <1>1, <1>3, <2>1, StayOut DEF PlanInv, PlanTypes, AppliedOnce, AccountsInv
<1> QED BY <1>3, <1>4, <1>5, NextParts

LEMMA LoginStep ==
  ASSUME AccountsInv, NEW u \in Users, Login(u)
  PROVE  AccountsInv'
<1>1. UNCHANGED <<account, processed, calls, events, now, stale, applied>> /\ tokens' = tokens \cup {u}
  BY DEF Login
<1>2. PlanInv' /\ NoNewSession
  <2>1. CASE UNCHANGED <<rows, sub, loaded, memory, session, half, canceledBy>>
    BY <1>1, <2>1, PlanUnchanged
  <2>2. CASE ApplyPlan(u, TopPlan, now + Period, "active")
    <3>1. TopPlan \in Plans /\ now + Period \in Nat
      BY AccountsAssumption DEF Plans, AccountsInv, TypeOK
    <3> QED BY <1>1, <2>2, <3>1, ApplyPlanStep
  <2> QED BY <2>1, <2>2 DEF Login
<1>3. RestTypes'
  BY <1>1 DEF RestTypes, AccountsInv, TypeOK
<1>4. SuspendedAreOut' /\ AppliedOnce'
  BY <1>1, <1>2, StayOut DEF PlanInv, PlanTypes, AppliedOnce, AccountsInv
<1> QED BY <1>2, <1>3, <1>4, NextParts

LEMMA AdminPlanStep ==
  ASSUME AccountsInv, NEW c \in calls, NEW p \in Plans, NEW t \in Ends, AdminPlan(c, p, t)
  PROVE  AccountsInv'
<1>1. UNCHANGED <<account, processed, tokens, events, now, stale, applied>>
      /\ calls' = calls \ {c} /\ ApplyPlan(c.user, p, t, "active")
  BY DEF AdminPlan
<1>2. c.user \in Users /\ t \in Nat
  BY AccountsAssumption DEF AccountsInv, TypeOK, Calls, Ends
<1>3. PlanInv' /\ NoNewSession
  BY <1>1, <1>2, ApplyPlanStep
<1>4. RestTypes'
  BY <1>1 DEF RestTypes, AccountsInv, TypeOK
<1>5. SuspendedAreOut' /\ AppliedOnce'
  BY <1>1, <1>3, StayOut DEF PlanInv, PlanTypes, AppliedOnce, AccountsInv
<1> QED BY <1>3, <1>4, <1>5, NextParts

LEMMA CallStep ==
  ASSUME AccountsInv, NEW u \in Users, NEW op \in {"plan", "status"}, AdminCall(u, op)
  PROVE  AccountsInv'
<1>1. UNCHANGED <<account, rows, sub, processed, loaded, memory, session, tokens, events, now,
                  stale, half, applied, canceledBy>>
      /\ calls' = calls \cup {[user |-> u, op |-> op]}
  BY DEF AdminCall, store, history
<1>2. PlanInv'
  BY <1>1, PlanUnchanged
<1>3. RestTypes'
  BY <1>1 DEF RestTypes, AccountsInv, TypeOK, Calls
<1>4. SuspendedAreOut' /\ AppliedOnce'
  BY <1>1 DEF AccountsInv, SuspendedAreOut, AppliedOnce
<1> QED BY <1>2, <1>3, <1>4, NextParts

(* Connections that close, or are dropped, or move to a view they are granted. *)
LEMMA SessionsStep ==
  ASSUME AccountsInv, session' \in [Sessions -> Views \cup {None}], NoNewSession,
         \A s \in Sessions : session'[s] # None /\ session'[s].symbol = "other" =>
           session[s].symbol = "other",
         UNCHANGED <<rows, sub, loaded, memory, half, canceledBy, now, stale>>
  PROVE  PlanInv'
<1>1. PlanTypes'
  BY DEF AccountsInv, TypeOK, PlanTypes
<1>2. CanceledIsOver' /\ UnloadedIsEmpty'
  BY DEF AccountsInv, CanceledIsOver, UnloadedIsEmpty
<1>3. OtherWasGranted'
  BY DEF AccountsInv, OtherWasGranted, NoNewSession
<1>4. MemoryAgreesWithRows' /\ AccessFollowsPlan'
  BY DEF AccountsInv, MemoryAgreesWithRows, AccessFollowsPlan, InForce, Active
<1> QED BY <1>1, <1>2, <1>3, <1>4 DEF PlanInv

LEMMA DroppedViews ==
  ASSUME AccountsInv, NEW u \in Users, session' = Dropped(u)
  PROVE  /\ session' \in [Sessions -> Views \cup {None}] /\ NoNewSession
         /\ \A s \in Sessions : session'[s] # None =>
              session'[s] = session[s] /\ session[s].user # u
BY DEF Dropped, OfUser, AccountsInv, TypeOK, NoNewSession

LEMMA SuspendStep ==
  ASSUME AccountsInv, NEW c \in calls, Suspend(c)
  PROVE  AccountsInv'
<1>1. /\ UNCHANGED <<rows, sub, processed, loaded, memory, tokens, events, now,
                     stale, half, applied, canceledBy>>
      /\ calls' = calls \ {c} /\ account' = [account EXCEPT ![c.user] = "suspended"]
      /\ session' = Dropped(c.user)
  BY DEF Suspend, history
<1>2. c.user \in Users
  BY DEF AccountsInv, TypeOK, Calls
<1>3. PlanInv'
  BY <1>1, <1>2, DroppedViews, SessionsStep
<1>4. RestTypes'
  BY <1>1 DEF RestTypes, AccountsInv, TypeOK
<1>5. SuspendedAreOut'
  <2>1. SUFFICES ASSUME NEW s \in Sessions, session'[s] # None
                 PROVE  account'[session'[s].user] # "suspended"
    BY DEF SuspendedAreOut
  <2>2. session'[s] = session[s] /\ session[s].user # c.user
    BY <1>1, <1>2, <2>1, DroppedViews
  <2>3. session[s].user \in Users
    BY <2>1, <2>2 DEF AccountsInv, TypeOK, Views
  <2> QED BY <1>1, <2>1, <2>2, <2>3 DEF AccountsInv, TypeOK, SuspendedAreOut
<1>6. AppliedOnce'
  BY <1>1 DEF AccountsInv, AppliedOnce
<1> QED BY <1>3, <1>4, <1>5, <1>6, NextParts

LEMMA ReactivateStep ==
  ASSUME AccountsInv, NEW c \in calls, Reactivate(c)
  PROVE  AccountsInv'
<1>1. /\ UNCHANGED <<rows, sub, processed, loaded, memory, session, tokens, events, now,
                     stale, half, applied, canceledBy>>
      /\ calls' = calls \ {c} /\ account' = [account EXCEPT ![c.user] = "active"]
  BY DEF Reactivate, history
<1>2. PlanInv' /\ NoNewSession
  BY <1>1, PlanUnchanged
<1>3. RestTypes'
  BY <1>1 DEF RestTypes, AccountsInv, TypeOK
<1>4. SuspendedAreOut'
  <2>1. \A v \in Users : account'[v] = "suspended" => account[v] = "suspended"
    BY <1>1 DEF AccountsInv, TypeOK
  <2> QED BY <1>2, <2>1, StayOut DEF PlanInv, PlanTypes
<1>5. AppliedOnce'
  BY <1>1 DEF AccountsInv, AppliedOnce
<1> QED BY <1>2, <1>3, <1>4, <1>5, NextParts

LEMMA DeleteStep ==
  ASSUME AccountsInv, NEW u \in Users, AdminDelete(u)
  PROVE  AccountsInv'
<1>1. /\ UNCHANGED <<processed, calls, tokens, events, now, stale, applied>>
      /\ account' = [account EXCEPT ![u] = "none"]
      /\ rows' = [rows EXCEPT ![u] = {}] /\ sub' = [sub EXCEPT ![u] = None]
      /\ loaded' = loaded \ {u} /\ memory' = [memory EXCEPT ![u] = {}]
      /\ session' = Dropped(u)
      /\ half' = half \ {u} /\ canceledBy' = [canceledBy EXCEPT ![u] = 0]
  BY DEF AdminDelete
<1>2. TypeOK /\ UnloadedIsEmpty /\ OtherWasGranted /\ MemoryAgreesWithRows
      /\ AccessFollowsPlan /\ CanceledIsOver
  BY DEF AccountsInv
<1>3. /\ rows'[u] = {} /\ memory'[u] = {} /\ sub'[u] = None
      /\ \A v \in Users \ {u} : rows'[v] = rows[v] /\ memory'[v] = memory[v] /\ sub'[v] = sub[v]
  BY <1>1, <1>2 DEF TypeOK
<1>4. PlanTypes' /\ NoNewSession
  BY <1>1, <1>2, DroppedViews DEF TypeOK, PlanTypes
<1>5. CanceledIsOver' /\ UnloadedIsEmpty'
  BY <1>1, <1>2, <1>3 DEF CanceledIsOver, UnloadedIsEmpty
<1>6. OtherWasGranted'
  <2>1. SUFFICES ASSUME NEW s \in Sessions, session'[s] # None, session'[s].symbol = "other"
                 PROVE  memory'[session'[s].user] # {}
    BY DEF OtherWasGranted
  <2>2. session'[s] = session[s] /\ session[s].user # u
    BY <1>1, <2>1, DroppedViews
  <2>3. session[s].user \in Users
    BY <1>2, <2>1, <2>2 DEF TypeOK, Views
  <2> QED BY <1>2, <1>3, <2>1, <2>2, <2>3 DEF OtherWasGranted
<1>7. MemoryAgreesWithRows'
  BY <1>1, <1>2, <1>3 DEF MemoryAgreesWithRows, Active, TypeOK
<1>8. AccessFollowsPlan'
  <2>1. SUFFICES ASSUME NEW v \in Users, v \notin half'
                 PROVE  Active(rows'[v]) = (IF InForce(v)' THEN Grants(sub'[v].plan, sub'[v].end) ELSE {})
    BY <1>1 DEF AccessFollowsPlan, Active
  <2>2. CASE v = u
    BY <1>3, <2>2 DEF InForce, Active
  <2>3. CASE v # u
    <3>1. InForce(v)' <=> InForce(v)
      BY <1>1, <1>3, <2>3 DEF InForce
    <3> QED BY <1>1, <1>2, <1>3, <2>1, <2>3, <3>1 DEF AccessFollowsPlan
  <2> QED BY <2>2, <2>3
<1>9. RestTypes'
  BY <1>1 DEF RestTypes, AccountsInv, TypeOK
<1>10. SuspendedAreOut'
  <2>1. \A v \in Users : account'[v] = "suspended" => account[v] = "suspended"
    BY <1>1 DEF AccountsInv, TypeOK
  <2> QED BY <1>4, <2>1, StayOut DEF PlanTypes
<1>11. AppliedOnce'
  BY <1>1 DEF AccountsInv, AppliedOnce
<1> QED BY <1>4, <1>5, <1>6, <1>7, <1>8, <1>9, <1>10, <1>11, NextParts DEF PlanInv

LEMMA ConnectStep ==
  ASSUME AccountsInv, NEW s \in Sessions, NEW u \in Users, Connect(s, u)
  PROVE  AccountsInv'
<1>1. /\ UNCHANGED <<account, rows, sub, processed, loaded, memory, calls, tokens, events, now,
                     stale, half, applied, canceledBy>>
      /\ session' = [session EXCEPT ![s] = [user |-> u, symbol |-> "default"]]
      /\ account[u] # "suspended"
  BY DEF Connect, store, history, Welcomes
<1>2. /\ session' \in [Sessions -> Views \cup {None}]
      /\ session'[s] = [user |-> u, symbol |-> "default"]
      /\ \A q \in Sessions \ {s} : session'[q] = session[q]
  BY <1>1 DEF AccountsInv, TypeOK, Views
<1>3. PlanTypes'
  BY <1>1, <1>2 DEF AccountsInv, TypeOK, PlanTypes
<1>4. CanceledIsOver' /\ UnloadedIsEmpty'
  BY <1>1 DEF AccountsInv, CanceledIsOver, UnloadedIsEmpty
<1>5. OtherWasGranted' /\ SuspendedAreOut'
  BY <1>1, <1>2 DEF AccountsInv, OtherWasGranted, SuspendedAreOut
<1>6. MemoryAgreesWithRows' /\ AccessFollowsPlan'
  BY <1>1 DEF AccountsInv, MemoryAgreesWithRows, AccessFollowsPlan, InForce, Active
<1>7. RestTypes' /\ AppliedOnce'
  BY <1>1 DEF RestTypes, AccountsInv, TypeOK, AppliedOnce
<1> QED BY <1>3, <1>4, <1>5, <1>6, <1>7, NextParts DEF PlanInv

(* Loading the entitlements of a user changes nothing that is valid. *)
LEMMA SubscribeStep ==
  ASSUME AccountsInv, NEW s \in Sessions, NEW y \in {"default", "other"}, Subscribe(s, y)
  PROVE  AccountsInv'
<1> DEFINE u == session[s].user
<1>1. /\ UNCHANGED <<account, rows, sub, processed, calls, tokens, events, now,
                     stale, half, applied, canceledBy>>
      /\ session[s] # None
      /\ session' = IF Authorized(u) THEN [session EXCEPT ![s].symbol = y] ELSE session
      /\ \/ account[u] = "suspended" /\ UNCHANGED <<loaded, memory>>
         \/ loaded' = loaded \cup {u} /\ memory' = [memory EXCEPT ![u] = Loaded(u)]
  BY DEF Subscribe, store, history
<1>2. u \in Users /\ session[s] \in Views
  BY <1>1 DEF AccountsInv, TypeOK, Views
<1>3. /\ session' \in [Sessions -> Views \cup {None}] /\ NoNewSession
      /\ \A q \in Sessions : q # s \/ ~Authorized(u) => session'[q] = session[q]
  <2>1. CASE ~Authorized(u)
    BY <1>1, <2>1 DEF AccountsInv, TypeOK, NoNewSession
  <2>2. CASE Authorized(u)
    <3>1. [session[s] EXCEPT !.symbol = y] \in Views /\ [session[s] EXCEPT !.symbol = y].user = u
      BY <1>2 DEF Views
    <3> QED BY <1>1, <1>2, <2>2, <3>1 DEF AccountsInv, TypeOK, NoNewSession
  <2> QED BY <2>1, <2>2
<1>4. Loaded(u) \in SUBSET Entitlements
  BY <1>2, LoadedType DEF AccountsInv
<1>5. /\ loaded' \subseteq Users /\ memory' \in [Users -> SUBSET Entitlements]
      /\ \A v \in Users \ {u} : memory'[v] = memory[v] /\ (v \in loaded' <=> v \in loaded)
      /\ memory'[u] # memory[u] \/ u \in loaded' \ loaded => memory'[u] = Loaded(u)
      /\ loaded \subseteq loaded'
  BY <1>1, <1>2, <1>4 DEF AccountsInv, TypeOK
<1>6. PlanTypes'
  BY <1>1, <1>3, <1>5 DEF AccountsInv, TypeOK, PlanTypes
<1>7. CanceledIsOver' /\ AccessFollowsPlan'
  BY <1>1 DEF AccountsInv, CanceledIsOver, AccessFollowsPlan, InForce, Active
<1>8. UnloadedIsEmpty'
  BY <1>1, <1>2, <1>5 DEF AccountsInv, UnloadedIsEmpty, Loaded
<1>9. MemoryAgreesWithRows'
  <2>1. SUFFICES ASSUME NEW v \in loaded', v \notin stale
                 PROVE  Active(memory'[v]) = Active(rows[v])
    BY <1>1 DEF MemoryAgreesWithRows, Active
  <2>2. CASE v \in loaded /\ memory'[v] = memory[v]
    BY <2>1, <2>2 DEF AccountsInv, MemoryAgreesWithRows
  <2>3. CASE ~(v \in loaded /\ memory'[v] = memory[v])
    <3>1. v = u /\ memory'[u] = Loaded(u)
      BY <1>5, <2>1, <2>3
    <3> QED BY <2>1, <3>1 DEF AccountsInv, MemoryAgreesWithRows, Loaded, Active
  <2> QED BY <2>2, <2>3
<1>10. OtherWasGranted'
  <2>1. SUFFICES ASSUME NEW q \in Sessions, session'[q] # None, session'[q].symbol = "other"
                 PROVE  memory'[session'[q].user] # {}
    BY DEF OtherWasGranted
  <2>2. session[q] # None /\ session'[q].user = session[q].user /\ session[q].user \in Users
    BY <1>3, <2>1 DEF NoNewSession, AccountsInv, TypeOK, Views
  <2>3. CASE q # s \/ ~Authorized(u)
    <3>1. memory[session[q].user] # {}
      BY <1>3, <2>1, <2>3 DEF AccountsInv, OtherWasGranted
    <3>2. CASE session[q].user # u
      BY <1>5, <2>2, <3>1, <3>2
    <3>3. CASE session[q].user = u
      <4>1. u \in loaded /\ Loaded(u) = memory[u]
        BY <2>2, <3>1, <3>3 DEF AccountsInv, UnloadedIsEmpty, Loaded
      <4> QED BY <1>5, <2>2, <3>1, <3>3, <4>1
    <3> QED BY <3>2, <3>3
  <2>4. CASE q = s /\ Authorized(u)
    <3>1. account[u] # "suspended" /\ Loaded(u) # {}
      BY <2>4 DEF Authorized, Active
    <3>2. memory'[u] = Loaded(u)
      BY <1>1, <1>2, <3>1 DEF AccountsInv, TypeOK
    <3> QED BY <2>2, <2>4, <3>1, <3>2
  <2> QED BY <2>3, <2>4
<1>11. RestTypes' /\ AppliedOnce'
  BY <1>1 DEF RestTypes, AccountsInv, TypeOK, AppliedOnce
<1>12. SuspendedAreOut'
  BY <1>1, <1>3, StayOut
<1> QED BY <1>6, <1>7, <1>8, <1>9, <1>10, <1>11, <1>12, NextParts DEF PlanInv

LEMMA CloseStep ==
  ASSUME AccountsInv, NEW s \in Sessions, Close(s)
  PROVE  AccountsInv'
<1>1. /\ UNCHANGED <<account, rows, sub, processed, loaded, memory, calls, tokens, events, now,
                     stale, half, applied, canceledBy>>
      /\ session' = [session EXCEPT ![s] = None]
  BY DEF Close, store, history
<1>2. /\ session' \in [Sessions -> Views \cup {None}] /\ NoNewSession
      /\ \A q \in Sessions : session'[q] # None => session'[q] = session[q]
  BY <1>1 DEF AccountsInv, TypeOK, NoNewSession
<1>3. PlanInv'
  BY <1>1, <1>2, SessionsStep
<1>4. RestTypes' /\ AppliedOnce'
  BY <1>1 DEF RestTypes, AccountsInv, TypeOK, AppliedOnce
<1>5. SuspendedAreOut'
  BY <1>1, <1>2, StayOut
<1> QED BY <1>3, <1>4, <1>5, NextParts

(* The process ends: what is left is on disk, and nobody is connected. *)
LEMMA ForgottenStep ==
  ASSUME AccountsInv, Forgotten, UNCHANGED <<sub, processed, tokens, events, now, applied, canceledBy>>,
         account' \in [Users -> {"none", "active", "suspended"}],
         rows' \in [Users -> SUBSET Entitlements], half' \subseteq Users,
         \A v \in Users \ half' : v \notin half /\ rows'[v] = rows[v]
  PROVE  AccountsInv'
<1>1. /\ loaded' = {} /\ memory' = [u \in Users |-> {}] /\ session' = [s \in Sessions |-> None]
      /\ calls' = {} /\ stale' = {}
  BY DEF Forgotten
<1>2. PlanTypes'
  BY <1>1 DEF AccountsInv, TypeOK, PlanTypes
<1>3. CanceledIsOver' /\ UnloadedIsEmpty' /\ OtherWasGranted' /\ MemoryAgreesWithRows'
      /\ SuspendedAreOut' /\ AppliedOnce'
  BY <1>1 DEF AccountsInv, CanceledIsOver, UnloadedIsEmpty, OtherWasGranted, MemoryAgreesWithRows,
     SuspendedAreOut, AppliedOnce
<1>4. AccessFollowsPlan'
  BY DEF AccountsInv, AccessFollowsPlan, InForce, Active
<1>5. RestTypes'
  BY <1>1 DEF RestTypes, AccountsInv, TypeOK
<1> QED BY <1>2, <1>3, <1>4, <1>5, NextParts DEF PlanInv

LEMMA CrashStep ==
  ASSUME AccountsInv, NEW u \in Users, NEW p \in Plans, NEW t \in Ends, CrashInPlan(u, p, t)
  PROVE  AccountsInv'
<1>1. UNCHANGED <<sub, processed, tokens, events, now, applied, canceledBy>> /\ Forgotten
      /\ half' = half \cup {u}
  BY DEF CrashInPlan
<1>2. account' \in [Users -> {"none", "active", "suspended"}]
  BY DEF CrashInPlan, AccountsInv, TypeOK
<1>3. Grants(p, t) \in SUBSET Entitlements
  <2>1. t \in Nat
    BY AccountsAssumption DEF AccountsInv, TypeOK, Ends
  <2> QED BY <2>1, GrantsType
<1>4. PICK E \in HalfDone(u, Grants(p, t)) : rows' = [rows EXCEPT ![u] = E]
  BY DEF CrashInPlan
<1>5. E \in SUBSET Entitlements
  <2>1. rows[u] \in SUBSET Entitlements /\ Kept(u) \in SUBSET Entitlements
    BY LoadedType DEF AccountsInv, TypeOK
  <2>2. \A k \in Scopes : With(Kept(u), {g \in Grants(p, t) : g.scope <= k})
                            \in SUBSET Entitlements
    BY <1>3, <2>1 DEF With
  <2> QED BY <1>4, <2>1, <2>2 DEF HalfDone
<1>6. rows' \in [Users -> SUBSET Entitlements] /\ \A v \in Users \ {u} : rows'[v] = rows[v]
  BY <1>4, <1>5 DEF AccountsInv, TypeOK
<1>7. half' \subseteq Users /\ \A v \in Users \ half' : v \notin half /\ rows'[v] = rows[v]
  BY <1>1, <1>6 DEF AccountsInv, TypeOK
<1> QED BY <1>1, <1>2, <1>6, <1>7, ForgottenStep

LEMMA RestartStep ==
  ASSUME AccountsInv, Restart
  PROVE  AccountsInv'
<1>1. UNCHANGED <<account, rows, sub, processed, tokens, events, now, half, applied, canceledBy>> /\ Forgotten
  BY DEF Restart, store
<1> QED BY <1>1, ForgottenStep DEF AccountsInv, TypeOK

(* Time takes entitlements away, from map, table and plan alike. *)
LEMMA TickStep ==
  ASSUME AccountsInv, Tick
  PROVE  AccountsInv'
<1>1. UNCHANGED <<account, rows, sub, processed, loaded, memory, session, calls, tokens, events,
                  stale, half, applied, canceledBy>>
      /\ now' = now + 1
  BY DEF Tick, store, process, history
<1>2. now \in Nat
  BY DEF AccountsInv, TypeOK
<1>3. \A E \in SUBSET Entitlements : Active(E)' = {e \in Active(E) : e.until > now + 1}
  BY <1>1, <1>2 DEF Active, Entitlements
<1>4. PlanTypes' /\ RestTypes'
  BY <1>1, <1>2 DEF AccountsInv, TypeOK, PlanTypes, RestTypes
<1>5. CanceledIsOver'
  BY <1>1, <1>2 DEF AccountsInv, CanceledIsOver, TypeOK, Subs
<1>6. UnloadedIsEmpty' /\ OtherWasGranted' /\ SuspendedAreOut' /\ AppliedOnce'
  BY <1>1 DEF AccountsInv, UnloadedIsEmpty, OtherWasGranted, SuspendedAreOut, AppliedOnce
<1>7. MemoryAgreesWithRows'
  <2>1. SUFFICES ASSUME NEW v \in loaded, v \notin stale
                 PROVE  {e \in memory[v] : e.until > now + 1} = {e \in rows[v] : e.until > now + 1}
    BY <1>1 DEF MemoryAgreesWithRows, Active
  <2>2. v \in Users /\ Active(memory[v]) = Active(rows[v])
    BY <2>1 DEF AccountsInv, TypeOK, MemoryAgreesWithRows
  <2>3. \A e \in memory[v] \cup rows[v] : e.until \in Nat
    BY <2>2 DEF AccountsInv, TypeOK, Entitlements
  <2>4. \A e \in memory[v] \cup rows[v] : e.until > now + 1 => e.until > now
    BY <1>2, <2>3
  <2> QED BY <2>2, <2>4 DEF Active
<1>8. AccessFollowsPlan'
  <2>1. SUFFICES ASSUME NEW v \in Users, v \notin half
                 PROVE  {e \in rows[v] : e.until > now + 1}
                        = (IF InForce(v)' THEN Grants(sub[v].plan, sub[v].end) ELSE {})
    BY <1>1 DEF AccessFollowsPlan, Active
  <2>2. Active(rows[v]) = IF InForce(v) THEN Grants(sub[v].plan, sub[v].end) ELSE {}
    BY <2>1 DEF AccountsInv, AccessFollowsPlan
  <2>3. \A e \in rows[v] : e.until \in Nat
    BY DEF AccountsInv, TypeOK, Entitlements
  <2>4. {e \in rows[v] : e.until > now + 1} = {e \in Active(rows[v]) : e.until > now + 1}
    <3>1. \A e \in rows[v] : e.until > now + 1 => e.until > now
      BY <1>2, <2>3
    <3> QED BY <3>1 DEF Active
  <2>5. CASE ~InForce(v)
    <3>1. ~InForce(v)'
      BY <1>1, <1>2, <2>5 DEF InForce, AccountsInv, TypeOK, Subs
    <3> QED BY <2>2, <2>4, <2>5, <3>1
  <2>6. CASE InForce(v)
    <3>1. InForce(v)' <=> sub[v].end > now + 1
      BY <1>1, <2>6 DEF InForce
    <3>2. \A e \in Grants(sub[v].plan, sub[v].end) : e.until = sub[v].end
      BY DEF Grants
    <3> QED BY <2>2, <2>4, <2>6, <3>1, <3>2
  <2> QED BY <2>5, <2>6
<1> QED BY <1>4, <1>5, <1>6, <1>7, <1>8, NextParts DEF PlanInv

LEMMA AccountsInit ==
  ASSUME Init
  PROVE  AccountsInv
<1>1. TypeOK /\ Len(events) <= MaxEvents
  BY AccountsAssumption DEF Init, TypeOK
<1>2. CanceledIsOver /\ UnloadedIsEmpty /\ MemoryAgreesWithRows /\ SuspendedAreOut
      /\ OtherWasGranted /\ AppliedOnce
  BY DEF Init, CanceledIsOver, UnloadedIsEmpty, MemoryAgreesWithRows, SuspendedAreOut,
     OtherWasGranted, AppliedOnce
<1>3. AccessFollowsPlan
  BY DEF Init, AccessFollowsPlan, InForce, Active
<1> QED BY <1>1, <1>2, <1>3 DEF AccountsInv

LEMMA AccountsNext ==
  ASSUME AccountsInv, [Next]_vars
  PROVE  AccountsInv'
<1>1. CASE Next
  BY <1>1, SendStep, DeliverStep, RollBackStep, RegisterStep, LoginStep, DeleteStep, CallStep,
     SuspendStep, ReactivateStep, AdminPlanStep, CrashStep, ConnectStep, SubscribeStep, CloseStep,
     RestartStep, TickStep DEF Next
<1>2. CASE UNCHANGED vars
  <2>1. UNCHANGED <<account, rows, sub, processed, loaded, memory, session, calls, tokens, events,
                    now, stale, half, applied, canceledBy>>
    BY <1>2 DEF vars, store, process, history
  <2>2. PlanInv'
    BY <2>1, PlanUnchanged
  <2>3. RestTypes' /\ SuspendedAreOut' /\ AppliedOnce'
    BY <2>1 DEF AccountsInv, TypeOK, RestTypes, SuspendedAreOut, AppliedOnce
  <2> QED BY <2>2, <2>3, NextParts
<1> QED BY <1>1, <1>2

(* The invariant of the module holds whatever the number of users, connections and events, the  *)
(* plans, the scopes and the periods.                                                            *)
THEOREM AccountsCorrect == Spec => []AccountsInv
BY AccountsInit, AccountsNext, PTL DEF Spec

(* The map of EntitlementService never says anything else of what is valid than the table, for  *)
(* any order of grants, revocations, late loads, restarts and expiries; rollbacks apart.         *)
THEOREM MemoryIsRight == Spec => []MemoryAgreesWithRows
BY AccountsCorrect, PTL DEF AccountsInv

(* Whatever order purchases, renewals, deletions, failed payments and operators' changes of a   *)
(* plan come in, what a user can see is the plan in force; crashes inside applyPlan apart.       *)
THEOREM AccessIsPlan == Spec => []AccessFollowsPlan
BY AccountsCorrect, PTL DEF AccountsInv

(* A view that needs an entitlement is of a user who was granted one that was not revoked since. *)
THEOREM ViewsWereGranted == Spec => []OtherWasGranted
BY AccountsCorrect, PTL DEF AccountsInv

(* A suspended account has no open connection, however requests and connections interleave.     *)
THEOREM SuspendedHaveNoSession == Spec => []SuspendedAreOut
BY AccountsCorrect, PTL DEF AccountsInv

(* An event of Stripe changes its account at most once.                                         *)
THEOREM EventsApplyOnce == Spec => []AppliedOnce
BY AccountsCorrect, PTL DEF AccountsInv
=============================================================================
