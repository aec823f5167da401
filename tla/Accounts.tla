------------------------------- MODULE Accounts -------------------------------
(***************************************************************************)
(* Who may see what: accounts, plans and entitlements (auth/*, billing/*,  *)
(* the tables of marketDataStore.ts and the routes of index.ts).           *)
(*                                                                         *)
(* A plan is written down twice: as a row of subscriptions and as          *)
(* entitlements, one per provider scope, all of them kept in SQLite and in *)
(* a map of EntitlementService that is read instead of the table once a    *)
(* user is in it.  Stripe tells of purchases in events that arrive late,   *)
(* twice, in any order, or not at all; operators change plans by hand.     *)
(*                                                                         *)
(* A handler of the server is one step between two awaits.  Every pattern  *)
(* of the catalog is "*" and nobody but applyPlan grants, so an            *)
(* entitlement is the plan, the index in its id and its end.  A write of a *)
(* plan is taken to succeed unless the transaction around it fails or the  *)
(* process ends; passwords, roles and the data types are left out.         *)
(***************************************************************************)
EXTENDS Nothing, Naturals, Sequences, FiniteSets

CONSTANTS
  Users, Sessions,
  FreePlan, PaidPlans,
  TopPlan,      (* "elite", what ADMIN_SECRET promotes to.                 *)
  ScopeCount,   (* How many entitlements a plan grants: providerScope().   *)
  AuthRequired, (* AUTH_REQUIRED=1.                                        *)
  MaxPerUser,   (* MAX_SESSIONS_PER_USER.                                  *)
  Period,       (* DEFAULT_PERIOD_MS, and the period Stripe bills.         *)
  MaxTime, MaxEvents, MaxCalls  (* Bounds.                                 *)

Plans  == PaidPlans \cup {FreePlan}
Scopes == 1..ScopeCount

ASSUME AccountsAssumption ==
  /\ TopPlan \in PaidPlans
  /\ ScopeCount \in Nat
  /\ AuthRequired \in BOOLEAN
  /\ MaxPerUser \in Nat /\ Period \in Nat \ {0}
  /\ MaxTime \in Nat /\ MaxEvents \in Nat /\ MaxCalls \in Nat

Entitlements == [plan : Plans, scope : Scopes, until : Nat]
Statuses     == {"active", "past_due", "canceled"}
Subs         == [plan : Plans, status : Statuses, end : Nat, updatedAt : Nat]
Events       == [type : {"checkout", "updated", "deleted", "failed"}, user : Users,
                 plan : PaidPlans, status : {"active", "past_due"},
                 end : Nat \cup {None}, created : Nat]
Views        == [user : Users, symbol : {"default", "other"}]
Calls        == [user : Users, op : {"plan", "status"}]

ASSUME NoneAssumption ==
  None \notin Nat /\ None \notin Subs /\ None \notin Views

VARIABLES
  account,    (* users: "none", "active" or "suspended".                   *)
  rows,       (* entitlements, the table.                                  *)
  sub,        (* subscriptions: a row or None.                             *)
  processed,  (* webhook_events: the events on record.                     *)
  loaded,     (* The users in the map of EntitlementService, and          *)
  memory,     (* what it has of them.                                      *)
  session,    (* The connections that are not closing: a view or None.     *)
  tokens,     (* The users that were given a token.                        *)
  calls,      (* Admin requests whose user was found and whose body is being read. *)
  events,     (* What Stripe sent, in order.                               *)
  now,
  stale,      (* History: users whose memory kept what a rollback undid.   *)
  half,       (* History: users whose rows were left between two plans.    *)
  applied,    (* History: how often each event was acted on.               *)
  canceledBy  (* History: the event that canceled the subscription, or 0.  *)

store   == <<account, rows, sub, processed>>
process == <<loaded, memory, session, calls>>
history == <<stale, half, applied, canceledBy>>
vars    == <<store, process, tokens, events, now, history>>

TypeOK ==
  /\ account \in [Users -> {"none", "active", "suspended"}]
  /\ rows \in [Users -> SUBSET Entitlements]
  /\ sub \in [Users -> Subs \cup {None}]
  /\ processed \subseteq 1..Len(events)
  /\ loaded \subseteq Users
  /\ memory \in [Users -> SUBSET Entitlements]
  /\ session \in [Sessions -> Views \cup {None}]
  /\ tokens \subseteq Users
  /\ calls \subseteq Calls
  /\ events \in Seq(Events)
  /\ now \in Nat
  /\ stale \subseteq Users /\ half \subseteq Users
  /\ applied \in [1..MaxEvents -> Nat]
  /\ canceledBy \in [Users -> Nat]

----------------------------------------------------------------------------
(* Entitlements. *)

Id(e)     == <<e.plan, e.scope>>
Ids(E)    == {Id(e) : e \in E}
Active(E) == {e \in E : e.until > now}

(* getUserEntitlements, before it filters: what the map has, or the rows that are still valid. *)
Loaded(u) == IF u \in loaded THEN memory[u] ELSE Active(rows[u])

(* What applyPlan and an immediate cancellation revoke. *)
Revoked(u) == Active(Loaded(u))

Grants(p, t) == {[plan |-> p, scope |-> k, until |-> t] : k \in Scopes}

(* grant replaces by id. *)
With(E, G) == {e \in E : Id(e) \notin Ids(G)} \cup G

(* revoke deletes by id. *)
Kept(u) == {e \in rows[u] : Id(e) \notin Ids(Revoked(u))}

(* The revocation listener: every entitlement of a plan affects every view of its user. *)
Told(u, lost) ==
  [s \in Sessions |->
     IF lost = {} \/ session[s] = None THEN session[s]
     ELSE IF session[s].user # u THEN session[s]
     ELSE IF ~AuthRequired /\ session[s].symbol = "other"
          THEN [session[s] EXCEPT !.symbol = "default"]
          ELSE None]

(* What revoking the plan of u and granting G does to the process ... *)
ReplaceInMemory(u, G) ==
  /\ loaded' = loaded \cup {u}
  /\ memory' = [memory EXCEPT ![u] = With(Loaded(u) \ Revoked(u), G)]
  /\ session' = Told(u, Revoked(u))

(* ... and to the table.  Only rows the process knew of are revoked. *)
ReplaceRows(u, G) ==
  /\ rows' = [rows EXCEPT ![u] = With(Kept(u), G)]
  /\ half' = IF u \in stale THEN half \cup {u} ELSE half \ {u}

ApplyPlan(u, p, t, status) ==
  /\ ReplaceInMemory(u, Grants(p, t))
  /\ ReplaceRows(u, Grants(p, t))
  /\ sub' = [sub EXCEPT ![u] = [plan |-> p, status |-> status, end |-> t, updatedAt |-> now]]
  /\ canceledBy' = [canceledBy EXCEPT ![u] = 0]

Canceled(b) == [b EXCEPT !.status = "canceled", !.end = now, !.updatedAt = now]

(* cancelSubscription(..., immediate) for the event i. *)
CancelSubscription(u, i) ==
  \/ /\ sub[u] = None
     /\ UNCHANGED <<rows, sub, loaded, memory, session, half, canceledBy>>
  \/ /\ sub[u] # None
     /\ sub' = [sub EXCEPT ![u] = Canceled(@)]
     /\ ReplaceInMemory(u, {})
     /\ ReplaceRows(u, {})
     /\ canceledBy' = [canceledBy EXCEPT ![u] = i]

----------------------------------------------------------------------------
(* Stripe. *)

(* Stripe bills a period from now, and does not tell its end at checkout.  Only of an update    *)
(* does the code look at the time it was created.                                               *)
Sendable ==
  {e \in [type : {"checkout", "updated", "deleted", "failed"}, user : Users, plan : PaidPlans,
          status : {"active", "past_due"}, end : {now + Period, None}, created : {0, now}] :
     /\ e.created = IF e.type = "updated" THEN now ELSE 0
     /\ e.type = "checkout" => e.end = None /\ e.status = "active"
     /\ e.status = "past_due" => e.end # None
     /\ e.type \in {"deleted", "failed"} => e.end = None /\ e.status = "active" /\ e.plan = TopPlan}

Send ==
  /\ Len(events) < MaxEvents
  /\ \E e \in Sendable : account[e.user] # "none" /\ events' = Append(events, e)
  /\ UNCHANGED <<store, process, tokens, now, history>>

(* The guard of customer.subscription.updated. *)
StaleUpdate(e) ==
  /\ sub[e.user] # None
  /\ sub[e.user].status = "canceled"
  /\ e.created <= sub[e.user].updatedAt
  /\ e.end # None => e.end <= sub[e.user].end

Buys(e) ==
  \/ e.type = "checkout"
  \/ e.type = "updated" /\ ~StaleUpdate(e)

Until(e) == IF e.end = None THEN now + Period ELSE e.end

(* A fault: the table of the events is not looked at. *)
AlwaysFresh(i) == TRUE

Fresh(i) == i \notin processed

MarkPastDue(u) ==
  /\ sub' = IF sub[u] = None THEN sub
            ELSE [sub EXCEPT ![u] = [@ EXCEPT !.status = "past_due", !.updatedAt = now]]
  /\ UNCHANGED <<rows, loaded, memory, session, half, canceledBy>>

(* The switch of applyStripeEvent. *)
Effect(i) ==
  LET e == events[i] IN
  \/ Buys(e) /\ ApplyPlan(e.user, e.plan, Until(e), e.status)
  \/ e.type = "updated" /\ StaleUpdate(e)
     /\ UNCHANGED <<rows, sub, loaded, memory, session, half, canceledBy>>
  \/ e.type = "deleted" /\ CancelSubscription(e.user, i)
  \/ e.type = "failed" /\ MarkPastDue(e.user)

(* applyStripeEvent: the event is acted on and put on record in one transaction. *)
Deliver(i) ==
  /\ Fresh(i)
  /\ \/ /\ account[events[i].user] # "none"
        /\ Effect(i)
        /\ applied' = [applied EXCEPT ![i] = @ + 1]
     \/ /\ account[events[i].user] = "none"    (* Unknown user, or no reference to one. *)
        /\ UNCHANGED <<rows, sub, loaded, memory, session, half, canceledBy, applied>>
  /\ processed' = processed \cup {i}
  /\ UNCHANGED <<account, calls, tokens, events, now, stale>>

(* The record or the commit fails: SQLite takes back the transaction, the map keeps it. *)
RollBack(i) ==
  LET e == events[i] IN
  /\ Fresh(i) /\ account[e.user] # "none"
  /\ \/ Buys(e) /\ ReplaceInMemory(e.user, Grants(e.plan, Until(e)))
     \/ e.type = "deleted" /\ sub[e.user] # None /\ ReplaceInMemory(e.user, {})
  /\ stale' = stale \cup {e.user}
  /\ UNCHANGED <<store, calls, tokens, events, now, half, applied, canceledBy>>

----------------------------------------------------------------------------
(* Accounts. *)

(* POST /auth/register, and a login without a row while AUTH_REQUIRED is off. *)
Register(u) ==
  /\ account[u] = "none"
  /\ account' = [account EXCEPT ![u] = "active"]
  /\ tokens' = tokens \cup {u}
  /\ ApplyPlan(u, FreePlan, now + Period, "active")
  /\ UNCHANGED <<processed, calls, events, now, stale, applied>>

(* POST /auth/login, with the admin secret or without. *)
Login(u) ==
  /\ account[u] = "active"
  /\ tokens' = tokens \cup {u}
  /\ \/ UNCHANGED <<rows, sub, loaded, memory, session, half, canceledBy>>
     \/ ApplyPlan(u, TopPlan, now + Period, "active")
  /\ UNCHANGED <<account, processed, calls, events, now, stale, applied>>

(* POST /admin/users/:id/plan and .../suspend look the user up, then wait for the body. *)
AdminCall(u, op) ==
  /\ Cardinality(calls) < MaxCalls
  /\ account[u] # "none"
  /\ calls' = calls \cup {[user |-> u, op |-> op]}
  /\ UNCHANGED <<store, loaded, memory, session, tokens, events, now, history>>

(* The ends of a plan an operator may ask for: some days from now, or a period. *)
Ends == {now + 1, now + Period}

AdminPlan(c, p, t) ==
  /\ c \in calls /\ c.op = "plan"
  /\ calls' = calls \ {c}
  /\ ApplyPlan(c.user, p, t, "active")
  /\ UNCHANGED <<account, processed, tokens, events, now, stale, applied>>

OfUser(u) == {s \in Sessions : session[s] # None /\ session[s].user = u}

Dropped(u) == [s \in Sessions |-> IF s \in OfUser(u) THEN None ELSE session[s]]

Suspend(c) ==
  /\ c \in calls /\ c.op = "status"
  /\ calls' = calls \ {c}
  /\ account' = [account EXCEPT ![c.user] = "suspended"]
  /\ session' = Dropped(c.user)
  /\ UNCHANGED <<rows, sub, processed, loaded, memory, tokens, events, now, history>>

Reactivate(c) ==
  /\ c \in calls /\ c.op = "status"
  /\ calls' = calls \ {c}
  /\ account' = [account EXCEPT ![c.user] = "active"]
  /\ UNCHANGED <<rows, sub, processed, loaded, memory, session, tokens, events, now, history>>

(* DELETE /admin/users/:id *)
AdminDelete(u) ==
  /\ account[u] # "none"
  /\ account' = [account EXCEPT ![u] = "none"]
  /\ rows' = [rows EXCEPT ![u] = {}]
  /\ sub' = [sub EXCEPT ![u] = None]
  /\ loaded' = loaded \ {u}
  /\ memory' = [memory EXCEPT ![u] = {}]
  /\ session' = Dropped(u)
  /\ half' = half \ {u}
  /\ canceledBy' = [canceledBy EXCEPT ![u] = 0]
  /\ UNCHANGED <<processed, calls, tokens, events, now, stale, applied>>

----------------------------------------------------------------------------
(* Connections. *)

Welcomes(u) ==
  /\ u \in tokens /\ account[u] # "suspended"
  /\ Cardinality(OfUser(u)) < MaxPerUser

Connect(s, u) ==
  /\ session[s] = None /\ Welcomes(u)
  /\ session' = [session EXCEPT ![s] = [user |-> u, symbol |-> "default"]]
  /\ UNCHANGED <<store, loaded, memory, calls, tokens, events, now, history>>

Authorized(u) == account[u] # "suspended" /\ Active(Loaded(u)) # {}

(* SUBSCRIBE: the entitlements are loaded by the check, and the symbol moves if it passes. *)
Subscribe(s, y) ==
  /\ session[s] # None
  /\ LET u == session[s].user IN
     /\ \/ account[u] = "suspended" /\ UNCHANGED <<loaded, memory>>
        \/ /\ account[u] # "suspended"
           /\ loaded' = loaded \cup {u}
           /\ memory' = [memory EXCEPT ![u] = Loaded(u)]
     /\ session' = IF Authorized(u) THEN [session EXCEPT ![s].symbol = y] ELSE session
  /\ UNCHANGED <<store, calls, tokens, events, now, history>>

(* The browser leaves. *)
Close(s) ==
  /\ session[s] # None
  /\ session' = [session EXCEPT ![s] = None]
  /\ UNCHANGED <<store, loaded, memory, calls, tokens, events, now, history>>

----------------------------------------------------------------------------
(* The process and the clock. *)

Forgotten ==
  /\ loaded' = {}
  /\ memory' = [u \in Users |-> {}]
  /\ session' = [s \in Sessions |-> None]
  /\ calls' = {}
  /\ stale' = {}

Restart ==
  /\ Forgotten
  /\ UNCHANGED <<store, tokens, events, now, half, applied, canceledBy>>

(* The process ends inside applyPlan, which is a transaction only for Stripe: the revocations, in *)
(* order, or all of them and the first grants are on disk, the subscription is not.             *)
HalfDone(u, G) ==
  {rows[u] \ {e \in rows[u] \ Kept(u) : e.scope <= k} : k \in Scopes} \cup
  {With(Kept(u), {g \in G : g.scope <= k}) : k \in Scopes}

CrashInPlan(u, p, t) ==
  /\ \/ account[u] = "none" /\ p = FreePlan /\ t = now + Period
        /\ account' = [account EXCEPT ![u] = "active"]
     \/ account[u] = "active" /\ p = TopPlan /\ t = now + Period /\ UNCHANGED account
     \/ [user |-> u, op |-> "plan"] \in calls /\ UNCHANGED account
  /\ \E E \in HalfDone(u, Grants(p, t)) : rows' = [rows EXCEPT ![u] = E]
  /\ half' = half \cup {u}
  /\ Forgotten
  /\ UNCHANGED <<sub, processed, tokens, events, now, applied, canceledBy>>

Tick ==
  /\ now < MaxTime
  /\ now' = now + 1
  /\ UNCHANGED <<store, process, tokens, events, history>>

----------------------------------------------------------------------------
Init ==
  /\ account = [u \in Users |-> "none"]
  /\ rows = [u \in Users |-> {}]
  /\ sub = [u \in Users |-> None]
  /\ processed = {} /\ tokens = {} /\ calls = {} /\ events = <<>>
  /\ loaded = {}
  /\ memory = [u \in Users |-> {}]
  /\ session = [s \in Sessions |-> None]
  /\ now = 0
  /\ stale = {} /\ half = {}
  /\ applied = [i \in 1..MaxEvents |-> 0]
  /\ canceledBy = [u \in Users |-> 0]

Next ==
  \/ Send
  \/ \E i \in DOMAIN events : Deliver(i) \/ RollBack(i)
  \/ \E u \in Users : Register(u) \/ Login(u) \/ AdminDelete(u)
  \/ \E u \in Users, op \in {"plan", "status"} : AdminCall(u, op)
  \/ \E c \in calls : Suspend(c) \/ Reactivate(c)
  \/ \E c \in calls, p \in Plans, t \in Ends : AdminPlan(c, p, t)
  \/ \E u \in Users, p \in Plans, t \in Ends : CrashInPlan(u, p, t)
  \/ \E s \in Sessions, u \in Users : Connect(s, u)
  \/ \E s \in Sessions, y \in {"default", "other"} : Subscribe(s, y)
  \/ \E s \in Sessions : Close(s)
  \/ Restart
  \/ Tick

Spec == Init /\ [][Next]_vars

----------------------------------------------------------------------------
(* Properties. *)

(* The map and the table agree on what is valid, whatever was granted, revoked, loaded late or  *)
(* lost with the process: only a rolled back event sets them apart, until the next restart.     *)
MemoryAgreesWithRows ==
  \A u \in loaded \ stale : Active(memory[u]) = Active(rows[u])

(* The plan in force according to getEffectivePlan, or None when the free tier is all there is.  *)
InForce(u) == sub[u] # None /\ sub[u].status # "canceled" /\ sub[u].end > now

(* The two copies of a plan agree: the valid entitlements of a user are those of the plan in     *)
(* force, to its end, and none without one; a crash inside applyPlan sets them apart until the   *)
(* next change of plan puts them right (billingService.applyPlan, getEffectivePlan).             *)
AccessFollowsPlan ==
  \A u \in Users \ half :
    Active(rows[u]) = IF InForce(u) THEN Grants(sub[u].plan, sub[u].end) ELSE {}

(* No connection of a suspended account is open, though suspensions wait for their body and      *)
(* connections come in the meantime (index.ts, the suspend route and the 'connection' handler).  *)
SuspendedAreOut ==
  \A s \in Sessions : session[s] # None => account[session[s].user] # "suspended"

(* A view of another symbol than the default belongs to a user who was granted access and from   *)
(* whom it was not taken since: a revocation reaches every view, only the end of a period does not. *)
OtherWasGranted ==
  \A s \in Sessions :
    session[s] # None /\ session[s].symbol = "other"
      => memory[session[s].user] # {}

(* An event changes its account once, however often and late it comes, and is on record then:    *)
(* a rollback leaves it to be delivered again (applyStripeEvent).                                *)
AppliedOnce ==
  \A i \in 1..MaxEvents : applied[i] <= 1 /\ (applied[i] = 1 => i \in processed)

(* What these rest on: a canceled subscription is over, so a payment that fails later does not   *)
(* bring it back, and the map has nothing of a user who is not in it.                            *)
CanceledIsOver ==
  \A u \in Users : sub[u] # None /\ sub[u].status = "canceled" => sub[u].end <= now

UnloadedIsEmpty == \A u \in Users \ loaded : memory[u] = {}

(* The invariant of the module: its types and bounds, the properties above and what they rest on. *)
AccountsInv ==
  /\ TypeOK
  /\ Len(events) <= MaxEvents
  /\ CanceledIsOver
  /\ UnloadedIsEmpty
  /\ MemoryAgreesWithRows
  /\ AccessFollowsPlan
  /\ SuspendedAreOut
  /\ OtherWasGranted
  /\ AppliedOnce

(* "Stale event does not resurrect canceled subscription" (billing.test.ts): an update that      *)
(* Stripe sent before the deletion that canceled the subscription changes nothing after it.      *)
StaleUpdatesAreIgnored ==
  [][\A i \in processed' \ processed :
       LET e == events[i] IN
       (/\ e.type = "updated" /\ i < canceledBy[e.user]
        /\ sub[e.user] # None /\ sub[e.user].status = "canceled")
       => sub'[e.user] = sub[e.user]]_vars
=============================================================================
