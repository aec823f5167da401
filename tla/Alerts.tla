-------------------------------- MODULE Alerts --------------------------------
(***************************************************************************)
(* Alert rules and what they fire (alerts/alertEngine.ts, alertService.ts, *)
(* routes.ts, the alert tables of marketDataStore.ts).                     *)
(*                                                                         *)
(* Users write rules by requests whose plan is looked up before the body   *)
(* is read.  The market context shows the engine trades, bars, absorptions *)
(* and books; a rule that is met fires unless it cools down, has fired for *)
(* the same key, or its user had too many alerts in the last minute.       *)
(* Rules and the time they fired last are rows of SQLite, keys and recent  *)
(* deliveries are in memory.                                               *)
(*                                                                         *)
(* There is one symbol.  Reads of the database succeed; a write that fails *)
(* is logged and forgotten, and the writes of one handler fail together.   *)
(* The history is written with the alert and read by nobody here; it is    *)
(* left out with the messages, severities and the texts of rules.          *)
(***************************************************************************)
EXTENDS Integers, Sequences, FiniteSets, SequencesExt, Nothing

CONSTANTS
  Users, RuleIds,
  Plans, MaxRules,     (* getMaxRulesForPlan, a function of the plan.       *)
  Thresholds, Cooldowns,
  Market,              (* What the context may show: see Observations.      *)
  Deleted,             (* No rule any more: ids are unique.  None: no rule yet. *)
  MaxPerWindow,        (* maxAlertsPerUserPerMinute.                        *)
  LimitTime,           (* The minute of the limit.                          *)
  DedupTtl, DedupSize, (* The age, and the size, at which keys are purged.  *)
  KeyTime,             (* The 30 s a level or a wall is one key.            *)
  MaxTime, MaxAlerts   (* Bounds.                                           *)

Types == {"LARGE_TRADE", "POC_VAH_VAL", "STACKED_IMBALANCE", "ABSORPTION", "LIQUIDITY_WALL"}
Times == 1..MaxTime

Rules == [user : Users, type : Types, threshold : Thresholds, cooldown : Cooldowns,
          enabled : BOOLEAN, last : Times \cup {None}]

(* A trade with the levels within tolerance of it, a bar, an absorption, a book. *)
Orders       == [price : Nat, size : Nat]
Observations ==
  [kind : {"tick"}, id : Nat, size : Nat, near : SUBSET {"POC", "VAH", "VAL"}]
    \cup [kind : {"bar"}, time : Nat, levels : Seq([bid : Nat, ask : Nat] \cup {None})]
    \cup [kind : {"absorption"}, id : Nat, volume : Nat]
    \cup [kind : {"book"}, bids : Seq(Orders), asks : Seq(Orders)]

ASSUME AlertsAssumption ==
  /\ Market \subseteq Observations
  /\ MaxRules \in [Plans -> Nat] /\ Cooldowns \subseteq Nat
  /\ MaxTime \in Nat \ {0} /\ MaxPerWindow \in Nat /\ LimitTime \in Nat /\ DedupTtl \in Nat
  /\ None \notin Rules \cup Times \cup {Deleted} /\ Deleted \notin Rules

VARIABLES
  now,
  calls,    (* Requests for a rule that wait for their body, with the plan. *)
  rules,    (* alert_rules: a row, None or Deleted.                         *)
  dedup,    (* dedupCache: a key to the time it was taken.                  *)
  recent,   (* userDeliveryTimestamps: the numbers of these alerts in sent. *)
  sent,     (* A history: when each user was sent its alerts by this process. *)
  fired,    (* Every alert sent, with the cooldown of its rule and whether  *)
            (* it could be written down.                                    *)
  boot      (* Which process this is: fired keeps it.                       *)

memory     == <<dedup, recent, sent, fired, boot>>
alertsVars == <<now, calls, rules, memory>>

Existing  == {r \in RuleIds : rules[r] \notin {None, Deleted}}
OfUser(u) == {r \in Existing : rules[r].user = u}

------------------------------------------------------------------------------
(* What meets a rule.  The candidates of a rule are keys by their position: *)
(* the first key that is new fires.                                         *)

Imbalanced(x, against, ratio) ==
  x >= 1 /\ x >= (IF against = 0 THEN 1 ELSE against) * ratio

(* The pairs of adjacent prices that are imbalanced, and the side of three  *)
(* in a row.  Position i of a bar is a price, None one that did not trade.  *)
BidPairs(b, ratio) ==
  {i \in 1..Len(b) - 1 : b[i] # None /\ b[i + 1] # None /\ Imbalanced(b[i].bid, b[i + 1].ask, ratio)}
AskPairs(b, ratio) ==
  {i \in 1..Len(b) - 1 : b[i] # None /\ b[i + 1] # None /\ Imbalanced(b[i + 1].ask, b[i].bid, ratio)}
ThreeInARow(pairs) == \E i \in pairs : {i + 1, i + 2} \subseteq pairs
StackedSide(b, ratio) ==
  IF ThreeInARow(AskPairs(b, ratio)) THEN "BUYING"
  ELSE IF ThreeInARow(BidPairs(b, ratio)) THEN "SELLING" ELSE None

One(met, key) == IF met THEN <<key>> ELSE <<>>

(* evaluateTick: a large trade, or the first level it touches.              *)
Touched(near) == IF "POC" \in near THEN "POC" ELSE IF "VAH" \in near THEN "VAH" ELSE "VAL"
TickKeys(r, o) ==
  CASE rules[r].type = "LARGE_TRADE" ->
         One(o.size >= rules[r].threshold, <<r, "trade", o.id, 0>>)
    [] rules[r].type = "POC_VAH_VAL" ->
         One(o.near # {}, <<r, Touched(o.near), 0, now \div KeyTime>>)
    [] OTHER -> <<>>

(* evaluateFootprintBar.                                                    *)
BarKeys(r, o) ==
  LET side == StackedSide(o.levels, rules[r].threshold)
  IN  One(rules[r].type = "STACKED_IMBALANCE" /\ side # None, <<r, side, o.time, 0>>)

(* evaluateAbsorption.                                                      *)
AbsorptionKeys(r, o) ==
  One(/\ rules[r].type = "ABSORPTION"
      /\ rules[r].threshold <= 1 \/ o.volume >= rules[r].threshold, <<r, "absorbed", o.id, 0>>)

(* evaluateOrderbook: the walls among the bids, and then those among the    *)
(* asks.                                                                    *)
Walls(orders, r, side) ==
  [i \in {i \in DOMAIN orders : orders[i].size >= rules[r].threshold} |->
     <<r, side, orders[i].price, now \div KeyTime>>]
WallKeys(r, orders, side) ==
  IF rules[r].type = "LIQUIDITY_WALL" THEN Walls(orders, r, side) ELSE <<>>

Candidates(r, o) ==
  CASE o.kind = "tick"       -> TickKeys(r, o)
    [] o.kind = "bar"        -> BarKeys(r, o)
    [] o.kind = "absorption" -> AbsorptionKeys(r, o)
    [] o.kind = "book"       -> WallKeys(r, o.bids, "bid")
AskCandidates(r, o) == IF o.kind = "book" THEN WallKeys(r, o.asks, "ask") ELSE <<>>

(* A fault: the cooldown of a rule is not asked for.                        *)
EnabledOnly(rule) == rule.enabled
CanTrigger(rule) ==
  /\ rule.enabled
  /\ rule.last # None => now - rule.last >= rule.cooldown

------------------------------------------------------------------------------
(* One evaluation goes over the rules, and over the candidates of each, in  *)
(* an order of its own; what it has come to so far is a record.             *)

Purged(d) ==
  IF Cardinality(DOMAIN d) > DedupSize
  THEN [k \in {k \in DOMAIN d : now - d[k] <= DedupTtl} |-> d[k]]
  ELSE d

(* isDuplicate of a key that is new.                                        *)
Taken(s, key) ==
  LET d == Purged(s.dedup)
  IN  [s EXCEPT !.dedup = [k \in DOMAIN d \cup {key} |-> IF k = key THEN now ELSE d[k]]]

(* checkUserRateLimit.                                                      *)
InLimit(s, u) == {i \in s.recent[u] : now - s.sent[u][i] < LimitTime}
AtLimit(s, u) == Cardinality(InLimit(s, u)) >= MaxPerWindow

AlertOf(r, key, disk) ==
  [rule |-> r, user |-> rules[r].user, key |-> key, at |-> now,
   cooldown |-> rules[r].cooldown, saved |-> disk, boot |-> boot]

(* triggerAlert: the limit of the user, the row of the rule and of the      *)
(* history, and the message.                                                *)
Trigger(s, r, key, disk) ==
  LET u == rules[r].user
  IN  IF AtLimit(s, u)
      THEN [s EXCEPT !.recent[u] = InLimit(s, u)]
      ELSE [s EXCEPT !.recent[u] = InLimit(s, u) \cup {Len(s.sent[u]) + 1},
                     !.sent[u] = Append(@, now),
                     !.rules[r].last = IF disk THEN now ELSE @,
                     !.fired = Append(@, AlertOf(r, key, disk))]

(* The candidates of one side: the keys already taken are passed over.      *)
FireFirst(s, r, keys, disk) ==
  LET d     == Purged(s.dedup)
      fresh == {i \in DOMAIN keys : keys[i] \notin DOMAIN d}
      key   == keys[CHOOSE i \in fresh : \A j \in fresh : i <= j]
  IN  IF DOMAIN keys = {} THEN s
      ELSE IF fresh = {} THEN [s EXCEPT !.dedup = d]
      ELSE Trigger(Taken(s, key), r, key, disk)

EvaluateRule(s, r, o, disk) ==
  IF CanTrigger(rules[r])
  THEN FireFirst(FireFirst(s, r, Candidates(r, o), disk), r, AskCandidates(r, o), disk)
  ELSE s

(* evaluateTick, evaluateFootprintBar, evaluateAbsorption, evaluateOrderbook: *)
(* one rule after the other.                                                *)
Current == [rules |-> rules, dedup |-> dedup, recent |-> recent, sent |-> sent, fired |-> fired]
Passes(order, o, disk) ==
  LET after[i \in 0..Len(order)] ==
        IF i = 0 THEN Current ELSE EvaluateRule(after[i - 1], order[i], o, disk)
  IN  after

Evaluate(o) ==
  \E disk \in BOOLEAN, order \in SetToSeqs({r \in Existing : rules[r].enabled}) :
    LET end == Passes(order, o, disk)[Len(order)]
    IN  /\ Len(end.fired) <= MaxAlerts
        /\ rules' = end.rules /\ dedup' = end.dedup /\ recent' = end.recent
        /\ sent' = end.sent /\ fired' = end.fired
        /\ UNCHANGED <<now, calls, boot>>

------------------------------------------------------------------------------
(* The routes.                                                              *)

(* POST /rules: the user and the plan of the moment are known before the    *)
(* body is; billing may change the plan while the request waits.            *)
PostRule(u, plan) ==
  /\ calls' = calls \cup {[user |-> u, plan |-> plan]}
  /\ UNCHANGED <<now, rules, memory>>

(* A fault: the limit may be passed by one.                                 *)
FitsUpToLimit(c) == Cardinality(OfUser(c.user)) <= MaxRules[c.plan]
Fits(c)          == Cardinality(OfUser(c.user)) < MaxRules[c.plan]

(* createRule, once the body is there: refused, stored, or not stored       *)
(* because the database fails, of which the user learns nothing.  Another   *)
(* request like it may go on waiting.                                       *)
CreateRule(c) ==
  /\ calls' \in {calls, calls \ {c}}
  /\ \/ ~Fits(c) /\ UNCHANGED rules
     \/ /\ Fits(c)
        /\ \E r \in {r \in RuleIds : rules[r] = None}, type \in Types, threshold \in Thresholds,
              cooldown \in Cooldowns, enabled \in BOOLEAN :
             rules' = [rules EXCEPT ![r] =
               [user |-> c.user, type |-> type, threshold |-> threshold,
                cooldown |-> cooldown, enabled |-> enabled, last |-> None]]
     \/ UNCHANGED rules
  /\ UNCHANGED <<now, memory>>

(* PUT /rules/:id writes the row again as it was read, last included.       *)
UpdateRule(r) ==
  /\ r \in Existing
  /\ \E threshold \in Thresholds, cooldown \in Cooldowns, enabled \in BOOLEAN :
       rules' = [rules EXCEPT ![r].threshold = threshold, ![r].cooldown = cooldown,
                              ![r].enabled = enabled]
  /\ UNCHANGED <<now, calls, memory>>

DeleteRule(r) ==
  /\ r \in Existing
  /\ rules' = [rules EXCEPT ![r] = Deleted]
  /\ UNCHANGED <<now, calls, memory>>

------------------------------------------------------------------------------
(* The environment.                                                         *)

Tick ==
  /\ now < MaxTime
  /\ now' = now + 1
  /\ UNCHANGED <<calls, rules, memory>>

Restart ==
  /\ boot = 1 /\ boot' = 2
  /\ calls' = {} /\ dedup' = <<>> /\ recent' = [u \in Users |-> {}] /\ sent' = [u \in Users |-> <<>>]
  /\ UNCHANGED <<now, rules, fired>>

AlertsInit ==
  /\ now = 1
  /\ calls = {}
  /\ rules = [r \in RuleIds |-> None]
  /\ dedup = <<>>
  /\ recent = [u \in Users |-> {}]
  /\ sent = [u \in Users |-> <<>>]
  /\ fired = <<>>
  /\ boot = 1

AlertsNext ==
  \/ \E u \in Users, plan \in Plans : PostRule(u, plan)
  \/ \E c \in calls : CreateRule(c)
  \/ \E r \in RuleIds : UpdateRule(r) \/ DeleteRule(r)
  \/ \E o \in Market : Evaluate(o)
  \/ Tick
  \/ Restart

AlertsSpec == AlertsInit /\ [][AlertsNext]_alertsVars

------------------------------------------------------------------------------
(* Properties.                                                              *)

(* Rows, keys and deliveries are what the code can make of them, and what   *)
(* the limit remembers of a user is what was sent to it by this process.    *)
AlertsTypes ==
  /\ now \in Times
  /\ calls \subseteq [user : Users, plan : Plans]
  /\ rules \in [RuleIds -> Rules \cup {None, Deleted}]
  /\ \A k \in DOMAIN dedup : dedup[k] \in 1..now
  /\ \A f \in Range(fired) : f.rule \in RuleIds /\ f.user \in Users /\ f.at \in 1..now
  /\ boot \in 1..2

LimitRemembers ==
  \A u \in Users :
    InLimit(Current, u) = {i \in DOMAIN sent[u] : now - sent[u][i] < LimitTime}

AlertsInv == AlertsTypes /\ LimitRemembers

(* After an alert its rule is quiet for its cooldown, however the rule is   *)
(* edited and the server restarted, if the alert could be written down; a   *)
(* book with a wall on both sides may fire twice at once.                   *)
CooldownHolds ==
  \A j \in DOMAIN fired : \A i \in 1..j - 1 :
    fired[i].rule = fired[j].rule /\ fired[i].saved =>
      \/ fired[j].at - fired[i].at >= fired[j].cooldown
      \/ /\ j = i + 1 /\ fired[i].at = fired[j].at
         /\ fired[i].key[2] = "bid" /\ fired[j].key[2] = "ask"

(* No user is sent more than the limit within any minute of one process,    *)
(* whatever number of rules it has and whatever the market does.            *)
LimitHolds ==
  \A u \in Users : \A i \in DOMAIN sent[u] :
    i + MaxPerWindow \in DOMAIN sent[u] => sent[u][i + MaxPerWindow] - sent[u][i] >= LimitTime

(* A key fires once while its memory lasts: the same trade, bar, level or   *)
(* wall is not announced twice, with the cache purged in between.           *)
AnnouncedOnce ==
  \A j \in DOMAIN fired : \A i \in 1..j - 1 :
    fired[i].key = fired[j].key /\ fired[i].boot = fired[j].boot =>
      fired[j].at - fired[i].at > DedupTtl

(* Alerts are rare: a rule is quiet for its cooldown, a user is sent no     *)
(* more than the limit, and a key fires once while its memory lasts         *)
(* (alertEngine.ts), whatever is edited, purged or restarted.               *)
AlertsAreRare == CooldownHolds /\ LimitHolds /\ AnnouncedOnce

(* Requests that read their bodies side by side do not take a user beyond   *)
(* the rules of the plan one of them was made under.                        *)
RulesWithinPlan ==
  [][\A u \in Users :
       Cardinality(OfUser(u)') > Cardinality(OfUser(u)) =>
         \E c \in calls : c.user = u /\ Cardinality(OfUser(u)') <= MaxRules[c.plan]]_alertsVars
=============================================================================
