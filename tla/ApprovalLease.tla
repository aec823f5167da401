---------------------------- MODULE ApprovalLease ----------------------------
(***************************************************************************)
(* The durable approval ledger (approvalLease.ts) and the runtime gate     *)
(* every boot builds on it (ordinaryRuntime.ts).  The ledger is a SQLite   *)
(* file that outlives and is shared by the processes; a gate is the memory *)
(* of one process and dies with it.  Every ledger transaction is BEGIN     *)
(* IMMEDIATE .. COMMIT, hence one step here; a gate call is two of them    *)
(* (the check in allows, then consume), between which other processes, the *)
(* operator, the clock and a crash may step in.                            *)
(*                                                                         *)
(* Abstractions: the scope fields of the profile (dataset, symbol, schema) *)
(* are checked once at boot and are left out; so is the key.  A call reads *)
(* the wall clock once where the code reads it twice in a row, and the     *)
(* wait for SQLite's lock between that reading and the commit (one second  *)
(* at most) is left out.                                                   *)
(***************************************************************************)
EXTENDS Integers

CONSTANTS
  Boots,      (* Process incarnations, each with its own owner UUID.       *)
  Approvals,  (* approvalId values.                                        *)
  None,       (* The absent row, and no owner.                             *)
  MaxTime,    (* Bound of both clocks.                                     *)
  Window      (* The 24-hour approval window.                              *)

Time == 0..MaxTime

Kinds == {"attempts", "commands", "acks"}

(* A row of approval_leases, and what a boot keeps of its profile. *)
Row == [owner   : Boots,
        expires : Time,
        state   : {"RESERVED", "CONSUMED", "REVOKED"},
        used    : [Kinds -> {0, 1}]]

Profile == [id : Approvals, expires : Time]

ASSUME LeaseAssumption ==
  /\ MaxTime \in Nat
  /\ Window \in Nat
  /\ None \notin Boots \union Row \union Profile

VARIABLES
  wall,       (* The host's wall clock: an operator may set it.            *)
  mono,       (* The host's monotonic clock.                               *)
  rows,       (* approval_leases: rows[a] is a row or None.                *)
  high,       (* approval_clock.highwater; 0 before the first boot.        *)
  phase,      (* phase[b]: "down", "denied", "open" or "crashed".          *)
  profile,    (* profile[b]: the approvalId and expiry b booted with.      *)
  deadline,   (* deadline[b]: expiresMono.                                 *)
  counters,   (* counters[b][k]: the gate's own budget counters.           *)
  pc,         (* pc[b]: where b is in a gate call.                         *)
  kind        (* kind[b]: the budget that call is for.                     *)

ledgerVars == <<rows, high>>
gateVars   == <<phase, profile, deadline, counters>>
callVars   == <<pc, kind>>
vars == <<wall, mono, ledgerVars, gateVars, callVars>>

TypeOK ==
  /\ wall \in Time
  /\ mono \in Time
  /\ rows \in [Approvals -> Row \union {None}]
  /\ high \in Time
  /\ phase \in [Boots -> {"down", "denied", "open", "crashed"}]
  /\ profile \in [Boots -> Profile \union {None}]
  /\ deadline \in [Boots -> Nat]
  /\ counters \in [Boots -> [Kinds -> Nat]]
  /\ pc \in [Boots -> {"idle", "checked", "spent"}]
  /\ kind \in [Boots -> Kinds]

Later(s, t) == IF s < t THEN t ELSE s

(* What consume requires to be spent before k. *)
Before(k) ==
  CASE k = "attempts" -> {}
    [] k = "commands" -> {"attempts"}
    [] k = "acks"     -> {"attempts", "commands"}

Approval(b) == profile[b].id

(* b got past the constructor with a lease. *)
Booted(b) == phase[b] \in {"open", "crashed"}

(* b's row is there, is b's, and is neither revoked nor expired. *)
Held(b) ==
  LET row == rows[Approval(b)] IN
  /\ row # None
  /\ row.owner = b
  /\ row.state # "REVOKED"
  /\ wall < row.expires

(* ApprovalLease.valid: the row is the one b reserved, and time has not    *)
(* gone back behind the highwater mark.                                    *)
Valid(b) ==
  /\ Held(b)
  /\ rows[Approval(b)].expires = profile[b].expires
  /\ high <= wall

(* OrdinaryRuntimeGate.allows: both clocks are within the approval.        *)
Allows(b) ==
  /\ phase[b] = "open"
  /\ wall < profile[b].expires
  /\ mono < deadline[b]
  /\ Valid(b)

-----------------------------------------------------------------------------
(***************************************************************************)
(* Boot.                                                                   *)
(***************************************************************************)

(* The reservation commits: the row is b's even if b never connects.       *)
Reserve(b, a, e) ==
  /\ phase[b] = "down"
  /\ wall < e
  /\ e - wall <= Window
  /\ high <= wall
  /\ rows' = [rows EXCEPT ![a] =
                [owner |-> b, expires |-> e, state |-> "RESERVED",
                 used |-> [k \in Kinds |-> 0]]]
  /\ high' = Later(high, wall)
  /\ phase' = [phase EXCEPT ![b] = "open"]
  /\ profile' = [profile EXCEPT ![b] = [id |-> a, expires |-> e]]
  /\ deadline' = [deadline EXCEPT ![b] = mono + e - wall]
  /\ UNCHANGED <<wall, mono, counters, callVars>>

(* Two faults: a restart that takes over its predecessor's row, and one    *)
(* that does so only while nothing was spent from it.                      *)
BootTakesOver(b, a, e) == Reserve(b, a, e)

BootTakesOverUnused(b, a, e) ==
  /\ rows[a] # None => \A k \in Kinds : rows[a].used[k] = 0
  /\ Reserve(b, a, e)

(* The profile passes validation and its approval has no row yet.          *)
BootApproved(b, a, e) ==
  /\ rows[a] = None
  /\ Reserve(b, a, e)

(* Validation or the constructor's transaction fails: an expired or too    *)
(* distant expiry, a clock behind the mark, a row already there, or SQLite *)
(* itself.  The transaction is rolled back and the gate has no profile.    *)
BootDenied(b) ==
  /\ phase[b] = "down"
  /\ phase' = [phase EXCEPT ![b] = "denied"]
  /\ UNCHANGED <<wall, mono, ledgerVars, profile, deadline, counters, callVars>>

Crash(b) ==
  /\ phase[b] = "open"
  /\ phase' = [phase EXCEPT ![b] = "crashed"]
  /\ UNCHANGED <<wall, mono, ledgerVars, profile, deadline, counters, callVars>>

-----------------------------------------------------------------------------
(***************************************************************************)
(* Gate calls: claimConnection, subscription and ack.                      *)
(***************************************************************************)

(* A call of allows on its own (the authorization poll, a denied claim):   *)
(* it moves the highwater mark.                                            *)
Poll(b) ==
  /\ pc[b] = "idle"
  /\ Allows(b)
  /\ high' = Later(high, wall)
  /\ UNCHANGED <<wall, mono, rows, gateVars, callVars>>

CheckTo(b, k, next) ==
  /\ pc[b] = "idle"
  /\ k \in {"attempts", "commands"}
  /\ counters[b][k] = 0
  /\ k = "commands" => counters[b]["attempts"] = 1
  /\ Allows(b)
  /\ high' = Later(high, wall)
  /\ pc' = [pc EXCEPT ![b] = next]
  /\ kind' = [kind EXCEPT ![b] = k]
  /\ UNCHANGED <<wall, mono, rows, gateVars>>

(* claimConnection and subscription up to their consume. *)
Check(b, k) == CheckTo(b, k, "checked")

(* ack goes to consume without asking allows again. *)
CheckAck(b) ==
  /\ pc[b] = "idle"
  /\ phase[b] = "open"
  /\ counters[b]["acks"] = 0
  /\ pc' = [pc EXCEPT ![b] = "checked"]
  /\ kind' = [kind EXCEPT ![b] = "acks"]
  /\ UNCHANGED <<wall, mono, ledgerVars, gateVars>>

(* Two faults: a consume that forgets the order of the budgets, and one    *)
(* that relies on the gate's check for everything but the budget.          *)
SpendableInAnyOrder(b, k) ==
  /\ Held(b)
  /\ high <= wall
  /\ rows[Approval(b)].used[k] = 0

SpendableIfChecked(b, k) ==
  /\ rows[Approval(b)].used[k] = 0
  /\ \A j \in Before(k) : rows[Approval(b)].used[j] = 1

(* The row still covers budget k of boot b: ApprovalLease.consume's test. *)
Spendable(b, k) ==
  LET row == rows[Approval(b)] IN
  /\ Held(b)
  /\ high <= wall
  /\ row.used[k] = 0
  /\ \A j \in Before(k) : row.used[j] = 1

(* The UPDATE of consume. *)
Spent(row, k) == [row EXCEPT !.used[k] = 1, !.state = "CONSUMED"]

Consume(b) ==
  /\ phase[b] = "open"
  /\ pc[b] = "checked"
  /\ Spendable(b, kind[b])
  /\ rows' = [rows EXCEPT ![Approval(b)] = Spent(@, kind[b])]
  /\ high' = Later(high, wall)
  /\ pc' = [pc EXCEPT ![b] = "spent"]
  /\ UNCHANGED <<wall, mono, gateVars, kind>>

(* consume throws, denied or because SQLite failed, and with it the call. *)
ConsumeDenied(b) ==
  /\ phase[b] = "open"
  /\ pc[b] = "checked"
  /\ pc' = [pc EXCEPT ![b] = "idle"]
  /\ UNCHANGED <<wall, mono, ledgerVars, gateVars, kind>>

Counted(own, k) == [own EXCEPT ![k] = @ + 1]

(* The call returns: the counter moves, and the client opens its socket,   *)
(* writes its subscription or counts the acknowledgement.                  *)
Perform(b) ==
  /\ phase[b] = "open"
  /\ pc[b] = "spent"
  /\ counters' = [counters EXCEPT ![b] = Counted(@, kind[b])]
  /\ pc' = [pc EXCEPT ![b] = "idle"]
  /\ UNCHANGED <<wall, mono, ledgerVars, phase, profile, deadline, kind>>

-----------------------------------------------------------------------------
(***************************************************************************)
(* The environment: the operator, who revokes straight in the ledger file, *)
(* and the two clocks.                                                     *)
(***************************************************************************)

Revoke(a) ==
  /\ rows[a] # None
  /\ rows' = [rows EXCEPT ![a] = [@ EXCEPT !.state = "REVOKED"]]
  /\ UNCHANGED <<wall, mono, high, gateVars, callVars>>

Tick ==
  /\ wall < MaxTime
  /\ mono < MaxTime
  /\ wall' = wall + 1
  /\ mono' = mono + 1
  /\ UNCHANGED <<ledgerVars, gateVars, callVars>>

SetWallClock(t) ==
  /\ wall' = t
  /\ UNCHANGED <<mono, ledgerVars, gateVars, callVars>>

-----------------------------------------------------------------------------
Init ==
  /\ wall = 0
  /\ mono = 0
  /\ rows = [a \in Approvals |-> None]
  /\ high = 0
  /\ phase = [b \in Boots |-> "down"]
  /\ profile = [b \in Boots |-> None]
  /\ deadline = [b \in Boots |-> 0]
  /\ counters = [b \in Boots |-> [k \in Kinds |-> 0]]
  /\ pc = [b \in Boots |-> "idle"]
  /\ kind = [b \in Boots |-> "attempts"]

Next ==
  \/ \E b \in Boots :
       \/ \E a \in Approvals, e \in Time : BootApproved(b, a, e)
       \/ BootDenied(b)
       \/ Crash(b)
       \/ Poll(b)
       \/ \E k \in Kinds : Check(b, k)
       \/ CheckAck(b)
       \/ Consume(b)
       \/ ConsumeDenied(b)
       \/ Perform(b)
  \/ \E a \in Approvals : Revoke(a)
  \/ Tick
  \/ \E t \in Time : SetWallClock(t)

Spec == Init /\ [][Next]_vars

-----------------------------------------------------------------------------
(***************************************************************************)
(* The inductive invariant behind the properties below.                    *)
(***************************************************************************)

OwnRow(b) == rows[Approval(b)]

(* A boot without a lease has done nothing.                                *)
UnbootedIsInert ==
  \A b \in Boots : ~Booted(b) =>
     /\ profile[b] = None
     /\ pc[b] = "idle"
     /\ \A k \in Kinds : counters[b][k] = 0

(* Leases and rows are in bijection. *)
BootOwnsItsRow ==
  \A b \in Boots : Booted(b) =>
     /\ profile[b] # None
     /\ OwnRow(b) # None
     /\ OwnRow(b).owner = b

RowOwnerBooted ==
  \A a \in Approvals : rows[a] # None =>
     /\ Booted(rows[a].owner)
     /\ Approval(rows[a].owner) = a

(* A gate's counters and its row differ by the one call that has consumed  *)
(* and not returned: between Consume and Perform, or where a crash left it.*)
Accounted ==
  \A b \in Boots : Booted(b) => \A k \in Kinds :
     IF pc[b] = "spent" /\ kind[b] = k
     THEN OwnRow(b).used[k] = 1 /\ counters[b][k] = 0
     ELSE OwnRow(b).used[k] = counters[b][k]

RowsInOrder ==
  \A a \in Approvals, k \in Kinds :
     rows[a] # None /\ rows[a].used[k] = 1 =>
       \A j \in Before(k) : rows[a].used[j] = 1

(* Nothing that needs the budget of the unfinished call is spent yet. *)
UnfinishedIsLast ==
  \A b \in Boots, k \in Kinds :
     pc[b] = "spent" /\ kind[b] \in Before(k) => OwnRow(b).used[k] = 0

(* The inductive invariant: leases and rows in bijection, and the counters *)
(* in memory and the budgets on disk apart by the unfinished call only.    *)
LeaseInv ==
  /\ TypeOK
  /\ UnbootedIsInert
  /\ BootOwnsItsRow
  /\ RowOwnerBooted
  /\ Accounted
  /\ RowsInOrder
  /\ UnfinishedIsLast

-----------------------------------------------------------------------------
(***************************************************************************)
(* Properties.                                                             *)
(***************************************************************************)

(* Across every boot, crash and restart, an approval pays for one          *)
(* connection attempt, one subscription command and one acknowledgement at *)
(* most, and one boot makes all of them (the comment in the lease's        *)
(* constructor, and the "1 durable attempt per approval" of the gate).     *)
OneUsePerApproval ==
  \A b, c \in Boots, k \in Kinds :
     /\ counters[b][k] <= 1
     /\ (/\ Booted(b) /\ Booted(c)
         /\ Approval(b) = Approval(c)
         /\ \E j \in Kinds : counters[b][j] # 0 /\ counters[c][k] # 0) => b = c

(* What a boot has done on the wire was committed in its own row before:   *)
(* a crash at any instant leaves the ledger at or ahead of the wire.       *)
LedgerAheadOfWire ==
  \A b \in Boots, k \in Kinds :
     counters[b][k] # 0 =>
        /\ Booted(b)
        /\ rows[Approval(b)] # None
        /\ rows[Approval(b)].owner = b
        /\ rows[Approval(b)].used[k] = 1

(* No boot subscribes without having connected, or counts an               *)
(* acknowledgement without having subscribed, in its memory and in the     *)
(* ledger alike.                                                           *)
UsesInOrder ==
  /\ \A b \in Boots, k \in Kinds :
       counters[b][k] # 0 => \A j \in Before(k) : counters[b][j] # 0
  /\ \A a \in Approvals, k \in Kinds :
       rows[a] # None /\ rows[a].used[k] = 1 =>
         \A j \in Before(k) : rows[a].used[j] = 1

(* Whatever happened since the gate last checked, a budget is never spent  *)
(* from a revoked row, from an expired one, or at a time earlier than one  *)
(* the ledger has already seen.                                            *)
SpendIsValid ==
  \A a \in Approvals, k \in Kinds :
     (rows[a] # None /\ rows[a].used[k] = 0 /\ rows'[a].used[k] = 1) =>
        /\ rows[a].state # "REVOKED"
        /\ wall < rows[a].expires
        /\ high <= wall

(* SpendIsValid, of every step of every process. *)
SpentOnlyWhileValid == [][SpendIsValid]_vars

(* A reservation is for good: no later boot reclaims the row of one that   *)
(* crashed, nothing spent is given back, no revocation is undone and the   *)
(* highwater mark never retreats.                                          *)
LedgerAdvances ==
  /\ high <= high'
  /\ \A a \in Approvals : rows[a] # None =>
       /\ rows'[a] # None
       /\ rows'[a].owner = rows[a].owner
       /\ rows'[a].expires = rows[a].expires
       /\ rows[a].state = "REVOKED" => rows'[a].state = "REVOKED"
       /\ \A k \in Kinds : rows[a].used[k] <= rows'[a].used[k]

(* LedgerAdvances, of every step of every process. *)
LedgerOnlyAdvances == [][LedgerAdvances]_vars

(* The ledger and its gates implement the approval they stand for: the     *)
(* holder is the owner of the row, the users of a budget are the boots     *)
(* whose gate counted it.                                                  *)
Promise == INSTANCE OneShotApproval WITH
  holder <- [a \in Approvals |-> IF rows[a] = None THEN None ELSE rows[a].owner],
  users  <- [a \in Approvals |-> [k \in Kinds |->
               {b \in Boots : Booted(b) /\ Approval(b) = a /\ counters[b][k] # 0}]]

(* The refinement, as a property of Spec. *)
ImplementsOneShotApproval == Promise!AbsSpec
=============================================================================
