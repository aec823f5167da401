------------------------------ MODULE MC_Accounts ------------------------------
(***************************************************************************)
(* Small instances of who may do what: the plans of an account with two    *)
(* payments, with one payment and an operator, and its entry with          *)
(* passwords, tokens and limits.  An initial state chooses one of them     *)
(* (its world); the others stand still.                                    *)
(***************************************************************************)
EXTENDS Accounts, Access

CONSTANTS alice, ip1, ip2, ip3

VARIABLE world

(* One account with its passwords, secrets, tokens and operators; guesses at two accounts; and a *)
(* rush of three addresses on narrow budgets.                                                    *)
World(auth, ips, users, api, limit, window, operator, kinds, n, end) ==
  [authRequired |-> auth, adminSecret |-> operator # None, ips |-> ips, users |-> users,
   apiLimit |-> api, authLimit |-> limit, rateWindow |-> window, operator |-> operator,
   kinds |-> kinds, requests |-> n, until |-> end]
Worlds ==
  {World(TRUE, {ip1}, {alice}, 1, 1, 1, None, {"login", "register", "logout", "operate"}, 3, 2),
   World(FALSE, {ip1}, {alice}, 1, 1, 1, alice, {"login", "register", "logout", "operate"}, 3, 2),
   World(TRUE, {ip1}, {alice}, 9, 3, 1, alice, {"login"}, 5, 3),
   World(TRUE, {ip1, ip2, ip3}, {}, 2, 1, 2, None, {"logout", "call"}, 5, 2)}

ASSUME AccessConstants == AccessAssumption

AccessRests == AccessInit /\ env = CHOOSE e \in Worlds : "call" \in e.kinds

MCInit ==
  /\ Init
  /\ \/ world \in {"payments", "operators"} /\ AccessRests
     \/ world = "entry" /\ AccessInit

MCNext ==
  /\ UNCHANGED world
  /\ \/ world = "payments" /\ Next /\ calls' = {} /\ UNCHANGED accessVars
     \/ world = "operators" /\ Next /\ Len(events') <= 1 /\ UNCHANGED accessVars
     \/ world = "entry" /\ AccessNext /\ UNCHANGED vars

MCSpec == MCInit /\ [][MCNext]_<<vars, accessVars, world>>
=============================================================================
