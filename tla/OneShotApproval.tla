--------------------------- MODULE OneShotApproval ---------------------------
(***************************************************************************)
(* What an operator's approval of the vendor feed promises, with neither   *)
(* ledger, clock nor process in sight: an approval is handed to one boot   *)
(* at most, and that boot may use it for one connection attempt, then one  *)
(* subscription command, then one counted acknowledgement.                 *)
(***************************************************************************)

CONSTANTS
  Boots,      (* Process incarnations: a restart is another boot.          *)
  Approvals,  (* approvalId values an operator issued.                     *)
  None        (* No boot.                                                  *)

VARIABLES
  holder,     (* holder[a]: the boot approval a was handed to, or None.    *)
  users       (* users[a][k]: the boots that used a for k.                 *)

absVars == <<holder, users>>

Kinds == {"attempts", "commands", "acks"}

(* What must have been used before k may be. *)
Before(k) ==
  CASE k = "attempts" -> {}
    [] k = "commands" -> {"attempts"}
    [] k = "acks"     -> {"attempts", "commands"}

AbsInit ==
  /\ holder = [a \in Approvals |-> None]
  /\ users  = [a \in Approvals |-> [k \in Kinds |-> {}]]

Hand(a, b) ==
  /\ holder[a] = None
  /\ holder' = [holder EXCEPT ![a] = b]
  /\ UNCHANGED users

Use(a, k) ==
  /\ holder[a] # None
  /\ users[a][k] = {}
  /\ \A j \in Before(k) : users[a][j] = {holder[a]}
  /\ users' = [users EXCEPT ![a] = [@ EXCEPT ![k] = {holder[a]}]]
  /\ UNCHANGED holder

AbsNext ==
  \E a \in Approvals :
     \/ \E b \in Boots : Hand(a, b)
     \/ \E k \in Kinds : Use(a, k)

AbsSpec == AbsInit /\ [][AbsNext]_absVars
=============================================================================
