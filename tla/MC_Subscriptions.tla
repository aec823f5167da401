---------------------------- MODULE MC_Subscriptions ----------------------------
(***************************************************************************)
(* Subscriptions over small sets, and the connection of one browser beside *)
(* them: an initial state chooses whether the server's books or the        *)
(* browser's timers are looked at (its world); the other one stands still. *)
(***************************************************************************)
EXTENDS Subscriptions, Connection

VARIABLE world

ASSUME ConnectionConstants == ConnectionAssumption

MCInit == world \in {"server", "browser"} /\ Init /\ ConnectionInit

MCNext ==
  /\ UNCHANGED world
  /\ \/ world = "server" /\ Next /\ UNCHANGED connectionVars
     \/ world = "browser" /\ ConnectionNext /\ UNCHANGED vars

(* In a world that stands still none of these actions is enabled. *)
MCSpec ==
  /\ MCInit /\ [][MCNext]_<<vars, connectionVars, world>>
  /\ WF_vars(Resume) /\ \A y \in Symbols : WF_vars(CleanupFires(y))
  /\ ConnectionFairness
=============================================================================
