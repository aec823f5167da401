-------------------------- MODULE MC_ApprovalLease --------------------------
(***************************************************************************)
(* A small instance of ApprovalLease: three boots (a crash, its restart    *)
(* and a second process sharing the ledger) present one approval.          *)
(***************************************************************************)
EXTENDS ApprovalLease, TLC

Symmetric == Permutations(Boots) \union Permutations(Approvals)
=============================================================================
