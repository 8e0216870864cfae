----------------------------- MODULE MCInventory -----------------------------
(***************************************************************************)
(* A bucket of two tickets that is fought over.                            *)
(***************************************************************************)
EXTENDS Inventory, TLC

Symmetric == Permutations(Reservations) \cup Permutations(Orders) \cup Permutations(Issuers)
             \cup Permutations(Sweeps)
=============================================================================
