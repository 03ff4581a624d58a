----------------------------- MODULE MCInventory -----------------------------
(***************************************************************************)
(* Small instances of Inventory for TLC.                                   *)
(***************************************************************************)
EXTENDS Inventory, TLC

Symmetry == Permutations(Holds) \cup Permutations(Sweepers)
=============================================================================
