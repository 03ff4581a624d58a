--------------------------- MODULE HoldQuantities ---------------------------
(***************************************************************************)
(* Sums of hold quantities. A hold of quantity n stands for n units (seats *)
(* or rooms), and the quantity of a set of holds is the number of their    *)
(* units: a sum that is a cardinality can be reasoned about for every      *)
(* set of holds.                                                           *)
(***************************************************************************)
EXTENDS Integers, FiniteSets

CONSTANTS
  Holds,    \* the tokens createHold may hand out
  MaxQty    \* the largest quantity of one hold

ASSUME HoldsAssumption == IsFiniteSet(Holds)
ASSUME MaxQtyAssumption == MaxQty \in Nat \ {0}

Units(S, q) == {u \in Holds \X (1..MaxQty) : u[1] \in S /\ u[2] <= q[u[1]]}

SumOfQuantities(S, q) == Cardinality(Units(S, q))
=============================================================================
