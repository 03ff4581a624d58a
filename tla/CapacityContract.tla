-------------------------- MODULE CapacityContract --------------------------
(***************************************************************************)
(* What the inventory promises the rest of the platform about one          *)
(* allotment, without clocks, locks, sweeps or counters: a hold is opened  *)
(* once, sold at most once and only while it is open, a sold hold can only *)
(* be refunded, and what is sold never exceeds the capacity.               *)
(***************************************************************************)
EXTENDS HoldQuantities

CONSTANTS Capacity, PreBooked

VARIABLES phase, size

Phase == {"none", "open", "sold", "closed"}

Sold == {h \in Holds : phase[h] = "sold"}

Init ==
  /\ phase = [h \in Holds |-> "none"]
  /\ size = [h \in Holds |-> 0]

Open(h, q) ==
  /\ phase[h] = "none"
  /\ phase' = [phase EXCEPT ![h] = "open"]
  /\ size' = [size EXCEPT ![h] = q]

Sell(h) ==
  /\ phase[h] = "open"
  /\ PreBooked + SumOfQuantities(Sold \cup {h}, size) <= Capacity
  /\ phase' = [phase EXCEPT ![h] = "sold"]
  /\ UNCHANGED size

\* Any open holds close together: a sweep closes a batch of them.
Close(S) ==
  /\ \A h \in S : phase[h] = "open"
  /\ phase' = [h \in Holds |-> IF h \in S THEN "closed" ELSE phase[h]]
  /\ UNCHANGED size

Refund(h) ==
  /\ phase[h] = "sold"
  /\ phase' = [phase EXCEPT ![h] = "closed"]
  /\ UNCHANGED size

Next ==
  \/ \E h \in Holds :
       \/ \E q \in 1..MaxQty : Open(h, q)
       \/ Sell(h)
       \/ Refund(h)
  \/ \E S \in SUBSET Holds : Close(S)

Spec == Init /\ [][Next]_<<phase, size>>
=============================================================================
