-------------------------- MODULE MCBookingPayment --------------------------
(* Small bookings for TLC.  Deliveries and gateway events of one kind are  *)
(* interchangeable; a run with a liveness property does not use it.        *)
EXTENDS BookingPayment, TLC

Symmetry == Permutations(Deliveries) \cup Permutations(Captures)
=============================================================================
