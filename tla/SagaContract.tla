---------------------------- MODULE SagaContract ----------------------------
(***************************************************************************)
(* What confirming a booking promises the customer, whatever fails: the    *)
(* price is taken at most once, given back at most once and only if it was *)
(* taken; a booking is confirmed only over money that was taken, and over  *)
(* money that was given back only after a mishap; and a failed booking     *)
(* stays failed.                                                           *)
(*                                                                         *)
(* This is what BookingSagaCoordinator is written for, not how it does it; *)
(* ConfirmationSaga is shown to implement it.                              *)
(***************************************************************************)

VARIABLES
    money,      \* the customer's price: "kept", "taken", "returned"
    verdict,    \* the booking: "open", "confirmed", "failed"
    mishap      \* an attempt broke off and left an effect unrecorded

contractVars == <<money, verdict, mishap>>

ContractInit == money = "kept" /\ verdict = "open" /\ mishap = FALSE

TakeMoney ==
    /\ verdict = "open" /\ money = "kept"
    /\ money' = "taken" /\ UNCHANGED <<verdict, mishap>>

ConfirmBooking ==
    /\ verdict = "open"
    /\ money = "taken" \/ (money = "returned" /\ mishap)
    /\ verdict' = "confirmed" /\ UNCHANGED <<money, mishap>>

ReturnMoney ==
    /\ verdict # "failed" /\ money = "taken"
    /\ money' = "returned" /\ UNCHANGED <<verdict, mishap>>

(* A booking fails before its money was taken, or after it was returned,   *)
(* or over money that somebody has to look after.                          *)
FailBooking ==
    /\ verdict # "failed"
    /\ verdict' = "failed" /\ UNCHANGED <<money, mishap>>

BreakOff == mishap' = TRUE /\ UNCHANGED <<money, verdict>>

ContractNext == TakeMoney \/ ConfirmBooking \/ ReturnMoney \/ FailBooking \/ BreakOff

ContractSpec == ContractInit /\ [][ContractNext]_contractVars
=============================================================================
