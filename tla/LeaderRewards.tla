----------------------------- MODULE LeaderRewards -----------------------------
(***************************************************************************)
(* The reward of a group leader, settled by clerks                         *)
(* (actions/admin.ts, settleLeaderRewardAction).                           *)
(*                                                                         *)
(* The reward grows with the passengers of the confirmed bookings that     *)
(* carry the leader's code.  Settling counts them, looks for a voucher     *)
(* that covers as many, and writes one: three statements, only the last of *)
(* them in a transaction.  Bookings, of one passenger each, are confirmed  *)
(* and cancelled meanwhile.                                                *)
(***************************************************************************)
EXTENDS Naturals, FiniteSets

CONSTANTS
    Bookings,   \* bookings that carry the code
    Quota,      \* passengers from which there is a reward: minPax
    Settlers,   \* clerks who can settle the reward at the same time
    MaxVouchers \* bound: vouchers for one number of passengers

ASSUME RewardAssumption ==
    /\ IsFiniteSet(Bookings)
    /\ Quota \in Nat \ {0} /\ MaxVouchers \in Nat

VARIABLES
    confirmed,  \* the bookings that are CONFIRMED
    settling,   \* how far each clerk has come
    passengers, \* stats.confirmedPax, as each clerk has read it
    vouchers,   \* SETTLED vouchers for each number of passengers
    doubled     \* auxiliary: two clerks had both found no voucher

rewardVars == <<confirmed, settling, passengers, vouchers, doubled>>

Counts == 0..Cardinality(Bookings)

RewardTypeOK ==
    /\ confirmed \subseteq Bookings
    /\ settling \in [Settlers -> {"idle", "counted", "clear"}]
    /\ passengers \in [Settlers -> Counts]
    /\ \A s \in Settlers : settling[s] = "idle" <=> passengers[s] = 0
    /\ vouchers \in [Counts -> 0..MaxVouchers]
    /\ doubled \in BOOLEAN

RewardInit ==
    /\ confirmed = {}
    /\ settling = [s \in Settlers |-> "idle"] /\ passengers = [s \in Settlers |-> 0]
    /\ vouchers = [n \in Counts |-> 0]
    /\ doubled = FALSE

(***************************************************************************)
(* Faulty variant of a definition below, for checking the property.        *)
(***************************************************************************)
CoveredByMore(n) == \E m \in Counts : m > n /\ vouchers[m] > 0

-----------------------------------------------------------------------------
ConfirmedPax == Cardinality(confirmed)

(* A voucher that covers as many passengers.                               *)
Covered(n) == \E m \in Counts : m >= n /\ vouchers[m] > 0

Confirm(b) ==
    /\ b \notin confirmed /\ confirmed' = confirmed \cup {b}
    /\ UNCHANGED <<settling, passengers, vouchers, doubled>>

CancelBooking(b) ==
    /\ b \in confirmed /\ confirmed' = confirmed \ {b}
    /\ UNCHANGED <<settling, passengers, vouchers, doubled>>

Settling(s, from, to, n) ==
    /\ settling[s] = from /\ settling' = [settling EXCEPT ![s] = to]
    /\ passengers' = [passengers EXCEPT ![s] = n]

CountPassengers(s) ==
    /\ ConfirmedPax >= Quota
    /\ Settling(s, "idle", "counted", ConfirmedPax)
    /\ UNCHANGED <<confirmed, vouchers, doubled>>

LookForVoucher(s) ==
    /\ \/ /\ Covered(passengers[s]) /\ Settling(s, "counted", "idle", 0)
          /\ UNCHANGED doubled
       \/ /\ ~Covered(passengers[s]) /\ Settling(s, "counted", "clear", passengers[s])
          /\ doubled' = (doubled \/ \E o \in Settlers : settling[o] = "clear")
    /\ UNCHANGED <<confirmed, vouchers>>

WriteVoucher(s) ==
    /\ vouchers[passengers[s]] < MaxVouchers
    /\ vouchers' = [vouchers EXCEPT ![passengers[s]] = @ + 1]
    /\ Settling(s, "clear", "idle", 0)
    /\ UNCHANGED <<confirmed, doubled>>

RewardNext ==
    \/ \E b \in Bookings : Confirm(b) \/ CancelBooking(b)
    \/ \E s \in Settlers : CountPassengers(s) \/ LookForVoucher(s) \/ WriteVoucher(s)

RewardSpec == RewardInit /\ [][RewardNext]_rewardVars

-----------------------------------------------------------------------------
(* A number of passengers is settled once, however the passengers come and *)
(* go, unless two clerks had both found no voucher before either wrote     *)
(* one.                                                                    *)
SettledOnce == doubled \/ \A n \in Counts : vouchers[n] <= 1
=============================================================================
