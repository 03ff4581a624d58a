-------------------------------- MODULE Refund --------------------------------
(***************************************************************************)
(* Refunds of one paid booking: RefundDomainService.processRefund, its     *)
(* three callers (actions/admin.ts, BookingApplicationService and          *)
(* ExceptionRemediationService), each with its own idempotency key, and a  *)
(* cancellation that read the booking before.                              *)
(*                                                                         *)
(* A refund is one database transaction, read committed: it looks at the   *)
(* booking and at the refunds that are committed, and everything it writes *)
(* appears at its commit.  A payout through a bank is made inside the      *)
(* transaction and outlives its rollback.                                  *)
(*                                                                         *)
(* Every refund is of the whole booking; the penalty reduces what is paid, *)
(* not what counts towards REF-103.                                        *)
(***************************************************************************)
EXTENDS Naturals, FiniteSets

CONSTANTS
    Keys,       \* idempotency keys refunds of the booking are requested under
    Remedies,   \* the keys among them of operational exceptions
    Channels,   \* how the money goes back: "WALLET", "BANK"
    Requests,   \* processRefund transactions that can run at the same time
    Cancels,    \* cancellation requests
    NoKey,      \* what an idle request works on
    MaxAborts   \* bound: transactions that are rolled back

ASSUME RefundAssumption ==
    /\ Remedies \subseteq Keys /\ NoKey \notin Keys
    /\ Channels \subseteq {"WALLET", "BANK"} /\ Channels # {}
    /\ MaxAborts \in Nat

VARIABLES
    bookingIs,  \* Booking.status
    seats,      \* status of the booking's InventoryHold
    refund,     \* Refund.status under each key as committed, "none" without
    stage,      \* how far each request has come
    under,      \* the key it refunds under
    cancelling, \* cancellations that have read the booking
    exception,  \* OperationalException.status of each remedy
    wallet,     \* keys whose refund is posted to the customer's wallet
    bank,       \* payouts the bank has made, for each key
    aborts,
    overlapped, \* auxiliary: two requests were past REF-103 at once
    unrecorded  \* auxiliary: keys with a bank payout that was rolled back

request == <<stage, under>>
refundVars == <<bookingIs, seats, refund, request, cancelling, exception, wallet, bank,
                aborts, overlapped, unrecorded>>

Eligible == {"CONFIRMED", "CANCEL_REQUESTED"}

RefundTypeOK ==
    /\ bookingIs \in Eligible \cup {"REFUNDED"}
    /\ seats \in {"CAPTURED", "RELEASED"}
    /\ refund \in [Keys -> {"none", "SETTLED", "FAILED"}]
    /\ stage \in [Requests -> {"idle", "checked", "created", "credited", "paid", "refused"}]
    /\ under \in [Requests -> Keys \cup {NoKey}]
    /\ \A r \in Requests : stage[r] = "idle" <=> under[r] = NoKey
    /\ cancelling \subseteq Cancels
    /\ exception \in [Remedies -> {"OPEN", "RESOLVED"}]
    /\ wallet \subseteq Keys
    /\ bank \in [Keys -> Nat]
    /\ aborts \in 0..MaxAborts
    /\ overlapped \in BOOLEAN /\ unrecorded \subseteq Keys

(* A booking that is paid, with its seats captured.                        *)
RefundInit ==
    /\ bookingIs = "CONFIRMED" /\ seats = "CAPTURED"
    /\ refund = [k \in Keys |-> "none"]
    /\ stage = [r \in Requests |-> "idle"]
    /\ under = [r \in Requests |-> NoKey]
    /\ cancelling = {}
    /\ exception = [k \in Remedies |-> "OPEN"]
    /\ wallet = {} /\ bank = [k \in Keys |-> 0]
    /\ aborts = 0
    /\ overlapped = FALSE /\ unrecorded = {}

(***************************************************************************)
(* Faulty variants of the definitions below, for checking the properties.  *)
(***************************************************************************)
ForgetsSettled == {k \in Keys : refund[k] \notin {"none", "FAILED", "SETTLED"}}

-----------------------------------------------------------------------------
(* REF-103: what is pending or refunded counts; a FAILED refund does not.  *)
Counted == {k \in Keys : refund[k] \notin {"none", "FAILED"}}

Idle(r) == under' = [under EXCEPT ![r] = NoKey]

Advance(r, from, to) == stage[r] = from /\ stage' = [stage EXCEPT ![r] = to]

InFlight(r) == stage[r] # "idle"

(* The unique index on the key: the row can be inserted.                   *)
KeyFree(r) == refund[under[r]] = "none"

(* requestRefund: a refund under the key is the answer, or is approved     *)
(* again, which a SETTLED or FAILED one refuses; without one the booking   *)
(* has to be eligible and REF-103 to hold, among what is committed.        *)
Check(r, k) ==
    /\ Advance(r, "idle", "checked")
    /\ refund[k] = "none" /\ bookingIs \in Eligible /\ Counted = {}
    /\ under' = [under EXCEPT ![r] = k]
    /\ overlapped' = (overlapped \/ \E o \in Requests : InFlight(o) /\ under[o] # k)
    /\ UNCHANGED <<bookingIs, seats, refund, cancelling, exception, wallet, bank, aborts, unrecorded>>

(* The row is inserted and approved.  An insert under the same key that is *)
(* not committed makes it wait; a committed one makes it fail.             *)
Create(r) ==
    /\ \A o \in Requests \ {r} : under[o] = under[r] => stage[o] = "checked"
    /\ \/ Advance(r, "checked", "created") /\ KeyFree(r) /\ UNCHANGED under
       \/ Advance(r, "checked", "idle") /\ ~KeyFree(r) /\ Idle(r)
    /\ UNCHANGED <<bookingIs, seats, refund, cancelling, exception, wallet, bank, aborts,
                   overlapped, unrecorded>>

(* executeRefundPayout: the bank pays or refuses; the wallet is a posting  *)
(* and never refuses.                                                      *)
PayOut(r) ==
    /\ \/ /\ "BANK" \in Channels /\ Advance(r, "created", "paid")
          /\ bank' = [bank EXCEPT ![under[r]] = @ + 1]
       \/ /\ "BANK" \in Channels /\ Advance(r, "created", "refused")
          /\ UNCHANGED bank
       \/ /\ "WALLET" \in Channels /\ Advance(r, "created", "credited")
          /\ UNCHANGED bank
    /\ UNCHANGED <<bookingIs, seats, refund, under, cancelling, exception, wallet, aborts,
                   overlapped, unrecorded>>

(* The commit: posting, booking, refund and seats at once.                 *)
Commit(r) ==
    /\ \/ /\ Advance(r, "credited", "idle")
          /\ wallet' = wallet \cup {under[r]}
       \/ /\ Advance(r, "paid", "idle")
          /\ UNCHANGED wallet
    /\ Idle(r)
    /\ bookingIs' = "REFUNDED"
    /\ refund' = [refund EXCEPT ![under[r]] = "SETTLED"]
    /\ seats' = "RELEASED"
    /\ UNCHANGED <<cancelling, exception, bank, aborts, overlapped, unrecorded>>

(* A refused payout commits the refund as FAILED.                          *)
CommitRefusal(r) ==
    /\ Advance(r, "refused", "idle") /\ Idle(r)
    /\ refund' = [refund EXCEPT ![under[r]] = "FAILED"]
    /\ UNCHANGED <<bookingIs, seats, cancelling, exception, wallet, bank, aborts, overlapped,
                   unrecorded>>

(* A statement throws, the transaction's 20 seconds are up, or the process *)
(* stops: everything is rolled back but what the bank has done.            *)
Abort(r) ==
    /\ InFlight(r) /\ Advance(r, stage[r], "idle") /\ Idle(r)
    /\ aborts < MaxAborts /\ aborts' = aborts + 1
    /\ unrecorded' = IF stage[r] = "paid"
                     THEN unrecorded \cup {under[r]} ELSE unrecorded
    /\ UNCHANGED <<bookingIs, seats, refund, cancelling, exception, wallet, bank, overlapped>>

(* The remediation of an exception resolves it in a second transaction,    *)
(* after a refund that settled now or before.                              *)
Resolvable(k) == refund[k] = "SETTLED"

Resolve(k) ==
    /\ exception[k] = "OPEN" /\ Resolvable(k)
    /\ exception' = [exception EXCEPT ![k] = "RESOLVED"]
    /\ UNCHANGED <<bookingIs, seats, refund, request, cancelling, wallet, bank, aborts, overlapped,
                   unrecorded>>

(* cancelBooking reads the booking ...                                     *)
CancelRead(c) ==
    /\ c \notin cancelling /\ bookingIs = "CONFIRMED"
    /\ cancelling' = cancelling \cup {c}
    /\ UNCHANGED <<bookingIs, seats, refund, request, exception, wallet, bank, aborts, overlapped,
                   unrecorded>>

(* ... and updates it by id: a REFUNDED booking is eligible again.         *)
CancelWrite(c) ==
    /\ c \in cancelling
    /\ cancelling' = cancelling \ {c}
    /\ bookingIs' = "CANCEL_REQUESTED"
    /\ UNCHANGED <<seats, refund, request, exception, wallet, bank, aborts, overlapped, unrecorded>>

RefundNext ==
    \/ \E r \in Requests :
         \/ \E k \in Keys : Check(r, k)
         \/ Create(r) \/ PayOut(r) \/ Commit(r) \/ CommitRefusal(r) \/ Abort(r)
    \/ \E k \in Remedies : Resolve(k)
    \/ \E c \in Cancels : CancelRead(c) \/ CancelWrite(c)

RefundSpec == RefundInit /\ [][RefundNext]_refundVars

-----------------------------------------------------------------------------
(* The booking is refunded once, whoever asks and however often, even when *)
(* a stale cancellation makes it eligible again; and one key pays once,    *)
(* by one channel.  Unless two refunds under different keys had both       *)
(* passed REF-103, or a rollback has hidden a payout of the bank.          *)
RefundedOnce ==
    /\ Cardinality(wallet) + Cardinality({k \in Keys : bank[k] > 0}) > 1 =>
         overlapped \/ unrecorded # {}
    /\ \A k \in Keys \ unrecorded : bank[k] <= 1 /\ (bank[k] = 1 => k \notin wallet)
=============================================================================
