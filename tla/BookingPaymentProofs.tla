------------------------ MODULE BookingPaymentProofs ------------------------
(***************************************************************************)
(* What holds of a booking's money for any number of events, deliveries,   *)
(* receipts, keys and requests, and for every price and balance.           *)
(*                                                                         *)
(* PaymentInv adds two facts to the properties: a delivery that has been   *)
(* accepted delivers a capture, and a paid booking that nobody has         *)
(* reopened has one payment and still shows it.  The second is what the    *)
(* capture's look at the booking, the wallet's list of payable states and  *)
(* the sweeper's conditional update all rest on.                           *)
(***************************************************************************)
EXTENDS BookingPayment, FiniteSetTheorems, TLAPS

AcceptedAreCaptures ==
    \A d \in Deliveries : step[d] = "accepted" => event[d] \in Captures

PaidOnceUntilReopened ==
    payments # {} /\ ~reopened =>
        AlreadyCaptured /\ \E p \in payments : payments = {p}

PaymentInv ==
    /\ PaymentTypeOK
    /\ AcceptedAreCaptures
    /\ ConfirmedIsPaid
    /\ HoldsFollowMoney
    /\ PaidOnceUntilReopened
    /\ LedgerFollowsMoney

(* The properties of second payments and of the sweeper follow.            *)
LEMMA InvExplains == PaymentInv => SecondPaymentsExplained /\ PaidExpiredOnlyIfReopened
<1> SUFFICES ASSUME PaymentInv
             PROVE  SecondPaymentsExplained /\ PaidExpiredOnlyIfReopened
  OBVIOUS
<1>1. SecondPaymentsExplained
  <2> SUFFICES ASSUME Cardinality(payments) > 1, ~reopened
               PROVE  FALSE
    BY DEF SecondPaymentsExplained
  <2>1. CASE payments = {}
    BY <2>1, FS_EmptySet
  <2>2. CASE payments # {}
    <3>1. PICK p \in payments : payments = {p}
      BY <2>2 DEF PaymentInv, PaidOnceUntilReopened
    <3> QED
      BY <3>1, FS_Singleton
  <2> QED
    BY <2>1, <2>2
<1>2. PaidExpiredOnlyIfReopened
  BY DEF PaymentInv, PaidOnceUntilReopened, PaidExpiredOnlyIfReopened, AlreadyCaptured
<1> QED
  BY <1>1, <1>2

(* The invariant holds of a new booking.                                   *)
LEMMA PaymentInvInit == PaymentInit => PaymentInv
<1> SUFFICES ASSUME PaymentInit
             PROVE  PaymentInv
  OBVIOUS
<1>1. PaymentTypeOK
  <2>1. /\ webhook \in [Events -> {"none", "RECEIVED", "PROCESSED", "REJECTED"}]
        /\ step \in [Deliveries -> {"idle", "looked", "recorded", "accepted", "refused"}]
        /\ event \in [Deliveries -> Events \cup {NoEvent}]
        /\ \A d \in Deliveries : step[d] = "idle" <=> event[d] = NoEvent
        /\ receipt \in [Receipts -> {"none", "PENDING_REVIEW", "APPROVED", "REJECTED"}]
    BY DEF PaymentInit
  <2>2. clock \in 0..2 /\ debits \in Nat /\ faults \in 0..MaxFaults /\ opening \in 0..MaxBalance
    BY PaymentAssumption DEF PaymentInit
  <2> QED
    BY <2>1, <2>2 DEF PaymentInit, PaymentTypeOK, Payable
<1>2. AcceptedAreCaptures
  BY DEF PaymentInit, AcceptedAreCaptures
<1>3. ConfirmedIsPaid /\ HoldsFollowMoney /\ PaidOnceUntilReopened /\ LedgerFollowsMoney
  BY DEF PaymentInit, ConfirmedIsPaid, HoldsFollowMoney, PaidOnceUntilReopened,
         LedgerFollowsMoney
<1> QED
  BY <1>1, <1>2, <1>3 DEF PaymentInv

(* A step that leaves the booking, its hold and its money alone keeps what *)
(* the invariant says of them.                                             *)
LEMMA MoneyUntouched ==
  ASSUME PaymentInv, UNCHANGED <<row, hold, money, reopened>>
  PROVE  /\ ConfirmedIsPaid' /\ HoldsFollowMoney'
         /\ PaidOnceUntilReopened' /\ LedgerFollowsMoney'
BY DEF PaymentInv, row, money, ConfirmedIsPaid, HoldsFollowMoney,
       PaidOnceUntilReopened, LedgerFollowsMoney, AlreadyCaptured

(* So does a write to the status of the booking that does not confirm it   *)
(* and that counts as reopening it if it has been paid.                    *)
LEMMA RowWritten ==
  ASSUME PaymentInv, UNCHANGED money, WriteOver, status' # "CONFIRMED",
         hold' = hold \/ hold' = "RELEASED"
  PROVE  /\ ConfirmedIsPaid' /\ HoldsFollowMoney'
         /\ PaidOnceUntilReopened' /\ LedgerFollowsMoney'
BY DEF PaymentInv, money, ConfirmedIsPaid, HoldsFollowMoney, WriteOver,
       PaidOnceUntilReopened, LedgerFollowsMoney, AlreadyCaptured

(* A payment of any kind confirms the booking and captures its hold.       *)
LEMMA Confirmed ==
  ASSUME PaymentInv, NEW p \in Captures \cup Receipts \cup Keys, NEW payer,
         Confirm(p, payer)
  PROVE  ConfirmedIsPaid' /\ HoldsFollowMoney' /\ AlreadyCaptured'
BY DEF PaymentInv, Confirm, HoldAfterCapture, ConfirmedIsPaid, HoldsFollowMoney,
       AlreadyCaptured

(* It is the only one if the booking was not paid before, and the ledger   *)
(* keeps the posting it has.                                               *)
LEMMA ConfirmedOnce ==
  ASSUME PaymentInv, NEW p, NEW payer, Confirm(p, payer),
         payments = {} \/ reopened', reopened => reopened'
  PROVE  PaidOnceUntilReopened'
BY DEF PaymentInv, Confirm, PaidOnceUntilReopened, AlreadyCaptured

(* A delivery that ends and one that moves on keep the types and leave     *)
(* only captures accepted.                                                 *)
LEMMA Answered ==
  ASSUME PaymentInv, NEW d \in Deliveries, Answer(d)
  PROVE  /\ step' \in [Deliveries -> {"idle", "looked", "recorded", "accepted", "refused"}]
         /\ event' \in [Deliveries -> Events \cup {NoEvent}]
         /\ \A c \in Deliveries : step'[c] = "idle" <=> event'[c] = NoEvent
         /\ AcceptedAreCaptures'
BY DEF PaymentInv, PaymentTypeOK, Answer, AcceptedAreCaptures

(* Every step keeps the invariant.                                         *)
LEMMA PaymentInvNext == PaymentInv /\ [PaymentNext]_vars => PaymentInv'
<1> SUFFICES ASSUME PaymentInv, [PaymentNext]_vars
             PROVE  PaymentInv'
  OBVIOUS
<1>a. /\ PaymentTypeOK /\ AcceptedAreCaptures
      /\ ConfirmedIsPaid /\ LedgerFollowsMoney /\ PaidOnceUntilReopened
  BY DEF PaymentInv
<1> USE DEF row, money, gateway, requests, clerks
<1>1. ASSUME NEW d \in Deliveries, NEW e \in Events, Lookup(d, e)
      PROVE  PaymentInv'
  <2>1. PaymentTypeOK' /\ AcceptedAreCaptures'
    BY <1>a, <1>1, PaymentAssumption DEF Lookup, PaymentTypeOK, AcceptedAreCaptures
  <2> QED
    BY <2>1, <1>1, MoneyUntouched DEF Lookup, PaymentInv
<1>2. ASSUME NEW d \in Deliveries, Record(d)
      PROVE  PaymentInv'
  <2>1. event[d] \in Events
    BY <1>a, <1>2 DEF Record, PaymentTypeOK
  <2>2. PaymentTypeOK' /\ AcceptedAreCaptures'
    BY <1>a, <1>2, <2>1 DEF Record, PaymentTypeOK, AcceptedAreCaptures
  <2> QED
    BY <2>2, <1>2, MoneyUntouched DEF Record, PaymentInv
<1>3. ASSUME NEW d \in Deliveries, ReportFailure(d)
      PROVE  PaymentInv'
  <2>1. PaymentTypeOK' /\ AcceptedAreCaptures'
    BY <1>a, <1>3, Answered DEF ReportFailure, PaymentTypeOK
  <2> QED
    BY <2>1, <1>3, MoneyUntouched DEF ReportFailure, PaymentInv
<1>4. ASSUME NEW d \in Deliveries, Judge(d)
      PROVE  PaymentInv'
  <2>1. PaymentTypeOK' /\ AcceptedAreCaptures'
    BY <1>a, <1>4 DEF Judge, ReportsPayment, PaymentTypeOK, AcceptedAreCaptures
  <2> QED
    BY <2>1, <1>4, MoneyUntouched DEF Judge, PaymentInv
<1>5. ASSUME NEW d \in Deliveries, Reject(d) \/ Collapse(d) \/ CaptureThrows(d) \/ Abandon(d)
      PROVE  PaymentInv'
  <2>1. Answer(d) /\ UNCHANGED <<row, hold, clock, requests, clerks, money, opening,
                                 reopened>>
    BY <1>5 DEF Reject, Collapse, CaptureThrows, Abandon
  <2>2. webhook' \in [Events -> {"none", "RECEIVED", "PROCESSED", "REJECTED"}]
    BY <1>a, <1>5 DEF Reject, Collapse, CaptureThrows, Abandon, PaymentTypeOK
  <2>3. faults' \in 0..MaxFaults
    BY <1>a, <1>5, PaymentAssumption DEF Reject, Collapse, CaptureThrows, Abandon, PaymentTypeOK
  <2>4. PaymentTypeOK' /\ AcceptedAreCaptures'
    BY <1>a, <2>1, <2>2, <2>3, Answered DEF PaymentTypeOK
  <2> QED
    BY <2>1, <2>4, MoneyUntouched DEF PaymentInv
<1>6. ASSUME NEW d \in Deliveries, Capture(d)
      PROVE  PaymentInv'
  <2>1. event[d] \in Captures
    BY <1>a, <1>6 DEF Capture, AcceptedAreCaptures
  <2>2. Confirm(event[d], "gateway") /\ Answer(d)
    BY <1>6 DEF Capture
  <2>3. webhook' \in [Events -> {"none", "RECEIVED", "PROCESSED", "REJECTED"}]
    BY <1>a, <1>6 DEF Capture, PaymentTypeOK
  <2>4. PaymentTypeOK' /\ AcceptedAreCaptures'
    BY <1>a, <1>6, <2>1, <2>2, <2>3, Answered
       DEF Capture, Confirm, HoldAfterCapture, PaymentTypeOK, Events
  <2>5. payments = {} \/ reopened'
    BY <1>a, <1>6 DEF Capture, PaidOnceUntilReopened
  <2>6. PaidOnceUntilReopened'
    BY <1>6, <2>2, <2>5, ConfirmedOnce DEF Capture
  <2>7. LedgerFollowsMoney'
    BY <1>a, <1>6, <2>2 DEF Capture, Confirm, FirstPosting, LedgerFollowsMoney
  <2> QED
    BY <2>1, <2>2, <2>4, <2>6, <2>7, Confirmed DEF PaymentInv
<1>7. ASSUME NEW k \in Keys, WalletConfirm(k)
      PROVE  PaymentInv'
  <2>1. Confirm(k, "wallet")
    BY <1>7 DEF WalletConfirm
  <2>2. PaymentTypeOK' /\ AcceptedAreCaptures'
    BY <1>a, <1>7, <2>1
       DEF WalletConfirm, Confirm, HoldAfterCapture, PaymentTypeOK, AcceptedAreCaptures
  <2>3. payments = {} \/ reopened'
    BY <1>a, <1>7 DEF WalletConfirm, PaidOnceUntilReopened, AlreadyCaptured, Payable
  <2>4. PaidOnceUntilReopened'
    BY <1>7, <2>1, <2>3, ConfirmedOnce DEF WalletConfirm
  <2>5. LedgerFollowsMoney'
    BY <1>a, <1>7, <2>1 DEF WalletConfirm, Confirm, FirstPosting, LedgerFollowsMoney
  <2> QED
    BY <2>1, <2>2, <2>4, <2>5, Confirmed DEF PaymentInv
<1>8. ASSUME NEW m \in Reviewers, NEW r \in Receipts, Approve(m, r)
      PROVE  PaymentInv'
  <2>1. Confirm(r, "gateway") /\ WriteOver
    BY <1>8 DEF Approve
  <2>2. PaymentTypeOK' /\ AcceptedAreCaptures'
    BY <1>a, <1>8, <2>1
       DEF Approve, Confirm, HoldAfterCapture, WriteOver, PaymentTypeOK, AcceptedAreCaptures
  <2>3. (payments = {} \/ reopened') /\ (reopened => reopened')
    BY <2>1 DEF WriteOver
  <2>4. PaidOnceUntilReopened'
    BY <2>1, <2>3, ConfirmedOnce
  <2>5. LedgerFollowsMoney'
    BY <1>a, <1>8, <2>1 DEF Approve, Confirm, FirstPosting, LedgerFollowsMoney
  <2> QED
    BY <2>1, <2>2, <2>4, <2>5, Confirmed DEF PaymentInv
<1>9. ASSUME UNCHANGED <<row, hold, gateway, money, opening, reopened, faults>>,
             clock' \in 0..2,
             receipt' \in [Receipts -> {"none", "PENDING_REVIEW", "APPROVED", "REJECTED"}],
             reviews' \subseteq Reviewers \X Receipts \X {"APPROVE", "REJECT"},
             busy' \subseteq Viewers \cup Sweepers \cup Cancellers \cup Receipts,
             checked' \subseteq Sweepers \cap busy'
      PROVE  PaymentInv'
  <2>1. PaymentTypeOK' /\ AcceptedAreCaptures'
    BY <1>a, <1>9 DEF PaymentTypeOK, AcceptedAreCaptures
  <2> QED
    BY <2>1, <1>9, MoneyUntouched DEF PaymentInv
<1>10. ASSUME NEW k \in Keys, WalletRefused(k)
       PROVE  PaymentInv'
  BY <1>a, <1>9, <1>10 DEF WalletRefused, PaymentTypeOK
<1>11. ASSUME NEW r \in Receipts, SubmitRead(r)
       PROVE  PaymentInv'
  BY <1>a, <1>9, <1>11 DEF SubmitRead, PaymentTypeOK
<1>12. ASSUME NEW m \in Reviewers, NEW r \in Receipts,
              NEW decision \in {"APPROVE", "REJECT"}, ReviewRead(m, r, decision)
       PROVE  PaymentInv'
  <2>1. <<m, r, decision>> \in Reviewers \X Receipts \X {"APPROVE", "REJECT"}
    OBVIOUS
  <2>2. reviews' \subseteq Reviewers \X Receipts \X {"APPROVE", "REJECT"}
    BY <1>a, <1>12, <2>1 DEF ReviewRead, PaymentTypeOK
  <2> QED
    BY <1>a, <1>9, <1>12, <2>2 DEF ReviewRead, PaymentTypeOK
<1>13. ASSUME NEW m \in Reviewers, NEW r \in Receipts, ApproveThrows(m, r) \/ RejectReceipt(m, r)
       PROVE  PaymentInv'
  <2>1. reviews' \subseteq reviews
    BY <1>13 DEF ApproveThrows, RejectReceipt
  <2>2. receipt' \in [Receipts -> {"none", "PENDING_REVIEW", "APPROVED", "REJECTED"}]
    BY <1>a, <1>13 DEF ApproveThrows, RejectReceipt, PaymentTypeOK
  <2>3. reviews' \subseteq Reviewers \X Receipts \X {"APPROVE", "REJECT"}
    BY <1>a, <2>1 DEF PaymentTypeOK
  <2>4. UNCHANGED <<row, hold, clock, gateway, requests, money, opening,
                    faults, reopened>>
    BY <1>13 DEF ApproveThrows, RejectReceipt
  <2> QED
    BY <1>a, <1>9, <2>2, <2>3, <2>4 DEF PaymentTypeOK
<1>14. ASSUME NEW v \in Viewers, ViewRead(v)
       PROVE  PaymentInv'
  BY <1>a, <1>9, <1>14 DEF ViewRead, PaymentTypeOK
<1>15. ASSUME NEW s \in Sweepers, SweepRead(s)
       PROVE  PaymentInv'
  BY <1>a, <1>9, <1>15 DEF SweepRead, PaymentTypeOK
<1>16. ASSUME NEW s \in Sweepers, SweepCheck(s)
       PROVE  PaymentInv'
  BY <1>a, <1>9, <1>16 DEF SweepCheck, PaymentTypeOK
<1>17. ASSUME NEW c \in Cancellers, CancelRead(c)
       PROVE  PaymentInv'
  BY <1>a, <1>9, <1>17 DEF CancelRead, PaymentTypeOK
<1>18. CASE Tick
  BY <1>a, <1>9, <1>18 DEF Tick, PaymentTypeOK
<1>19. ASSUME NEW r \in Receipts, SubmitWrite(r)
       PROVE  PaymentInv'
  <2>1. PaymentTypeOK' /\ AcceptedAreCaptures'
    BY <1>a, <1>19, PaymentAssumption
       DEF SubmitWrite, WriteOver, PaymentTypeOK, AcceptedAreCaptures, Payable
  <2> QED
    BY <2>1, <1>19, RowWritten DEF SubmitWrite, PaymentInv
<1>20. ASSUME NEW v \in Viewers, ViewExpire(v)
       PROVE  PaymentInv'
  <2>1. PaymentTypeOK' /\ AcceptedAreCaptures'
    BY <1>a, <1>20, PaymentAssumption
       DEF ViewExpire, WriteOver, PaymentTypeOK, AcceptedAreCaptures
  <2> QED
    BY <2>1, <1>20, RowWritten DEF ViewExpire, PaymentInv
<1>21. ASSUME NEW c \in Cancellers, CancelWrite(c)
       PROVE  PaymentInv'
  <2>1. PaymentTypeOK' /\ AcceptedAreCaptures'
    BY <1>a, <1>21, PaymentAssumption
       DEF CancelWrite, WriteOver, PaymentTypeOK, AcceptedAreCaptures
  <2> QED
    BY <2>1, <1>21, RowWritten DEF CancelWrite, PaymentInv
<1>22. ASSUME NEW s \in Sweepers, SweepUpdate(s)
       PROVE  PaymentInv'
  <2>1. PaymentTypeOK' /\ AcceptedAreCaptures'
    BY <1>a, <1>22 DEF SweepUpdate, PaymentTypeOK, AcceptedAreCaptures
  <2>2. ConfirmedIsPaid' /\ HoldsFollowMoney' /\ LedgerFollowsMoney'
    BY <1>22 DEF SweepUpdate, PaymentInv, ConfirmedIsPaid, HoldsFollowMoney,
                 LedgerFollowsMoney
  <2>3. PaidOnceUntilReopened'
    BY <1>a, <1>22 DEF SweepUpdate, StillSweepable, PaidOnceUntilReopened, AlreadyCaptured
  <2> QED
    BY <2>1, <2>2, <2>3 DEF PaymentInv
<1>23. CASE HoldSweep
  <2>1. PaymentTypeOK' /\ AcceptedAreCaptures'
    BY <1>a, <1>23 DEF HoldSweep, PaymentTypeOK, AcceptedAreCaptures
  <2>2. /\ ConfirmedIsPaid' /\ HoldsFollowMoney'
        /\ PaidOnceUntilReopened' /\ LedgerFollowsMoney'
    BY <1>23 DEF HoldSweep, PaymentInv, ConfirmedIsPaid, HoldsFollowMoney,
                 PaidOnceUntilReopened, LedgerFollowsMoney, AlreadyCaptured
  <2> QED
    BY <2>1, <2>2 DEF PaymentInv
<1>24. CASE UNCHANGED vars
  <2>1. PaymentTypeOK' /\ AcceptedAreCaptures'
    BY <1>a, <1>24 DEF vars, PaymentTypeOK, AcceptedAreCaptures
  <2> QED
    BY <2>1, <1>24, MoneyUntouched DEF vars, PaymentInv
<1> QED
  BY <1>1, <1>2, <1>3, <1>4, <1>5, <1>6, <1>7, <1>8, <1>10, <1>11, <1>12, <1>13,
     <1>14, <1>15, <1>16, <1>17, <1>18, <1>19, <1>20, <1>21, <1>22, <1>23, <1>24
     DEF PaymentNext, Deliver

(* The inductive invariant holds in every reachable state.                 *)
LEMMA PaymentInvariance == PaymentSpec => []PaymentInv
BY PaymentInvInit, PaymentInvNext, PTL DEF PaymentSpec

(* Every variable keeps its type, whatever races.                          *)
THEOREM PaymentTypeCorrect == PaymentSpec => []PaymentTypeOK
<1>1. PaymentInv => PaymentTypeOK
  BY DEF PaymentInv
<1> QED
  BY <1>1, PaymentInvariance, PTL

(* A confirmed booking has been paid with money that arrived: the three    *)
(* ways to pay, and deliveries of failure reports, never confirm another.  *)
THEOREM ConfirmationNeedsMoney == PaymentSpec => []ConfirmedIsPaid
<1>1. PaymentInv => ConfirmedIsPaid
  BY DEF PaymentInv
<1> QED
  BY <1>1, PaymentInvariance, PTL

(* No hold is captured without a payment and no confirmed booking leaves   *)
(* its hold behind, for every way to pay.                                  *)
THEOREM InventoryFollowsMoney == PaymentSpec => []HoldsFollowMoney
<1>1. PaymentInv => HoldsFollowMoney
  BY DEF PaymentInv
<1> QED
  BY <1>1, PaymentInvariance, PTL

(* One posting for each paid booking, one wallet debit for each posting of *)
(* the wallet: postBalancedEntry's guards are enough for any number of     *)
(* payments of any kind.                                                   *)
THEOREM OnePosting == PaymentSpec => []LedgerFollowsMoney
<1>1. PaymentInv => LedgerFollowsMoney
  BY DEF PaymentInv
<1> QED
  BY <1>1, PaymentInvariance, PTL

(* A second payment always has a cancelled or overwritten booking behind   *)
(* it, and the sweeper never expires a paid one: PAY-104 and the guard of  *)
(* expireStaleBookings, for any number of racing requests.                 *)
THEOREM SecondPaymentsHaveReasons ==
  PaymentSpec => [](SecondPaymentsExplained /\ PaidExpiredOnlyIfReopened)
BY InvExplains, PaymentInvariance, PTL

(* The sweeper expires no booking that has been paid, for any number of    *)
(* sweeps between its look for the payment and its update.                 *)
THEOREM SweeperSparesPaid == PaymentSpec => []PaidExpiredOnlyIfReopened
BY InvExplains, PaymentInvariance, PTL
=============================================================================
