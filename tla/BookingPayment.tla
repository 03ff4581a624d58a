--------------------------- MODULE BookingPayment ---------------------------
(***************************************************************************)
(* One booking and everybody who may settle it or give up on it: the       *)
(* gateway's signed events (PaymentDomainService.processWebhook), the      *)
(* customer's wallet (BookingSagaOrchestrator.confirmBookingSaga), a card  *)
(* transfer receipt a clerk reviews (actions/receipts.ts), the customer's  *)
(* cancellation, the page view that notices an expired deadline            *)
(* (actions/booking.ts) and the two background sweepers, of stale bookings *)
(* and of lapsed holds.                                                    *)
(*                                                                         *)
(* Each of them reads the booking first and writes it later.  What is one  *)
(* database transaction in the code is one action here, and every read the *)
(* code makes outside the transaction is an action of its own: the writes  *)
(* of the others may come in between.                                      *)
(***************************************************************************)
EXTENDS Integers, FiniteSets

CONSTANTS
    Captures,    \* gateway events that report a settled payment of the right amount
    Failures,    \* validly signed gateway events that report a failed payment
    Spurious,    \* events with a bad signature, amount or currency
    Deliveries,  \* webhook requests the server handles at the same time
    Viewers,     \* requests that load the booking page
    Sweepers,    \* runs of the stale booking sweeper
    Cancellers,  \* cancellation requests
    Receipts,    \* card transfer receipts the customer may hand in
    Reviewers,   \* review requests of finance clerks
    Keys,        \* idempotency keys of the customer's wallet payments
    Price,       \* the booking's total
    MaxBalance,  \* bound: the largest wallet balance to start from
    MaxFaults,   \* bound: webhook requests that die half way
    NoEvent      \* what an idle delivery works on

Events == Captures \cup Failures \cup Spurious

ASSUME PaymentAssumption ==
    /\ Price \in Nat \ {0} /\ MaxBalance \in Nat /\ MaxFaults \in Nat
    /\ NoEvent \notin Events
    /\ Captures \cap Failures = {} /\ (Captures \cup Failures) \cap Spurious = {}
    /\ Events \cap (Receipts \cup Keys) = {} /\ Receipts \cap Keys = {}
    /\ Viewers \cap (Sweepers \cup Cancellers \cup Receipts) = {}
    /\ Sweepers \cap (Cancellers \cup Receipts) = {} /\ Cancellers \cap Receipts = {}

VARIABLES
    status,     \* Booking.status
    payStatus,  \* Booking.paymentStatus
    hold,       \* status of the booking's InventoryHold, "NONE" without one
    clock,      \* 0: in time; 1: the hold has lapsed; 2: the booking too
    webhook,    \* WebhookEvent.status of each gateway event, "none" without a row
    step,       \* how far each delivery has come
    event,      \* what it delivers
    busy,       \* requests that have read the booking and have yet to write it
    checked,    \* sweeper runs that have also found no payment
    receipt,    \* CardTransferReceipt.status of each receipt
    reviews,    \* reviews that have read their receipt and have yet to write
    payments,   \* idempotency keys of the booking's SUCCESS Payment rows
    posted,     \* who paid, in the booking's one posting to the ledger
    opening,    \* the customer's wallet balance at the start
    debits,     \* times the price has been debited from the wallet
    faults,     \* webhook requests that died so far
    reopened    \* a paid booking was cancelled or written over by a stale request

row      == <<status, payStatus>>
money    == <<payments, posted, debits>>
gateway  == <<webhook, step, event>>
requests == <<busy, checked>>
clerks   == <<receipt, reviews>>
vars == <<row, hold, clock, gateway, requests, clerks, money, opening, faults, reopened>>

Payable  == {"DRAFT", "HELD", "PENDING_PAYMENT"}
Terminal == {"EXPIRED"}    \* the other terminal states are beyond this module
Lapsed   == clock > 0
Overdue  == clock = 2
Balance  == opening - debits * Price

PaymentTypeOK ==
    /\ status \in Payable \cup {"CONFIRMED", "CANCEL_REQUESTED", "EXPIRED"}
    /\ payStatus \in {"INITIATED", "PENDING_CUSTOMER", "CAPTURED"}
    /\ hold \in {"NONE", "ACTIVE", "CAPTURED", "EXPIRED", "RELEASED"}
    /\ clock \in 0..2
    /\ webhook \in [Events -> {"none", "RECEIVED", "PROCESSED", "REJECTED"}]
    /\ step \in [Deliveries -> {"idle", "looked", "recorded", "accepted", "refused"}]
    /\ event \in [Deliveries -> Events \cup {NoEvent}]
    /\ \A d \in Deliveries : step[d] = "idle" <=> event[d] = NoEvent
    /\ busy \subseteq Viewers \cup Sweepers \cup Cancellers \cup Receipts
    /\ checked \subseteq Sweepers \cap busy
    /\ receipt \in [Receipts -> {"none", "PENDING_REVIEW", "APPROVED", "REJECTED"}]
    /\ reviews \subseteq Reviewers \X Receipts \X {"APPROVE", "REJECT"}
    /\ payments \subseteq Events \cup Receipts \cup Keys
    /\ posted \in {"none", "gateway", "wallet"}
    /\ opening \in 0..MaxBalance /\ debits \in Nat
    /\ faults \in 0..MaxFaults
    /\ reopened \in BOOLEAN

(* createDraft: HELD with a hold, DRAFT without one.                       *)
PaymentInit ==
    /\ \/ status = "HELD" /\ hold = "ACTIVE"
       \/ status = "DRAFT" /\ hold = "NONE"
    /\ payStatus = "INITIATED"
    /\ clock = 0
    /\ webhook = [e \in Events |-> "none"]
    /\ step = [d \in Deliveries |-> "idle"]
    /\ event = [d \in Deliveries |-> NoEvent]
    /\ busy = {} /\ checked = {}
    /\ receipt = [r \in Receipts |-> "none"]
    /\ reviews = {}
    /\ payments = {} /\ posted = "none" /\ debits = 0
    /\ opening \in 0..MaxBalance
    /\ faults = 0
    /\ reopened = FALSE

(***************************************************************************)
(* Shared steps.                                                           *)
(***************************************************************************)

(* Faulty variants of the definitions below, for checking the properties.  *)
KnowsAny(e) == webhook[e] # "none"
TrustsAnyReport(e) == e \in Captures \cup Failures
SeesNoCapture == FALSE
LeavesHold == hold
SweepsBlindly == TRUE
PostsAgain == TRUE
KeepsEvent(d) == step' = [step EXCEPT ![d] = "idle"] /\ UNCHANGED event

(* An event whose row is PROCESSED or REJECTED is answered at once.        *)
Settled(e) == webhook[e] \in {"PROCESSED", "REJECTED"}

(* captureHold: an ACTIVE hold in time is captured and a CAPTURED one is   *)
(* fine as it is.                                                          *)
HoldCapturable == hold = "ACTIVE" => ~Lapsed
HoldFits == hold \in {"NONE", "ACTIVE", "CAPTURED"} /\ HoldCapturable
HoldAfterCapture == IF hold = "ACTIVE" THEN "CAPTURED" ELSE hold

(* A write that lands on a booking somebody has already paid for.          *)
WriteOver == reopened' = (reopened \/ payments # {})

(* postBalancedEntry: one posting for each booking, whoever makes it.      *)
FirstPosting == posted = "none"

Confirm(payment, payer) ==
    /\ payments' = payments \cup {payment}
    /\ status' = "CONFIRMED" /\ payStatus' = "CAPTURED"
    /\ hold' = HoldAfterCapture
    /\ posted' = IF FirstPosting THEN payer ELSE posted

(***************************************************************************)
(* processWebhook.  Lookup and Record are two statements, the verdict on   *)
(* the booking is read outside any transaction, and the capture is one     *)
(* Serializable transaction.                                               *)
(***************************************************************************)
Answer(d) ==
    /\ step' = [step EXCEPT ![d] = "idle"]
    /\ event' = [event EXCEPT ![d] = NoEvent]

(* The gateway delivers e, possibly for the second time or twice at once.  *)
Lookup(d, e) ==
    /\ step[d] = "idle" /\ ~Settled(e)
    /\ step' = [step EXCEPT ![d] = "looked"]
    /\ event' = [event EXCEPT ![d] = e]
    /\ UNCHANGED <<row, hold, clock, webhook, requests, clerks, money, opening,
                   faults, reopened>>

(* The upsert makes the row RECEIVED, even one that was settled meanwhile. *)
Record(d) ==
    /\ step[d] = "looked"
    /\ webhook' = [webhook EXCEPT ![event[d]] = "RECEIVED"]
    /\ step' = [step EXCEPT ![d] = "recorded"]
    /\ UNCHANGED <<row, hold, clock, event, requests, clerks, money, opening,
                   faults, reopened>>

ReportFailure(d) ==
    /\ step[d] = "recorded" /\ event[d] \in Failures
    /\ webhook' = [webhook EXCEPT ![event[d]] = "PROCESSED"]
    /\ Answer(d)
    /\ UNCHANGED <<row, hold, clock, requests, clerks, money, opening,
                   faults, reopened>>

ReportsPayment(e) == e \in Captures

(* Signature, state of the booking, amount and currency.                   *)
Judge(d) ==
    /\ step[d] = "recorded"
    /\ \/ event[d] \in Spurious
       \/ ReportsPayment(event[d])
    /\ step' = [step EXCEPT ![d] =
                 IF event[d] \in Spurious \/ status \in Terminal
                 THEN "refused" ELSE "accepted"]
    /\ UNCHANGED <<row, hold, clock, webhook, event, requests, clerks, money,
                   opening, faults, reopened>>

Reject(d) ==
    /\ step[d] = "refused"
    /\ webhook' = [webhook EXCEPT ![event[d]] = "REJECTED"]
    /\ Answer(d)
    /\ UNCHANGED <<row, hold, clock, requests, clerks, money, opening,
                   faults, reopened>>

(* The booking as the capturing transaction re-reads it.                   *)
AlreadyCaptured == status = "CONFIRMED" /\ payStatus = "CAPTURED"

Collapse(d) ==
    /\ step[d] = "accepted" /\ AlreadyCaptured
    /\ webhook' = [webhook EXCEPT ![event[d]] = "PROCESSED"]
    /\ Answer(d)
    /\ UNCHANGED <<row, hold, clock, requests, clerks, money, opening,
                   faults, reopened>>

Capture(d) ==
    /\ step[d] = "accepted" /\ ~AlreadyCaptured
    /\ event[d] \notin payments /\ HoldCapturable
    /\ Confirm(event[d], "gateway")
    /\ webhook' = [webhook EXCEPT ![event[d]] = "PROCESSED"]
    /\ Answer(d)
    /\ UNCHANGED <<clock, requests, clerks, debits, opening, faults, reopened>>

(* The Payment row exists, or the hold has lapsed but nobody has swept it: *)
(* the transaction rolls back, the row stays RECEIVED and the gateway is   *)
(* told to try again.                                                      *)
CaptureThrows(d) ==
    /\ step[d] = "accepted" /\ ~AlreadyCaptured
    /\ event[d] \in payments \/ ~HoldCapturable
    /\ Answer(d)
    /\ UNCHANGED <<row, hold, clock, webhook, requests, clerks, money, opening,
                   faults, reopened>>

(* The process dies, or the database fails, between two statements.        *)
Abandon(d) ==
    /\ step[d] # "idle" /\ faults < MaxFaults
    /\ faults' = faults + 1
    /\ Answer(d)
    /\ UNCHANGED <<row, hold, clock, webhook, requests, clerks, money, opening,
                   reopened>>

(***************************************************************************)
(* confirmBookingSaga for a wallet: one Serializable transaction under the *)
(* lock of the booking row.  The wallet is asked twice, by processPayment  *)
(* and by the saga itself, and each call compares the balance with the     *)
(* price before it notices that the booking has been posted already.       *)
(***************************************************************************)
WalletAccepts(k) ==
    LET afterFirst == IF FirstPosting THEN opening - (debits + 1) * Price ELSE Balance
    IN  /\ Balance >= Price
        /\ k \in payments \/ afterFirst >= Price

WalletConfirm(k) ==
    /\ status \in Payable
    /\ WalletAccepts(k)
    /\ HoldFits
    /\ Confirm(k, "wallet")
    /\ debits' = IF FirstPosting THEN debits + 1 ELSE debits
    /\ UNCHANGED <<clock, gateway, requests, clerks, opening, faults, reopened>>

(* 'Insufficient wallet balance': everything is rolled back.  Only the     *)
(* first call comes before the hold is captured.                           *)
WalletRefused(k) ==
    /\ status \in Payable
    /\ ~WalletAccepts(k)
    /\ HoldFits \/ (k \notin payments /\ Balance < Price)
    /\ UNCHANGED <<row, hold, clock, gateway, requests, clerks, money, opening,
                   faults, reopened>>

(***************************************************************************)
(* The card transfer: the customer hands in a receipt, a clerk reviews it. *)
(***************************************************************************)
SubmitRead(r) ==
    /\ receipt[r] = "none" /\ r \notin busy
    /\ ~AlreadyCaptured
    /\ busy' = busy \cup {r}
    /\ UNCHANGED <<row, hold, clock, gateway, checked, clerks, money, opening,
                   faults, reopened>>

SubmitWrite(r) ==
    /\ r \in busy
    /\ busy' = busy \ {r}
    /\ receipt' = [receipt EXCEPT ![r] = "PENDING_REVIEW"]
    /\ status' = "PENDING_PAYMENT" /\ payStatus' = "PENDING_CUSTOMER"
    /\ WriteOver
    /\ UNCHANGED <<hold, clock, gateway, checked, reviews, money, opening,
                   faults>>

ReviewRead(m, r, decision) ==
    /\ receipt[r] = "PENDING_REVIEW"
    /\ ~ \E review \in reviews : review[1] = m
    /\ decision = "APPROVE" => status \notin Terminal /\ payStatus # "CAPTURED"
    /\ reviews' = reviews \cup {<<m, r, decision>>}
    /\ UNCHANGED <<row, hold, clock, gateway, requests, receipt, money, opening,
                   faults, reopened>>

Approve(m, r) ==
    /\ <<m, r, "APPROVE">> \in reviews
    /\ HoldCapturable
    /\ reviews' = reviews \ {<<m, r, "APPROVE">>}
    /\ receipt' = [receipt EXCEPT ![r] = "APPROVED"]
    /\ Confirm(r, "gateway")
    /\ WriteOver
    /\ UNCHANGED <<clock, gateway, requests, debits, opening, faults>>

ApproveThrows(m, r) ==
    /\ <<m, r, "APPROVE">> \in reviews
    /\ ~HoldCapturable
    /\ reviews' = reviews \ {<<m, r, "APPROVE">>}
    /\ UNCHANGED <<row, hold, clock, gateway, requests, receipt, money, opening,
                   faults, reopened>>

RejectReceipt(m, r) ==
    /\ <<m, r, "REJECT">> \in reviews
    /\ reviews' = reviews \ {<<m, r, "REJECT">>}
    /\ receipt' = [receipt EXCEPT ![r] = "REJECTED"]
    /\ UNCHANGED <<row, hold, clock, gateway, requests, money, opening,
                   faults, reopened>>

(***************************************************************************)
(* Giving up: the page view, the stale booking sweeper, the cancellation   *)
(* and the sweeper of lapsed holds.                                        *)
(***************************************************************************)
ViewRead(v) ==
    /\ v \notin busy /\ Overdue /\ status \in Payable
    /\ busy' = busy \cup {v}
    /\ UNCHANGED <<row, hold, clock, gateway, checked, clerks, money, opening,
                   faults, reopened>>

(* The update names the booking and nothing else.                          *)
ViewExpire(v) ==
    /\ v \in busy
    /\ busy' = busy \ {v}
    /\ status' = "EXPIRED"
    /\ WriteOver
    /\ UNCHANGED <<payStatus, hold, clock, gateway, checked, clerks, money, opening,
                   faults>>

SweepRead(s) ==
    /\ s \notin busy /\ Overdue /\ status \in {"HELD", "PENDING_PAYMENT"}
    /\ busy' = busy \cup {s}
    /\ UNCHANGED <<row, hold, clock, gateway, checked, clerks, money, opening,
                   faults, reopened>>

SweepCheck(s) ==
    /\ s \in busy \ checked
    /\ IF payments = {}
       THEN checked' = checked \cup {s} /\ UNCHANGED busy
       ELSE busy' = busy \ {s} /\ UNCHANGED checked
    /\ UNCHANGED <<row, hold, clock, gateway, clerks, money, opening,
                   faults, reopened>>

StillSweepable == status \in {"HELD", "PENDING_PAYMENT"}

(* The update names the statuses the booking must still be in.             *)
SweepUpdate(s) ==
    /\ s \in checked
    /\ busy' = busy \ {s} /\ checked' = checked \ {s}
    /\ status' = IF StillSweepable THEN "EXPIRED" ELSE status
    /\ UNCHANGED <<payStatus, hold, clock, gateway, clerks, money, opening,
                   faults, reopened>>

CancelRead(c) ==
    /\ c \notin busy /\ status = "CONFIRMED"
    /\ busy' = busy \cup {c}
    /\ UNCHANGED <<row, hold, clock, gateway, checked, clerks, money, opening,
                   faults, reopened>>

CancelWrite(c) ==
    /\ c \in busy
    /\ busy' = busy \ {c}
    /\ status' = "CANCEL_REQUESTED"
    /\ hold' = IF hold = "ACTIVE" THEN "RELEASED" ELSE hold
    /\ WriteOver
    /\ UNCHANGED <<payStatus, clock, gateway, checked, clerks, money, opening,
                   faults>>

HoldSweep ==
    /\ hold = "ACTIVE" /\ Lapsed
    /\ hold' = "EXPIRED"
    /\ UNCHANGED <<row, clock, gateway, requests, clerks, money, opening,
                   faults, reopened>>

Tick ==
    /\ clock < 2
    /\ clock' = clock + 1
    /\ UNCHANGED <<row, hold, gateway, requests, clerks, money, opening,
                   faults, reopened>>

Deliver(d) ==
    \/ Record(d) \/ ReportFailure(d) \/ Judge(d) \/ Reject(d)
    \/ Collapse(d) \/ Capture(d) \/ CaptureThrows(d)

PaymentNext ==
    \/ \E d \in Deliveries, e \in Events : Lookup(d, e)
    \/ \E d \in Deliveries : Deliver(d) \/ Abandon(d)
    \/ \E k \in Keys : WalletConfirm(k) \/ WalletRefused(k)
    \/ \E r \in Receipts : SubmitRead(r) \/ SubmitWrite(r)
    \/ \E m \in Reviewers, r \in Receipts :
          \/ \E decision \in {"APPROVE", "REJECT"} : ReviewRead(m, r, decision)
          \/ Approve(m, r) \/ ApproveThrows(m, r) \/ RejectReceipt(m, r)
    \/ \E v \in Viewers : ViewRead(v) \/ ViewExpire(v)
    \/ \E s \in Sweepers : SweepRead(s) \/ SweepCheck(s) \/ SweepUpdate(s)
    \/ \E c \in Cancellers : CancelRead(c) \/ CancelWrite(c)
    \/ HoldSweep
    \/ Tick

PaymentSpec == PaymentInit /\ [][PaymentNext]_vars

(***************************************************************************)
(* Time passes, the sweeper of holds runs, a request the server has taken  *)
(* is worked on until it ends or dies, and the gateway delivers an event   *)
(* again and again until it is told that the event is settled.             *)
(***************************************************************************)
FairPaymentSpec ==
    /\ PaymentSpec
    /\ WF_vars(Tick)
    /\ WF_vars(HoldSweep)
    /\ \A d \in Deliveries : WF_vars(Deliver(d))
    /\ \A e \in Events : SF_vars(\E d \in Deliveries : Lookup(d, e))

(***************************************************************************)
(* What holds.                                                             *)
(***************************************************************************)

(* A confirmed booking has been paid, by money that arrived: no failure    *)
(* report and no spurious event ever became a Payment, whatever deliveries *)
(* raced (processWebhook, reviewCardTransferReceipt, confirmBookingSaga).  *)
ConfirmedIsPaid ==
    /\ payments \subseteq Captures \cup Receipts \cup Keys
    /\ status = "CONFIRMED" => payStatus = "CAPTURED" /\ payments # {}

(* Inventory and money move together: a captured hold has been paid for,   *)
(* and no confirmed booking leaves its hold to the sweeper (the capture of *)
(* the active holds in each of the three ways to pay).                     *)
HoldsFollowMoney ==
    /\ hold = "CAPTURED" => payments # {}
    /\ status = "CONFIRMED" => hold # "ACTIVE"

(* PAY-104, one capture per booking: a booking collects a second payment   *)
(* only after a paid booking was cancelled or written over by a request    *)
(* that had read it earlier.                                               *)
SecondPaymentsExplained == Cardinality(payments) > 1 => reopened

(* The stale booking sweeper never expires a booking that has been paid,   *)
(* although it looks for the payment and for the booking in statements of  *)
(* their own (expireStaleBookings).                                        *)
PaidExpiredOnlyIfReopened == status = "EXPIRED" /\ payments # {} => reopened

(* The ledger has exactly one posting for a paid booking and none for an   *)
(* unpaid one, and the wallet is debited once if that posting is the       *)
(* wallet's and never otherwise, although the saga asks the wallet twice   *)
(* (FIN-102, postBalancedEntry).                                           *)
LedgerFollowsMoney ==
    /\ posted # "none" <=> payments # {}
    /\ debits = IF posted = "wallet" THEN 1 ELSE 0

(* A gateway event the server has recorded is settled in the end, or has   *)
(* become a payment: redelivery and the sweeper of holds together get it   *)
(* past deaths of the server and past a lapsed hold.                       *)
EventsSettle ==
    \A e \in Events :
        webhook[e] = "RECEIVED" /\ e \notin payments ~>
            webhook[e] \in {"PROCESSED", "REJECTED"} \/ e \in payments

(***************************************************************************)
(* What the code or its documents say and the code does not do.            *)
(***************************************************************************)

(* BookingStateMachine.isConsistent, rule 7: an EXPIRED booking cannot     *)
(* have a CAPTURED payment (actions/booking.ts expires without looking).   *)
ExpiredIsUnpaid == status = "EXPIRED" => payStatus # "CAPTURED"
=============================================================================
