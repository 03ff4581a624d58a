---------------------------- MODULE CryptoTransfers ----------------------------
(***************************************************************************)
(* Bookings paid by a transfer on a blockchain: actions/crypto-payments.ts.*)
(*                                                                         *)
(* A customer submits the hash of a transfer for a booking, and a clerk    *)
(* approves or rejects the receipt.  Submitting looks whether the hash is  *)
(* claimed for another booking, asks a block explorer, and writes the      *)
(* receipt in a transaction that does not look again; nothing in the       *)
(* database keeps a hash to one receipt.  A review reads the receipt and   *)
(* the booking, and decides later by their ids.                            *)
(*                                                                         *)
(* The explorer's answer is stored and decides nothing here.               *)
(***************************************************************************)
EXTENDS Naturals, FiniteSets

CONSTANTS
    Receipts,   \* submissions, each with the receipt it may write
    Transfers,  \* transfers on the blockchain, by their hash
    Orders,     \* bookings
    Clerks,     \* reviews that can run at the same time
    Nothing     \* what is not known yet, or an idle clerk works on

ASSUME CryptoAssumption == Nothing \notin Receipts \cup Transfers \cup Orders

VARIABLES
    order,     \* each booking: "unpaid", "captured" (CONFIRMED and CAPTURED), or "over"
               \* (expired, refunded, or paid and asked to be cancelled)
    hash, for, \* the transfer and the booking of a submission
    handed,    \* how far it has come
    receipt,   \* CryptoPaymentReceipt.status, "none" without a row
    studied,   \* the receipt each clerk has read
    decision,  \* and what the clerk is about to do with it
    payments,  \* receipts with a SUCCESS payment
    disputed,  \* auxiliary: transfers that two submissions had found free, or
               \* that had a receipt decided twice
    reopened,  \* auxiliary: bookings approved while another approval or a
               \* submission had found them unpaid
    withdrawn  \* auxiliary: bookings cancelled, refunded or expired after they
               \* were paid

cryptoVars == <<order, hash, for, handed, receipt, studied, decision, payments,
                disputed, reopened, withdrawn>>

CryptoTypeOK ==
    /\ order \in [Orders -> {"unpaid", "captured", "over"}]
    /\ hash \in [Receipts -> Transfers \cup {Nothing}]
    /\ for \in [Receipts -> Orders \cup {Nothing}]
    /\ \A r \in Receipts : handed[r] = "looked" \/ receipt[r] # "none" =>
         hash[r] # Nothing /\ for[r] # Nothing
    /\ handed \in [Receipts -> {"new", "looked", "over"}]
    /\ receipt \in [Receipts -> {"none", "PENDING_REVIEW", "APPROVED", "REJECTED"}]
    /\ \A r \in Receipts : receipt[r] # "none" => handed[r] = "over"
    /\ studied \in [Clerks -> Receipts \cup {Nothing}]
    /\ decision \in [Clerks -> {"none", "APPROVE", "REJECT"}]
    /\ \A c \in Clerks : decision[c] = "none" <=> studied[c] = Nothing
    /\ payments \subseteq Receipts
    /\ disputed \subseteq Transfers /\ reopened \subseteq Orders /\ withdrawn \subseteq Orders

CryptoInit ==
    /\ order = [o \in Orders |-> "unpaid"]
    /\ hash = [r \in Receipts |-> Nothing] /\ for = [r \in Receipts |-> Nothing]
    /\ handed = [r \in Receipts |-> "new"]
    /\ receipt = [r \in Receipts |-> "none"]
    /\ studied = [c \in Clerks |-> Nothing]
    /\ decision = [c \in Clerks |-> "none"]
    /\ payments = {} /\ disputed = {} /\ reopened = {} /\ withdrawn = {}

(***************************************************************************)
(* Faulty variant of a definition below, for checking the property.        *)
(***************************************************************************)
Awaiting(x, o) ==
    \E r \in Receipts : hash[r] = x /\ for[r] # o /\ receipt[r] = "PENDING_REVIEW"

-----------------------------------------------------------------------------
(* A receipt of another booking claims the transfer.                       *)
Claimed(x, o) ==
    \E r \in Receipts :
        hash[r] = x /\ for[r] # o /\ receipt[r] \in {"PENDING_REVIEW", "APPROVED"}

(* submitCryptoPayment, up to the answer of the block explorer.  A booking *)
(* that has expired may be paid all the same, and one that was paid and    *)
(* then cancelled or refunded may be paid once more.                       *)
SubmitLook(r, x, o) ==
    /\ handed[r] = "new"
    /\ \/ /\ order[o] = "captured" \/ Claimed(x, o)
          /\ handed' = [handed EXCEPT ![r] = "over"]
          /\ UNCHANGED <<hash, for>>
       \/ /\ order[o] # "captured" /\ ~Claimed(x, o)
          /\ handed' = [handed EXCEPT ![r] = "looked"]
          /\ hash' = [hash EXCEPT ![r] = x] /\ for' = [for EXCEPT ![r] = o]
    /\ UNCHANGED <<order, receipt, studied, decision, payments, disputed, reopened, withdrawn>>

(* Its transaction: the receipt, and the booking awaits its payment.       *)
SubmitWrite(r) ==
    /\ handed[r] = "looked" /\ handed' = [handed EXCEPT ![r] = "over"]
    /\ receipt' = [receipt EXCEPT ![r] = "PENDING_REVIEW"]
    /\ order' = [order EXCEPT ![for[r]] = "unpaid"]
    /\ disputed' = IF \E s \in Receipts : handed[s] = "looked" /\ hash[s] = hash[r] /\ for[s] # for[r]
                   THEN disputed \cup {hash[r]} ELSE disputed
    /\ UNCHANGED <<hash, for, studied, decision, payments, reopened, withdrawn>>

(* reviewCryptoPayment: a pending receipt, and to approve it a booking     *)
(* that is neither over nor settled.                                       *)
Study(c, r) ==
    /\ studied[c] = Nothing /\ receipt[r] = "PENDING_REVIEW"
    /\ studied' = [studied EXCEPT ![c] = r]
    /\ \/ order[for[r]] = "unpaid" /\ decision' = [decision EXCEPT ![c] = "APPROVE"]
       \/ decision' = [decision EXCEPT ![c] = "REJECT"]
    /\ UNCHANGED <<order, hash, for, handed, receipt, payments, disputed, reopened, withdrawn>>

Decide(c, verb, status) ==
    /\ decision[c] = verb /\ decision' = [decision EXCEPT ![c] = "none"]
    /\ studied' = [studied EXCEPT ![c] = Nothing]
    /\ receipt' = [receipt EXCEPT ![studied[c]] = status]
    /\ disputed' = IF receipt[studied[c]] # "PENDING_REVIEW"
                   THEN disputed \cup {hash[studied[c]]} ELSE disputed
    /\ UNCHANGED <<hash, for, handed, withdrawn>>

(* Somebody else is about to write what follows from an unpaid booking.    *)
FoundUnpaid(c, o) ==
    \/ \E r \in Receipts : handed[r] = "looked" /\ for[r] = o
    \/ \E d \in Clerks \ {c} : decision[d] = "APPROVE" /\ for[studied[d]] = o

(* The payment of a receipt is upserted, and the booking CONFIRMED.  Its   *)
(* posting, one for each booking, is left to GeneralLedgerService.         *)
ApproveTransfer(c) ==
    /\ Decide(c, "APPROVE", "APPROVED")
    /\ payments' = payments \cup {studied[c]}
    /\ order' = [order EXCEPT ![for[studied[c]]] = "captured"]
    /\ reopened' = IF FoundUnpaid(c, for[studied[c]])
                   THEN reopened \cup {for[studied[c]]} ELSE reopened

RejectTransfer(c) ==
    /\ Decide(c, "REJECT", "REJECTED")
    /\ UNCHANGED <<order, payments, reopened>>

(* A transaction of a review rolls back, for a second invoice's number or  *)
(* any other reason.                                                       *)
ReviewFails(c) ==
    /\ studied[c] # Nothing /\ studied' = [studied EXCEPT ![c] = Nothing]
    /\ decision' = [decision EXCEPT ![c] = "none"]
    /\ UNCHANGED <<order, hash, for, handed, receipt, payments, disputed, reopened, withdrawn>>

(* expireStaleBookings and the view of the page.  The sweeper passes over  *)
(* a booking with a SUCCESS payment, the view does not.                    *)
EndOrder(o) ==
    /\ order[o] = "unpaid" /\ order' = [order EXCEPT ![o] = "over"]
    /\ UNCHANGED <<hash, for, handed, receipt, studied, decision, payments, disputed, reopened,
                   withdrawn>>

(* cancelBooking, which leaves the payment CAPTURED; the refund; or a view *)
(* of the page that looked before the payment.                             *)
WithdrawOrder(o) ==
    /\ order[o] = "captured" /\ order' = [order EXCEPT ![o] = "over"]
    /\ withdrawn' = withdrawn \cup {o}
    /\ UNCHANGED <<hash, for, handed, receipt, studied, decision, payments, disputed, reopened>>

CryptoNext ==
    \/ \E r \in Receipts :
         \/ \E x \in Transfers, o \in Orders : SubmitLook(r, x, o)
         \/ SubmitWrite(r)
    \/ \E c \in Clerks :
         \/ \E r \in Receipts : Study(c, r)
         \/ ApproveTransfer(c) \/ RejectTransfer(c) \/ ReviewFails(c)
    \/ \E o \in Orders : EndOrder(o) \/ WithdrawOrder(o)

CryptoSpec == CryptoInit /\ [][CryptoNext]_cryptoVars

-----------------------------------------------------------------------------
(* "Check for replay of txHash across other bookings": one transfer pays   *)
(* one booking, unless two customers found the transfer free or two clerks *)
(* decided one receipt; and a booking is paid by one receipt, unless an    *)
(* approval overlapped with another one or with a submission, or the       *)
(* booking was withdrawn after it was paid and so could be paid again.     *)
TransfersPayOnce ==
    \A r, s \in payments :
        /\ hash[r] = hash[s] /\ for[r] # for[s] => hash[r] \in disputed
        /\ r # s /\ for[r] = for[s] => for[r] \in reopened \cup withdrawn
=============================================================================
