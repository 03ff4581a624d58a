---------------------------- MODULE BusinessRequests ----------------------------
(***************************************************************************)
(* A company's request for a group tour, from draft to voucher             *)
(* (domains/business/core/BusinessDomainService.ts).                       *)
(*                                                                         *)
(* Every operation reads the request, asserts that its transition is       *)
(* legal, and writes by id in a later statement: submitting, the agents'   *)
(* reviews, and the payment of the deposit and of the settlement, which    *)
(* charges first and moves the request in a transaction after it.  The     *)
(* pages send a fresh idempotency key with every click, so no two calls    *)
(* meet in a key.  resubmitAfterChanges has no caller outside tests, and   *)
(* no code cancels a request.                                              *)
(***************************************************************************)
EXTENDS Integers

CONSTANTS
    Movers,     \* submissions and reviews that can be under way at once
    Payers,     \* calls of processPayment that can be under way at once
    Total,      \* totalAmount, locked when the request is submitted
    Deposit,    \* depositAmount
    Grants,     \* government grants an agent may record, 0 among them
    MaxCharges, \* bound: payments of each kind
    MaxBreakdowns   \* bound: payments whose process dies half way

ASSUME BusinessAssumption ==
    /\ Total \in Nat /\ Deposit \in 0..Total /\ Grants \subseteq 0..Total /\ 0 \in Grants
    /\ MaxCharges \in Nat /\ MaxBreakdowns \in Nat

VARIABLES
    requestIs,  \* BusinessRequest.status
    paidAmount, \* BusinessRequest.paidAmount
    grant,      \* BusinessRequest.grantAmount
    charges,    \* paid BusinessPayment rows of each kind
    collected,  \* the sum of their amounts
    issuedVouchers, \* BusinessVoucher rows
    counted,    \* how often the group is in the departure's bookedCount
    moving,     \* the status each mover is about to write, "none"
    paying,     \* how far each payer has come
    kind,       \* what it pays: "deposit", "settlement"
    known,      \* paidAmount and grantAmount as it has read them
    breakdowns,
    contested   \* auxiliary: a payment overlapped with another of its kind or
                \* with a mover, or died after it had charged

businessVars == <<requestIs, paidAmount, grant, charges, collected, issuedVouchers, counted,
                  moving, paying, kind, known, breakdowns, contested>>

Kinds == {"deposit", "settlement"}
Unknown == [paid |-> 0, grant |-> 0]

BusinessTypeOK ==
    /\ requestIs \in {"draft", "submitted", "under_review", "changes_requested",
                      "approved", "issued"}
    /\ paidAmount \in Int /\ grant \in Grants /\ collected \in Int
    /\ charges \in [Kinds -> 0..MaxCharges]
    /\ issuedVouchers \in Nat /\ counted \in Nat
    /\ moving \in [Movers -> {"none", "submitted", "approved", "changes_requested"}]
    /\ paying \in [Payers -> {"idle", "read", "charged"}]
    /\ kind \in [Payers -> Kinds]
    /\ known \in [Payers -> [paid : Int, grant : Grants]]
    /\ breakdowns \in 0..MaxBreakdowns /\ contested \in BOOLEAN

BusinessInit ==
    /\ requestIs = "draft" /\ paidAmount = 0 /\ grant = 0
    /\ charges = [k \in Kinds |-> 0] /\ collected = 0
    /\ issuedVouchers = 0 /\ counted = 0
    /\ moving = [m \in Movers |-> "none"]
    /\ paying = [p \in Payers |-> "idle"] /\ kind = [p \in Payers |-> "deposit"]
    /\ known = [p \in Payers |-> Unknown]
    /\ breakdowns = 0 /\ contested = FALSE

(***************************************************************************)
(* Faulty variants of the definitions below, for checking the properties.  *)
(***************************************************************************)
PayableEarly == [deposit |-> {"submitted", "under_review"}, settlement |-> {"approved"}]

-----------------------------------------------------------------------------
(* The transitions that the movers' operations assert.                     *)
Legal == {<<"draft", "submitted">>, <<"under_review", "approved">>,
          <<"under_review", "changes_requested">>}

(* The statuses in which each kind of payment is taken.                    *)
PayableIn == [deposit |-> {"submitted"}, settlement |-> {"approved"}]

Amount(p) == IF kind[p] = "deposit" THEN Deposit ELSE Total - Deposit - known[p].grant

(* "paid_amount == total_amount - grant_amount"                            *)
Issuable(p) == known[p].paid + Amount(p) = Total - known[p].grant

accounts == <<paidAmount, charges, collected, issuedVouchers, counted>>

(***************************************************************************)
(* submitRequest and reviewRequest, and applyGrant, which asks nothing.    *)
(***************************************************************************)
MoveRead(m) ==
    /\ moving[m] = "none"
    /\ \E to \in {"submitted", "approved", "changes_requested"} :
         /\ <<requestIs, to>> \in Legal
         /\ moving' = [moving EXCEPT ![m] = to]
    /\ UNCHANGED <<requestIs, grant, accounts, paying, kind, known, breakdowns, contested>>

MoveWrite(m) ==
    /\ moving[m] # "none" /\ moving' = [moving EXCEPT ![m] = "none"]
    /\ requestIs' = moving[m]
    /\ UNCHANGED <<grant, accounts, paying, kind, known, breakdowns, contested>>

ApplyGrant ==
    /\ grant' \in Grants
    /\ UNCHANGED <<requestIs, accounts, moving, paying, kind, known, breakdowns, contested>>

(***************************************************************************)
(* processPayment.                                                         *)
(***************************************************************************)
PayRead(p) ==
    /\ paying[p] = "idle" /\ paying' = [paying EXCEPT ![p] = "read"]
    /\ \E k \in Kinds :
         /\ requestIs \in PayableIn[k]
         /\ kind' = [kind EXCEPT ![p] = k]
         /\ contested' = (contested \/ \E q \in Payers : paying[q] # "idle" /\ kind[q] = k)
    /\ known' = [known EXCEPT ![p] = [paid |-> paidAmount, grant |-> grant]]
    /\ UNCHANGED <<requestIs, grant, accounts, moving, breakdowns>>

(* businessPayment.create: the money is taken.                             *)
ChargeGroup(p) ==
    /\ paying[p] = "read" /\ paying' = [paying EXCEPT ![p] = "charged"]
    /\ charges[kind[p]] < MaxCharges
    /\ charges' = [charges EXCEPT ![kind[p]] = @ + 1]
    /\ collected' = collected + Amount(p)
    /\ UNCHANGED <<requestIs, paidAmount, grant, issuedVouchers, counted, moving, kind, known,
                   breakdowns, contested>>

PayEnds(p) ==
    /\ paying[p] = "charged" /\ paying' = [paying EXCEPT ![p] = "idle"]
    /\ kind' = [kind EXCEPT ![p] = "deposit"] /\ known' = [known EXCEPT ![p] = Unknown]

(* The deposit takes the group's places and goes to the agents.            *)
DepositPaid(p) ==
    /\ PayEnds(p) /\ kind[p] = "deposit"
    /\ requestIs' = "under_review"
    /\ paidAmount' = known[p].paid + Amount(p)
    /\ counted' = counted + 1
    /\ contested' = (contested \/ \E m \in Movers : moving[m] # "none")
    /\ UNCHANGED <<grant, charges, collected, issuedVouchers, moving, breakdowns>>

(* The settlement issues the voucher, if what is paid is what is due, and  *)
(* is otherwise not noted in the request.                                  *)
SettlementPaid(p) ==
    /\ PayEnds(p) /\ kind[p] = "settlement"
    /\ IF Issuable(p)
       THEN /\ requestIs' = "issued"
            /\ paidAmount' = known[p].paid + Amount(p)
            /\ issuedVouchers' = issuedVouchers + 1
            /\ contested' = (contested \/ \E m \in Movers : moving[m] # "none")
       ELSE UNCHANGED <<requestIs, paidAmount, issuedVouchers, contested>>
    /\ UNCHANGED <<grant, charges, collected, counted, moving, breakdowns>>

(* The process dies, or the transaction fails, after the charge.           *)
PayDies(p) ==
    /\ PayEnds(p)
    /\ breakdowns < MaxBreakdowns /\ breakdowns' = breakdowns + 1
    /\ contested' = TRUE
    /\ UNCHANGED <<requestIs, grant, accounts, moving>>

BusinessNext ==
    \/ \E m \in Movers : MoveRead(m) \/ MoveWrite(m)
    \/ ApplyGrant
    \/ \E p \in Payers :
         PayRead(p) \/ ChargeGroup(p) \/ DepositPaid(p) \/ SettlementPaid(p) \/ PayDies(p)

BusinessSpec == BusinessInit /\ [][BusinessNext]_businessVars

-----------------------------------------------------------------------------
(* "A double-click cannot double-charge": deposit and settlement are each  *)
(* taken once, places counted and a voucher written once, an issued        *)
(* request has been paid what the settlement found due, unless a payment   *)
(* overlapped with another or with a review, or died after its charge.     *)
ChargedOncePerKind ==
    contested \/
        /\ \A k \in Kinds : charges[k] <= 1
        /\ counted <= charges["deposit"] /\ issuedVouchers <= charges["settlement"]
        /\ requestIs = "issued" => collected = paidAmount /\ Total - paidAmount \in Grants
        /\ charges["settlement"] = 1 /\ (\A p \in Payers : paying[p] = "idle") => issuedVouchers = 1
=============================================================================
