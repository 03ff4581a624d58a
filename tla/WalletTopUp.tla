----------------------------- MODULE WalletTopUp -----------------------------
(***************************************************************************)
(* One wallet top-up and the two ways its success is reported: the         *)
(* gateway's signed events (PaymentDomainService.processWebhook and        *)
(* processWalletTopUpCapture) and the browser's signed return              *)
(* (payment-callback-handler.ts).                                          *)
(*                                                                         *)
(* The top-up starts as a PENDING payment.  The browser's return settles   *)
(* that payment in one transaction.  The webhook creates a payment of its  *)
(* own, and its statements, the postings to the ledger among them, are not *)
(* in a transaction: each is an action, and the request may stop between   *)
(* any two.  The ledger drops a second posting of the same source, but the *)
(* webhook's source is the payment intent and the return's is the payment. *)
(*                                                                         *)
(* What one handler sees of the other's capture hangs on the transaction's *)
(* id: the payment has ours, while an event may echo the gateway's own id, *)
(* by which the webhook's route finds the booking as well, or none.        *)
(***************************************************************************)
EXTENDS Naturals, FiniteSets

CONSTANTS
    Successes,  \* gateway events that report the top-up as paid
    Failures,   \* signed gateway events that report a failure
    Spurious,   \* events with another amount or currency
    Echoed,     \* events that name the transaction by the gateway's own id
    Nameless,   \* events without an id of the transaction
    Deliveries, \* webhook requests the server handles at the same time
    Returns,    \* browser returns handled at the same time
    Return,     \* the source of a posting made for a browser return
    NoReport,   \* what an idle delivery works on
    MaxStops    \* bound: webhook requests that die half way

Reports == Successes \cup Failures \cup Spurious

ASSUME TopUpAssumption ==
    /\ Return \notin Reports /\ NoReport \notin Reports
    /\ Successes \cap Failures = {} /\ (Successes \cup Failures) \cap Spurious = {}
    /\ Echoed \subseteq Reports /\ Nameless \subseteq Reports
    /\ MaxStops \in Nat

VARIABLES
    pending,    \* status of the payment requestWalletTopUp created
    intent,     \* PaymentIntent.status
    captures,   \* events for which the webhook created a SUCCESS payment
    report,     \* WebhookEvent.status of each event, "none" without a row
    phase,      \* how far each delivery has come
    work,       \* the event it delivers
    returning,  \* how far each browser return has come
    debited,    \* sources whose posting has its leg on the gateway's account
    credited,   \* sources whose posting has its leg on the customer's wallet
    stops,
    crossed,    \* auxiliary: two deliveries were about to post at once
    unseen,     \* auxiliary: a return was settled beside a webhook's capture
    undone      \* auxiliary: a settled return was overwritten as FAILED

delivery == <<report, phase, work>>
ledger   == <<debited, credited>>
marks    == <<crossed, unseen, undone>>
topUpVars == <<pending, intent, captures, delivery, returning, ledger, stops, marks>>

TopUpTypeOK ==
    /\ pending \in {"PENDING", "SUCCESS", "FAILED"}
    /\ intent \in {"INITIATED", "SUCCESS", "FAILED"}
    /\ captures \subseteq Successes
    /\ report \in [Reports -> {"none", "RECEIVED", "PROCESSED", "REJECTED"}]
    /\ phase \in [Deliveries -> {"idle", "looked", "received", "fresh", "paid",
                                 "posting", "half", "posted"}]
    /\ work \in [Deliveries -> Reports \cup {NoReport}]
    /\ \A d \in Deliveries : phase[d] = "idle" <=> work[d] = NoReport
    /\ returning \in [Returns -> {"idle", "verified", "rechecked", "failing"}]
    /\ credited \subseteq debited /\ debited \subseteq Successes \cup {Return}
    /\ stops \in 0..MaxStops
    /\ crossed \in BOOLEAN /\ unseen \in BOOLEAN /\ undone \in BOOLEAN

(* requestWalletTopUp: intent and payment, dispatched to the gateway.      *)
TopUpInit ==
    /\ pending = "PENDING" /\ intent = "INITIATED"
    /\ captures = {}
    /\ report = [e \in Reports |-> "none"]
    /\ phase = [d \in Deliveries |-> "idle"]
    /\ work = [d \in Deliveries |-> NoReport]
    /\ returning = [b \in Returns |-> "idle"]
    /\ debited = {} /\ credited = {}
    /\ stops = 0
    /\ crossed = FALSE /\ unseen = FALSE /\ undone = FALSE

(***************************************************************************)
(* Faulty variants of the definitions below, for checking the properties.  *)
(***************************************************************************)
IgnoresReturn(e) == captures # {}
PaymentIsEnough(s) == s \in captures
KeepsWork(d) == UNCHANGED work

-----------------------------------------------------------------------------
(* postBalancedEntry drops a posting whose group or whose source exists:   *)
(* all events of the top-up have its intent for a source.                  *)
AlreadyPosted(s) == IF s = Return THEN Return \in debited ELSE debited \cap Successes # {}

(* The gatewayRef of an event.                                             *)
RefOf(e) == IF e \in Nameless THEN "none" ELSE IF e \in Echoed THEN "theirs" ELSE "ours"

(* A SUCCESS payment with the event's gatewayRef, if it has one.           *)
CaptureSeen(e) ==
    \/ RefOf(e) = "ours" /\ pending = "SUCCESS"
    \/ RefOf(e) # "none" /\ \E c \in captures : RefOf(c) = RefOf(e)

Rest(d) == work' = [work EXCEPT ![d] = NoReport]

Move(d, from, to) == phase[d] = from /\ phase' = [phase EXCEPT ![d] = to]

(***************************************************************************)
(* The webhook.                                                            *)
(***************************************************************************)

(* An event that was settled before is answered at once.                   *)
Look(d, e) ==
    /\ Move(d, "idle", "looked")
    /\ report[e] \in {"none", "RECEIVED"}
    /\ work' = [work EXCEPT ![d] = e]
    /\ UNCHANGED <<pending, intent, captures, report, returning, ledger, stops, marks>>

(* The upsert makes the row RECEIVED, whatever it has become meanwhile.    *)
Receive(d) ==
    /\ Move(d, "looked", "received")
    /\ report' = [report EXCEPT ![work[d]] = "RECEIVED"]
    /\ UNCHANGED <<pending, intent, captures, work, returning, ledger, stops, marks>>

(* handleGatewayReportedFailure: the payment is found by the gatewayRef,   *)
(* the intent by the customer.                                             *)
ReportFailure(d) ==
    /\ work[d] \in Failures /\ Move(d, "received", "posted")
    /\ pending' = IF pending = "PENDING" /\ RefOf(work[d]) = "ours" THEN "FAILED" ELSE pending
    /\ intent' = IF intent = "INITIATED" THEN "FAILED" ELSE intent
    /\ UNCHANGED <<captures, report, work, returning, ledger, stops, marks>>

(* The amount or the currency is not the intent's.                         *)
Reject(d) ==
    /\ work[d] \in Spurious /\ Move(d, "received", "idle")
    /\ report' = [report EXCEPT ![work[d]] = "REJECTED"]
    /\ Rest(d)
    /\ UNCHANGED <<pending, intent, captures, returning, ledger, stops, marks>>

(* Exactly-once capture per gateway transaction: look for a capture.       *)
LookForCapture(d) ==
    /\ work[d] \in Successes
    /\ \/ CaptureSeen(work[d]) /\ Move(d, "received", "posted")
       \/ ~CaptureSeen(work[d]) /\ Move(d, "received", "fresh")
    /\ UNCHANGED <<pending, intent, captures, report, work, returning, ledger, stops, marks>>

(* The payment is created under the event's key; a second one throws.      *)
CreatePayment(d) ==
    /\ \/ /\ work[d] \notin captures
          /\ captures' = captures \cup {work[d]}
          /\ Move(d, "fresh", "paid")
          /\ UNCHANGED work
       \/ /\ work[d] \in captures
          /\ Move(d, "fresh", "idle") /\ Rest(d)
          /\ UNCHANGED captures
    /\ UNCHANGED <<pending, intent, report, returning, ledger, stops, marks>>

(* postTopUp, after the intent's update: look for an earlier posting ...   *)
BeginPosting(d) ==
    /\ intent' = "SUCCESS"
    /\ \/ AlreadyPosted(work[d]) /\ Move(d, "paid", "posted")
       \/ ~AlreadyPosted(work[d]) /\ Move(d, "paid", "posting")
    /\ crossed' = (crossed \/ \E o \in Deliveries \ {d} : phase[o] = "posting")
    /\ UNCHANGED <<pending, captures, report, work, returning, ledger, stops, unseen, undone>>

(* ... and write its legs, the gateway's first.                            *)
DebitGateway(d) ==
    /\ Move(d, "posting", "half")
    /\ debited' = debited \cup {work[d]}
    /\ UNCHANGED <<pending, intent, captures, report, work, returning, credited, stops, marks>>

CreditWallet(d) ==
    /\ Move(d, "half", "posted")
    /\ credited' = credited \cup {work[d]}
    /\ UNCHANGED <<pending, intent, captures, report, work, returning, debited, stops, marks>>

Settle(d) ==
    /\ Move(d, "posted", "idle") /\ Rest(d)
    /\ report' = [report EXCEPT ![work[d]] = "PROCESSED"]
    /\ UNCHANGED <<pending, intent, captures, returning, ledger, stops, marks>>

(* The request dies, or a statement throws; the gateway delivers again.    *)
StopDelivery(d) ==
    /\ phase[d] # "idle" /\ Move(d, phase[d], "idle") /\ Rest(d)
    /\ stops < MaxStops /\ stops' = stops + 1
    /\ UNCHANGED <<pending, intent, captures, report, returning, ledger, marks>>

Deliver(d) ==
    \/ \E e \in Reports : Look(d, e)
    \/ Receive(d) \/ ReportFailure(d) \/ Reject(d) \/ LookForCapture(d)
    \/ CreatePayment(d) \/ BeginPosting(d) \/ DebitGateway(d) \/ CreditWallet(d)
    \/ Settle(d)

(***************************************************************************)
(* The browser's return.                                                   *)
(***************************************************************************)
Turn(b, from, to) == returning[b] = from /\ returning' = [returning EXCEPT ![b] = to]

(* The payment is read; only a PENDING one is worked on, after a verified  *)
(* success or after a reported failure.                                    *)
ReturnRead(b) ==
    /\ pending = "PENDING"
    /\ Turn(b, "idle", "verified") \/ Turn(b, "idle", "failing")
    /\ UNCHANGED <<pending, intent, captures, delivery, ledger, stops, marks>>

(* The transaction looks at the payment again ...                          *)
ReturnRecheck(b) ==
    /\ \/ pending = "SUCCESS" /\ Turn(b, "verified", "idle")
       \/ pending # "SUCCESS" /\ Turn(b, "verified", "rechecked")
    /\ UNCHANGED <<pending, intent, captures, delivery, ledger, stops, marks>>

(* ... and settles it; the row's lock makes a second return wait, and the  *)
(* ledger drops its posting.                                               *)
ReturnCapture(b) ==
    /\ Turn(b, "rechecked", "idle")
    /\ pending' = "SUCCESS" /\ intent' = "SUCCESS"
    /\ IF AlreadyPosted(Return)
       THEN UNCHANGED ledger
       ELSE debited' = debited \cup {Return} /\ credited' = credited \cup {Return}
    /\ unseen' = (unseen \/ captures # {} \/ \E d \in Deliveries : phase[d] = "fresh")
    /\ UNCHANGED <<captures, delivery, stops, crossed, undone>>

(* A failed return makes the payment FAILED, whatever it is by now.        *)
ReturnFails(b) ==
    /\ Turn(b, "failing", "idle")
    /\ pending' = "FAILED"
    /\ undone' = (undone \/ pending = "SUCCESS")
    /\ UNCHANGED <<intent, captures, delivery, ledger, stops, crossed, unseen>>

TopUpNext ==
    \/ \E d \in Deliveries : Deliver(d) \/ StopDelivery(d)
    \/ \E b \in Returns : ReturnRead(b) \/ ReturnRecheck(b) \/ ReturnCapture(b) \/ ReturnFails(b)

TopUpSpec == TopUpInit /\ [][TopUpNext]_topUpVars

-----------------------------------------------------------------------------
(* Two events credit the wallet twice only if their requests were both     *)
(* between looking for a posting and writing it: an id that differs or is  *)
(* missing is no such cause, nor is redelivery or repetition.  An event    *)
(* and the browser's return credit it twice only if the return was settled *)
(* while a webhook had captured or had looked for a capture, if a failed   *)
(* return had hidden a settled one, or if the event does not bear the      *)
(* payment's id, so that the look for a capture misses it.                 *)
SecondCreditsAreExplained ==
    /\ Cardinality(credited \cap Successes) > 1 => crossed
    /\ Return \in credited =>
         \A e \in credited \cap Successes : unseen \/ undone \/ RefOf(e) # "ours"

(* Money that was captured reaches the wallet, and both legs are written,  *)
(* unless a webhook request stopped half way.                              *)
CapturedIsCredited ==
    (pending = "SUCCESS" \/ captures # {}) /\ stops = 0 =>
        \/ credited # {}
        \/ \E d \in Deliveries : phase[d] \in {"paid", "posting", "half"}

(* The code's own remark: one capture per gateway transaction.             *)
CreditedAtMostOnce == Cardinality(credited) <= 1
=============================================================================
