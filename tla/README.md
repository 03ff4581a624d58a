# Formal models of the iTrip travel platform

TLA+ models of the parts of the platform whose correctness depends on who comes
first, who stops half way and who asks twice: inventory, worker lease, outbox, the
settlement of a booking, its confirmation saga, and the requests around them
(top-ups, refunds, automatic purchases, drafts, referral codes, carts, transfers on
a blockchain, a company's group). TLC checks them on small instances; TLAPS checks
the theorems of eight proof modules for every value of the constants.
`PROJECT.json` maps every definition to the lines it stands for, and names for every
property a faulty variant of the code that it catches.

Paths below are relative to the repository; `domains/` stands for `src/domains/`.

## 1. The system

The platform sells flights, hotels and tours. A customer's booking takes a hold on
an allotment, is paid through a gateway, from a wallet, by a card transfer or on a
blockchain, is confirmed, posted to the general ledger, and announced through an
outbox. Web processes serve requests; a worker process runs timers. All share one
PostgreSQL database through Prisma. There is no lock but what a transaction or a
statement takes, and no other shared state, with two exceptions that live in the
memory of a process: leases after a database error, and idempotency keys.

| Component | State it keeps | Operations | Meets others through |
|---|---|---|---|
| Inventory engine (`domains/inventory`) | `Allotment` (total, booked, stopSell), `InventoryHold` | create, capture, release, compensate, sweep, set policy | payments, sagas, carts, refunds; two sweeps |
| Worker lease (`domains/events/WorkerLeaseService.ts`) | `WorkerLease` row, in-memory leases of a process | acquire, renew, release, recover | wraps every outbox cycle |
| Outbox (`domains/events/OutboxConsumer.ts`) | `OutboxEvent` | claim, deliver, mark, retry, dead-letter, recover, requeue | rows written by business transactions; timer and cron route |
| Payments (`domains/payments`) | `WebhookEvent`, `Payment`, `PaymentIntent` | webhook, browser's return, wallet, top-up | holds, bookings, ledger |
| Booking lifecycle (`domains/booking`, `actions/booking.ts`) | `Booking` (status, paymentStatus), history | draft, reprice, confirm, cancel, expire | everything above |
| Confirmation sagas (`saga/BookingSagaCoordinator.ts`, `saga-orchestrator.ts`, `workers/saga-worker.ts`) | `SagaExecution`, `SagaStep` | run steps, resume, compensate | payments, inventory, ledger, outbox |
| General ledger (`domains/ledger`) | `LedgerEntry`, journal | balanced postings, balance check | every movement of money |
| Refunds (`domains/refund`, `ExceptionRemediationService.ts`) | `Refund`, `OperationalException` | request, approve, pay out | ledger, inventory, booking |
| Receipts and crypto (`actions/receipts.ts`, `actions/crypto-payments.ts`) | `CardTransferReceipt`, `CryptoPaymentReceipt` | submit, review | capture, confirm, post |
| Carts (`domains/booking/UnifiedCartService.ts`) | several holds of one booking | take all holds or none | inventory, payments, refunds |
| Auto-buy (`domains/autobuy`) | `AutoBuyRule` | evaluate, approve, claim, buy, cancel | sagas, wallet; sweeps |
| Idempotency keys (`lib/security/idempotency.ts`) | entries in a process's memory | acquire, complete | draft bookings |
| Referrals (`domains/referral`, `actions/admin.ts`) | `ReferralCode`, `BookingReferral`, `LeaderVoucher` | validate, attribute, amend, settle | drafts, confirmations |
| Business travel (`domains/business`) | `BusinessRequest`, `BusinessPayment`, `BusinessVoucher` | submit, pay, review, grant, settle | nothing else |
| Quotes, pricing, currency, settlement batches, ERP, suppliers, identity, notifications, content, pages | rows of their own | see section 8 | the above |

What is hard here, and what makes each component correct:

* **Read outside, write inside.** Nearly every handler reads a row, decides, and
  writes later, some with a conditional update, a row lock or a Serializable
  transaction, some by id alone. Correct means: money, holds, status and ledger of a
  booking agree whatever comes in between.
* **At-least-once everything.** Gateways redeliver, the outbox retries, sweeps repeat,
  clerks click twice. Correct means: no second charge, no second debit, no second
  delivery, except for reasons that can be named.
* **Clocks.** Holds, bookings, leases and claims expire while somebody works under
  them. Correct means: a late actor notices, or does no harm.
* **Deaths.** A process dies between two statements. Correct means: somebody else
  finishes or undoes what it began.
* **Capacity.** What is sold never exceeds what there is, and what is held is given
  back in the end.

## 2. Modules

| Module | Models | Composed or checked in |
|---|---|---|
| `HoldQuantities` | quantities of holds and their sums | the next three |
| `CapacityContract` | abstract: what an inventory promises | refined by `Inventory` |
| `Inventory` | one allotment, its holds, sweeps and admins | `MCInventory` |
| `WorkerLease` | the lease of one resource | `MCWorkerLease`, `OutboxUnderLease` |
| `Outbox` | events, consumer cycles, requeues | `MCOutbox`, `OutboxUnderLease` |
| `OutboxUnderLease` | the two composed, as `processPendingEvents` does | `MCOutboxUnderLease` |
| `BookingPayment` | one booking and all who settle it or give up on it | `MCBookingPayment` |
| `SagaContract` | abstract: what a confirmation promises the customer | refined by `ConfirmationSaga` |
| `ConfirmationSaga` | the coordinator, its repetition, and the workers that find its rows | `MCConfirmationSaga` |
| `WalletTopUp`, `Refund`, `AutoBuy`, `DraftRequests`, `Referrals`, `LeaderRewards`, `CartHolds`, `CryptoTransfers`, `BusinessRequests` | one request each, made twice or at once | `MCRequests`, nine scenes |
| `InventoryProofs`, `BookingPaymentProofs`, `LeaseProofs`, `OutboxProofs`, `SagaProofs` | theorems of one module each | |
| `RuntimeProofs` | theorems of `OutboxUnderLease`, on those of the lease and the outbox | |
| `MoneyRequestProofs` | theorems of `Refund`, `WalletTopUp`, `CryptoTransfers`, `BusinessRequests`, `AutoBuy` | |
| `BookingRequestProofs` | theorems of `DraftRequests`, `Referrals`, `LeaderRewards`, `CartHolds`, and of the nine scenes side by side | |

**Inventory.** An engine call is one transaction and one action, except where the code
reads in one step and writes in another: `captureHold` checks its hold's expiry and then
waits for the allotment row (`BeginCapture`, `FinishCapture`); the sweep selects and then
updates (`SweepScan`, `SweepUpdate`); the admin's policy change runs without a transaction
(`PolicyRead`, `PolicyWrite`). `late` remembers holds captured after their time.

**WorkerLease.** Acquire, renew and release each read the row and write it later, and no
write looks again. Times are ticks left to live. `mishap` is TRUE once, since no cycle was
at work, two cycles have read the free row, a lease has run out under its holder, or a
process has started a second cycle under its own id.

**Outbox.** One cycle is: recover stale events, claim up to `Batch`, and for each event
deliver, then mark. The claim's fallback (read, then update one by one) and the failure
path are modelled as written, from what the cycle read when it claimed. A delivery is one
event counted in `delivered`; what a handler does with it is not modelled. A failed
attempt may have sent its message all the same (`AnswerLost`: a provider's call that is
aborted or whose answer is lost, a push that reached some devices); `unanswered` counts
these.

**OutboxUnderLease.** A cycle works only between acquiring and releasing the lease. A
process that dies takes its cycles with it; time passes for lease and events together.

**BookingPayment.** The webhook handler is `Lookup`, `Record`, then `ReportFailure` or
`Judge` (signature, terminal states, amount, read outside any transaction), then `Reject`
or the Serializable transaction `Capture` / `Collapse` / `CaptureThrows`. The wallet is
`WalletConfirm` / `WalletRefused`, the whole of `confirmBookingSaga` under the booking's
row lock. Card transfers are `SubmitRead`/`SubmitWrite` and `ReviewRead`/`Approve`/
`ApproveThrows`/`RejectReceipt`. Page view, stale sweeper and cancellation are a read and
a write each; the sweeper's write is conditional, the others' are not. `reopened` is TRUE
once a write of that kind has landed on a booking that has a payment.

**ConfirmationSaga.** Every await of `executeBookingConfirmation` is an action: the saga's
row, each step's row before its effect, the effect, the row after it, and on an error the
compensations by `startedAt`, latest first; `earlier` keeps, for each step, the steps that
were started before it. The payment of step 2 is `processPayment`, with a debit, a
payment row and a confirmation of its own. A process may stop and a statement may throw
between any two. The worker reads PENDING and RUNNING sagas, those a coordinator is
working on included; as no handler is registered outside tests, it fails unfinished steps
and marks finished ones COMPENSATED without undoing them. `mislaid` and `meddled` remember
a lost effect and a worker's write. `given` says which functions the caller passes: one
that books at a supplier, and one that voids what that booked. Auto-buy, the one caller in
production, passes neither; its bookings are CONFIRMED with a ticket that is still ISSUING.

**The nine scenes.** They share no row, so `MCRequests` explores each by itself.
*WalletTopUp*: the webhook's statements, without a transaction, beside the browser's
return, which is one; an event names the transaction by our id, by the gateway's own
(`Echoed`) or not at all (`Nameless`), and a look goes by that name (`RefOf`). *Refund*:
`processRefund` is a read-committed transaction; all it writes appears at its commit, but
a bank payout outlives its rollback. *AutoBuy*: reading, weighing, claiming, buying and
every write by id of `evaluateRule`. *DraftRequests*: the key store of one process and the
requests that meet in an entry. *Referrals*: counting a code's uses and attributing, in
different statements, for drafts, registrations and amendments, of bookings that end and
come back. *LeaderRewards*: two clerks settle one leader. *CartHolds*: the holds of
several lines, one by one, and what capture, wallet, receipt, cancellation, expiry and
refund do with each. *CryptoTransfers*: the look for a hash, the receipt, and reviews that
decide by id, while their bookings are paid otherwise, withdrawn or ended.
*BusinessRequests*: movers and payers that read, assert a transition, and write by id.

Auxiliary variables (`crossed`, `overlapped`, `revived`, `blind`, `strays`, `doubled`,
`disputed`, `contested` and so on) remember that a named race has happened, and
`overwritten`, `reopened` and `withdrawn` that a paid booking was written over. No guard
reads them.

## 3. Runs

| Run | Question | Result |
|---|---|---|
| `inventory_core` | Three holds on two free units, two sweepers, a sweep that dies: booked counter, capacity, refinement of `CapacityContract` | holds |
| `inventory_live` | With an admin changing policy: is every hold settled in the end? | holds |
| `lease_core` | What exactly breaks mutual exclusion, and is a lease left behind? | holds |
| `outbox_core` | What PROCESSED and DEAD_LETTER mean, what is behind a duplicate delivery | holds |
| `runtime` | Do lease and outbox together give one cycle at a time; does an event survive its worker? | holds |
| `payment_core` | Do status, payments, hold, ledger and wallet agree; what is behind a second payment? | holds |
| `payment_live` | Is every recorded gateway event settled? | holds |
| `payment_expired_rule` | Is an EXPIRED booking never CAPTURED, as the state machine's rule 7 says? | violated |
| `saga_core` | What CONFIRMED and FAILED mean; is `SagaContract` implemented; is every saga closed? | holds |
| `saga_revenue` | Does a failed booking earn nothing, as the compensation's comment says? | violated |
| `requests_core` | Nine requests made twice or at once: what explains a second credit, refund, purchase, draft, use, voucher or charge; does a cart keep all or nothing? | holds |
| `topup_once` | Is a top-up credited once, as both handlers say? | violated |

**Bounds.** Every bound is a constant whose comment says so. They are chosen so that the
case a property is about happens.

* Inventory: three holds on two units, so that capacity binds and a late capture can take
  a newer hold's place; two sweepers with a batch smaller than the holds.
* Lease and outbox: three cycles in two processes, two under one id; two events with one
  of unknown type and a retry limit of 2, so that a failure is overwritten by an older
  count.
* Payments: two different capture events handled at once beside a receipt, a wallet, a
  view, a sweeper and a cancellation, so that every pair of writers of a booking meets. A
  wallet starts with 0, 1 or 2 times the price, the values that the two balance checks
  tell apart. Deaths are in `payment_live`; `payment_core` has none, since a stop leaves
  what a request that is never scheduled again leaves.
* Saga: two faults and three attempts. Two attempts never reach the worst case: a stop
  between the payment's row and the confirmation, then an attempt whose supplier refuses
  and which stops after the refund, then a third that confirms over the money returned.
  Callers pass both functions, the first alone, or none.
  One worker is enough to write to every row at every step.
* Requests: two of everything that races, one more where a third changes the outcome
  (three drafts with two payloads; three bookings against a quota of one; three receipts
  for one transfer), and one mishap of each kind. A top-up has one paid event under the
  gateway's id, one under ours and a failure without any.

One death or failure of a statement separates any two adjacent steps; more of them mostly
repeat that. Clocks stop after the last expiry, because nothing later differs. Larger
instances of the scenes have been run by hand: a refund with three keys, three
requests, two cancellations and two rollbacks (1.2 million states, complete), a top-up with
three paid events, one of each name (9.7 million states, complete), an automatic purchase
to 14 million states (not completed), and the saga with four attempts and three faults
without a worker. None showed a violation.

**Symmetry** is used for interchangeable holds, sweepers, cycles, requeues and capture
events, and for the deliveries, returns, evaluations, clerks, orders, payers and movers of
the scenes, in runs without liveness only. Since each scene moves by itself, the names of
one serve in another, and a permutation of them exchanges what is alike in all.
`CHECK_DEADLOCK FALSE` is used where the system may rest: a sold-out allotment at the end
of time, a booking everybody is done with.

## 4. Fairness

* `Inventory` (`FairSpec`): time passes; a sweep's timer fires again and again
  (`instrumentation.ts`, every 60 s; `worker-entrypoint.ts`, every 30 s); a capture's
  transaction ends, by commit or timeout.
* `OutboxUnderLease` (`FairRuntimeSpec`): timers start cycles (every 5 s), statements
  return, work goes on in processes that live. A dead process owes nothing.
* `BookingPayment` (`FairPaymentSpec`): time passes, the hold sweeper runs, the server goes
  on with a request until it ends or dies, and — strong fairness, for each event — the
  gateway delivers again until the event is settled. A request that fails is answered with
  an error status (`api/payments/webhook/route.ts:226-248`), and the runbook relies on
  redelivery (`docs/runbooks/payment-webhook.md`). Redelivery carries a fresh timestamp;
  a stale one is turned away before anything is recorded and is no delivery here.
* `ConfirmationSaga` (`FairSagaSpec`): the saga worker's timer runs its cycles. Nothing is
  assumed of the coordinator, which may stop for ever after any statement.

Nothing is assumed of customers, clerks or admins.

## 5. What the properties show

*Inventory.* The booked counter is always what was booked at creation plus the captured
quantities. Booked units and live holds together exceed the total by no more than the
holds captured after their time had run out. Counting holds rather than trusting the
counter, what is sold fits the capacity (`ImplementsContract`).

*Lease and outbox.* Mutual exclusion fails, and `ExclusionUnlessMishap` lists the ways.
Without one of these, one cycle at a time has events in hand. An event marked PROCESSED was
delivered (or its notification handler ignored that it was not), an event is given up after
as many failed attempts as the limit says. It is delivered once more for each attempt that
counts as failed although its message went out; a delivery beyond these has a stop between
delivery and mark, a recovery from a slow cycle, or two racing requeues behind it.

*Payments.* A confirmed booking has been paid by money that arrived. One posting in the
ledger, one wallet debit at most. A second payment has a cancellation or a stale write
behind it: the look at the booking inside the capturing transaction is enough against
racing webhooks, and not against the requests that write by id. The stale sweeper's
conditional update is enough as well. A gateway event caught between the lapse of its hold
and the sweep is settled by redelivery after the sweep.

*Sagas.* Whatever stops, throws or interferes, the price is taken and given back once at
most, and a failed booking stays failed (`SagaContract`). Without a fault a confirmed
booking is complete, whatever workers write to its rows, with an ISSUED ticket if its
caller books at a supplier and one that is still ISSUING if not. A failed one leaves nothing
but its revenue, and a ticket that its caller has no way to void, unless an effect was lost
or a worker wrote to the saga. A saga left open is closed by a worker.

*Requests.* Each invariant says that a promise of the code is kept, or names what breaks
it: mostly two requests that overlap between their looks and their writes, and in these
cases no race at all. A top-up is credited twice, without a race, by a return and an event
that bears another id than ours, or none. A code's limit is passed by bookings that end and
come back. A booking that is withdrawn after a transfer has paid for it may be paid by a
second one. Otherwise repetition alone — redelivery, retries, sweeps one after the other —
does no harm. Two carts that want the same things in opposite order both fail, and keep
nothing. A cart that is confirmed and was never refunded has all it took but what had
expired; what a cart keeps sold without being confirmed was left by a refund, or by a
cancellation, receipt or page view written over a confirmed booking.

## 6. What is proved

Assumptions are the named ASSUMEs of the modules, which say no more than that constants
have their types and special values are not members of the sets.

*InventoryProofs.* The inductive invariant adds to the accounting equation the types, that
a hold being captured is still ACTIVE (its row is locked) and that late holds are captured
ones. Sums of quantities are cardinalities of sets of units, so that the lemmas on sums
need no recursion. `TypeCorrect`, `Accounting`, `CaptureIsolation`, `LifeCycle` (every
change of a hold's status is one of `hold-state-machine.ts`) and `SweepsExpireStaleHolds`
hold for any admins; `PromisesFit`, `NoOversell` and `EngineImplementsContract` for an
allotment whose total is not changed — with an admin they fail (section 7).

*LeaseProofs.* `LeaseInvariant`: without a mishap nobody keeps leases in memory, and a
cycle at work owns the row, with time left, and is alone; a row has an owner that is at
work or cannot delete it.

*OutboxProofs.* `DeliveryInvariant`: who is about to mark an event has delivered it, and
no requeue has selected an event of an unknown type. `CountsInvariant` bounds a retry count
by the failures that happened, in rows and in the copies that cycles carry. `CalmInvariant`:
an event that no stop, recovery from a slow cycle or race of requeues has disturbed is in
one hand at most, which keeps it PROCESSING, and once it has been delivered more often than
answers were lost it is marked or about to be.

*BookingPaymentProofs.* The properties alone are not inductive: `Capture` must know that an
accepted delivery delivers a capture (`AcceptedAreCaptures`), and that a paid booking nobody
has reopened still shows CONFIRMED and CAPTURED with one payment (`PaidOnceUntilReopened`).
With the second, the three guards — the capture's look, the wallet's payable states, the
sweeper's conditional update — each close one way to a second payment or a hidden one.

*SagaProofs.* Six parts, each resting on those before it.

1. `MoneyInvariant` follows the debit through posting, payment row and step row: a payment
   row stands over a debit, and a refund, a confirmation, a recorded success and a
   compensation of the payment stand over a payment row; a paid booking that is still
   payable means that a step has just ended or that an effect was lost.
   `SagaImplementsContract` maps every step to a step of `SagaContract` or a stutter.
2. `SagaTypeCorrect`. The part that is no matter of course is `StartedInOrder`: however
   coordinator and workers restart steps, `earlier` is a strict order of those that have a
   row, total and transitive. From it `EveryDoneStepIsUndone`: a sequence of the done steps,
   the latest first, repeats none and so, having as many places as there are, leaves out
   none (by the library's counting theorems).
3. `DoneInOrder`: a step is recorded as done after those before it and, from the payment on,
   over a payment row; a worker marks no step as done.
4. `NothingIsLost`, for `FailedBookingsAreUndone` and `RefundsFollowVoids`: until a booking
   fails, all it has belongs to a step recorded as done or to the one under way; while steps
   are undone, all it still has belongs to a step yet to be undone; and a ticket is undone
   before the payment, since its step was started later. The last needs `TicketAfterMoney`:
   a retry may start the payment's step after the ticket's, but then the ticket's is not
   done, and is started again before it is.
5. `OnCourse`, for `ConfirmedBookingsAreComplete`: as long as nothing stops or throws, the
   effects are as far as the step under way, exactly. No worker can have written before the
   saga is opened, and what it writes later takes no effect back.
6. `TicketOnCourse`, for the same: the reservation and its name are there from the
   supplier's step on, if the caller books, and the ticket is claimed by that name.

*RuntimeProofs.* A step of the runtime is a step of the lease or leaves it alone
(`RuntimeImplementsLease`), and likewise for the outbox (`RuntimeImplementsOutbox`), so that
what is proved of each holds of the two together. What joins
them is `WorkIsLeased`: a cycle that has events in hand is a cycle at work in the lease's
sense. `OneCycleHasEvents` follows from the lease's exclusion.

*MoneyRequestProofs.* A refund is paid once unless a reason is remembered
(`OneRefundPerBooking`); a second credit of a top-up has crossed webhooks, a hidden or
unseen capture or another id behind it, and a capture that is answered is credited
(`SecondCreditsHaveReasons`, `NoCaptureIsForgotten`); a transfer pays one booking, a
company is charged once for each kind, and a rule buys once, unless two requests have
overlapped (`TransfersArePaidWithOnce`, where a paid booking may also have been reopened
or withdrawn; `GroupsAreChargedOnce`, `RulesBuyOnce`); the budget is exceeded only after a
check that missed a purchase (`BudgetHolds`). The pattern is the same in all: between a
request's look and its write, what it saw is still so unless another has written, and the
write of another is what the auxiliary variable remembers.

*BookingRequestProofs.* `DraftInvariant`: the entry of a request that has had the key
outlives the request's time-to-live or its process has died, so that two requests that
have had one key are apart in time; what an entry answers is its maker's, or that of a
request that came late. Referrals: a verdict VALID was given below the limit
(`VerdictsWereCounted`), and what has passed the limit since is what that count did not
see, what a registration linked and what came back; in a settlement, a clerk who has found
no voucher is alone (`ClearIsAlone`) unless `doubled`. Carts: before its booking a cart's
holds are taken in turn and none has ended (`TakenInTurn`); afterwards they share the fate
of the booking (`SettledTogether`): a payment leaves none of them active, so that whatever
is written over the booking later gives back the first at most, by a refund.
`RequestsTypeCorrect` puts the scenes together: a step of one leaves the variables of the
others alone.

`LeaseTypeCorrect`, `OutboxTypeCorrect`, `NoOversell`, `LifeCycle` and
`SweepsExpireStaleHolds` are proved and not listed in a run, where they would repeat what
the other properties of that run already visit.

Every safety property that a passing run checks is a theorem. Only model-checked are the
liveness properties `HoldsAreEventuallySettled`, `EventsSurviveWorkerDeath`, `EventsSettle`
and `OpenSagasAreClosed`, which rest on fairness and are out of the prover's reach.

## 7. Where code and documents disagree

Three runs end in a violation, each quoted in `PROJECT.json`: the page view that expires a
paid booking, the revenue that a refused supplier leaves earned, and the top-up credited
twice. The models also have the following behaviour, for which there is no run.

Inventory, lease, outbox:

* `setAllotmentPolicy` checks and updates without a transaction: captures in between leave
  `booked` above `total` (`InventoryEngine.ts:318`).
* `booked + active holds <= total`, as INVENTORY_CONCURRENCY.md says, fails after a late
  capture, by its quantity.
* Acquiring a lease is called atomic and is a read and a write (`WorkerLeaseService.ts:69`).
* `requeueDeadLetters` updates by id what it has selected before, and may revive an event
  that another requeue and a cycle have processed in between (`OutboxConsumer.ts:452`).

Payments and sagas:

* A capture accepted before its booking expired is carried out afterwards: the transaction
  does not look for EXPIRED again (`PaymentDomainService.ts:587`), whereas
  `docs/runbooks/outbox-saga-holds.md` says late captures are rejected.
* After a cancellation is requested the booking is no longer CONFIRMED, so another capture
  event pays a second time and undoes the cancellation; the ledger keeps one posting.
* A capture whose hold has expired confirms the booking without inventory: only ACTIVE
  holds are looked for. The wallet path refuses in that case. The wallet path in turn asks
  twice whether the wallet covers the price, the second time after the debit, so that a
  wallet that covers it once is refused.
* The webhook route expects that the gateway may echo its own id (`webhook/route.ts:131`),
  and the look for an earlier capture of a top-up goes by that id.
* A receipt may be handed in for an expired or cancelled booking and makes it
  PENDING_PAYMENT (`receipts.ts:222`); so may a blockchain transfer, also for a refunded
  one, after which the approval's guard SHEET-01 (`crypto-payments.ts:398`) has nothing
  terminal to see. Approving a transfer captures no hold, and the explorer's answer decides
  nothing. Invoice numbers are a count plus one under a unique constraint: two approvals at
  once roll one of them back.
* A saga repeated after a stop behind the payment's row and a refund confirms the booking
  over money that was returned.

Refunds, purchases, drafts, referrals, carts, groups:

* "SUM(pending + refunded) cannot exceed booking totalAmount" (`RefundDomainService.ts:135`)
  fails for two keys at once. Callers in production use the wallet channel only. A FAILED
  refund never retries under its key.
* An automatic purchase may pass the budget and may be made twice, against "AUTO-107: Atomic
  claim" and PRODUCTION_CLAIMS_REGISTRY.md:31: the budget counts FULFILLED rules only, and
  rules are put back by id. After a compensated saga the rule's payment key stays bound to
  the first booking, so that every retry fails; a process that dies leaves its rule TRIGGERED.
* "Cannot be executed multiple times" (`idempotency.ts:6-8`) holds within a process and an
  entry's life. A request that throws blocks its key until then.
* A booking attributed UNMATCHED after a code's registration has scanned is never linked;
  a booking that expired and is handed a receipt counts against the limit again, unasked;
  bookings of refused codes count for the leader; a later voucher pays the whole reward
  again.
* A refund of a cart gives back its first hold alone, and the other units stay sold; a
  receipt that is approved afterwards confirms the booking again without the first unit. A
  cancellation gives back no captured hold. A `createHold` that throws
  (`UnifiedCartService.ts:155`) leaves the earlier holds until they expire.
* docs/API_CONTRACTS.md:129 promises a "48h soft hold on departure capacity" and the
  comment of `BusinessRequest.expiresAt` that a request is cancelled on expiry; no code
  holds, expires or cancels. Capacity is looked at when a draft is made
  (`BusinessDomainService.ts:224`) and taken with the deposit. "A double-click cannot
  double-charge" (`schema.prisma:1811`), but the pages make a new key with every click.

## 8. What is not modelled

* In modelled components: starting a gateway payment, the browser's return for a booking,
  the timestamp window, repricing and quote expiry (refusals that change no booking);
  maker and checker of a refund and the supplier's refund (approval and audit rows);
  creating and editing rules, codes and wallets; the demo handlers of the saga worker;
  what an outbox handler does. One booking has one price and, outside `CartHolds`, one hold.
* Without a caller in production: settlement batches, commissions, approval chains, the
  travel wallet's capture, `resubmitAfterChanges`, `failIdempotency`. `approveHighValueRule`
  has none either, and is modelled since it shares the rule's row. The saga's
  functions that book at a supplier and void are passed by tests alone (and modelled); the
  circuit breaker is local to a process and guards searches.
* Pricing, currency conversion, rendering, notification providers, sign-in and permissions,
  content, tickets and the AI assistant are arithmetic, I/O or single-row requests.
  Loyalty's claim has no await inside its critical section.
* Most of the repository's lines are pages, forms and read-only actions. They keep no state
  that two actors share, and no model would say anything about them.

`PROJECT.json` lists each part with its reason.

## 9. What would come next

1. The lemmas that recur in the proofs (one posting more, a sequence's head and tail, an
   update of one row) in one module.
2. A ledger module: balanced groups and a wallet's balance under concurrent debits from
   bookings, groups and automatic purchases at once.
3. The hold of a cart and the payment of a booking composed, in place of `CartHolds`' one
   step for each way to pay, and the bookings of `Referrals` and `CryptoTransfers` with them.
