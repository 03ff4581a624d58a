-------------------------- MODULE ConfirmationSaga --------------------------
(***************************************************************************)
(* The saga that confirms a booking paid from the wallet:                  *)
(* src/domains/booking/saga/BookingSagaCoordinator.ts, the payment it      *)
(* makes (PaymentDomainService.processPayment), and the background worker  *)
(* that picks up the same rows (src/workers/saga-worker.ts).               *)
(*                                                                         *)
(* The coordinator runs the steps one after the other, each recorded in a  *)
(* SagaStep row before and after its effect; on an error it undoes the     *)
(* steps that are recorded as SUCCEEDED, the latest first.  None of it is  *)
(* one transaction: every await is an action here, and the process may     *)
(* stop, or a statement may throw, between any two.                        *)
(*                                                                         *)
(* The worker looks for sagas that are PENDING or RUNNING, which includes  *)
(* those a coordinator is working on.  It has no handlers outside tests:   *)
(* an unfinished step fails, and a finished one is marked COMPENSATED and  *)
(* nothing is undone.                                                      *)
(*                                                                         *)
(* A booking is confirmed from one place, AutoBuyDomainService, and again  *)
(* only by a caller that repeats it: attempts follow one another.          *)
(***************************************************************************)
EXTENDS Naturals, Sequences, FiniteSets

CONSTANTS
    Starts,         \* what a saga may begin with: a hold, money in the wallet, and
                    \* functions of its caller that book at a supplier and void that
    Workers,        \* processes that run SagaWorker (worker, web, cron route)
    MaxAttempts,    \* bound: calls of executeBookingConfirmation
    MaxFaults       \* bound: processes that stop and statements that throw

ASSUME SagaAssumption ==
    /\ Starts \subseteq [hold : {"NONE", "ACTIVE"}, funds : Nat, given : SUBSET {"call", "void"}]
    /\ MaxAttempts \in Nat \ {0} /\ MaxFaults \in Nat

Catalogue == <<"hold", "pay", "supplier", "ledger", "invoice">>
Steps == {Catalogue[i] : i \in 1..Len(Catalogue)}

VARIABLES
    booking,    \* Booking.status: "PAYABLE" is DRAFT, HELD or PENDING_PAYMENT
    hold,       \* status of the booking's InventoryHold, "NONE" without one
    saga,       \* SagaExecution.status, "none" without a row
    row,        \* SagaStep.status of each step, "none" without a row
    earlier,    \* SagaStep.startedAt: the steps started before each step
    payment,    \* the SUCCESS Payment row exists
    funds,      \* the wallet covers the price this many times
    posted,     \* postings to the ledger: wallet debits, refunds, revenue
    reserved,   \* the supplier holds a reservation
    invoices,   \* status of the invoices issued, one after the other
    announced,  \* BOOKING_CONFIRMED events written to the outbox
    given,      \* the functions that the booking's caller passes
    pnr,        \* this attempt has a name for the reservation
    ticket,     \* Booking.ticketStatus
    pc, at,     \* where the coordinator is, and in which step
    todo,       \* steps compensateSaga has still to undo
    attempts, faults,
    wpc, seen,  \* where each worker is, and the rows as it fetched them
    meddled,    \* auxiliary: a worker has written to the saga
    mislaid     \* auxiliary: a statement or process failed between the debit
                \* and the step's SUCCEEDED, or while a step was undone

effects == <<hold, payment, funds, posted, reserved, invoices, announced>>
worker  == <<wpc, seen, meddled>>
counts  == <<attempts, faults>>
ticketing == <<given, pnr, ticket>>
sagaVars == <<booking, saga, row, earlier, effects, ticketing, pc, at, todo, counts, worker,
              mislaid>>

Step == Catalogue[at]
Begun == {s \in Steps : row[s] # "none"}
Open == saga \in {"PENDING", "RUNNING"}

(* The rows are in an order.                                               *)
StartedInOrder ==
    /\ earlier \in [Steps -> SUBSET Begun]
    /\ \A s \in Steps : s \notin earlier[s] /\ (s \notin Begun => earlier[s] = {})
    /\ \A s, t \in Begun : s # t => (s \in earlier[t] <=> t \notin earlier[s])
    /\ \A s \in Begun : \A t \in earlier[s] : earlier[t] \subseteq earlier[s]

SagaTypeOK ==
    /\ booking \in {"PAYABLE", "CONFIRMED", "FAILED"}
    /\ hold \in {"NONE", "ACTIVE", "CAPTURED", "RELEASED", "EXPIRED"}
    /\ saga \in {"none", "PENDING", "RUNNING", "SUCCEEDED", "COMPENSATING", "COMPENSATED"}
    /\ row \in [Steps -> {"none", "RUNNING", "SUCCEEDED", "FAILED", "COMPENSATED"}]
    /\ StartedInOrder
    /\ payment \in BOOLEAN /\ reserved \in BOOLEAN
    /\ funds \in Nat
    /\ posted \in [{"debit", "refund", "revenue"} -> Nat]
    /\ invoices \in Seq({"ISSUED", "VOIDED"}) /\ announced \in Nat
    /\ given \subseteq {"call", "void"} /\ pnr \in BOOLEAN
    /\ ticket \in {"NOT_ISSUED", "ISSUING", "ISSUED"}
    /\ pc \in {"idle", "open", "enter", "act", "debited", "recorded", "confirmed",
               "acted", "failed", "compensate", "undo", "undone", "close",
               "confirm", "announce", "finish"}
    /\ at \in 1..Len(Catalogue) + 1
    /\ todo \in Seq(Steps)
    /\ attempts \in 0..MaxAttempts /\ faults \in 0..MaxFaults
    /\ wpc \in [Workers -> {"idle", "fetched", "marked", "failed", "reversing"}]
    /\ seen \in [Workers -> [saga : {"none", "PENDING", "RUNNING"},
                             row : [Steps -> {"none", "RUNNING", "SUCCEEDED", "FAILED", "COMPENSATED"}]]]
    /\ meddled \in BOOLEAN /\ mislaid \in BOOLEAN

NothingSeen == [saga |-> "none", row |-> [s \in Steps |-> "none"]]

SagaInit ==
    /\ booking = "PAYABLE"
    /\ \E s \in Starts : hold = s.hold /\ funds = s.funds /\ given = s.given
    /\ saga = "none"
    /\ row = [s \in Steps |-> "none"]
    /\ earlier = [s \in Steps |-> {}]
    /\ payment = FALSE
    /\ posted = [p \in {"debit", "refund", "revenue"} |-> 0]
    /\ reserved = FALSE /\ invoices = <<>> /\ announced = 0
    /\ pnr = FALSE /\ ticket = "NOT_ISSUED"
    /\ pc = "idle" /\ at = 1 /\ todo = <<>>
    /\ attempts = 0 /\ faults = 0
    /\ wpc = [w \in Workers |-> "idle"]
    /\ seen = [w \in Workers |-> NothingSeen]
    /\ meddled = FALSE /\ mislaid = FALSE

(* The steps recorded as done, and the sequences that have every element   *)
(* of S once if they are ordered.                                          *)
Done == {s \in Steps : row[s] = "SUCCEEDED"}
Arrangements(S) == [1..Cardinality(S) -> S]

(***************************************************************************)
(* Faulty variants of the definitions below, for checking the properties.  *)
(***************************************************************************)
PostsAgain(p) == [posted EXCEPT ![p] = @ + 1]
OldestFirst == {q \in Arrangements(Done) : \A i, j \in DOMAIN q : i < j => q[i] \in earlier[q[j]]}
KeepsNoTime(s) == [t \in Steps |-> earlier[t] \ {s}]
SkipsInvoice(i) == IF i = 4 THEN 6 ELSE i + 1
KeepsSeats == UNCHANGED hold
OnlyPending == saga = "PENDING"

-----------------------------------------------------------------------------
(* postBalancedEntry: one posting for each source, so for each of the      *)
(* booking's debit, the saga's refund and the booking's revenue.           *)
PostOnce(p) == IF posted[p] > 0 THEN posted ELSE [posted EXCEPT ![p] = @ + 1]

Covered == funds + posted["refund"] > posted["debit"]

(* startedAt is written whenever a step (re)starts.                        *)
Restarted(s) ==
    [t \in Steps |-> IF t = s THEN Begun \ {s} ELSE earlier[t] \ {s}]

(* The step after step i.                                                  *)
Following(i) == i + 1

(* What compensateSaga reads: the SUCCEEDED steps, ordered by startedAt,   *)
(* the latest first.                                                       *)
ToUndo == {q \in Arrangements(Done) : \A i, j \in DOMAIN q : i < j => q[j] \in earlier[q[i]]}

(* compensateCapturedHold: an ACTIVE or CAPTURED hold is RELEASED.         *)
GiveBackSeats == hold' = IF hold \in {"ACTIVE", "CAPTURED"} THEN "RELEASED" ELSE hold

(***************************************************************************)
(* The coordinator.                                                        *)
(***************************************************************************)
Proceed ==
    /\ at' = Following(at)
    /\ pc' = IF Following(at) <= Len(Catalogue) THEN "enter" ELSE "confirm"

(* executeBookingConfirmation: a CONFIRMED booking is answered at once and *)
(* a FAILED one refused by the state machine.                              *)
Begin ==
    /\ pc = "idle" /\ attempts < MaxAttempts
    /\ attempts' = attempts + 1
    /\ pc' = IF booking = "PAYABLE" THEN "open" ELSE "idle"
    /\ UNCHANGED <<booking, saga, row, earlier, effects, at, todo, faults, ticketing,
                   worker, mislaid>>

(* The saga is created, or continued whatever its status; only a SUCCEEDED *)
(* one is answered at once.  Without a hold token there is no hold step.   *)
(* No unconfirmed booking has a reservation's name, whatever was reserved. *)
OpenSaga ==
    /\ pc = "open"
    /\ saga' = IF saga = "none" THEN "RUNNING" ELSE saga
    /\ at' = IF hold = "NONE" THEN 2 ELSE 1
    /\ pnr' = FALSE
    /\ pc' = IF saga = "SUCCEEDED" THEN "idle" ELSE "enter"
    /\ UNCHANGED <<booking, row, earlier, effects, todo, counts, given, ticket,
                   worker, mislaid>>

(* executeStep, before the effect: a SUCCEEDED step is skipped.            *)
Enter ==
    /\ pc = "enter"
    /\ \/ /\ row[Step] = "SUCCEEDED"
          /\ Proceed
          /\ UNCHANGED <<row, earlier>>
       \/ /\ row[Step] # "SUCCEEDED"
          /\ row' = [row EXCEPT ![Step] = "RUNNING"]
          /\ earlier' = Restarted(Step)
          /\ pc' = "act" /\ UNCHANGED at
    /\ UNCHANGED <<booking, saga, effects, todo, counts, ticketing, worker, mislaid>>

(* The effect of a step other than the payment.  Without a function that   *)
(* books at a supplier, its step succeeds and reserves nothing; the only   *)
(* caller in production passes none.                                       *)
Act ==
    /\ pc = "act" /\ pc' = "acted"
    /\ \/ /\ Step = "hold" /\ hold \in {"ACTIVE", "CAPTURED"}
          /\ hold' = "CAPTURED"
          /\ UNCHANGED <<payment, funds, posted, reserved, invoices, announced, pnr>>
       \/ /\ Step = "supplier"
          /\ reserved' = (reserved \/ "call" \in given)
          /\ pnr' = (pnr \/ "call" \in given)
          /\ UNCHANGED <<hold, payment, funds, posted, invoices, announced>>
       \/ /\ Step = "ledger"
          /\ posted' = PostOnce("revenue")
          /\ UNCHANGED <<hold, payment, funds, reserved, invoices, announced, pnr>>
       \/ /\ Step = "invoice"
          /\ invoices' = Append(invoices, "ISSUED")
          /\ UNCHANGED <<hold, payment, funds, posted, reserved, announced, pnr>>
    /\ UNCHANGED <<booking, saga, row, earlier, given, ticket, at, todo, counts, worker,
                   mislaid>>

(* processPayment: a SUCCESS payment under the same key is the answer;     *)
(* otherwise the wallet is debited in a transaction of its own, which      *)
(* looks at the balance before it looks for an earlier posting.            *)
Debit ==
    /\ pc = "act" /\ Step = "pay"
    /\ \/ /\ payment
          /\ pc' = "acted"
          /\ UNCHANGED posted
       \/ /\ ~payment /\ Covered
          /\ posted' = PostOnce("debit")
          /\ pc' = "debited"
    /\ UNCHANGED <<booking, saga, row, earlier, hold, payment, funds, reserved, invoices,
                   announced, at, todo, counts, ticketing, worker, mislaid>>

RecordPayment ==
    /\ pc = "debited" /\ pc' = "recorded"
    /\ payment' = TRUE
    /\ UNCHANGED <<booking, saga, row, earlier, hold, funds, posted, reserved, invoices,
                   announced, at, todo, counts, ticketing, worker, mislaid>>

(* The payment confirms the booking: from here on the saga is not repeated.*)
ConfirmByPayment ==
    /\ pc = "recorded" /\ pc' = "confirmed"
    /\ booking' = "CONFIRMED"
    /\ UNCHANGED <<saga, row, earlier, effects, at, todo, counts, ticketing, worker, mislaid>>

(* wireBookingConfirmationToLedger; its failure is caught and logged.      *)
RealizeRevenue ==
    /\ pc = "confirmed" /\ pc' = "acted"
    /\ \/ posted' = PostOnce("revenue") /\ UNCHANGED faults
       \/ faults < MaxFaults /\ faults' = faults + 1 /\ UNCHANGED posted
    /\ UNCHANGED <<booking, saga, row, earlier, hold, payment, funds, reserved, invoices,
                   announced, at, todo, attempts, ticketing, worker, mislaid>>

StepSucceeds ==
    /\ pc = "acted"
    /\ row' = [row EXCEPT ![Step] = "SUCCEEDED"]
    /\ Proceed
    /\ UNCHANGED <<booking, saga, earlier, effects, todo, counts, ticketing, worker, mislaid>>

(* The action refuses: no seats, no money, or the supplier says no.        *)
Refused ==
    /\ pc = "act" /\ pc' = "failed"
    /\ \/ Step = "hold" /\ hold \notin {"ACTIVE", "CAPTURED"}
       \/ Step = "pay" /\ ~payment /\ ~Covered
       \/ Step = "supplier" /\ "call" \in given
    /\ UNCHANGED <<booking, saga, row, earlier, effects, at, todo, counts, ticketing,
                   worker, mislaid>>

(* A statement of the action throws, or the update to SUCCEEDED after it:  *)
(* then the effect stays behind a step that counts as FAILED.              *)
Throws ==
    /\ pc \in {"act", "debited", "recorded", "confirmed", "acted"} /\ pc' = "failed"
    /\ faults < MaxFaults /\ faults' = faults + 1
    /\ mislaid' = (mislaid \/ pc # "act")
    /\ UNCHANGED <<booking, saga, row, earlier, effects, at, todo, attempts, worker, ticketing>>

StepFails ==
    /\ pc = "failed" /\ pc' = "compensate"
    /\ row' = [row EXCEPT ![Step] = "FAILED"]
    /\ UNCHANGED <<booking, saga, earlier, effects, at, todo, counts, ticketing,
                   worker, mislaid>>

(* compensateSaga: the saga is COMPENSATING, and the steps to undo are     *)
(* read once.                                                              *)
BeginUndoing ==
    /\ pc = "compensate" /\ pc' = "undo"
    /\ saga' = "COMPENSATING"
    /\ todo' \in ToUndo
    /\ UNCHANGED <<booking, row, earlier, effects, at, counts, ticketing, worker, mislaid>>

(* The effect of the latest step is undone.  A reservation is voided if    *)
(* the caller has passed a function for that, which a failure of the first *)
(* two steps does not hand on; the revenue of a ledger step stays; and the *)
(* invoice that the step's result names, the latest, is VOIDED.            *)
Undo ==
    /\ pc = "undo" /\ todo # <<>> /\ pc' = "undone"
    /\ \/ /\ Head(todo) = "hold" /\ GiveBackSeats
          /\ UNCHANGED <<payment, funds, posted, reserved, invoices, announced>>
       \/ /\ Head(todo) = "pay"
          /\ posted' = PostOnce("refund")
          /\ UNCHANGED <<hold, payment, funds, reserved, invoices, announced>>
       \/ /\ Head(todo) = "supplier"
          /\ reserved' = (reserved /\ ("void" \notin given \/ Step \in {"hold", "pay"}))
          /\ UNCHANGED <<hold, payment, funds, posted, invoices, announced>>
       \/ /\ Head(todo) = "ledger"
          /\ UNCHANGED effects
       \/ /\ Head(todo) = "invoice"
          /\ invoices' = [invoices EXCEPT ![Len(invoices)] = "VOIDED"]
          /\ UNCHANGED <<hold, payment, funds, posted, reserved, announced>>
    /\ UNCHANGED <<booking, saga, row, earlier, at, todo, counts, ticketing, worker, mislaid>>

MarkUndone ==
    /\ pc = "undone" /\ pc' = "undo"
    /\ row' = [row EXCEPT ![Head(todo)] = "COMPENSATED"]
    /\ todo' = Tail(todo)
    /\ UNCHANGED <<booking, saga, earlier, effects, at, counts, ticketing, worker, mislaid>>

(* Undoing a step throws: that is logged, and the next one is undone.      *)
UndoThrows ==
    /\ pc \in {"undo", "undone"} /\ todo # <<>> /\ pc' = "undo"
    /\ faults < MaxFaults /\ faults' = faults + 1
    /\ todo' = Tail(todo)
    /\ mislaid' = (mislaid \/ pc = "undo")
    /\ UNCHANGED <<booking, saga, row, earlier, effects, at, attempts, worker, ticketing>>

FailBooking ==
    /\ pc = "undo" /\ todo = <<>> /\ pc' = "close"
    /\ booking' = "FAILED"
    /\ UNCHANGED <<saga, row, earlier, effects, at, todo, counts, ticketing, worker, mislaid>>

CloseFailed ==
    /\ pc = "close" /\ pc' = "idle"
    /\ saga' = "COMPENSATED"
    /\ UNCHANGED <<booking, row, earlier, effects, at, todo, counts, ticketing,
                   worker, mislaid>>

(* A ticket is claimed if this attempt was given a name for it.            *)
ConfirmBooking ==
    /\ pc = "confirm" /\ pc' = "announce"
    /\ booking' = "CONFIRMED"
    /\ ticket' = IF pnr THEN "ISSUED" ELSE "ISSUING"
    /\ UNCHANGED <<saga, row, earlier, effects, given, pnr, at, todo, counts, worker, mislaid>>

Announce ==
    /\ pc = "announce" /\ pc' = "finish"
    /\ announced' = announced + 1
    /\ UNCHANGED <<booking, saga, row, earlier, hold, payment, funds, posted, reserved,
                   invoices, at, todo, counts, ticketing, worker, mislaid>>

Finish ==
    /\ pc = "finish" /\ pc' = "idle"
    /\ saga' = "SUCCEEDED"
    /\ UNCHANGED <<booking, row, earlier, effects, at, todo, counts, ticketing,
                   worker, mislaid>>

(* The process stops, or a statement outside the steps throws to a caller  *)
(* that gives up.                                                          *)
Stop ==
    /\ pc # "idle" /\ pc' = "idle"
    /\ faults < MaxFaults /\ faults' = faults + 1
    /\ mislaid' = (mislaid \/ pc \notin {"open", "enter", "act"})
    /\ UNCHANGED <<booking, saga, row, earlier, effects, at, todo, attempts, worker, ticketing>>

(* The hold's time is up, or its sweeper comes by.                         *)
HoldLapses ==
    /\ hold = "ACTIVE" /\ hold' = "EXPIRED"
    /\ UNCHANGED <<booking, saga, row, earlier, payment, funds, posted, reserved, invoices,
                   announced, pc, at, todo, counts, ticketing, worker, mislaid>>

Coordinate ==
    \/ Begin \/ OpenSaga \/ Enter \/ Act \/ Debit \/ RecordPayment \/ ConfirmByPayment
    \/ RealizeRevenue \/ StepSucceeds \/ Refused \/ Throws \/ StepFails
    \/ BeginUndoing \/ Undo \/ MarkUndone \/ UndoThrows \/ FailBooking \/ CloseFailed
    \/ ConfirmBooking \/ Announce \/ Finish \/ Stop

(***************************************************************************)
(* The workers.                                                            *)
(***************************************************************************)
coordinator == <<booking, effects, ticketing, pc, at, todo, counts, mislaid>>

(* The sagas a cycle fetches.                                              *)
Fetchable == saga \in {"PENDING", "RUNNING"}

(* runSagaCycle: a saga that has been RUNNING for five minutes becomes     *)
(* PENDING, and the PENDING and RUNNING ones are fetched with their steps. *)
(* The coordinator does not touch the saga's row while it works, so a slow *)
(* one looks the same as one that is gone.                                 *)
Fetch(w) ==
    /\ wpc[w] = "idle" /\ Fetchable
    /\ saga' \in {saga, "PENDING"}
    /\ wpc' = [wpc EXCEPT ![w] = "fetched"]
    /\ seen' = [seen EXCEPT ![w] = [saga |-> saga', row |-> row]]
    /\ meddled' = (meddled \/ saga' # saga)
    /\ UNCHANGED <<coordinator, row, earlier>>

MarkRunning(w) ==
    /\ wpc[w] = "fetched"
    /\ wpc' = [wpc EXCEPT ![w] = "marked"]
    /\ saga' = IF seen[w].saga = "RUNNING" THEN saga ELSE "RUNNING"
    /\ meddled' = (meddled \/ saga' # saga)
    /\ UNCHANGED <<coordinator, row, earlier, seen>>

Unfinished(w) == {s \in Steps : seen[w].row[s] \in {"RUNNING", "FAILED"}}

(* A step that was not finished is set RUNNING and, without a handler,     *)
(* FAILED.                                                                 *)
FailStep(w) ==
    /\ wpc[w] = "marked"
    /\ \E s \in Unfinished(w) :
         /\ row' = [row EXCEPT ![s] = "FAILED"]
         /\ earlier' = Restarted(s)
    /\ wpc' = [wpc EXCEPT ![w] = "failed"]
    /\ meddled' = TRUE
    /\ UNCHANGED <<coordinator, saga, seen>>

Reverse(w) ==
    /\ wpc[w] = "failed"
    /\ saga' = "COMPENSATING"
    /\ wpc' = [wpc EXCEPT ![w] = "reversing"]
    /\ UNCHANGED <<coordinator, row, earlier, seen, meddled>>

(* A step seen SUCCEEDED is marked as compensated; nothing is undone.      *)
MarkReversed(w) ==
    /\ wpc[w] = "reversing"
    /\ \E s \in {t \in Steps : seen[w].row[t] = "SUCCEEDED"} :
         /\ row' = [row EXCEPT ![s] = "COMPENSATED"]
         /\ seen' = [seen EXCEPT ![w].row[s] = "none"]
    /\ UNCHANGED <<coordinator, saga, earlier, wpc, meddled>>

(* The saga is closed: COMPENSATED after a failure, SUCCEEDED when every   *)
(* step that had a row was finished.                                       *)
CloseSaga(w) ==
    /\ \/ /\ wpc[w] = "reversing" /\ \A s \in Steps : seen[w].row[s] # "SUCCEEDED"
          /\ saga' = "COMPENSATED"
       \/ /\ wpc[w] = "marked" /\ Unfinished(w) = {}
          /\ saga' = "SUCCEEDED"
    /\ wpc' = [wpc EXCEPT ![w] = "idle"]
    /\ seen' = [seen EXCEPT ![w] = NothingSeen]
    /\ meddled' = TRUE
    /\ UNCHANGED <<coordinator, row, earlier>>

WorkerStops(w) ==
    /\ wpc[w] # "idle"
    /\ faults < MaxFaults /\ faults' = faults + 1
    /\ wpc' = [wpc EXCEPT ![w] = "idle"]
    /\ seen' = [seen EXCEPT ![w] = NothingSeen]
    /\ UNCHANGED <<booking, saga, row, earlier, effects, pc, at, todo, attempts, meddled,
                   mislaid, ticketing>>

WorkSaga(w) ==
    \/ Fetch(w) \/ MarkRunning(w) \/ FailStep(w) \/ Reverse(w) \/ MarkReversed(w)
    \/ CloseSaga(w)

SagaNext ==
    \/ Coordinate
    \/ HoldLapses
    \/ \E w \in Workers : WorkSaga(w) \/ WorkerStops(w)

SagaSpec == SagaInit /\ [][SagaNext]_sagaVars

-----------------------------------------------------------------------------
AtRest == pc = "idle"

(* A saga that ended without a fault is complete when the booking is       *)
(* CONFIRMED: paid once, seats captured, earned, invoiced and announced    *)
(* once, and with a ticket exactly if the caller books at a supplier;      *)
(* whatever the workers wrote to its rows meanwhile.                       *)
ConfirmedIsComplete ==
    AtRest /\ booking = "CONFIRMED" /\ faults = 0 =>
        /\ posted = [debit |-> 1, refund |-> 0, revenue |-> 1]
        /\ payment /\ hold \in {"NONE", "CAPTURED"}
        /\ invoices = <<"ISSUED">> /\ announced = 1
        /\ reserved <=> "call" \in given
        /\ ticket = IF "call" \in given THEN "ISSUED" ELSE "ISSUING"

(* A reservation that the saga is able to void.                            *)
Voidable == reserved /\ "void" \in given

(* When the booking FAILED, the customer has the money back, and no seat,  *)
(* invoice or ticket that could be voided is left, unless an effect was    *)
(* mislaid by a fault or a worker wrote to the saga.                       *)
FailedLeavesNothing ==
    booking = "FAILED" /\ ~mislaid /\ ~meddled =>
        /\ posted["debit"] = posted["refund"]
        /\ hold # "CAPTURED" /\ ~Voidable
        /\ \A i \in DOMAIN invoices : invoices[i] = "VOIDED"

(* The money goes back only after the ticket is void, if it can be voided: *)
(* nobody travels on a refunded ticket, except after a fault or a worker's *)
(* write.                                                                  *)
RefundedTicketsAreVoid ==
    posted["refund"] > 0 /\ ~mislaid /\ ~meddled => ~Voidable

(* The customer's money and the booking's verdict follow the contract,     *)
(* whatever stops, throws or writes in between.                            *)
Contract == INSTANCE SagaContract WITH
    money   <- IF posted["debit"] = 0 /\ posted["refund"] = 0 THEN "kept"
               ELSE IF posted["debit"] = 1 /\ posted["refund"] = 0 THEN "taken"
               ELSE IF posted["debit"] = 1 /\ posted["refund"] = 1 THEN "returned"
               ELSE "broken",
    verdict <- IF booking = "PAYABLE" THEN "open"
               ELSE IF booking = "CONFIRMED" THEN "confirmed" ELSE "failed",
    mishap  <- mislaid

ImplementsContract == Contract!ContractSpec

(* Workers and coordinators that run on.                                   *)
SagaFairness == \A w \in Workers : WF_sagaVars(WorkSaga(w))
FairSagaSpec == SagaSpec /\ SagaFairness

(* A saga whose coordinator is gone does not stay open.                    *)
OpenSagasAreClosed == (Open ~> ~Open)

(* The code's own remark: what a failed saga had posted is reversed.       *)
FailedEarnsNothing ==
    booking = "FAILED" /\ AtRest /\ faults = 0 => posted["revenue"] = 0
=============================================================================
