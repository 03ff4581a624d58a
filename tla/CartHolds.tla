------------------------------- MODULE CartHolds -------------------------------
(***************************************************************************)
(* Bookings of several products: UnifiedCartService.createMultiItemBooking *)
(* and what becomes of its holds (PaymentDomainService, saga-orchestrator, *)
(* actions/receipts.ts, RefundDomainService, InventoryEngine).             *)
(*                                                                         *)
(* A cart takes one hold for each of its lines, one after the other, and   *)
(* gives back those it has when a line is sold out or when its booking is  *)
(* not written.  The booking names the first hold as its own (holdToken)   *)
(* and is linked to all of them: whoever confirms it captures the linked   *)
(* holds that are active, a payment from the wallet asks for the first one *)
(* besides, and a refund gives back the first one alone.                   *)
(*                                                                         *)
(* Of the payment there is what the holds see.  An event, a receipt, a     *)
(* view of the page, a cancellation and a refund each look at the booking  *)
(* first and write by its id later; the look is left out where it could    *)
(* have been made when the booking was written.                            *)
(*                                                                         *)
(* A cart is put together in seconds; its holds live for 15 minutes, and   *)
(* those that were taken earlier end earlier.                              *)
(***************************************************************************)
EXTENDS Naturals, Sequences, FiniteSets

CONSTANTS
    Carts,      \* calls of createMultiItemBooking
    Items,      \* allotments
    Contents,   \* the allotments the lines of a cart ask one unit of
    Units,      \* free units of every allotment
    MaxMishaps  \* bound: statements that throw and processes that die

ASSUME CartAssumption ==
    /\ Contents \in [Carts -> Seq(Items)]
    /\ Units \in Nat /\ MaxMishaps \in Nat

LinesOf(c) == 1..Len(Contents[c])
Lines      == UNION {{c} \X LinesOf(c) : c \in Carts}

VARIABLES
    seat,        \* InventoryHold.status of each line, "NONE" without a hold
    past,        \* lines whose hold's expiresAt has passed
    progress,    \* how far each call has come
    line,        \* the line it works on
    reservation, \* Booking.status of each cart, "NONE" without a booking
    paid,        \* carts whose booking has a SUCCESS payment
    receipted,   \* carts for whose booking a receipt was handed in
    viewed,      \* carts whose booking somebody has seen unpaid after its time
    refunded,    \* carts whose booking has a SETTLED refund
    overwritten, \* auxiliary: carts whose confirmed booking was written over
    forgotten,   \* auxiliary: lines whose release a mishap has prevented
    mishaps

upkeep   == <<paid, receipted, viewed, refunded, overwritten>>
cartVars == <<seat, past, progress, line, reservation, upkeep, forgotten, mishaps>>

CartTypeOK ==
    /\ seat \in [Lines -> {"NONE", "ACTIVE", "CAPTURED", "RELEASED", "EXPIRED"}]
    /\ past \subseteq Lines
    /\ progress \in [Carts -> {"holding", "undoing", "over"}]
    /\ line \in [Carts -> Nat]
    /\ reservation \in [Carts -> {"NONE", "HELD", "PENDING_PAYMENT", "CONFIRMED",
                                  "CANCEL_REQUESTED", "EXPIRED", "REFUNDED"}]
    /\ paid \subseteq Carts /\ receipted \subseteq Carts /\ viewed \subseteq Carts
    /\ refunded \subseteq paid /\ overwritten \subseteq paid
    /\ \A c \in Carts : reservation[c] = "NONE" => c \notin paid \cup receipted \cup viewed
    /\ \A c \in Carts :
         reservation[c] \in {"CONFIRMED", "CANCEL_REQUESTED", "REFUNDED"} => c \in paid
    /\ forgotten \subseteq Lines
    /\ mishaps \in 0..MaxMishaps

CartInit ==
    /\ seat = [l \in Lines |-> "NONE"] /\ past = {}
    /\ progress = [c \in Carts |-> "holding"] /\ line = [c \in Carts |-> 1]
    /\ reservation = [c \in Carts |-> "NONE"]
    /\ paid = {} /\ receipted = {} /\ viewed = {} /\ refunded = {} /\ overwritten = {}
    /\ forgotten = {} /\ mishaps = 0

(***************************************************************************)
(* Faulty variants of the definitions below, for checking the properties.  *)
(***************************************************************************)
AllButTheLast(c) == {i \in LinesOf(c) : i + 1 < line[c] /\ seat[<<c, i>>] = "ACTIVE"}
OwnHold(c) == {1} \cap {i \in LinesOf(c) : seat[<<c, i>>] = "ACTIVE"}

-----------------------------------------------------------------------------
(* Units of an allotment that createHold finds free.                       *)
Free(item) ==
    Cardinality({l \in Lines :
        /\ Contents[l[1]][l[2]] = item
        /\ seat[l] = "CAPTURED" \/ (seat[l] = "ACTIVE" /\ l \notin past)}) < Units

(* The holds of acquiredTokens that releaseHold would release.             *)
Acquired(c) == {i \in LinesOf(c) : i < line[c] /\ seat[<<c, i>>] = "ACTIVE"}

(* The holds linked to the booking that wait for its payment.              *)
ActiveHolds(c) == {i \in LinesOf(c) : seat[<<c, i>>] = "ACTIVE"}

Becomes(c, S, status) ==
    seat' = [l \in Lines |-> IF l[1] = c /\ l[2] \in S THEN status ELSE seat[l]]

Goes(c, from, to) == progress[c] = from /\ progress' = [progress EXCEPT ![c] = to]

Mishap(c, S) ==
    /\ mishaps < MaxMishaps /\ mishaps' = mishaps + 1
    /\ forgotten' = forgotten \cup ({c} \X S)

(***************************************************************************)
(* createMultiItemBooking.                                                 *)
(***************************************************************************)
TakeHold(c) ==
    /\ line[c] \in LinesOf(c) /\ Free(Contents[c][line[c]])
    /\ Goes(c, "holding", "holding")
    /\ Becomes(c, {line[c]}, "ACTIVE")
    /\ line' = [line EXCEPT ![c] = @ + 1]
    /\ UNCHANGED <<past, reservation, upkeep, forgotten, mishaps>>

SoldOut(c) ==
    /\ line[c] \in LinesOf(c) /\ ~Free(Contents[c][line[c]])
    /\ Goes(c, "holding", "undoing")
    /\ UNCHANGED <<seat, past, line, reservation, upkeep, forgotten, mishaps>>

WriteBooking(c) ==
    /\ line[c] \notin LinesOf(c) /\ Goes(c, "holding", "over")
    /\ reservation' = [reservation EXCEPT ![c] = "HELD"]
    /\ UNCHANGED <<seat, past, line, upkeep, forgotten, mishaps>>

(* The booking's transaction fails: the catch releases the holds.          *)
BookingFails(c) ==
    /\ line[c] \notin LinesOf(c) /\ Goes(c, "holding", "undoing")
    /\ UNCHANGED <<seat, past, line, reservation, upkeep, forgotten, mishaps>>

GiveBack(c) ==
    /\ Goes(c, "undoing", "undoing")
    /\ \E i \in Acquired(c) :
         /\ <<c, i>> \notin forgotten
         /\ \A j \in Acquired(c) : j < i => <<c, j>> \in forgotten
         /\ \/ Becomes(c, {i}, "RELEASED") /\ UNCHANGED <<forgotten, mishaps>>
            \/ Mishap(c, {i}) /\ UNCHANGED seat
    /\ UNCHANGED <<past, line, reservation, upkeep>>

GivenBack(c) ==
    /\ {c} \X Acquired(c) \subseteq forgotten /\ Goes(c, "undoing", "over")
    /\ UNCHANGED <<seat, past, line, reservation, upkeep, forgotten, mishaps>>

(* createHold throws, outside any try, or the process dies.                *)
Abandon(c) ==
    /\ Goes(c, "holding", "over") \/ Goes(c, "undoing", "over")
    /\ Mishap(c, Acquired(c))
    /\ UNCHANGED <<seat, past, line, reservation, upkeep>>

(***************************************************************************)
(* What becomes of the booking and of its holds.                           *)
(***************************************************************************)
Booked(c) == reservation[c] # "NONE"
Open(c)   == reservation[c] \in {"HELD", "PENDING_PAYMENT"}
Overdue(c) == {c} \X LinesOf(c) \subseteq past

Turns(c, status) ==
    /\ Booked(c) /\ reservation' = [reservation EXCEPT ![c] = status]
    /\ UNCHANGED <<past, progress, line, forgotten, mishaps>>

(* A write by id, whatever the booking has become.                         *)
Overwrites(c, status) ==
    /\ Turns(c, status)
    /\ overwritten' = IF reservation[c] = "CONFIRMED" THEN overwritten \cup {c} ELSE overwritten

(* The booking is paid: the linked holds are captured; one whose time has  *)
(* passed, and that no sweep has expired, makes it fail.                   *)
Confirms(c) ==
    /\ ({c} \X ActiveHolds(c)) \cap past = {}
    /\ Turns(c, "CONFIRMED") /\ Becomes(c, ActiveHolds(c), "CAPTURED")
    /\ paid' = paid \cup {c}
    /\ UNCHANGED <<receipted, viewed, refunded, overwritten>>

(* executeCapture, for an event that was accepted at some time before.     *)
CaptureAll(c) == reservation[c] # "CONFIRMED" /\ Confirms(c)

(* confirmBookingSaga: processPayment, and then the booking's holdToken,   *)
(* which is active or captured already.                                    *)
PayFromWallet(c) ==
    /\ Open(c) /\ \A i \in LinesOf(c) : i = 1 => seat[<<c, i>>] \in {"ACTIVE", "CAPTURED"}
    /\ Confirms(c)

(* submitCardTransferReceipt refuses a booking that is confirmed when it   *)
(* looks.                                                                  *)
HandInReceipt(c) ==
    /\ Overwrites(c, "PENDING_PAYMENT") /\ receipted' = receipted \cup {c}
    /\ UNCHANGED <<seat, paid, viewed, refunded>>

(* reviewCardTransferReceipt, by a clerk who has found the booking unpaid  *)
(* after the receipt was handed in.                                        *)
ApproveReceipt(c) == c \in receipted /\ Confirms(c)

(* cancelBooking, by somebody who has seen the booking confirmed.  The     *)
(* first hold is released when it is active, and stays when it is captured.*)
CancelCart(c) ==
    /\ c \in paid /\ Overwrites(c, "CANCEL_REQUESTED")
    /\ Becomes(c, {1} \cap ActiveHolds(c), "RELEASED")
    /\ UNCHANGED <<paid, receipted, viewed, refunded>>

(* executeRefundPayout, once, for a refund that was requested when the     *)
(* booking was confirmed or its cancellation asked for: the holdToken is   *)
(* compensated.                                                            *)
RefundCart(c) ==
    /\ c \in paid \ refunded /\ Turns(c, "REFUNDED")
    /\ Becomes(c, {i \in LinesOf(c) : i = 1 /\ seat[<<c, i>>] \in {"ACTIVE", "CAPTURED"}},
               "RELEASED")
    /\ refunded' = refunded \cup {c}
    /\ UNCHANGED <<paid, receipted, viewed, overwritten>>

(* expireStaleBookings.  The booking's expiresAt comes after those of its  *)
(* holds.                                                                  *)
ExpireBooking(c) ==
    /\ Open(c) /\ Overdue(c) /\ c \notin paid
    /\ Turns(c, "EXPIRED")
    /\ UNCHANGED <<seat, upkeep>>

(* getBookingById, in two steps.                                           *)
ViewBooking(c) ==
    /\ Open(c) /\ Overdue(c) /\ viewed' = viewed \cup {c}
    /\ UNCHANGED <<seat, past, progress, line, reservation, paid, receipted, refunded,
                   overwritten, forgotten, mishaps>>

ViewExpires(c) ==
    /\ c \in viewed /\ Overwrites(c, "EXPIRED")
    /\ UNCHANGED <<seat, paid, receipted, viewed, refunded>>

TimePasses(c) ==
    /\ progress[c] = "over"
    /\ \E i \in LinesOf(c) :
         /\ i < line[c] /\ <<c, i>> \notin past
         /\ \A j \in LinesOf(c) : j < i => <<c, j>> \in past
         /\ past' = past \cup {<<c, i>>}
    /\ UNCHANGED <<seat, progress, line, reservation, upkeep, forgotten, mishaps>>

SweepHolds(c) ==
    /\ \E i \in ActiveHolds(c) : <<c, i>> \in past /\ Becomes(c, {i}, "EXPIRED")
    /\ UNCHANGED <<past, progress, line, reservation, upkeep, forgotten, mishaps>>

CartNext ==
    \E c \in Carts :
        \/ TakeHold(c) \/ SoldOut(c) \/ WriteBooking(c) \/ BookingFails(c)
        \/ GiveBack(c) \/ GivenBack(c) \/ Abandon(c)
        \/ CaptureAll(c) \/ PayFromWallet(c) \/ HandInReceipt(c) \/ ApproveReceipt(c)
        \/ CancelCart(c) \/ RefundCart(c)
        \/ ExpireBooking(c) \/ ViewBooking(c) \/ ViewExpires(c)
        \/ TimePasses(c) \/ SweepHolds(c)

CartSpec == CartInit /\ [][CartNext]_cartVars

-----------------------------------------------------------------------------
(* All or nothing: a cart that is over and has no open booking keeps no    *)
(* unit from other customers, unless a release was prevented by a mishap.  *)
CartsKeepAllOrNothing ==
    \A c \in Carts : progress[c] = "over" /\ ~Open(c) =>
        {c} \X ActiveHolds(c) \subseteq past \cup forgotten

(* Units that are sold are somebody's: a confirmed booking that was never  *)
(* refunded has all its units but those that had expired before, however   *)
(* often it was paid, cancelled or expired; and a unit stays sold without  *)
(* a confirmed booking only where a refund has given back no more than the *)
(* first one, or where a cancellation, a receipt or a view of the page was *)
(* written over a confirmed booking.                                       *)
SoldUnitsAreBooked ==
    \A c \in Carts : \A i \in LinesOf(c) :
        /\ reservation[c] = "CONFIRMED" /\ c \notin refunded =>
             seat[<<c, i>>] \in {"CAPTURED", "EXPIRED"}
        /\ seat[<<c, i>>] = "CAPTURED" =>
             \/ reservation[c] = "CONFIRMED" \/ c \in overwritten
             \/ c \in refunded /\ i > 1
=============================================================================
