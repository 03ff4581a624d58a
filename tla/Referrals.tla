------------------------------- MODULE Referrals -------------------------------
(***************************************************************************)
(* One referral code, the draft bookings that carry it and the limit on    *)
(* its uses (ReferralDomainService, BookingApplicationService.createDraft, *)
(* the referral actions of actions/admin.ts).                              *)
(*                                                                         *)
(* validateCode counts the uses, and the booking that carries the code is  *)
(* written later.  A code may be typed before an admin registers it; the   *)
(* registration then links the bookings that carry it.  What becomes of a  *)
(* booking is left to its payment: it may be confirmed, be cancelled,      *)
(* refunded or expired, and after that be confirmed by a capture that was  *)
(* accepted before, or await its payment again by a receipt or a transfer. *)
(***************************************************************************)
EXTENDS Naturals, FiniteSets

CONSTANTS
    Drafts,  \* bookings whose customer types the code
    MaxUses, \* maxUses of the code
    Nobody   \* the booking an admin amends, when none

ASSUME ReferralAssumption ==
    /\ IsFiniteSet(Drafts) /\ Nobody \notin Drafts
    /\ MaxUses \in Nat \ {0}

VARIABLES
    linking,   \* how far registering the code has come
    found,     \* bookings the registration is about to link
    attempt,   \* how far createDraft has come for each booking
    verdict,   \* ReferralStatus by validateCode, for the booking or its amendment
    seen,      \* the uses there were when they were counted
    use,       \* BookingReferral.status, "none" without a row
    fate,      \* Booking.status
    amending,  \* the booking an admin is giving the code to
    strays     \* auxiliary: uses that no count has stood for

referralVars == <<linking, found, attempt, verdict, seen, use, fate, amending, strays>>

Verdicts == {"UNMATCHED", "VALID", "REFUSED"}

ReferralTypeOK ==
    /\ linking \in {"unknown", "registered", "scanned", "linked"}
    /\ found \subseteq Drafts
    /\ attempt \in [Drafts -> {"new", "validated", "done"}]
    /\ verdict \in [Drafts -> Verdicts]
    /\ seen \in [Drafts -> SUBSET Drafts]
    /\ use \in [Drafts -> Verdicts \cup {"none"}]
    /\ fate \in [Drafts -> {"none", "open", "confirmed", "ended"}]
    /\ \A d \in Drafts : fate[d] = "none" <=> use[d] = "none"
    /\ amending \in Drafts \cup {Nobody}
    /\ amending # Nobody => fate[amending] # "none"
    /\ strays \subseteq Drafts

ReferralInit ==
    /\ linking = "unknown" /\ found = {}
    /\ attempt = [d \in Drafts |-> "new"]
    /\ verdict = [d \in Drafts |-> "UNMATCHED"] /\ seen = [d \in Drafts |-> {}]
    /\ use = [d \in Drafts |-> "none"] /\ fate = [d \in Drafts |-> "none"]
    /\ amending = Nobody
    /\ strays = {}

(***************************************************************************)
(* Faulty variants of the definitions below, for checking the properties.  *)
(***************************************************************************)
PaidUses == {d \in Drafts : use[d] = "VALID" /\ fate[d] = "confirmed"}

-----------------------------------------------------------------------------
(* The uses that the limit is about.                                       *)
Uses == {d \in Drafts : use[d] = "VALID" /\ fate[d] \in {"open", "confirmed"}}

(* validateCode's usedCount.                                               *)
CountedUses == Uses

(* A code that is not registered is UNMATCHED; a registered one may be     *)
(* inactive, or the customer's own.                                        *)
Validate(d) ==
    /\ seen' = [seen EXCEPT ![d] = Uses]
    /\ \E v \in Verdicts :
         /\ v = "UNMATCHED" <=> linking = "unknown"
         /\ v = "VALID" => Cardinality(CountedUses) < MaxUses
         /\ verdict' = [verdict EXCEPT ![d] = v]

(* A use is a stray when another was added since the count.                *)
Attribute(d) ==
    /\ use' = [use EXCEPT ![d] = verdict[d]]
    /\ strays' = IF verdict[d] = "VALID" /\ ~(Uses \ {d} \subseteq seen[d])
                 THEN strays \cup {d} ELSE strays
    /\ verdict' = [verdict EXCEPT ![d] = "UNMATCHED"] /\ seen' = [seen EXCEPT ![d] = {}]

(***************************************************************************)
(* createDraft.                                                            *)
(***************************************************************************)
ValidateDraft(d) ==
    /\ attempt[d] = "new" /\ attempt' = [attempt EXCEPT ![d] = "validated"]
    /\ Validate(d)
    /\ UNCHANGED <<linking, found, use, fate, amending, strays>>

CreateDraft(d) ==
    /\ attempt[d] = "validated" /\ attempt' = [attempt EXCEPT ![d] = "done"]
    /\ Attribute(d)
    /\ fate' = [fate EXCEPT ![d] = "open"]
    /\ UNCHANGED <<linking, found, amending>>

(***************************************************************************)
(* What the payment of a booking makes of it.                              *)
(***************************************************************************)
ConfirmBooking(d) ==
    /\ fate[d] = "open" /\ fate' = [fate EXCEPT ![d] = "confirmed"]
    /\ UNCHANGED <<linking, found, attempt, verdict, seen, use, amending, strays>>

EndBooking(d) ==
    /\ fate[d] \in {"open", "confirmed"} /\ fate' = [fate EXCEPT ![d] = "ended"]
    /\ UNCHANGED <<linking, found, attempt, verdict, seen, use, amending, strays>>

(* A receipt or a transfer is handed in, whatever the booking has become,  *)
(* and it awaits its payment; or a capture was accepted before the booking *)
(* ended.  The use counts again, uncounted.                                *)
ComesBack(d) ==
    /\ fate[d] = "ended"
    /\ \E f \in {"open", "confirmed"} : fate' = [fate EXCEPT ![d] = f]
    /\ strays' = IF use[d] = "VALID" THEN strays \cup {d} ELSE strays
    /\ UNCHANGED <<linking, found, attempt, verdict, seen, use, amending>>

(***************************************************************************)
(* createReferralCodeAction: the code, then resolveUnmatchedForCode, which *)
(* reads the bookings that typed it and links them, whatever the limit.    *)
(***************************************************************************)
RegisterCode ==
    /\ linking = "unknown" /\ linking' = "registered"
    /\ UNCHANGED <<found, attempt, verdict, seen, use, fate, amending, strays>>

FindUnmatched ==
    /\ linking = "registered" /\ linking' = "scanned"
    /\ found' = {d \in Drafts : use[d] = "UNMATCHED" /\ fate[d] # "ended"}
    /\ UNCHANGED <<attempt, verdict, seen, use, fate, amending, strays>>

LinkUnmatched ==
    /\ linking = "scanned" /\ linking' = "linked"
    /\ LET still == {d \in found : use[d] = "UNMATCHED"} IN
         /\ use' = [d \in Drafts |-> IF d \in still THEN "VALID" ELSE use[d]]
         /\ strays' = strays \cup still
    /\ found' = {}
    /\ UNCHANGED <<attempt, verdict, seen, fate, amending>>

(* updateBookingReferralAction: any booking, whatever its status.          *)
ValidateAmendment(d) ==
    /\ amending = Nobody /\ fate[d] # "none" /\ amending' = d
    /\ Validate(d)
    /\ UNCHANGED <<linking, found, attempt, use, fate, strays>>

Amend ==
    /\ amending # Nobody /\ amending' = Nobody
    /\ Attribute(amending)
    /\ UNCHANGED <<linking, found, attempt, fate>>

ReferralNext ==
    \/ \E d \in Drafts :
         \/ ValidateDraft(d) \/ CreateDraft(d) \/ ValidateAmendment(d)
         \/ ConfirmBooking(d) \/ EndBooking(d) \/ ComesBack(d)
    \/ RegisterCode \/ FindUnmatched \/ LinkUnmatched \/ Amend

ReferralSpec == ReferralInit /\ [][ReferralNext]_referralVars

-----------------------------------------------------------------------------
(* No more bookings use the code than its limit allows, but for those that *)
(* no count has stood for: another use was written since the count, the    *)
(* registration of the code has linked them, or they came back after they  *)
(* had ended: by a capture, a receipt or a transfer.                       *)
UsesWithinLimit == Cardinality(Uses \ strays) <= MaxUses
==============================================================================
