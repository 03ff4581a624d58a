------------------------------- MODULE AutoBuy --------------------------------
(***************************************************************************)
(* The automatic purchases of one customer: AutoBuyDomainService, called   *)
(* by sweeps in several processes and by the customer (actions/autobuy.ts).*)
(*                                                                         *)
(* evaluateRule reads the rule, looks for a match and at the budget, and   *)
(* then claims the rule with an UPDATE that tests its status.  Every other *)
(* write to the rule is by its id alone.  The purchase is a new booking    *)
(* that BookingSagaCoordinator confirms from the customer's wallet, under  *)
(* one idempotency key for all bookings of a rule.                         *)
(*                                                                         *)
(* Every purchase costs one unit, and everything happens within one day.   *)
(***************************************************************************)
EXTENDS Naturals, FiniteSets

CONSTANTS
    Rules,       \* rules of the customer, as createRule leaves them
    HighValue,   \* rules whose matches cost more than HIGH_VALUE_THRESHOLD
    Expiring,    \* rules with an expiresAt
    Unwanted,    \* rules the customer may cancel
    Evaluators,  \* calls of evaluateRule that can run at the same time
    Budget,      \* purchases the daily budget allows
    Funds,       \* what the wallet holds at the start
    MaxTrips,    \* bound: bookings the rules make
    MaxTroubles, \* bound: statements that throw and processes that die
    NoRule       \* what an idle evaluator works on

ASSUME AutoBuyAssumption ==
    /\ HighValue \subseteq Rules /\ Expiring \subseteq Rules /\ Unwanted \subseteq Rules
    /\ NoRule \notin Rules
    /\ Budget \in Nat /\ Funds \in Nat /\ MaxTrips \in Nat /\ MaxTroubles \in Nat

Trips == 1..MaxTrips

VARIABLES
    standing,    \* AutoBuyRule.status
    lapsed,      \* rules whose expiresAt has passed
    doing,       \* how far each evaluator has come
    upon,        \* the rule it evaluates
    bypass,      \* evaluators called with bypassHumanApproval
    trip,        \* the booking it has made, 0 before
    tripFor,     \* the rule each booking was made for
    tripIs,      \* Booking.status: "none", "open", "confirmed", "failed"
    boundTo,     \* the booking of the Payment under a rule's key, 0 without
    taken,       \* wallet payments posted under a rule's key
    givenBack,   \* bookings whose payment was posted back
    funds,       \* the wallet's balance
    withdrawing, \* rules cancelRule has read and not yet written
    troubles,
    revived,     \* auxiliary: rules a write by id put back into play
    blind        \* auxiliary: a budget check missed a purchase

evaluator == <<doing, upon, bypass, trip>>
purchase  == <<tripFor, tripIs>>
money     == <<boundTo, taken, givenBack, funds>>
autoBuyVars == <<standing, lapsed, evaluator, purchase, money, withdrawing, troubles, revived, blind>>

Stages == {"idle", "approving", "approved", "read", "over", "high", "affordable", "claimed",
           "booked", "paying", "debited", "recorded", "bought", "failed"}

AutoBuyTypeOK ==
    /\ standing \in [Rules -> {"ACTIVE", "TRIGGERED", "FULFILLED", "FAILED_FUNDS", "CANCELLED",
                               "EXPIRED", "PENDING_APPROVAL"}]
    /\ lapsed \subseteq Expiring
    /\ doing \in [Evaluators -> Stages]
    /\ upon \in [Evaluators -> Rules \cup {NoRule}]
    /\ \A e \in Evaluators : doing[e] = "idle" <=> upon[e] = NoRule
    /\ bypass \subseteq Evaluators
    /\ trip \in [Evaluators -> Trips \cup {0}]
    /\ tripFor \in [Trips -> Rules \cup {NoRule}]
    /\ tripIs \in [Trips -> {"none", "open", "confirmed", "failed"}]
    /\ \A t \in Trips : tripFor[t] = NoRule <=> tripIs[t] = "none"
    /\ boundTo \in [Rules -> Trips \cup {0}]
    /\ taken \in [Rules -> Nat]
    /\ givenBack \subseteq Trips
    /\ funds \in Nat
    /\ withdrawing \subseteq Unwanted
    /\ troubles \in 0..MaxTroubles
    /\ revived \subseteq Rules /\ blind \in BOOLEAN

AutoBuyInit ==
    /\ standing = [r \in Rules |-> "ACTIVE"] /\ lapsed = {}
    /\ doing = [e \in Evaluators |-> "idle"] /\ upon = [e \in Evaluators |-> NoRule]
    /\ bypass = {} /\ trip = [e \in Evaluators |-> 0]
    /\ tripFor = [t \in Trips |-> NoRule] /\ tripIs = [t \in Trips |-> "none"]
    /\ boundTo = [r \in Rules |-> 0] /\ taken = [r \in Rules |-> 0]
    /\ givenBack = {} /\ funds = Funds
    /\ withdrawing = {} /\ troubles = 0
    /\ revived = {} /\ blind = FALSE

(***************************************************************************)
(* Faulty variants of the definitions below, for checking the properties.  *)
(***************************************************************************)
AnyStatus(r) == TRUE
OneMoreFits == Cardinality({r \in Rules : standing[r] = "FULFILLED"}) <= Budget

-----------------------------------------------------------------------------
TripsOf(r, is) == {t \in Trips : tripFor[t] = r /\ tripIs[t] = is}
Purchases == {t \in Trips : tripIs[t] = "confirmed"}

(* The claim's WHERE.                                                      *)
Claimable(r) == standing[r] = "ACTIVE"

(* checkBudgetCaps counts the rules that are FULFILLED.                    *)
BudgetFits == Cardinality({r \in Rules : standing[r] = "FULFILLED"}) < Budget

(* AUTO-109.                                                               *)
NeedsApproval(e) == upon[e] \in HighValue /\ e \notin bypass

(* From the look at the budget until the rule is FULFILLED or given up.    *)
Spending(e) == doing[e] \in Stages \ {"idle", "approving", "approved", "read", "over", "high"}

Pass(e, from, to) == doing[e] = from /\ doing' = [doing EXCEPT ![e] = to]

Leave(e) ==
    /\ upon' = [upon EXCEPT ![e] = NoRule]
    /\ bypass' = bypass \ {e}
    /\ trip' = [trip EXCEPT ![e] = 0]

Stay == UNCHANGED <<upon, bypass, trip>>

(* A write by id is out of place when the rule is not as it was read.      *)
WriteStatus(r, to, expected) ==
    /\ standing' = [standing EXCEPT ![r] = to]
    /\ revived' = IF standing[r] = expected THEN revived ELSE revived \cup {r}

(***************************************************************************)
(* approveHighValueRule: the status is read, then made ACTIVE by id, then  *)
(* the rule is evaluated without the threshold.                            *)
(***************************************************************************)
ApproveRead(e, r) ==
    /\ standing[r] = "PENDING_APPROVAL" /\ Pass(e, "idle", "approving")
    /\ upon' = [upon EXCEPT ![e] = r]
    /\ bypass' = bypass \cup {e}
    /\ UNCHANGED <<standing, lapsed, trip, purchase, money, withdrawing, troubles, revived, blind>>

ApproveWrite(e) ==
    /\ Pass(e, "approving", "approved") /\ Stay
    /\ WriteStatus(upon[e], "ACTIVE", "PENDING_APPROVAL")
    /\ UNCHANGED <<lapsed, purchase, money, withdrawing, troubles, blind>>

(***************************************************************************)
(* evaluateRule, up to the claim.                                          *)
(***************************************************************************)
Read(e, r) ==
    /\ standing[r] = "ACTIVE" /\ Pass(e, "idle", "read")
    /\ upon' = [upon EXCEPT ![e] = r]
    /\ UNCHANGED <<standing, lapsed, bypass, trip, purchase, money, withdrawing, troubles, revived,
                   blind>>

ReadApproved(e) ==
    /\ \/ Pass(e, "approved", "read") /\ standing[upon[e]] = "ACTIVE" /\ Stay
       \/ Pass(e, "approved", "idle") /\ standing[upon[e]] # "ACTIVE" /\ Leave(e)
    /\ UNCHANGED <<standing, lapsed, purchase, money, withdrawing, troubles, revived, blind>>

Expire(e) ==
    /\ Pass(e, "read", "idle") /\ upon[e] \in lapsed /\ Leave(e)
    /\ standing' = [standing EXCEPT ![upon[e]] = "EXPIRED"]
    /\ UNCHANGED <<lapsed, purchase, money, withdrawing, troubles, revived, blind>>

(* Not yet scheduled, no match, or a blocked one.                          *)
Unmatched(e) ==
    /\ upon[e] \notin lapsed /\ Pass(e, "read", "idle") /\ Leave(e)
    /\ UNCHANGED <<standing, lapsed, purchase, money, withdrawing, troubles, revived, blind>>

(* A match: the budget first, then the threshold.                          *)
Weigh(e) ==
    /\ upon[e] \notin lapsed /\ Stay
    /\ \/ ~BudgetFits /\ Pass(e, "read", "over") /\ UNCHANGED blind
       \/ /\ BudgetFits /\ NeedsApproval(e)
          /\ Pass(e, "read", "high") /\ UNCHANGED blind
       \/ /\ BudgetFits /\ ~NeedsApproval(e)
          /\ Pass(e, "read", "affordable")
          /\ blind' = (blind \/ (\E o \in Evaluators : Spending(o))
                             \/ (\E t \in Purchases : standing[tripFor[t]] # "FULFILLED"))
    /\ UNCHANGED <<standing, lapsed, purchase, money, withdrawing, troubles, revived>>

(* Over the budget the rule is left ACTIVE: by id, whatever it has become. *)
LeaveActive(e) ==
    /\ Pass(e, "over", "idle") /\ Leave(e)
    /\ WriteStatus(upon[e], "ACTIVE", "ACTIVE")
    /\ UNCHANGED <<lapsed, purchase, money, withdrawing, troubles, blind>>

AskForApproval(e) ==
    /\ Pass(e, "high", "idle") /\ Leave(e)
    /\ WriteStatus(upon[e], "PENDING_APPROVAL", "ACTIVE")
    /\ UNCHANGED <<lapsed, purchase, money, withdrawing, troubles, blind>>

(* AUTO-107: Atomic claim.                                                 *)
Claim(e) ==
    /\ \/ /\ Pass(e, "affordable", "claimed") /\ Claimable(upon[e]) /\ Stay
          /\ standing' = [standing EXCEPT ![upon[e]] = "TRIGGERED"]
       \/ /\ Pass(e, "affordable", "idle") /\ ~Claimable(upon[e]) /\ Leave(e)
          /\ UNCHANGED standing
    /\ UNCHANGED <<lapsed, purchase, money, withdrawing, troubles, revived, blind>>

(***************************************************************************)
(* The purchase.                                                           *)
(***************************************************************************)

(* The balance is read without a lock; then the booking is made.           *)
Book(e) ==
    /\ funds > 0 /\ Pass(e, "claimed", "booked")
    /\ \E t \in Trips :
         /\ tripIs[t] = "none" /\ \A u \in Trips : u < t => tripIs[u] # "none"
         /\ tripFor' = [tripFor EXCEPT ![t] = upon[e]]
         /\ tripIs' = [tripIs EXCEPT ![t] = "open"]
         /\ trip' = [trip EXCEPT ![e] = t]
    /\ UNCHANGED <<standing, lapsed, upon, bypass, money, withdrawing, troubles, revived, blind>>

LacksFunds(e) ==
    /\ funds = 0 /\ Pass(e, "claimed", "idle") /\ Leave(e)
    /\ standing' = [standing EXCEPT ![upon[e]] = "FAILED_FUNDS"]
    /\ UNCHANGED <<lapsed, purchase, money, withdrawing, troubles, revived, blind>>

(* A payment step that fails is compensated as one that took no money.     *)
PaymentFails(e, from) ==
    /\ Pass(e, from, "failed")
    /\ tripIs' = [tripIs EXCEPT ![trip[e]] = "failed"]

(* processPayment refuses a key whose payment is another booking's.        *)
LookForPayment(e) ==
    /\ \/ Pass(e, "booked", "paying") /\ boundTo[upon[e]] = 0 /\ UNCHANGED tripIs
       \/ PaymentFails(e, "booked") /\ boundTo[upon[e]] # 0
    /\ Stay
    /\ UNCHANGED <<standing, lapsed, tripFor, money, withdrawing, troubles, revived, blind>>

(* The wallet is debited under its lock; the ledger drops a second posting *)
(* under the key, but only after the balance was found to cover it.        *)
DebitWallet(e) ==
    /\ \/ funds = 0 /\ PaymentFails(e, "paying") /\ UNCHANGED <<taken, funds>>
       \/ /\ funds > 0 /\ Pass(e, "paying", "debited") /\ UNCHANGED tripIs
          /\ IF taken[upon[e]] = 0
             THEN taken' = [taken EXCEPT ![upon[e]] = @ + 1] /\ funds' = funds - 1
             ELSE UNCHANGED <<taken, funds>>
    /\ Stay
    /\ UNCHANGED <<standing, lapsed, tripFor, boundTo, givenBack, withdrawing, troubles, revived,
                   blind>>

(* The payment is upserted: an existing row keeps its booking.             *)
UpsertPayment(e) ==
    /\ Pass(e, "debited", "recorded") /\ Stay
    /\ boundTo' = [boundTo EXCEPT ![upon[e]] = IF @ = 0 THEN trip[e] ELSE @]
    /\ UNCHANGED <<standing, lapsed, purchase, taken, givenBack, funds, withdrawing, troubles,
                   revived, blind>>

ConfirmTrip(e) ==
    /\ Pass(e, "recorded", "bought") /\ Stay
    /\ tripIs' = [tripIs EXCEPT ![trip[e]] = "confirmed"]
    /\ UNCHANGED <<standing, lapsed, tripFor, money, withdrawing, troubles, revived, blind>>

Fulfil(e) ==
    /\ Pass(e, "bought", "idle") /\ Leave(e)
    /\ standing' = [standing EXCEPT ![upon[e]] = "FULFILLED"]
    /\ UNCHANGED <<lapsed, purchase, money, withdrawing, troubles, revived, blind>>

Trouble == troubles < MaxTroubles /\ troubles' = troubles + 1

(* The payment's step throws.                                              *)
PaymentThrows(e) ==
    /\ Trouble /\ Stay
    /\ \E s \in {"paying", "debited", "recorded"} : PaymentFails(e, s)
    /\ UNCHANGED <<standing, lapsed, tripFor, money, withdrawing, revived, blind>>

(* A later step throws: the money goes back to the wallet.                 *)
Compensate(e) ==
    /\ Trouble /\ Pass(e, "bought", "failed") /\ Stay
    /\ tripIs' = [tripIs EXCEPT ![trip[e]] = "failed"]
    /\ givenBack' = givenBack \cup {trip[e]} /\ funds' = funds + 1
    /\ UNCHANGED <<standing, lapsed, tripFor, boundTo, taken, withdrawing, revived, blind>>

(* The saga itself throws, and nothing is compensated.                     *)
SagaThrows(e) ==
    /\ Trouble /\ Stay
    /\ \E s \in {"booked", "paying", "debited", "recorded", "bought"} : Pass(e, s, "failed")
    /\ UNCHANGED <<standing, lapsed, purchase, money, withdrawing, revived, blind>>

(* The catch: the rule is ACTIVE again, for the next sweep.                *)
Catch(e) ==
    /\ Pass(e, "failed", "idle") /\ Leave(e)
    /\ WriteStatus(upon[e], "ACTIVE", "TRIGGERED")
    /\ UNCHANGED <<lapsed, purchase, money, withdrawing, troubles, blind>>

(* The process dies; a rule it had claimed stays TRIGGERED.                *)
Die(e) ==
    /\ doing[e] # "idle" /\ Pass(e, doing[e], "idle") /\ Leave(e) /\ Trouble
    /\ UNCHANGED <<standing, lapsed, purchase, money, withdrawing, revived, blind>>

Evaluate(e) ==
    \/ \E r \in Rules : ApproveRead(e, r) \/ Read(e, r)
    \/ ApproveWrite(e) \/ ReadApproved(e) \/ Expire(e) \/ Unmatched(e) \/ Weigh(e)
    \/ LeaveActive(e) \/ AskForApproval(e) \/ Claim(e) \/ Book(e) \/ LacksFunds(e)
    \/ LookForPayment(e) \/ DebitWallet(e) \/ UpsertPayment(e) \/ ConfirmTrip(e) \/ Fulfil(e)
    \/ PaymentThrows(e) \/ Compensate(e) \/ SagaThrows(e) \/ Catch(e) \/ Die(e)

(***************************************************************************)
(* cancelRule, and time.                                                   *)
(***************************************************************************)
WithdrawRead(r) ==
    /\ r \in Unwanted \ withdrawing /\ standing[r] # "FULFILLED"
    /\ withdrawing' = withdrawing \cup {r}
    /\ UNCHANGED <<standing, lapsed, evaluator, purchase, money, troubles, revived, blind>>

WithdrawWrite(r) ==
    /\ r \in withdrawing /\ withdrawing' = withdrawing \ {r}
    /\ standing' = [standing EXCEPT ![r] = "CANCELLED"]
    /\ UNCHANGED <<lapsed, evaluator, purchase, money, troubles, revived, blind>>

Lapse(r) ==
    /\ r \in Expiring \ lapsed /\ lapsed' = lapsed \cup {r}
    /\ UNCHANGED <<standing, evaluator, purchase, money, withdrawing, troubles, revived, blind>>

AutoBuyNext ==
    \/ \E e \in Evaluators : Evaluate(e)
    \/ \E r \in Rules : WithdrawRead(r) \/ WithdrawWrite(r) \/ Lapse(r)

AutoBuySpec == AutoBuyInit /\ [][AutoBuyNext]_autoBuyVars

-----------------------------------------------------------------------------
(* A rule buys once, over money that was taken and not given back, however *)
(* often it is evaluated, retried and cancelled; unless a write by id has  *)
(* put a rule that was claimed or done back into play.                     *)
OnePurchasePerRule ==
    \A r \in Rules \ revived :
        /\ Cardinality(TripsOf(r, "confirmed")) <= 1
        /\ Cardinality({t \in givenBack : tripFor[t] = r}) <= taken[r]
        /\ TripsOf(r, "confirmed") # {} =>
             taken[r] = 1 /\ \A t \in givenBack : tripFor[t] # r

(* More is bought than the budget allows only if a budget check missed a   *)
(* purchase: one under way, or one whose rule is not (any more) FULFILLED. *)
OverrunsAreExplained == Cardinality(Purchases) > Budget => blind
=============================================================================
