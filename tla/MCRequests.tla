------------------------------ MODULE MCRequests ------------------------------
(***************************************************************************)
(* Nine things that customers, clerks and gateways ask for, twice or at    *)
(* the same time: a top-up, a refund, an automatic purchase, a draft       *)
(* booking, the use of a referral code, the reward of a leader, the holds  *)
(* of a cart, a payment by a transfer on a blockchain, and the group tour  *)
(* of a company.  They write no row in common, so each is explored by      *)
(* itself: the scene names the one that moves, and the others stay as they *)
(* began.                                                                  *)
(***************************************************************************)
EXTENDS WalletTopUp, Refund, AutoBuy, DraftRequests, Referrals,
        LeaderRewards, CartHolds, CryptoTransfers, BusinessRequests, TLC

VARIABLE scene

Scenes == {"top-up", "refund", "auto-buy", "draft", "referral", "reward", "cart",
           "transfer", "business"}

RequestsTypeOK ==
    /\ scene \in Scenes
    /\ scene = "top-up" => TopUpTypeOK
    /\ scene = "refund" => RefundTypeOK
    /\ scene = "auto-buy" => AutoBuyTypeOK
    /\ scene = "draft" => DraftTypeOK
    /\ scene = "referral" => ReferralTypeOK
    /\ scene = "reward" => RewardTypeOK
    /\ scene = "cart" => CartTypeOK
    /\ scene = "transfer" => CryptoTypeOK
    /\ scene = "business" => BusinessTypeOK

RequestsInit ==
    /\ TopUpInit /\ RefundInit /\ AutoBuyInit /\ DraftInit /\ ReferralInit /\ RewardInit
    /\ CartInit /\ CryptoInit /\ BusinessInit
    /\ scene \in Scenes

Resting(name, vars) == scene # name /\ UNCHANGED vars

RequestsNext ==
    /\ UNCHANGED scene
    /\ (scene = "top-up" /\ TopUpNext) \/ Resting("top-up", topUpVars)
    /\ (scene = "refund" /\ RefundNext) \/ Resting("refund", refundVars)
    /\ (scene = "auto-buy" /\ AutoBuyNext) \/ Resting("auto-buy", autoBuyVars)
    /\ (scene = "draft" /\ DraftNext) \/ Resting("draft", draftVars)
    /\ (scene = "referral" /\ ReferralNext) \/ Resting("referral", referralVars)
    /\ (scene = "reward" /\ RewardNext) \/ Resting("reward", rewardVars)
    /\ (scene = "cart" /\ CartNext) \/ Resting("cart", cartVars)
    /\ (scene = "transfer" /\ CryptoNext) \/ Resting("transfer", cryptoVars)
    /\ (scene = "business" /\ BusinessNext) \/ Resting("business", businessVars)

RequestsSpec ==
    RequestsInit /\ [][RequestsNext]_<<scene, topUpVars, refundVars, autoBuyVars, draftVars,
                                        referralVars, rewardVars, cartVars, cryptoVars,
                                        businessVars>>

CONSTANTS c1, c2, c3, here, key, planA, planB, m1, m2, room, flight

\* Three requests meet the entry of one process, two of them with the same plan.
MetEntry == (c1 :> key) @@ (c2 :> key) @@ (c3 :> key)
KeptBy   == key :> here
Plan     == (c1 :> planA) @@ (c2 :> planB) @@ (c3 :> planB)

\* Two carts want the same two things, in opposite order.
Baskets == (m1 :> <<room, flight>>) @@ (m2 :> <<flight, room>>)

(* Interchangeable in every scene: deliveries, evaluations and clerks, who  *)
(* have the same two names, and browser returns, orders and movers.        *)
Symmetry == Permutations(Deliveries) \cup Permutations(Returns)
=============================================================================
