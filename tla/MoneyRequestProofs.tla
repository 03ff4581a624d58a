----------------------------- MODULE MoneyRequestProofs -----------------------------
(***************************************************************************)
(* Proofs about the requests that move money: Refund, WalletTopUp,         *)
(* CryptoTransfers, BusinessRequests and AutoBuy, for every number of      *)
(* requests, deliveries, clerks, payers and evaluations and every bound on *)
(* failures.                                                               *)
(*                                                                         *)
(* Each of the five has an overlap that the code lets happen and an        *)
(* auxiliary variable that remembers it. The argument is the same in all   *)
(* of them: as long as the overlap has not come, one request at most is    *)
(* between looking and writing, and what it has looked at is still so when *)
(* it writes.                                                              *)
(***************************************************************************)
EXTENDS Refund, WalletTopUp, CryptoTransfers, BusinessRequests, AutoBuy,
        FiniteSetTheorems, TLAPS

(* A set in which no two elements differ has one at most.                  *)
LEMMA OneAtMost ==
    ASSUME NEW S, \A x, y \in S : x = y
    PROVE  Cardinality(S) \in {0, 1} /\ (S = {} <=> Cardinality(S) = 0)
<1>1. CASE S = {}
    BY <1>1, FS_EmptySet
<1>2. CASE S # {}
    <2>1. PICK x : x \in S BY <1>2
    <2>2. S = {x} BY <2>1
    <2> QED BY <2>2, FS_Singleton
<1> QED BY <1>1, <1>2

(***************************************************************************)
(* Refunds.  A key has one request at work past its insert, which finds no *)
(* refund under the key and the money still there; and without an overlap  *)
(* all requests and the settled refund are of one key.                     *)
(***************************************************************************)
Inserted(r) == stage[r] \in {"created", "credited", "paid", "refused"}

(* A request that is past its insert has found no refund under its key and *)
(* is the only such request for that key.                                  *)
OneInsertPerKey ==
    \A r \in Requests : Inserted(r) =>
        /\ refund[under[r]] = "none"
        /\ \A o \in Requests : Inserted(o) /\ under[o] = under[r] => o = r

(* Where no rollback has hidden a payout, the bank has paid a key once at  *)
(* most, for a refund that is SETTLED or about to be.                      *)
MoneyIsRecorded ==
    /\ \A k \in wallet : refund[k] = "SETTLED"
    /\ \A k \in Keys \ unrecorded :
         /\ bank[k] \in {0, 1}
         /\ bank[k] = 1 => \/ refund[k] = "SETTLED" /\ k \notin wallet
                           \/ \E r \in Requests : stage[r] = "paid" /\ under[r] = k

(* The keys of the settled refund and of the requests at work.             *)
Touched ==
    {k \in Keys : refund[k] = "SETTLED"} \cup {under[r] : r \in {o \in Requests : InFlight(o)}}

OneKeyAtATime == overlapped \/ \A k, l \in Touched : k = l

RefundInvariant == RefundTypeOK /\ OneInsertPerKey /\ MoneyIsRecorded /\ OneKeyAtATime

LEMMA RefundInvariantInit == RefundInit => RefundInvariant
<1> SUFFICES ASSUME RefundInit PROVE RefundInvariant
    OBVIOUS
<1>1. RefundTypeOK
    <2>1. 0 \in 0..MaxAborts
        BY RefundAssumption
    <2>2. /\ stage \in [Requests -> {"idle", "checked", "created", "credited", "paid", "refused"}]
          /\ under \in [Requests -> Keys \cup {NoKey}]
          /\ \A r \in Requests : stage[r] = "idle" <=> under[r] = NoKey
        BY DEF RefundInit
    <2> QED BY <2>1, <2>2 DEF RefundInit, RefundTypeOK, Eligible
<1>2. OneInsertPerKey /\ MoneyIsRecorded
    BY DEF RefundInit, OneInsertPerKey, MoneyIsRecorded, Inserted
<1>3. Touched = {}
    BY DEF RefundInit, Touched, InFlight
<1> QED BY <1>1, <1>2, <1>3 DEF RefundInvariant, OneKeyAtATime

(* The types, action by action.                                            *)
LEMMA RefundTypePreserved == RefundTypeOK /\ [RefundNext]_refundVars => RefundTypeOK'
<1> SUFFICES ASSUME RefundTypeOK, [RefundNext]_refundVars PROVE RefundTypeOK'
    OBVIOUS
<1> USE RefundAssumption DEF RefundTypeOK, Advance, Idle, InFlight, Eligible
<1>1. ASSUME NEW r \in Requests, NEW k \in Keys, Check(r, k) PROVE RefundTypeOK'
    BY <1>1 DEF Check
<1>2. ASSUME NEW r \in Requests, Create(r) PROVE RefundTypeOK'
    BY <1>2 DEF Create
<1>3. ASSUME NEW r \in Requests, PayOut(r) PROVE RefundTypeOK'
    <2>1. under[r] \in Keys
        BY <1>3 DEF PayOut
    <2> QED BY <2>1, <1>3 DEF PayOut
<1>4. ASSUME NEW r \in Requests, Commit(r) PROVE RefundTypeOK'
    <2>1. under[r] \in Keys
        BY <1>4 DEF Commit
    <2> QED BY <2>1, <1>4 DEF Commit
<1>5. ASSUME NEW r \in Requests, CommitRefusal(r) PROVE RefundTypeOK'
    <2>1. under[r] \in Keys
        BY <1>5 DEF CommitRefusal
    <2> QED BY <2>1, <1>5 DEF CommitRefusal
<1>6. ASSUME NEW r \in Requests, Abort(r) PROVE RefundTypeOK'
    <2>1. under[r] \in Keys
        BY <1>6 DEF Abort
    <2> QED BY <2>1, <1>6 DEF Abort
<1>7. ASSUME NEW k \in Remedies, Resolve(k) PROVE RefundTypeOK'
    BY <1>7 DEF Resolve, request
<1>8. ASSUME NEW c \in Cancels, CancelRead(c) \/ CancelWrite(c) PROVE RefundTypeOK'
    BY <1>8 DEF CancelRead, CancelWrite, request
<1>9. CASE UNCHANGED refundVars
    BY <1>9 DEF refundVars, request
<1> QED BY <1>1, <1>2, <1>3, <1>4, <1>5, <1>6, <1>7, <1>8, <1>9 DEF RefundNext

(* The rest of the invariant, action by action.                            *)
LEMMA RefundInvariantPreserved == RefundInvariant /\ [RefundNext]_refundVars => RefundInvariant'
<1> SUFFICES ASSUME RefundInvariant, [RefundNext]_refundVars PROVE RefundInvariant'
    OBVIOUS
<1>0. RefundTypeOK /\ RefundTypeOK'
    BY RefundTypePreserved DEF RefundInvariant
<1> DEFINE Kept == OneInsertPerKey' /\ MoneyIsRecorded' /\ OneKeyAtATime'
<1> USE RefundAssumption, <1>0 DEF RefundTypeOK, Advance, Idle, InFlight, RefundInvariant
<1>1. ASSUME NEW r \in Requests, NEW k \in Keys, Check(r, k) PROVE Kept
    <2>1. OneInsertPerKey'
        BY <1>1 DEF Check, OneInsertPerKey, Inserted
    <2>2. MoneyIsRecorded'
        BY <1>1 DEF Check, MoneyIsRecorded
    <2>3. OneKeyAtATime'
        <3>1. ASSUME ~overlapped' PROVE Touched' \subseteq {k}
            <4>1. \A l \in Keys : refund'[l] # "SETTLED"
                BY <1>1 DEF Check, Counted
            <4>2. \A o \in Requests : InFlight(o) => under[o] = k
                BY <1>1, <3>1, Zenon DEF Check
            <4>3. \A o \in Requests : InFlight(o)' => under'[o] = k
                BY <1>1, <4>2 DEF Check
            <4> QED BY <4>1, <4>3 DEF Touched
        <3> QED BY <3>1 DEF OneKeyAtATime
    <2> QED BY <2>1, <2>2, <2>3
<1>2. ASSUME NEW r \in Requests, Create(r) PROVE Kept
    <2>1. OneInsertPerKey'
        BY <1>2 DEF Create, OneInsertPerKey, Inserted, KeyFree
    <2>2. MoneyIsRecorded'
        BY <1>2 DEF Create, MoneyIsRecorded
    <2>3. OneKeyAtATime'
        BY <1>2 DEF Create, OneKeyAtATime, Touched
    <2> QED BY <2>1, <2>2, <2>3
<1>3. ASSUME NEW r \in Requests, PayOut(r) PROVE Kept
    <2>0. under[r] \in Keys /\ Inserted(r)
        BY <1>3 DEF PayOut, Inserted
    <2>1. OneInsertPerKey'
        BY <1>3 DEF PayOut, OneInsertPerKey, Inserted
    <2>2. under[r] \notin unrecorded => bank[under[r]] = 0
        BY <2>0, <1>3 DEF PayOut, OneInsertPerKey, MoneyIsRecorded, Inserted
    <2>3. MoneyIsRecorded'
        BY <2>0, <2>2, <1>3 DEF PayOut, MoneyIsRecorded
    <2>4. OneKeyAtATime'
        BY <1>3 DEF PayOut, OneKeyAtATime, Touched
    <2> QED BY <2>1, <2>3, <2>4
<1>4. ASSUME NEW r \in Requests, Commit(r) PROVE Kept
    <2>0. under[r] \in Keys /\ Inserted(r) /\ refund[under[r]] = "none"
        BY <1>4 DEF Commit, Inserted, OneInsertPerKey
    <2>1. OneInsertPerKey'
        BY <2>0, <1>4 DEF Commit, OneInsertPerKey, Inserted
    <2>2. under[r] \notin unrecorded /\ stage[r] = "credited" => bank[under[r]] = 0
        BY <2>0, <1>4 DEF OneInsertPerKey, MoneyIsRecorded, Inserted
    <2>3. under[r] \notin wallet
        BY <2>0 DEF MoneyIsRecorded
    <2>4. MoneyIsRecorded'
        BY <2>0, <2>2, <2>3, <1>4 DEF Commit, MoneyIsRecorded
    <2>5. OneKeyAtATime'
        BY <2>0, <1>4 DEF Commit, OneKeyAtATime, Touched
    <2> QED BY <2>1, <2>4, <2>5
<1>5. ASSUME NEW r \in Requests, CommitRefusal(r) PROVE Kept
    <2>0. under[r] \in Keys /\ Inserted(r) /\ refund[under[r]] = "none"
        BY <1>5 DEF CommitRefusal, Inserted, OneInsertPerKey
    <2>1. OneInsertPerKey'
        BY <2>0, <1>5 DEF CommitRefusal, OneInsertPerKey, Inserted
    <2>2. MoneyIsRecorded'
        BY <2>0, <1>5 DEF CommitRefusal, MoneyIsRecorded
    <2>3. OneKeyAtATime'
        BY <2>0, <1>5 DEF CommitRefusal, OneKeyAtATime, Touched
    <2> QED BY <2>1, <2>2, <2>3
<1>6. ASSUME NEW r \in Requests, Abort(r) PROVE Kept
    <2>0. under[r] \in Keys
        BY <1>6 DEF Abort
    <2>1. OneInsertPerKey'
        BY <1>6 DEF Abort, OneInsertPerKey, Inserted
    <2>2. MoneyIsRecorded'
        BY <2>0, <1>6 DEF Abort, MoneyIsRecorded
    <2>3. OneKeyAtATime'
        BY <1>6 DEF Abort, OneKeyAtATime, Touched
    <2> QED BY <2>1, <2>2, <2>3
<1>7. CASE UNCHANGED <<refund, stage, under, wallet, bank, unrecorded, overlapped>>
    <2>1. OneInsertPerKey'
        BY <1>7 DEF OneInsertPerKey, Inserted
    <2>2. MoneyIsRecorded' /\ OneKeyAtATime'
        BY <1>7 DEF MoneyIsRecorded, OneKeyAtATime, Touched
    <2> QED BY <2>1, <2>2
<1>8. ASSUME NEW k \in Remedies, Resolve(k) PROVE Kept
    BY <1>8, <1>7 DEF Resolve, request
<1>9. ASSUME NEW c \in Cancels, CancelRead(c) \/ CancelWrite(c) PROVE Kept
    BY <1>9, <1>7 DEF CancelRead, CancelWrite, request
<1>10. CASE UNCHANGED refundVars
    BY <1>10, <1>7 DEF refundVars, request
<1> QED
    BY <1>1, <1>2, <1>3, <1>4, <1>5, <1>6, <1>8, <1>9, <1>10 DEF RefundNext

(* What the two channels have paid, counted by keys.                       *)
LEMMA RefundedOnceFollows == RefundInvariant => RefundedOnce
<1> SUFFICES ASSUME RefundInvariant PROVE RefundedOnce
    OBVIOUS
<1> USE RefundAssumption DEF RefundInvariant
<1> DEFINE Paid == {k \in Keys : bank[k] > 0}
<1>1. \A k \in Keys \ unrecorded : bank[k] <= 1 /\ (bank[k] = 1 => k \notin wallet)
    BY DEF RefundTypeOK, OneInsertPerKey, MoneyIsRecorded, Inserted
<1>2. ASSUME ~overlapped, unrecorded = {}
      PROVE  ~(Cardinality(wallet) + Cardinality(Paid) > 1)
    <2>1. \A k \in Paid : bank[k] = 1
        BY <1>2 DEF MoneyIsRecorded, RefundTypeOK
    <2>2. wallet \cap Paid = {}
        BY <2>1, <1>1, <1>2
    <2>3. wallet \cup Paid \subseteq Touched
        BY <2>1, <1>2 DEF MoneyIsRecorded, RefundTypeOK, Touched, InFlight
    <2>4. \A x, y \in wallet \cup Paid : x = y
        BY <2>3, <1>2 DEF OneKeyAtATime
    <2>5. Cardinality(wallet) \in {0, 1} /\ (wallet = {} <=> Cardinality(wallet) = 0)
        BY <2>4, OneAtMost
    <2>6. Cardinality(Paid) \in {0, 1} /\ (Paid = {} <=> Cardinality(Paid) = 0)
        BY <2>4, OneAtMost
    <2>7. wallet = {} \/ Paid = {}
        BY <2>2, <2>4
    <2> QED BY <2>5, <2>6, <2>7
<1> QED BY <1>1, <1>2 DEF RefundedOnce

(***************************************************************************)
(* Requests, refunds and payouts keep their types; a request is idle if    *)
(* and only if it is for no key.                                           *)
(***************************************************************************)
THEOREM RefundTypeCorrect == RefundSpec => []RefundTypeOK
<1>1. RefundInvariant => RefundTypeOK
    BY DEF RefundInvariant
<1> QED BY <1>1, RefundInvariantInit, RefundInvariantPreserved, PTL DEF RefundSpec

(***************************************************************************)
(* RefundDomainService.processRefund, for any number of requests and keys  *)
(* and any number of rollbacks: the booking is refunded once, by one       *)
(* channel, unless two refunds under different keys had both passed        *)
(* REF-103 or a rollback has hidden a payout of the bank.                  *)
(***************************************************************************)
THEOREM OneRefundPerBooking == RefundSpec => []RefundedOnce
BY RefundInvariantInit, RefundInvariantPreserved, RefundedOnceFollows, PTL DEF RefundSpec

(***************************************************************************)
(* Top-ups. Every posting stands for a capture; webhooks that do not cross *)
(* post one event, and a return that has credited is alone with it.        *)
(***************************************************************************)
(* A delivery that is past its payment works on a capture, and what is     *)
(* posted for an event was captured.                                       *)
PostingsAreCaptured ==
    /\ \A d \in Deliveries : phase[d] \in {"fresh", "paid", "posting", "half"} => work[d] \in
       Successes
    /\ \A d \in Deliveries : phase[d] \in {"paid", "posting", "half"} => work[d] \in captures
    /\ \A d \in Deliveries : phase[d] = "half" => work[d] \in debited
    /\ debited \cap Successes \subseteq captures
    /\ Return \in debited => Return \in credited

(* Without a crossing one delivery at most is about to post, and nothing   *)
(* was posted before.                                                      *)
PostingsAreApart ==
    crossed \/
        /\ \A x, y \in debited \cap Successes : x = y
        /\ \A d \in Deliveries : phase[d] = "posting" =>
             /\ debited \cap Successes = {}
             /\ \A o \in Deliveries : phase[o] = "posting" => o = d

(* A return that has credited the wallet is alone with it, but for events  *)
(* that do not bear the payment's id.                                      *)
ReturnIsAlone ==
    unseen \/ undone \/
        (Return \in credited =>
            /\ pending = "SUCCESS"
            /\ \A e \in captures : RefOf(e) # "ours"
            /\ \A d \in Deliveries : phase[d] = "fresh" => RefOf(work[d]) # "ours")

(* Nothing that was captured is forgotten.                                 *)
CapturesGoOn ==
    /\ pending = "SUCCESS" => Return \in credited
    /\ stops = 0 =>
         /\ captures # {} =>
              credited # {} \/ \E d \in Deliveries : phase[d] \in {"paid", "posting", "half"}
         /\ \A s \in debited \ credited : \E d \in Deliveries : phase[d] = "half" /\ work[d] = s

TopUpInvariant ==
    /\ TopUpTypeOK /\ PostingsAreCaptured /\ PostingsAreApart
    /\ ReturnIsAlone /\ CapturesGoOn

LEMMA TopUpInvariantInit == TopUpInit => TopUpInvariant
<1> SUFFICES ASSUME TopUpInit PROVE TopUpInvariant
    OBVIOUS
<1>1. 0 \in 0..MaxStops
    BY TopUpAssumption
<1>2. TopUpTypeOK
    BY <1>1, TopUpAssumption DEF TopUpInit, TopUpTypeOK
<1>3. PostingsAreCaptured /\ PostingsAreApart /\ CapturesGoOn
    BY DEF TopUpInit, PostingsAreCaptured, PostingsAreApart, CapturesGoOn
<1>4. ReturnIsAlone
    BY DEF TopUpInit, ReturnIsAlone
<1> QED BY <1>2, <1>3, <1>4 DEF TopUpInvariant

(* The types, action by action.                                            *)
LEMMA TopUpTypePreserved ==
    TopUpTypeOK /\ PostingsAreCaptured /\ [TopUpNext]_topUpVars => TopUpTypeOK'
<1> SUFFICES ASSUME TopUpTypeOK, PostingsAreCaptured, [TopUpNext]_topUpVars PROVE TopUpTypeOK'
    OBVIOUS
<1> USE TopUpAssumption DEF TopUpTypeOK, Move, Rest, Turn, delivery, ledger, marks, Reports
<1>1. ASSUME NEW d \in Deliveries, NEW e \in Reports, Look(d, e) PROVE TopUpTypeOK'
    BY <1>1 DEF Look
<1>2. ASSUME NEW d \in Deliveries, Receive(d) PROVE TopUpTypeOK'
    <2>1. work[d] \in Reports BY <1>2 DEF Receive
    <2> QED BY <2>1, <1>2 DEF Receive
<1>3. ASSUME NEW d \in Deliveries, ReportFailure(d) PROVE TopUpTypeOK'
    BY <1>3 DEF ReportFailure
<1>4. ASSUME NEW d \in Deliveries, Reject(d) PROVE TopUpTypeOK'
    BY <1>4 DEF Reject
<1>5. ASSUME NEW d \in Deliveries, LookForCapture(d) PROVE TopUpTypeOK'
    BY <1>5 DEF LookForCapture
<1>6. ASSUME NEW d \in Deliveries, CreatePayment(d) PROVE TopUpTypeOK'
    BY <1>6 DEF CreatePayment, PostingsAreCaptured
<1>7. ASSUME NEW d \in Deliveries, BeginPosting(d) PROVE TopUpTypeOK'
    BY <1>7 DEF BeginPosting
<1>8. ASSUME NEW d \in Deliveries, DebitGateway(d) PROVE TopUpTypeOK'
    BY <1>8 DEF DebitGateway, PostingsAreCaptured
<1>9. ASSUME NEW d \in Deliveries, CreditWallet(d) PROVE TopUpTypeOK'
    BY <1>9 DEF CreditWallet, PostingsAreCaptured
<1>10. ASSUME NEW d \in Deliveries, Settle(d) PROVE TopUpTypeOK'
    <2>1. work[d] \in Reports BY <1>10 DEF Settle
    <2> QED BY <2>1, <1>10 DEF Settle
<1>11. ASSUME NEW d \in Deliveries, StopDelivery(d) PROVE TopUpTypeOK'
    BY <1>11 DEF StopDelivery
<1>12. ASSUME NEW b \in Returns, ReturnRead(b) \/ ReturnRecheck(b) PROVE TopUpTypeOK'
    BY <1>12 DEF ReturnRead, ReturnRecheck
<1>13. ASSUME NEW b \in Returns, ReturnCapture(b) \/ ReturnFails(b) PROVE TopUpTypeOK'
    BY <1>13 DEF ReturnCapture, ReturnFails
<1>14. CASE UNCHANGED topUpVars
    BY <1>14 DEF topUpVars
<1> QED
    BY <1>1, <1>2, <1>3, <1>4, <1>5, <1>6, <1>7, <1>8, <1>9, <1>10, <1>11, <1>12, <1>13, <1>14
       DEF TopUpNext, Deliver

(* A posting keeps standing for a capture.                                 *)
LEMMA CapturedPreserved ==
    TopUpInvariant /\ [TopUpNext]_topUpVars => PostingsAreCaptured'
<1> SUFFICES ASSUME TopUpInvariant, [TopUpNext]_topUpVars PROVE PostingsAreCaptured'
    OBVIOUS
<1> USE TopUpAssumption DEF TopUpInvariant, TopUpTypeOK, Move, Rest, Turn, delivery, ledger, marks,
       PostingsAreCaptured
<1>1. ASSUME NEW d \in Deliveries, NEW e \in Reports, Look(d, e) PROVE PostingsAreCaptured'
    BY <1>1 DEF Look
<1>2. ASSUME NEW d \in Deliveries, Receive(d) PROVE PostingsAreCaptured'
    BY <1>2 DEF Receive
<1>3. ASSUME NEW d \in Deliveries, ReportFailure(d) PROVE PostingsAreCaptured'
    BY <1>3 DEF ReportFailure
<1>4. ASSUME NEW d \in Deliveries, Reject(d) PROVE PostingsAreCaptured'
    BY <1>4 DEF Reject
<1>5. ASSUME NEW d \in Deliveries, LookForCapture(d) PROVE PostingsAreCaptured'
    BY <1>5 DEF LookForCapture
<1>6. ASSUME NEW d \in Deliveries, CreatePayment(d) PROVE PostingsAreCaptured'
    BY <1>6 DEF CreatePayment
<1>7. ASSUME NEW d \in Deliveries, BeginPosting(d) PROVE PostingsAreCaptured'
    BY <1>7 DEF BeginPosting, AlreadyPosted
<1>8. ASSUME NEW d \in Deliveries, DebitGateway(d) PROVE PostingsAreCaptured'
    BY <1>8 DEF DebitGateway
<1>9. ASSUME NEW d \in Deliveries, CreditWallet(d) PROVE PostingsAreCaptured'
    BY <1>9 DEF CreditWallet
<1>10. ASSUME NEW d \in Deliveries, Settle(d) PROVE PostingsAreCaptured'
    BY <1>10 DEF Settle
<1>11. ASSUME NEW d \in Deliveries, StopDelivery(d) PROVE PostingsAreCaptured'
    BY <1>11 DEF StopDelivery
<1>12. ASSUME NEW b \in Returns, ReturnRead(b) PROVE PostingsAreCaptured'
    BY <1>12 DEF ReturnRead
<1>13. ASSUME NEW b \in Returns, ReturnRecheck(b) PROVE PostingsAreCaptured'
    BY <1>13 DEF ReturnRecheck
<1>14. ASSUME NEW b \in Returns, ReturnCapture(b) PROVE PostingsAreCaptured'
    <2>1. /\ Return \in debited => UNCHANGED <<debited, credited>>
          /\ Return \notin debited => debited' = debited \cup {Return} /\ credited' =
             credited \cup {Return}
        BY <1>14, Zenon DEF ReturnCapture, AlreadyPosted, ledger
    <2>2. UNCHANGED <<captures, phase, work, crossed>>
        BY <1>14 DEF ReturnCapture
    <2>3. Return \notin Successes
        BY DEF Reports
    <2> QED BY <2>1, <2>2, <2>3
<1>15. ASSUME NEW b \in Returns, ReturnFails(b) PROVE PostingsAreCaptured'
    BY <1>15 DEF ReturnFails
<1>16. CASE UNCHANGED topUpVars
    BY <1>16 DEF topUpVars
<1> QED
    BY <1>1, <1>2, <1>3, <1>4, <1>5, <1>6, <1>7, <1>8, <1>9, <1>10, <1>11, <1>12, <1>13, <1>14,
       <1>15, <1>16
       DEF TopUpNext, Deliver

(* Two postings for one payment need a crossing.                           *)
LEMMA ApartPreserved ==
    TopUpInvariant /\ [TopUpNext]_topUpVars => PostingsAreApart'
<1> SUFFICES ASSUME TopUpInvariant, [TopUpNext]_topUpVars PROVE PostingsAreApart'
    OBVIOUS
<1> USE TopUpAssumption DEF TopUpInvariant, TopUpTypeOK, Move, Rest, Turn, delivery, ledger, marks,
       PostingsAreApart
<1>1. ASSUME NEW d \in Deliveries, NEW e \in Reports, Look(d, e) PROVE PostingsAreApart'
    BY <1>1 DEF Look
<1>2. ASSUME NEW d \in Deliveries, Receive(d) PROVE PostingsAreApart'
    BY <1>2 DEF Receive
<1>3. ASSUME NEW d \in Deliveries, ReportFailure(d) PROVE PostingsAreApart'
    BY <1>3 DEF ReportFailure
<1>4. ASSUME NEW d \in Deliveries, Reject(d) PROVE PostingsAreApart'
    BY <1>4 DEF Reject
<1>5. ASSUME NEW d \in Deliveries, LookForCapture(d) PROVE PostingsAreApart'
    BY <1>5 DEF LookForCapture
<1>6. ASSUME NEW d \in Deliveries, CreatePayment(d) PROVE PostingsAreApart'
    BY <1>6 DEF CreatePayment
<1>7. ASSUME NEW d \in Deliveries, BeginPosting(d) PROVE PostingsAreApart'
    <2>1. ~crossed' => ~crossed /\ \A o \in Deliveries \ {d} : phase[o] # "posting"
        BY <1>7, Zenon DEF BeginPosting
    <2>2. phase'[d] = "posting" => debited \cap Successes = {}
        BY <1>7, TopUpAssumption DEF BeginPosting, AlreadyPosted, PostingsAreCaptured, Reports
    <2>3. /\ debited' = debited /\ \A o \in Deliveries \ {d} : phase'[o] = phase[o]
          /\ phase'[d] \in {"posting", "posted"}
        BY <1>7 DEF BeginPosting
    <2> QED BY <2>1, <2>2, <2>3
<1>8. ASSUME NEW d \in Deliveries, DebitGateway(d) PROVE PostingsAreApart'
    BY <1>8 DEF DebitGateway, PostingsAreCaptured
<1>9. ASSUME NEW d \in Deliveries, CreditWallet(d) PROVE PostingsAreApart'
    BY <1>9 DEF CreditWallet, PostingsAreCaptured
<1>10. ASSUME NEW d \in Deliveries, Settle(d) PROVE PostingsAreApart'
    BY <1>10 DEF Settle
<1>11. ASSUME NEW d \in Deliveries, StopDelivery(d) PROVE PostingsAreApart'
    BY <1>11 DEF StopDelivery
<1>12. ASSUME NEW b \in Returns, ReturnRead(b) PROVE PostingsAreApart'
    BY <1>12 DEF ReturnRead
<1>13. ASSUME NEW b \in Returns, ReturnRecheck(b) PROVE PostingsAreApart'
    BY <1>13 DEF ReturnRecheck
<1>14. ASSUME NEW b \in Returns, ReturnCapture(b) PROVE PostingsAreApart'
    <2>1. /\ Return \in debited => UNCHANGED <<debited, credited>>
          /\ Return \notin debited => debited' = debited \cup {Return} /\ credited' =
             credited \cup {Return}
        BY <1>14, Zenon DEF ReturnCapture, AlreadyPosted, ledger
    <2>2. UNCHANGED <<captures, phase, work, crossed>>
        BY <1>14 DEF ReturnCapture
    <2>3. Return \notin Successes
        BY DEF Reports
    <2> QED BY <2>1, <2>2, <2>3
<1>15. ASSUME NEW b \in Returns, ReturnFails(b) PROVE PostingsAreApart'
    BY <1>15 DEF ReturnFails
<1>16. CASE UNCHANGED topUpVars
    BY <1>16 DEF topUpVars
<1> QED
    BY <1>1, <1>2, <1>3, <1>4, <1>5, <1>6, <1>7, <1>8, <1>9, <1>10, <1>11, <1>12, <1>13, <1>14,
       <1>15, <1>16
       DEF TopUpNext, Deliver

(* What a return has credited stays its own.                               *)
LEMMA AlonePreserved ==
    TopUpInvariant /\ [TopUpNext]_topUpVars => ReturnIsAlone'
<1> SUFFICES ASSUME TopUpInvariant, [TopUpNext]_topUpVars PROVE ReturnIsAlone'
    OBVIOUS
<1> USE TopUpAssumption DEF TopUpInvariant, TopUpTypeOK, Move, Rest, Turn, delivery, ledger, marks,
       ReturnIsAlone
<1>1. ASSUME NEW d \in Deliveries, NEW e \in Reports, Look(d, e) PROVE ReturnIsAlone'
    BY <1>1 DEF Look
<1>2. ASSUME NEW d \in Deliveries, Receive(d) PROVE ReturnIsAlone'
    BY <1>2 DEF Receive
<1>3. ASSUME NEW d \in Deliveries, ReportFailure(d) PROVE ReturnIsAlone'
    BY <1>3 DEF ReportFailure
<1>4. ASSUME NEW d \in Deliveries, Reject(d) PROVE ReturnIsAlone'
    BY <1>4 DEF Reject
<1>5. ASSUME NEW d \in Deliveries, LookForCapture(d) PROVE ReturnIsAlone'
    BY <1>5 DEF LookForCapture, CaptureSeen
<1>6. ASSUME NEW d \in Deliveries, CreatePayment(d) PROVE ReturnIsAlone'
    BY <1>6 DEF CreatePayment, PostingsAreCaptured
<1>7. ASSUME NEW d \in Deliveries, BeginPosting(d) PROVE ReturnIsAlone'
    BY <1>7 DEF BeginPosting
<1>8. ASSUME NEW d \in Deliveries, DebitGateway(d) PROVE ReturnIsAlone'
    BY <1>8 DEF DebitGateway
<1>9. ASSUME NEW d \in Deliveries, CreditWallet(d) PROVE ReturnIsAlone'
    BY <1>9 DEF CreditWallet, PostingsAreCaptured
<1>10. ASSUME NEW d \in Deliveries, Settle(d) PROVE ReturnIsAlone'
    BY <1>10 DEF Settle
<1>11. ASSUME NEW d \in Deliveries, StopDelivery(d) PROVE ReturnIsAlone'
    BY <1>11 DEF StopDelivery
<1>12. ASSUME NEW b \in Returns, ReturnRead(b) PROVE ReturnIsAlone'
    BY <1>12 DEF ReturnRead
<1>13. ASSUME NEW b \in Returns, ReturnRecheck(b) PROVE ReturnIsAlone'
    BY <1>13 DEF ReturnRecheck
<1>14. ASSUME NEW b \in Returns, ReturnCapture(b) PROVE ReturnIsAlone'
    BY <1>14 DEF ReturnCapture, AlreadyPosted, PostingsAreCaptured
<1>15. ASSUME NEW b \in Returns, ReturnFails(b) PROVE ReturnIsAlone'
    BY <1>15 DEF ReturnFails
<1>16. CASE UNCHANGED topUpVars
    BY <1>16 DEF topUpVars
<1> QED
    BY <1>1, <1>2, <1>3, <1>4, <1>5, <1>6, <1>7, <1>8, <1>9, <1>10, <1>11, <1>12, <1>13, <1>14,
       <1>15, <1>16
       DEF TopUpNext, Deliver

(* A capture is not forgotten.                                             *)
LEMMA GoOnPreserved ==
    TopUpInvariant /\ [TopUpNext]_topUpVars => CapturesGoOn'
<1> SUFFICES ASSUME TopUpInvariant, [TopUpNext]_topUpVars PROVE CapturesGoOn'
    OBVIOUS
<1> USE TopUpAssumption DEF TopUpInvariant, TopUpTypeOK, Move, Rest, Turn, delivery, ledger, marks,
       CapturesGoOn
<1>1. ASSUME NEW d \in Deliveries, NEW e \in Reports, Look(d, e) PROVE CapturesGoOn'
    BY <1>1 DEF Look
<1>2. ASSUME NEW d \in Deliveries, Receive(d) PROVE CapturesGoOn'
    BY <1>2 DEF Receive
<1>3. ASSUME NEW d \in Deliveries, ReportFailure(d) PROVE CapturesGoOn'
    BY <1>3 DEF ReportFailure
<1>4. ASSUME NEW d \in Deliveries, Reject(d) PROVE CapturesGoOn'
    BY <1>4 DEF Reject
<1>5. ASSUME NEW d \in Deliveries, LookForCapture(d) PROVE CapturesGoOn'
    BY <1>5 DEF LookForCapture
<1>6. ASSUME NEW d \in Deliveries, CreatePayment(d) PROVE CapturesGoOn'
    BY <1>6 DEF CreatePayment
<1>7. ASSUME NEW d \in Deliveries, BeginPosting(d) PROVE CapturesGoOn'
    BY <1>7 DEF BeginPosting, AlreadyPosted, PostingsAreCaptured
<1>8. ASSUME NEW d \in Deliveries, DebitGateway(d) PROVE CapturesGoOn'
    BY <1>8 DEF DebitGateway, PostingsAreCaptured
<1>9. ASSUME NEW d \in Deliveries, CreditWallet(d) PROVE CapturesGoOn'
    BY <1>9 DEF CreditWallet, PostingsAreCaptured
<1>10. ASSUME NEW d \in Deliveries, Settle(d) PROVE CapturesGoOn'
    BY <1>10 DEF Settle
<1>11. ASSUME NEW d \in Deliveries, StopDelivery(d) PROVE CapturesGoOn'
    BY <1>11 DEF StopDelivery
<1>12. ASSUME NEW b \in Returns, ReturnRead(b) PROVE CapturesGoOn'
    BY <1>12 DEF ReturnRead
<1>13. ASSUME NEW b \in Returns, ReturnRecheck(b) PROVE CapturesGoOn'
    BY <1>13 DEF ReturnRecheck
<1>14. ASSUME NEW b \in Returns, ReturnCapture(b) PROVE CapturesGoOn'
    BY <1>14 DEF ReturnCapture, AlreadyPosted, PostingsAreCaptured
<1>15. ASSUME NEW b \in Returns, ReturnFails(b) PROVE CapturesGoOn'
    BY <1>15 DEF ReturnFails
<1>16. CASE UNCHANGED topUpVars
    BY <1>16 DEF topUpVars
<1> QED
    BY <1>1, <1>2, <1>3, <1>4, <1>5, <1>6, <1>7, <1>8, <1>9, <1>10, <1>11, <1>12, <1>13, <1>14,
       <1>15, <1>16
       DEF TopUpNext, Deliver

LEMMA TopUpInvariantPreserved == TopUpInvariant /\ [TopUpNext]_topUpVars => TopUpInvariant'
BY TopUpTypePreserved, CapturedPreserved, ApartPreserved, AlonePreserved, GoOnPreserved
   DEF TopUpInvariant

(* Without a crossing the credits of webhooks are those of one event.      *)
LEMMA SecondCreditsFollow == TopUpInvariant => SecondCreditsAreExplained
<1> SUFFICES ASSUME TopUpInvariant PROVE SecondCreditsAreExplained
    OBVIOUS
<1> USE DEF TopUpInvariant
<1>1. ASSUME ~crossed PROVE ~(Cardinality(credited \cap Successes) > 1)
    <2>1. \A x, y \in credited \cap Successes : x = y
        BY <1>1 DEF PostingsAreApart, TopUpTypeOK
    <2> QED BY <2>1, OneAtMost
<1>2. ASSUME Return \in credited, ~unseen, ~undone, NEW e \in credited \cap Successes
      PROVE  RefOf(e) # "ours"
    BY <1>2 DEF ReturnIsAlone, PostingsAreCaptured, TopUpTypeOK
<1> QED BY <1>1, <1>2 DEF SecondCreditsAreExplained

LEMMA CapturedIsCreditedFollows == TopUpInvariant => CapturedIsCredited
BY DEF TopUpInvariant, CapturesGoOn, CapturedIsCredited

(***************************************************************************)
(* The payment, its postings and every delivery keep their types.          *)
(***************************************************************************)
THEOREM TopUpTypeCorrect == TopUpSpec => []TopUpTypeOK
<1>1. TopUpInvariant => TopUpTypeOK
    BY DEF TopUpInvariant
<1> QED BY <1>1, TopUpInvariantInit, TopUpInvariantPreserved, PTL DEF TopUpSpec

(***************************************************************************)
(* handlePaymentWebhook and the browser's return, for any number of        *)
(* deliveries and returns and whatever ids the events bear: two events     *)
(* credit the wallet only after their requests had crossed; an event and a *)
(* return only after the return was settled past a webhook's capture or a  *)
(* failed return had hidden a settled one, or if the event bears another   *)
(* id than the payment or none.                                            *)
(***************************************************************************)
THEOREM SecondCreditsHaveReasons == TopUpSpec => []SecondCreditsAreExplained
BY TopUpInvariantInit, TopUpInvariantPreserved, SecondCreditsFollow, PTL DEF TopUpSpec

(***************************************************************************)
(* What a webhook or a return has captured is credited or is about to be,  *)
(* unless a webhook request stopped half way.                              *)
(***************************************************************************)
THEOREM NoCaptureIsForgotten == TopUpSpec => []CapturedIsCredited
BY TopUpInvariantInit, TopUpInvariantPreserved, CapturedIsCreditedFollows, PTL DEF TopUpSpec

(***************************************************************************)
(* Transfers on a blockchain. An undisputed transfer is claimed for one    *)
(* booking, and a booking that is paid and was neither reopened nor        *)
(* withdrawn has one payment.                                              *)
(***************************************************************************)
Claims(r) == receipt[r] \in {"PENDING_REVIEW", "APPROVED"}

(* Reviews and payments are about receipts that were written.              *)
ReviewedAreWritten ==
    /\ \A c \in Clerks : studied[c] # Nothing => receipt[studied[c]] # "none"
    /\ \A r \in payments : receipt[r] # "none"

(* An undisputed transfer is claimed for one booking, by those who paid    *)
(* with it too, and whoever has looked has found no other.                 *)
OneBookingPerTransfer ==
    /\ \A r \in payments : hash[r] \in disputed \/ receipt[r] = "APPROVED"
    /\ \A r, s \in Receipts :
         hash[r] = hash[s] /\ Claims(r) /\ (Claims(s) \/ handed[s] = "looked") =>
             for[r] = for[s] \/ hash[r] \in disputed

(* A booking that is paid and was neither reopened nor withdrawn is        *)
(* captured, has one payment, and nobody is about to write to it as to an  *)
(* unpaid one.                                                             *)
OnePaymentPerBooking ==
    \A r \in payments : for[r] \notin reopened \cup withdrawn =>
        /\ order[for[r]] = "captured"
        /\ \A s \in payments : for[s] = for[r] => s = r
        /\ \A s \in Receipts : handed[s] = "looked" => for[s] # for[r]
        /\ \A c \in Clerks : decision[c] = "APPROVE" => for[studied[c]] # for[r]

CryptoInvariant ==
    CryptoTypeOK /\ ReviewedAreWritten /\ OneBookingPerTransfer /\ OnePaymentPerBooking

LEMMA CryptoInvariantInit == CryptoInit => CryptoInvariant
BY CryptoAssumption
   DEF CryptoInit, CryptoInvariant, CryptoTypeOK, ReviewedAreWritten, OneBookingPerTransfer,
       OnePaymentPerBooking, Claims

(* What a clerk decides is a receipt that was written, for a booking.      *)
LEMMA DecidedReceipt ==
    ASSUME CryptoTypeOK, ReviewedAreWritten, NEW c \in Clerks, decision[c] # "none"
    PROVE  /\ studied[c] \in Receipts /\ handed[studied[c]] = "over"
           /\ hash[studied[c]] \in Transfers /\ for[studied[c]] \in Orders
BY CryptoAssumption DEF CryptoTypeOK, ReviewedAreWritten

(* A customer who has looked has not yet written.                          *)
LEMMA LookedReceipt ==
    ASSUME CryptoTypeOK, NEW r \in Receipts, handed[r] = "looked"
    PROVE  receipt[r] = "none" /\ hash[r] \in Transfers /\ for[r] \in Orders
BY CryptoAssumption DEF CryptoTypeOK

(* The types, action by action.                                            *)
LEMMA CryptoTypePreserved ==
    CryptoTypeOK /\ ReviewedAreWritten /\ [CryptoNext]_cryptoVars => CryptoTypeOK'
<1> SUFFICES ASSUME CryptoTypeOK, ReviewedAreWritten, [CryptoNext]_cryptoVars PROVE CryptoTypeOK'
    OBVIOUS
<1> USE CryptoAssumption
<1>1. ASSUME NEW r \in Receipts, NEW x \in Transfers, NEW o \in Orders, SubmitLook(r, x, o)
      PROVE  CryptoTypeOK'
    BY <1>1 DEF SubmitLook, CryptoTypeOK
<1>2. ASSUME NEW r \in Receipts, SubmitWrite(r) PROVE CryptoTypeOK'
    <2>1. hash[r] \in Transfers /\ for[r] \in Orders
        BY <1>2, LookedReceipt DEF SubmitWrite
    <2> QED BY <1>2, <2>1 DEF SubmitWrite, CryptoTypeOK
<1>3. ASSUME NEW c \in Clerks, NEW r \in Receipts, Study(c, r) PROVE CryptoTypeOK'
    BY <1>3 DEF Study, CryptoTypeOK
<1>4. ASSUME NEW c \in Clerks, ApproveTransfer(c) PROVE CryptoTypeOK'
    <2>1. /\ studied[c] \in Receipts /\ handed[studied[c]] = "over"
          /\ hash[studied[c]] \in Transfers /\ for[studied[c]] \in Orders
        BY <1>4, DecidedReceipt DEF ApproveTransfer, Decide
    <2> QED BY <1>4, <2>1 DEF ApproveTransfer, Decide, CryptoTypeOK
<1>5. ASSUME NEW c \in Clerks, RejectTransfer(c) PROVE CryptoTypeOK'
    <2>1. /\ studied[c] \in Receipts /\ handed[studied[c]] = "over"
          /\ hash[studied[c]] \in Transfers /\ for[studied[c]] \in Orders
        BY <1>5, DecidedReceipt DEF RejectTransfer, Decide
    <2> QED BY <1>5, <2>1 DEF RejectTransfer, Decide, CryptoTypeOK
<1>6. ASSUME NEW c \in Clerks, ReviewFails(c) PROVE CryptoTypeOK'
    BY <1>6 DEF ReviewFails, CryptoTypeOK
<1>7. ASSUME NEW o \in Orders, EndOrder(o) PROVE CryptoTypeOK'
    BY <1>7 DEF EndOrder, CryptoTypeOK
<1>8. ASSUME NEW o \in Orders, WithdrawOrder(o) PROVE CryptoTypeOK'
    BY <1>8 DEF WithdrawOrder, CryptoTypeOK
<1>9. CASE UNCHANGED cryptoVars
    BY <1>9 DEF cryptoVars, CryptoTypeOK
<1> QED BY <1>1, <1>2, <1>3, <1>4, <1>5, <1>6, <1>7, <1>8, <1>9 DEF CryptoNext

(* The rest of the invariant, action by action.                            *)
LEMMA CryptoInvariantPreserved == CryptoInvariant /\ [CryptoNext]_cryptoVars => CryptoInvariant'
<1> SUFFICES ASSUME CryptoInvariant, [CryptoNext]_cryptoVars PROVE CryptoInvariant'
    OBVIOUS
<1>0. CryptoTypeOK /\ CryptoTypeOK' /\ ReviewedAreWritten
    BY CryptoTypePreserved DEF CryptoInvariant
<1> DEFINE Kept == ReviewedAreWritten' /\ OneBookingPerTransfer' /\ OnePaymentPerBooking'
<1>1. ASSUME NEW r \in Receipts, NEW x \in Transfers, NEW o \in Orders, SubmitLook(r, x, o)
      PROVE  Kept
    <2>1. handed[r] = "new" /\ receipt[r] = "none" /\ r \notin payments /\ order' = order
        BY <1>0, <1>1 DEF SubmitLook, CryptoTypeOK, ReviewedAreWritten
    <2>2. ReviewedAreWritten'
        BY <1>0, <1>1 DEF SubmitLook, ReviewedAreWritten
    <2>3. OneBookingPerTransfer'
        BY <1>0, <1>1, <2>1
           DEF SubmitLook, CryptoInvariant, OneBookingPerTransfer, Claims, Claimed, CryptoTypeOK
    <2>4. \A c \in Clerks : decision[c] # "none" => studied[c] # r
        BY <2>1, <1>0 DEF ReviewedAreWritten, CryptoTypeOK
    <2>5. OnePaymentPerBooking'
        BY <1>0, <1>1, <2>1, <2>4
           DEF SubmitLook, CryptoInvariant, OnePaymentPerBooking, CryptoTypeOK
    <2> QED BY <2>2, <2>3, <2>5
<1>2. ASSUME NEW r \in Receipts, SubmitWrite(r) PROVE Kept
    <2>1. receipt[r] = "none" /\ hash[r] \in Transfers /\ for[r] \in Orders /\ r \notin payments
        BY <1>0, <1>2, LookedReceipt DEF SubmitWrite, ReviewedAreWritten
    <2>2. ReviewedAreWritten'
        BY <1>0, <1>2, <2>1 DEF SubmitWrite, ReviewedAreWritten, CryptoTypeOK
    <2>3. OneBookingPerTransfer'
        BY <1>0, <1>2, <2>1
           DEF SubmitWrite, CryptoInvariant, OneBookingPerTransfer, Claims, CryptoTypeOK
    <2>4. OnePaymentPerBooking'
        BY <1>0, <1>2, <2>1
           DEF SubmitWrite, CryptoInvariant, OnePaymentPerBooking, CryptoTypeOK
    <2> QED BY <2>2, <2>3, <2>4
<1>3. ASSUME NEW c \in Clerks, NEW r \in Receipts, Study(c, r) PROVE Kept
    <2>1. ReviewedAreWritten' /\ OneBookingPerTransfer'
        BY <1>0, <1>3
           DEF Study, CryptoInvariant, ReviewedAreWritten, OneBookingPerTransfer, Claims,
              CryptoTypeOK
    <2>2. OnePaymentPerBooking'
        BY <1>0, <1>3 DEF Study, CryptoInvariant, OnePaymentPerBooking, CryptoTypeOK
    <2> QED BY <2>1, <2>2
<1>4. ASSUME NEW c \in Clerks, ApproveTransfer(c) PROVE Kept
    <2>1. /\ studied[c] \in Receipts /\ handed[studied[c]] = "over"
          /\ hash[studied[c]] \in Transfers /\ for[studied[c]] \in Orders
        BY <1>0, <1>4, DecidedReceipt DEF ApproveTransfer, Decide
    <2>2. ReviewedAreWritten'
        BY <1>0, <1>4, <2>1 DEF ApproveTransfer, Decide, ReviewedAreWritten, CryptoTypeOK
    <2>3. OneBookingPerTransfer'
        BY <1>0, <1>4, <2>1
           DEF ApproveTransfer, Decide, CryptoInvariant, OneBookingPerTransfer, Claims, CryptoTypeOK
    <2>4. OnePaymentPerBooking'
        BY <1>0, <1>4, <2>1
           DEF ApproveTransfer, Decide, FoundUnpaid, CryptoInvariant, OnePaymentPerBooking,
               CryptoTypeOK
    <2> QED BY <2>2, <2>3, <2>4
<1>5. ASSUME NEW c \in Clerks, RejectTransfer(c) PROVE Kept
    <2>1. /\ studied[c] \in Receipts /\ handed[studied[c]] = "over"
          /\ hash[studied[c]] \in Transfers /\ for[studied[c]] \in Orders
        BY <1>0, <1>5, DecidedReceipt DEF RejectTransfer, Decide
    <2>2. ReviewedAreWritten'
        BY <1>0, <1>5, <2>1 DEF RejectTransfer, Decide, ReviewedAreWritten, CryptoTypeOK
    <2>3. OneBookingPerTransfer'
        BY <1>0, <1>5, <2>1
           DEF RejectTransfer, Decide, CryptoInvariant, OneBookingPerTransfer, Claims, CryptoTypeOK
    <2>4. OnePaymentPerBooking'
        BY <1>0, <1>5, <2>1
           DEF RejectTransfer, Decide, CryptoInvariant, OnePaymentPerBooking, CryptoTypeOK
    <2> QED BY <2>2, <2>3, <2>4
<1>6. ASSUME NEW c \in Clerks, ReviewFails(c) PROVE Kept
    <2>1. ReviewedAreWritten' /\ OneBookingPerTransfer'
        BY <1>0, <1>6
           DEF ReviewFails, CryptoInvariant, ReviewedAreWritten, OneBookingPerTransfer, Claims,
               CryptoTypeOK
    <2>2. OnePaymentPerBooking'
        BY <1>0, <1>6 DEF ReviewFails, CryptoInvariant, OnePaymentPerBooking, CryptoTypeOK
    <2> QED BY <2>1, <2>2
<1>7. ASSUME NEW o \in Orders, EndOrder(o) PROVE Kept
    <2>1. ReviewedAreWritten' /\ OneBookingPerTransfer'
        BY <1>0, <1>7
           DEF EndOrder, CryptoInvariant, ReviewedAreWritten, OneBookingPerTransfer, Claims
    <2>2. OnePaymentPerBooking'
        BY <1>0, <1>7 DEF EndOrder, CryptoInvariant, OnePaymentPerBooking, CryptoTypeOK
    <2> QED BY <2>1, <2>2
<1>8. ASSUME NEW o \in Orders, WithdrawOrder(o) PROVE Kept
    <2>1. ReviewedAreWritten' /\ OneBookingPerTransfer'
        BY <1>0, <1>8
           DEF WithdrawOrder, CryptoInvariant, ReviewedAreWritten, OneBookingPerTransfer, Claims
    <2>2. OnePaymentPerBooking'
        BY <1>0, <1>8 DEF WithdrawOrder, CryptoInvariant, OnePaymentPerBooking, CryptoTypeOK
    <2> QED BY <2>1, <2>2
<1>9. ASSUME UNCHANGED cryptoVars PROVE Kept
    <2>1. ReviewedAreWritten'
        BY <1>9 DEF cryptoVars, CryptoInvariant, ReviewedAreWritten
    <2>2. OneBookingPerTransfer'
        BY <1>9 DEF cryptoVars, CryptoInvariant, OneBookingPerTransfer, Claims
    <2>3. OnePaymentPerBooking'
        BY <1>9 DEF cryptoVars, CryptoInvariant, OnePaymentPerBooking
    <2> QED BY <2>1, <2>2, <2>3
<1> QED
    BY <1>0, <1>1, <1>2, <1>3, <1>4, <1>5, <1>6, <1>7, <1>8, <1>9 DEF CryptoNext, CryptoInvariant

(***************************************************************************)
(* Receipts, reviews, payments and bookings keep their types; a receipt    *)
(* that was handed over has a transfer and a booking.                      *)
(***************************************************************************)
THEOREM CryptoTypeCorrect == CryptoSpec => []CryptoTypeOK
<1>1. CryptoInvariant => CryptoTypeOK
    BY DEF CryptoInvariant
<1> QED BY <1>1, CryptoInvariantInit, CryptoInvariantPreserved, PTL DEF CryptoSpec

(***************************************************************************)
(* submitCryptoPayment and reviewCryptoPayment, for any number of          *)
(* receipts, clerks, transfers and bookings: one transfer pays one booking *)
(* and a booking is paid by one receipt, unless one of the named overlaps  *)
(* came first, or the booking was cancelled, refunded or expired after it  *)
(* was paid.                                                               *)
(***************************************************************************)
THEOREM TransfersArePaidWithOnce == CryptoSpec => []TransfersPayOnce
<1>1. CryptoInvariant => TransfersPayOnce
    BY DEF CryptoInvariant, TransfersPayOnce, OneBookingPerTransfer, OnePaymentPerBooking,
           Claims, CryptoTypeOK
<1> QED BY <1>1, CryptoInvariantInit, CryptoInvariantPreserved, PTL DEF CryptoSpec

(***************************************************************************)
(* A company's request.  While nothing overlaps, one payer at most is at   *)
(* work, and the request is in one of three phases.                        *)
(***************************************************************************)
PayersAreAlone ==
    \A p, q \in Payers : paying[p] # "idle" /\ paying[q] # "idle" => p = q

(* Before the deposit is booked, it may have been charged by who books it. *)
BeforeDeposit ==
    /\ requestIs \in {"draft", "submitted"} /\ paidAmount = 0
    /\ counted = 0 /\ issuedVouchers = 0 /\ charges["settlement"] = 0
    /\ \A m \in Movers : moving[m] \in {"none", "submitted"}
    /\ \A p \in Payers : paying[p] # "idle" => kind[p] = "deposit" /\ known[p].paid = 0
    /\ \A p \in Payers : paying[p] = "charged" => charges["deposit"] = 1
    /\ \/ charges["deposit"] = 0 /\ collected = 0
       \/ /\ charges["deposit"] = 1 /\ collected = Deposit
          /\ \E p \in Payers : paying[p] = "charged"

(* The same for the settlement, whose payer has read the deposit as paid.  *)
BeforeSettlement ==
    /\ requestIs \in {"under_review", "approved", "changes_requested"} /\ paidAmount = Deposit
    /\ counted = 1 /\ issuedVouchers = 0 /\ charges["deposit"] = 1
    /\ \A m \in Movers : moving[m] \in {"none", "approved", "changes_requested"}
    /\ \A p \in Payers : paying[p] # "idle" => kind[p] = "settlement" /\ known[p].paid = Deposit
    /\ \A p \in Payers : paying[p] = "charged" => charges["settlement"] = 1
    /\ \/ charges["settlement"] = 0 /\ collected = Deposit
       \/ /\ charges["settlement"] = 1
          /\ \E p \in Payers : paying[p] = "charged" /\ collected = Total - known[p].grant

(* An issued request is left alone.                                        *)
AfterSettlement ==
    /\ requestIs = "issued" /\ collected = paidAmount /\ Total - paidAmount \in Grants
    /\ counted = 1 /\ issuedVouchers = 1
    /\ charges["deposit"] = 1 /\ charges["settlement"] = 1
    /\ \A m \in Movers : moving[m] = "none"
    /\ \A p \in Payers : paying[p] = "idle"

(* Unless something overlapped.                                            *)
InOnePhase ==
    contested \/ (PayersAreAlone /\ (BeforeDeposit \/ BeforeSettlement \/ AfterSettlement))

BusinessInvariant == BusinessTypeOK /\ InOnePhase

LEMMA BusinessInvariantInit == BusinessInit => BusinessInvariant
<1> SUFFICES ASSUME BusinessInit PROVE BusinessInvariant
    OBVIOUS
<1>1. BusinessTypeOK
    <2>1. 0 \in 0..MaxBreakdowns /\ 0 \in 0..MaxCharges /\ 0 \in Grants
        BY BusinessAssumption
    <2>2. Unknown \in [paid : Int, grant : Grants]
        BY <2>1 DEF Unknown
    <2>3. /\ requestIs \in {"draft", "submitted", "under_review", "changes_requested",
                            "approved", "issued"}
          /\ paidAmount \in Int /\ grant \in Grants /\ collected \in Int
          /\ charges \in [Kinds -> 0..MaxCharges]
          /\ issuedVouchers \in Nat /\ counted \in Nat
        BY <2>1 DEF BusinessInit
    <2>4. /\ moving \in [Movers -> {"none", "submitted", "approved", "changes_requested"}]
          /\ paying \in [Payers -> {"idle", "read", "charged"}]
          /\ kind \in [Payers -> Kinds]
        BY DEF BusinessInit, Kinds
    <2>5. known \in [Payers -> [paid : Int, grant : Grants]]
        BY <2>2 DEF BusinessInit
    <2>6. breakdowns \in 0..MaxBreakdowns /\ contested \in BOOLEAN
        BY <2>1 DEF BusinessInit
    <2> QED BY <2>3, <2>4, <2>5, <2>6 DEF BusinessTypeOK
<1>2. PayersAreAlone /\ BeforeDeposit
    BY DEF BusinessInit, PayersAreAlone, BeforeDeposit, Kinds
<1> QED BY <1>1, <1>2 DEF BusinessInvariant, InOnePhase

(* What is due is an integer, whatever has been granted.                   *)
LEMMA AmountIsInt ==
    ASSUME BusinessTypeOK, NEW p \in Payers
    PROVE  Amount(p) \in Int /\ known[p].paid \in Int /\ known[p].grant \in Grants
           /\ kind[p] \in Kinds /\ Grants \subseteq Int
<1>1. known[p] \in [paid : Int, grant : Grants] /\ kind[p] \in Kinds
    BY DEF BusinessTypeOK
<1>2. known[p].paid \in Int /\ known[p].grant \in Grants
    BY <1>1
<1>3. Grants \subseteq Int /\ Total \in Int /\ Deposit \in Int
    BY BusinessAssumption
<1>4. Amount(p) \in {Deposit, Total - Deposit - known[p].grant}
    BY Zenon DEF Amount
<1>5. \A x, y, z \in Int : x - y - z \in Int
    OBVIOUS
<1>6. known[p].grant \in Int
    BY <1>2, <1>3, Zenon
<1>7. Total - Deposit - known[p].grant \in Int
    BY <1>3, <1>5, <1>6, Zenon
<1> QED BY <1>1, <1>2, <1>3, <1>4, <1>7, Zenon

(* The types, action by action.                                            *)
LEMMA BusinessTypePreserved ==
    BusinessTypeOK /\ [BusinessNext]_businessVars => BusinessTypeOK'
<1> SUFFICES ASSUME BusinessTypeOK, [BusinessNext]_businessVars PROVE BusinessTypeOK'
    OBVIOUS
<1> USE BusinessAssumption DEF BusinessTypeOK, accounts, Kinds
<1>0. Unknown \in [paid : Int, grant : Grants]
    BY DEF Unknown
<1>1. ASSUME NEW m \in Movers, MoveRead(m) \/ MoveWrite(m) PROVE BusinessTypeOK'
    BY <1>1 DEF MoveRead, MoveWrite, Legal
<1>2. CASE ApplyGrant
    BY <1>2 DEF ApplyGrant
<1>3. ASSUME NEW p \in Payers, PayRead(p) PROVE BusinessTypeOK'
    BY <1>3 DEF PayRead
<1>4. ASSUME NEW p \in Payers, ChargeGroup(p) PROVE BusinessTypeOK'
    BY <1>4, AmountIsInt DEF ChargeGroup
<1>5. ASSUME NEW p \in Payers, DepositPaid(p) PROVE BusinessTypeOK'
    BY <1>0, <1>5, AmountIsInt DEF DepositPaid, PayEnds
<1>6. ASSUME NEW p \in Payers, SettlementPaid(p) PROVE BusinessTypeOK'
    <2>1. contested' \in BOOLEAN
        <3>1. CASE Issuable(p)
            BY <1>6, <3>1 DEF SettlementPaid
        <3>2. CASE ~Issuable(p)
            BY <1>6, <3>2 DEF SettlementPaid
        <3> QED BY <3>1, <3>2
    <2>2. requestIs' \in {requestIs, "issued"} /\ paidAmount' \in Int /\ issuedVouchers' \in Nat
        BY <1>6, AmountIsInt DEF SettlementPaid
    <2>3. /\ paying' = [paying EXCEPT ![p] = "idle"] /\ kind' = [kind EXCEPT ![p] = "deposit"]
          /\ known' = [known EXCEPT ![p] = Unknown]
          /\ UNCHANGED <<grant, charges, collected, counted, moving, breakdowns>>
        BY <1>6 DEF SettlementPaid, PayEnds
    <2> QED BY <1>0, <2>1, <2>2, <2>3
<1>7. ASSUME NEW p \in Payers, PayDies(p) PROVE BusinessTypeOK'
    BY <1>0, <1>7 DEF PayDies, PayEnds
<1>8. CASE UNCHANGED businessVars
    BY <1>8 DEF businessVars
<1> QED BY <1>1, <1>2, <1>3, <1>4, <1>5, <1>6, <1>7, <1>8 DEF BusinessNext

(* Every step stays in its phase or goes on to the next one.               *)
LEMMA BusinessPhasesPreserved ==
    BusinessInvariant /\ [BusinessNext]_businessVars => InOnePhase'
<1> SUFFICES ASSUME BusinessInvariant, [BusinessNext]_businessVars, ~contested'
             PROVE  PayersAreAlone' /\ (BeforeDeposit \/ BeforeSettlement \/ AfterSettlement)'
    BY Zenon DEF InOnePhase
<1>0. BusinessTypeOK /\ BusinessTypeOK'
    BY BusinessTypePreserved DEF BusinessInvariant
<1> DEFINE Phases == PayersAreAlone /\ (BeforeDeposit \/ BeforeSettlement \/ AfterSettlement)
<1> USE BusinessAssumption, <1>0 DEF BusinessTypeOK, Kinds, accounts
<1>a. ~contested => Phases
    BY DEF BusinessInvariant, InOnePhase
<1>1. ASSUME NEW m \in Movers, MoveRead(m) PROVE Phases'
    <2>1. Phases
        BY <1>1, <1>a DEF MoveRead
    <2>2. PayersAreAlone'
        BY <2>1, <1>1 DEF MoveRead, PayersAreAlone
    <2>3. CASE BeforeDeposit
        BY <2>2, <2>3, <1>1 DEF MoveRead, Legal, BeforeDeposit
    <2>4. CASE BeforeSettlement
        BY <2>2, <2>4, <1>1 DEF MoveRead, Legal, BeforeSettlement
    <2>5. CASE AfterSettlement
        BY <2>2, <2>5, <1>1 DEF MoveRead, Legal, AfterSettlement
    <2> QED BY <2>1, <2>3, <2>4, <2>5
<1>2. ASSUME NEW m \in Movers, MoveWrite(m) PROVE Phases'
    <2>1. Phases
        BY <1>2, <1>a DEF MoveWrite
    <2>2. PayersAreAlone'
        BY <2>1, <1>2 DEF MoveWrite, PayersAreAlone
    <2>3. CASE BeforeDeposit
        BY <2>2, <2>3, <1>2 DEF MoveWrite, BeforeDeposit
    <2>4. CASE BeforeSettlement
        BY <2>2, <2>4, <1>2 DEF MoveWrite, BeforeSettlement
    <2>5. CASE AfterSettlement
        BY <2>5, <1>2 DEF MoveWrite, AfterSettlement
    <2> QED BY <2>1, <2>3, <2>4, <2>5
<1>3. CASE ApplyGrant
    <2>1. Phases
        BY <1>3, <1>a DEF ApplyGrant
    <2>2. PayersAreAlone'
        BY <2>1, <1>3 DEF ApplyGrant, PayersAreAlone
    <2> QED BY <2>1, <2>2, <1>3 DEF ApplyGrant, BeforeDeposit, BeforeSettlement, AfterSettlement
<1>4. ASSUME NEW p \in Payers, PayRead(p) PROVE Phases'
    <2>1. ~contested /\ \A q \in Payers : paying[q] = "idle" \/ kind[q] # kind'[p]
        <3>1. PICK k \in Kinds :
                /\ kind' = [kind EXCEPT ![p] = k]
                /\ contested' = (contested \/ \E q \in Payers : paying[q] # "idle" /\ kind[q] = k)
            BY <1>4 DEF PayRead
        <3>2. ~contested /\ \A q \in Payers : ~(paying[q] # "idle" /\ kind[q] = k)
            BY <3>1, Zenon
        <3> QED BY <3>1, <3>2
    <2>2. Phases
        BY <2>1, <1>a
    <2>3. /\ kind' = [kind EXCEPT ![p] = kind'[p]] /\ requestIs \in PayableIn[kind'[p]]
          /\ kind'[p] \in Kinds /\ kind'[p] = "deposit" <=> requestIs = "submitted"
          /\ kind'[p] = "settlement" <=> requestIs = "approved"
        BY <1>4 DEF PayRead, PayableIn
    <2>4. ~AfterSettlement
        BY <2>3 DEF AfterSettlement
    <2>5. CASE BeforeDeposit
        <3>1. \A q \in Payers : paying[q] = "idle"
            BY <2>1, <2>3, <2>5 DEF BeforeDeposit
        <3>2. PayersAreAlone'
            BY <3>1, <1>4 DEF PayRead, PayersAreAlone
        <3>3. BeforeDeposit'
            BY <3>1, <2>3, <2>5, <1>4 DEF PayRead, BeforeDeposit
        <3> QED BY <3>2, <3>3
    <2>6. CASE BeforeSettlement
        <3>1. \A q \in Payers : paying[q] = "idle"
            BY <2>1, <2>3, <2>6 DEF BeforeSettlement
        <3>2. PayersAreAlone'
            BY <3>1, <1>4 DEF PayRead, PayersAreAlone
        <3>3. BeforeSettlement'
            BY <3>1, <2>3, <2>6, <1>4 DEF PayRead, BeforeSettlement
        <3> QED BY <3>2, <3>3
    <2> QED BY <2>2, <2>4, <2>5, <2>6
<1>5. ASSUME NEW p \in Payers, ChargeGroup(p) PROVE Phases'
    <2>1. Phases
        BY <1>5, <1>a DEF ChargeGroup
    <2>2. PayersAreAlone' /\ \A q \in Payers : q # p => paying[q] = "idle"
        BY <2>1, <1>5 DEF ChargeGroup, PayersAreAlone
    <2>3. ~AfterSettlement
        BY <1>5 DEF ChargeGroup, AfterSettlement
    <2>4. CASE BeforeDeposit
        <3>1. kind[p] = "deposit" /\ charges["deposit"] = 0 /\ collected = 0 /\ Amount(p) = Deposit
            BY <2>2, <2>4, <1>5 DEF ChargeGroup, BeforeDeposit, Amount
        <3>2. BeforeDeposit'
            BY <3>1, <2>2, <2>4, <1>5 DEF ChargeGroup, BeforeDeposit
        <3> QED BY <2>2, <3>2
    <2>5. CASE BeforeSettlement
        <3>1. /\ kind[p] = "settlement" /\ charges["settlement"] = 0 /\ collected = Deposit
              /\ Amount(p) = Total - Deposit - known[p].grant
            BY <2>2, <2>5, <1>5 DEF ChargeGroup, BeforeSettlement, Amount
        <3>2. known[p].grant \in Int
            BY AmountIsInt
        <3>3. collected' = Total - known[p].grant /\ known' = known
            BY <3>1, <3>2, <1>5 DEF ChargeGroup
        <3>4. BeforeSettlement'
            BY <3>1, <3>3, <2>2, <2>5, <1>5 DEF ChargeGroup, BeforeSettlement
        <3> QED BY <2>2, <3>4
    <2> QED BY <2>1, <2>3, <2>4, <2>5
<1>6. ASSUME NEW p \in Payers, DepositPaid(p) PROVE Phases'
    <2>1. ~contested /\ \A m \in Movers : ~(moving[m] # "none")
        BY <1>6, Zenon DEF DepositPaid
    <2>2. Phases
        BY <2>1, <1>a
    <2>3. paying[p] = "charged" /\ kind[p] = "deposit" /\ Amount(p) = Deposit
        BY <1>6 DEF DepositPaid, PayEnds, Amount
    <2>4. BeforeDeposit
        BY <2>2, <2>3 DEF BeforeSettlement, AfterSettlement
    <2>5. \A q \in Payers : paying'[q] = "idle"
        BY <2>2, <2>3, <1>6 DEF DepositPaid, PayEnds, PayersAreAlone
    <2>6. PayersAreAlone'
        BY <2>5 DEF PayersAreAlone
    <2>7. BeforeSettlement'
        BY <2>1, <2>3, <2>4, <2>5, <1>6 DEF DepositPaid, PayEnds, BeforeDeposit, BeforeSettlement
    <2> QED BY <2>6, <2>7
<1>7. ASSUME NEW p \in Payers, SettlementPaid(p) PROVE Phases'
    <2>1. ~contested
        BY <1>7, Zenon DEF SettlementPaid
    <2>2. Phases
        BY <2>1, <1>a
    <2>3. /\ paying[p] = "charged" /\ kind[p] = "settlement" /\ known[p].grant \in Grants
          /\ known[p].grant \in Int /\ Amount(p) = Total - Deposit - known[p].grant
        BY <1>7, AmountIsInt DEF SettlementPaid, PayEnds, Amount
    <2>4. BeforeSettlement
        BY <2>2, <2>3 DEF BeforeDeposit, AfterSettlement
    <2>5. known[p].paid = Deposit /\ Issuable(p)
        BY <2>3, <2>4 DEF BeforeSettlement, Issuable
    <2>6. \A m \in Movers : ~(moving[m] # "none")
        BY <2>5, <1>7, Zenon DEF SettlementPaid
    <2>7. \A q \in Payers : paying'[q] = "idle" /\ (paying[q] = "charged" => q = p)
        BY <2>2, <2>3, <1>7 DEF SettlementPaid, PayEnds, PayersAreAlone
    <2>8. PayersAreAlone'
        BY <2>7 DEF PayersAreAlone
    <2>9. /\ charges["settlement"] = 1 /\ collected = Total - known[p].grant
          /\ paidAmount' = Total - known[p].grant /\ requestIs' = "issued"
          /\ issuedVouchers' = 1
        BY <2>3, <2>4, <2>5, <2>7, <1>7 DEF SettlementPaid, BeforeSettlement
    <2>10. Total - (Total - known[p].grant) = known[p].grant
        BY <2>3
    <2>11. AfterSettlement'
        BY <2>3, <2>4, <2>6, <2>7, <2>9, <2>10, <1>7
           DEF SettlementPaid, BeforeSettlement, AfterSettlement
    <2> QED BY <2>8, <2>11
<1>8. ASSUME NEW p \in Payers, PayDies(p) PROVE Phases'
    BY <1>8 DEF PayDies
<1>9. CASE UNCHANGED businessVars
    <2>1. Phases
        BY <1>9, <1>a DEF businessVars
    <2>2. PayersAreAlone'
        BY <2>1, <1>9 DEF businessVars, PayersAreAlone
    <2> QED BY <2>1, <2>2, <1>9 DEF businessVars, BeforeDeposit, BeforeSettlement, AfterSettlement
<1> QED BY <1>1, <1>2, <1>3, <1>4, <1>5, <1>6, <1>7, <1>8, <1>9 DEF BusinessNext

LEMMA BusinessInvariantPreserved ==
    BusinessInvariant /\ [BusinessNext]_businessVars => BusinessInvariant'
BY BusinessTypePreserved, BusinessPhasesPreserved DEF BusinessInvariant

(***************************************************************************)
(* The request, its payers and its movers keep their types.                *)
(***************************************************************************)
THEOREM BusinessTypeCorrect == BusinessSpec => []BusinessTypeOK
<1>1. BusinessInvariant => BusinessTypeOK
    BY DEF BusinessInvariant
<1> QED BY <1>1, BusinessInvariantInit, BusinessInvariantPreserved, PTL DEF BusinessSpec

(***************************************************************************)
(* BusinessDomainService, for any number of payers, movers and grants:     *)
(* deposit and settlement are charged, places counted and a voucher        *)
(* written once each, unless payments or reviews overlapped or one died    *)
(* after its charge.                                                       *)
(***************************************************************************)
THEOREM GroupsAreChargedOnce == BusinessSpec => []ChargedOncePerKind
<1>1. BusinessInvariant => ChargedOncePerKind
    <2> SUFFICES ASSUME BusinessInvariant, ~contested PROVE ChargedOncePerKind
        BY DEF ChargedOncePerKind
    <2>1. BusinessTypeOK /\ (BeforeDeposit \/ BeforeSettlement \/ AfterSettlement)
        BY DEF BusinessInvariant, InOnePhase
    <2>2. CASE BeforeDeposit
        BY <2>1, <2>2 DEF ChargedOncePerKind, BeforeDeposit, BusinessTypeOK, Kinds
    <2>3. CASE BeforeSettlement
        BY <2>1, <2>3 DEF ChargedOncePerKind, BeforeSettlement, BusinessTypeOK, Kinds
    <2>4. CASE AfterSettlement
        BY <2>1, <2>4 DEF ChargedOncePerKind, AfterSettlement, BusinessTypeOK, Kinds
    <2> QED BY <2>1, <2>2, <2>3, <2>4
<1> QED BY <1>1, BusinessInvariantInit, BusinessInvariantPreserved, PTL DEF BusinessSpec

(***************************************************************************)
(* Automatic purchases. A rule that was not revived has one holder, its    *)
(* payment row names one booking, and while no budget check misses a       *)
(* purchase one evaluation at most is spending.                            *)
(***************************************************************************)
Owning == {"booked", "paying", "debited", "recorded", "bought"}
(* The evaluations that own a claim on the rule.                           *)
Holding(e, r) == upon[e] = r /\ doing[e] \in Owning \cup {"claimed", "failed"}

(* A rule is in order when no write by id put it back into play, and also  *)
(* while no budget check has missed a purchase: then evaluations do not    *)
(* spend at the same time.                                                 *)
Orderly(r) == r \notin revived \/ ~blind

Bought(t) == tripIs[t] = "confirmed" \/ t \in givenBack

(* A booking belongs to the evaluation that made it, for the same rule.    *)
TripsAreOwn ==
    /\ \A e \in Evaluators :
         /\ doing[e] \in Owning => trip[e] # 0
         /\ trip[e] # 0 => tripFor[trip[e]] = upon[e] /\ doing[e] \in Owning \cup {"failed"}
         /\ doing[e] \in Owning \ {"bought"} => tripIs[trip[e]] = "open"
         /\ doing[e] = "bought" => tripIs[trip[e]] = "confirmed"
    /\ \A e, o \in Evaluators : trip[e] # 0 /\ trip[e] = trip[o] => e = o
    /\ \A t \in givenBack : tripIs[t] = "failed"
    /\ \A r \in Rules : standing[r] = "FULFILLED" => \E t \in Trips : tripFor[t] = r

(* One evaluation at most has claimed a rule that was not revived, and     *)
(* none has while it can be claimed or approved.                           *)
OneHolder ==
    \A r \in Rules \ revived :
        /\ standing[r] \in {"ACTIVE", "PENDING_APPROVAL"} => \A e \in Evaluators : ~Holding(e, r)
        /\ \A e, o \in Evaluators : Holding(e, r) /\ Holding(o, r) => e = o

(* The payment row of a rule names the one booking that was bought.        *)
OnePayment ==
    /\ \A r \in Rules : taken[r] \in {0, 1}
    /\ \A e \in Evaluators : doing[e] = "debited" => taken[upon[e]] = 1
    /\ \A r \in Rules : Orderly(r) =>
         /\ boundTo[r] # 0 => taken[r] = 1
         /\ \A t \in Trips : tripFor[t] = r /\ Bought(t) => boundTo[r] = t
         /\ \A e \in Evaluators : upon[e] = r =>
              /\ doing[e] \in {"paying", "debited"} => boundTo[r] = 0
              /\ doing[e] \in {"recorded", "bought"} => boundTo[r] = trip[e]

(* While no check has missed a purchase, one evaluation at most spends,    *)
(* and what it is about to buy fits the budget.                            *)
OneSpender == \A e, o \in Evaluators : Spending(e) /\ Spending(o) => e = o

RoomLeft ==
    /\ Cardinality(Purchases) <= Budget
    /\ \A e \in Evaluators :
         Spending(e) /\ doing[e] \notin {"bought", "failed"} => Cardinality(Purchases) < Budget

WithinBudget == blind \/ (OneSpender /\ RoomLeft)

AutoBuyInvariant ==
    AutoBuyTypeOK /\ TripsAreOwn /\ OneHolder /\ OnePayment /\ WithinBudget

LEMMA AutoBuyInvariantInit == AutoBuyInit => AutoBuyInvariant
<1> SUFFICES ASSUME AutoBuyInit PROVE AutoBuyInvariant
    OBVIOUS
<1>1. AutoBuyTypeOK
    <2>1. 0 \in 0..MaxTroubles /\ Funds \in Nat /\ NoRule \notin Rules
        BY AutoBuyAssumption
    <2>2. /\ standing \in [Rules -> {"ACTIVE", "TRIGGERED", "FULFILLED", "FAILED_FUNDS",
                                     "CANCELLED", "EXPIRED", "PENDING_APPROVAL"}]
          /\ doing \in [Evaluators -> Stages]
          /\ upon \in [Evaluators -> Rules \cup {NoRule}]
          /\ \A e \in Evaluators : doing[e] = "idle" <=> upon[e] = NoRule
        BY DEF AutoBuyInit, Stages
    <2>3. /\ lapsed \subseteq Expiring /\ bypass \subseteq Evaluators
          /\ trip \in [Evaluators -> Trips \cup {0}]
          /\ tripFor \in [Trips -> Rules \cup {NoRule}]
          /\ tripIs \in [Trips -> {"none", "open", "confirmed", "failed"}]
          /\ \A t \in Trips : tripFor[t] = NoRule <=> tripIs[t] = "none"
        BY DEF AutoBuyInit
    <2>4. /\ boundTo \in [Rules -> Trips \cup {0}] /\ taken \in [Rules -> Nat]
          /\ givenBack \subseteq Trips /\ funds \in Nat
          /\ withdrawing \subseteq Unwanted /\ troubles \in 0..MaxTroubles
          /\ revived \subseteq Rules /\ blind \in BOOLEAN
        BY <2>1 DEF AutoBuyInit
    <2> QED BY <2>2, <2>3, <2>4 DEF AutoBuyTypeOK
<1>2. TripsAreOwn
    BY DEF AutoBuyInit, TripsAreOwn, Owning
<1>3. OneHolder
    BY DEF AutoBuyInit, OneHolder, Holding, Owning
<1>4. OnePayment
    BY DEF AutoBuyInit, OnePayment, Bought
<1>5. WithinBudget
    <2>1. Purchases = {}
        BY DEF AutoBuyInit, Purchases
    <2>2. Cardinality(Purchases) <= Budget
        BY <2>1, FS_EmptySet, AutoBuyAssumption
    <2>3. \A e \in Evaluators : ~Spending(e)
        BY DEF AutoBuyInit, Spending
    <2> QED BY <2>2, <2>3 DEF WithinBudget, OneSpender, RoomLeft
<1> QED BY <1>1, <1>2, <1>3, <1>4, <1>5 DEF AutoBuyInvariant

(* Bookings are numbered from 1.                                           *)
LEMMA TripsArePositive == 0 \notin Trips /\ NoRule \notin Rules
BY AutoBuyAssumption DEF Trips

(* The types, action by action.                                            *)
LEMMA AutoBuyTypePreserved == AutoBuyInvariant /\ [AutoBuyNext]_autoBuyVars => AutoBuyTypeOK'
<1> SUFFICES ASSUME AutoBuyInvariant, [AutoBuyNext]_autoBuyVars PROVE AutoBuyTypeOK'
    OBVIOUS
<1> USE AutoBuyAssumption, TripsArePositive DEF AutoBuyInvariant, AutoBuyTypeOK, TripsAreOwn,
       Owning, Stages, Pass, Leave, Stay, WriteStatus, PaymentFails, Trouble, evaluator, purchase,
       money
<1>1. ASSUME NEW e \in Evaluators, NEW r \in Rules, ApproveRead(e, r) PROVE AutoBuyTypeOK'
    BY <1>1 DEF ApproveRead
<1>2. ASSUME NEW e \in Evaluators, ApproveWrite(e) PROVE AutoBuyTypeOK'
    BY <1>2 DEF ApproveWrite
<1>3. ASSUME NEW e \in Evaluators, NEW r \in Rules, Read(e, r) PROVE AutoBuyTypeOK'
    BY <1>3 DEF Read
<1>4. ASSUME NEW e \in Evaluators, ReadApproved(e) PROVE AutoBuyTypeOK'
    BY <1>4 DEF ReadApproved
<1>5. ASSUME NEW e \in Evaluators, Expire(e) PROVE AutoBuyTypeOK'
    BY <1>5 DEF Expire
<1>6. ASSUME NEW e \in Evaluators, Unmatched(e) PROVE AutoBuyTypeOK'
    BY <1>6 DEF Unmatched
<1>7. ASSUME NEW e \in Evaluators, Weigh(e) PROVE AutoBuyTypeOK'
    <2>1. blind' \in BOOLEAN
        BY <1>7 DEF Weigh
    <2>2. \E to \in {"over", "high", "affordable"} : doing' = [doing EXCEPT ![e] = to]
        BY <1>7 DEF Weigh
    <2>3. doing[e] = "read" /\ UNCHANGED <<standing, lapsed, upon, bypass, trip, tripFor, tripIs,
                                         boundTo, taken, givenBack, funds, withdrawing, troubles,
                                         revived>>
        BY <1>7 DEF Weigh
    <2> QED BY <2>1, <2>2, <2>3
<1>8. ASSUME NEW e \in Evaluators, LeaveActive(e) PROVE AutoBuyTypeOK'
    BY <1>8 DEF LeaveActive
<1>9. ASSUME NEW e \in Evaluators, AskForApproval(e) PROVE AutoBuyTypeOK'
    BY <1>9 DEF AskForApproval
<1>10. ASSUME NEW e \in Evaluators, Claim(e) PROVE AutoBuyTypeOK'
    BY <1>10 DEF Claim
<1>11. ASSUME NEW e \in Evaluators, Book(e) PROVE AutoBuyTypeOK'
    BY <1>11 DEF Book
<1>12. ASSUME NEW e \in Evaluators, LacksFunds(e) PROVE AutoBuyTypeOK'
    BY <1>12 DEF LacksFunds
<1>13. ASSUME NEW e \in Evaluators, LookForPayment(e) PROVE AutoBuyTypeOK'
    BY <1>13 DEF LookForPayment
<1>14. ASSUME NEW e \in Evaluators, DebitWallet(e) PROVE AutoBuyTypeOK'
    BY <1>14 DEF DebitWallet
<1>15. ASSUME NEW e \in Evaluators, UpsertPayment(e) PROVE AutoBuyTypeOK'
    BY <1>15 DEF UpsertPayment
<1>16. ASSUME NEW e \in Evaluators, ConfirmTrip(e) PROVE AutoBuyTypeOK'
    BY <1>16 DEF ConfirmTrip
<1>17. ASSUME NEW e \in Evaluators, Fulfil(e) PROVE AutoBuyTypeOK'
    BY <1>17 DEF Fulfil
<1>18. ASSUME NEW e \in Evaluators, PaymentThrows(e) PROVE AutoBuyTypeOK'
    BY <1>18 DEF PaymentThrows
<1>19. ASSUME NEW e \in Evaluators, Compensate(e) PROVE AutoBuyTypeOK'
    BY <1>19 DEF Compensate
<1>20. ASSUME NEW e \in Evaluators, SagaThrows(e) PROVE AutoBuyTypeOK'
    BY <1>20 DEF SagaThrows
<1>21. ASSUME NEW e \in Evaluators, Catch(e) PROVE AutoBuyTypeOK'
    BY <1>21 DEF Catch
<1>22. ASSUME NEW e \in Evaluators, Die(e) PROVE AutoBuyTypeOK'
    BY <1>22 DEF Die
<1>23. ASSUME NEW r \in Rules, WithdrawRead(r) PROVE AutoBuyTypeOK'
    BY <1>23 DEF WithdrawRead
<1>24. ASSUME NEW r \in Rules, WithdrawWrite(r) PROVE AutoBuyTypeOK'
    BY <1>24 DEF WithdrawWrite
<1>25. ASSUME NEW r \in Rules, Lapse(r) PROVE AutoBuyTypeOK'
    BY <1>25 DEF Lapse
<1>26. CASE UNCHANGED autoBuyVars
    BY <1>26 DEF autoBuyVars
<1> QED
    BY <1>1, <1>2, <1>3, <1>4, <1>5, <1>6, <1>7, <1>8, <1>9, <1>10, <1>11, <1>12, <1>13, <1>14,
       <1>15, <1>16, <1>17, <1>18, <1>19, <1>20, <1>21, <1>22, <1>23, <1>24, <1>25, <1>26
       DEF AutoBuyNext, Evaluate

(* Bookings stay apart, action by action.                                  *)
LEMMA TripsStayOwn == AutoBuyInvariant /\ [AutoBuyNext]_autoBuyVars => TripsAreOwn'
<1> SUFFICES ASSUME AutoBuyInvariant, [AutoBuyNext]_autoBuyVars PROVE TripsAreOwn'
    OBVIOUS
<1>0. AutoBuyTypeOK /\ AutoBuyTypeOK'
    BY AutoBuyTypePreserved DEF AutoBuyInvariant
<1> USE AutoBuyAssumption, TripsArePositive, <1>0 DEF AutoBuyInvariant, AutoBuyTypeOK, TripsAreOwn,
       Owning, Stages, Pass, Leave, Stay, WriteStatus, PaymentFails, Trouble, evaluator, purchase,
       money
<1>1. ASSUME NEW e \in Evaluators, NEW r \in Rules, ApproveRead(e, r) PROVE TripsAreOwn'
    BY <1>1 DEF ApproveRead
<1>2. ASSUME NEW e \in Evaluators, ApproveWrite(e) PROVE TripsAreOwn'
    BY <1>2 DEF ApproveWrite
<1>3. ASSUME NEW e \in Evaluators, NEW r \in Rules, Read(e, r) PROVE TripsAreOwn'
    BY <1>3 DEF Read
<1>4. ASSUME NEW e \in Evaluators, ReadApproved(e) PROVE TripsAreOwn'
    BY <1>4 DEF ReadApproved
<1>5. ASSUME NEW e \in Evaluators, Expire(e) PROVE TripsAreOwn'
    BY <1>5 DEF Expire
<1>6. ASSUME NEW e \in Evaluators, Unmatched(e) PROVE TripsAreOwn'
    BY <1>6 DEF Unmatched
<1>7. ASSUME NEW e \in Evaluators, Weigh(e) PROVE TripsAreOwn'
    BY <1>7 DEF Weigh
<1>8. ASSUME NEW e \in Evaluators, LeaveActive(e) PROVE TripsAreOwn'
    BY <1>8 DEF LeaveActive
<1>9. ASSUME NEW e \in Evaluators, AskForApproval(e) PROVE TripsAreOwn'
    BY <1>9 DEF AskForApproval
<1>10. ASSUME NEW e \in Evaluators, Claim(e) PROVE TripsAreOwn'
    BY <1>10 DEF Claim
<1>11. ASSUME NEW e \in Evaluators, Book(e) PROVE TripsAreOwn'
    BY <1>11 DEF Book
<1>12. ASSUME NEW e \in Evaluators, LacksFunds(e) PROVE TripsAreOwn'
    BY <1>12 DEF LacksFunds
<1>13. ASSUME NEW e \in Evaluators, LookForPayment(e) PROVE TripsAreOwn'
    BY <1>13 DEF LookForPayment
<1>14. ASSUME NEW e \in Evaluators, DebitWallet(e) PROVE TripsAreOwn'
    BY <1>14 DEF DebitWallet
<1>15. ASSUME NEW e \in Evaluators, UpsertPayment(e) PROVE TripsAreOwn'
    BY <1>15 DEF UpsertPayment
<1>16. ASSUME NEW e \in Evaluators, ConfirmTrip(e) PROVE TripsAreOwn'
    BY <1>16 DEF ConfirmTrip
<1>17. ASSUME NEW e \in Evaluators, Fulfil(e) PROVE TripsAreOwn'
    BY <1>17 DEF Fulfil
<1>18. ASSUME NEW e \in Evaluators, PaymentThrows(e) PROVE TripsAreOwn'
    BY <1>18 DEF PaymentThrows
<1>19. ASSUME NEW e \in Evaluators, Compensate(e) PROVE TripsAreOwn'
    BY <1>19 DEF Compensate
<1>20. ASSUME NEW e \in Evaluators, SagaThrows(e) PROVE TripsAreOwn'
    BY <1>20 DEF SagaThrows
<1>21. ASSUME NEW e \in Evaluators, Catch(e) PROVE TripsAreOwn'
    BY <1>21 DEF Catch
<1>22. ASSUME NEW e \in Evaluators, Die(e) PROVE TripsAreOwn'
    BY <1>22 DEF Die
<1>23. ASSUME NEW r \in Rules, WithdrawRead(r) PROVE TripsAreOwn'
    BY <1>23 DEF WithdrawRead
<1>24. ASSUME NEW r \in Rules, WithdrawWrite(r) PROVE TripsAreOwn'
    BY <1>24 DEF WithdrawWrite
<1>25. ASSUME NEW r \in Rules, Lapse(r) PROVE TripsAreOwn'
    BY <1>25 DEF Lapse
<1>26. CASE UNCHANGED autoBuyVars
    BY <1>26 DEF autoBuyVars
<1> QED
    BY <1>1, <1>2, <1>3, <1>4, <1>5, <1>6, <1>7, <1>8, <1>9, <1>10, <1>11, <1>12, <1>13, <1>14,
       <1>15, <1>16, <1>17, <1>18, <1>19, <1>20, <1>21, <1>22, <1>23, <1>24, <1>25, <1>26
       DEF AutoBuyNext, Evaluate

(* A rule that was not revived keeps its one holder.                       *)
LEMMA HoldersStayAlone == AutoBuyInvariant /\ [AutoBuyNext]_autoBuyVars => OneHolder'
<1> SUFFICES ASSUME AutoBuyInvariant, [AutoBuyNext]_autoBuyVars PROVE OneHolder'
    OBVIOUS
<1>0. AutoBuyTypeOK /\ AutoBuyTypeOK'
    BY AutoBuyTypePreserved DEF AutoBuyInvariant
<1> USE AutoBuyAssumption, TripsArePositive, <1>0 DEF AutoBuyInvariant, AutoBuyTypeOK, OneHolder,
       Holding, Owning, Stages, Pass, Leave, Stay, WriteStatus, PaymentFails, Trouble, evaluator,
       purchase, money
<1>1. ASSUME NEW e \in Evaluators, NEW r \in Rules, ApproveRead(e, r) PROVE OneHolder'
    BY <1>1 DEF ApproveRead
<1>2. ASSUME NEW e \in Evaluators, ApproveWrite(e) PROVE OneHolder'
    BY <1>2 DEF ApproveWrite
<1>3. ASSUME NEW e \in Evaluators, NEW r \in Rules, Read(e, r) PROVE OneHolder'
    BY <1>3 DEF Read
<1>4. ASSUME NEW e \in Evaluators, ReadApproved(e) PROVE OneHolder'
    BY <1>4 DEF ReadApproved
<1>5. ASSUME NEW e \in Evaluators, Expire(e) PROVE OneHolder'
    BY <1>5 DEF Expire
<1>6. ASSUME NEW e \in Evaluators, Unmatched(e) PROVE OneHolder'
    BY <1>6 DEF Unmatched
<1>7. ASSUME NEW e \in Evaluators, Weigh(e) PROVE OneHolder'
    BY <1>7 DEF Weigh
<1>8. ASSUME NEW e \in Evaluators, LeaveActive(e) PROVE OneHolder'
    BY <1>8 DEF LeaveActive
<1>9. ASSUME NEW e \in Evaluators, AskForApproval(e) PROVE OneHolder'
    BY <1>9 DEF AskForApproval
<1>10. ASSUME NEW e \in Evaluators, Claim(e) PROVE OneHolder'
    <2>1. CASE Claimable(upon[e]) /\ doing' = [doing EXCEPT ![e] = "claimed"]
        <3>1. upon[e] \in Rules /\ standing[upon[e]] = "ACTIVE" /\ UNCHANGED <<upon, revived>>
            BY <1>10, <2>1 DEF Claim, Claimable
        <3>2. standing' = [standing EXCEPT ![upon[e]] = "TRIGGERED"]
            BY <1>10, <2>1 DEF Claim
        <3> QED BY <2>1, <3>1, <3>2
    <2>2. CASE doing' = [doing EXCEPT ![e] = "idle"] /\ UNCHANGED <<standing, revived>>
        BY <1>10, <2>2 DEF Claim
    <2> QED BY <1>10, <2>1, <2>2 DEF Claim
<1>11. ASSUME NEW e \in Evaluators, Book(e) PROVE OneHolder'
    BY <1>11 DEF Book
<1>12. ASSUME NEW e \in Evaluators, LacksFunds(e) PROVE OneHolder'
    BY <1>12 DEF LacksFunds
<1>13. ASSUME NEW e \in Evaluators, LookForPayment(e) PROVE OneHolder'
    BY <1>13 DEF LookForPayment
<1>14. ASSUME NEW e \in Evaluators, DebitWallet(e) PROVE OneHolder'
    BY <1>14 DEF DebitWallet
<1>15. ASSUME NEW e \in Evaluators, UpsertPayment(e) PROVE OneHolder'
    BY <1>15 DEF UpsertPayment
<1>16. ASSUME NEW e \in Evaluators, ConfirmTrip(e) PROVE OneHolder'
    BY <1>16 DEF ConfirmTrip
<1>17. ASSUME NEW e \in Evaluators, Fulfil(e) PROVE OneHolder'
    BY <1>17 DEF Fulfil
<1>18. ASSUME NEW e \in Evaluators, PaymentThrows(e) PROVE OneHolder'
    BY <1>18 DEF PaymentThrows
<1>19. ASSUME NEW e \in Evaluators, Compensate(e) PROVE OneHolder'
    BY <1>19 DEF Compensate
<1>20. ASSUME NEW e \in Evaluators, SagaThrows(e) PROVE OneHolder'
    BY <1>20 DEF SagaThrows
<1>21. ASSUME NEW e \in Evaluators, Catch(e) PROVE OneHolder'
    BY <1>21 DEF Catch
<1>22. ASSUME NEW e \in Evaluators, Die(e) PROVE OneHolder'
    BY <1>22 DEF Die
<1>23. ASSUME NEW r \in Rules, WithdrawRead(r) PROVE OneHolder'
    BY <1>23 DEF WithdrawRead
<1>24. ASSUME NEW r \in Rules, WithdrawWrite(r) PROVE OneHolder'
    BY <1>24 DEF WithdrawWrite
<1>25. ASSUME NEW r \in Rules, Lapse(r) PROVE OneHolder'
    BY <1>25 DEF Lapse
<1>26. CASE UNCHANGED autoBuyVars
    BY <1>26 DEF autoBuyVars
<1> QED
    BY <1>1, <1>2, <1>3, <1>4, <1>5, <1>6, <1>7, <1>8, <1>9, <1>10, <1>11, <1>12, <1>13, <1>14,
       <1>15, <1>16, <1>17, <1>18, <1>19, <1>20, <1>21, <1>22, <1>23, <1>24, <1>25, <1>26
       DEF AutoBuyNext, Evaluate

(* A rule in order is held by one evaluation.                              *)
LEMMA HoldersOfAnOrderlyRule ==
    ASSUME AutoBuyInvariant, NEW r \in Rules, Orderly(r),
           NEW e \in Evaluators, NEW o \in Evaluators, Holding(e, r), Holding(o, r)
    PROVE  e = o
<1>1. Spending(e) /\ Spending(o)
    BY DEF AutoBuyInvariant, AutoBuyTypeOK, Holding, Owning, Spending, Stages
<1>2. CASE r \notin revived
    BY <1>2 DEF AutoBuyInvariant, OneHolder
<1>3. CASE ~blind
    BY <1>1, <1>3 DEF AutoBuyInvariant, WithinBudget, OneSpender
<1> QED BY <1>2, <1>3 DEF Orderly

(* The stages in which an evaluation counts as spending, and the           *)
(* evaluations that have entered one.                                      *)
SpendingStages == Stages \ {"idle", "approving", "approved", "read", "over", "high"}

Fewer(before, after) ==
    \A o \in Evaluators :
        /\ after[o] \in SpendingStages => before[o] \in SpendingStages
        /\ after[o] \in SpendingStages \ {"bought", "failed"} =>
             before[o] \in SpendingStages \ {"bought", "failed"}

(* What is out of order stays so.                                          *)
LEMMA BlindBefore ==
    ASSUME [AutoBuyNext]_autoBuyVars, ~blind' PROVE ~blind
BY Zenon DEF AutoBuyNext, Evaluate, autoBuyVars, ApproveRead, ApproveWrite, Read, ReadApproved,
       Expire, Unmatched, Weigh, LeaveActive, AskForApproval, Claim, Book, LacksFunds,
       LookForPayment, DebitWallet, UpsertPayment, ConfirmTrip, Fulfil, PaymentThrows, Compensate,
       SagaThrows, Catch, Die, WithdrawRead, WithdrawWrite, Lapse, WriteStatus, Leave, Stay

LEMMA OrderlyBefore ==
    ASSUME AutoBuyInvariant, [AutoBuyNext]_autoBuyVars, NEW r \in Rules, Orderly(r)'
    PROVE  Orderly(r)
<1>1. revived \subseteq revived'
    BY DEF AutoBuyInvariant, AutoBuyTypeOK, AutoBuyNext, Evaluate, autoBuyVars, ApproveRead,
           ApproveWrite, Read, ReadApproved, Expire, Unmatched, Weigh, LeaveActive,
           AskForApproval, Claim, Book, LacksFunds, LookForPayment, DebitWallet, UpsertPayment,
           ConfirmTrip, Fulfil, PaymentThrows, Compensate, SagaThrows, Catch, Die, WithdrawRead,
           WithdrawWrite, Lapse, WriteStatus, Leave, Stay
<1>2. ~blind' => ~blind
    BY BlindBefore
<1> QED BY <1>1, <1>2 DEF Orderly

(* A rule in order keeps to its one payment.                               *)
LEMMA PaymentStaysOne == AutoBuyInvariant /\ [AutoBuyNext]_autoBuyVars => OnePayment'
<1> SUFFICES ASSUME AutoBuyInvariant, [AutoBuyNext]_autoBuyVars PROVE OnePayment'
    OBVIOUS
<1>0. AutoBuyTypeOK /\ AutoBuyTypeOK'
    BY AutoBuyTypePreserved DEF AutoBuyInvariant
<1>a. \A r \in Rules : Orderly(r)' => Orderly(r)
    BY OrderlyBefore
<1>b. \A r \in Rules : Orderly(r) =>
        \A e, o \in Evaluators : Holding(e, r) /\ Holding(o, r) => e = o
    BY HoldersOfAnOrderlyRule
<1> USE AutoBuyAssumption, TripsArePositive, <1>0, <1>a, <1>b DEF AutoBuyInvariant, AutoBuyTypeOK,
       TripsAreOwn, OnePayment, Bought, Owning, Stages, Pass, Leave, Stay, WriteStatus,
       PaymentFails, Trouble, evaluator, purchase, money
<1>1. ASSUME NEW e \in Evaluators, NEW r \in Rules, ApproveRead(e, r) PROVE OnePayment'
    BY <1>1 DEF ApproveRead
<1>2. ASSUME NEW e \in Evaluators, ApproveWrite(e) PROVE OnePayment'
    BY <1>2 DEF ApproveWrite
<1>3. ASSUME NEW e \in Evaluators, NEW r \in Rules, Read(e, r) PROVE OnePayment'
    BY <1>3 DEF Read
<1>4. ASSUME NEW e \in Evaluators, ReadApproved(e) PROVE OnePayment'
    BY <1>4 DEF ReadApproved
<1>5. ASSUME NEW e \in Evaluators, Expire(e) PROVE OnePayment'
    BY <1>5 DEF Expire
<1>6. ASSUME NEW e \in Evaluators, Unmatched(e) PROVE OnePayment'
    BY <1>6 DEF Unmatched
<1>7. ASSUME NEW e \in Evaluators, Weigh(e) PROVE OnePayment'
    BY <1>7 DEF Weigh
<1>8. ASSUME NEW e \in Evaluators, LeaveActive(e) PROVE OnePayment'
    BY <1>8 DEF LeaveActive
<1>9. ASSUME NEW e \in Evaluators, AskForApproval(e) PROVE OnePayment'
    BY <1>9 DEF AskForApproval
<1>10. ASSUME NEW e \in Evaluators, Claim(e) PROVE OnePayment'
    BY <1>10 DEF Claim
<1>11. ASSUME NEW e \in Evaluators, Book(e) PROVE OnePayment'
    BY <1>11 DEF Book
<1>12. ASSUME NEW e \in Evaluators, LacksFunds(e) PROVE OnePayment'
    BY <1>12 DEF LacksFunds
<1>13. ASSUME NEW e \in Evaluators, LookForPayment(e) PROVE OnePayment'
    BY <1>13 DEF LookForPayment
<1>14. ASSUME NEW e \in Evaluators, DebitWallet(e) PROVE OnePayment'
    BY <1>14 DEF DebitWallet
<1>15. ASSUME NEW e \in Evaluators, UpsertPayment(e) PROVE OnePayment'
    <2>1. /\ upon[e] \in Rules /\ trip[e] \in Trips /\ doing[e] = "debited" /\ taken[upon[e]] = 1
          /\ tripFor[trip[e]] = upon[e]
        BY <1>15 DEF UpsertPayment
    <2>2. Orderly(upon[e]) => \A o \in Evaluators :
            upon[o] = upon[e] /\ doing[o] \in Owning => o = e
        BY <2>1 DEF Holding
    <2>3. \A r \in Rules : Orderly(r) =>
            /\ boundTo'[r] # 0 => taken[r] = 1
            /\ \A t \in Trips : tripFor[t] = r /\ Bought(t) => boundTo'[r] = t
            /\ r = upon[e] => boundTo'[r] = trip[e]
            /\ r # upon[e] => boundTo'[r] = boundTo[r]
        BY <1>15, <2>1 DEF UpsertPayment
    <2>4. /\ doing' = [doing EXCEPT ![e] = "recorded"]
          /\ UNCHANGED <<upon, trip, tripFor, tripIs, givenBack, taken>>
        BY <1>15 DEF UpsertPayment
    <2>5. \A r \in Rules : Orderly(r) => \A o \in Evaluators : upon[o] = r =>
            /\ doing'[o] \in {"paying", "debited"} => boundTo'[r] = 0
            /\ doing'[o] \in {"recorded", "bought"} => boundTo'[r] = trip[o]
        BY <2>1, <2>2, <2>3, <2>4
    <2> QED BY <2>1, <2>3, <2>4, <2>5
<1>16. ASSUME NEW e \in Evaluators, ConfirmTrip(e) PROVE OnePayment'
    BY <1>16 DEF ConfirmTrip
<1>17. ASSUME NEW e \in Evaluators, Fulfil(e) PROVE OnePayment'
    BY <1>17 DEF Fulfil
<1>18. ASSUME NEW e \in Evaluators, PaymentThrows(e) PROVE OnePayment'
    BY <1>18 DEF PaymentThrows
<1>19. ASSUME NEW e \in Evaluators, Compensate(e) PROVE OnePayment'
    BY <1>19 DEF Compensate
<1>20. ASSUME NEW e \in Evaluators, SagaThrows(e) PROVE OnePayment'
    BY <1>20 DEF SagaThrows
<1>21. ASSUME NEW e \in Evaluators, Catch(e) PROVE OnePayment'
    BY <1>21 DEF Catch
<1>22. ASSUME NEW e \in Evaluators, Die(e) PROVE OnePayment'
    BY <1>22 DEF Die
<1>23. ASSUME NEW r \in Rules, WithdrawRead(r) PROVE OnePayment'
    BY <1>23 DEF WithdrawRead
<1>24. ASSUME NEW r \in Rules, WithdrawWrite(r) PROVE OnePayment'
    BY <1>24 DEF WithdrawWrite
<1>25. ASSUME NEW r \in Rules, Lapse(r) PROVE OnePayment'
    BY <1>25 DEF Lapse
<1>26. CASE UNCHANGED autoBuyVars
    BY <1>26 DEF autoBuyVars
<1> QED
    BY <1>1, <1>2, <1>3, <1>4, <1>5, <1>6, <1>7, <1>8, <1>9, <1>10, <1>11, <1>12, <1>13, <1>14,
       <1>15, <1>16, <1>17, <1>18, <1>19, <1>20, <1>21, <1>22, <1>23, <1>24, <1>25, <1>26
       DEF AutoBuyNext, Evaluate

(* Only a look at the budget makes a spender, and only a confirmation a    *)
(* purchase.                                                               *)
LEMMA OthersDoNotSpend ==
    ASSUME AutoBuyInvariant, [AutoBuyNext]_autoBuyVars,
           \A e \in Evaluators : ~Weigh(e) /\ ~ConfirmTrip(e)
    PROVE  Fewer(doing, doing') /\ Purchases' \subseteq Purchases
<1> DEFINE Goal == Fewer(doing, doing') /\ Purchases' \subseteq Purchases
<1>0. AutoBuyTypeOK /\ AutoBuyTypeOK'
    BY AutoBuyTypePreserved DEF AutoBuyInvariant
<1> USE AutoBuyAssumption, TripsArePositive, <1>0 DEF AutoBuyInvariant, AutoBuyTypeOK, TripsAreOwn,
       Purchases, Fewer, SpendingStages, Owning, Stages, Pass, Leave, Stay, WriteStatus,
       PaymentFails, Trouble, evaluator, purchase, money
<1>1. ASSUME NEW e \in Evaluators, NEW r \in Rules, ApproveRead(e, r) PROVE Goal
    BY <1>1 DEF ApproveRead
<1>2. ASSUME NEW e \in Evaluators, ApproveWrite(e) PROVE Goal
    BY <1>2 DEF ApproveWrite
<1>3. ASSUME NEW e \in Evaluators, NEW r \in Rules, Read(e, r) PROVE Goal
    BY <1>3 DEF Read
<1>4. ASSUME NEW e \in Evaluators, ReadApproved(e) PROVE Goal
    BY <1>4 DEF ReadApproved
<1>5. ASSUME NEW e \in Evaluators, Expire(e) PROVE Goal
    BY <1>5 DEF Expire
<1>6. ASSUME NEW e \in Evaluators, Unmatched(e) PROVE Goal
    BY <1>6 DEF Unmatched
<1>7. ASSUME NEW e \in Evaluators, LeaveActive(e) PROVE Goal
    BY <1>7 DEF LeaveActive
<1>8. ASSUME NEW e \in Evaluators, AskForApproval(e) PROVE Goal
    BY <1>8 DEF AskForApproval
<1>9. ASSUME NEW e \in Evaluators, Claim(e) PROVE Goal
    BY <1>9 DEF Claim
<1>10. ASSUME NEW e \in Evaluators, Book(e) PROVE Goal
    BY <1>10 DEF Book
<1>11. ASSUME NEW e \in Evaluators, LacksFunds(e) PROVE Goal
    BY <1>11 DEF LacksFunds
<1>12. ASSUME NEW e \in Evaluators, LookForPayment(e) PROVE Goal
    BY <1>12 DEF LookForPayment
<1>13. ASSUME NEW e \in Evaluators, DebitWallet(e) PROVE Goal
    BY <1>13 DEF DebitWallet
<1>14. ASSUME NEW e \in Evaluators, UpsertPayment(e) PROVE Goal
    BY <1>14 DEF UpsertPayment
<1>15. ASSUME NEW e \in Evaluators, Fulfil(e) PROVE Goal
    BY <1>15 DEF Fulfil
<1>16. ASSUME NEW e \in Evaluators, PaymentThrows(e) PROVE Goal
    BY <1>16 DEF PaymentThrows
<1>17. ASSUME NEW e \in Evaluators, Compensate(e) PROVE Goal
    BY <1>17 DEF Compensate
<1>18. ASSUME NEW e \in Evaluators, SagaThrows(e) PROVE Goal
    BY <1>18 DEF SagaThrows
<1>19. ASSUME NEW e \in Evaluators, Catch(e) PROVE Goal
    BY <1>19 DEF Catch
<1>20. ASSUME NEW e \in Evaluators, Die(e) PROVE Goal
    BY <1>20 DEF Die
<1>21. ASSUME NEW r \in Rules, WithdrawRead(r) PROVE Goal
    BY <1>21 DEF WithdrawRead
<1>22. ASSUME NEW r \in Rules, WithdrawWrite(r) PROVE Goal
    BY <1>22 DEF WithdrawWrite
<1>23. ASSUME NEW r \in Rules, Lapse(r) PROVE Goal
    BY <1>23 DEF Lapse
<1>24. CASE UNCHANGED autoBuyVars
    BY <1>24 DEF autoBuyVars
<1> QED
    BY <1>1, <1>2, <1>3, <1>4, <1>5, <1>6, <1>7, <1>8, <1>9, <1>10, <1>11, <1>12, <1>13, <1>14,
       <1>15, <1>16, <1>17, <1>18, <1>19, <1>20, <1>21, <1>22, <1>23, <1>24
       DEF AutoBuyNext, Evaluate

(* Bookings can be counted.                                                *)
LEMMA TripsAreFinite ==
    ASSUME AutoBuyTypeOK
    PROVE  IsFiniteSet(Trips) /\ IsFiniteSet(Purchases) /\ Cardinality(Purchases) \in Nat
<1>1. IsFiniteSet(Trips)
    BY FS_Interval, AutoBuyAssumption DEF Trips
<1>2. Purchases \subseteq Trips
    BY DEF Purchases
<1> QED BY <1>1, <1>2, FS_Subset, FS_CardinalityType

(* Purchases whose rules are FULFILLED are no more than these rules.       *)
LEMMA PurchasesFit ==
    ASSUME AutoBuyInvariant, ~blind, BudgetFits,
           \A t \in Purchases : standing[tripFor[t]] = "FULFILLED"
    PROVE  Cardinality(Purchases) < Budget
<1> DEFINE Full == {r \in Rules : standing[r] = "FULFILLED"}
           Held == {tripFor[t] : t \in Purchases}
           BoughtFor == [r \in Held |-> boundTo[r]]
           MadeFor == [t \in {u \in Trips : tripFor[u] \in Full} |-> tripFor[t]]
<1>0. AutoBuyTypeOK
    BY DEF AutoBuyInvariant
<1>1. IsFiniteSet(Full)
    <2>1. {u \in Trips : tripFor[u] \in Full} \subseteq Trips
        OBVIOUS
    <2>2. IsFiniteSet({u \in Trips : tripFor[u] \in Full})
        BY <1>0, <2>1, TripsAreFinite, FS_Subset
    <2>3. MadeFor \in Surjection({u \in Trips : tripFor[u] \in Full}, Full)
        BY <1>0 DEF AutoBuyInvariant, TripsAreOwn, Surjection
    <2> QED BY <2>2, <2>3, FS_Surjection
<1>2. Held \subseteq Full
    BY <1>0, TripsArePositive DEF AutoBuyTypeOK, Purchases
<1>3. IsFiniteSet(Held) /\ Cardinality(Held) <= Cardinality(Full)
    BY <1>1, <1>2, FS_Subset
<1>4. \A t \in Purchases : tripFor[t] \in Held /\ boundTo[tripFor[t]] = t
    BY <1>0, <1>2 DEF AutoBuyInvariant, OnePayment, Orderly, Bought, Purchases, AutoBuyTypeOK
<1>5. BoughtFor \in Surjection(Held, Purchases)
    BY <1>4 DEF Surjection
<1>6. Cardinality(Purchases) <= Cardinality(Held)
    BY <1>3, <1>5, FS_Surjection
<1>7. Cardinality(Full) < Budget
    BY DEF BudgetFits
<1>8. Cardinality(Full) \in Nat /\ Cardinality(Held) \in Nat /\ Cardinality(Purchases) \in Nat
    BY <1>0, <1>1, <1>3, TripsAreFinite, FS_CardinalityType
<1> QED BY <1>3, <1>6, <1>7, <1>8, AutoBuyAssumption

(* Purchases stay within the budget while no check misses one.             *)
LEMMA BudgetIsKept == AutoBuyInvariant /\ [AutoBuyNext]_autoBuyVars => WithinBudget'
<1> SUFFICES ASSUME AutoBuyInvariant, [AutoBuyNext]_autoBuyVars, ~blind'
             PROVE  OneSpender' /\ RoomLeft'
    BY Zenon DEF WithinBudget
<1>0. AutoBuyTypeOK /\ AutoBuyTypeOK'
    BY AutoBuyTypePreserved DEF AutoBuyInvariant
<1>1. ~blind /\ OneSpender /\ RoomLeft
    <2>1. ~blind
        BY BlindBefore
    <2> QED BY <2>1 DEF AutoBuyInvariant, WithinBudget
<1>c. /\ IsFiniteSet(Purchases) /\ Cardinality(Purchases) \in Nat
      /\ IsFiniteSet(Purchases') /\ Cardinality(Purchases') \in Nat
    <2>1. IsFiniteSet(Trips) /\ Purchases' \subseteq Trips
        BY <1>0, TripsAreFinite DEF Purchases
    <2> QED BY <1>0, <2>1, TripsAreFinite, FS_Subset, FS_CardinalityType
<1>2. CASE \A e \in Evaluators : ~Weigh(e) /\ ~ConfirmTrip(e)
    <2>1. Fewer(doing, doing') /\ Purchases' \subseteq Purchases
        BY <1>2, OthersDoNotSpend
    <2>2. Cardinality(Purchases') <= Cardinality(Purchases)
        BY <1>c, <2>1, FS_Subset
    <2>3. OneSpender'
        BY <1>1, <2>1 DEF OneSpender, Fewer, Spending, SpendingStages
    <2>4. RoomLeft'
        BY <1>1, <1>c, <2>1, <2>2, AutoBuyAssumption DEF RoomLeft, Fewer, Spending, SpendingStages
    <2> QED BY <2>3, <2>4
<1>3. ASSUME NEW e \in Evaluators, Weigh(e) PROVE OneSpender' /\ RoomLeft'
    <2>1. Purchases' = Purchases /\ doing[e] = "read"
        BY <1>3 DEF Weigh, Pass, purchase, Purchases
    <2>2. CASE doing' = [doing EXCEPT ![e] = "affordable"] /\ BudgetFits
               /\ blind' = (blind \/ (\E o \in Evaluators : Spending(o))
                                  \/ (\E t \in Purchases : standing[tripFor[t]] # "FULFILLED"))
        <3>1. /\ \A o \in Evaluators : ~Spending(o)
              /\ \A t \in Purchases : ~(standing[tripFor[t]] # "FULFILLED")
            BY <2>2, Zenon
        <3>2. Cardinality(Purchases) < Budget
            BY <1>1, <2>2, <3>1, PurchasesFit
        <3>3. \A o \in Evaluators : Spending(o)' => o = e
            BY <1>0, <2>2, <3>1 DEF Spending, AutoBuyTypeOK
        <3> QED BY <1>c, <2>1, <3>2, <3>3, AutoBuyAssumption DEF OneSpender, RoomLeft
    <2>3. CASE \E to \in {"over", "high"} : doing' = [doing EXCEPT ![e] = to]
        <3>1. Fewer(doing, doing')
            BY <1>0, <2>3 DEF Fewer, SpendingStages, AutoBuyTypeOK
        <3> QED
            BY <1>1, <2>1, <3>1
               DEF OneSpender, RoomLeft, Fewer, Spending, SpendingStages, Purchases
    <2> QED BY <1>3, <2>2, <2>3 DEF Weigh, Pass
<1>4. ASSUME NEW e \in Evaluators, ConfirmTrip(e) PROVE OneSpender' /\ RoomLeft'
    <2>1. /\ doing[e] = "recorded" /\ doing' = [doing EXCEPT ![e] = "bought"]
          /\ tripIs' = [tripIs EXCEPT ![trip[e]] = "confirmed"]
        BY <1>4 DEF ConfirmTrip, Pass
    <2>2. Purchases' \subseteq Purchases \cup {trip[e]}
        BY <1>0, <2>1 DEF Purchases, AutoBuyTypeOK
    <2>3. Cardinality(Purchases') <= Cardinality(Purchases) + 1
        <3>1. IsFiniteSet(Purchases \cup {trip[e]})
              /\ Cardinality(Purchases \cup {trip[e]})
                   \in {Cardinality(Purchases), Cardinality(Purchases) + 1}
            BY <1>c, FS_AddElement, Zenon
        <3>2. Cardinality(Purchases') <= Cardinality(Purchases \cup {trip[e]})
            BY <2>2, <3>1, FS_Subset
        <3>3. Cardinality(Purchases \cup {trip[e]}) \in Nat
            BY <3>1, FS_CardinalityType
        <3> QED BY <1>c, <3>1, <3>2, <3>3
    <2>4. Spending(e) /\ Cardinality(Purchases) < Budget
        BY <1>1, <2>1 DEF RoomLeft, Spending, Stages
    <2>5. \A o \in Evaluators : Spending(o)' => o = e
        BY <1>0, <1>1, <2>1, <2>4 DEF OneSpender, Spending, AutoBuyTypeOK
    <2>6. doing'[e] = "bought" /\ Cardinality(Purchases') <= Budget
        BY <1>0, <1>c, <2>1, <2>3, <2>4, AutoBuyAssumption DEF AutoBuyTypeOK
    <2> QED BY <2>5, <2>6 DEF OneSpender, RoomLeft
<1> QED BY <1>2, <1>3, <1>4

LEMMA AutoBuyInvariantPreserved ==
    AutoBuyInvariant /\ [AutoBuyNext]_autoBuyVars => AutoBuyInvariant'
BY AutoBuyTypePreserved, TripsStayOwn, HoldersStayAlone, PaymentStaysOne, BudgetIsKept
   DEF AutoBuyInvariant

(***************************************************************************)
(* Rules, evaluations and bookings keep their types.                       *)
(***************************************************************************)
THEOREM AutoBuyTypeCorrect == AutoBuySpec => []AutoBuyTypeOK
<1>1. AutoBuyInvariant => AutoBuyTypeOK
    BY DEF AutoBuyInvariant
<1> QED BY <1>1, AutoBuyInvariantInit, AutoBuyInvariantPreserved, PTL DEF AutoBuySpec

(***************************************************************************)
(* AutoBuyDomainService, for any number of rules and evaluations, whatever *)
(* is retried, cancelled or stopped: a rule that was not put back into     *)
(* play by a stale write has one confirmed booking at most, over one       *)
(* payment that was not given back.                                        *)
(***************************************************************************)
THEOREM RulesBuyOnce == AutoBuySpec => []OnePurchasePerRule
<1>1. AutoBuyInvariant => OnePurchasePerRule
    <2> SUFFICES ASSUME AutoBuyInvariant, NEW r \in Rules \ revived
                 PROVE  /\ Cardinality(TripsOf(r, "confirmed")) <= 1
                        /\ Cardinality({t \in givenBack : tripFor[t] = r}) <= taken[r]
                        /\ TripsOf(r, "confirmed") # {} =>
                             taken[r] = 1 /\ \A t \in givenBack : tripFor[t] # r
        BY DEF OnePurchasePerRule
    <2> DEFINE Returned == {t \in givenBack : tripFor[t] = r}
    <2>1. /\ AutoBuyTypeOK /\ taken[r] \in {0, 1}
          /\ boundTo[r] # 0 => taken[r] = 1
          /\ \A t \in Trips : tripFor[t] = r /\ Bought(t) => boundTo[r] = t
        BY DEF AutoBuyInvariant, OnePayment, Orderly
    <2>2. TripsOf(r, "confirmed") \subseteq {boundTo[r]} /\ Returned \subseteq {boundTo[r]}
        BY <2>1 DEF TripsOf, Bought, AutoBuyTypeOK
    <2>3. TripsOf(r, "confirmed") # {} \/ Returned # {} => taken[r] = 1
        BY <2>1, <2>2, TripsArePositive DEF TripsOf, AutoBuyTypeOK
    <2>4. TripsOf(r, "confirmed") # {} => \A t \in givenBack : tripFor[t] # r
        BY <2>2 DEF AutoBuyInvariant, TripsAreOwn, TripsOf
    <2>5. Cardinality(TripsOf(r, "confirmed")) <= 1
        BY <2>2, OneAtMost
    <2>6. Cardinality(Returned) <= taken[r]
        BY <2>1, <2>2, <2>3, OneAtMost
    <2> QED BY <2>3, <2>4, <2>5, <2>6
<1> QED BY <1>1, AutoBuyInvariantInit, AutoBuyInvariantPreserved, PTL DEF AutoBuySpec

(***************************************************************************)
(* For every budget: more is bought than it allows only after a budget     *)
(* check has missed a purchase.                                            *)
(***************************************************************************)
THEOREM BudgetHolds == AutoBuySpec => []OverrunsAreExplained
<1>1. AutoBuyInvariant => OverrunsAreExplained
    BY TripsAreFinite, AutoBuyAssumption
       DEF AutoBuyInvariant, OverrunsAreExplained, WithinBudget, RoomLeft
<1> QED BY <1>1, AutoBuyInvariantInit, AutoBuyInvariantPreserved, PTL DEF AutoBuySpec
=============================================================================
