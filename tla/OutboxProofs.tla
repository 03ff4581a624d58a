------------------------------ MODULE OutboxProofs ------------------------------
(***************************************************************************)
(* Proofs about Outbox, for every set of events, every number of cycles    *)
(* and requeuers that overtake each other, and every bound.                *)
(*                                                                         *)
(* Three arguments, each with an invariant of its own. An event is marked  *)
(* by a cycle that has delivered it. A count that a cycle remembers is no  *)
(* more than the failures there were. And an event that nothing has        *)
(* disturbed is in one hand at most, which keeps it PROCESSING.            *)
(***************************************************************************)
EXTENDS Outbox, TLAPS

LEMMA OutboxConstants ==
    /\ Unknown \subseteq Events /\ Unchecked \subseteq Events
    /\ \A e \in Unchecked : e \notin Unknown
    /\ Batch \in Nat /\ MaxAttempts \in Nat /\ MaxAttempts > 0 /\ RequeueCap \in Nat
    /\ Stale \in Nat /\ Stale > 0 /\ MaxFaults \in Nat
BY OutboxAssumption

(***************************************************************************)
(* What the helpers return.                                                *)
(***************************************************************************)
LEMMA RowOfEvent ==
    ASSUME OutboxTypeOK, NEW e \in Events
    PROVE  RowOf(e) \in Row /\ RowOf(e).event = e /\ RowOf(e).retry = retry[e]
BY DEF OutboxTypeOK, RowOf, Row

LEMMA RowsOfEvents ==
    ASSUME OutboxTypeOK, NEW B \in SUBSET Events
    PROVE  /\ {RowOf(e) : e \in B} \in SUBSET Row
           /\ \A r \in {RowOf(e) : e \in B} : r.event \in B /\ r.retry = retry[r.event]
           /\ \A r, s \in {RowOf(e) : e \in B} : r.event = s.event => r = s
BY RowOfEvent

LEMMA StatusSet ==
    ASSUME OutboxTypeOK, NEW S, NEW s \in Statuses
    PROVE  /\ SetStatus(S, s) \in [Events -> Statuses]
           /\ \A e \in Events : SetStatus(S, s)[e] = IF e \in S THEN s ELSE status[e]
BY DEF OutboxTypeOK, SetStatus

LEMMA LocksTyped ==
    ASSUME OutboxTypeOK, NEW S PROVE Unlock(S) \in [Events -> 0..Stale]
BY OutboxConstants DEF OutboxTypeOK, Unlock

LEMMA BatchesAreSubsets == \A S : \A B \in Batches(S) : B \in SUBSET S
BY DEF Batches

LEMMA LeastIsBound ==
    ASSUME NEW m \in Nat, NEW n \in Nat
    PROVE  /\ Least(m + 1, n) \in 0..n /\ Least(m + 1, n) <= n
           /\ m <= n => m <= Least(m + 1, n)
           /\ Least(m + 1, n) = n \/ Least(m + 1, n) = m + 1
           /\ m + 1 >= n => Least(m + 1, n) = n
BY DEF Least

(* A delivery is counted, up to the bound of the counter.                  *)
LEMMA DeliveryCounts ==
    ASSUME OutboxTypeOK, NEW f \in Events,
           delivered' = [delivered EXCEPT ![f] = Least(@ + 1, Many)]
    PROVE  /\ delivered' \in [Events -> 0..Many]
           /\ delivered'[f] \in Nat /\ delivered'[f] > 0
           /\ delivered'[f] <= delivered[f] + 1
           /\ \A e \in Events : delivered[e] > 0 => delivered'[e] > 0
<1>1. Many \in Nat /\ Many > 0
    BY OutboxConstants DEF Many
<1>2. delivered \in [Events -> 0..Many] /\ delivered[f] \in Nat
    BY <1>1 DEF OutboxTypeOK
<1>3. /\ Least(delivered[f] + 1, Many) \in 0..Many
      /\ Least(delivered[f] + 1, Many) > 0
      /\ Least(delivered[f] + 1, Many) <= delivered[f] + 1
    BY <1>1, <1>2 DEF Least
<1>4. delivered'[f] = Least(delivered[f] + 1, Many)
      /\ \A e \in Events : e # f => delivered'[e] = delivered[e]
    BY <1>2
<1> QED BY <1>1, <1>2, <1>3, <1>4

LEMMA StatusNames ==
    /\ "PENDING" \in Statuses /\ "PROCESSING" \in Statuses /\ "PROCESSED" \in Statuses
    /\ "DEAD_LETTER" \in Statuses /\ "NONE" \in Statuses
BY DEF Statuses

(* The sets the WHERE clauses select are sets of events.                   *)
LEMMA SelectionsAreEvents ==
    Stranded \subseteq Events /\ Due \subseteq Events /\ Requeueable \subseteq Events
BY DEF Stranded, Due, Requeueable

(***************************************************************************)
(* Types.                                                                  *)
(***************************************************************************)
LEMMA OutboxTypeInit == OutboxInit => OutboxTypeOK
BY OutboxConstants, StatusNames DEF OutboxInit, OutboxTypeOK, Many

LEMMA OutboxTypePreserved == OutboxTypeOK /\ [OutboxNext]_outboxVars => OutboxTypeOK'
<1> SUFFICES ASSUME OutboxTypeOK, [OutboxNext]_outboxVars PROVE OutboxTypeOK'
    OBVIOUS
<1> USE OutboxConstants, StatusNames DEF OutboxTypeOK, rows, cycles, history
<1>1. ASSUME NEW e \in Events, Emit(e) PROVE OutboxTypeOK'
    BY <1>1 DEF Emit
<1>2. ASSUME NEW c \in Workers, Recover(c) PROVE OutboxTypeOK'
    BY <1>2, StatusSet, LocksTyped, SelectionsAreEvents DEF Recover
<1>3. ASSUME NEW c \in Workers, Claim(c) PROVE OutboxTypeOK'
    <2>1. PICK B \in Batches(Due) :
            /\ status' = SetStatus(B, "PROCESSING") /\ lockAge' = Unlock(B) /\ aged' = aged \ B
            /\ claimed' = [claimed EXCEPT ![c] = {RowOf(e) : e \in B}]
            /\ stage' = [stage EXCEPT ![c] = IF B = {} THEN "idle" ELSE "working"]
        BY <1>3 DEF Claim
    <2>2. B \in SUBSET Events
        BY BatchesAreSubsets, SelectionsAreEvents
    <2>3. {RowOf(e) : e \in B} \in SUBSET Row
        BY <2>2, RowsOfEvents
    <2>4. claimed' \in [Workers -> SUBSET Row]
        BY <2>1, <2>3
    <2>5. status' \in [Events -> Statuses] /\ lockAge' \in [Events -> 0..Stale]
        BY <2>1, StatusSet, LocksTyped
    <2>6. aged' \subseteq Events /\ stage' \in [Workers -> {"idle", "claiming", "taking",
                                       "working", "delivered", "failed"}]
        BY <2>1
    <2> QED BY <1>3, <2>4, <2>5, <2>6 DEF Claim
<1>4. ASSUME NEW c \in Workers, FallbackRead(c) PROVE OutboxTypeOK'
    <2>1. PICK B \in Batches(Due) : picked' = [picked EXCEPT ![c] = {RowOf(e) : e \in B}]
        BY <1>4 DEF FallbackRead
    <2>2. {RowOf(e) : e \in B} \in SUBSET Row
        BY BatchesAreSubsets, SelectionsAreEvents, RowsOfEvents
    <2>3. picked' \in [Workers -> SUBSET Row]
        BY <2>1, <2>2
    <2> QED BY <1>4, <2>3 DEF FallbackRead
<1>5. ASSUME NEW c \in Workers, FallbackTake(c) PROVE OutboxTypeOK'
    BY <1>5, StatusSet, LocksTyped DEF FallbackTake
<1>6. ASSUME NEW c \in Workers, FallbackDone(c) PROVE OutboxTypeOK'
    BY <1>6 DEF FallbackDone
<1>7. ASSUME NEW c \in Workers, Take(c) PROVE OutboxTypeOK'
    BY <1>7 DEF Take
<1>8. ASSUME NEW c \in Workers, Deliver(c) PROVE OutboxTypeOK'
    <2>1. PICK r \in current[c] : delivered' = [delivered EXCEPT ![r.event] = Least(@ + 1, Many)]
        BY <1>8 DEF Deliver
    <2>2. r.event \in Events
        BY DEF Row
    <2>3. delivered' \in [Events -> 0..Many]
        BY <2>1, <2>2, DeliveryCounts
    <2> QED BY <1>8, <2>3 DEF Deliver
<1>8a. ASSUME NEW c \in Workers, AnswerLost(c) PROVE OutboxTypeOK'
    <2>1. PICK r \in current[c] :
            /\ delivered' = [delivered EXCEPT ![r.event] = Least(@ + 1, Many)]
            /\ unanswered' = [unanswered EXCEPT ![r.event] = @ + 1]
        BY <1>8a DEF AnswerLost
    <2>2. r.event \in Events
        BY DEF Row
    <2>3. delivered' \in [Events -> 0..Many]
        BY <2>1, <2>2, DeliveryCounts
    <2>4. unanswered' \in [Events -> Nat]
        BY <2>1, <2>2
    <2>5. faults' \in 0..MaxFaults
        BY <1>8a DEF AnswerLost
    <2> QED BY <1>8a, <2>3, <2>4, <2>5 DEF AnswerLost
<1>9. ASSUME NEW c \in Workers, DeliveryIgnored(c) PROVE OutboxTypeOK'
    BY <1>9 DEF DeliveryIgnored, Row
<1>10. ASSUME NEW c \in Workers, DeliveryFails(c) PROVE OutboxTypeOK'
    BY <1>10 DEF DeliveryFails
<1>11. ASSUME NEW c \in Workers, MarkProcessed(c) PROVE OutboxTypeOK'
    BY <1>11, StatusSet DEF MarkProcessed, Row
<1>12. ASSUME NEW c \in Workers, MarkFails(c) PROVE OutboxTypeOK'
    BY <1>12 DEF MarkFails, Row
<1>13. ASSUME NEW c \in Workers, RecordFailure(c) PROVE OutboxTypeOK'
    <2>1. PICK r \in current[c] :
            /\ status' = SetStatus({r.event}, IF DeadAfter(r) THEN "DEAD_LETTER" ELSE "PENDING")
            /\ retry' = [retry EXCEPT ![r.event] = r.retry + 1]
            /\ lockAge' = Unlock({r.event})
            /\ waiting' = waiting \cup {r.event}
            /\ unhandled' = IF r.event \in Unknown THEN unhandled \cup {r.event}
                            ELSE unhandled \ {r.event}
            /\ aged' = aged \ {r.event}
            /\ failures' = [failures EXCEPT ![r.event] = Least(@ + 1, MaxAttempts)]
        BY <1>13 DEF RecordFailure
    <2>a. r.event \in Events /\ r.retry \in Nat
        BY DEF Row
    <2>b. failures[r.event] \in Nat
        BY <2>a
    <2>2. /\ r.event \in Events /\ r.retry \in Nat
          /\ Least(failures[r.event] + 1, MaxAttempts) \in 0..MaxAttempts
        BY <2>a, <2>b, LeastIsBound
    <2>3. status' \in [Events -> Statuses] /\ lockAge' \in [Events -> 0..Stale]
        BY <2>1, StatusSet, LocksTyped
    <2>4. /\ retry' \in [Events -> Nat] /\ failures' \in [Events -> 0..MaxAttempts]
          /\ waiting' \subseteq Events /\ unhandled' \subseteq Unknown /\ aged' \subseteq Events
        BY <2>1, <2>2
    <2> QED BY <1>13, <2>3, <2>4 DEF RecordFailure
<1>14. ASSUME NEW S \in SUBSET Workers, StopCycles(S) PROVE OutboxTypeOK'
    BY <1>14 DEF StopCycles, Row
<1>15. ASSUME NEW q \in Requeuers, RequeueRead(q) PROVE OutboxTypeOK'
    BY <1>15, SelectionsAreEvents, BatchesAreSubsets DEF RequeueRead
<1>16. ASSUME NEW q \in Requeuers, RequeueWrite(q) PROVE OutboxTypeOK'
    BY <1>16, StatusSet, LocksTyped DEF RequeueWrite
<1>17. ASSUME NEW e \in Events, BackoffEnds(e) PROVE OutboxTypeOK'
    BY <1>17 DEF BackoffEnds
<1>18. ASSUME NEW e \in Events, GrowOld(e) PROVE OutboxTypeOK'
    BY <1>18 DEF GrowOld
<1>19. CASE OutboxTick
    <2>1. ASSUME NEW e \in Events PROVE Least(lockAge[e] + 1, Stale) \in 0..Stale
        <3>1. lockAge[e] \in Nat
            OBVIOUS
        <3> QED BY <3>1, LeastIsBound
    <2> QED BY <1>19, <2>1 DEF OutboxTick, Age
<1>20. CASE UNCHANGED outboxVars
    BY <1>20 DEF outboxVars
<1> QED BY <1>1, <1>2, <1>3, <1>4, <1>5, <1>6, <1>7, <1>8, <1>8a, <1>9, <1>10, <1>11,
       <1>12, <1>13, <1>14, <1>15, <1>16, <1>17, <1>18, <1>19, <1>20
        DEF OutboxNext, Work, Others

(***************************************************************************)
(* An event is marked by a cycle that has delivered it, and one without a  *)
(* handler stays dead.                                                     *)
(***************************************************************************)
DeliveryInvariant ==
    /\ \A c \in Workers : \A r, s \in current[c] : r = s
    /\ \A c \in Workers : stage[c] = "delivered" => \A r \in current[c] :
         r.event \notin Unknown /\ (delivered[r.event] > 0 \/ r.event \in ignored)
    /\ ProcessedWasDelivered
    /\ \A e \in Unknown : status[e] = "DEAD_LETTER" => e \in unhandled
    /\ \A q \in Requeuers : \A e \in candidates[q] : e \notin Unknown

(* Most steps deliver nothing, mark nothing and select nothing.            *)
LEMMA NothingDelivered ==
    ASSUME OutboxTypeOK, DeliveryInvariant,
           UNCHANGED <<delivered, ignored, unhandled>>,
           \A c \in Workers : current'[c] = current[c] \/ current'[c] = {},
           \A c \in Workers : stage'[c] = "delivered" => stage[c] = "delivered",
           \A e \in Events : status'[e] \in {"PROCESSED", "DEAD_LETTER"} => status'[e] = status[e],
           \A q \in Requeuers : candidates'[q] \subseteq candidates[q]
    PROVE  DeliveryInvariant'
BY OutboxConstants DEF DeliveryInvariant, ProcessedWasDelivered, OutboxTypeOK

LEMMA DeliveryInit == OutboxInit => DeliveryInvariant
BY OutboxConstants DEF OutboxInit, DeliveryInvariant, ProcessedWasDelivered

LEMMA DeliveryPreserved ==
    OutboxTypeOK /\ DeliveryInvariant /\ [OutboxNext]_outboxVars => DeliveryInvariant'
<1> SUFFICES ASSUME OutboxTypeOK, DeliveryInvariant, [OutboxNext]_outboxVars
             PROVE  DeliveryInvariant'
    OBVIOUS
<1> USE OutboxConstants, StatusNames DEF rows, cycles, history
<1>1. ASSUME NEW e \in Events, Emit(e) PROVE DeliveryInvariant'
    BY <1>1, NothingDelivered DEF Emit, OutboxTypeOK
<1>2. ASSUME NEW c \in Workers, Recover(c) PROVE DeliveryInvariant'
    BY <1>2, NothingDelivered, StatusSet DEF Recover, OutboxTypeOK
<1>3. ASSUME NEW c \in Workers, Claim(c) PROVE DeliveryInvariant'
    <2>1. PICK B \in Batches(Due) : status' = SetStatus(B, "PROCESSING")
        BY <1>3 DEF Claim
    <2>2. \A e \in Events : status'[e] \in {status[e], "PROCESSING"}
        BY <2>1, StatusSet
    <2>3. \A d \in Workers : stage'[d] = "delivered" => stage[d] = "delivered"
        BY <1>3 DEF Claim, OutboxTypeOK
    <2> QED BY <1>3, <2>2, <2>3, NothingDelivered DEF Claim
<1>4. ASSUME NEW c \in Workers, FallbackRead(c) PROVE DeliveryInvariant'
    BY <1>4, NothingDelivered DEF FallbackRead, OutboxTypeOK
<1>5. ASSUME NEW c \in Workers, FallbackTake(c) PROVE DeliveryInvariant'
    <2>1. \A e \in Events : status'[e] \in {status[e], "PROCESSING"}
        BY <1>5, StatusSet DEF FallbackTake
    <2> QED BY <1>5, <2>1, NothingDelivered DEF FallbackTake
<1>6. ASSUME NEW c \in Workers, FallbackDone(c) PROVE DeliveryInvariant'
    BY <1>6, NothingDelivered DEF FallbackDone, OutboxTypeOK
<1>7. ASSUME NEW c \in Workers, Take(c) PROVE DeliveryInvariant'
    <2>1. CASE current' = current
        BY <1>7, <2>1, NothingDelivered DEF Take, OutboxTypeOK
    <2>2. CASE current' # current
        <3>1. PICK r \in claimed[c] : current' = [current EXCEPT ![c] = {r}] /\ stage' = stage
            BY <1>7, <2>2 DEF Take
        <3>2. UNCHANGED <<rows, candidates, delivered, ignored>> /\ stage[c] = "working"
            BY <1>7 DEF Take
        <3> QED BY <3>1, <3>2 DEF DeliveryInvariant, ProcessedWasDelivered, OutboxTypeOK
    <2> QED BY <2>1, <2>2
<1>8. ASSUME NEW c \in Workers, Deliver(c) PROVE DeliveryInvariant'
    <2>1. PICK r \in current[c] :
            r.event \notin Unknown
            /\ delivered' = [delivered EXCEPT ![r.event] = Least(@ + 1, Many)]
        BY <1>8 DEF Deliver
    <2>2. r.event \in Events
        BY DEF OutboxTypeOK, Row
    <2>5. \A e \in Events : delivered[e] > 0 => delivered'[e] > 0
        BY <2>1, <2>2, DeliveryCounts
    <2>6. delivered'[r.event] > 0
        BY <2>1, <2>2, DeliveryCounts
    <2>7. UNCHANGED <<rows, candidates, current, ignored>>
          /\ stage' = [stage EXCEPT ![c] = "delivered"]
        BY <1>8 DEF Deliver
    <2>8. \A d \in Workers : \A t \in current[d] : t.event \in Events
        BY DEF OutboxTypeOK, Row
    <2> QED BY <2>1, <2>5, <2>6, <2>7, <2>8
            DEF DeliveryInvariant, ProcessedWasDelivered, OutboxTypeOK
<1>8a. ASSUME NEW c \in Workers, AnswerLost(c) PROVE DeliveryInvariant'
    <2>1. PICK r \in current[c] : delivered' = [delivered EXCEPT ![r.event] = Least(@ + 1, Many)]
        BY <1>8a DEF AnswerLost
    <2>2. r.event \in Events
        BY DEF OutboxTypeOK, Row
    <2>3. \A e \in Events : delivered[e] > 0 => delivered'[e] > 0
        BY <2>1, <2>2, DeliveryCounts
    <2>4. UNCHANGED <<rows, candidates, current, ignored>>
          /\ stage' = [stage EXCEPT ![c] = "failed"]
        BY <1>8a DEF AnswerLost
    <2>5. \A d \in Workers : stage'[d] = "delivered" => stage[d] = "delivered"
        BY <2>4 DEF OutboxTypeOK
    <2>6. \A d \in Workers : \A t \in current[d] : t.event \in Events
        BY DEF OutboxTypeOK, Row
    <2> QED BY <2>3, <2>4, <2>5, <2>6 DEF DeliveryInvariant, ProcessedWasDelivered
<1>9. ASSUME NEW c \in Workers, DeliveryIgnored(c) PROVE DeliveryInvariant'
    BY <1>9 DEF DeliveryIgnored, DeliveryInvariant, ProcessedWasDelivered, OutboxTypeOK
<1>10. ASSUME NEW c \in Workers, DeliveryFails(c) PROVE DeliveryInvariant'
    BY <1>10, NothingDelivered DEF DeliveryFails, OutboxTypeOK
<1>11. ASSUME NEW c \in Workers, MarkProcessed(c) PROVE DeliveryInvariant'
    <2>1. PICK r \in current[c] : status' = SetStatus({r.event}, "PROCESSED")
        BY <1>11 DEF MarkProcessed
    <2>2. r.event \notin Unknown /\ (delivered[r.event] > 0 \/ r.event \in ignored)
        BY <1>11 DEF MarkProcessed, ReadyToMark, DeliveryInvariant
    <2>3. \A e \in Events : status'[e] = IF e = r.event THEN "PROCESSED" ELSE status[e]
        BY <2>1, StatusSet
    <2>4. /\ UNCHANGED <<unhandled, candidates, delivered, ignored>>
          /\ current' = [current EXCEPT ![c] = {}] /\ stage' = [stage EXCEPT ![c] = "working"]
        BY <1>11 DEF MarkProcessed
    <2> QED BY <2>2, <2>3, <2>4 DEF DeliveryInvariant, ProcessedWasDelivered, OutboxTypeOK
<1>12. ASSUME NEW c \in Workers, MarkFails(c) PROVE DeliveryInvariant'
    BY <1>12, NothingDelivered DEF MarkFails, OutboxTypeOK
<1>13. ASSUME NEW c \in Workers, RecordFailure(c) PROVE DeliveryInvariant'
    <2>1. PICK r \in current[c] :
            /\ status' = SetStatus({r.event}, IF DeadAfter(r) THEN "DEAD_LETTER" ELSE "PENDING")
            /\ unhandled' = IF r.event \in Unknown THEN unhandled \cup {r.event}
                            ELSE unhandled \ {r.event}
        BY <1>13 DEF RecordFailure
    <2>2. \A e \in Events : status'[e] = IF e = r.event
                             THEN (IF DeadAfter(r) THEN "DEAD_LETTER" ELSE "PENDING")
                             ELSE status[e]
        BY <2>1, StatusSet
    <2>3. /\ UNCHANGED <<candidates, delivered, ignored>>
          /\ current' = [current EXCEPT ![c] = {}] /\ stage' = [stage EXCEPT ![c] = "working"]
        BY <1>13 DEF RecordFailure
    <2>4. \A e \in Events : status'[e] = "PROCESSED" => status[e] = "PROCESSED"
        BY <2>2
    <2>5. ProcessedWasDelivered'
        BY <2>3, <2>4 DEF DeliveryInvariant, ProcessedWasDelivered
    <2>6. \A e \in Unknown : status'[e] = "DEAD_LETTER" => e \in unhandled'
        BY <2>1, <2>2 DEF DeliveryInvariant
    <2>7. \A d \in Workers : \A s, t \in current'[d] : s = t
        BY <2>3 DEF DeliveryInvariant, OutboxTypeOK
    <2>8. \A d \in Workers : stage'[d] = "delivered" => d # c /\ stage[d] = "delivered"
        BY <2>3 DEF OutboxTypeOK
    <2>9. \A d \in Workers : stage'[d] = "delivered" => \A t \in current'[d] :
            t.event \notin Unknown /\ (delivered'[t.event] > 0 \/ t.event \in ignored')
        BY <2>3, <2>8 DEF DeliveryInvariant, OutboxTypeOK
    <2> QED BY <2>3, <2>5, <2>6, <2>7, <2>9 DEF DeliveryInvariant
<1>14. ASSUME NEW S \in SUBSET Workers, StopCycles(S) PROVE DeliveryInvariant'
    BY <1>14, NothingDelivered DEF StopCycles, OutboxTypeOK
<1>15. ASSUME NEW q \in Requeuers, RequeueRead(q) PROVE DeliveryInvariant'
    <2>1. PICK B \in Batches(Requeueable) : candidates' = [candidates EXCEPT ![q] = B]
        BY <1>15 DEF RequeueRead
    <2>2. \A e \in B : e \notin Unknown
        BY BatchesAreSubsets DEF Requeueable, DeliveryInvariant
    <2>3. UNCHANGED <<rows, cycles, history>>
        BY <1>15 DEF RequeueRead
    <2> QED BY <2>1, <2>2, <2>3 DEF DeliveryInvariant, ProcessedWasDelivered, OutboxTypeOK
<1>16. ASSUME NEW q \in Requeuers, RequeueWrite(q) PROVE DeliveryInvariant'
    BY <1>16, NothingDelivered, StatusSet DEF RequeueWrite, OutboxTypeOK
<1>17. ASSUME NEW e \in Events, BackoffEnds(e) \/ GrowOld(e) PROVE DeliveryInvariant'
    BY <1>17, NothingDelivered DEF BackoffEnds, GrowOld
<1>18. CASE OutboxTick
    BY <1>18, NothingDelivered DEF OutboxTick
<1>19. CASE UNCHANGED outboxVars
    BY <1>19, NothingDelivered DEF outboxVars
<1> QED BY <1>1, <1>2, <1>3, <1>4, <1>5, <1>6, <1>7, <1>8, <1>8a, <1>9, <1>10, <1>11, <1>12,
           <1>13, <1>14, <1>15, <1>16, <1>17, <1>18, <1>19 DEF OutboxNext, Work, Others

(***************************************************************************)
(* The variables of the outbox always have their types.                    *)
(***************************************************************************)
THEOREM OutboxTypeCorrect == OutboxSpec => []OutboxTypeOK
BY OutboxTypeInit, OutboxTypePreserved, PTL DEF OutboxSpec

LEMMA DeliveriesInOrder == OutboxSpec => [](OutboxTypeOK /\ DeliveryInvariant)
<1>1. OutboxInit => OutboxTypeOK /\ DeliveryInvariant
    BY OutboxTypeInit, DeliveryInit
<1>2. OutboxTypeOK /\ DeliveryInvariant /\ [OutboxNext]_outboxVars
        => OutboxTypeOK' /\ DeliveryInvariant'
    BY OutboxTypePreserved, DeliveryPreserved
<1> QED BY <1>1, <1>2, PTL DEF OutboxSpec

(***************************************************************************)
(* An event that counts as PROCESSED was delivered, or its handler ignored *)
(* the provider's refusal: although the update that marks it looks neither *)
(* at its status nor at its owner.                                         *)
(***************************************************************************)
THEOREM MarkedAfterDelivery == OutboxSpec => []ProcessedWasDelivered
<1>1. DeliveryInvariant => ProcessedWasDelivered
    BY DEF DeliveryInvariant
<1> QED BY <1>1, DeliveriesInOrder, PTL

(***************************************************************************)
(* A dead event without a handler stays dead in every step.                *)
(***************************************************************************)
LEMMA UnknownIsNotRevived ==
    OutboxTypeOK /\ DeliveryInvariant /\ [OutboxNext]_outboxVars =>
        \A e \in Events : e \in unhandled /\ status[e] = "DEAD_LETTER" =>
            status'[e] = "DEAD_LETTER"
<1> SUFFICES ASSUME OutboxTypeOK, DeliveryInvariant, [OutboxNext]_outboxVars,
                    NEW e \in Events, e \in unhandled, status[e] = "DEAD_LETTER"
             PROVE  status'[e] = "DEAD_LETTER"
    OBVIOUS
<1> USE OutboxConstants, StatusNames DEF rows, cycles, history
<1>a. e \in Unknown
    BY DEF OutboxTypeOK
<1>1. ASSUME NEW c \in Workers, MarkProcessed(c) PROVE status'[e] = "DEAD_LETTER"
    <2>1. PICK r \in current[c] : status' = SetStatus({r.event}, "PROCESSED")
        BY <1>1 DEF MarkProcessed
    <2>2. r.event \notin Unknown
        BY <1>1 DEF MarkProcessed, ReadyToMark, DeliveryInvariant
    <2> QED BY <1>a, <2>1, <2>2 DEF SetStatus
<1>2. ASSUME NEW c \in Workers, RecordFailure(c) PROVE status'[e] = "DEAD_LETTER"
    <2>1. PICK r \in current[c] :
            status' = SetStatus({r.event}, IF DeadAfter(r) THEN "DEAD_LETTER" ELSE "PENDING")
        BY <1>2 DEF RecordFailure
    <2> QED BY <1>a, <2>1 DEF SetStatus, DeadAfter
<1>3. ASSUME NEW q \in Requeuers, RequeueWrite(q) PROVE status'[e] = "DEAD_LETTER"
    BY <1>a, <1>3 DEF RequeueWrite, SetStatus, DeliveryInvariant
<1>4. ASSUME NEW c \in Workers, Recover(c) PROVE status'[e] = "DEAD_LETTER"
    BY <1>4 DEF Recover, SetStatus, Stranded
<1>5. ASSUME NEW c \in Workers, Claim(c) PROVE status'[e] = "DEAD_LETTER"
    <2>1. PICK B \in Batches(Due) : status' = SetStatus(B, "PROCESSING")
        BY <1>5 DEF Claim
    <2>2. e \notin B
        BY BatchesAreSubsets DEF Due
    <2> QED BY <2>1, <2>2 DEF SetStatus
<1>6. ASSUME NEW c \in Workers, FallbackTake(c) PROVE status'[e] = "DEAD_LETTER"
    BY <1>6 DEF FallbackTake, SetStatus
<1>7. ASSUME NEW f \in Events, Emit(f) PROVE status'[e] = "DEAD_LETTER"
    BY <1>7 DEF Emit, OutboxTypeOK
<1>8. CASE UNCHANGED status
    BY <1>8
<1> QED BY <1>1, <1>2, <1>3, <1>4, <1>5, <1>6, <1>7, <1>8
        DEF OutboxNext, Work, Others, outboxVars, FallbackRead, FallbackDone, Take, Deliver,
            DeliveryIgnored, AnswerLost, DeliveryFails, MarkFails, StopCycles, RequeueRead,
            BackoffEnds, GrowOld, OutboxTick

(***************************************************************************)
(* "UNKNOWN_EVENT_TYPE failures are permanent code bugs and are never      *)
(* requeued", whatever requeues and slow cycles do.                        *)
(***************************************************************************)
THEOREM UnhandledAreNotRevived == OutboxSpec => UnhandledStayDead
<1>1. OutboxTypeOK /\ DeliveryInvariant /\ [OutboxNext]_outboxVars =>
        [\A e \in Events : e \in unhandled /\ status[e] = "DEAD_LETTER" =>
            status'[e] = "DEAD_LETTER"]_outboxVars
    BY UnknownIsNotRevived
<1> QED BY <1>1, DeliveriesInOrder, PTL DEF OutboxSpec, UnhandledStayDead

(***************************************************************************)
(* A count that is stored or remembered is no more than the failures there *)
(* were.                                                                   *)
(***************************************************************************)
Counted(n, e) == n <= failures[e] \/ failures[e] = MaxAttempts

Remembered(c) == picked[c] \cup claimed[c] \cup current[c]

CountsInvariant ==
    /\ \A e \in Events : Counted(retry[e], e)
    /\ \A c \in Workers : \A r \in Remembered(c) : Counted(r.retry, r.event)
    /\ DeadLettersFailedEnough

(* Most steps record no failure, and remember what they have just read.    *)
LEMMA CountsKept ==
    ASSUME OutboxTypeOK, OutboxTypeOK', CountsInvariant, UNCHANGED <<retry, failures>>,
           \A c \in Workers : \A r \in Remembered(c)' :
              \/ \E d \in Workers : r \in Remembered(d)
              \/ r.event \in Events /\ r.retry = retry[r.event],
           \A e \in Events : status'[e] = "DEAD_LETTER" => status[e] = "DEAD_LETTER"
    PROVE  CountsInvariant'
<1>1. \A e \in Events : \A n : Counted(n, e) => Counted(n, e)'
    BY DEF Counted
<1>2. \A e \in Events : Counted(retry[e], e)'
    BY <1>1 DEF CountsInvariant, Counted
<1>3. \A c \in Workers : \A r \in Remembered(c)' : Counted(r.retry, r.event)'
    BY DEF CountsInvariant, Counted
<1>4. DeadLettersFailedEnough'
    BY DEF CountsInvariant, DeadLettersFailedEnough
<1> QED BY <1>2, <1>3, <1>4 DEF CountsInvariant

LEMMA CountsInit == OutboxInit => CountsInvariant
BY OutboxConstants DEF OutboxInit, CountsInvariant, Counted, Remembered, DeadLettersFailedEnough

LEMMA CountsPreserved ==
    OutboxTypeOK /\ CountsInvariant /\ [OutboxNext]_outboxVars => CountsInvariant'
<1> SUFFICES ASSUME OutboxTypeOK, CountsInvariant, [OutboxNext]_outboxVars
             PROVE  CountsInvariant'
    OBVIOUS
<1>t. OutboxTypeOK'
    BY OutboxTypePreserved
<1> USE OutboxConstants, StatusNames, <1>t DEF rows, cycles, history
<1>1. ASSUME NEW e \in Events, Emit(e) PROVE CountsInvariant'
    BY <1>1, CountsKept DEF Emit, OutboxTypeOK, Remembered
<1>2. ASSUME NEW c \in Workers, Recover(c) PROVE CountsInvariant'
    BY <1>2, CountsKept, StatusSet DEF Recover, Remembered
<1>3. ASSUME NEW c \in Workers, Claim(c) PROVE CountsInvariant'
    <2>1. PICK B \in Batches(Due) :
            /\ status' = SetStatus(B, "PROCESSING")
            /\ claimed' = [claimed EXCEPT ![c] = {RowOf(e) : e \in B}]
        BY <1>3 DEF Claim
    <2>2. B \in SUBSET Events
        BY BatchesAreSubsets, SelectionsAreEvents
    <2>3. \A r \in {RowOf(e) : e \in B} : r.event \in Events /\ r.retry = retry[r.event]
        BY <2>2, RowsOfEvents
    <2>4. \A e \in Events : status'[e] \in {status[e], "PROCESSING"}
        BY <2>1, StatusSet
    <2>5. \A d \in Workers : claimed'[d] = claimed[d] \/ claimed'[d] = {RowOf(e) : e \in B}
        BY <2>1 DEF OutboxTypeOK
    <2>6. UNCHANGED <<retry, failures, picked, current>>
        BY <1>3 DEF Claim
    <2>7. \A d \in Workers : \A r \in Remembered(d)' :
            r \in Remembered(d) \/ (r.event \in Events /\ r.retry = retry[r.event])
        BY <2>3, <2>5, <2>6 DEF Remembered
    <2> QED BY <2>4, <2>6, <2>7, CountsKept
<1>4. ASSUME NEW c \in Workers, FallbackRead(c) PROVE CountsInvariant'
    <2>1. PICK B \in Batches(Due) : picked' = [picked EXCEPT ![c] = {RowOf(e) : e \in B}]
        BY <1>4 DEF FallbackRead
    <2>2. B \in SUBSET Events
        BY BatchesAreSubsets, SelectionsAreEvents
    <2>3. \A r \in {RowOf(e) : e \in B} : r.event \in Events /\ r.retry = retry[r.event]
        BY <2>2, RowsOfEvents
    <2>4. \A d \in Workers : picked'[d] = picked[d] \/ picked'[d] = {RowOf(e) : e \in B}
        BY <2>1 DEF OutboxTypeOK
    <2>5. UNCHANGED <<status, retry, failures, claimed, current>>
        BY <1>4 DEF FallbackRead
    <2>6. \A d \in Workers : \A r \in Remembered(d)' :
            r \in Remembered(d) \/ (r.event \in Events /\ r.retry = retry[r.event])
        BY <2>3, <2>4, <2>5 DEF Remembered
    <2> QED BY <2>5, <2>6, CountsKept
<1>5. ASSUME NEW c \in Workers, FallbackTake(c) PROVE CountsInvariant'
    <2>1. \A e \in Events : status'[e] \in {status[e], "PROCESSING"}
        BY <1>5, StatusSet DEF FallbackTake
    <2>2. UNCHANGED <<retry, failures, current>>
        BY <1>5 DEF FallbackTake
    <2>3. \A d \in Workers : Remembered(d)' \subseteq Remembered(d)
        BY <1>5 DEF FallbackTake, Remembered, OutboxTypeOK
    <2> QED BY <2>1, <2>2, <2>3, CountsKept
<1>6. ASSUME NEW c \in Workers,
             \/ FallbackDone(c) \/ Deliver(c) \/ DeliveryIgnored(c)
             \/ AnswerLost(c) \/ DeliveryFails(c) \/ MarkFails(c)
      PROVE  CountsInvariant'
    <2>1. UNCHANGED <<status, retry, failures, picked, claimed, current>>
        BY <1>6 DEF FallbackDone, Deliver, DeliveryIgnored, AnswerLost, DeliveryFails, MarkFails
    <2> QED BY <2>1, CountsKept DEF Remembered
<1>7. ASSUME NEW c \in Workers, Take(c) PROVE CountsInvariant'
    <2>1. UNCHANGED <<status, retry, failures, picked>>
        BY <1>7 DEF Take
    <2>2. \A d \in Workers : Remembered(d)' \subseteq Remembered(d)
        BY <1>7 DEF Take, Remembered, OutboxTypeOK
    <2> QED BY <2>1, <2>2, CountsKept
<1>8. ASSUME NEW c \in Workers, MarkProcessed(c) PROVE CountsInvariant'
    <2>1. \A e \in Events : status'[e] \in {status[e], "PROCESSED"}
        BY <1>8, StatusSet DEF MarkProcessed
    <2>2. UNCHANGED <<retry, failures, picked, claimed>>
        BY <1>8 DEF MarkProcessed
    <2>3. \A d \in Workers : Remembered(d)' \subseteq Remembered(d)
        BY <1>8 DEF MarkProcessed, Remembered, OutboxTypeOK
    <2> QED BY <2>1, <2>2, <2>3, CountsKept
<1>9. ASSUME NEW c \in Workers, RecordFailure(c) PROVE CountsInvariant'
    <2>1. PICK r \in current[c] :
            /\ status' = SetStatus({r.event}, IF DeadAfter(r) THEN "DEAD_LETTER" ELSE "PENDING")
            /\ retry' = [retry EXCEPT ![r.event] = r.retry + 1]
            /\ failures' = [failures EXCEPT ![r.event] = Least(@ + 1, MaxAttempts)]
        BY <1>9 DEF RecordFailure
    <2>2. r.event \in Events /\ r.retry \in Nat
        BY DEF OutboxTypeOK, Row
    <2>3. failures[r.event] \in Nat /\ failures[r.event] <= MaxAttempts
        BY <2>2 DEF OutboxTypeOK
    <2>4. Counted(r.retry, r.event)
        BY DEF CountsInvariant, Remembered
    <2>5. failures'[r.event] = Least(failures[r.event] + 1, MaxAttempts)
        BY <2>1, <2>2 DEF OutboxTypeOK
    <2>6. /\ failures'[r.event] \in Nat
          /\ failures[r.event] <= failures'[r.event]
          /\ failures'[r.event] = MaxAttempts \/ failures'[r.event] = failures[r.event] + 1
          /\ failures[r.event] + 1 >= MaxAttempts => failures'[r.event] = MaxAttempts
        BY <2>3, <2>5, LeastIsBound
    <2>7. \A e \in Events : e # r.event => failures'[e] = failures[e]
        BY <2>1 DEF OutboxTypeOK
    <2>8. \A e \in Events : \A n \in Nat : Counted(n, e) => Counted(n, e)'
        <3> SUFFICES ASSUME NEW e \in Events, NEW n \in Nat, Counted(n, e)
                     PROVE  Counted(n, e)'
            OBVIOUS
        <3>1. CASE e # r.event
            BY <3>1, <2>7 DEF Counted
        <3>2. CASE e = r.event
            BY <3>2, <2>3, <2>6 DEF Counted
        <3> QED BY <3>1, <3>2
    <2>9. Counted(r.retry + 1, r.event)'
        BY <2>2, <2>3, <2>4, <2>6 DEF Counted
    <2>10. \A e \in Events : Counted(retry[e], e)'
        <3> SUFFICES ASSUME NEW e \in Events PROVE Counted(retry[e], e)'
            OBVIOUS
        <3>1. CASE e # r.event
            <4>1. retry'[e] = retry[e] /\ retry[e] \in Nat
                BY <3>1, <2>1 DEF OutboxTypeOK
            <4>2. Counted(retry[e], e)
                BY DEF CountsInvariant
            <4> QED BY <4>1, <4>2, <3>1, <2>7 DEF Counted
        <3>2. CASE e = r.event
            <4>1. retry'[e] = r.retry + 1
                BY <3>2, <2>1 DEF OutboxTypeOK
            <4> QED BY <4>1, <3>2, <2>9 DEF Counted
        <3> QED BY <3>1, <3>2
    <2>11. \A d \in Workers : Remembered(d)' \subseteq Remembered(d)
        BY <1>9 DEF RecordFailure, Remembered, OutboxTypeOK
    <2>12. \A d \in Workers : \A t \in Remembered(d) : t.event \in Events /\ t.retry \in Nat
        BY DEF Remembered, OutboxTypeOK, Row
    <2>13. \A d \in Workers : \A t \in Remembered(d)' : Counted(t.retry, t.event)'
        BY <2>8, <2>11, <2>12 DEF CountsInvariant, Counted
    <2>14. DeadLettersFailedEnough'
        <3> SUFFICES ASSUME NEW e \in Events, status'[e] = "DEAD_LETTER", e \notin Unknown
                     PROVE  failures'[e] = MaxAttempts
            BY DEF DeadLettersFailedEnough
        <3>1. CASE e # r.event
            BY <3>1, <2>1, <2>7 DEF SetStatus, CountsInvariant, DeadLettersFailedEnough
        <3>2. CASE e = r.event
            <4>1. r.retry + 1 >= MaxAttempts
                BY <3>2, <2>1 DEF SetStatus, DeadAfter
            <4> QED BY <3>2, <4>1, <2>2, <2>3, <2>4, <2>6 DEF Counted
        <3> QED BY <3>1, <3>2
    <2> QED BY <2>10, <2>13, <2>14 DEF CountsInvariant
<1>10. ASSUME NEW S \in SUBSET Workers, StopCycles(S) PROVE CountsInvariant'
    <2>1. UNCHANGED <<status, retry, failures>>
        BY <1>10 DEF StopCycles
    <2>2. \A d \in Workers : Remembered(d)' \subseteq Remembered(d)
        BY <1>10 DEF StopCycles, Remembered
    <2> QED BY <2>1, <2>2, CountsKept
<1>11. ASSUME NEW q \in Requeuers, RequeueWrite(q) PROVE CountsInvariant'
    BY <1>11, CountsKept, StatusSet DEF RequeueWrite, Remembered
<1>12. CASE UNCHANGED <<status, retry, failures, picked, claimed, current>>
    BY <1>12, CountsKept DEF Remembered
<1> QED BY <1>1, <1>2, <1>3, <1>4, <1>5, <1>6, <1>7, <1>8, <1>9, <1>10, <1>11, <1>12
        DEF OutboxNext, Work, Others, outboxVars, RequeueRead, BackoffEnds, GrowOld, OutboxTick

(***************************************************************************)
(* An event is given up after MaxAttempts real failures, although the      *)
(* count is written from what a cycle read at its claim; or at once when   *)
(* its type has no handler.                                                *)
(***************************************************************************)
THEOREM GivenUpAfterFailures == OutboxSpec => []DeadLettersFailedEnough
<1>1. OutboxInit => OutboxTypeOK /\ CountsInvariant
    BY OutboxTypeInit, CountsInit
<1>2. OutboxTypeOK /\ CountsInvariant /\ [OutboxNext]_outboxVars
        => OutboxTypeOK' /\ CountsInvariant'
    BY OutboxTypePreserved, CountsPreserved
<1>3. CountsInvariant => DeadLettersFailedEnough
    BY DEF CountsInvariant
<1> QED BY <1>1, <1>2, <1>3, PTL DEF OutboxSpec

(***************************************************************************)
(* An event that nothing has disturbed is in one hand at most, which keeps *)
(* it PROCESSING, and once it is delivered and answered it is marked or    *)
(* about to be.                                                            *)
(***************************************************************************)
Hand(c) == claimed[c] \cup current[c]

AboutToMark(e) ==
    \E c \in Workers : stage[c] = "delivered" /\ \E r \in current[c] : r.event = e

Calm(e) ==
    /\ \A c \in Workers : \A r \in Hand(c) : r.event = e => status[e] = "PROCESSING"
    /\ \A c, d \in Workers : \A r \in Hand(c), s \in Hand(d) :
         r.event = e /\ s.event = e => c = d /\ r = s
    /\ \A c \in Workers : \A r \in current[c] : r.event = e => r \notin claimed[c]
    /\ delivered[e] <= 1 + unanswered[e]
    /\ delivered[e] > unanswered[e] => status[e] = "PROCESSED" \/ AboutToMark(e)

CalmInvariant == \A e \in Events : e \notin disturbed => Calm(e)

(* Steps that leave the event, and whoever is about to mark it, alone.     *)
LEMMA CalmKept ==
    ASSUME NEW e \in Events, Calm(e), status'[e] = status[e],
           UNCHANGED <<delivered[e], unanswered[e]>>,
           \A c \in Workers : \A r \in claimed'[c] : r.event = e => r \in claimed[c],
           \A c \in Workers : \A r \in current'[c] : r.event = e => r \in current[c],
           \A c \in Workers : stage[c] = "delivered" =>
              \A r \in current[c] : r.event = e => stage'[c] = "delivered" /\ r \in current'[c]
    PROVE  Calm(e)'
<1>1. \A c \in Workers : \A r \in Hand(c)' : r.event = e => r \in Hand(c)
    BY DEF Hand
<1>2. AboutToMark(e) => AboutToMark(e)'
    BY DEF AboutToMark
<1> QED BY <1>1, <1>2 DEF Calm

(* An event that is not PROCESSING is in no hand, and no delivery of it    *)
(* was answered if it is not PROCESSED.                                    *)
LEMMA NotInHand ==
    ASSUME NEW e \in Events, Calm(e), status[e] # "PROCESSING"
    PROVE  /\ \A c \in Workers : \A r \in claimed[c] \cup current[c] : r.event # e
           /\ status[e] # "PROCESSED" => ~(delivered[e] > unanswered[e])
BY DEF Calm, Hand, AboutToMark

(* So it may change its status as long as no cycle takes it.               *)
LEMMA CalmWhenMoved ==
    ASSUME NEW e \in Events, Calm(e), status[e] \notin {"PROCESSING", "PROCESSED"},
           UNCHANGED <<delivered[e], unanswered[e]>>,
           \A c \in Workers : \A r \in claimed'[c] : r.event = e => r \in claimed[c],
           \A c \in Workers : \A r \in current'[c] : r.event = e => r \in current[c]
    PROVE  Calm(e)'
<1>1. \A c \in Workers : \A r \in Hand(c)' : r.event # e
    BY NotInHand DEF Hand
<1>2. ~(delivered'[e] > unanswered'[e]) /\ delivered'[e] <= 1 + unanswered'[e]
    BY NotInHand DEF Calm
<1> QED BY <1>1, <1>2 DEF Calm, Hand

(* And one cycle may take it, once.                                        *)
LEMMA CalmWhenTaken ==
    ASSUME OutboxTypeOK, NEW e \in Events, Calm(e), status[e] = "PENDING",
           status'[e] = "PROCESSING", UNCHANGED <<delivered, unanswered, current>>,
           NEW c \in Workers, NEW t,
           \A d \in Workers : \A r \in claimed'[d] : r.event = e => d = c /\ r = t
    PROVE  Calm(e)'
<1>1. \A d \in Workers : \A r \in current'[d] : r.event # e
    BY NotInHand
<1>2. ~(delivered'[e] > unanswered'[e]) /\ delivered'[e] <= 1 + unanswered'[e]
    BY NotInHand DEF Calm
<1>3. \A d \in Workers : \A r \in Hand(d)' : r.event = e => d = c /\ r = t
    BY <1>1 DEF Hand
<1> QED BY <1>1, <1>2, <1>3 DEF Calm

LEMMA CalmInit == OutboxInit => CalmInvariant
BY DEF OutboxInit, CalmInvariant, Calm, Hand, AboutToMark

(* While a cycle works on the event, no delivery of it was answered.       *)
LEMMA NotYetAnswered ==
    ASSUME OutboxTypeOK, NEW e \in Events, Calm(e), NEW c \in Workers, stage[c] # "delivered",
           NEW r \in current[c], r.event = e
    PROVE  ~(delivered[e] > unanswered[e])
<1>1. status[e] = "PROCESSING"
    BY DEF Calm, Hand
<1>2. ~AboutToMark(e)
    BY DEF Calm, Hand, AboutToMark
<1> QED BY <1>1, <1>2 DEF Calm

LEMMA CountsAreNumbers ==
    ASSUME OutboxTypeOK, NEW e \in Events
    PROVE  delivered[e] \in Nat /\ unanswered[e] \in Nat
BY DEF OutboxTypeOK

LEMMA CalmPreserved ==
    OutboxTypeOK /\ DeliveryInvariant /\ CalmInvariant /\ [OutboxNext]_outboxVars
        => CalmInvariant'
<1> SUFFICES ASSUME OutboxTypeOK, DeliveryInvariant, CalmInvariant, [OutboxNext]_outboxVars,
                    NEW e \in Events, e \notin disturbed'
             PROVE  Calm(e)'
    BY DEF CalmInvariant
<1> USE OutboxConstants, StatusNames DEF rows, cycles, history
<1>a. disturbed \subseteq disturbed'
    BY DEF OutboxNext, Work, Others, outboxVars, Emit, BackoffEnds, GrowOld, RequeueRead,
           RequeueWrite, Recover, Claim, FallbackRead, FallbackTake, FallbackDone, Take,
           Deliver, DeliveryIgnored, AnswerLost, DeliveryFails, MarkProcessed, RecordFailure,
           MarkFails, StopCycles, OutboxTick
<1>b. Calm(e)
    BY <1>a DEF CalmInvariant
<1>1. ASSUME NEW f \in Events, Emit(f) PROVE Calm(e)'
    <2>1. CASE e = f
        BY <1>1, <1>b, <2>1, CalmWhenMoved DEF Emit
    <2>2. CASE e # f
        BY <1>1, <1>b, <2>2, CalmKept DEF Emit, OutboxTypeOK
    <2> QED BY <2>1, <2>2
<1>2. ASSUME NEW c \in Workers, Recover(c) PROVE Calm(e)'
    <2>1. UNCHANGED <<delivered, unanswered, claimed, current>>
          /\ stage[c] = "idle" /\ stage' = [stage EXCEPT ![c] = "claiming"]
        BY <1>2 DEF Recover
    <2>2. \A d \in Workers : stage[d] = "delivered" => stage'[d] = "delivered"
        BY <2>1 DEF OutboxTypeOK
    <2>3. CASE e \notin Stranded
        <3>1. status'[e] = status[e]
            BY <1>2, <2>3, StatusSet DEF Recover
        <3> QED BY <1>b, <2>1, <2>2, <3>1, CalmKept
    <2>4. CASE e \in Stranded
        <3>1. \A d \in Workers : \A r \in claimed[d] \cup current[d] : r.event # e
            BY <1>2, <2>4 DEF Recover, InHand
        <3>2. status[e] = "PROCESSING"
            BY <2>4 DEF Stranded
        <3>3. ~(delivered[e] > unanswered[e]) /\ delivered[e] <= 1 + unanswered[e]
            BY <1>b, <3>1, <3>2 DEF Calm, AboutToMark
        <3> QED BY <2>1, <3>1, <3>3 DEF Calm, Hand
    <2> QED BY <2>3, <2>4
<1>3. ASSUME NEW c \in Workers, Claim(c) PROVE Calm(e)'
    <2>1. PICK B \in Batches(Due) :
            /\ status' = SetStatus(B, "PROCESSING")
            /\ claimed' = [claimed EXCEPT ![c] = {RowOf(f) : f \in B}]
            /\ stage' = [stage EXCEPT ![c] = IF B = {} THEN "idle" ELSE "working"]
        BY <1>3 DEF Claim
    <2>2. B \in SUBSET Events /\ \A f \in B : status[f] = "PENDING"
        BY BatchesAreSubsets DEF Due
    <2>3. \A r \in {RowOf(f) : f \in B} : r.event \in B /\ r = RowOf(r.event)
        BY <2>2, RowOfEvent
    <2>4. UNCHANGED <<delivered, unanswered, current>> /\ stage[c] = "claiming"
        BY <1>3 DEF Claim
    <2>5. \A d \in Workers : stage[d] = "delivered" => stage'[d] = "delivered"
        BY <2>1, <2>4 DEF OutboxTypeOK
    <2>6. \A d \in Workers : claimed'[d] = claimed[d]
                              \/ (d = c /\ claimed'[d] = {RowOf(f) : f \in B})
        BY <2>1 DEF OutboxTypeOK
    <2>7. CASE e \notin B
        <3>1. status'[e] = status[e]
            BY <2>1, <2>7, StatusSet
        <3>2. \A d \in Workers : \A r \in claimed'[d] : r.event = e => r \in claimed[d]
            BY <2>3, <2>6, <2>7
        <3> QED BY <1>b, <2>4, <2>5, <3>1, <3>2, CalmKept
    <2>8. CASE e \in B
        <3>1. status[e] = "PENDING" /\ status'[e] = "PROCESSING"
            BY <2>1, <2>2, <2>8, StatusSet
        <3>2. \A d \in Workers : \A r \in claimed[d] : r.event # e
            BY <1>b, <3>1, NotInHand
        <3>3. \A d \in Workers : \A r \in claimed'[d] : r.event = e => d = c /\ r = RowOf(e)
            BY <2>3, <2>6, <3>2
        <3> QED BY <1>b, <2>4, <3>1, <3>3, CalmWhenTaken
    <2> QED BY <2>7, <2>8
<1>4. ASSUME NEW c \in Workers, FallbackTake(c) PROVE Calm(e)'
    <2>1. PICK r \in picked[c] :
            IF status[r.event] = "PENDING"
            THEN /\ status' = SetStatus({r.event}, "PROCESSING")
                 /\ claimed' = [claimed EXCEPT ![c] = @ \cup {r}]
            ELSE UNCHANGED <<status, claimed>>
        BY <1>4 DEF FallbackTake
    <2>2. UNCHANGED <<delivered, unanswered, current, stage>>
        BY <1>4 DEF FallbackTake
    <2>3. CASE status[r.event] = "PENDING" /\ e = r.event
        <3>1. status[e] = "PENDING" /\ status'[e] = "PROCESSING"
            BY <2>1, <2>3, StatusSet
        <3>2. \A d \in Workers : \A s \in claimed[d] : s.event # e
            BY <1>b, <3>1, NotInHand
        <3>3. \A d \in Workers : \A s \in claimed'[d] : s.event = e => d = c /\ s = r
            BY <2>1, <2>3, <3>2 DEF OutboxTypeOK
        <3> QED BY <1>b, <2>2, <3>1, <3>3, CalmWhenTaken
    <2>4. CASE ~(status[r.event] = "PENDING" /\ e = r.event)
        <3>1. status'[e] = status[e]
            BY <2>1, <2>4, StatusSet
        <3>2. \A d \in Workers : \A s \in claimed'[d] : s.event = e => s \in claimed[d]
            BY <2>1, <2>4 DEF OutboxTypeOK
        <3> QED BY <1>b, <2>2, <3>1, <3>2, CalmKept
    <2> QED BY <2>3, <2>4
<1>5. ASSUME NEW c \in Workers, FallbackRead(c) \/ FallbackDone(c) PROVE Calm(e)'
    BY <1>5, <1>b, CalmKept DEF FallbackRead, FallbackDone, OutboxTypeOK
<1>6. ASSUME NEW c \in Workers, Take(c) PROVE Calm(e)'
    <2>1. UNCHANGED <<status, delivered, unanswered>> /\ stage[c] = "working" /\ current[c] = {}
        BY <1>6 DEF Take
    <2>2. CASE UNCHANGED <<claimed, current>>
        <3>1. \A d \in Workers : stage[d] = "delivered" => stage'[d] = "delivered"
            BY <1>6, <2>1 DEF Take, OutboxTypeOK
        <3> QED BY <1>b, <2>1, <2>2, <3>1, CalmKept
    <2>3. CASE ~UNCHANGED <<claimed, current>>
        <3>1. PICK r \in claimed[c] :
                /\ current' = [current EXCEPT ![c] = {r}]
                /\ claimed' = [claimed EXCEPT ![c] = @ \ {r}]
                /\ stage' = stage
            BY <1>6, <2>3 DEF Take
        <3>2. \A d \in Workers : Hand(d)' \subseteq Hand(d)
            BY <3>1 DEF Hand, OutboxTypeOK
        <3>3. AboutToMark(e) => AboutToMark(e)'
            BY <2>1, <3>1 DEF AboutToMark, OutboxTypeOK
        <3>4. \A d \in Workers : \A s \in current'[d] : s.event = e => s \notin claimed'[d]
            BY <1>b, <3>1 DEF Calm, OutboxTypeOK
        <3>5. \A d \in Workers : \A s \in Hand(d)' : s.event = e => status'[e] = "PROCESSING"
            BY <1>b, <2>1, <3>2 DEF Calm
        <3>6. \A d, f \in Workers : \A s \in Hand(d)', t \in Hand(f)' :
                s.event = e /\ t.event = e => d = f /\ s = t
            BY <1>b, <3>2 DEF Calm
        <3>7. /\ delivered'[e] <= 1 + unanswered'[e]
              /\ delivered'[e] > unanswered'[e] => status'[e] = "PROCESSED" \/ AboutToMark(e)'
            BY <1>b, <2>1, <3>3 DEF Calm
        <3> QED BY <3>4, <3>5, <3>6, <3>7 DEF Calm
    <2> QED BY <2>2, <2>3
<1>7. ASSUME NEW c \in Workers, Deliver(c) PROVE Calm(e)'
    <2>1. PICK r \in current[c] : delivered' = [delivered EXCEPT ![r.event] = Least(@ + 1, Many)]
        BY <1>7 DEF Deliver
    <2>2. /\ UNCHANGED <<status, unanswered, claimed, current>>
          /\ stage[c] = "working" /\ stage' = [stage EXCEPT ![c] = "delivered"]
        BY <1>7 DEF Deliver
    <2>3. \A d \in Workers : stage[d] = "delivered" => stage'[d] = "delivered"
        BY <2>2 DEF OutboxTypeOK
    <2>4. CASE e # r.event
        <3>1. delivered'[e] = delivered[e]
            BY <2>1, <2>4 DEF OutboxTypeOK
        <3> QED BY <1>b, <2>2, <2>3, <3>1, CalmKept
    <2>5. CASE e = r.event
        <3>1. ~(delivered[e] > unanswered[e])
            BY <1>b, <2>2, <2>5, NotYetAnswered
        <3>2. delivered'[e] \in Nat /\ delivered'[e] <= delivered[e] + 1
            BY <2>1, <2>5, DeliveryCounts
        <3>3. delivered'[e] <= 1 + unanswered'[e]
            BY <2>2, <3>1, <3>2, CountsAreNumbers
        <3>4. AboutToMark(e)'
            BY <2>2, <2>5 DEF AboutToMark, OutboxTypeOK
        <3>5. \A d \in Workers : Hand(d)' = Hand(d)
            BY <2>2 DEF Hand
        <3> QED BY <1>b, <2>2, <3>3, <3>4, <3>5 DEF Calm
    <2> QED BY <2>4, <2>5
<1>7a. ASSUME NEW c \in Workers, AnswerLost(c) PROVE Calm(e)'
    <2>1. PICK r \in current[c] :
            /\ delivered' = [delivered EXCEPT ![r.event] = Least(@ + 1, Many)]
            /\ unanswered' = [unanswered EXCEPT ![r.event] = @ + 1]
        BY <1>7a DEF AnswerLost
    <2>2. /\ UNCHANGED <<status, claimed, current>>
          /\ stage[c] = "working" /\ stage' = [stage EXCEPT ![c] = "failed"]
        BY <1>7a DEF AnswerLost
    <2>3. \A d \in Workers : stage[d] = "delivered" => stage'[d] = "delivered"
        BY <2>2 DEF OutboxTypeOK
    <2>4. CASE e # r.event
        <3>1. UNCHANGED <<delivered[e], unanswered[e]>>
            BY <2>1, <2>4 DEF OutboxTypeOK
        <3> QED BY <1>b, <2>2, <2>3, <3>1, CalmKept
    <2>5. CASE e = r.event
        <3>1. ~(delivered[e] > unanswered[e])
            BY <1>b, <2>2, <2>5, NotYetAnswered
        <3>2. delivered'[e] \in Nat /\ delivered'[e] <= delivered[e] + 1
            BY <2>1, <2>5, DeliveryCounts
        <3>3. unanswered'[e] = unanswered[e] + 1
            BY <2>1, <2>5 DEF OutboxTypeOK
        <3>4. ~(delivered'[e] > unanswered'[e]) /\ delivered'[e] <= 1 + unanswered'[e]
            BY <3>1, <3>2, <3>3, CountsAreNumbers
        <3>5. \A d \in Workers : Hand(d)' = Hand(d)
            BY <2>2 DEF Hand
        <3> QED BY <1>b, <2>2, <3>4, <3>5 DEF Calm
    <2> QED BY <2>4, <2>5
<1>8. ASSUME NEW c \in Workers, DeliveryIgnored(c) \/ DeliveryFails(c) PROVE Calm(e)'
    <2>1. UNCHANGED <<status, delivered, unanswered, claimed, current>>
        BY <1>8 DEF DeliveryIgnored, DeliveryFails
    <2>2. \A d \in Workers : stage[d] = "delivered" => stage'[d] = "delivered"
        BY <1>8 DEF DeliveryIgnored, DeliveryFails, OutboxTypeOK
    <2> QED BY <1>b, <2>1, <2>2, CalmKept
<1>9. ASSUME NEW c \in Workers, MarkProcessed(c) PROVE Calm(e)'
    <2>1. PICK r \in current[c] : status' = SetStatus({r.event}, "PROCESSED")
        BY <1>9 DEF MarkProcessed
    <2>2. /\ UNCHANGED <<delivered, unanswered, claimed>> /\ current' = [current EXCEPT ![c] = {}]
          /\ stage' = [stage EXCEPT ![c] = "working"]
        BY <1>9 DEF MarkProcessed
    <2>3. \A s \in current[c] : s = r
        BY DEF DeliveryInvariant
    <2>4. \A d \in Workers : d # c => current'[d] = current[d] /\ stage'[d] = stage[d]
        BY <2>2 DEF OutboxTypeOK
    <2>5. current'[c] = {}
        BY <2>2 DEF OutboxTypeOK
    <2>6. CASE e # r.event
        <3>1. status'[e] = status[e]
            BY <2>1, <2>6, StatusSet
        <3> QED BY <1>b, <2>2, <2>3, <2>4, <2>5, <2>6, <3>1, CalmKept
    <2>7. CASE e = r.event
        <3>1. status'[e] = "PROCESSED"
            BY <2>1, <2>7, StatusSet
        <3>2. \A d \in Workers : \A s \in Hand(d)' : s.event # e
            BY <1>b, <2>2, <2>4, <2>5, <2>7 DEF Calm, Hand
        <3>3. delivered'[e] <= 1 + unanswered'[e]
            BY <1>b, <2>2 DEF Calm
        <3> QED BY <3>1, <3>2, <3>3 DEF Calm, Hand
    <2> QED BY <2>6, <2>7
<1>10. ASSUME NEW c \in Workers, MarkFails(c) PROVE Calm(e)'
    <2>1. UNCHANGED <<status, delivered, unanswered, claimed, current>>
        BY <1>10 DEF MarkFails
    <2>2. \A s \in current[c] : s.event # e
        BY <1>10 DEF MarkFails
    <2>3. \A d \in Workers : d # c => stage'[d] = stage[d]
        BY <1>10 DEF MarkFails, OutboxTypeOK
    <2> QED BY <1>b, <2>1, <2>2, <2>3, CalmKept
<1>11. ASSUME NEW c \in Workers, RecordFailure(c) PROVE Calm(e)'
    <2>1. PICK r \in current[c] :
            status' = SetStatus({r.event}, IF DeadAfter(r) THEN "DEAD_LETTER" ELSE "PENDING")
        BY <1>11 DEF RecordFailure
    <2>2. /\ UNCHANGED <<delivered, unanswered, claimed>> /\ current' = [current EXCEPT ![c] = {}]
          /\ stage[c] = "failed" /\ stage' = [stage EXCEPT ![c] = "working"]
        BY <1>11 DEF RecordFailure
    <2>3. \A d \in Workers : d # c => current'[d] = current[d] /\ stage'[d] = stage[d]
        BY <2>2 DEF OutboxTypeOK
    <2>4. current'[c] = {}
        BY <2>2 DEF OutboxTypeOK
    <2>5. CASE e # r.event
        <3>1. status'[e] = status[e]
            BY <2>1, <2>5 DEF SetStatus
        <3> QED BY <1>b, <2>2, <2>3, <2>4, <3>1, CalmKept
    <2>6. CASE e = r.event
        <3>1. status[e] = "PROCESSING"
            BY <1>b, <2>6 DEF Calm, Hand
        <3>2. ~AboutToMark(e)
            BY <1>b, <2>2, <2>6 DEF Calm, Hand, AboutToMark
        <3>3. ~(delivered'[e] > unanswered'[e]) /\ delivered'[e] <= 1 + unanswered'[e]
            BY <1>b, <2>2, <3>1, <3>2 DEF Calm
        <3>4. \A d \in Workers : \A s \in Hand(d)' : s.event # e
            BY <1>b, <2>2, <2>3, <2>4, <2>6 DEF Calm, Hand
        <3> QED BY <3>3, <3>4 DEF Calm, Hand
    <2> QED BY <2>5, <2>6
<1>12. ASSUME NEW S \in SUBSET Workers, StopCycles(S) PROVE Calm(e)'
    <2>1. UNCHANGED <<status, delivered, unanswered>>
        BY <1>12 DEF StopCycles
    <2>2. \A d \in Workers : claimed'[d] \subseteq claimed[d] /\ current'[d] \subseteq current[d]
        BY <1>12 DEF StopCycles
    <2>3. \A d \in Workers : stage[d] = "delivered" =>
            \A r \in current[d] : r.event = e => d \notin S
        <3> SUFFICES ASSUME NEW d \in Workers, stage[d] = "delivered",
                            NEW r \in current[d], r.event = e, d \in S
                     PROVE  FALSE
            OBVIOUS
        <3>1. r \in UNION {current[c] : c \in {f \in S : stage[f] = "delivered"}}
            OBVIOUS
        <3> QED BY <1>12, <3>1 DEF StopCycles
    <2>4. \A d \in Workers : d \notin S => stage'[d] = stage[d] /\ current'[d] = current[d]
        BY <1>12 DEF StopCycles
    <2> QED BY <1>b, <2>1, <2>2, <2>3, <2>4, CalmKept
<1>13. ASSUME NEW q \in Requeuers, RequeueWrite(q) PROVE Calm(e)'
    <2>1. UNCHANGED <<delivered, unanswered, cycles>>
        BY <1>13 DEF RequeueWrite
    <2>2. CASE e \notin candidates[q]
        <3>1. status'[e] = status[e]
            BY <1>13, <2>2, StatusSet DEF RequeueWrite
        <3> QED BY <1>b, <2>1, <3>1, CalmKept
    <2>3. CASE e \in candidates[q]
        <3>1. status[e] = "DEAD_LETTER"
            BY <1>13, <2>3 DEF RequeueWrite
        <3> QED BY <1>b, <2>1, <3>1, CalmWhenMoved
    <2> QED BY <2>2, <2>3
<1>14. CASE UNCHANGED <<status, delivered, unanswered, cycles>>
    BY <1>b, <1>14, CalmKept
<1> QED BY <1>1, <1>2, <1>3, <1>4, <1>5, <1>6, <1>7, <1>7a, <1>8, <1>9, <1>10, <1>11,
       <1>12, <1>13, <1>14
        DEF OutboxNext, Work, Others, outboxVars, RequeueRead, BackoffEnds, GrowOld, OutboxTick

(***************************************************************************)
(* An event is delivered once more for each delivery that was taken for a  *)
(* failure, and beyond that only if a cycle stopped between delivering it  *)
(* and marking it, the recovery took it from a cycle that was slow and not *)
(* dead, or two requeues raced for it.                                     *)
(***************************************************************************)
THEOREM NoOtherDuplicates == OutboxSpec => []DuplicatesAreExplained
<1>1. OutboxInit => OutboxTypeOK /\ DeliveryInvariant /\ CalmInvariant
    BY OutboxTypeInit, DeliveryInit, CalmInit
<1>2. OutboxTypeOK /\ DeliveryInvariant /\ CalmInvariant /\ [OutboxNext]_outboxVars
        => OutboxTypeOK' /\ DeliveryInvariant' /\ CalmInvariant'
    BY OutboxTypePreserved, DeliveryPreserved, CalmPreserved
<1>3. OutboxTypeOK /\ CalmInvariant => DuplicatesAreExplained
    BY DEF OutboxTypeOK, CalmInvariant, Calm, DuplicatesAreExplained
<1> QED BY <1>1, <1>2, <1>3, PTL DEF OutboxSpec
=============================================================================
