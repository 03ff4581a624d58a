------------------------------ MODULE SagaProofs ------------------------------
(***************************************************************************)
(* ConfirmationSaga, for any number of workers, attempts and faults.       *)
(*                                                                         *)
(* 1. The money: it implements SagaContract.  The argument is about the    *)
(*    payment's row.  It is written after the debit and never taken back;  *)
(*    a step counts as SUCCEEDED, is undone or is left behind only over    *)
(*    it; and a booking that has it and is still payable is one that its   *)
(*    payment is about to confirm, or one that a fault has left.  What the *)
(*    workers write to the saga's rows does not come into it.              *)
(* 2. The types, of which one part is no matter of course: startedAt       *)
(*    orders the steps, whoever restarts them.                             *)
(* 3. What is recorded as done: in the catalogue's order, over a payment.  *)
(* 4. A failed booking has nothing left.  Whatever a step does is recorded *)
(*    before the next one starts; the steps read for undoing are all that  *)
(*    are recorded; and each undoes what it did, the ticket before the     *)
(*    money.                                                               *)
(* 5. A confirmed booking is complete, when nothing stops or throws.       *)
(* 6. Its ticket is the caller's: issued by one that books at a supplier.  *)
(***************************************************************************)
EXTENDS ConfirmationSaga, FiniteSetTheorems, TLAPS

-----------------------------------------------------------------------------
(***************************************************************************)
(* 1. The money.                                                           *)
(***************************************************************************)

Statuses == {"none", "RUNNING", "SUCCEEDED", "FAILED", "COMPENSATED"}

(* Where the coordinator works on a step; past the payment; and before a   *)
(* booking can have failed.                                                *)
InStep == {"enter", "act", "debited", "recorded", "confirmed", "acted", "failed"}
Closing == {"confirm", "announce", "finish"}

MoneyTypes ==
    /\ posted \in [{"debit", "refund", "revenue"} -> Nat]
    /\ row \in [Steps -> Statuses]
    /\ booking \in {"PAYABLE", "CONFIRMED", "FAILED"}
    /\ payment \in BOOLEAN /\ mislaid \in BOOLEAN
    /\ todo \in Seq(Steps)
    /\ at \in 1..6
    /\ pc \in InStep => at \in 1..5

MoneyMoves ==
    /\ posted["debit"] <= 1 /\ posted["refund"] <= 1
    /\ payment => posted["debit"] = 1
    /\ posted["refund"] = 1 => payment
    /\ booking = "CONFIRMED" => payment
    /\ pc = "debited" => posted["debit"] = 1
    /\ row["pay"] = "SUCCEEDED" => payment
    /\ \A i \in 1..Len(todo) : todo[i] = "pay" => payment

WhereItIs ==
    /\ pc \in {"debited", "recorded", "confirmed"} => at = 2
    /\ pc \in {"debited", "recorded"} => posted["refund"] = 0
    /\ pc \in {"recorded", "confirmed"} => payment
    /\ pc = "acted" /\ at = 2 => payment
    /\ pc \in InStep /\ at > 2 => payment
    /\ pc \in Closing => payment
    /\ pc \notin {"idle", "close"} => booking # "FAILED"
    /\ payment /\ booking = "PAYABLE" => mislaid \/ pc = "recorded"
    /\ pc = "undone" => todo # <<>>

MoneyInvariant == MoneyTypes /\ MoneyMoves /\ WhereItIs

(* The catalogue: the five steps and what each place of it holds.          *)
LEMMA CatalogueSteps ==
    /\ Len(Catalogue) = 5
    /\ \A i \in 1..5 : Catalogue[i] \in Steps /\ (Catalogue[i] = "pay" <=> i = 2)
    /\ Catalogue[1] = "hold" /\ Catalogue[2] = "pay" /\ Catalogue[3] = "supplier"
    /\ Catalogue[4] = "ledger" /\ Catalogue[5] = "invoice"
    /\ "pay" \in Steps
<1>1. Len(Catalogue) = 5
    BY DEF Catalogue
<1>2. /\ Catalogue[1] = "hold" /\ Catalogue[2] = "pay" /\ Catalogue[3] = "supplier"
      /\ Catalogue[4] = "ledger" /\ Catalogue[5] = "invoice"
    BY DEF Catalogue
<1>3. \A i \in 1..5 : Catalogue[i] \in Steps
    BY <1>1 DEF Steps
<1>4. \A i \in 1..5 : i = 1 \/ i = 2 \/ i = 3 \/ i = 4 \/ i = 5
    OBVIOUS
<1> QED BY <1>1, <1>2, <1>3, <1>4

(* A posting is made once, and leaves the others alone.                    *)
LEMMA PostedOnce ==
    ASSUME MoneyTypes, NEW p \in {"debit", "refund", "revenue"}
    PROVE  /\ PostOnce(p) \in [{"debit", "refund", "revenue"} -> Nat]
           /\ \A q \in {"debit", "refund", "revenue"} : q # p => PostOnce(p)[q] = posted[q]
           /\ PostOnce(p)[p] > 0
           /\ posted[p] = 0 => PostOnce(p)[p] = 1
           /\ posted[p] > 0 => PostOnce(p)[p] = posted[p]
BY DEF MoneyTypes, PostOnce

(* The five steps by name.                                                 *)
LEMMA StepsAreFive ==
    /\ Steps = {"hold", "pay", "supplier", "ledger", "invoice"}
    /\ \A i \in 1..5 : Catalogue[i] \in Steps
<1>1. \A i \in 1..5 : i = 1 \/ i = 2 \/ i = 3 \/ i = 4 \/ i = 5
    OBVIOUS
<1>2. Steps = {Catalogue[i] : i \in 1..5}
    BY CatalogueSteps DEF Steps
<1> QED BY <1>1, <1>2, CatalogueSteps

(* There are finitely many steps that are done.                            *)
LEMMA DoneIsFinite == IsFiniteSet(Done) /\ Cardinality(Done) \in Nat
<1>1. IsFiniteSet({} \cup {"hold"} \cup {"pay"} \cup {"supplier"} \cup {"ledger"} \cup {"invoice"})
    BY FS_EmptySet, FS_AddElement
<1>2. Done \subseteq {} \cup {"hold"} \cup {"pay"} \cup {"supplier"} \cup {"ledger"} \cup {"invoice"}
    BY StepsAreFive DEF Done
<1> QED BY <1>1, <1>2, FS_Subset, FS_CardinalityType

(* Only steps that are done are undone.                                    *)
LEMMA UndoneWereDone ==
    ASSUME NEW q \in ToUndo
    PROVE  q \in Seq(Steps) /\ \A i \in 1..Len(q) : row[q[i]] = "SUCCEEDED"
<1>1. PICK n \in Nat : q \in [1..n -> Done]
    BY DoneIsFinite DEF ToUndo, Arrangements
<1>2. q \in Seq(Steps) /\ Len(q) = n
    BY <1>1 DEF Done
<1> QED BY <1>1, <1>2 DEF Done

(* Nothing has moved at first.                                             *)
LEMMA MoneyInit == SagaInit => MoneyInvariant
<1> SUFFICES ASSUME SagaInit PROVE MoneyInvariant
    OBVIOUS
<1>1. MoneyTypes
    <2>1. posted \in [{"debit", "refund", "revenue"} -> Nat] /\ row \in [Steps -> Statuses]
        BY DEF SagaInit, Statuses
    <2>2. todo \in Seq(Steps)
        BY DEF SagaInit
    <2>3. at \in 1..6 /\ (pc \in InStep => at \in 1..5)
        BY DEF SagaInit
    <2> QED BY <2>1, <2>2, <2>3 DEF SagaInit, MoneyTypes
<1>2. MoneyMoves
    BY CatalogueSteps DEF SagaInit, MoneyMoves
<1>3. WhereItIs
    BY DEF SagaInit, WhereItIs, InStep, Closing
<1> QED BY <1>1, <1>2, <1>3 DEF MoneyInvariant

(* The workers write to the saga's rows only, and to none that it was done.*)
LEMMA WorkersLeaveMoney ==
    ASSUME MoneyInvariant,
           UNCHANGED <<booking, posted, payment, pc, at, todo, mislaid>>,
           row' \in [Steps -> Statuses],
           row'["pay"] = "SUCCEEDED" => row["pay"] = "SUCCEEDED"
    PROVE  MoneyInvariant'
<1>1. MoneyTypes'
    BY DEF MoneyInvariant, MoneyTypes
<1>2. MoneyMoves'
    BY DEF MoneyInvariant, MoneyMoves
<1>3. WhereItIs'
    BY DEF MoneyInvariant, WhereItIs
<1> QED BY <1>1, <1>2, <1>3 DEF MoneyInvariant

(* A step of the coordinator that posts and pays nothing, and the facts    *)
(* about where it goes.                                                    *)
LEMMA MoneyStays ==
    ASSUME MoneyInvariant,
           UNCHANGED <<booking, payment>>,
           posted' \in [{"debit", "refund", "revenue"} -> Nat],
           posted'["debit"] = posted["debit"], posted'["refund"] = posted["refund"],
           todo' \in Seq(Steps),
           \A i \in 1..Len(todo') : todo'[i] = "pay" => payment,
           row' \in [Steps -> Statuses],
           row'["pay"] = "SUCCEEDED" => payment,
           mislaid' \in BOOLEAN, mislaid => mislaid',
           payment /\ booking = "PAYABLE" => mislaid' \/ pc' = "recorded",
           at' \in 1..6, pc' \in InStep => at' \in 1..5,
           pc' \in {"debited", "recorded"} => FALSE,
           pc' = "confirmed" => FALSE,
           pc' = "acted" /\ at' = 2 => payment,
           pc' \in InStep /\ at' > 2 => payment,
           pc' \in Closing => payment,
           pc' = "undone" => todo' # <<>>,
           pc' \notin {"idle", "close"} => booking # "FAILED"
    PROVE  MoneyInvariant'
<1>1. MoneyTypes'
    BY DEF MoneyInvariant, MoneyTypes
<1>2. MoneyMoves'
    BY DEF MoneyInvariant, MoneyMoves
<1>3. WhereItIs'
    BY DEF MoneyInvariant, WhereItIs
<1> QED BY <1>1, <1>2, <1>3 DEF MoneyInvariant

(* Every step of the saga, its workers and the queue keeps MoneyInvariant. *)
LEMMA MoneyPreserved == MoneyInvariant /\ [SagaNext]_sagaVars => MoneyInvariant'
<1> SUFFICES ASSUME MoneyInvariant, [SagaNext]_sagaVars PROVE MoneyInvariant'
    OBVIOUS
<1> USE CatalogueSteps DEF effects, worker, counts
<1>t. MoneyTypes /\ MoneyMoves /\ WhereItIs
    BY DEF MoneyInvariant
<1>s. row \in [Steps -> Statuses] /\ Statuses = {"none", "RUNNING", "SUCCEEDED", "FAILED", "COMPENSATED"}
    BY <1>t DEF MoneyTypes, Statuses
<1>i. /\ InStep = {"enter", "act", "debited", "recorded", "confirmed", "acted", "failed"}
      /\ Closing = {"confirm", "announce", "finish"}
    BY DEF InStep, Closing
<1>p. pc \in InStep => Step \in Steps /\ (Step = "pay" <=> at = 2)
    BY <1>t DEF MoneyTypes, Step
<1>1. CASE Begin
    BY <1>1, <1>t, <1>i, MoneyStays DEF Begin, MoneyTypes, MoneyMoves, WhereItIs
<1>2. CASE OpenSaga
    BY <1>2, <1>t, <1>i, MoneyStays DEF OpenSaga, MoneyTypes, MoneyMoves, WhereItIs
<1>3. CASE Enter
    <2>0. pc = "enter" /\ at \in 1..5 /\ Step \in Steps /\ (Step = "pay" <=> at = 2)
        BY <1>3, <1>t, <1>i, <1>p DEF Enter, MoneyTypes
    <2>1. CASE row[Step] = "SUCCEEDED" /\ Proceed
        <3>1. at' = at + 1 /\ pc' = IF at + 1 <= 5 THEN "enter" ELSE "confirm"
            BY <2>1 DEF Proceed, Following
        <3>2. UNCHANGED <<row, booking, payment, posted, todo, mislaid>>
            BY <1>3, <2>1 DEF Enter
        <3>3. at >= 2 => payment
            BY <2>0, <2>1, <1>t, <1>i DEF MoneyMoves, WhereItIs
        <3> QED BY <2>0, <3>1, <3>2, <3>3, <1>t, <1>i, MoneyStays
           DEF MoneyTypes, MoneyMoves, WhereItIs
    <2>2. CASE row[Step] # "SUCCEEDED"
        <3>1. row' = [row EXCEPT ![Step] = "RUNNING"] /\ pc' = "act"
              /\ UNCHANGED <<at, booking, payment, posted, todo, mislaid>>
            BY <1>3, <2>2 DEF Enter
        <3>2. row' \in [Steps -> Statuses] /\ (row'["pay"] = "SUCCEEDED" => row["pay"] = "SUCCEEDED")
            BY <3>1, <1>s, <2>0
        <3> QED BY <2>0, <3>1, <3>2, <1>t, <1>i, MoneyStays DEF MoneyTypes, MoneyMoves, WhereItIs
    <2> QED BY <1>3, <2>1, <2>2 DEF Enter
<1>4. CASE Act
    <2>1. /\ pc = "act" /\ pc' = "acted" /\ at # 2 /\ at \in 1..5
          /\ UNCHANGED <<at, row, booking, payment, todo, mislaid>>
        BY <1>4, <1>t, <1>i, <1>p DEF Act, MoneyTypes
    <2>2. posted' = posted \/ posted' = PostOnce("revenue")
        BY <1>4 DEF Act
    <2>3. /\ posted' \in [{"debit", "refund", "revenue"} -> Nat]
          /\ posted'["debit"] = posted["debit"] /\ posted'["refund"] = posted["refund"]
        <3>1. CASE posted' = posted
            BY <3>1, <1>t DEF MoneyTypes
        <3>2. CASE posted' = PostOnce("revenue")
            BY <3>2, <1>t, PostedOnce
        <3> QED BY <2>2, <3>1, <3>2
    <2> QED BY <2>1, <2>3, <1>t, <1>i, MoneyStays DEF MoneyTypes, MoneyMoves, WhereItIs
<1>5. CASE Debit
    <2>0. /\ pc = "act" /\ at = 2 /\ UNCHANGED <<at, row, booking, payment, todo, mislaid>>
          /\ booking # "FAILED"
        BY <1>5, <1>t, <1>i, <1>p DEF Debit, WhereItIs
    <2>1. CASE payment /\ pc' = "acted" /\ posted' = posted
        BY <2>0, <2>1, <1>t, <1>i, MoneyStays DEF MoneyTypes, MoneyMoves, WhereItIs
    <2>2. CASE ~payment /\ pc' = "debited" /\ posted' = PostOnce("debit")
        <3>1. /\ posted' \in [{"debit", "refund", "revenue"} -> Nat]
              /\ posted'["refund"] = posted["refund"] /\ posted'["debit"] = 1
            <4>1. posted["debit"] \in Nat /\ posted["debit"] <= 1
                BY <1>t DEF MoneyTypes, MoneyMoves
            <4>2. posted["debit"] = 0 \/ posted["debit"] = 1
                BY <4>1
            <4> QED BY <2>2, <4>2, <1>t, PostedOnce
        <3>2. MoneyTypes'
            BY <2>0, <2>2, <3>1, <1>t, <1>i DEF MoneyTypes
        <3>3. MoneyMoves'
            BY <2>0, <2>2, <3>1, <1>t DEF MoneyTypes, MoneyMoves
        <3>4. posted["refund"] = 0
            <4>1. posted["refund"] \in Nat /\ posted["refund"] <= 1 /\ posted["refund"] # 1
                BY <2>2, <1>t DEF MoneyTypes, MoneyMoves
            <4> QED BY <4>1
        <3>5. WhereItIs'
            BY <2>0, <2>2, <3>1, <3>4, <1>t, <1>i DEF WhereItIs
        <3> QED BY <3>2, <3>3, <3>5 DEF MoneyInvariant
    <2> QED BY <1>5, <2>1, <2>2 DEF Debit
<1>6. CASE RecordPayment
    <2>0. /\ pc = "debited" /\ pc' = "recorded" /\ at = 2 /\ payment' = TRUE /\ posted["debit"] = 1
          /\ booking # "FAILED"
          /\ UNCHANGED <<at, row, booking, posted, todo, mislaid>>
        BY <1>6, <1>t DEF RecordPayment, WhereItIs, MoneyMoves
    <2>1. MoneyTypes'
        BY <2>0, <1>t, <1>i DEF MoneyTypes
    <2>2. MoneyMoves'
        BY <2>0, <1>t DEF MoneyMoves
    <2>3. WhereItIs'
        BY <2>0, <1>t, <1>i DEF WhereItIs
    <2> QED BY <2>1, <2>2, <2>3 DEF MoneyInvariant
<1>7. CASE ConfirmByPayment \/ ConfirmBooking
    <2>0. /\ booking' = "CONFIRMED" /\ payment
          /\ \/ pc' = "confirmed" /\ at = 2
             \/ pc' = "announce"
          /\ UNCHANGED <<at, row, posted, payment, todo, mislaid>>
        BY <1>7, <1>t, <1>i DEF ConfirmByPayment, ConfirmBooking, WhereItIs
    <2>1. MoneyTypes'
        BY <2>0, <1>t, <1>i DEF MoneyTypes
    <2>2. MoneyMoves'
        BY <2>0, <1>t DEF MoneyMoves
    <2>3. WhereItIs'
        BY <2>0, <1>t, <1>i DEF WhereItIs
    <2> QED BY <2>1, <2>2, <2>3 DEF MoneyInvariant
<1>8. CASE RealizeRevenue
    <2>1. /\ pc = "confirmed" /\ pc' = "acted" /\ at = 2 /\ payment
          /\ UNCHANGED <<at, row, booking, payment, todo, mislaid>>
        BY <1>8, <1>t DEF RealizeRevenue, WhereItIs
    <2>2. posted' = posted \/ posted' = PostOnce("revenue")
        BY <1>8 DEF RealizeRevenue
    <2>3. /\ posted' \in [{"debit", "refund", "revenue"} -> Nat]
          /\ posted'["debit"] = posted["debit"] /\ posted'["refund"] = posted["refund"]
        <3>1. CASE posted' = posted
            BY <3>1, <1>t DEF MoneyTypes
        <3>2. CASE posted' = PostOnce("revenue")
            BY <3>2, <1>t, PostedOnce
        <3> QED BY <2>2, <3>1, <3>2
    <2> QED BY <2>1, <2>3, <1>t, <1>i, MoneyStays DEF MoneyTypes, MoneyMoves, WhereItIs
<1>9. CASE StepSucceeds
    <2>0. pc = "acted" /\ at \in 1..5 /\ Step \in Steps /\ (Step = "pay" <=> at = 2)
        BY <1>9, <1>t, <1>i, <1>p DEF StepSucceeds, MoneyTypes
    <2>1. at' = at + 1 /\ pc' = IF at + 1 <= 5 THEN "enter" ELSE "confirm"
        BY <1>9 DEF StepSucceeds, Proceed, Following
    <2>2. row' = [row EXCEPT ![Step] = "SUCCEEDED"] /\ UNCHANGED <<booking, payment, posted, todo, mislaid>>
        BY <1>9 DEF StepSucceeds
    <2>3. at >= 2 => payment
        BY <2>0, <1>t, <1>i DEF WhereItIs
    <2>4. row' \in [Steps -> Statuses] /\ (row'["pay"] = "SUCCEEDED" => payment)
        BY <2>0, <2>2, <2>3, <1>s, <1>t DEF MoneyMoves
    <2> QED BY <2>0, <2>1, <2>2, <2>3, <2>4, <1>t, <1>i, MoneyStays
            DEF MoneyTypes, MoneyMoves, WhereItIs
<1>10. CASE Refused \/ Throws
    <2>1. /\ pc \in InStep /\ pc' = "failed" /\ (pc = "recorded" => mislaid') /\ (mislaid => mislaid')
          /\ mislaid' \in BOOLEAN
          /\ UNCHANGED <<at, row, booking, payment, posted, todo>>
        BY <1>10, <1>t, <1>i DEF Refused, Throws, MoneyTypes
    <2>2. pc # "idle" /\ pc # "close"
        BY <2>1, <1>i
    <2>3. at = 2 \/ at \in 1..5
        BY <2>1, <1>t DEF MoneyTypes
    <2> QED BY <2>1, <2>2, <1>t, <1>i, MoneyStays DEF MoneyTypes, MoneyMoves, WhereItIs
<1>11. CASE StepFails
    <2>1. /\ pc = "failed" /\ pc' = "compensate" /\ row' = [row EXCEPT ![Step] = "FAILED"]
          /\ UNCHANGED <<at, booking, payment, posted, todo, mislaid>>
        BY <1>11 DEF StepFails
    <2>2. row' \in [Steps -> Statuses] /\ (row'["pay"] = "SUCCEEDED" => row["pay"] = "SUCCEEDED")
        BY <2>1, <1>s, <1>p, <1>i
    <2> QED BY <2>1, <2>2, <1>t, <1>i, MoneyStays DEF MoneyTypes, MoneyMoves, WhereItIs
<1>12. CASE BeginUndoing
    <2>1. /\ pc = "compensate" /\ pc' = "undo" /\ todo' \in ToUndo
          /\ UNCHANGED <<at, row, booking, payment, posted, mislaid>>
        BY <1>12 DEF BeginUndoing
    <2>2. todo' \in Seq(Steps) /\ \A i \in 1..Len(todo') : row[todo'[i]] = "SUCCEEDED"
        BY <2>1, UndoneWereDone
    <2>3. \A i \in 1..Len(todo') : todo'[i] = "pay" => payment
        BY <2>2, <1>t DEF MoneyMoves
    <2> QED BY <2>1, <2>2, <2>3, <1>t, <1>i, MoneyStays DEF MoneyTypes, MoneyMoves, WhereItIs
<1>13. CASE Undo
    <2>1. /\ pc = "undo" /\ pc' = "undone" /\ todo # <<>>
          /\ UNCHANGED <<at, row, booking, payment, todo, mislaid>>
        BY <1>13 DEF Undo
    <2>2. CASE posted' = posted
        BY <2>1, <2>2, <1>t, <1>i, MoneyStays DEF MoneyTypes, MoneyMoves, WhereItIs
    <2>3. CASE posted' # posted
        <3>1. Head(todo) = "pay" /\ posted' = PostOnce("refund")
            BY <1>13, <2>3 DEF Undo
        <3>2. Len(todo) > 0 /\ Head(todo) = todo[1]
            BY <2>1, <1>t DEF MoneyTypes
        <3>3. payment
            BY <3>1, <3>2, <1>t DEF MoneyMoves, MoneyTypes
        <3>4. /\ posted' \in [{"debit", "refund", "revenue"} -> Nat]
              /\ posted'["debit"] = posted["debit"] /\ posted'["refund"] = 1
            <4>1. posted["refund"] \in Nat /\ posted["refund"] <= 1
                BY <1>t DEF MoneyTypes, MoneyMoves
            <4>2. posted["refund"] = 0 \/ posted["refund"] = 1
                BY <4>1
            <4> QED BY <3>1, <4>2, <1>t, PostedOnce
        <3>5. MoneyTypes'
            BY <2>1, <3>4, <1>t, <1>i DEF MoneyTypes
        <3>6. MoneyMoves'
            BY <2>1, <3>3, <3>4, <1>t DEF MoneyTypes, MoneyMoves
        <3>7. WhereItIs'
            BY <2>1, <1>t, <1>i DEF WhereItIs
        <3> QED BY <3>5, <3>6, <3>7 DEF MoneyInvariant
    <2> QED BY <2>2, <2>3
<1>14. CASE MarkUndone \/ UndoThrows
    <2>1. /\ pc \in {"undo", "undone"} /\ pc' = "undo" /\ todo' = Tail(todo) /\ todo # <<>>
          /\ mislaid' \in BOOLEAN /\ (mislaid => mislaid')
          /\ UNCHANGED <<at, booking, payment, posted>>
        BY <1>14, <1>t DEF MarkUndone, UndoThrows, MoneyTypes, WhereItIs
    <2>2. /\ todo \in Seq(Steps) /\ Len(todo) \in Nat /\ Len(todo) > 0 /\ Head(todo) \in Steps
        BY <2>1, <1>t DEF MoneyTypes
    <2>3. /\ todo' \in Seq(Steps) /\ Len(todo') = Len(todo) - 1
          /\ \A i \in 1..Len(todo') : todo'[i] = todo[i + 1] /\ i + 1 \in 1..Len(todo)
        BY <2>1, <2>2
    <2>4. \A i \in 1..Len(todo') : todo'[i] = "pay" => payment
        BY <2>3, <1>t DEF MoneyMoves
    <2>5. row' = row \/ row' = [row EXCEPT ![Head(todo)] = "COMPENSATED"]
        BY <1>14 DEF MarkUndone, UndoThrows
    <2>6. row' \in [Steps -> Statuses] /\ (row'["pay"] = "SUCCEEDED" => row["pay"] = "SUCCEEDED")
        BY <2>2, <2>5, <1>s
    <2> QED BY <2>1, <2>3, <2>4, <2>6, <1>t, <1>i, MoneyStays
       DEF MoneyTypes, MoneyMoves, WhereItIs
<1>15. CASE FailBooking
    <2>0. /\ pc' = "close" /\ booking' = "FAILED"
          /\ UNCHANGED <<at, row, posted, payment, todo, mislaid>>
        BY <1>15 DEF FailBooking
    <2>1. MoneyTypes'
        BY <2>0, <1>t, <1>i DEF MoneyTypes
    <2>2. MoneyMoves'
        BY <2>0, <1>t DEF MoneyMoves
    <2>3. WhereItIs'
        BY <2>0, <1>t, <1>i DEF WhereItIs
    <2> QED BY <2>1, <2>2, <2>3 DEF MoneyInvariant
<1>16. CASE CloseFailed \/ Announce \/ Finish \/ Stop
    <2>1. /\ pc' = "idle" \/ (pc = "announce" /\ pc' = "finish")
          /\ mislaid' \in BOOLEAN /\ (mislaid => mislaid') /\ (pc = "recorded" => mislaid')
          /\ UNCHANGED <<at, row, booking, payment, posted, todo>>
        BY <1>16, <1>t DEF CloseFailed, Announce, Finish, Stop, MoneyTypes
    <2> QED BY <2>1, <1>t, <1>i, MoneyStays DEF MoneyTypes, MoneyMoves, WhereItIs
<1>17. ASSUME NEW w \in Workers, WorkSaga(w) \/ WorkerStops(w) PROVE MoneyInvariant'
    <2>1. UNCHANGED <<booking, posted, payment, pc, at, todo, mislaid>>
        BY <1>17 DEF WorkSaga, WorkerStops, Fetch, MarkRunning, FailStep, Reverse, MarkReversed,
                     CloseSaga, coordinator
    <2>2. \/ row' = row
          \/ \E s \in Steps : row' = [row EXCEPT ![s] = "FAILED"]
          \/ \E s \in Steps : row' = [row EXCEPT ![s] = "COMPENSATED"]
        BY <1>17 DEF WorkSaga, WorkerStops, Fetch, MarkRunning, FailStep, Reverse, MarkReversed,
                     CloseSaga, Unfinished
    <2>3. row' \in [Steps -> Statuses] /\ (row'["pay"] = "SUCCEEDED" => row["pay"] = "SUCCEEDED")
        BY <2>2, <1>s
    <2> QED BY <2>1, <2>3, WorkersLeaveMoney
<1>18. CASE HoldLapses \/ UNCHANGED sagaVars
    BY <1>18, <1>s, WorkersLeaveMoney DEF HoldLapses, sagaVars
<1> QED BY <1>1, <1>2, <1>3, <1>4, <1>5, <1>6, <1>7, <1>8, <1>9, <1>10, <1>11, <1>12, <1>13,
   <1>14,
           <1>15, <1>16, <1>17, <1>18 DEF SagaNext, Coordinate

(***************************************************************************)
(* The money and the verdict, whatever else is going on.                   *)
(***************************************************************************)
THEOREM MoneyIsAccountedFor == SagaSpec => []MoneyInvariant
BY MoneyInit, MoneyPreserved, PTL DEF SagaSpec

(***************************************************************************)
(* The refinement.                                                         *)
(***************************************************************************)
Money ==
    IF posted["debit"] = 0 /\ posted["refund"] = 0 THEN "kept"
    ELSE IF posted["debit"] = 1 /\ posted["refund"] = 0 THEN "taken"
    ELSE IF posted["debit"] = 1 /\ posted["refund"] = 1 THEN "returned"
    ELSE "broken"

Verdict ==
    IF booking = "PAYABLE" THEN "open" ELSE IF booking = "CONFIRMED" THEN "confirmed" ELSE "failed"

(* What the specification of the contract says, with names expanded.       *)
LEMMA ContractSpecMeaning ==
    /\ Contract!ContractInit <=> Money = "kept" /\ Verdict = "open" /\ mislaid = FALSE
    /\ Contract!TakeMoney <=>
         /\ Verdict = "open" /\ Money = "kept"
         /\ Money' = "taken" /\ UNCHANGED <<Verdict, mislaid>>
    /\ Contract!ConfirmBooking <=>
         /\ Verdict = "open"
         /\ Money = "taken" \/ (Money = "returned" /\ mislaid)
         /\ Verdict' = "confirmed" /\ UNCHANGED <<Money, mislaid>>
    /\ Contract!ReturnMoney <=>
         /\ Verdict # "failed" /\ Money = "taken"
         /\ Money' = "returned" /\ UNCHANGED <<Verdict, mislaid>>
    /\ Contract!FailBooking <=>
         /\ Verdict # "failed" /\ Verdict' = "failed" /\ UNCHANGED <<Money, mislaid>>
    /\ Contract!BreakOff <=> mislaid' = TRUE /\ UNCHANGED <<Money, Verdict>>
BY DEF Contract!ContractInit, Contract!TakeMoney, Contract!ConfirmBooking, Contract!ReturnMoney,
       Contract!FailBooking, Contract!BreakOff, Money, Verdict

(* What the invariant says in the contract's terms.                        *)
LEMMA MoneyInTerms ==
    ASSUME MoneyInvariant
    PROVE  /\ payment => Money \in {"taken", "returned"}
           /\ posted["debit"] = 0 => Money = "kept"
           /\ posted["debit"] = 1 /\ posted["refund"] = 0 => Money = "taken"
           /\ posted["debit"] = 0 \/ posted["debit"] = 1
           /\ posted["refund"] = 0 \/ posted["refund"] = 1
<1>1. /\ posted["debit"] \in Nat /\ posted["refund"] \in Nat
      /\ posted["debit"] <= 1 /\ posted["refund"] <= 1
    BY DEF MoneyInvariant, MoneyTypes, MoneyMoves
<1>2. (posted["debit"] = 0 \/ posted["debit"] = 1) /\ (posted["refund"] = 0 \/ posted["refund"] = 1)
    BY <1>1
<1>3. payment => posted["debit"] = 1
    BY DEF MoneyInvariant, MoneyMoves
<1>4. posted["refund"] = 1 => posted["debit"] = 1
    BY DEF MoneyInvariant, MoneyMoves
<1> QED BY <1>2, <1>3, <1>4 DEF Money

(* Every step of the saga is a step of the contract, or none.              *)
LEMMA SagaSteps ==
    MoneyInvariant /\ MoneyInvariant' /\ [SagaNext]_sagaVars
        => [Contract!ContractNext]_<<Money, Verdict, mislaid>>
<1> SUFFICES ASSUME MoneyInvariant, MoneyInvariant', [SagaNext]_sagaVars
             PROVE  \/ UNCHANGED <<Money, Verdict, mislaid>>
                    \/ Contract!ContractNext
    OBVIOUS
<1> USE DEF effects, worker, counts, Contract!ContractNext
<1>t. MoneyTypes /\ MoneyMoves /\ WhereItIs
    BY DEF MoneyInvariant
<1>a. ASSUME posted'["debit"] = posted["debit"], posted'["refund"] = posted["refund"]
      PROVE  Money' = Money
    BY <1>a DEF Money
<1>b. ASSUME UNCHANGED booking PROVE Verdict' = Verdict
    BY <1>b DEF Verdict
<1>1. CASE UNCHANGED <<posted, booking>>
    <2>1. mislaid' = mislaid \/ mislaid' = TRUE
        BY <1>1, <1>t DEF SagaNext, Coordinate, WorkSaga, WorkerStops, sagaVars, coordinator,
              Begin, OpenSaga, Enter, Act, Debit, RecordPayment, ConfirmByPayment, RealizeRevenue,
              StepSucceeds, Refused, Throws, StepFails, BeginUndoing, Undo, MarkUndone, UndoThrows,
              FailBooking, CloseFailed, ConfirmBooking, Announce, Finish, Stop, HoldLapses,
              Fetch, MarkRunning, FailStep, Reverse, MarkReversed, CloseSaga, MoneyTypes
    <2>2. Money' = Money /\ Verdict' = Verdict
        BY <1>1, <1>a, <1>b
    <2> QED BY <2>1, <2>2, ContractSpecMeaning
<1>2. CASE Act \/ RealizeRevenue
    <2>1. UNCHANGED <<booking, mislaid>> /\ (posted' = posted \/ posted' = PostOnce("revenue"))
        BY <1>2 DEF Act, RealizeRevenue
    <2>2. posted'["debit"] = posted["debit"] /\ posted'["refund"] = posted["refund"]
        BY <2>1, <1>t, PostedOnce
    <2> QED BY <2>1, <2>2, <1>a, <1>b
<1>3. CASE Debit /\ posted' # posted
    <2>1. posted' = PostOnce("debit") /\ ~payment /\ UNCHANGED <<booking, mislaid>> /\ pc = "act"
        BY <1>3 DEF Debit
    <2>2. CASE posted["debit"] = 0
        <3>1. posted'["debit"] = 1 /\ posted'["refund"] = posted["refund"]
            BY <2>1, <2>2, <1>t, PostedOnce
        <3>2. posted["refund"] = 0 /\ Money = "kept"
            BY <2>1, <2>2, <1>t, MoneyInTerms DEF MoneyMoves
        <3>3. Money' = "taken"
            BY <3>1, <3>2 DEF Money
        <3>4. booking = "PAYABLE"
            BY <2>1, <1>t DEF MoneyTypes, MoneyMoves, WhereItIs
        <3>5. Verdict = "open" /\ Verdict' = Verdict
            BY <3>4, <2>1, <1>b DEF Verdict
        <3> QED BY <2>1, <3>2, <3>3, <3>5, ContractSpecMeaning
    <2>3. CASE posted["debit"] = 1
        <3>1. posted' = posted
            BY <2>1, <2>3 DEF PostOnce
        <3> QED BY <1>3, <3>1
    <2> QED BY <2>2, <2>3, MoneyInTerms
<1>4. CASE Undo /\ posted' # posted
    <2>1. /\ posted' = PostOnce("refund") /\ Head(todo) = "pay" /\ todo # <<>> /\ pc = "undo"
          /\ UNCHANGED <<booking, mislaid>>
        BY <1>4 DEF Undo
    <2>2. payment
        <3>1. Len(todo) > 0 /\ Head(todo) = todo[1]
            BY <2>1, <1>t DEF MoneyTypes
        <3> QED BY <2>1, <3>1, <1>t DEF MoneyMoves, MoneyTypes
    <2>3. posted["refund"] = 0
        <3>1. CASE posted["refund"] = 1
            BY <1>4, <2>1, <3>1 DEF PostOnce
        <3> QED BY <3>1, MoneyInTerms
    <2>4. posted["debit"] = 1 /\ posted'["debit"] = 1 /\ posted'["refund"] = 1
        BY <2>1, <2>2, <2>3, <1>t, PostedOnce DEF MoneyMoves
    <2>5. Money = "taken" /\ Money' = "returned"
        BY <2>3, <2>4 DEF Money
    <2>6. Verdict # "failed" /\ Verdict' = Verdict
        BY <2>1, <1>t, <1>b DEF Verdict, WhereItIs, MoneyTypes
    <2> QED BY <2>1, <2>5, <2>6, ContractSpecMeaning
<1>5. CASE ConfirmByPayment \/ ConfirmBooking
    <2>1. /\ pc \in {"recorded", "confirm"} /\ booking' = "CONFIRMED" /\ UNCHANGED <<posted, mislaid>>
        BY <1>5 DEF ConfirmByPayment, ConfirmBooking
    <2>2. payment /\ booking # "FAILED"
        BY <2>1, <1>t DEF WhereItIs, Closing
    <2>3. Money' = Money /\ Verdict' = "confirmed"
        BY <2>1, <1>a DEF Verdict
    <2>4. CASE booking = "CONFIRMED"
        BY <2>1, <2>3, <2>4 DEF Verdict
    <2>5. CASE booking = "PAYABLE"
        <3>1. Money \in {"taken", "returned"} /\ Verdict = "open"
            BY <2>2, <2>5, MoneyInTerms DEF Verdict
        <3>2. Money = "returned" => mislaid
            <4>1. pc = "confirm" => mislaid
                BY <2>2, <2>5, <1>t DEF WhereItIs
            <4>2. pc = "recorded" => Money = "taken"
                BY <2>2, <1>t, MoneyInTerms DEF WhereItIs, MoneyMoves
            <4> QED BY <2>1, <3>1, <4>1, <4>2
        <3> QED BY <2>1, <2>3, <3>1, <3>2, ContractSpecMeaning
    <2> QED BY <2>2, <2>4, <2>5, <1>t DEF MoneyTypes
<1>6. CASE FailBooking
    <2>1. booking' = "FAILED" /\ pc = "undo" /\ UNCHANGED <<posted, mislaid>>
        BY <1>6 DEF FailBooking
    <2>2. Verdict # "failed" /\ Verdict' = "failed" /\ Money' = Money
        BY <2>1, <1>t, <1>a DEF Verdict, WhereItIs, MoneyTypes
    <2> QED BY <2>1, <2>2, ContractSpecMeaning
<1> QED BY <1>1, <1>2, <1>3, <1>4, <1>5, <1>6
        DEF SagaNext, Coordinate, WorkSaga, WorkerStops, sagaVars, coordinator,
              Begin, OpenSaga, Enter, Act, Debit, RecordPayment, RealizeRevenue,
              StepSucceeds, Refused, Throws, StepFails, BeginUndoing, Undo, MarkUndone, UndoThrows,
              CloseFailed, Announce, Finish, Stop, HoldLapses,
              Fetch, MarkRunning, FailStep, Reverse, MarkReversed, CloseSaga

(***************************************************************************)
(* The coordinator and whatever runs beside it keep the contract: the      *)
(* price is taken once, given back once and only if it was taken, and a    *)
(* booking is confirmed over it.                                           *)
(***************************************************************************)
THEOREM SagaImplementsContract == SagaSpec => ImplementsContract
<1>1. SagaInit => Contract!ContractInit
    BY ContractSpecMeaning DEF SagaInit, Money, Verdict
<1>2. MoneyInvariant /\ MoneyInvariant' /\ [SagaNext]_sagaVars
        => [Contract!ContractNext]_(Contract!contractVars)
    BY SagaSteps DEF Contract!contractVars, Money, Verdict
<1> QED BY <1>1, <1>2, MoneyIsAccountedFor, PTL
   DEF SagaSpec, ImplementsContract, Contract!ContractSpec

-----------------------------------------------------------------------------
(***************************************************************************)
(* 2. The types and the order of the steps.                                *)
(***************************************************************************)

(* In a step the coordinator is in one of the five.                        *)
LEMMA StepByNumber ==
    ASSUME at \in 1..5
    PROVE  /\ Step \in Steps
           /\ Step = "hold" <=> at = 1
           /\ Step = "pay" <=> at = 2
           /\ Step = "supplier" <=> at = 3
           /\ Step = "ledger" <=> at = 4
           /\ Step = "invoice" <=> at = 5
<1>1. at = 1 \/ at = 2 \/ at = 3 \/ at = 4 \/ at = 5
    OBVIOUS
<1> QED BY <1>1, CatalogueSteps, StepsAreFive DEF Step

(* A step that has a row keeps it.                                         *)
RowsStay ==
    /\ pc \in InStep \ {"enter"} => row[Step] # "none"
    /\ \A i \in 1..Len(todo) : row[todo[i]] # "none"
    /\ \A w \in Workers : \A s \in Steps : seen[w].row[s] # "none" => row[s] # "none"

(* A step that is started comes after all others that have a row.          *)
LEMMA RestartedIsLatest ==
    ASSUME StartedInOrder, row \in [Steps -> Statuses], NEW s \in Steps,
           NEW status \in Statuses \ {"none"},
           earlier' = Restarted(s), row' = [row EXCEPT ![s] = status]
    PROVE  StartedInOrder'
<1>1. Begun' = Begun \cup {s} /\ Begun \subseteq Steps
    BY DEF Begun, Statuses
<1>2. earlier' = [t \in Steps |-> IF t = s THEN Begun \ {s} ELSE earlier[t] \ {s}]
    BY DEF Restarted
<1>3. \A t \in Steps : earlier[t] \subseteq Begun
    BY DEF StartedInOrder
<1>4. (earlier \in [Steps -> SUBSET Begun])'
    BY <1>1, <1>2, <1>3
<1>5. (\A t \in Steps : t \notin earlier[t] /\ (t \notin Begun => earlier[t] = {}))'
    BY <1>1, <1>2 DEF StartedInOrder
<1>6. (\A t, u \in Begun : t # u => (t \in earlier[u] <=> u \notin earlier[t]))'
    BY <1>1, <1>2, <1>3 DEF StartedInOrder
<1>7. (\A t \in Begun : \A u \in earlier[t] : earlier[u] \subseteq earlier[t])'
    <2> SUFFICES ASSUME NEW t \in Begun \cup {s}, NEW u \in earlier'[t], NEW v \in earlier'[u]
                 PROVE  v \in earlier'[t]
        BY <1>1
    <2>1. u # s /\ u \in Steps /\ v # s /\ v \in earlier[u] /\ v \in Begun
        BY <1>1, <1>2, <1>3
    <2>2. CASE t = s
        BY <2>1, <2>2, <1>2
    <2>3. CASE t # s
        BY <2>1, <2>3, <1>1, <1>2 DEF StartedInOrder
    <2> QED BY <2>2, <2>3
<1> QED BY <1>4, <1>5, <1>6, <1>7 DEF StartedInOrder

(* A change of what a row says leaves the order alone.                     *)
LEMMA OrderStays ==
    ASSUME StartedInOrder, row \in [Steps -> Statuses], UNCHANGED earlier,
           \A s \in Steps : row'[s] = "none" <=> row[s] = "none"
    PROVE  StartedInOrder'
<1>1. Begun' = Begun
    BY DEF Begun
<1> QED BY <1>1, Zenon DEF StartedInOrder

(* A row of the catalogue gets another status.                             *)
LEMMA RowsStayRows ==
    ASSUME row \in [Steps -> Statuses], NEW s \in Steps, NEW status \in Statuses \ {"none"},
           row' = [row EXCEPT ![s] = status]
    PROVE  /\ row' \in [Steps -> Statuses]
           /\ \A t \in Steps : row[t] # "none" => row'[t] # "none"
           /\ row[s] # "none" => \A t \in Steps : row'[t] = "none" <=> row[t] = "none"
BY DEF Statuses

(* Every step that is done is undone, once, the latest first: an ordered   *)
(* arrangement does not repeat a step, so it is onto.                      *)
LEMMA EveryDoneStepIsUndone ==
    ASSUME StartedInOrder, NEW q \in ToUndo
    PROVE  /\ \A i, j \in 1..Len(q) : i < j => q[j] \in earlier[q[i]]
           /\ \A s \in Done : \E j \in 1..Len(q) : q[j] = s
<1>1. IsFiniteSet(Done) /\ Cardinality(Done) \in Nat
    BY DoneIsFinite
<1>2. /\ q \in [1..Cardinality(Done) -> Done]
      /\ \A i, j \in DOMAIN q : i < j => q[j] \in earlier[q[i]]
    BY DEF ToUndo, Arrangements
<1>3. Len(q) = Cardinality(Done) /\ DOMAIN q = 1..Cardinality(Done)
    BY <1>1, <1>2
<1>4. \A s \in Done : s \notin earlier[s]
    BY DEF Done, StartedInOrder
<1>5. \A i, j \in 1..Cardinality(Done) : q[i] = q[j] => i = j
    <2> SUFFICES ASSUME NEW i \in 1..Cardinality(Done), NEW j \in 1..Cardinality(Done), q[i] = q[j],
                        i # j
                 PROVE  FALSE
        OBVIOUS
    <2>1. i < j \/ j < i
        BY <1>1
    <2> QED BY <2>1, <1>2, <1>3, <1>4
<1>6. q \in Injection(1..Cardinality(Done), Done)
    BY <1>2, <1>3, <1>5 DEF Injection, IsInjective
<1>7. Cardinality(1..Cardinality(Done)) = Cardinality(Done)
    BY <1>1, FS_Interval
<1>8. q \in Surjection(1..Cardinality(Done), Done)
    BY <1>1, <1>6, <1>7, FS_Injection
<1> QED BY <1>2, <1>3, <1>8 DEF Surjection

(* The types of what the caller passes and of the ticket.                  *)
TicketTypes ==
    /\ given \subseteq {"call", "void"} /\ pnr \in BOOLEAN
    /\ ticket \in {"NOT_ISSUED", "ISSUING", "ISSUED"}

(* SagaTypeOK without those and without the order of the rows.             *)
PlainTypes ==
    /\ booking \in {"PAYABLE", "CONFIRMED", "FAILED"}
    /\ hold \in {"NONE", "ACTIVE", "CAPTURED", "RELEASED", "EXPIRED"}
    /\ saga \in {"none", "PENDING", "RUNNING", "SUCCEEDED", "COMPENSATING", "COMPENSATED"}
    /\ row \in [Steps -> Statuses]
    /\ payment \in BOOLEAN /\ reserved \in BOOLEAN
    /\ funds \in Nat
    /\ posted \in [{"debit", "refund", "revenue"} -> Nat]
    /\ invoices \in Seq({"ISSUED", "VOIDED"}) /\ announced \in Nat
    /\ pc \in InStep \cup Closing \cup {"idle", "open", "compensate", "undo", "undone", "close"}
    /\ at \in 1..6
    /\ todo \in Seq(Steps)
    /\ attempts \in 0..MaxAttempts /\ faults \in 0..MaxFaults
    /\ wpc \in [Workers -> {"idle", "fetched", "marked", "failed", "reversing"}]
    /\ seen \in [Workers -> [saga : {"none", "PENDING", "RUNNING"}, row : [Steps -> Statuses]]]
    /\ meddled \in BOOLEAN /\ mislaid \in BOOLEAN

(* The types are those and the order.                                      *)
LEMMA TypesInParts == SagaTypeOK <=> PlainTypes /\ TicketTypes /\ StartedInOrder
<1>1. 1..Len(Catalogue) + 1 = 1..6
    BY CatalogueSteps
<1>2. {"idle", "open", "enter", "act", "debited", "recorded", "confirmed",
       "acted", "failed", "compensate", "undo", "undone", "close", "confirm", "announce", "finish"}
      = InStep \cup Closing \cup {"idle", "open", "compensate", "undo", "undone", "close"}
    BY DEF InStep, Closing
<1> QED BY <1>1, <1>2, Zenon DEF SagaTypeOK, PlainTypes, TicketTypes, Statuses

(* What is typed and ordered, and the rows that stay.                      *)
TypeInvariant == PlainTypes /\ StartedInOrder /\ RowsStay

(* No step has a row at first.                                             *)
LEMMA TypeInvariantInit == SagaInit => TypeInvariant
<1> SUFFICES ASSUME SagaInit PROVE TypeInvariant
    OBVIOUS
<1>1. 0 \in 0..MaxAttempts /\ 0 \in 0..MaxFaults
    BY SagaAssumption
<1>2. seen \in [Workers -> [saga : {"none", "PENDING", "RUNNING"}, row : [Steps -> Statuses]]]
    BY DEF SagaInit, NothingSeen, Statuses
<1>3. todo \in Seq(Steps) /\ invoices \in Seq({"ISSUED", "VOIDED"})
    BY DEF SagaInit
<1>4. row \in [Steps -> Statuses] /\ posted \in [{"debit", "refund", "revenue"} -> Nat]
    BY DEF SagaInit, Statuses
<1>8. wpc \in [Workers -> {"idle", "fetched", "marked", "failed", "reversing"}]
    BY DEF SagaInit
<1>9. /\ booking \in {"PAYABLE", "CONFIRMED", "FAILED"}
      /\ hold \in {"NONE", "ACTIVE", "CAPTURED", "RELEASED", "EXPIRED"}
      /\ saga \in {"none", "PENDING", "RUNNING", "SUCCEEDED", "COMPENSATING", "COMPENSATED"}
      /\ funds \in Nat /\ announced \in Nat /\ at \in 1..6
    BY SagaAssumption DEF SagaInit
<1>11. /\ payment \in BOOLEAN /\ reserved \in BOOLEAN /\ meddled \in BOOLEAN /\ mislaid \in BOOLEAN
       /\ attempts \in 0..MaxAttempts /\ faults \in 0..MaxFaults
    BY <1>1, Zenon DEF SagaInit
<1>10. pc \in InStep \cup Closing \cup {"idle", "open", "compensate", "undo", "undone", "close"}
    BY DEF SagaInit
<1>5. PlainTypes
    BY <1>2, <1>3, <1>4, <1>8, <1>9, <1>10, <1>11, Zenon DEF PlainTypes
<1>6. StartedInOrder
    BY DEF SagaInit, StartedInOrder, Begun
<1>7. RowsStay
    BY DEF SagaInit, RowsStay, InStep, NothingSeen
<1> QED BY <1>5, <1>6, <1>7 DEF TypeInvariant

(* A step that starts comes last; nothing else changes the order, and      *)
(* what a worker has seen is still there.                                  *)
LEMMA TypePreserved == TypeInvariant /\ MoneyInvariant /\ [SagaNext]_sagaVars => TypeInvariant'
<1> SUFFICES ASSUME TypeInvariant, MoneyInvariant, [SagaNext]_sagaVars PROVE TypeInvariant'
    OBVIOUS
<1> USE CatalogueSteps, SagaAssumption DEF effects, worker, counts, coordinator
<1>t. /\ PlainTypes /\ StartedInOrder /\ RowsStay
      /\ pc \in InStep => at \in 1..5
      /\ pc = "undone" => todo # <<>>
    BY DEF TypeInvariant, MoneyInvariant, MoneyTypes, WhereItIs
<1>i. /\ InStep = {"enter", "act", "debited", "recorded", "confirmed", "acted", "failed"}
      /\ Closing = {"confirm", "announce", "finish"}
    BY DEF InStep, Closing
<1>o. ASSUME UNCHANGED <<row, earlier>> PROVE StartedInOrder'
    BY <1>o, <1>t, OrderStays DEF PlainTypes
<1>s. pc \in InStep => Step \in Steps
    BY <1>t, StepByNumber
<1>n. ASSUME NEW p \in {"debit", "refund", "revenue"}
      PROVE  PostOnce(p) \in [{"debit", "refund", "revenue"} -> Nat]
    BY <1>t DEF PlainTypes, PostOnce
<1>c. todo # <<>> => Tail(todo) \in Seq(Steps) /\ Head(todo) \in Steps /\ Head(todo) = todo[1]
                     /\ Len(Tail(todo)) = Len(todo) - 1 /\ Len(todo) \in Nat \ {0}
                     /\ \A i \in 1..Len(Tail(todo)) : Tail(todo)[i] = todo[i + 1]
    BY <1>t DEF PlainTypes
<1>1. CASE Begin
    <2>1. PlainTypes' /\ RowsStay' /\ UNCHANGED <<row, earlier>>
        BY <1>1, <1>t, <1>i DEF Begin, PlainTypes, RowsStay, Step
    <2> QED BY <2>1, <1>o DEF TypeInvariant
<1>2. CASE OpenSaga
    <2>1. PlainTypes' /\ RowsStay' /\ UNCHANGED <<row, earlier>>
        BY <1>2, <1>t, <1>i DEF OpenSaga, PlainTypes, RowsStay, Step
    <2> QED BY <2>1, <1>o DEF TypeInvariant
<1>3. CASE Enter
    <2>1. CASE row[Step] = "SUCCEEDED" /\ Proceed /\ UNCHANGED <<row, earlier>>
        <3>1. PlainTypes'
            BY <1>3, <2>1, <1>t, <1>i DEF Enter, PlainTypes, Proceed, Following
        <3>2. RowsStay'
            BY <1>3, <2>1, <1>t, <1>i DEF Enter, RowsStay, Proceed, Following
        <3> QED BY <3>1, <3>2, <2>1, <1>o DEF TypeInvariant
    <2>2. CASE /\ row' = [row EXCEPT ![Step] = "RUNNING"] /\ earlier' = Restarted(Step)
               /\ pc' = "act" /\ UNCHANGED at
        <3>1. "RUNNING" \in Statuses \ {"none"} /\ row \in [Steps -> Statuses] /\ Step \in Steps
            BY <1>3, <1>t, <1>i, <1>s DEF Enter, PlainTypes, Statuses
        <3>2. row' \in [Steps -> Statuses] /\ \A t \in Steps : row[t] # "none" => row'[t] # "none"
            BY <3>1, <2>2, RowsStayRows
        <3>3. PlainTypes'
            BY <1>3, <2>2, <3>2, <1>t, <1>i DEF Enter, PlainTypes
        <3>4. StartedInOrder'
            BY <3>1, <2>2, <1>t, RestartedIsLatest
        <3>5. row'[Step'] # "none"
            BY <3>1, <2>2 DEF Step, Statuses
        <3>6. \A i \in 1..Len(todo) : todo[i] \in Steps
            BY <1>t DEF PlainTypes
        <3>7. RowsStay'
            BY <1>3, <2>2, <3>2, <3>5, <3>6, <1>t DEF Enter, RowsStay
        <3> QED BY <3>3, <3>4, <3>7 DEF TypeInvariant
    <2> QED BY <1>3, <2>1, <2>2 DEF Enter
<1>4. CASE Act
    <2>1. invoices' = invoices \/ invoices' = Append(invoices, "ISSUED")
        BY <1>4 DEF Act
    <2>2. invoices' \in Seq({"ISSUED", "VOIDED"})
        <3>1. ASSUME NEW S, NEW q \in Seq(S), NEW x \in S PROVE Append(q, x) \in Seq(S)
            OBVIOUS
        <3>2. invoices \in Seq({"ISSUED", "VOIDED"}) /\ "ISSUED" \in {"ISSUED", "VOIDED"}
            BY <1>t DEF PlainTypes
        <3> QED BY <2>1, <3>1, <3>2, Zenon
    <2>3. posted' = posted \/ posted' = PostOnce("revenue")
        BY <1>4 DEF Act
    <2>4. posted' \in [{"debit", "refund", "revenue"} -> Nat]
        BY <2>3, <1>t, <1>n DEF PlainTypes
    <2>5. /\ hold' \in {"NONE", "ACTIVE", "CAPTURED", "RELEASED", "EXPIRED"}
          /\ reserved' \in BOOLEAN
          /\ UNCHANGED <<booking, saga, row, earlier, payment, funds, announced, at, todo, counts, worker, mislaid>>
        BY <1>4, <1>t DEF Act, PlainTypes
    <2>6. PlainTypes'
        BY <1>4, <2>2, <2>4, <2>5, <1>t, <1>i DEF Act, PlainTypes
    <2>7. RowsStay'
        BY <1>4, <2>5, <1>t, <1>i DEF Act, RowsStay, Step
    <2> QED BY <2>5, <2>6, <2>7, <1>o DEF TypeInvariant
<1>5. CASE Debit
    <2>1. /\ pc = "act" /\ pc' \in {"acted", "debited"}
          /\ UNCHANGED <<booking, saga, row, earlier, hold, payment, funds, reserved, invoices>>
          /\ UNCHANGED <<announced, at, todo, attempts, faults, worker, mislaid>>
        BY <1>5 DEF Debit
    <2>2. posted' = posted \/ posted' = PostOnce("debit")
        BY <1>5 DEF Debit
    <2>3. posted' \in [{"debit", "refund", "revenue"} -> Nat]
        BY <2>2, <1>t, <1>n DEF PlainTypes
    <2>4. PlainTypes'
        BY <2>1, <2>3, <1>t, <1>i DEF PlainTypes
    <2>5. RowsStay'
        BY <2>1, <1>t, <1>i DEF RowsStay, Step
    <2> QED BY <2>1, <2>4, <2>5, <1>o DEF TypeInvariant
<1>6. CASE RecordPayment
    <2>1. PlainTypes' /\ RowsStay' /\ UNCHANGED <<row, earlier>>
        BY <1>6, <1>t, <1>i DEF RecordPayment, PlainTypes, RowsStay, Step
    <2> QED BY <2>1, <1>o DEF TypeInvariant
<1>7. CASE ConfirmByPayment
    <2>1. PlainTypes' /\ RowsStay' /\ UNCHANGED <<row, earlier>>
        BY <1>7, <1>t, <1>i DEF ConfirmByPayment, PlainTypes, RowsStay, Step
    <2> QED BY <2>1, <1>o DEF TypeInvariant
<1>8. CASE RealizeRevenue
    <2>1. posted' = posted \/ posted' = PostOnce("revenue")
        BY <1>8 DEF RealizeRevenue
    <2>2. posted' \in [{"debit", "refund", "revenue"} -> Nat]
        BY <2>1, <1>t, <1>n DEF PlainTypes
    <2>3. faults' \in 0..MaxFaults
        BY <1>8, <1>t DEF RealizeRevenue, PlainTypes
    <2>4. /\ UNCHANGED <<booking, saga, row, earlier, hold, payment, funds, reserved, invoices>>
          /\ UNCHANGED <<announced, at, todo, attempts, worker, mislaid>>
          /\ pc = "confirmed" /\ pc' = "acted"
        BY <1>8 DEF RealizeRevenue
    <2>5. PlainTypes'
        BY <2>2, <2>3, <2>4, <1>t, <1>i DEF PlainTypes
    <2>6. RowsStay'
        BY <2>4, <1>t, <1>i DEF RowsStay, Step
    <2> QED BY <2>4, <2>5, <2>6, <1>o DEF TypeInvariant
<1>9. CASE StepSucceeds
    <2>1. /\ "SUCCEEDED" \in Statuses \ {"none"} /\ row \in [Steps -> Statuses] /\ Step \in Steps
          /\ row[Step] # "none" /\ row' = [row EXCEPT ![Step] = "SUCCEEDED"] /\ UNCHANGED earlier
        BY <1>9, <1>t, <1>i, <1>s DEF StepSucceeds, PlainTypes, Statuses, RowsStay
    <2>2. /\ row' \in [Steps -> Statuses]
          /\ \A t \in Steps : row[t] # "none" => row'[t] # "none"
          /\ \A t \in Steps : row'[t] = "none" <=> row[t] = "none"
        BY <2>1, RowsStayRows
    <2>3. PlainTypes'
        BY <1>9, <2>2, <1>t, <1>i DEF StepSucceeds, PlainTypes, Proceed, Following
    <2>4. StartedInOrder'
        BY <2>1, <2>2, <1>t, OrderStays
    <2>5. \A i \in 1..Len(todo) : todo[i] \in Steps
        BY <1>t DEF PlainTypes
    <2>6. RowsStay'
        BY <1>9, <2>2, <2>5, <1>t, <1>i DEF StepSucceeds, RowsStay, Proceed, Following
    <2> QED BY <2>3, <2>4, <2>6 DEF TypeInvariant
<1>10. CASE Refused
    <2>1. PlainTypes' /\ RowsStay' /\ UNCHANGED <<row, earlier>>
        BY <1>10, <1>t, <1>i DEF Refused, PlainTypes, RowsStay, Step
    <2> QED BY <2>1, <1>o DEF TypeInvariant
<1>11. CASE Throws
    <2>1. PlainTypes' /\ RowsStay' /\ UNCHANGED <<row, earlier>>
        BY <1>11, <1>t, <1>i DEF Throws, PlainTypes, RowsStay, Step
    <2> QED BY <2>1, <1>o DEF TypeInvariant
<1>12. CASE StepFails
    <2>1. /\ "FAILED" \in Statuses \ {"none"} /\ row \in [Steps -> Statuses] /\ Step \in Steps
          /\ row[Step] # "none" /\ row' = [row EXCEPT ![Step] = "FAILED"] /\ UNCHANGED earlier
        BY <1>12, <1>t, <1>i, <1>s DEF StepFails, PlainTypes, Statuses, RowsStay
    <2>2. /\ row' \in [Steps -> Statuses]
          /\ \A t \in Steps : row[t] # "none" => row'[t] # "none"
          /\ \A t \in Steps : row'[t] = "none" <=> row[t] = "none"
        BY <2>1, RowsStayRows
    <2>3. PlainTypes'
        BY <1>12, <2>2, <1>t, <1>i DEF StepFails, PlainTypes
    <2>4. StartedInOrder'
        BY <2>1, <2>2, <1>t, OrderStays
    <2>5. \A i \in 1..Len(todo) : todo[i] \in Steps
        BY <1>t DEF PlainTypes
    <2>6. RowsStay'
        BY <1>12, <2>2, <2>5, <1>t, <1>i DEF StepFails, RowsStay
    <2> QED BY <2>3, <2>4, <2>6 DEF TypeInvariant
<1>13. CASE BeginUndoing
    <2>1. todo' \in Seq(Steps) /\ \A i \in 1..Len(todo') : row[todo'[i]] = "SUCCEEDED"
        BY <1>13, UndoneWereDone DEF BeginUndoing
    <2>2. PlainTypes'
        BY <1>13, <2>1, <1>t, <1>i DEF BeginUndoing, PlainTypes
    <2>3. RowsStay'
        BY <1>13, <2>1, <1>t, <1>i DEF BeginUndoing, RowsStay
    <2> QED BY <1>13, <2>2, <2>3, <1>o DEF BeginUndoing, TypeInvariant
<1>14. CASE Undo
    <2>7. invoices' = invoices \/ invoices' = [invoices EXCEPT ![Len(invoices)] = "VOIDED"]
        BY <1>14 DEF Undo
    <2>1. invoices' \in Seq({"ISSUED", "VOIDED"})
        <3>1. invoices \in [1..Len(invoices) -> {"ISSUED", "VOIDED"}] /\ Len(invoices) \in Nat
            BY <1>t DEF PlainTypes
        <3>2. invoices' \in [1..Len(invoices) -> {"ISSUED", "VOIDED"}]
            BY <3>1, <2>7
        <3> QED BY <3>1, <3>2
    <2>2. posted' \in [{"debit", "refund", "revenue"} -> Nat]
        BY <1>14, <1>t, <1>n DEF Undo, PlainTypes
    <2>3. hold' \in {"NONE", "ACTIVE", "CAPTURED", "RELEASED", "EXPIRED"}
          /\ reserved' \in BOOLEAN
        BY <1>14, <1>t DEF Undo, PlainTypes, GiveBackSeats
    <2>4. PlainTypes'
        BY <1>14, <2>1, <2>2, <2>3, <1>t, <1>i DEF Undo, PlainTypes
    <2>5. RowsStay'
        BY <1>14, <1>t, <1>i DEF Undo, RowsStay
    <2>6. UNCHANGED <<row, earlier>>
        BY <1>14 DEF Undo
    <2> QED BY <2>4, <2>5, <2>6, <1>o DEF TypeInvariant
<1>15. CASE MarkUndone
    <2>1. /\ "COMPENSATED" \in Statuses \ {"none"} /\ row \in [Steps -> Statuses] /\ Head(todo) \in Steps
          /\ row[Head(todo)] # "none" /\ row' = [row EXCEPT ![Head(todo)] = "COMPENSATED"]
          /\ UNCHANGED earlier
        BY <1>15, <1>t, <1>i, <1>s, <1>c DEF MarkUndone, PlainTypes, Statuses, RowsStay
    <2>2. /\ row' \in [Steps -> Statuses]
          /\ \A t \in Steps : row[t] # "none" => row'[t] # "none"
          /\ \A t \in Steps : row'[t] = "none" <=> row[t] = "none"
        BY <2>1, RowsStayRows
    <2>3. PlainTypes'
        BY <1>15, <2>2, <1>t, <1>i, <1>c DEF MarkUndone, PlainTypes
    <2>4. StartedInOrder'
        BY <2>1, <2>2, <1>t, OrderStays
    <2>5. \A i \in 1..Len(todo) : todo[i] \in Steps
        BY <1>t DEF PlainTypes
    <2>6. RowsStay'
        BY <1>15, <2>2, <2>5, <1>t, <1>i, <1>c DEF MarkUndone, RowsStay
    <2> QED BY <2>3, <2>4, <2>6 DEF TypeInvariant
<1>16. CASE UndoThrows
    <2>1. PlainTypes'
        BY <1>16, <1>t, <1>i, <1>c DEF UndoThrows, PlainTypes
    <2>2. RowsStay'
        BY <1>16, <1>t, <1>i, <1>c DEF UndoThrows, RowsStay
    <2>3. UNCHANGED <<row, earlier>>
        BY <1>16 DEF UndoThrows
    <2> QED BY <2>1, <2>2, <2>3, <1>o DEF TypeInvariant
<1>17. CASE FailBooking
    <2>1. PlainTypes' /\ RowsStay' /\ UNCHANGED <<row, earlier>>
        BY <1>17, <1>t, <1>i DEF FailBooking, PlainTypes, RowsStay, Step
    <2> QED BY <2>1, <1>o DEF TypeInvariant
<1>18. CASE CloseFailed
    <2>1. PlainTypes' /\ RowsStay' /\ UNCHANGED <<row, earlier>>
        BY <1>18, <1>t, <1>i DEF CloseFailed, PlainTypes, RowsStay, Step
    <2> QED BY <2>1, <1>o DEF TypeInvariant
<1>19. CASE ConfirmBooking
    <2>1. PlainTypes' /\ RowsStay' /\ UNCHANGED <<row, earlier>>
        BY <1>19, <1>t, <1>i DEF ConfirmBooking, PlainTypes, RowsStay, Step
    <2> QED BY <2>1, <1>o DEF TypeInvariant
<1>20. CASE Announce
    <2>1. PlainTypes' /\ RowsStay' /\ UNCHANGED <<row, earlier>>
        BY <1>20, <1>t, <1>i DEF Announce, PlainTypes, RowsStay, Step
    <2> QED BY <2>1, <1>o DEF TypeInvariant
<1>21. CASE Finish
    <2>1. PlainTypes' /\ RowsStay' /\ UNCHANGED <<row, earlier>>
        BY <1>21, <1>t, <1>i DEF Finish, PlainTypes, RowsStay, Step
    <2> QED BY <2>1, <1>o DEF TypeInvariant
<1>22. CASE Stop
    <2>1. PlainTypes' /\ RowsStay' /\ UNCHANGED <<row, earlier>>
        BY <1>22, <1>t, <1>i DEF Stop, PlainTypes, RowsStay, Step
    <2> QED BY <2>1, <1>o DEF TypeInvariant
<1>23. CASE HoldLapses
    <2>1. PlainTypes'
        BY <1>23, <1>t DEF HoldLapses, PlainTypes
    <2>2. RowsStay'
        BY <1>23, <1>t DEF HoldLapses, RowsStay, Step
    <2>3. UNCHANGED <<row, earlier>>
        BY <1>23 DEF HoldLapses
    <2> QED BY <2>1, <2>2, <2>3, <1>o DEF TypeInvariant
<1>w. ASSUME NEW w \in Workers
      PROVE  /\ seen[w].row \in [Steps -> Statuses]
             /\ seen[w].saga \in {"none", "PENDING", "RUNNING"}
    BY <1>w, <1>t DEF PlainTypes
<1>24. ASSUME NEW w \in Workers, Fetch(w) PROVE TypeInvariant'
    <2>1. (seen \in [Workers ->
                        [saga : {"none", "PENDING", "RUNNING"}, row : [Steps -> Statuses]]])'
        BY <1>24, <1>t DEF Fetch, PlainTypes, Statuses, Fetchable
    <2>2. PlainTypes'
        BY <1>24, <2>1, <1>t DEF Fetch, PlainTypes, Fetchable
    <2>3. RowsStay'
        BY <1>24, <1>t DEF Fetch, RowsStay, Step, PlainTypes, Fetchable
    <2>4. UNCHANGED <<row, earlier>>
        BY <1>24 DEF Fetch
    <2> QED BY <2>2, <2>3, <2>4, <1>o DEF TypeInvariant
<1>25. ASSUME NEW w \in Workers, MarkRunning(w) PROVE TypeInvariant'
    <2>1. (seen \in [Workers ->
                        [saga : {"none", "PENDING", "RUNNING"}, row : [Steps -> Statuses]]])'
        BY <1>25, <1>t DEF MarkRunning, PlainTypes, Statuses
    <2>2. PlainTypes'
        BY <1>25, <2>1, <1>t DEF MarkRunning, PlainTypes
    <2>3. RowsStay'
        BY <1>25, <1>t DEF MarkRunning, RowsStay, Step, PlainTypes
    <2>4. UNCHANGED <<row, earlier>>
        BY <1>25 DEF MarkRunning
    <2> QED BY <2>2, <2>3, <2>4, <1>o DEF TypeInvariant
<1>26. ASSUME NEW w \in Workers, Reverse(w) PROVE TypeInvariant'
    <2>1. (seen \in [Workers ->
                        [saga : {"none", "PENDING", "RUNNING"}, row : [Steps -> Statuses]]])'
        BY <1>26, <1>t DEF Reverse, PlainTypes, Statuses
    <2>2. PlainTypes'
        BY <1>26, <2>1, <1>t DEF Reverse, PlainTypes
    <2>3. RowsStay'
        BY <1>26, <1>t DEF Reverse, RowsStay, Step, PlainTypes
    <2>4. UNCHANGED <<row, earlier>>
        BY <1>26 DEF Reverse
    <2> QED BY <2>2, <2>3, <2>4, <1>o DEF TypeInvariant
<1>27. ASSUME NEW w \in Workers, CloseSaga(w) PROVE TypeInvariant'
    <2>1. (seen \in [Workers ->
                        [saga : {"none", "PENDING", "RUNNING"}, row : [Steps -> Statuses]]])'
        BY <1>27, <1>t DEF CloseSaga, PlainTypes, Statuses, NothingSeen
    <2>2. PlainTypes'
        BY <1>27, <2>1, <1>t DEF CloseSaga, PlainTypes, NothingSeen
    <2>3. RowsStay'
        BY <1>27, <1>t DEF CloseSaga, RowsStay, Step, PlainTypes, NothingSeen
    <2>4. UNCHANGED <<row, earlier>>
        BY <1>27 DEF CloseSaga
    <2> QED BY <2>2, <2>3, <2>4, <1>o DEF TypeInvariant
<1>28. ASSUME NEW w \in Workers, WorkerStops(w) PROVE TypeInvariant'
    <2>1. (seen \in [Workers ->
                        [saga : {"none", "PENDING", "RUNNING"}, row : [Steps -> Statuses]]])'
        BY <1>28, <1>t DEF WorkerStops, PlainTypes, Statuses, NothingSeen
    <2>2. PlainTypes'
        BY <1>28, <2>1, <1>t DEF WorkerStops, PlainTypes, NothingSeen
    <2>3. RowsStay'
        BY <1>28, <1>t DEF WorkerStops, RowsStay, Step, PlainTypes, NothingSeen
    <2>4. UNCHANGED <<row, earlier>>
        BY <1>28 DEF WorkerStops
    <2> QED BY <2>2, <2>3, <2>4, <1>o DEF TypeInvariant
<1>29. ASSUME NEW w \in Workers, FailStep(w) PROVE TypeInvariant'
    <2>1. PICK s \in Steps : row' = [row EXCEPT ![s] = "FAILED"] /\ earlier' = Restarted(s)
        BY <1>29 DEF FailStep, Unfinished
    <2>2. "FAILED" \in Statuses \ {"none"} /\ row \in [Steps -> Statuses]
        BY <1>t DEF PlainTypes, Statuses
    <2>3. row' \in [Steps -> Statuses] /\ \A t \in Steps : row[t] # "none" => row'[t] # "none"
        BY <2>1, <2>2, RowsStayRows
    <2>4. PlainTypes'
        BY <1>29, <2>3, <1>t DEF FailStep, PlainTypes
    <2>5. StartedInOrder'
        BY <2>1, <2>2, <1>t, RestartedIsLatest
    <2>6. \A i \in 1..Len(todo) : todo[i] \in Steps
        BY <1>t DEF PlainTypes
    <2>7. RowsStay'
        BY <1>29, <2>3, <2>6, <1>t, <1>s, <1>i DEF FailStep, RowsStay, Step
    <2> QED BY <2>4, <2>5, <2>7 DEF TypeInvariant
<1>30. ASSUME NEW w \in Workers, MarkReversed(w) PROVE TypeInvariant'
    <2>1. PICK s \in Steps : /\ seen[w].row[s] = "SUCCEEDED"
                             /\ row' = [row EXCEPT ![s] = "COMPENSATED"]
                             /\ seen' = [seen EXCEPT ![w].row[s] = "none"]
        BY <1>30 DEF MarkReversed
    <2>2. "COMPENSATED" \in Statuses \ {"none"} /\ row \in [Steps -> Statuses] /\ row[s] # "none"
        BY <2>1, <1>t DEF PlainTypes, Statuses, RowsStay
    <2>3. /\ row' \in [Steps -> Statuses]
          /\ \A t \in Steps : row[t] # "none" => row'[t] # "none"
          /\ \A t \in Steps : row'[t] = "none" <=> row[t] = "none"
        BY <2>1, <2>2, RowsStayRows
    <2>4. seen' \in [Workers -> [saga : {"none", "PENDING", "RUNNING"}, row : [Steps -> Statuses]]]
        <3> DEFINE other == [seen[w] EXCEPT !.row = [seen[w].row EXCEPT ![s] = "none"]]
        <3>1. seen' = [seen EXCEPT ![w] = other]
            BY <2>1
        <3>2. [seen[w].row EXCEPT ![s] = "none"] \in [Steps -> Statuses]
            BY <1>w DEF Statuses
        <3>3. seen[w] \in [saga : {"none", "PENDING", "RUNNING"}, row : [Steps -> Statuses]]
            BY <1>t DEF PlainTypes
        <3>4. other \in [saga : {"none", "PENDING", "RUNNING"}, row : [Steps -> Statuses]]
            BY <3>2, <3>3
        <3> HIDE DEF other
        <3> QED BY <3>1, <3>4, <1>t DEF PlainTypes
    <2>5. /\ UNCHANGED <<booking, hold, saga, earlier, payment, reserved, funds, posted, invoices, announced>>
          /\ UNCHANGED <<pc, at, todo, attempts, faults, wpc, meddled, mislaid>>
        BY <1>30 DEF MarkReversed
    <2>6. PlainTypes'
        BY <2>3, <2>4, <2>5, <1>t DEF PlainTypes
    <2>7. StartedInOrder'
        BY <2>2, <2>3, <2>5, <1>t, OrderStays
    <2>8. \A i \in 1..Len(todo) : todo[i] \in Steps
        BY <1>t DEF PlainTypes
    <2>9. \A v \in Workers : \A t \in Steps : seen'[v].row[t] # "none" => seen[v].row[t] # "none"
        BY <2>1, <1>t DEF PlainTypes
    <2>10. RowsStay'
        BY <1>30, <2>3, <2>8, <2>9, <1>t, <1>s, <1>i DEF MarkReversed, RowsStay, Step
    <2> QED BY <2>6, <2>7, <2>10 DEF TypeInvariant
<1>31. CASE UNCHANGED sagaVars
    <2>1. PlainTypes'
        BY <1>31, <1>t DEF sagaVars, PlainTypes
    <2>2. RowsStay'
        BY <1>31, <1>t DEF sagaVars, RowsStay, Step
    <2>3. UNCHANGED <<row, earlier>>
        BY <1>31 DEF sagaVars
    <2> QED BY <2>1, <2>2, <2>3, <1>o DEF TypeInvariant
<1> QED
    BY <1>1, <1>2, <1>3, <1>4, <1>5, <1>6, <1>7, <1>8, <1>9, <1>10, <1>11, <1>12, <1>13,
       <1>14, <1>15, <1>16, <1>17, <1>18, <1>19, <1>20, <1>21, <1>22, <1>23, <1>24, <1>25,
       <1>26, <1>27, <1>28, <1>29, <1>30, <1>31, Zenon DEF SagaNext, Coordinate, WorkSaga

-----------------------------------------------------------------------------
(***************************************************************************)
(* 3. What is recorded as done.                                            *)
(***************************************************************************)

(* The steps that follow on a payment, and where steps are undone.         *)
PaidSteps == {"pay", "supplier", "ledger", "invoice"}
Undoing == {"undo", "undone"}

(* An attempt starts on a payable booking and closes a failed one; a worker *)
(* that reverses has written.                                              *)
PlacesFit ==
    /\ pc = "open" => booking = "PAYABLE"
    /\ pc = "close" => booking = "FAILED"
    /\ pc \in Undoing \cup {"compensate"} => at \in 1..5
    /\ \A w \in Workers : wpc[w] \in {"failed", "reversing"} => meddled

(* The step under way is not recorded as done.                             *)
UnderWay == pc \in InStep \ {"enter"} => row[Step] # "SUCCEEDED"

(* Nothing but the seats is done before the payment.                       *)
PaidFirst == \A s \in PaidSteps : row[s] = "SUCCEEDED" => payment

(* The steps after the one under way are not done.                         *)
LaterNotDone ==
    /\ at < 2 => row["pay"] # "SUCCEEDED"
    /\ at < 3 => row["supplier"] # "SUCCEEDED"
    /\ at < 4 => row["ledger"] # "SUCCEEDED"
    /\ at < 5 => row["invoice"] # "SUCCEEDED"

OneAfterTheOther ==
    ~mislaid /\ pc \in InStep \cup Undoing \cup {"compensate"} => LaterNotDone

DoneInOrder == PlacesFit /\ UnderWay /\ PaidFirst /\ OneAfterTheOther

(* What the workers do to the rows.                                        *)
LEMMA WorkersOnlyMark ==
    ASSUME PlainTypes, DoneInOrder, NEW w \in Workers, WorkSaga(w) \/ WorkerStops(w)
    PROVE  /\ UNCHANGED <<booking, hold, payment, funds, posted, reserved, invoices, announced, pc, at,
                          todo, mislaid>>
           /\ UNCHANGED <<given, pnr, ticket>>
           /\ meddled => meddled'
           /\ UNCHANGED <<row, earlier>> \/ meddled'
           /\ \A s \in Steps : row'[s] = "SUCCEEDED" => row[s] = "SUCCEEDED"
           /\ \A v \in Workers : wpc'[v] \in {"failed", "reversing"} => meddled'
           /\ faults' = 0 => faults = 0
           /\ wpc[w] # "idle" \/ saga # "none"
<1> USE DEF effects, worker, counts, coordinator, ticketing
<1>1. CASE Fetch(w)
    BY <1>1 DEF Fetch, Fetchable, PlainTypes, DoneInOrder, PlacesFit
<1>2. CASE MarkRunning(w)
    BY <1>2 DEF MarkRunning, PlainTypes, DoneInOrder, PlacesFit
<1>3. CASE FailStep(w)
    BY <1>3 DEF FailStep, Unfinished, PlainTypes, DoneInOrder, PlacesFit
<1>4. CASE Reverse(w)
    BY <1>4 DEF Reverse, PlainTypes, DoneInOrder, PlacesFit
<1>5. CASE MarkReversed(w)
    BY <1>5 DEF MarkReversed, PlainTypes, DoneInOrder, PlacesFit
<1>6. CASE CloseSaga(w)
    BY <1>6 DEF CloseSaga, PlainTypes, DoneInOrder, PlacesFit
<1>7. CASE WorkerStops(w)
    BY <1>7 DEF WorkerStops, PlainTypes, DoneInOrder, PlacesFit
<1> QED BY <1>1, <1>2, <1>3, <1>4, <1>5, <1>6, <1>7 DEF WorkSaga

(* What the next two parts rest on.                                        *)
SagaFacts == TypeInvariant /\ MoneyInvariant /\ DoneInOrder

(* The same, as the leaves of the proofs below need it.                    *)
LEMMA FactsAtHand ==
    ASSUME SagaFacts
    PROVE  /\ PlainTypes /\ RowsStay /\ MoneyMoves /\ WhereItIs /\ DoneInOrder
           /\ InStep = {"enter", "act", "debited", "recorded", "confirmed", "acted", "failed"}
           /\ Closing = {"confirm", "announce", "finish"}
           /\ Undoing = {"undo", "undone"}
           /\ pc \in InStep => /\ at \in 1..5 /\ Step \in Steps
                               /\ Step = "hold" <=> at = 1
                               /\ Step = "pay" <=> at = 2
                               /\ Step = "supplier" <=> at = 3
                               /\ Step = "ledger" <=> at = 4
                               /\ Step = "invoice" <=> at = 5
           /\ \A i \in 1..5 : i > 1 => Catalogue[i] \in PaidSteps
           /\ \A i \in 1..5 : Catalogue[i] \in Steps
           /\ PaidSteps \subseteq Steps /\ Steps = {"hold", "pay", "supplier", "ledger", "invoice"}
           /\ todo # <<>> =>
                /\ Tail(todo) \in Seq(Steps) /\ Head(todo) \in Steps /\ Head(todo) = todo[1]
                /\ Len(Tail(todo)) = Len(todo) - 1 /\ Len(todo) \in Nat \ {0}
                /\ \A i \in 1..Len(Tail(todo)) : Tail(todo)[i] = todo[i + 1]
<1>1. PlainTypes /\ RowsStay /\ MoneyMoves /\ WhereItIs /\ DoneInOrder /\ (pc \in InStep => at \in 1..5)
    BY DEF SagaFacts, TypeInvariant, MoneyInvariant, MoneyTypes
<1>2. /\ InStep = {"enter", "act", "debited", "recorded", "confirmed", "acted", "failed"}
      /\ Closing = {"confirm", "announce", "finish"}
      /\ Undoing = {"undo", "undone"}
    BY DEF InStep, Closing, Undoing
<1>3. /\ PaidSteps \subseteq Steps /\ Steps = {"hold", "pay", "supplier", "ledger", "invoice"}
      /\ \A i \in 1..5 : Catalogue[i] \in Steps
    BY StepsAreFive DEF PaidSteps
<1>4. \A i \in 1..5 : i > 1 => Catalogue[i] \in PaidSteps
    <2>1. \A i \in 1..5 : i > 1 => i = 2 \/ i = 3 \/ i = 4 \/ i = 5
        OBVIOUS
    <2> QED BY <2>1, CatalogueSteps DEF PaidSteps
<1>5. todo # <<>> =>
        /\ Tail(todo) \in Seq(Steps) /\ Head(todo) \in Steps /\ Head(todo) = todo[1]
        /\ Len(Tail(todo)) = Len(todo) - 1 /\ Len(todo) \in Nat \ {0}
        /\ \A i \in 1..Len(Tail(todo)) : Tail(todo)[i] = todo[i + 1]
    BY <1>1 DEF PlainTypes
<1> QED BY <1>1, <1>2, <1>3, <1>4, <1>5, StepByNumber

(* No step is done at first.                                               *)
LEMMA DoneInOrderInit == SagaInit => DoneInOrder
BY StepsAreFive DEF SagaInit, DoneInOrder, PlacesFit, UnderWay, PaidFirst, OneAfterTheOther,
                    LaterNotDone, InStep, Undoing, PaidSteps

(* A step is recorded as done after those before it, and only if its       *)
(* payment is there; the workers record none.                              *)
LEMMA DoneInOrderPreserved ==
    SagaFacts /\ [SagaNext]_sagaVars => DoneInOrder'
<1> SUFFICES ASSUME SagaFacts, [SagaNext]_sagaVars PROVE DoneInOrder'
    OBVIOUS
<1>f. PlainTypes /\ MoneyMoves /\ WhereItIs /\ PlacesFit /\ UnderWay /\ PaidFirst /\ OneAfterTheOther
    BY FactsAtHand DEF DoneInOrder
<1> USE <1>f, FactsAtHand DEF effects, worker, counts, coordinator
<1>1. CASE Begin
    <2>1. PlacesFit' /\ UnderWay' /\ PaidFirst' /\ OneAfterTheOther'
        BY <1>1
           DEF Begin, PlacesFit, UnderWay, WhereItIs, Step, PaidFirst, OneAfterTheOther,
               LaterNotDone
    <2> QED BY <2>1, Zenon DEF DoneInOrder
<1>2. CASE OpenSaga
    <2>1. PlacesFit' /\ UnderWay' /\ PaidFirst'
        BY <1>2 DEF OpenSaga, PlacesFit, UnderWay, Step, MoneyMoves, PaidFirst
    <2>2. OneAfterTheOther'
        <3>1. ~mislaid => ~payment
            BY <1>2 DEF OpenSaga, PlacesFit, WhereItIs
        <3>2. UNCHANGED <<row, mislaid>>
            BY <1>2 DEF OpenSaga
        <3> QED BY <3>1, <3>2 DEF PaidFirst, PaidSteps, OneAfterTheOther, LaterNotDone
    <2> QED BY <2>1, <2>2, Zenon DEF DoneInOrder
<1>3. CASE Enter
    <2>1. PlacesFit'
        BY <1>3 DEF Enter, PlacesFit, WhereItIs, Step, Proceed, Following
    <2>2. UnderWay'
        <3>1. \/ pc' \in {"enter", "confirm"}
              \/ at' = at /\ row' = [row EXCEPT ![Step] = "RUNNING"]
            BY <1>3 DEF Enter, Proceed
        <3>2. pc = "enter"
            BY <1>3 DEF Enter
        <3>3. CASE pc' \in {"enter", "confirm"}
            BY <3>3 DEF UnderWay
        <3>4. CASE at' = at /\ row' = [row EXCEPT ![Step] = "RUNNING"]
            <4>1. Step' = Step
                BY <3>4 DEF Step
            <4>2. row'[Step] = "RUNNING"
                BY <3>2, <3>4 DEF PlainTypes
            <4> QED BY <4>1, <4>2 DEF UnderWay
        <3> QED BY <3>1, <3>3, <3>4
    <2>3. PaidFirst'
        BY <1>3 DEF Enter, PaidFirst, PlainTypes
    <2>4. OneAfterTheOther'
        <3>1. pc = "enter" /\ UNCHANGED mislaid
            BY <1>3 DEF Enter
        <3>2. ~mislaid => LaterNotDone
            BY <3>1 DEF OneAfterTheOther
        <3>3. \/ UNCHANGED row /\ at' = at + 1
              \/ UNCHANGED at /\ row' = [row EXCEPT ![Step] = "RUNNING"]
            BY <1>3 DEF Enter, Proceed, Following
        <3>4. at \in 1..5 /\ row \in [Steps -> Statuses] /\ Step \in Steps
            BY <3>1 DEF PlainTypes
        <3> QED BY <3>1, <3>2, <3>3, <3>4 DEF OneAfterTheOther, LaterNotDone
    <2> QED BY <2>1, <2>2, <2>3, <2>4, Zenon DEF DoneInOrder
<1>4. CASE Act
    <2>1. PlacesFit' /\ UnderWay' /\ PaidFirst' /\ OneAfterTheOther'
        BY <1>4 DEF Act, PlacesFit, UnderWay, Step, PaidFirst, OneAfterTheOther, LaterNotDone
    <2> QED BY <2>1, Zenon DEF DoneInOrder
<1>5. CASE Debit
    <2>1. PlacesFit' /\ UnderWay' /\ PaidFirst' /\ OneAfterTheOther'
        BY <1>5 DEF Debit, PlacesFit, UnderWay, Step, PaidFirst, OneAfterTheOther, LaterNotDone
    <2> QED BY <2>1, Zenon DEF DoneInOrder
<1>6. CASE RecordPayment
    <2>1. PlacesFit' /\ UnderWay' /\ PaidFirst' /\ OneAfterTheOther'
        BY <1>6
           DEF RecordPayment, PlacesFit, UnderWay, Step, PaidFirst, OneAfterTheOther, LaterNotDone
    <2> QED BY <2>1, Zenon DEF DoneInOrder
<1>7. CASE ConfirmByPayment
    <2>1. PlacesFit' /\ UnderWay' /\ PaidFirst' /\ OneAfterTheOther'
        BY <1>7
           DEF ConfirmByPayment, PlacesFit, UnderWay, Step, PaidFirst, OneAfterTheOther,
               LaterNotDone
    <2> QED BY <2>1, Zenon DEF DoneInOrder
<1>8. CASE RealizeRevenue
    <2>1. PlacesFit' /\ UnderWay' /\ PaidFirst' /\ OneAfterTheOther'
        BY <1>8
           DEF RealizeRevenue, PlacesFit, UnderWay, Step, PaidFirst, OneAfterTheOther,
               LaterNotDone
    <2> QED BY <2>1, Zenon DEF DoneInOrder
<1>9. CASE StepSucceeds
    <2>1. PlacesFit' /\ UnderWay' /\ OneAfterTheOther'
        BY <1>9
           DEF StepSucceeds, PlacesFit, WhereItIs, Step, Proceed, Following, UnderWay,
               OneAfterTheOther, LaterNotDone
    <2>2. PaidFirst'
        <3>1. pc = "acted" /\ UNCHANGED payment /\ row' = [row EXCEPT ![Step] = "SUCCEEDED"]
            BY <1>9 DEF StepSucceeds, effects
        <3>2. at \in 1..5 /\ row \in [Steps -> Statuses] /\ Step \in Steps
            BY <3>1 DEF PlainTypes
        <3>3. Step \in PaidSteps => payment
            BY <3>1, <3>2 DEF WhereItIs, PaidSteps
        <3> QED BY <3>1, <3>2, <3>3 DEF PaidFirst, PaidSteps
    <2> QED BY <2>1, <2>2, Zenon DEF DoneInOrder
<1>10. CASE Refused
    <2>1. PlacesFit' /\ UnderWay' /\ PaidFirst' /\ OneAfterTheOther'
        BY <1>10 DEF Refused, PlacesFit, UnderWay, Step, PaidFirst, OneAfterTheOther, LaterNotDone
    <2> QED BY <2>1, Zenon DEF DoneInOrder
<1>11. CASE Throws
    <2>1. PlacesFit' /\ UnderWay' /\ PaidFirst' /\ OneAfterTheOther'
        BY <1>11
           DEF Throws, PlacesFit, UnderWay, Step, PaidFirst, OneAfterTheOther, PlainTypes,
               LaterNotDone
    <2> QED BY <2>1, Zenon DEF DoneInOrder
<1>12. CASE StepFails
    <2>1. PlacesFit' /\ UnderWay' /\ PaidFirst' /\ OneAfterTheOther'
        BY <1>12
           DEF StepFails, PlacesFit, UnderWay, Step, PaidFirst, OneAfterTheOther, LaterNotDone
    <2> QED BY <2>1, Zenon DEF DoneInOrder
<1>13. CASE BeginUndoing
    <2>1. PlacesFit' /\ UnderWay' /\ PaidFirst' /\ OneAfterTheOther'
        BY <1>13
           DEF BeginUndoing, PlacesFit, UnderWay, WhereItIs, Step, PaidFirst, OneAfterTheOther,
               LaterNotDone
    <2> QED BY <2>1, Zenon DEF DoneInOrder
<1>14. CASE Undo
    <2>1. PlacesFit' /\ UnderWay' /\ OneAfterTheOther'
        BY <1>14 DEF Undo, PlacesFit, UnderWay, WhereItIs, Step, OneAfterTheOther, LaterNotDone
    <2>2. PaidFirst'
        <3>1. UNCHANGED <<row, payment>>
            BY <1>14 DEF Undo
        <3> QED BY <3>1 DEF PaidFirst
    <2> QED BY <2>1, <2>2, Zenon DEF DoneInOrder
<1>15. CASE MarkUndone
    <2>1. PlacesFit' /\ UnderWay' /\ PaidFirst' /\ OneAfterTheOther'
        BY <1>15
           DEF MarkUndone, PlacesFit, UnderWay, WhereItIs, Step, PaidFirst, OneAfterTheOther,
               LaterNotDone
    <2> QED BY <2>1, Zenon DEF DoneInOrder
<1>16. CASE UndoThrows
    <2>1. PlacesFit'
        BY <1>16 DEF UndoThrows, PlacesFit
    <2>2. UnderWay'
        BY <1>16 DEF UndoThrows, UnderWay, WhereItIs, Step
    <2>3. PaidFirst'
        BY <1>16 DEF UndoThrows, PaidFirst
    <2>4. OneAfterTheOther'
        BY <1>16 DEF UndoThrows, OneAfterTheOther, PlainTypes, LaterNotDone
    <2> QED BY <2>1, <2>2, <2>3, <2>4, Zenon DEF DoneInOrder
<1>17. CASE FailBooking
    <2>1. PlacesFit' /\ UnderWay' /\ PaidFirst' /\ OneAfterTheOther'
        BY <1>17 DEF FailBooking, PlacesFit, UnderWay, PaidFirst, OneAfterTheOther, LaterNotDone
    <2> QED BY <2>1, Zenon DEF DoneInOrder
<1>18. CASE CloseFailed
    <2>1. PlacesFit' /\ UnderWay' /\ PaidFirst' /\ OneAfterTheOther'
        BY <1>18
           DEF CloseFailed, PlacesFit, UnderWay, WhereItIs, PaidFirst, OneAfterTheOther, Step,
               LaterNotDone
    <2> QED BY <2>1, Zenon DEF DoneInOrder
<1>19. CASE ConfirmBooking
    <2>1. PlacesFit' /\ UnderWay' /\ PaidFirst' /\ OneAfterTheOther'
        BY <1>19
           DEF ConfirmBooking, PlacesFit, UnderWay, WhereItIs, Step, PaidFirst, OneAfterTheOther,
               LaterNotDone
    <2> QED BY <2>1, Zenon DEF DoneInOrder
<1>20. CASE Announce
    <2>1. PlacesFit' /\ UnderWay' /\ PaidFirst' /\ OneAfterTheOther'
        BY <1>20
           DEF Announce, PlacesFit, Step, UnderWay, PaidFirst, OneAfterTheOther, WhereItIs,
               LaterNotDone
    <2> QED BY <2>1, Zenon DEF DoneInOrder
<1>21. CASE Finish
    <2>1. PlacesFit' /\ UnderWay' /\ PaidFirst' /\ OneAfterTheOther'
        BY <1>21
           DEF Finish, PlacesFit, UnderWay, PaidFirst, OneAfterTheOther, WhereItIs, Step,
               LaterNotDone
    <2> QED BY <2>1, Zenon DEF DoneInOrder
<1>22. CASE Stop
    <2>1. PlacesFit' /\ UnderWay' /\ PaidFirst' /\ OneAfterTheOther'
        BY <1>22
           DEF Stop, PlacesFit, UnderWay, PaidFirst, OneAfterTheOther, WhereItIs, Step,
               LaterNotDone
    <2> QED BY <2>1, Zenon DEF DoneInOrder
<1>23. CASE HoldLapses
    <2>1. PlacesFit' /\ UnderWay' /\ PaidFirst' /\ OneAfterTheOther'
        BY <1>23
           DEF HoldLapses, PlacesFit, UnderWay, Step, PaidFirst, OneAfterTheOther, LaterNotDone
    <2> QED BY <2>1, Zenon DEF DoneInOrder
<1>24. ASSUME NEW w \in Workers, WorkSaga(w) \/ WorkerStops(w) PROVE DoneInOrder'
    BY <1>24, WorkersOnlyMark DEF DoneInOrder, PlacesFit, UnderWay, PaidFirst,
        OneAfterTheOther, LaterNotDone, Step
<1>25. CASE UNCHANGED sagaVars
    BY <1>25 DEF sagaVars, DoneInOrder, PlacesFit, UnderWay, PaidFirst,
        OneAfterTheOther, LaterNotDone, Step
<1> QED
    BY <1>1, <1>2, <1>3, <1>4, <1>5, <1>6, <1>7, <1>8, <1>9, <1>10, <1>11, <1>12, <1>13,
       <1>14, <1>15, <1>16, <1>17, <1>18, <1>19, <1>20, <1>21, <1>22, <1>23, <1>24, <1>25,
       Zenon DEF SagaNext, Coordinate

-----------------------------------------------------------------------------
(***************************************************************************)
(* 4. What a failed booking has left.                                      *)
(***************************************************************************)

(* No effect was mislaid and no worker has written; a live invoice.        *)
Quiet == ~mislaid /\ ~meddled

Issued == \E i \in 1..Len(invoices) : invoices[i] = "ISSUED"

(* Until it fails, what a booking has is recorded by a step that is done,  *)
(* or is the effect of the step under way.                                 *)
EffectsAreRecorded ==
    booking # "FAILED" /\ pc \notin Undoing =>
        /\ posted["refund"] = 0
        /\ hold = "CAPTURED" => row["hold"] = "SUCCEEDED" \/ (at = 1 /\ pc = "acted")
        /\ posted["debit"] = 1 =>
             row["pay"] = "SUCCEEDED" \/ (at = 2 /\ pc \in {"debited", "recorded", "confirmed", "acted"})
        /\ Voidable => row["supplier"] = "SUCCEEDED" \/ (at = 3 /\ pc = "acted")
        /\ Issued => row["invoice"] = "SUCCEEDED" \/ (at = 5 /\ pc = "acted")

(* Earlier invoices are VOIDED.                                            *)
OnlyLatestIssued == \A i \in 1..Len(invoices) : invoices[i] = "ISSUED" => i = Len(invoices)

(* A step that is still to be undone.                                      *)
IsAhead(s) == \E j \in 1..Len(todo) : todo[j] = s /\ (pc = "undone" => j > 1)

(* While steps are undone, what the booking still has belongs to a step    *)
(* that is yet to be undone.                                               *)
EffectsAreAhead ==
    pc \in Undoing =>
        /\ hold = "CAPTURED" => IsAhead("hold")
        /\ posted["debit"] # posted["refund"] => IsAhead("pay")
        /\ Voidable => IsAhead("supplier")
        /\ Issued => IsAhead("invoice")

(* The steps are undone in the order of their start, the latest first; a   *)
(* ticket is among them only if the failure hands on how to void it.       *)
LatestFirst ==
    pc \in Undoing =>
        /\ \A i, j \in 1..Len(todo) : i < j => todo[j] \in earlier[todo[i]]
        /\ \A i \in 1..Len(todo) : todo[i] = "supplier" => at >= 3 /\ "supplier" \notin earlier["pay"]

(* A ticket that counts was booked after its payment was started.          *)
TicketAfterMoney ==
    row["supplier"] = "SUCCEEDED" \/ (at = 3 /\ pc \in {"act", "acted"}) =>
        "supplier" \notin earlier["pay"]

(* What a failed booking has.                                              *)
NothingLeft ==
    booking = "FAILED" =>
        posted["debit"] = posted["refund"] /\ hold # "CAPTURED" /\ ~Voidable /\ ~Issued

(* A refunded booking has no ticket that could be voided.                  *)
TicketBeforeRefund == posted["refund"] = 1 => ~Voidable

(* What holds as long as nothing was mislaid or written by a worker.       *)
NothingIsLost ==
    Quiet => /\ EffectsAreRecorded /\ OnlyLatestIssued /\ EffectsAreAhead /\ LatestFirst
             /\ TicketAfterMoney /\ NothingLeft /\ TicketBeforeRefund

(* An invoice is issued: there is a live one.                              *)
LEMMA InvoicesGrow ==
    ASSUME invoices \in Seq({"ISSUED", "VOIDED"}), invoices' = Append(invoices, "ISSUED")
    PROVE  Issued' /\ (~Issued => OnlyLatestIssued')
<1>1. /\ Len(invoices') = Len(invoices) + 1 /\ Len(invoices) \in Nat
      /\ invoices'[Len(invoices) + 1] = "ISSUED"
      /\ \A i \in 1..Len(invoices) : invoices'[i] = invoices[i]
    OBVIOUS
<1>2. Issued'
    BY <1>1 DEF Issued
<1>3. ASSUME ~Issued, NEW i \in 1..Len(invoices'), invoices'[i] = "ISSUED"
      PROVE  i = Len(invoices')
    BY <1>1, <1>3 DEF Issued
<1> QED BY <1>2, <1>3 DEF OnlyLatestIssued

(* The latest invoice is voided: there is none.                            *)
LEMMA LatestIsVoided ==
    ASSUME invoices \in Seq({"ISSUED", "VOIDED"}), OnlyLatestIssued,
           invoices' = [invoices EXCEPT ![Len(invoices)] = "VOIDED"]
    PROVE  ~Issued' /\ OnlyLatestIssued'
<1>1. /\ Len(invoices') = Len(invoices) /\ Len(invoices) \in Nat
      /\ Len(invoices) > 0 => invoices'[Len(invoices)] = "VOIDED"
      /\ \A i \in 1..Len(invoices) : i # Len(invoices) => invoices'[i] = invoices[i]
    OBVIOUS
<1>2. \A i \in 1..Len(invoices') : invoices'[i] # "ISSUED"
    <2> SUFFICES ASSUME NEW i \in 1..Len(invoices), invoices'[i] = "ISSUED" PROVE FALSE
        BY <1>1
    <2>1. CASE i = Len(invoices)
        <3>1. Len(invoices) > 0
            <4>1. \A n \in Nat : \A k \in 1..n : n > 0
                OBVIOUS
            <4> QED BY <1>1, <4>1, Zenon
        <3>2. invoices'[i] = "VOIDED"
            BY <1>1, <2>1, <3>1, Zenon
        <3> QED BY <3>2
    <2>2. CASE i # Len(invoices)
        BY <1>1, <2>2 DEF OnlyLatestIssued
    <2> QED BY <2>1, <2>2
<1> QED BY <1>2 DEF Issued, OnlyLatestIssued

(* A booking has nothing at first.                                         *)
LEMMA NothingIsLostInit == SagaInit => NothingIsLost
<1> SUFFICES ASSUME SagaInit PROVE NothingIsLost
    OBVIOUS
<1>1. /\ pc = "idle" /\ booking = "PAYABLE" /\ hold # "CAPTURED" /\ ~reserved /\ row["supplier"] = "none"
      /\ posted["debit"] = 0 /\ posted["refund"] = 0 /\ Len(invoices) = 0
    BY StepsAreFive, SagaAssumption DEF SagaInit
<1>2. ~Issued /\ OnlyLatestIssued
    BY <1>1 DEF Issued, OnlyLatestIssued
<1> QED BY <1>1, <1>2 DEF NothingIsLost, EffectsAreRecorded, EffectsAreAhead, LatestFirst, Voidable,
                          TicketAfterMoney, NothingLeft, TicketBeforeRefund, Undoing

(* What a step does is recorded before the next, and undone before the     *)
(* booking fails: a step that fails has done nothing, compensateSaga       *)
(* reads every step that is done, and undoes each.                         *)
LEMMA NothingIsLostPreserved ==
    SagaFacts /\ NothingIsLost /\ [SagaNext]_sagaVars => NothingIsLost'
<1> SUFFICES ASSUME SagaFacts, NothingIsLost, [SagaNext]_sagaVars PROVE NothingIsLost'
    OBVIOUS
<1>f. /\ PlainTypes /\ MoneyMoves /\ WhereItIs /\ PlacesFit /\ UnderWay /\ PaidFirst /\ OneAfterTheOther
      /\ Quiet => /\ EffectsAreRecorded /\ OnlyLatestIssued /\ EffectsAreAhead /\ LatestFirst
                  /\ TicketAfterMoney /\ NothingLeft /\ TicketBeforeRefund
    BY FactsAtHand DEF DoneInOrder, NothingIsLost
<1> USE <1>f, FactsAtHand DEF effects, worker, counts, coordinator, ticketing, Voidable, ticketing, Voidable
<1>1. CASE Begin
    <2> SUFFICES ASSUME Quiet' PROVE NothingIsLost'
        BY DEF NothingIsLost
    <2>q. Quiet
        BY <1>1 DEF Begin, Quiet
    <2>1. /\ EffectsAreRecorded' /\ OnlyLatestIssued' /\ EffectsAreAhead' /\ LatestFirst'
          /\ TicketAfterMoney' /\ NothingLeft' /\ TicketBeforeRefund'
        BY <1>1, <2>q
           DEF Begin, EffectsAreRecorded, Issued, OnlyLatestIssued, EffectsAreAhead, LatestFirst,
               MoneyMoves, TicketAfterMoney, NothingLeft, TicketBeforeRefund
    <2> QED BY <2>1, Zenon DEF NothingIsLost
<1>2. CASE OpenSaga
    <2> SUFFICES ASSUME Quiet' PROVE NothingIsLost'
        BY DEF NothingIsLost
    <2>q. Quiet
        BY <1>2 DEF OpenSaga, Quiet
    <2>1. /\ EffectsAreRecorded' /\ OnlyLatestIssued' /\ EffectsAreAhead' /\ LatestFirst'
          /\ TicketAfterMoney' /\ NothingLeft' /\ TicketBeforeRefund'
        BY <1>2, <2>q
           DEF OpenSaga, EffectsAreRecorded, Issued, OnlyLatestIssued, EffectsAreAhead,
               MoneyMoves, LatestFirst, WhereItIs, TicketAfterMoney, NothingLeft,
               TicketBeforeRefund
    <2> QED BY <2>1, Zenon DEF NothingIsLost
<1>3. CASE Enter
    <2> SUFFICES ASSUME Quiet' PROVE NothingIsLost'
        BY DEF NothingIsLost
    <2>q. Quiet
        BY <1>3 DEF Enter, Quiet
    <2>1. EffectsAreRecorded'
        <3>1. pc = "enter" /\ UNCHANGED <<booking, posted, hold, reserved, given, invoices>>
            BY <1>3 DEF Enter
        <3>2. \/ UNCHANGED row
              \/ row[Step] # "SUCCEEDED" /\ row' = [row EXCEPT ![Step] = "RUNNING"]
            BY <1>3 DEF Enter
        <3>3. \A s \in Steps : row[s] = "SUCCEEDED" => row'[s] = "SUCCEEDED"
            BY <3>1, <3>2 DEF PlainTypes
        <3>4. EffectsAreRecorded
            BY <2>q
        <3>5. booking # "FAILED"
            BY <3>1 DEF WhereItIs
        <3> QED BY <3>1, <3>3, <3>4, <3>5 DEF EffectsAreRecorded, Issued
    <2>2. /\ OnlyLatestIssued' /\ EffectsAreAhead' /\ LatestFirst'
          /\ NothingLeft' /\ TicketBeforeRefund'
        BY <1>3, <2>q
           DEF Enter, OnlyLatestIssued, EffectsAreAhead, WhereItIs, MoneyMoves, Proceed,
               Following, Restarted, LatestFirst, NothingLeft, Issued, TicketBeforeRefund
    <2>3. TicketAfterMoney'
        <3>1. pc = "enter" /\ TicketAfterMoney /\ LaterNotDone
            BY <1>3, <2>q DEF Enter, Quiet, OneAfterTheOther
        <3>2. CASE UNCHANGED <<row, earlier>> /\ pc' \in {"enter", "confirm"}
            BY <3>1, <3>2 DEF TicketAfterMoney
        <3>3. CASE /\ row' = [row EXCEPT ![Step] = "RUNNING"]
                   /\ earlier' = Restarted(Step) /\ UNCHANGED at
            <4>1. \A s \in Steps : row'[s] = "SUCCEEDED" => row[s] = "SUCCEEDED"
                BY <3>3 DEF PlainTypes
            <4>2. earlier'["pay"] = IF Step = "pay" THEN Begun \ {Step} ELSE earlier["pay"] \ {Step}
                BY <3>3 DEF Restarted
            <4>3. Step = "supplier" <=> at = 3
                BY <3>1
            <4>4. Step = "pay" <=> at = 2
                BY <3>1
            <4>5. CASE at = 2
                BY <3>1, <3>3, <4>1, <4>5 DEF TicketAfterMoney, LaterNotDone
            <4>6. CASE at # 2
                BY <3>1, <3>3, <4>1, <4>2, <4>3, <4>4, <4>6 DEF TicketAfterMoney
            <4> QED BY <4>5, <4>6
        <3> QED BY <1>3, <3>2, <3>3 DEF Enter, Proceed
    <2> QED BY <2>1, <2>2, <2>3, Zenon DEF NothingIsLost
<1>4. CASE Act
    <2> SUFFICES ASSUME Quiet' PROVE NothingIsLost'
        BY DEF NothingIsLost
    <2>q. Quiet
        BY <1>4 DEF Act, Quiet
    <2>1. EffectsAreRecorded'
        <3>1. pc = "act" /\ pc' = "acted" /\ UNCHANGED <<booking, row, at>> /\ at \in 1..5
            BY <1>4 DEF Act
        <3>2. EffectsAreRecorded /\ booking # "FAILED" /\ posted \in [{"debit", "refund", "revenue"} -> Nat]
            BY <2>q, <3>1 DEF WhereItIs, PlainTypes
        <3>3. /\ posted'["debit"] = posted["debit"] /\ posted'["refund"] = posted["refund"]
              /\ UNCHANGED hold \/ at = 1
              /\ (UNCHANGED reserved \/ at = 3) /\ UNCHANGED given
              /\ UNCHANGED invoices \/ at = 5
            BY <1>4, <3>1, <3>2 DEF Act, PostOnce
        <3> QED BY <3>1, <3>2, <3>3 DEF EffectsAreRecorded, Issued
    <2>2. OnlyLatestIssued'
        <3>1. CASE UNCHANGED invoices
            BY <2>q, <3>1 DEF OnlyLatestIssued
        <3>2. CASE pc = "act" /\ Step = "invoice" /\ invoices' = Append(invoices, "ISSUED")
            <4>1. ~Issued
                BY <2>q, <3>2 DEF EffectsAreRecorded, WhereItIs, UnderWay
            <4>2. invoices \in Seq({"ISSUED", "VOIDED"})
                BY DEF PlainTypes
            <4> QED BY <3>2, <4>1, <4>2, InvoicesGrow
        <3> QED BY <1>4, <3>1, <3>2 DEF Act
    <2>3. EffectsAreAhead' /\ LatestFirst' /\ TicketAfterMoney' /\ NothingLeft'
        BY <1>4, <2>q
           DEF Act, EffectsAreAhead, WhereItIs, MoneyMoves, LatestFirst, TicketAfterMoney,
               NothingLeft
    <2>4. TicketBeforeRefund'
        <3>1. posted["refund"] = 0
            BY <1>4, <2>q DEF Act, EffectsAreRecorded, WhereItIs
        <3>2. posted'["refund"] = posted["refund"]
            BY <1>4 DEF Act, PostOnce, PlainTypes
        <3> QED BY <3>1, <3>2 DEF TicketBeforeRefund
    <2> QED BY <2>1, <2>2, <2>3, <2>4, Zenon DEF NothingIsLost
<1>5. CASE Debit
    <2> SUFFICES ASSUME Quiet' PROVE NothingIsLost'
        BY DEF NothingIsLost
    <2>q. Quiet
        BY <1>5 DEF Debit, Quiet
    <2>1. EffectsAreRecorded'
        <3>1. /\ pc = "act" /\ at = 2 /\ pc' \in {"acted", "debited"}
              /\ UNCHANGED <<booking, row, at, hold, reserved, given, invoices>>
            BY <1>5 DEF Debit
        <3>2. posted' = posted \/ posted' = PostOnce("debit")
            BY <1>5 DEF Debit
        <3>3. posted'["refund"] = posted["refund"]
            BY <3>2 DEF PostOnce, PlainTypes
        <3>4. EffectsAreRecorded /\ booking # "FAILED"
            BY <2>q, <3>1 DEF WhereItIs
        <3> QED BY <3>1, <3>3, <3>4 DEF EffectsAreRecorded, Issued
    <2>2. OnlyLatestIssued' /\ LatestFirst' /\ TicketAfterMoney'
        BY <1>5, <2>q DEF Debit, OnlyLatestIssued, LatestFirst, TicketAfterMoney
    <2>3. EffectsAreAhead'
        BY <1>5, <2>q DEF Debit, EffectsAreAhead, PostOnce
    <2>4. NothingLeft'
        BY <1>5, <2>q DEF Debit, NothingLeft, WhereItIs
    <2>5. TicketBeforeRefund'
        BY <1>5, <2>q DEF Debit, TicketBeforeRefund, PlainTypes, PostOnce
    <2> QED BY <2>1, <2>2, <2>3, <2>4, <2>5, Zenon DEF NothingIsLost
<1>6. CASE RecordPayment
    <2> SUFFICES ASSUME Quiet' PROVE NothingIsLost'
        BY DEF NothingIsLost
    <2>q. Quiet
        BY <1>6 DEF RecordPayment, Quiet
    <2>1. /\ EffectsAreRecorded' /\ OnlyLatestIssued' /\ EffectsAreAhead' /\ LatestFirst'
          /\ TicketAfterMoney' /\ NothingLeft' /\ TicketBeforeRefund'
        BY <1>6, <2>q
           DEF RecordPayment, EffectsAreRecorded, Issued, OnlyLatestIssued, EffectsAreAhead,
               MoneyMoves, LatestFirst, TicketAfterMoney, NothingLeft, TicketBeforeRefund
    <2> QED BY <2>1, Zenon DEF NothingIsLost
<1>7. CASE ConfirmByPayment
    <2> SUFFICES ASSUME Quiet' PROVE NothingIsLost'
        BY DEF NothingIsLost
    <2>q. Quiet
        BY <1>7 DEF ConfirmByPayment, Quiet
    <2>1. /\ EffectsAreRecorded' /\ OnlyLatestIssued' /\ EffectsAreAhead' /\ LatestFirst'
          /\ TicketAfterMoney' /\ NothingLeft' /\ TicketBeforeRefund'
        BY <1>7, <2>q
           DEF ConfirmByPayment, EffectsAreRecorded, Issued, WhereItIs, OnlyLatestIssued,
               EffectsAreAhead, LatestFirst, TicketAfterMoney, NothingLeft, TicketBeforeRefund
    <2> QED BY <2>1, Zenon DEF NothingIsLost
<1>8. CASE RealizeRevenue
    <2> SUFFICES ASSUME Quiet' PROVE NothingIsLost'
        BY DEF NothingIsLost
    <2>q. Quiet
        BY <1>8 DEF RealizeRevenue, Quiet
    <2>1. EffectsAreRecorded'
        <3>1. /\ pc = "confirmed" /\ pc' = "acted" /\ at = 2
              /\ UNCHANGED <<booking, row, at, hold, reserved, given, invoices>>
            BY <1>8 DEF RealizeRevenue, WhereItIs
        <3>2. posted'["debit"] = posted["debit"] /\ posted'["refund"] = posted["refund"]
            BY <1>8 DEF RealizeRevenue, PostOnce, PlainTypes
        <3>3. EffectsAreRecorded /\ booking # "FAILED"
            BY <2>q, <3>1 DEF WhereItIs
        <3> QED BY <3>1, <3>2, <3>3 DEF EffectsAreRecorded, Issued
    <2>2. posted'["debit"] = posted["debit"] /\ posted'["refund"] = posted["refund"]
        BY <1>8 DEF RealizeRevenue, PostOnce, PlainTypes
    <2>3. /\ pc = "confirmed" /\ pc' = "acted" /\ at = 2 /\ booking # "FAILED"
          /\ UNCHANGED <<booking, row, earlier, at, hold, reserved, given, invoices, todo>>
        BY <1>8 DEF RealizeRevenue, WhereItIs
    <2>4. OnlyLatestIssued' /\ TicketAfterMoney'
        BY <2>q, <2>3 DEF OnlyLatestIssued, TicketAfterMoney
    <2>5. EffectsAreAhead' /\ LatestFirst'
        BY <2>3 DEF EffectsAreAhead, LatestFirst, Undoing
    <2>6. NothingLeft' /\ TicketBeforeRefund'
        BY <2>q, <2>2, <2>3 DEF NothingLeft, TicketBeforeRefund
    <2> QED BY <2>1, <2>4, <2>5, <2>6, Zenon DEF NothingIsLost
<1>9. CASE StepSucceeds
    <2> SUFFICES ASSUME Quiet' PROVE NothingIsLost'
        BY DEF NothingIsLost
    <2>q. Quiet
        BY <1>9 DEF StepSucceeds, Quiet
    <2>1. EffectsAreRecorded'
        <3>1. /\ pc = "acted" /\ row' = [row EXCEPT ![Step] = "SUCCEEDED"]
              /\ UNCHANGED <<booking, posted, hold, reserved, given, invoices>>
            BY <1>9 DEF StepSucceeds
        <3>2. \A s \in Steps : row[s] = "SUCCEEDED" \/ s = Step => row'[s] = "SUCCEEDED"
            BY <3>1 DEF PlainTypes
        <3>3. EffectsAreRecorded /\ booking # "FAILED"
            BY <2>q, <3>1 DEF WhereItIs
        <3> QED BY <3>1, <3>2, <3>3 DEF EffectsAreRecorded, Issued
    <2>2. /\ OnlyLatestIssued' /\ EffectsAreAhead' /\ LatestFirst'
          /\ TicketAfterMoney' /\ NothingLeft' /\ TicketBeforeRefund'
        BY <1>9, <2>q
           DEF StepSucceeds, OnlyLatestIssued, EffectsAreAhead, WhereItIs, MoneyMoves, Proceed,
               Following, LatestFirst, Quiet, PlainTypes, TicketAfterMoney, NothingLeft, Issued,
               TicketBeforeRefund
    <2> QED BY <2>1, <2>2, Zenon DEF NothingIsLost
<1>10. CASE Refused
    <2> SUFFICES ASSUME Quiet' PROVE NothingIsLost'
        BY DEF NothingIsLost
    <2>q. Quiet
        BY <1>10 DEF Refused, Quiet
    <2>1. /\ EffectsAreRecorded' /\ OnlyLatestIssued' /\ EffectsAreAhead' /\ LatestFirst'
          /\ TicketAfterMoney' /\ NothingLeft' /\ TicketBeforeRefund'
        BY <1>10, <2>q
           DEF Refused, EffectsAreRecorded, Issued, WhereItIs, OnlyLatestIssued, EffectsAreAhead,
               LatestFirst, TicketAfterMoney, NothingLeft, TicketBeforeRefund
    <2> QED BY <2>1, Zenon DEF NothingIsLost
<1>11. CASE Throws
    <2> SUFFICES ASSUME Quiet' PROVE NothingIsLost'
        BY DEF NothingIsLost
    <2>q. Quiet
        BY <1>11 DEF Throws, Quiet, PlainTypes
    <2>1. /\ EffectsAreRecorded' /\ OnlyLatestIssued' /\ EffectsAreAhead' /\ LatestFirst'
          /\ TicketAfterMoney' /\ NothingLeft' /\ TicketBeforeRefund'
        BY <1>11, <2>q
           DEF Throws, EffectsAreRecorded, Quiet, Issued, UnderWay, PlainTypes, WhereItIs,
               MoneyMoves, OnlyLatestIssued, EffectsAreAhead, LatestFirst, TicketAfterMoney,
               NothingLeft, TicketBeforeRefund
    <2> QED BY <2>1, Zenon DEF NothingIsLost
<1>12. CASE StepFails
    <2> SUFFICES ASSUME Quiet' PROVE NothingIsLost'
        BY DEF NothingIsLost
    <2>q. Quiet
        BY <1>12 DEF StepFails, Quiet
    <2>1. /\ EffectsAreRecorded' /\ OnlyLatestIssued' /\ EffectsAreAhead' /\ LatestFirst'
          /\ TicketAfterMoney' /\ NothingLeft' /\ TicketBeforeRefund'
        BY <1>12, <2>q
           DEF StepFails, EffectsAreRecorded, Issued, UnderWay, OnlyLatestIssued, EffectsAreAhead,
               LatestFirst, MoneyMoves, TicketAfterMoney, NothingLeft, TicketBeforeRefund
    <2> QED BY <2>1, Zenon DEF NothingIsLost
<1>13. CASE BeginUndoing
    <2> SUFFICES ASSUME Quiet' PROVE NothingIsLost'
        BY DEF NothingIsLost
    <2>q. Quiet
        BY <1>13 DEF BeginUndoing, Quiet
    <2>1. /\ EffectsAreRecorded' /\ OnlyLatestIssued' /\ TicketAfterMoney'
          /\ NothingLeft' /\ TicketBeforeRefund'
        BY <1>13, <2>q
           DEF BeginUndoing, EffectsAreRecorded, OnlyLatestIssued, TicketAfterMoney, NothingLeft,
               Issued, TicketBeforeRefund
    <2>2. EffectsAreAhead'
        <3>1. pc = "compensate" /\ todo' \in ToUndo
            BY <1>13 DEF BeginUndoing
        <3>2. StartedInOrder /\ row \in [Steps -> Statuses]
            BY DEF SagaFacts, TypeInvariant, PlainTypes
        <3>3. \A s \in Steps : row[s] = "SUCCEEDED" => \E j \in 1..Len(todo') : todo'[j] = s
            BY <3>1, <3>2, EveryDoneStepIsUndone DEF Done
        <3>4. pc' = "undo" /\ UNCHANGED <<hold, posted, reserved, given, invoices>>
            BY <1>13 DEF BeginUndoing
        <3>5. EffectsAreRecorded /\ booking # "FAILED" /\ posted["debit"] <= 1 /\ posted["debit"] \in Nat
            BY <2>q, <3>1 DEF WhereItIs, PlainTypes, MoneyMoves
        <3> QED BY <3>1, <3>3, <3>4, <3>5 DEF EffectsAreRecorded, EffectsAreAhead, Issued, IsAhead
    <2>3. LatestFirst'
        <3>1. pc = "compensate" /\ todo' \in ToUndo
            BY <1>13 DEF BeginUndoing
        <3>2. StartedInOrder /\ row \in [Steps -> Statuses]
            BY DEF SagaFacts, TypeInvariant, PlainTypes
        <3>3. /\ \A i, j \in 1..Len(todo') : i < j => todo'[j] \in earlier[todo'[i]]
              /\ \A i \in 1..Len(todo') : row[todo'[i]] = "SUCCEEDED"
            BY <3>1, <3>2, EveryDoneStepIsUndone, UndoneWereDone
        <3>4. UNCHANGED <<earlier, at>> /\ pc' = "undo"
            BY <1>13 DEF BeginUndoing
        <3>5. row["supplier"] = "SUCCEEDED" => at >= 3 /\ "supplier" \notin earlier["pay"]
            BY <2>q, <3>1 DEF Quiet, OneAfterTheOther, LaterNotDone, TicketAfterMoney, PlainTypes
        <3> QED BY <3>3, <3>4, <3>5 DEF LatestFirst
    <2> QED BY <2>1, <2>2, <2>3, Zenon DEF NothingIsLost
<1>14. CASE Undo
    <2> SUFFICES ASSUME Quiet' PROVE NothingIsLost'
        BY DEF NothingIsLost
    <2>q. Quiet
        BY <1>14 DEF Undo, Quiet
    <2>1. EffectsAreRecorded' /\ LatestFirst' /\ TicketAfterMoney' /\ NothingLeft'
        BY <1>14, <2>q
           DEF Undo, EffectsAreRecorded, LatestFirst, TicketAfterMoney, NothingLeft, WhereItIs
    <2>2. OnlyLatestIssued'
        <3>1. invoices \in Seq({"ISSUED", "VOIDED"}) /\ OnlyLatestIssued
            BY <2>q DEF PlainTypes
        <3>2. UNCHANGED invoices \/ invoices' = [invoices EXCEPT ![Len(invoices)] = "VOIDED"]
            BY <1>14 DEF Undo
        <3> QED BY <3>1, <3>2, LatestIsVoided DEF OnlyLatestIssued
    <2>3. EffectsAreAhead'
        <3>1. /\ pc = "undo" /\ pc' = "undone" /\ UNCHANGED todo /\ todo # <<>>
              /\ EffectsAreAhead /\ OnlyLatestIssued /\ LatestFirst
              /\ at \in 1..5 /\ invoices \in Seq({"ISSUED", "VOIDED"})
              /\ posted \in [{"debit", "refund", "revenue"} -> Nat]
            BY <1>14, <2>q DEF Undo, PlacesFit, PlainTypes
        <3>2. Len(todo) \in Nat \ {0} /\ Head(todo) = todo[1] /\ Head(todo) \in Steps
            BY <3>1
        <3>3. \A s \in Steps : (s # Head(todo) /\ IsAhead(s)) => IsAhead(s)'
            BY <3>1, <3>2 DEF IsAhead
        <3>4. Head(todo) = "supplier" => ~Voidable'
            <4> SUFFICES ASSUME Head(todo) = "supplier" PROVE ~Voidable'
                OBVIOUS
            <4>1. at >= 3
                BY <3>1, <3>2 DEF LatestFirst
            <4>2. Step \notin {"hold", "pay"}
                BY <3>1, <4>1, StepByNumber
            <4>3. /\ reserved' = (reserved /\ ("void" \notin given \/ Step \in {"hold", "pay"}))
                  /\ UNCHANGED given
                BY <1>14 DEF Undo
            <4> QED BY <4>2, <4>3
        <3>5. Head(todo) = "hold" => hold' # "CAPTURED"
            BY <1>14 DEF Undo, GiveBackSeats
        <3>6. Head(todo) = "pay" => posted'["debit"] = posted'["refund"]
            <4> SUFFICES ASSUME Head(todo) = "pay" PROVE posted'["debit"] = posted'["refund"]
                OBVIOUS
            <4>1. posted["debit"] = 1 /\ posted["refund"] <= 1
                BY <3>2 DEF MoneyMoves
            <4>2. posted' = PostOnce("refund")
                BY <1>14 DEF Undo
            <4> QED BY <3>1, <4>1, <4>2 DEF PostOnce
        <3>7. Head(todo) = "invoice" => ~Issued'
            BY <1>14, <3>1, LatestIsVoided DEF Undo
        <3>8. /\ Head(todo) # "hold" => UNCHANGED hold
              /\ Head(todo) # "pay" => UNCHANGED posted
              /\ Head(todo) # "supplier" => UNCHANGED Voidable
              /\ Head(todo) # "invoice" => UNCHANGED invoices
            BY <1>14 DEF Undo
        <3>9. Head(todo) # "invoice" => Issued' = Issued
            BY <3>8 DEF Issued
        <3> QED BY <3>1, <3>3, <3>4, <3>5, <3>6, <3>7, <3>8, <3>9 DEF EffectsAreAhead
    <2>4. TicketBeforeRefund'
        <3>1. /\ pc = "undo" /\ todo # <<>> /\ EffectsAreAhead /\ LatestFirst /\ TicketBeforeRefund
              /\ posted \in [{"debit", "refund", "revenue"} -> Nat]
            BY <1>14, <2>q DEF Undo, PlainTypes
        <3>2. Head(todo) = todo[1] /\ Len(todo) \in Nat \ {0}
            BY <3>1
        <3>3. Voidable' => Voidable
            BY <1>14 DEF Undo
        <3>4. CASE Head(todo) = "pay"
            <4>1. ~(\E j \in 1..Len(todo) : todo[j] = "supplier")
                <5> SUFFICES ASSUME NEW j \in 1..Len(todo), todo[j] = "supplier" PROVE FALSE
                    OBVIOUS
                <5>1. j # 1 /\ 1 < j
                    BY <3>2, <3>4
                <5> QED BY <3>1, <3>2, <3>4, <5>1 DEF LatestFirst
            <4>2. ~Voidable
                BY <3>1, <4>1 DEF EffectsAreAhead, IsAhead
            <4> QED BY <3>3, <4>2 DEF TicketBeforeRefund
        <3>5. CASE Head(todo) # "pay"
            <4>1. UNCHANGED posted
                BY <1>14, <3>5 DEF Undo
            <4> QED BY <3>1, <3>3, <4>1 DEF TicketBeforeRefund
        <3> QED BY <3>4, <3>5
    <2> QED BY <2>1, <2>2, <2>3, <2>4, Zenon DEF NothingIsLost
<1>15. CASE MarkUndone
    <2> SUFFICES ASSUME Quiet' PROVE NothingIsLost'
        BY DEF NothingIsLost
    <2>q. Quiet
        BY <1>15 DEF MarkUndone, Quiet
    <2>1. /\ EffectsAreRecorded' /\ OnlyLatestIssued' /\ LatestFirst'
          /\ TicketAfterMoney' /\ NothingLeft' /\ TicketBeforeRefund'
        BY <1>15, <2>q
           DEF MarkUndone, EffectsAreRecorded, OnlyLatestIssued, LatestFirst, TicketAfterMoney,
               NothingLeft, Issued, TicketBeforeRefund
    <2>2. EffectsAreAhead'
        <3>1. /\ pc = "undone" /\ pc' = "undo" /\ todo' = Tail(todo) /\ todo # <<>>
              /\ EffectsAreAhead /\ UNCHANGED <<hold, posted, reserved, given, invoices>>
            BY <1>15, <2>q DEF MarkUndone, WhereItIs, Quiet
        <3>2. \A s \in Steps : IsAhead(s) => IsAhead(s)'
            <4> SUFFICES ASSUME NEW s \in Steps, NEW j \in 1..Len(todo), todo[j] = s, j > 1
                         PROVE  \E k \in 1..Len(Tail(todo)) : Tail(todo)[k] = s
                BY <3>1 DEF IsAhead
            <4>1. j - 1 \in 1..Len(Tail(todo)) /\ Tail(todo)[j - 1] = s
                BY <3>1
            <4> QED BY <4>1
        <3> QED BY <3>1, <3>2 DEF EffectsAreAhead, Issued
    <2> QED BY <2>1, <2>2, Zenon DEF NothingIsLost
<1>16. CASE UndoThrows
    <2> SUFFICES ASSUME Quiet' PROVE NothingIsLost'
        BY DEF NothingIsLost
    <2>q. Quiet
        BY <1>16 DEF UndoThrows, Quiet, PlainTypes
    <2>1. /\ EffectsAreRecorded' /\ OnlyLatestIssued' /\ LatestFirst'
          /\ TicketAfterMoney' /\ NothingLeft' /\ TicketBeforeRefund'
        BY <1>16, <2>q
           DEF UndoThrows, EffectsAreRecorded, OnlyLatestIssued, LatestFirst, TicketAfterMoney,
               NothingLeft, Issued, TicketBeforeRefund
    <2>2. EffectsAreAhead'
        <3>1. /\ pc = "undone" /\ pc' = "undo" /\ todo' = Tail(todo) /\ todo # <<>>
              /\ EffectsAreAhead /\ UNCHANGED <<hold, posted, reserved, given, invoices>>
            BY <1>16, <2>q DEF UndoThrows, WhereItIs, Quiet
        <3>2. \A s \in Steps : IsAhead(s) => IsAhead(s)'
            <4> SUFFICES ASSUME NEW s \in Steps, NEW j \in 1..Len(todo), todo[j] = s, j > 1
                         PROVE  \E k \in 1..Len(Tail(todo)) : Tail(todo)[k] = s
                BY <3>1 DEF IsAhead
            <4>1. j - 1 \in 1..Len(Tail(todo)) /\ Tail(todo)[j - 1] = s
                BY <3>1
            <4> QED BY <4>1
        <3> QED BY <3>1, <3>2 DEF EffectsAreAhead, Issued
    <2> QED BY <2>1, <2>2, Zenon DEF NothingIsLost
<1>17. CASE FailBooking
    <2> SUFFICES ASSUME Quiet' PROVE NothingIsLost'
        BY DEF NothingIsLost
    <2>q. Quiet
        BY <1>17 DEF FailBooking, Quiet
    <2>1. /\ EffectsAreRecorded' /\ OnlyLatestIssued' /\ EffectsAreAhead' /\ LatestFirst'
          /\ TicketAfterMoney' /\ NothingLeft' /\ TicketBeforeRefund'
        BY <1>17, <2>q
           DEF FailBooking, EffectsAreRecorded, OnlyLatestIssued, EffectsAreAhead, LatestFirst,
               TicketAfterMoney, NothingLeft, Issued, IsAhead, TicketBeforeRefund
    <2> QED BY <2>1, Zenon DEF NothingIsLost
<1>18. CASE CloseFailed
    <2> SUFFICES ASSUME Quiet' PROVE NothingIsLost'
        BY DEF NothingIsLost
    <2>q. Quiet
        BY <1>18 DEF CloseFailed, Quiet
    <2>1. /\ EffectsAreRecorded' /\ OnlyLatestIssued' /\ EffectsAreAhead' /\ LatestFirst'
          /\ TicketAfterMoney' /\ NothingLeft' /\ TicketBeforeRefund'
        BY <1>18, <2>q
           DEF CloseFailed, EffectsAreRecorded, Issued, OnlyLatestIssued, EffectsAreAhead,
               LatestFirst, MoneyMoves, TicketAfterMoney, NothingLeft, TicketBeforeRefund
    <2> QED BY <2>1, Zenon DEF NothingIsLost
<1>19. CASE ConfirmBooking
    <2> SUFFICES ASSUME Quiet' PROVE NothingIsLost'
        BY DEF NothingIsLost
    <2>q. Quiet
        BY <1>19 DEF ConfirmBooking, Quiet
    <2>1. /\ EffectsAreRecorded' /\ OnlyLatestIssued' /\ EffectsAreAhead' /\ LatestFirst'
          /\ TicketAfterMoney' /\ NothingLeft' /\ TicketBeforeRefund'
        BY <1>19, <2>q
           DEF ConfirmBooking, EffectsAreRecorded, Issued, WhereItIs, OnlyLatestIssued,
               EffectsAreAhead, LatestFirst, TicketAfterMoney, NothingLeft, TicketBeforeRefund
    <2> QED BY <2>1, Zenon DEF NothingIsLost
<1>20. CASE Announce
    <2> SUFFICES ASSUME Quiet' PROVE NothingIsLost'
        BY DEF NothingIsLost
    <2>q. Quiet
        BY <1>20 DEF Announce, Quiet
    <2>1. /\ EffectsAreRecorded' /\ OnlyLatestIssued' /\ EffectsAreAhead' /\ LatestFirst'
          /\ TicketAfterMoney' /\ NothingLeft' /\ TicketBeforeRefund'
        BY <1>20, <2>q
           DEF Announce, EffectsAreRecorded, Issued, OnlyLatestIssued, EffectsAreAhead,
               LatestFirst, TicketAfterMoney, NothingLeft, TicketBeforeRefund
    <2> QED BY <2>1, Zenon DEF NothingIsLost
<1>21. CASE Finish
    <2> SUFFICES ASSUME Quiet' PROVE NothingIsLost'
        BY DEF NothingIsLost
    <2>q. Quiet
        BY <1>21 DEF Finish, Quiet
    <2>1. /\ EffectsAreRecorded' /\ OnlyLatestIssued' /\ EffectsAreAhead' /\ LatestFirst'
          /\ TicketAfterMoney' /\ NothingLeft' /\ TicketBeforeRefund'
        BY <1>21, <2>q
           DEF Finish, EffectsAreRecorded, Issued, OnlyLatestIssued, EffectsAreAhead, LatestFirst,
               WhereItIs, MoneyMoves, TicketAfterMoney, NothingLeft, TicketBeforeRefund
    <2> QED BY <2>1, Zenon DEF NothingIsLost
<1>22. CASE Stop
    <2> SUFFICES ASSUME Quiet' PROVE NothingIsLost'
        BY DEF NothingIsLost
    <2>q. Quiet
        BY <1>22 DEF Stop, Quiet, PlainTypes
    <2>1. /\ EffectsAreRecorded' /\ OnlyLatestIssued' /\ EffectsAreAhead' /\ LatestFirst'
          /\ TicketAfterMoney' /\ NothingLeft' /\ TicketBeforeRefund'
        BY <1>22, <2>q
           DEF Stop, EffectsAreRecorded, Quiet, Issued, UnderWay, PlainTypes, WhereItIs,
               MoneyMoves, OnlyLatestIssued, EffectsAreAhead, LatestFirst, TicketAfterMoney,
               NothingLeft, TicketBeforeRefund
    <2> QED BY <2>1, Zenon DEF NothingIsLost
<1>23. CASE HoldLapses
    <2> SUFFICES ASSUME Quiet' PROVE NothingIsLost'
        BY DEF NothingIsLost
    <2>q. Quiet
        BY <1>23 DEF HoldLapses, Quiet
    <2>1. /\ EffectsAreRecorded' /\ OnlyLatestIssued' /\ EffectsAreAhead' /\ LatestFirst'
          /\ TicketAfterMoney' /\ NothingLeft' /\ TicketBeforeRefund'
        BY <1>23, <2>q
           DEF HoldLapses, EffectsAreRecorded, Issued, OnlyLatestIssued, EffectsAreAhead, IsAhead,
               LatestFirst, TicketAfterMoney, NothingLeft, TicketBeforeRefund
    <2> QED BY <2>1, Zenon DEF NothingIsLost
<1>24. ASSUME NEW w \in Workers, WorkSaga(w) \/ WorkerStops(w) PROVE NothingIsLost'
    BY <1>24, WorkersOnlyMark
       DEF NothingIsLost, Quiet, EffectsAreRecorded, OnlyLatestIssued, EffectsAreAhead,
           LatestFirst, TicketAfterMoney, NothingLeft, TicketBeforeRefund, Issued, IsAhead
<1>25. CASE UNCHANGED sagaVars
    BY <1>25
       DEF sagaVars, NothingIsLost, Quiet, EffectsAreRecorded, OnlyLatestIssued, EffectsAreAhead,
           LatestFirst, TicketAfterMoney, NothingLeft, TicketBeforeRefund, Issued, IsAhead
<1> QED
    BY <1>1, <1>2, <1>3, <1>4, <1>5, <1>6, <1>7, <1>8, <1>9, <1>10, <1>11, <1>12, <1>13,
       <1>14, <1>15, <1>16, <1>17, <1>18, <1>19, <1>20, <1>21, <1>22, <1>23, <1>24, <1>25,
       Zenon DEF SagaNext, Coordinate

-----------------------------------------------------------------------------
(***************************************************************************)
(* 5. What a confirmed booking has.                                        *)
(***************************************************************************)

(* Postings of the debit and the revenue, none of a refund.                *)
Postings(d, r) == posted["debit"] = d /\ posted["refund"] = 0 /\ posted["revenue"] = r

(* Before the saga is opened.                                              *)
Untouched ==
    /\ saga = "none" /\ \A s \in Steps : row[s] = "none"
    /\ \A w \in Workers : wpc[w] = "idle"
    /\ Postings(0, 0) /\ ~payment /\ invoices = <<>> /\ announced = 0
    /\ hold \in {"NONE", "ACTIVE", "EXPIRED"}

(* Neither the step under way nor a later one is done.                     *)
NotYetDone ==
    /\ at <= 1 => row["hold"] # "SUCCEEDED"
    /\ at <= 2 => row["pay"] # "SUCCEEDED"
    /\ at <= 3 => row["supplier"] # "SUCCEEDED"
    /\ at <= 4 => row["ledger"] # "SUCCEEDED"
    /\ at <= 5 => row["invoice"] # "SUCCEEDED"

(* The steps have had their effect, once.                                  *)
Finished ==
    /\ Postings(1, 1) /\ payment /\ hold \in {"NONE", "CAPTURED"}
    /\ invoices = <<"ISSUED">>

(* An attempt on a payable booking is the first.                           *)
StartsClean == pc \in {"idle", "open"} /\ booking = "PAYABLE" => Untouched

(* Where the attempt is, the rows, the seats, the money and the goods are  *)
(* as far as the steps before it take them.                                *)
RowsOnCourse == pc \in InStep => NotYetDone /\ announced = 0

SeatsOnCourse ==
    pc \in InStep =>
        /\ at = 1 => hold # "NONE"
        /\ at > 1 \/ pc = "acted" => hold \in {"NONE", "CAPTURED"}

MoneyOnCourse ==
    pc \in InStep =>
        /\ at = 1 \/ (at = 2 /\ pc \in {"enter", "act", "failed"}) => ~payment /\ Postings(0, 0)
        /\ pc \in {"debited", "recorded", "confirmed"} => Postings(1, 0)
        /\ at > 2 \/ (at = 2 /\ pc = "acted") => payment /\ Postings(1, 1)

GoodsOnCourse ==
    pc \in InStep => invoices = IF at = 5 /\ pc = "acted" THEN <<"ISSUED">> ELSE <<>>

(* Behind the steps all effects are there, and the announcement follows.   *)
ClosesComplete ==
    /\ pc \in Closing => Finished /\ announced = IF pc = "finish" THEN 1 ELSE 0
    /\ pc \in {"announce", "finish"} => booking = "CONFIRMED"

EndsComplete == pc = "idle" /\ booking = "CONFIRMED" => Finished /\ announced = 1

(* What holds as long as nothing stops or throws.                          *)
OnCourse ==
    faults = 0 => /\ StartsClean /\ RowsOnCourse /\ SeatsOnCourse /\ MoneyOnCourse /\ GoodsOnCourse
                  /\ ClosesComplete /\ EndsComplete

(* Nothing has happened at first.                                          *)
LEMMA OnCourseInit == SagaInit => OnCourse
BY SagaAssumption
   DEF SagaInit, OnCourse, StartsClean, Untouched, Postings, RowsOnCourse, SeatsOnCourse,
       MoneyOnCourse, GoodsOnCourse, ClosesComplete, EndsComplete, InStep, Closing

(* Each step takes the attempt one step further; a worker has no saga to   *)
(* write to before it is opened, and marks no step as done.                *)
LEMMA OnCoursePreserved ==
    SagaFacts /\ OnCourse /\ [SagaNext]_sagaVars => OnCourse'
<1> SUFFICES ASSUME SagaFacts, OnCourse, [SagaNext]_sagaVars PROVE OnCourse'
    OBVIOUS
<1>f. /\ PlainTypes /\ MoneyMoves /\ WhereItIs /\ PlacesFit /\ UnderWay
      /\ faults = 0 =>
           /\ StartsClean /\ RowsOnCourse /\ SeatsOnCourse /\ MoneyOnCourse /\ GoodsOnCourse
           /\ ClosesComplete /\ EndsComplete
    BY FactsAtHand DEF DoneInOrder, OnCourse
<1> USE <1>f, FactsAtHand DEF effects, worker, counts, coordinator
<1>1. CASE Begin
    <2> SUFFICES ASSUME faults' = 0 PROVE OnCourse'
        BY DEF OnCourse
    <2>q. faults = 0
        BY <1>1 DEF Begin
    <2>1. /\ StartsClean' /\ RowsOnCourse' /\ SeatsOnCourse' /\ MoneyOnCourse'
          /\ GoodsOnCourse' /\ ClosesComplete' /\ EndsComplete'
        BY <1>1, <2>q
           DEF Begin, StartsClean, Untouched, Postings, RowsOnCourse, SeatsOnCourse,
               MoneyOnCourse, GoodsOnCourse, ClosesComplete, EndsComplete, Finished
    <2> QED BY <2>1, Zenon DEF OnCourse
<1>2. CASE OpenSaga
    <2> SUFFICES ASSUME faults' = 0 PROVE OnCourse'
        BY DEF OnCourse
    <2>q. faults = 0
        BY <1>2 DEF OpenSaga
    <2>1. StartsClean' /\ SeatsOnCourse' /\ ClosesComplete'
        BY <1>2, <2>q
           DEF OpenSaga, StartsClean, Untouched, SeatsOnCourse, ClosesComplete, WhereItIs,
               PlacesFit
    <2>2. RowsOnCourse'
        <3>1. booking = "PAYABLE" /\ pc = "open"
            BY <1>2 DEF OpenSaga, PlacesFit
        <3>2. Untouched
            BY <2>q, <3>1 DEF StartsClean
        <3>3. UNCHANGED <<row, announced>>
            BY <1>2 DEF OpenSaga
        <3> QED BY <3>2, <3>3 DEF RowsOnCourse, NotYetDone, Untouched
    <2>3. MoneyOnCourse'
        <3>1. booking = "PAYABLE" /\ pc = "open"
            BY <1>2 DEF OpenSaga, PlacesFit
        <3>2. Untouched
            BY <2>q, <3>1 DEF StartsClean
        <3>3. at' \in {1, 2} /\ pc' = "enter" /\ UNCHANGED <<payment, posted>>
            BY <1>2, <3>2 DEF OpenSaga, Untouched
        <3> QED BY <3>2, <3>3 DEF MoneyOnCourse, Untouched, Postings
    <2>4. GoodsOnCourse'
        <3>1. booking = "PAYABLE" /\ pc = "open"
            BY <1>2 DEF OpenSaga, PlacesFit
        <3>2. Untouched
            BY <2>q, <3>1 DEF StartsClean
        <3>3. at' \in {1, 2} /\ pc' = "enter" /\ UNCHANGED invoices
            BY <1>2, <3>2 DEF OpenSaga, Untouched
        <3> QED BY <3>2, <3>3 DEF GoodsOnCourse, Untouched
    <2>5. EndsComplete'
        <3>1. booking = "PAYABLE" /\ UNCHANGED booking
            BY <1>2 DEF OpenSaga, PlacesFit
        <3> QED BY <3>1 DEF EndsComplete
    <2> QED BY <2>1, <2>2, <2>3, <2>4, <2>5, Zenon DEF OnCourse
<1>3. CASE Enter
    <2> SUFFICES ASSUME faults' = 0 PROVE OnCourse'
        BY DEF OnCourse
    <2>q. faults = 0
        BY <1>3 DEF Enter
    <2>1. /\ StartsClean' /\ RowsOnCourse' /\ SeatsOnCourse' /\ MoneyOnCourse'
          /\ GoodsOnCourse' /\ ClosesComplete' /\ EndsComplete'
        BY <1>3, <2>q
           DEF Enter, StartsClean, Proceed, RowsOnCourse, NotYetDone, PlainTypes, SeatsOnCourse,
               MoneyOnCourse, Postings, GoodsOnCourse, ClosesComplete, EndsComplete
    <2> QED BY <2>1, Zenon DEF OnCourse
<1>4. CASE Act
    <2> SUFFICES ASSUME faults' = 0 PROVE OnCourse'
        BY DEF OnCourse
    <2>q. faults = 0
        BY <1>4 DEF Act
    <2>1. /\ StartsClean' /\ RowsOnCourse' /\ SeatsOnCourse'
          /\ MoneyOnCourse' /\ ClosesComplete' /\ EndsComplete'
        BY <1>4, <2>q
           DEF Act, StartsClean, RowsOnCourse, NotYetDone, SeatsOnCourse, MoneyOnCourse, Postings,
               PostOnce, ClosesComplete, EndsComplete
    <2>2. GoodsOnCourse'
        <3>1. pc = "act" /\ pc' = "acted" /\ UNCHANGED at /\ at \in 1..5 /\ GoodsOnCourse
            BY <1>4, <2>q DEF Act
        <3>2. invoices = <<>>
            BY <3>1 DEF GoodsOnCourse
        <3>3. /\ at = 5 => invoices' = Append(invoices, "ISSUED")
              /\ at # 5 => UNCHANGED invoices
            BY <1>4, <3>1 DEF Act
        <3>4. Append(<<>>, "ISSUED") = <<"ISSUED">>
            OBVIOUS
        <3>5. invoices' = IF at = 5 THEN <<"ISSUED">> ELSE <<>>
            BY <3>2, <3>3, <3>4, Zenon
        <3> QED BY <3>1, <3>2, <3>3, <3>5 DEF GoodsOnCourse
    <2> QED BY <2>1, <2>2, Zenon DEF OnCourse
<1>5. CASE Debit
    <2> SUFFICES ASSUME faults' = 0 PROVE OnCourse'
        BY DEF OnCourse
    <2>q. faults = 0
        BY <1>5 DEF Debit
    <2>1. /\ StartsClean' /\ RowsOnCourse' /\ SeatsOnCourse' /\ MoneyOnCourse'
          /\ GoodsOnCourse' /\ ClosesComplete' /\ EndsComplete'
        BY <1>5, <2>q
           DEF Debit, StartsClean, RowsOnCourse, NotYetDone, SeatsOnCourse, MoneyOnCourse,
               Postings, PlainTypes, PostOnce, GoodsOnCourse, ClosesComplete, EndsComplete
    <2> QED BY <2>1, Zenon DEF OnCourse
<1>6. CASE RecordPayment
    <2> SUFFICES ASSUME faults' = 0 PROVE OnCourse'
        BY DEF OnCourse
    <2>q. faults = 0
        BY <1>6 DEF RecordPayment
    <2>1. /\ StartsClean' /\ RowsOnCourse' /\ SeatsOnCourse' /\ MoneyOnCourse'
          /\ GoodsOnCourse' /\ ClosesComplete' /\ EndsComplete'
        BY <1>6, <2>q
           DEF RecordPayment, StartsClean, RowsOnCourse, NotYetDone, SeatsOnCourse, MoneyOnCourse,
               Postings, GoodsOnCourse, ClosesComplete, EndsComplete
    <2> QED BY <2>1, Zenon DEF OnCourse
<1>7. CASE ConfirmByPayment
    <2> SUFFICES ASSUME faults' = 0 PROVE OnCourse'
        BY DEF OnCourse
    <2>q. faults = 0
        BY <1>7 DEF ConfirmByPayment
    <2>1. /\ StartsClean' /\ RowsOnCourse' /\ SeatsOnCourse' /\ MoneyOnCourse'
          /\ GoodsOnCourse' /\ ClosesComplete' /\ EndsComplete'
        BY <1>7, <2>q
           DEF ConfirmByPayment, StartsClean, RowsOnCourse, NotYetDone, SeatsOnCourse,
               MoneyOnCourse, Postings, GoodsOnCourse, ClosesComplete, EndsComplete
    <2> QED BY <2>1, Zenon DEF OnCourse
<1>8. CASE RealizeRevenue
    <2> SUFFICES ASSUME faults' = 0 PROVE OnCourse'
        BY DEF OnCourse
    <2>q. faults = 0
        BY <1>8 DEF RealizeRevenue, PlainTypes
    <2>1. /\ StartsClean' /\ RowsOnCourse' /\ SeatsOnCourse'
          /\ GoodsOnCourse' /\ ClosesComplete' /\ EndsComplete'
        BY <1>8, <2>q
           DEF RealizeRevenue, StartsClean, RowsOnCourse, NotYetDone, SeatsOnCourse, WhereItIs,
               GoodsOnCourse, ClosesComplete, EndsComplete
    <2>2. MoneyOnCourse'
        BY <1>8, <2>q DEF RealizeRevenue, MoneyOnCourse, Postings, PlainTypes, WhereItIs, PostOnce
    <2> QED BY <2>1, <2>2, Zenon DEF OnCourse
<1>9. CASE StepSucceeds
    <2> SUFFICES ASSUME faults' = 0 PROVE OnCourse'
        BY DEF OnCourse
    <2>q. faults = 0
        BY <1>9 DEF StepSucceeds
    <2>1. StartsClean' /\ RowsOnCourse' /\ SeatsOnCourse' /\ MoneyOnCourse' /\ EndsComplete'
        BY <1>9, <2>q
           DEF StepSucceeds, StartsClean, Proceed, RowsOnCourse, NotYetDone, Following,
               SeatsOnCourse, MoneyOnCourse, Postings, EndsComplete
    <2>2. GoodsOnCourse'
        <3>1. pc = "acted" /\ at \in 1..5 /\ at' = at + 1 /\ UNCHANGED invoices
            BY <1>9 DEF StepSucceeds, Proceed, Following
        <3>2. pc' \in InStep => at < 5 /\ pc' = "enter"
            BY <1>9 DEF StepSucceeds, Proceed, Following, Catalogue
        <3>3. at < 5 => invoices = <<>>
            BY <2>q, <3>1 DEF GoodsOnCourse
        <3> QED BY <3>1, <3>2, <3>3 DEF GoodsOnCourse
    <2>3. ClosesComplete'
        <3>1. pc = "acted" /\ at \in 1..5
            BY <1>9 DEF StepSucceeds
        <3>2. pc' \in Closing => at = 5 /\ pc' = "confirm"
            BY <1>9, <3>1, CatalogueSteps DEF StepSucceeds, Proceed, Following
        <3>3. at = 5 => Finished /\ announced = 0
            BY <2>q, <3>1 DEF MoneyOnCourse, SeatsOnCourse, GoodsOnCourse, RowsOnCourse, Finished
        <3>4. UNCHANGED <<posted, payment, hold, invoices, announced>>
            BY <1>9 DEF StepSucceeds
        <3> QED BY <3>2, <3>3, <3>4 DEF ClosesComplete, Finished, Postings
    <2> QED BY <2>1, <2>2, <2>3, Zenon DEF OnCourse
<1>10. CASE Refused
    <2> SUFFICES ASSUME faults' = 0 PROVE OnCourse'
        BY DEF OnCourse
    <2>q. faults = 0
        BY <1>10 DEF Refused
    <2>1. /\ StartsClean' /\ RowsOnCourse' /\ SeatsOnCourse' /\ MoneyOnCourse'
          /\ GoodsOnCourse' /\ ClosesComplete' /\ EndsComplete'
        BY <1>10, <2>q
           DEF Refused, StartsClean, RowsOnCourse, NotYetDone, SeatsOnCourse, MoneyOnCourse,
               Postings, GoodsOnCourse, ClosesComplete, EndsComplete
    <2> QED BY <2>1, Zenon DEF OnCourse
<1>11. CASE StepFails
    <2> SUFFICES ASSUME faults' = 0 PROVE OnCourse'
        BY DEF OnCourse
    <2>q. faults = 0
        BY <1>11 DEF StepFails
    <2>1. /\ StartsClean' /\ RowsOnCourse' /\ SeatsOnCourse' /\ MoneyOnCourse'
          /\ GoodsOnCourse' /\ ClosesComplete' /\ EndsComplete'
        BY <1>11, <2>q
           DEF StepFails, StartsClean, RowsOnCourse, SeatsOnCourse, MoneyOnCourse, GoodsOnCourse,
               ClosesComplete, EndsComplete
    <2> QED BY <2>1, Zenon DEF OnCourse
<1>12. CASE BeginUndoing
    <2> SUFFICES ASSUME faults' = 0 PROVE OnCourse'
        BY DEF OnCourse
    <2>q. faults = 0
        BY <1>12 DEF BeginUndoing
    <2>1. /\ StartsClean' /\ RowsOnCourse' /\ SeatsOnCourse' /\ MoneyOnCourse'
          /\ GoodsOnCourse' /\ ClosesComplete' /\ EndsComplete'
        BY <1>12, <2>q
           DEF BeginUndoing, StartsClean, RowsOnCourse, SeatsOnCourse, WhereItIs, MoneyOnCourse,
               GoodsOnCourse, ClosesComplete, EndsComplete
    <2> QED BY <2>1, Zenon DEF OnCourse
<1>13. CASE Undo
    <2> SUFFICES ASSUME faults' = 0 PROVE OnCourse'
        BY DEF OnCourse
    <2>q. faults = 0
        BY <1>13 DEF Undo
    <2>1. /\ StartsClean' /\ RowsOnCourse' /\ SeatsOnCourse' /\ MoneyOnCourse'
          /\ GoodsOnCourse' /\ ClosesComplete' /\ EndsComplete'
        BY <1>13, <2>q
           DEF Undo, StartsClean, RowsOnCourse, WhereItIs, SeatsOnCourse, MoneyOnCourse,
               GoodsOnCourse, ClosesComplete, EndsComplete
    <2> QED BY <2>1, Zenon DEF OnCourse
<1>14. CASE MarkUndone
    <2> SUFFICES ASSUME faults' = 0 PROVE OnCourse'
        BY DEF OnCourse
    <2>q. faults = 0
        BY <1>14 DEF MarkUndone
    <2>1. /\ StartsClean' /\ RowsOnCourse' /\ SeatsOnCourse' /\ MoneyOnCourse'
          /\ GoodsOnCourse' /\ ClosesComplete' /\ EndsComplete'
        BY <1>14, <2>q
           DEF MarkUndone, StartsClean, RowsOnCourse, SeatsOnCourse, WhereItIs, MoneyOnCourse,
               GoodsOnCourse, ClosesComplete, EndsComplete
    <2> QED BY <2>1, Zenon DEF OnCourse
<1>15. CASE FailBooking
    <2> SUFFICES ASSUME faults' = 0 PROVE OnCourse'
        BY DEF OnCourse
    <2>q. faults = 0
        BY <1>15 DEF FailBooking
    <2>1. /\ StartsClean' /\ RowsOnCourse' /\ SeatsOnCourse' /\ MoneyOnCourse'
          /\ GoodsOnCourse' /\ ClosesComplete' /\ EndsComplete'
        BY <1>15, <2>q
           DEF FailBooking, StartsClean, RowsOnCourse, SeatsOnCourse, MoneyOnCourse,
               GoodsOnCourse, ClosesComplete, EndsComplete
    <2> QED BY <2>1, Zenon DEF OnCourse
<1>16. CASE CloseFailed
    <2> SUFFICES ASSUME faults' = 0 PROVE OnCourse'
        BY DEF OnCourse
    <2>q. faults = 0
        BY <1>16 DEF CloseFailed
    <2>1. /\ StartsClean' /\ RowsOnCourse' /\ SeatsOnCourse' /\ MoneyOnCourse'
          /\ GoodsOnCourse' /\ ClosesComplete' /\ EndsComplete'
        BY <1>16, <2>q
           DEF CloseFailed, StartsClean, PlacesFit, RowsOnCourse, WhereItIs, SeatsOnCourse,
               MoneyOnCourse, GoodsOnCourse, ClosesComplete, EndsComplete
    <2> QED BY <2>1, Zenon DEF OnCourse
<1>17. CASE ConfirmBooking
    <2> SUFFICES ASSUME faults' = 0 PROVE OnCourse'
        BY DEF OnCourse
    <2>q. faults = 0
        BY <1>17 DEF ConfirmBooking
    <2>1. /\ StartsClean' /\ RowsOnCourse' /\ SeatsOnCourse' /\ MoneyOnCourse'
          /\ GoodsOnCourse' /\ ClosesComplete' /\ EndsComplete'
        BY <1>17, <2>q
           DEF ConfirmBooking, StartsClean, RowsOnCourse, WhereItIs, SeatsOnCourse, MoneyOnCourse,
               GoodsOnCourse, ClosesComplete, Finished, Postings, EndsComplete
    <2> QED BY <2>1, Zenon DEF OnCourse
<1>18. CASE Announce
    <2> SUFFICES ASSUME faults' = 0 PROVE OnCourse'
        BY DEF OnCourse
    <2>q. faults = 0
        BY <1>18 DEF Announce
    <2>1. /\ StartsClean' /\ RowsOnCourse' /\ SeatsOnCourse' /\ MoneyOnCourse'
          /\ GoodsOnCourse' /\ ClosesComplete' /\ EndsComplete'
        BY <1>18, <2>q
           DEF Announce, StartsClean, RowsOnCourse, WhereItIs, SeatsOnCourse, MoneyOnCourse,
               GoodsOnCourse, ClosesComplete, Finished, Postings, EndsComplete
    <2> QED BY <2>1, Zenon DEF OnCourse
<1>19. CASE Finish
    <2> SUFFICES ASSUME faults' = 0 PROVE OnCourse'
        BY DEF OnCourse
    <2>q. faults = 0
        BY <1>19 DEF Finish
    <2>1. /\ StartsClean' /\ RowsOnCourse' /\ SeatsOnCourse' /\ MoneyOnCourse'
          /\ GoodsOnCourse' /\ ClosesComplete' /\ EndsComplete'
        BY <1>19, <2>q
           DEF Finish, StartsClean, ClosesComplete, RowsOnCourse, SeatsOnCourse, WhereItIs,
               MoneyOnCourse, GoodsOnCourse, EndsComplete, Finished, Postings
    <2> QED BY <2>1, Zenon DEF OnCourse
<1>20. CASE HoldLapses
    <2> SUFFICES ASSUME faults' = 0 PROVE OnCourse'
        BY DEF OnCourse
    <2>q. faults = 0
        BY <1>20 DEF HoldLapses
    <2>1. /\ StartsClean' /\ RowsOnCourse' /\ SeatsOnCourse' /\ MoneyOnCourse'
          /\ GoodsOnCourse' /\ ClosesComplete' /\ EndsComplete'
        BY <1>20, <2>q
           DEF HoldLapses, StartsClean, Untouched, Postings, RowsOnCourse, NotYetDone,
               SeatsOnCourse, MoneyOnCourse, GoodsOnCourse, ClosesComplete, Finished, EndsComplete
    <2> QED BY <2>1, Zenon DEF OnCourse
<1>21. CASE Throws \/ UndoThrows \/ Stop
    <2>1. faults' # 0
        BY <1>21 DEF Throws, UndoThrows, Stop, PlainTypes
    <2> QED BY <2>1 DEF OnCourse
<1>22. ASSUME NEW w \in Workers, WorkSaga(w) \/ WorkerStops(w) PROVE OnCourse'
    <2>1. ~Untouched
        BY <1>22, WorkersOnlyMark DEF Untouched
    <2> QED BY <1>22, <2>1, WorkersOnlyMark
       DEF OnCourse, StartsClean, RowsOnCourse, SeatsOnCourse, MoneyOnCourse, GoodsOnCourse,
           ClosesComplete, EndsComplete, Postings, NotYetDone, Finished
<1>23. CASE UNCHANGED sagaVars
    BY <1>23
       DEF sagaVars, OnCourse, StartsClean, RowsOnCourse, SeatsOnCourse, MoneyOnCourse,
           GoodsOnCourse, ClosesComplete, EndsComplete, Untouched, Postings, NotYetDone, Finished
<1> QED
    BY <1>1, <1>2, <1>3, <1>4, <1>5, <1>6, <1>7, <1>8, <1>9, <1>10, <1>11, <1>12, <1>13,
       <1>14, <1>15, <1>16, <1>17, <1>18, <1>19, <1>20, <1>21, <1>22, <1>23, Zenon DEF
       SagaNext, Coordinate

-----------------------------------------------------------------------------
(***************************************************************************)
(* 6. The ticket.                                                          *)
(***************************************************************************)

(* The reservation and its name are there exactly if b.                    *)
Booked(b) == (reserved <=> b) /\ (pnr <=> b)

(* A confirmed booking's ticket is what its caller made of it.             *)
TicketOfTheCaller ==
    /\ reserved <=> "call" \in given
    /\ ticket = IF "call" \in given THEN "ISSUED" ELSE "ISSUING"

(* The supplier's step books if the caller does, and nothing else books.   *)
TicketOnCourse ==
    faults = 0 =>
        /\ pc \in {"idle", "open"} /\ booking = "PAYABLE" => ~reserved
        /\ pc \in InStep =>
             Booked((at > 3 \/ (at = 3 /\ pc = "acted")) /\ "call" \in given)
        /\ pc \in Closing => Booked("call" \in given)
        /\ pc \in {"announce", "finish"} \/ (pc = "idle" /\ booking = "CONFIRMED") =>
             TicketOfTheCaller

(* The types hold at first and after every step.                           *)
LEMMA TicketTypesHold ==
    /\ SagaInit => TicketTypes
    /\ TicketTypes /\ [SagaNext]_sagaVars => TicketTypes'
<1> USE DEF TicketTypes, effects, worker, counts, coordinator, ticketing
<1>1. SagaInit => TicketTypes
    BY SagaAssumption DEF SagaInit
<1>2. ASSUME TicketTypes, SagaNext PROVE TicketTypes'
    <2>1. CASE Begin \/ Enter \/ Debit \/ RecordPayment \/ ConfirmByPayment \/ RealizeRevenue
        BY <1>2, <2>1
           DEF Begin, Enter, Debit, RecordPayment, ConfirmByPayment, RealizeRevenue
    <2>2. CASE StepSucceeds \/ Refused \/ Throws \/ StepFails \/ BeginUndoing \/ Undo \/ MarkUndone
        BY <1>2, <2>2
           DEF StepSucceeds, Refused, Throws, StepFails, BeginUndoing, Undo, MarkUndone
    <2>3. CASE UndoThrows \/ FailBooking \/ CloseFailed \/ Announce \/ Finish \/ Stop \/ HoldLapses
        BY <1>2, <2>3
           DEF UndoThrows, FailBooking, CloseFailed, Announce, Finish, Stop, HoldLapses
    <2>4. CASE OpenSaga \/ Act \/ ConfirmBooking
        BY <1>2, <2>4 DEF OpenSaga, Act, ConfirmBooking
    <2>5. ASSUME NEW w \in Workers, WorkSaga(w) \/ WorkerStops(w) PROVE TicketTypes'
        BY <1>2, <2>5
           DEF WorkSaga, Fetch, MarkRunning, FailStep, Reverse, MarkReversed, CloseSaga,
               WorkerStops
    <2> QED BY <1>2, <2>1, <2>2, <2>3, <2>4, <2>5, Zenon DEF SagaNext, Coordinate
<1>3. ASSUME TicketTypes, UNCHANGED sagaVars PROVE TicketTypes'
    BY <1>3 DEF sagaVars
<1> QED BY <1>1, <1>2, <1>3

(* No step before the supplier's books, none after it, and the ticket is   *)
(* claimed by the name that the supplier's step was given.                 *)
LEMMA TicketOnCourseHolds ==
    /\ SagaInit => TicketOnCourse
    /\ SagaFacts /\ OnCourse /\ TicketOnCourse /\ [SagaNext]_sagaVars => TicketOnCourse'
<1>1. SagaInit => TicketOnCourse
    BY DEF SagaInit, TicketOnCourse, InStep, Closing
<1>2. ASSUME SagaFacts, OnCourse, TicketOnCourse, [SagaNext]_sagaVars PROVE TicketOnCourse'
    <2>f. PlainTypes /\ WhereItIs /\ PlacesFit /\ (faults = 0 => RowsOnCourse)
        BY <1>2, FactsAtHand DEF DoneInOrder, OnCourse
    <2> USE <1>2, <2>f, FactsAtHand
        DEF TicketOnCourse, Booked, TicketOfTheCaller, effects, worker, counts, ticketing
    <2>1. CASE Begin
        BY <2>1 DEF Begin
    <2>2. CASE OpenSaga
        BY <2>2 DEF OpenSaga, PlacesFit
    <2>3. CASE Enter
        BY <2>3 DEF Enter, Proceed, Following, RowsOnCourse, NotYetDone
    <2>4. CASE Act
        <3>1. pc = "act" /\ pc' = "acted" /\ at \in 1..5
              /\ UNCHANGED <<at, given, booking, faults, ticket>>
            BY <2>4 DEF Act
        <3>2. IF at = 3 THEN /\ reserved' = (reserved \/ "call" \in given)
                             /\ pnr' = (pnr \/ "call" \in given)
                        ELSE UNCHANGED <<reserved, pnr>>
            BY <2>4, <3>1 DEF Act
        <3> QED BY <3>1, <3>2
    <2>5. CASE Debit \/ RecordPayment \/ ConfirmByPayment
        BY <2>5 DEF Debit, RecordPayment, ConfirmByPayment, WhereItIs
    <2>6. CASE RealizeRevenue
        BY <2>6 DEF RealizeRevenue, WhereItIs, PlainTypes
    <2>7. CASE StepSucceeds
        BY <2>7, CatalogueSteps DEF StepSucceeds, Proceed, Following
    <2>8. CASE Refused \/ StepFails \/ BeginUndoing
        BY <2>8 DEF Refused, StepFails, BeginUndoing
    <2>9. CASE Undo \/ MarkUndone \/ FailBooking
        BY <2>9 DEF Undo, MarkUndone, FailBooking
    <2>10. CASE CloseFailed
        BY <2>10 DEF CloseFailed, PlacesFit
    <2>11. CASE ConfirmBooking
        BY <2>11 DEF ConfirmBooking
    <2>12. CASE Announce \/ HoldLapses
        BY <2>12 DEF Announce, HoldLapses
    <2>13. CASE Finish
        <3>1. faults = 0 => booking = "CONFIRMED" /\ TicketOfTheCaller
            BY <2>13 DEF Finish, OnCourse, ClosesComplete
        <3> QED BY <2>13, <3>1 DEF Finish
    <2>14. CASE Throws \/ UndoThrows \/ Stop
        <3>1. faults' # 0
            BY <2>14 DEF Throws, UndoThrows, Stop, PlainTypes
        <3> QED BY <3>1
    <2>15. ASSUME NEW w \in Workers, WorkSaga(w) \/ WorkerStops(w) PROVE TicketOnCourse'
        <3>1. UNCHANGED <<booking, reserved, given, pnr, ticket, pc, at>> /\ (faults' = 0 => faults = 0)
            BY <2>15, WorkersOnlyMark
        <3> QED BY <3>1
    <2>16. CASE UNCHANGED sagaVars
        BY <2>16 DEF sagaVars
    <2> QED
        BY <1>2, <2>1, <2>2, <2>3, <2>4, <2>5, <2>6, <2>7, <2>8, <2>9, <2>10, <2>11, <2>12,
           <2>13, <2>14, <2>15, <2>16, Zenon DEF SagaNext, Coordinate
<1> QED BY <1>1, <1>2

-----------------------------------------------------------------------------
(***************************************************************************)
(* The theorems.                                                           *)
(***************************************************************************)

SagaInvariant == SagaFacts /\ NothingIsLost /\ OnCourse /\ TicketTypes /\ TicketOnCourse

(* All of it holds throughout.                                             *)
LEMMA SagaInvariantHolds == SagaSpec => []SagaInvariant
<1>1. SagaInit => SagaInvariant
    BY MoneyInit, TypeInvariantInit, DoneInOrderInit, NothingIsLostInit, OnCourseInit,
       TicketTypesHold, TicketOnCourseHolds
    DEF SagaInvariant, SagaFacts
<1>2. SagaInvariant /\ [SagaNext]_sagaVars => SagaInvariant'
    <2> SUFFICES ASSUME SagaInvariant, [SagaNext]_sagaVars PROVE SagaInvariant'
        OBVIOUS
    <2>1. /\ SagaFacts /\ TypeInvariant /\ MoneyInvariant /\ NothingIsLost /\ OnCourse
          /\ TicketTypes /\ TicketOnCourse
        BY DEF SagaInvariant, SagaFacts
    <2>2. TypeInvariant' /\ MoneyInvariant' /\ DoneInOrder'
        BY <2>1, TypePreserved, MoneyPreserved, DoneInOrderPreserved
    <2>3. NothingIsLost' /\ OnCourse'
        BY <2>1, NothingIsLostPreserved, OnCoursePreserved
    <2>4. TicketTypes' /\ TicketOnCourse'
        BY <2>1, TicketTypesHold, TicketOnCourseHolds
    <2> QED BY <2>2, <2>3, <2>4 DEF SagaInvariant, SagaFacts
<1> QED BY <1>1, <1>2, PTL DEF SagaSpec

(* Every variable of the saga has its type, and the order that startedAt   *)
(* gives its steps stays one: each two that have a row are told apart.     *)
THEOREM SagaTypeCorrect == SagaSpec => []SagaTypeOK
<1>1. SagaInvariant => SagaTypeOK
    BY TypesInParts DEF SagaInvariant, SagaFacts, TypeInvariant
<1> QED BY <1>1, SagaInvariantHolds, PTL

(* When nothing stops or throws, a CONFIRMED booking at rest was paid      *)
(* once, has its seats, and was earned, invoiced and announced once,       *)
(* whatever the workers wrote.  It has a reservation and an ISSUED ticket  *)
(* if its caller books at a supplier, and neither if it does not.          *)
THEOREM ConfirmedBookingsAreComplete == SagaSpec => []ConfirmedIsComplete
<1>1. SagaInvariant => ConfirmedIsComplete
    <2> SUFFICES ASSUME SagaInvariant, AtRest, booking = "CONFIRMED", faults = 0
                 PROVE  /\ posted = [debit |-> 1, refund |-> 0, revenue |-> 1]
                        /\ payment /\ hold \in {"NONE", "CAPTURED"}
                        /\ invoices = <<"ISSUED">> /\ announced = 1
                        /\ reserved <=> "call" \in given
                        /\ ticket = IF "call" \in given THEN "ISSUED" ELSE "ISSUING"
        BY DEF ConfirmedIsComplete
    <2>1. Finished /\ announced = 1
        BY DEF SagaInvariant, OnCourse, EndsComplete, AtRest
    <2>2. posted \in [{"debit", "refund", "revenue"} -> Nat]
        BY DEF SagaInvariant, SagaFacts, MoneyInvariant, MoneyTypes
    <2>3. posted = [debit |-> 1, refund |-> 0, revenue |-> 1]
        BY <2>1, <2>2 DEF Finished, Postings
    <2>4. /\ reserved <=> "call" \in given
          /\ ticket = IF "call" \in given THEN "ISSUED" ELSE "ISSUING"
        BY DEF SagaInvariant, TicketOnCourse, TicketOfTheCaller, Booked, AtRest
    <2> QED BY <2>1, <2>3, <2>4 DEF Finished
<1> QED BY <1>1, SagaInvariantHolds, PTL

(* A FAILED booking has its money back, and no seat, no invoice and no     *)
(* ticket that its caller could void, unless an effect was mislaid by a    *)
(* fault or a worker wrote to the saga.                                    *)
THEOREM FailedBookingsAreUndone == SagaSpec => []FailedLeavesNothing
<1>1. SagaInvariant => FailedLeavesNothing
    <2> SUFFICES ASSUME SagaInvariant, booking = "FAILED", ~mislaid, ~meddled
                 PROVE  /\ posted["debit"] = posted["refund"]
                        /\ hold # "CAPTURED" /\ ~Voidable
                        /\ \A i \in DOMAIN invoices : invoices[i] = "VOIDED"
        BY DEF FailedLeavesNothing
    <2>1. posted["debit"] = posted["refund"] /\ hold # "CAPTURED" /\ ~Voidable /\ ~Issued
        BY DEF SagaInvariant, NothingIsLost, Quiet, NothingLeft
    <2>2. invoices \in Seq({"ISSUED", "VOIDED"})
        BY DEF SagaInvariant, SagaFacts, TypeInvariant, PlainTypes
    <2>3. \A i \in DOMAIN invoices : invoices[i] = "VOIDED"
        BY <2>1, <2>2 DEF Issued
    <2> QED BY <2>1, <2>3
<1> QED BY <1>1, SagaInvariantHolds, PTL

(* The money goes back only after the ticket is void, if the caller can    *)
(* void it, except after a fault or a worker's write.                      *)
THEOREM RefundsFollowVoids == SagaSpec => []RefundedTicketsAreVoid
<1>1. SagaInvariant => RefundedTicketsAreVoid
    <2> SUFFICES ASSUME SagaInvariant, posted["refund"] > 0, ~mislaid, ~meddled PROVE ~Voidable
        BY DEF RefundedTicketsAreVoid
    <2>1. posted["refund"] = 1
        BY DEF SagaInvariant, SagaFacts, MoneyInvariant, MoneyMoves, MoneyTypes
    <2> QED BY <2>1 DEF SagaInvariant, NothingIsLost, Quiet, TicketBeforeRefund
<1> QED BY <1>1, SagaInvariantHolds, PTL
=============================================================================
