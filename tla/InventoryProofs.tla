--------------------------- MODULE InventoryProofs ---------------------------
(***************************************************************************)
(* Theorems about Inventory, for every set of holds, sweepers and admins,  *)
(* every capacity, every quantity and every time-to-live.                  *)
(***************************************************************************)
EXTENDS Inventory, FiniteSetTheorems, TLAPS

-----------------------------------------------------------------------------
(***************************************************************************)
(* Sums of quantities.                                                     *)
(***************************************************************************)

\* The units of any set of holds are finitely many.
LEMMA UnitsFinite ==
  ASSUME NEW S, NEW q
  PROVE  IsFiniteSet(Units(S, q))
<1>1. IsFiniteSet(1..MaxQty)
  BY FS_Interval, MaxQtyAssumption
<1>2. IsFiniteSet(Holds \X (1..MaxQty))
  BY <1>1, FS_Product, HoldsAssumption
<1>3. Units(S, q) \subseteq Holds \X (1..MaxQty)
  BY DEF Units
<1> QED
  BY <1>2, <1>3, FS_Subset

\* A sum of quantities is a natural number.
LEMMA SumType ==
  ASSUME NEW S, NEW q
  PROVE  SumOfQuantities(S, q) \in Nat
BY UnitsFinite, FS_CardinalityType DEF SumOfQuantities

\* The sum over no holds is zero.
LEMMA SumEmpty ==
  ASSUME NEW q
  PROVE  SumOfQuantities({}, q) = 0
<1>1. Units({}, q) = {}
  BY DEF Units
<1> QED
  BY <1>1, FS_EmptySet DEF SumOfQuantities

\* A larger set of holds has a larger sum.
LEMMA SumMonotone ==
  ASSUME NEW S, NEW T, S \subseteq T, NEW q
  PROVE  SumOfQuantities(S, q) <= SumOfQuantities(T, q)
<1>1. Units(S, q) \subseteq Units(T, q)
  BY DEF Units
<1> QED
  BY <1>1, UnitsFinite, FS_Subset DEF SumOfQuantities

\* Only the quantities of the holds in the set matter.
LEMMA SumCongruence ==
  ASSUME NEW S, NEW q, NEW r, \A h \in S \cap Holds : q[h] = r[h]
  PROVE  SumOfQuantities(S, q) = SumOfQuantities(S, r)
<1>1. Units(S, q) = Units(S, r)
  BY DEF Units
<1> QED
  BY <1>1 DEF SumOfQuantities

\* One more hold adds its quantity.
LEMMA SumAdd ==
  ASSUME NEW S, NEW h \in Holds, h \notin S, NEW q, q[h] \in 0..MaxQty
  PROVE  SumOfQuantities(S \cup {h}, q) = SumOfQuantities(S, q) + q[h]
<1> DEFINE A == Units(S, q)
           B == Units({h}, q)
<1>0. q[h] \in Nat /\ q[h] <= MaxQty
  BY MaxQtyAssumption
<1>1. Units(S \cup {h}, q) = A \cup B
  BY DEF Units
<1>2. A \cap B = {}
  BY DEF Units
<1>3. B = {h} \X (1..q[h])
  BY MaxQtyAssumption DEF Units
<1>4. Cardinality(B) = q[h]
  <2>1. IsFiniteSet({h}) /\ Cardinality({h}) = 1
    BY FS_Singleton
  <2>2. IsFiniteSet(1..q[h]) /\ Cardinality(1..q[h]) = q[h]
    BY <1>0, FS_Interval
  <2>3. Cardinality({h} \X (1..q[h])) = Cardinality({h}) * Cardinality(1..q[h])
    BY <2>1, <2>2, FS_Product
  <2>4. Cardinality({h} \X (1..q[h])) = q[h]
    BY <1>0, <2>1, <2>2, <2>3
  <2> QED
    BY <1>3, <2>4
<1>5. Cardinality(A \cup B) = Cardinality(A) + Cardinality(B) - Cardinality(A \cap B)
  BY UnitsFinite, FS_Union
<1>6. Cardinality(A) \in Nat
  BY UnitsFinite, FS_CardinalityType
<1>7. Cardinality(A \cap B) = 0
  BY <1>2, FS_EmptySet
<1>8. Cardinality(A \cup B) = Cardinality(A) + q[h]
  BY <1>0, <1>4, <1>5, <1>6, <1>7
<1> QED
  BY <1>1, <1>8 DEF SumOfQuantities

\* One hold fewer subtracts its quantity.
LEMMA SumRemove ==
  ASSUME NEW S, NEW h \in Holds, h \in S, NEW q, q[h] \in 0..MaxQty
  PROVE  SumOfQuantities(S, q) = SumOfQuantities(S \ {h}, q) + q[h]
<1>1. (S \ {h}) \cup {h} = S
  OBVIOUS
<1> QED
  BY <1>1, SumAdd

-----------------------------------------------------------------------------
(***************************************************************************)
(* Type correctness.                                                       *)
(***************************************************************************)

\* A freshly created allotment is well typed.
LEMMA TypeCorrectInit == Init => TypeOK
<1> SUFFICES ASSUME Init
             PROVE  TypeOK
  OBVIOUS
<1>1. total \in Nat /\ booked \in Nat /\ 0 \in 0..MaxQty /\ crashes \in 0..MaxCrashes
  BY CapacityAssumption, SweepAssumption, MaxQtyAssumption DEF Init
<1>2. sweep \in [Sweepers ->
        [busy : BOOLEAN, now : Nat, candidates : SUBSET Holds]]
  BY DEF Init, NoSweep
<1>3. policy \in [Admins ->
        [busy : BOOLEAN, total : PolicyTotals \cup {Keep},
         stopSell : BOOLEAN \cup {Keep}]]
  BY DEF Init, NoPolicy
<1> QED
  BY <1>1, <1>2, <1>3 DEF Init, TypeOK, Status

\* Every step of the engine keeps the types.
LEMMA TypeCorrectNext == TypeOK /\ [Next]_vars => TypeOK'
<1> SUFFICES ASSUME TypeOK, [Next]_vars
             PROVE  TypeOK'
  OBVIOUS
<1> USE DEF TypeOK, Status, allotment, holdRows, Unlocked, Capturable, RoomToCapture, Restorable,
          HeldQty, SweepHits
<1>1. ASSUME NEW h \in Holds, NEW q \in 1..MaxQty, NEW ttl \in TTLs,
             CreateHold(h, q, ttl)
      PROVE  TypeOK'
  <2>1. now + ttl \in Nat /\ q \in 0..MaxQty
    BY MaxQtyAssumption, TimeAssumption
  <2> QED
    BY <1>1, <2>1 DEF CreateHold
<1>2. ASSUME NEW h \in Holds, BeginCapture(h)
      PROVE  TypeOK'
  BY <1>2 DEF BeginCapture
<1>3. ASSUME NEW h \in Holds, FinishCapture(h)
      PROVE  TypeOK'
  <2>1. booked + qty[h] \in Nat
    BY MaxQtyAssumption
  <2> QED
    BY <1>3, <2>1 DEF FinishCapture
<1>4. ASSUME NEW h \in Holds, AbortCapture(h)
      PROVE  TypeOK'
  BY <1>4 DEF AbortCapture
<1>5. ASSUME NEW h \in Holds, ReleaseHold(h)
      PROVE  TypeOK'
  BY <1>5 DEF ReleaseHold
<1>6. ASSUME NEW h \in Holds, CompensateCapturedHold(h)
      PROVE  TypeOK'
  <2>1. booked' \in Nat
    BY <1>6, MaxQtyAssumption DEF CompensateCapturedHold
  <2> QED
    BY <1>6, <2>1 DEF CompensateCapturedHold
<1>7. CASE SweepExpiredHolds
  BY <1>7 DEF SweepExpiredHolds, Expire
<1>8. ASSUME NEW w \in Sweepers, SweepScan(w)
      PROVE  TypeOK'
  <2>1. PICK S \in SUBSET Holds :
          sweep' = [sweep EXCEPT
            ![w] = [busy |-> TRUE, now |-> now, candidates |-> S]]
    BY <1>8 DEF SweepScan, StaleHolds
  <2> QED
    BY <1>8, <2>1 DEF SweepScan
<1>9. ASSUME NEW w \in Sweepers, SweepUpdate(w)
      PROVE  TypeOK'
  BY <1>9 DEF SweepUpdate, Expire, NoSweep
<1>10. ASSUME NEW w \in Sweepers, CrashSweep(w)
       PROVE  TypeOK'
  <2>1. crashes + 1 \in 0..MaxCrashes
    BY <1>10, SweepAssumption DEF CrashSweep
  <2> QED
    BY <1>10, <2>1 DEF CrashSweep, NoSweep
<1>11. ASSUME NEW a \in Admins, PolicyRead(a)
       PROVE  TypeOK'
  BY <1>11 DEF PolicyRead
<1>12. ASSUME NEW a \in Admins, PolicyWrite(a)
       PROVE  TypeOK'
  <2>1. policy[a].total \in PolicyTotals \cup {Keep}
        /\ policy[a].stopSell \in BOOLEAN \cup {Keep}
    OBVIOUS
  <2>2. total' \in Nat
    BY <1>12, <2>1, PolicyAssumption DEF PolicyWrite
  <2>3. stopSell' \in BOOLEAN
    BY <1>12, <2>1, PolicyAssumption, Zenon DEF PolicyWrite
  <2> QED
    BY <1>12, <2>2, <2>3 DEF PolicyWrite, NoPolicy
<1>13. CASE Tick
  BY <1>13 DEF Tick
<1>14. CASE UNCHANGED vars
  BY <1>14 DEF vars
<1> QED
  BY <1>1, <1>2, <1>3, <1>4, <1>5, <1>6, <1>7, <1>8, <1>9, <1>10, <1>11,
     <1>12, <1>13, <1>14 DEF Next

\* Every row, lock, snapshot and counter keeps its type in every behaviour
\* of the engine.
THEOREM TypeCorrect == Spec => []TypeOK
BY TypeCorrectInit, TypeCorrectNext, PTL DEF Spec

-----------------------------------------------------------------------------
(***************************************************************************)
(* The booked counter. It is inductive only together with the row locks: a *)
(* capture that finishes must still own an ACTIVE hold.                    *)
(***************************************************************************)

IInv ==
  /\ TypeOK
  /\ CapturesOwnTheirHold
  /\ BookedMatchesCaptures
  /\ late \subseteq InStatus("CAPTURED")

\* The captured sum does not change while the same holds are captured and
\* their quantities stay.
LEMMA CapturedSumUnchanged ==
  ASSUME InStatus("CAPTURED")' = InStatus("CAPTURED"),
         \A h \in InStatus("CAPTURED") : qty'[h] = qty[h]
  PROVE  QtyOf(InStatus("CAPTURED"))' = QtyOf(InStatus("CAPTURED"))
<1> DEFINE C == InStatus("CAPTURED")
<1>1. SumOfQuantities(C, qty') = SumOfQuantities(C, qty)
  BY SumCongruence
<1> QED
  BY <1>1 DEF QtyOf

\* One capture adds the quantity of its hold to the captured sum.
LEMMA CapturedSumGrows ==
  ASSUME TypeOK, NEW h \in Holds, FinishCapture(h), status[h] = "ACTIVE"
  PROVE  QtyOf(InStatus("CAPTURED"))' = QtyOf(InStatus("CAPTURED")) + qty[h]
<1> DEFINE C == InStatus("CAPTURED")
<1>1. InStatus("CAPTURED")' = C \cup {h} /\ h \notin C /\ qty' = qty
  BY DEF FinishCapture, InStatus, TypeOK
<1>2. SumOfQuantities(C \cup {h}, qty) = SumOfQuantities(C, qty) + qty[h]
  BY <1>1, SumAdd DEF TypeOK
<1> QED
  BY <1>1, <1>2 DEF QtyOf

\* One compensation of a CAPTURED hold takes its quantity away again.
LEMMA CapturedSumShrinks ==
  ASSUME TypeOK, NEW h \in Holds, CompensateCapturedHold(h),
         status[h] = "CAPTURED"
  PROVE  QtyOf(InStatus("CAPTURED")) = QtyOf(InStatus("CAPTURED"))' + qty[h]
<1> DEFINE C == InStatus("CAPTURED")
<1>1. InStatus("CAPTURED")' = C \ {h} /\ h \in C /\ qty' = qty
  BY DEF CompensateCapturedHold, InStatus, TypeOK
<1>2. SumOfQuantities(C, qty) = SumOfQuantities(C \ {h}, qty) + qty[h]
  BY <1>1, SumRemove DEF TypeOK
<1> QED
  BY <1>1, <1>2 DEF QtyOf

\* A freshly created allotment satisfies the inductive invariant.
LEMMA IInvInit == Init => IInv
<1> SUFFICES ASSUME Init
             PROVE  IInv
  OBVIOUS
<1>1. InStatus("CAPTURED") = {}
  BY DEF Init, InStatus
<1>2. QtyOf(InStatus("CAPTURED")) = 0
  BY <1>1, SumEmpty DEF QtyOf
<1>3. CapturesOwnTheirHold /\ late \subseteq InStatus("CAPTURED")
  BY DEF Init, CapturesOwnTheirHold
<1>4. BookedMatchesCaptures
  BY <1>2, CapacityAssumption DEF Init, BookedMatchesCaptures
<1> QED
  BY <1>3, <1>4, TypeCorrectInit DEF IInv

\* What every step that neither books nor refunds has to show.
LEMMA IInvKept ==
  ASSUME IInv, TypeOK', booked' = booked, late' = late,
         InStatus("CAPTURED")' = InStatus("CAPTURED"),
         \A h \in InStatus("CAPTURED") : qty'[h] = qty[h],
         \A h \in capturing' : status'[h] = "ACTIVE"
  PROVE  IInv'
<1>1. QtyOf(InStatus("CAPTURED"))' = QtyOf(InStatus("CAPTURED"))
  BY CapturedSumUnchanged
<1>2. BookedMatchesCaptures'
  BY <1>1 DEF IInv, BookedMatchesCaptures
<1> QED
  BY <1>2 DEF IInv, CapturesOwnTheirHold

\* Every step of the engine keeps the inductive invariant.
LEMMA IInvNext == IInv /\ [Next]_vars => IInv'
<1> SUFFICES ASSUME IInv, [Next]_vars
             PROVE  IInv'
  OBVIOUS
<1>0. TypeOK /\ TypeOK'
  BY TypeCorrectNext DEF IInv
<1> USE DEF allotment, holdRows, Unlocked, Capturable, RoomToCapture, Restorable,
          HeldQty, SweepHits
<1>1. ASSUME NEW h \in Holds, NEW q \in 1..MaxQty, NEW ttl \in TTLs,
             CreateHold(h, q, ttl)
      PROVE  IInv'
  BY <1>0, <1>1, IInvKept
     DEF CreateHold, IInv, CapturesOwnTheirHold, InStatus, TypeOK
<1>2. ASSUME NEW h \in Holds, BeginCapture(h)
      PROVE  IInv'
  BY <1>0, <1>2, IInvKept
     DEF BeginCapture, IInv, CapturesOwnTheirHold, InStatus, TypeOK
<1>3. ASSUME NEW h \in Holds, FinishCapture(h)
      PROVE  IInv'
  <2>1. status[h] = "ACTIVE"
    BY <1>3 DEF FinishCapture, IInv, CapturesOwnTheirHold
  <2>2. QtyOf(InStatus("CAPTURED"))' = QtyOf(InStatus("CAPTURED")) + qty[h]
    BY <1>0, <1>3, <2>1, CapturedSumGrows
  <2>3. QtyOf(InStatus("CAPTURED")) \in Nat /\ qty[h] \in Nat
    BY <1>0, SumType, MaxQtyAssumption DEF QtyOf, TypeOK
  <2>4. BookedMatchesCaptures'
    BY <1>3, <2>2, <2>3, CapacityAssumption
       DEF IInv, BookedMatchesCaptures, FinishCapture
  <2>5. CapturesOwnTheirHold'
    BY <1>0, <1>3 DEF FinishCapture, IInv, CapturesOwnTheirHold, TypeOK
  <2>6. (late \subseteq InStatus("CAPTURED"))'
    BY <1>0, <1>3 DEF FinishCapture, IInv, InStatus, TypeOK
  <2> QED
    BY <1>0, <2>4, <2>5, <2>6 DEF IInv
<1>4. ASSUME NEW h \in Holds, AbortCapture(h)
      PROVE  IInv'
  BY <1>0, <1>4, IInvKept
     DEF AbortCapture, IInv, CapturesOwnTheirHold, InStatus
<1>5. ASSUME NEW h \in Holds, ReleaseHold(h)
      PROVE  IInv'
  BY <1>0, <1>5, IInvKept
     DEF ReleaseHold, IInv, CapturesOwnTheirHold, InStatus, TypeOK
<1>6. ASSUME NEW h \in Holds, CompensateCapturedHold(h)
      PROVE  IInv'
  <2>1. CapturesOwnTheirHold'
    BY <1>0, <1>6
       DEF CompensateCapturedHold, IInv, CapturesOwnTheirHold, TypeOK
  <2>2. (late \subseteq InStatus("CAPTURED"))'
    BY <1>0, <1>6 DEF CompensateCapturedHold, IInv, InStatus, TypeOK
  <2>3. CASE status[h] = "CAPTURED"
    <3>1. QtyOf(InStatus("CAPTURED")) = QtyOf(InStatus("CAPTURED"))' + qty[h]
      BY <1>0, <1>6, <2>3, CapturedSumShrinks
    <3>2. QtyOf(InStatus("CAPTURED"))' \in Nat /\ qty[h] \in Nat
      BY <1>0, SumType, MaxQtyAssumption DEF QtyOf, TypeOK
    <3>3. booked' = booked - qty[h]
      BY <1>6, <2>3 DEF CompensateCapturedHold
    <3>4. BookedMatchesCaptures'
      BY <3>1, <3>2, <3>3, CapacityAssumption DEF IInv, BookedMatchesCaptures
    <3> QED
      BY <1>0, <2>1, <2>2, <3>4 DEF IInv
  <2>4. CASE status[h] = "ACTIVE"
    <3>1. late' = late
      BY <1>6, <2>4 DEF CompensateCapturedHold, IInv, InStatus
    <3> QED
      BY <1>0, <1>6, <2>1, <2>4, <3>1, IInvKept
         DEF CompensateCapturedHold, CapturesOwnTheirHold, InStatus, TypeOK
  <2> QED
    BY <1>6, <2>3, <2>4 DEF CompensateCapturedHold
<1>7. CASE SweepExpiredHolds
  BY <1>0, <1>7, IInvKept
     DEF SweepExpiredHolds, Expire, StaleHolds, IInv, CapturesOwnTheirHold,
         InStatus, TypeOK
<1>8. ASSUME NEW w \in Sweepers, SweepScan(w)
      PROVE  IInv'
  BY <1>0, <1>8, IInvKept DEF SweepScan, IInv, CapturesOwnTheirHold, InStatus
<1>9. ASSUME NEW w \in Sweepers, SweepUpdate(w)
      PROVE  IInv'
  BY <1>0, <1>9, IInvKept
     DEF SweepUpdate, Expire, StaleHolds, IInv, CapturesOwnTheirHold,
         InStatus, TypeOK
<1>10. ASSUME NEW w \in Sweepers, CrashSweep(w)
       PROVE  IInv'
  BY <1>0, <1>10, IInvKept
     DEF CrashSweep, IInv, CapturesOwnTheirHold, InStatus
<1>11. ASSUME NEW a \in Admins, PolicyRead(a) \/ PolicyWrite(a)
       PROVE  IInv'
  BY <1>0, <1>11, IInvKept
     DEF PolicyRead, PolicyWrite, IInv, CapturesOwnTheirHold, InStatus
<1>12. CASE Tick
  BY <1>0, <1>12, IInvKept DEF Tick, IInv, CapturesOwnTheirHold, InStatus
<1>13. CASE UNCHANGED vars
  BY <1>0, <1>13, IInvKept DEF vars, IInv, CapturesOwnTheirHold, InStatus
<1> QED
  BY <1>1, <1>2, <1>3, <1>4, <1>5, <1>6, <1>7, <1>8, <1>9, <1>10, <1>11,
     <1>12, <1>13 DEF Next

\* The inductive invariant holds in every behaviour.
LEMMA Invariance == Spec => []IInv
BY IInvInit, IInvNext, PTL DEF Spec

\* booked is exactly what was booked at creation plus the captured
\* quantities: no interleaving of captures, compensations, sweeps and admin
\* changes counts a unit twice or loses one.
THEOREM Accounting == Spec => []BookedMatchesCaptures
<1>1. IInv => BookedMatchesCaptures
  BY DEF IInv
<1> QED
  BY <1>1, Invariance, PTL

\* No sweep, release or compensation changes a hold under a capture that
\* has locked and checked it.
THEOREM CaptureIsolation == Spec => []CapturesOwnTheirHold
<1>1. IInv => CapturesOwnTheirHold
  BY DEF IInv
<1> QED
  BY <1>1, Invariance, PTL

-----------------------------------------------------------------------------
(***************************************************************************)
(* Capacity, while no admin changes the total. (With one, BookedWithinTotal *)
(* is false: setAllotmentPolicy looks and writes in two statements.)       *)
(***************************************************************************)

\* No step changes the total when no admin can choose one.
LEMMA TotalUnchanged ==
  ASSUME PolicyTotals = {}, TypeOK, [Next]_vars
  PROVE  total' = total
<1> USE DEF allotment
<1>1. ASSUME NEW a \in Admins, PolicyWrite(a)
      PROVE  total' = total
  BY <1>1 DEF PolicyWrite, TypeOK
<1>2. ASSUME NEW a \in Admins, PolicyRead(a)
      PROVE  total' = total
  BY <1>2 DEF PolicyRead
<1>3. ASSUME NEW h \in Holds, NEW q \in 1..MaxQty, NEW ttl \in TTLs,
             CreateHold(h, q, ttl)
      PROVE  total' = total
  BY <1>3 DEF CreateHold
<1>4. ASSUME NEW h \in Holds,
             \/ BeginCapture(h) \/ FinishCapture(h) \/ AbortCapture(h)
             \/ ReleaseHold(h) \/ CompensateCapturedHold(h)
      PROVE  total' = total
  BY <1>4 DEF BeginCapture, FinishCapture, AbortCapture, ReleaseHold,
              CompensateCapturedHold
<1>5. ASSUME NEW w \in Sweepers,
             SweepScan(w) \/ SweepUpdate(w) \/ CrashSweep(w)
      PROVE  total' = total
  BY <1>5 DEF SweepScan, SweepUpdate, CrashSweep
<1>6. CASE SweepExpiredHolds \/ Tick \/ UNCHANGED vars
  BY <1>6 DEF SweepExpiredHolds, Tick, vars
<1> QED
  BY <1>1, <1>2, <1>3, <1>4, <1>5, <1>6 DEF Next

\* A sum over live holds only shrinks when no hold becomes live.
LEMMA LiveSumShrinks ==
  ASSUME qty' = qty, LiveHolds' \subseteq LiveHolds
  PROVE  QtyOf(LiveHolds)' <= QtyOf(LiveHolds)
BY SumMonotone DEF QtyOf

\* The step that every action has to show when it leaves booked, the total
\* and the late captures alone and makes no hold live.
LEMMA CapacityKept ==
  ASSUME TypeOK, OversellOnlyByLateCaptures, qty' = qty, booked' = booked,
         total' = total, late' = late, LiveHolds' \subseteq LiveHolds
  PROVE  OversellOnlyByLateCaptures'
<1>1. QtyOf(LiveHolds)' <= QtyOf(LiveHolds)
  BY LiveSumShrinks
<1>2. QtyOf(late)' = QtyOf(late)
  BY DEF QtyOf
<1>3. /\ QtyOf(LiveHolds) \in Nat /\ QtyOf(LiveHolds)' \in Nat
      /\ QtyOf(late) \in Nat
  BY SumType DEF QtyOf
<1> QED
  BY <1>1, <1>2, <1>3 DEF OversellOnlyByLateCaptures, TypeOK

\* createHold's availability check pays for the hold it creates.
LEMMA CapacityCreate ==
  ASSUME IInv, OversellOnlyByLateCaptures,
         NEW h \in Holds, NEW q \in 1..MaxQty, NEW ttl \in TTLs,
         CreateHold(h, q, ttl)
  PROVE  OversellOnlyByLateCaptures'
<1> DEFINE L == LiveHolds
<1> USE DEF allotment, holdRows, Unlocked, Capturable, RoomToCapture, Restorable,
          HeldQty, SweepHits
<1>1. /\ LiveHolds' \subseteq L \cup {h}
      /\ h \notin L
      /\ h \notin late
      /\ late' = late
      /\ \A g \in Holds \ {h} : qty'[g] = qty[g]
      /\ qty'[h] = q
      /\ qty'[h] \in 0..MaxQty
      /\ q \in Nat
  BY MaxQtyAssumption
     DEF CreateHold, LiveHolds, IInv, TypeOK, InStatus
<1>2. SumOfQuantities(LiveHolds', qty') <= SumOfQuantities(L \cup {h}, qty')
  BY <1>1, SumMonotone
<1>3. SumOfQuantities(L \cup {h}, qty') = SumOfQuantities(L, qty') + q
  BY <1>1, SumAdd
<1>4. SumOfQuantities(L, qty') = SumOfQuantities(L, qty)
  <2>1. \A g \in L \cap Holds : qty'[g] = qty[g]
    BY <1>1
  <2> QED
    BY <2>1, SumCongruence
<1>5. SumOfQuantities(late, qty') = SumOfQuantities(late, qty)
  <2>1. \A g \in late \cap Holds : qty'[g] = qty[g]
    BY <1>1
  <2> QED
    BY <2>1, SumCongruence
<1>6. /\ SumOfQuantities(LiveHolds', qty') \in Nat
      /\ SumOfQuantities(L, qty) \in Nat
      /\ SumOfQuantities(late, qty) \in Nat
  BY SumType
<1>7. total - booked - SumOfQuantities(L, qty) >= q /\ UNCHANGED <<total, booked>>
  BY DEF CreateHold, QtyOf
<1> QED
  BY <1>1, <1>2, <1>3, <1>4, <1>5, <1>6, <1>7
     DEF OversellOnlyByLateCaptures, QtyOf, IInv, TypeOK

\* A capture in time moves units from the live sum to booked; a late one
\* adds them to booked and to the late sum.
LEMMA CapacityFinish ==
  ASSUME IInv, OversellOnlyByLateCaptures, NEW h \in Holds, FinishCapture(h)
  PROVE  OversellOnlyByLateCaptures'
<1> DEFINE L == LiveHolds
<1>1. /\ status[h] = "ACTIVE"
      /\ h \notin late
      /\ qty[h] \in 0..MaxQty
      /\ qty[h] \in Nat
  BY MaxQtyAssumption
     DEF FinishCapture, IInv, CapturesOwnTheirHold, InStatus, TypeOK
<1>2. /\ UNCHANGED <<total, qty>>
      /\ booked' = booked + qty[h]
      /\ LiveHolds' = L \ {h}
  BY DEF FinishCapture, LiveHolds, IInv, TypeOK
<1>3. /\ SumOfQuantities(L, qty) \in Nat
      /\ SumOfQuantities(L \ {h}, qty) \in Nat
      /\ SumOfQuantities(late, qty) \in Nat
  BY SumType
<1>4. CASE expiresAt[h] > now
  <2>1. h \in L /\ late' = late
    BY <1>1, <1>4 DEF LiveHolds, FinishCapture
  <2>2. SumOfQuantities(L, qty) = SumOfQuantities(L \ {h}, qty) + qty[h]
    BY <1>1, <2>1, SumRemove
  <2> QED
    BY <1>1, <1>2, <1>3, <2>1, <2>2
       DEF OversellOnlyByLateCaptures, QtyOf, IInv, TypeOK
<1>5. CASE ~(expiresAt[h] > now)
  <2>1. L \ {h} = L /\ late' = late \cup {h}
    BY <1>5 DEF LiveHolds, FinishCapture
  <2>2. SumOfQuantities(late \cup {h}, qty) = SumOfQuantities(late, qty) + qty[h]
    BY <1>1, SumAdd
  <2>3. QtyOf(late)' = QtyOf(late) + qty[h] /\ QtyOf(LiveHolds)' = QtyOf(LiveHolds)
    BY <1>2, <2>1, <2>2 DEF QtyOf
  <2>4. QtyOf(late) \in Nat /\ QtyOf(LiveHolds) \in Nat
    BY <1>3 DEF QtyOf
  <2> QED
    BY <1>1, <1>2, <2>3, <2>4 DEF OversellOnlyByLateCaptures, IInv, TypeOK
<1> QED
  BY <1>4, <1>5

\* A compensation gives back to booked what it takes from the late sum, or
\* more.
LEMMA CapacityCompensate ==
  ASSUME IInv, OversellOnlyByLateCaptures, NEW h \in Holds,
         CompensateCapturedHold(h)
  PROVE  OversellOnlyByLateCaptures'
<1> DEFINE L == LiveHolds
<1>1. /\ UNCHANGED <<total, qty>>
      /\ LiveHolds' \subseteq L
      /\ late' = late \ {h}
      /\ qty[h] \in 0..MaxQty
      /\ qty[h] \in Nat
  BY MaxQtyAssumption DEF CompensateCapturedHold, LiveHolds, IInv, TypeOK
<1>2. QtyOf(LiveHolds)' <= QtyOf(LiveHolds)
  BY <1>1, LiveSumShrinks
<1>3. /\ QtyOf(LiveHolds) \in Nat /\ QtyOf(LiveHolds)' \in Nat
      /\ SumOfQuantities(late, qty) \in Nat
      /\ SumOfQuantities(late \ {h}, qty) \in Nat
  BY SumType DEF QtyOf
<1>4. CASE h \in late
  <2>1. booked' = booked - qty[h]
    BY <1>4 DEF CompensateCapturedHold, IInv, InStatus
  <2>2. SumOfQuantities(late, qty) = SumOfQuantities(late \ {h}, qty) + qty[h]
    BY <1>1, <1>4, SumRemove
  <2>3. QtyOf(late) = QtyOf(late)' + qty[h] /\ QtyOf(late)' \in Nat
    BY <1>1, <1>3, <2>2 DEF QtyOf
  <2> QED
    BY <1>1, <1>2, <1>3, <2>1, <2>3
       DEF OversellOnlyByLateCaptures, IInv, TypeOK
<1>5. CASE h \notin late
  <2>1. late' = late
    BY <1>1, <1>5
  <2>2. booked' <= booked /\ booked' \in Int
    BY <1>1 DEF CompensateCapturedHold, IInv, TypeOK
  <2>3. QtyOf(late)' = QtyOf(late) /\ QtyOf(late) \in Nat
    BY <1>1, <1>3, <2>1 DEF QtyOf
  <2> QED
    BY <1>1, <1>2, <1>3, <2>2, <2>3
       DEF OversellOnlyByLateCaptures, IInv, TypeOK
<1> QED
  BY <1>4, <1>5

\* Every step keeps what the promises add up to.
LEMMA CapacityNext ==
  ASSUME PolicyTotals = {}, IInv, OversellOnlyByLateCaptures, [Next]_vars
  PROVE  OversellOnlyByLateCaptures'
<1>0. TypeOK /\ total' = total
  BY TotalUnchanged DEF IInv
<1> USE DEF allotment, holdRows, Unlocked, Capturable, RoomToCapture, Restorable,
          HeldQty, SweepHits
<1>1. ASSUME NEW h \in Holds, NEW q \in 1..MaxQty, NEW ttl \in TTLs,
             CreateHold(h, q, ttl)
      PROVE  OversellOnlyByLateCaptures'
  BY <1>1, CapacityCreate
<1>2. ASSUME NEW h \in Holds, FinishCapture(h)
      PROVE  OversellOnlyByLateCaptures'
  BY <1>2, CapacityFinish
<1>3. ASSUME NEW h \in Holds, CompensateCapturedHold(h)
      PROVE  OversellOnlyByLateCaptures'
  BY <1>3, CapacityCompensate
<1>4. ASSUME NEW h \in Holds, BeginCapture(h) \/ AbortCapture(h)
      PROVE  OversellOnlyByLateCaptures'
  BY <1>0, <1>4, CapacityKept DEF BeginCapture, AbortCapture, LiveHolds
<1>5. ASSUME NEW h \in Holds, ReleaseHold(h)
      PROVE  OversellOnlyByLateCaptures'
  BY <1>0, <1>5, CapacityKept DEF ReleaseHold, LiveHolds, TypeOK
<1>6. CASE SweepExpiredHolds
  BY <1>0, <1>6, CapacityKept DEF SweepExpiredHolds, Expire, LiveHolds
<1>7. ASSUME NEW w \in Sweepers, SweepUpdate(w)
      PROVE  OversellOnlyByLateCaptures'
  BY <1>0, <1>7, CapacityKept DEF SweepUpdate, Expire, LiveHolds
<1>8. ASSUME NEW w \in Sweepers, SweepScan(w) \/ CrashSweep(w)
      PROVE  OversellOnlyByLateCaptures'
  BY <1>0, <1>8, CapacityKept DEF SweepScan, CrashSweep, LiveHolds
<1>9. ASSUME NEW a \in Admins, PolicyRead(a) \/ PolicyWrite(a)
      PROVE  OversellOnlyByLateCaptures'
  BY <1>0, <1>9, CapacityKept DEF PolicyRead, PolicyWrite, LiveHolds
<1>10. CASE Tick
  <2>1. LiveHolds' \subseteq LiveHolds
    BY <1>0, <1>10 DEF Tick, LiveHolds, TypeOK
  <2> QED
    BY <1>0, <1>10, <2>1, CapacityKept DEF Tick
<1>11. CASE UNCHANGED vars
  BY <1>0, <1>11, CapacityKept DEF vars, LiveHolds
<1> QED
  BY <1>1, <1>2, <1>3, <1>4, <1>5, <1>6, <1>7, <1>8, <1>9, <1>10, <1>11
     DEF Next

\* Before the first hold nothing is promised beyond what is booked.
LEMMA CapacityInit == Init => OversellOnlyByLateCaptures
<1> SUFFICES ASSUME Init
             PROVE  OversellOnlyByLateCaptures
  OBVIOUS
<1>1. LiveHolds = {}
  BY DEF Init, LiveHolds
<1>2. QtyOf(LiveHolds) = 0 /\ QtyOf(late) = 0
  BY <1>1, SumEmpty DEF QtyOf, Init
<1> QED
  BY <1>2, CapacityAssumption DEF Init, OversellOnlyByLateCaptures

\* Booked units and live holds together exceed the capacity by no more than
\* the units of the holds that were captured after their time had run out:
\* createHold's sum over live holds is exact, and the gap between the expiry
\* check of captureHold and its UPDATE is the only way to oversell.
THEOREM PromisesFit ==
  ASSUME PolicyTotals = {}
  PROVE  Spec => []OversellOnlyByLateCaptures
BY CapacityInit, CapacityNext, Invariance, PTL DEF Spec

\* With no admin lowering the total, what is booked never exceeds it.
THEOREM NoOversell ==
  ASSUME PolicyTotals = {}
  PROVE  Spec => []BookedWithinTotal
<1>1. Init => BookedWithinTotal
  BY CapacityAssumption DEF Init, BookedWithinTotal
<1>2. TypeOK /\ BookedWithinTotal /\ [Next]_vars => BookedWithinTotal'
  <2> SUFFICES ASSUME TypeOK, BookedWithinTotal, [Next]_vars
               PROVE  BookedWithinTotal'
    OBVIOUS
  <2>0. total' = total
    BY TotalUnchanged
  <2> USE DEF allotment, holdRows, BookedWithinTotal
  <2>1. ASSUME NEW h \in Holds, FinishCapture(h)
        PROVE  BookedWithinTotal'
    BY <2>0, <2>1 DEF FinishCapture, RoomToCapture
  <2>2. ASSUME NEW h \in Holds, CompensateCapturedHold(h)
        PROVE  BookedWithinTotal'
    <3>1. booked' <= booked /\ booked' \in Int
      BY <2>2, MaxQtyAssumption DEF CompensateCapturedHold, TypeOK
    <3> QED
      BY <2>0, <3>1 DEF TypeOK
  <2>3. ASSUME NEW h \in Holds,
               \/ \E q \in 1..MaxQty, ttl \in TTLs : CreateHold(h, q, ttl)
               \/ BeginCapture(h) \/ AbortCapture(h) \/ ReleaseHold(h)
        PROVE  BookedWithinTotal'
    BY <2>0, <2>3 DEF CreateHold, BeginCapture, AbortCapture, ReleaseHold
  <2>4. ASSUME NEW w \in Sweepers,
               SweepScan(w) \/ SweepUpdate(w) \/ CrashSweep(w)
        PROVE  BookedWithinTotal'
    BY <2>0, <2>4 DEF SweepScan, SweepUpdate, CrashSweep
  <2>5. ASSUME NEW a \in Admins, PolicyRead(a) \/ PolicyWrite(a)
        PROVE  BookedWithinTotal'
    BY <2>0, <2>5 DEF PolicyRead, PolicyWrite
  <2>6. CASE SweepExpiredHolds \/ Tick \/ UNCHANGED vars
    BY <2>0, <2>6 DEF SweepExpiredHolds, Tick, vars
  <2> QED
    BY <2>1, <2>2, <2>3, <2>4, <2>5, <2>6 DEF Next
<1> QED
  BY <1>1, <1>2, TypeCorrect, PTL DEF Spec

-----------------------------------------------------------------------------
(***************************************************************************)
(* The engine implements CapacityContract: each step is a step of the      *)
(* contract on the holds' phases, or leaves them alone.                    *)
(***************************************************************************)

\* The phases a step leads to, hold by hold.
LEMMA PhaseOfStatus ==
  /\ PhaseOf("NONE") = "none"
  /\ PhaseOf("ACTIVE") = "open"
  /\ PhaseOf("CAPTURED") = "sold"
  /\ PhaseOf("RELEASED") = "closed"
  /\ PhaseOf("EXPIRED") = "closed"
BY DEF PhaseOf

\* The contract counts the same units as the engine.
LEMMA ContractSum ==
  ASSUME NEW S, NEW q
  PROVE  Contract!SumOfQuantities(S, q) = SumOfQuantities(S, q)
BY DEF Contract!SumOfQuantities, Contract!Units, SumOfQuantities, Units,
       Contract!Cardinality, Cardinality

\* The contract's sold holds are the CAPTURED ones.
LEMMA ContractSold ==
  ASSUME TypeOK
  PROVE  Contract!Sold = InStatus("CAPTURED")
<1>1. ASSUME NEW s \in Status
      PROVE  PhaseOf(s) = "sold" <=> s = "CAPTURED"
  BY PhaseOfStatus DEF Status
<1> QED
  BY <1>1 DEF Contract!Sold, InStatus, TypeOK

\* An engine step that closes the ACTIVE holds of a set is a Close.
LEMMA ContractClose ==
  ASSUME TypeOK, TypeOK', qty' = qty, NEW S \in SUBSET Holds,
         \A h \in S : status[h] = "ACTIVE",
         \A h \in S : status'[h] \in {"RELEASED", "EXPIRED"},
         \A h \in Holds \ S : status'[h] = status[h]
  PROVE  Contract!Next
<1>1. Contract!Close(S)
  BY PhaseOfStatus DEF Contract!Close
<1> QED
  BY <1>1 DEF Contract!Next

\* createHold opens a hold.
LEMMA ContractOpen ==
  ASSUME TypeOK, NEW h \in Holds, NEW q \in 1..MaxQty, NEW ttl \in TTLs,
         CreateHold(h, q, ttl)
  PROVE  Contract!Next
<1>1. Contract!Open(h, q)
  BY PhaseOfStatus DEF CreateHold, Contract!Open, TypeOK
<1> QED
  BY <1>1 DEF Contract!Next

\* captureHold sells it: the counter's check is a check on the sold units.
LEMMA ContractSell ==
  ASSUME IInv, total = Capacity, NEW h \in Holds, FinishCapture(h)
  PROVE  Contract!Next
<1> DEFINE C == InStatus("CAPTURED")
<1>1. /\ status[h] = "ACTIVE"
      /\ h \notin C
      /\ qty[h] \in 0..MaxQty
      /\ qty[h] \in Nat
      /\ SumOfQuantities(C, qty) \in Nat
  BY MaxQtyAssumption, SumType
     DEF FinishCapture, IInv, CapturesOwnTheirHold, InStatus, TypeOK
<1>2. SumOfQuantities(C \cup {h}, qty) = SumOfQuantities(C, qty) + qty[h]
  BY <1>1, SumAdd
<1>3. booked = PreBooked + SumOfQuantities(C, qty) /\ booked + qty[h] <= Capacity
  BY DEF FinishCapture, RoomToCapture, IInv, BookedMatchesCaptures, QtyOf
<1>4. PreBooked + SumOfQuantities(C \cup {h}, qty) <= Capacity
  BY <1>1, <1>2, <1>3, CapacityAssumption
<1>5. Contract!SumOfQuantities(Contract!Sold \cup {h}, qty)
        = SumOfQuantities(C \cup {h}, qty)
  BY ContractSold, ContractSum DEF IInv
<1>6. PreBooked + Contract!SumOfQuantities(Contract!Sold \cup {h}, qty) <= Capacity
  BY <1>4, <1>5
<1>7. Contract!Sell(h)
  BY <1>1, <1>6, PhaseOfStatus DEF FinishCapture, Contract!Sell, IInv, TypeOK
<1> QED
  BY <1>7 DEF Contract!Next

\* compensateCapturedHold refunds a sold hold and closes an open one.
LEMMA ContractRefund ==
  ASSUME TypeOK, TypeOK', NEW h \in Holds, CompensateCapturedHold(h)
  PROVE  Contract!Next
<1>1. CASE status[h] = "CAPTURED"
  <2>1. Contract!Refund(h)
    BY <1>1, PhaseOfStatus DEF CompensateCapturedHold, Contract!Refund, TypeOK
  <2> QED
    BY <2>1 DEF Contract!Next
<1>2. CASE status[h] = "ACTIVE"
  <2>1. /\ {h} \in SUBSET Holds
        /\ qty' = qty
        /\ \A g \in {h} : status[g] = "ACTIVE"
        /\ \A g \in {h} : status'[g] \in {"RELEASED", "EXPIRED"}
        /\ \A g \in Holds \ {h} : status'[g] = status[g]
    BY <1>2 DEF CompensateCapturedHold, TypeOK
  <2> QED
    BY <2>1, ContractClose
<1> QED
  BY <1>1, <1>2 DEF CompensateCapturedHold, Restorable

\* Every step of the engine is a step of the contract or changes no phase.
LEMMA ContractNext ==
  ASSUME IInv, TypeOK', total = Capacity, [Next]_vars
  PROVE  [Contract!Next]_<<[h \in Holds |-> PhaseOf(status[h])], qty>>
<1>0. TypeOK
  BY DEF IInv
<1> USE DEF allotment, holdRows, Unlocked, Capturable, RoomToCapture, Restorable,
          HeldQty, SweepHits
<1>1. ASSUME NEW h \in Holds, NEW q \in 1..MaxQty, NEW ttl \in TTLs,
             CreateHold(h, q, ttl)
      PROVE  Contract!Next
  BY <1>0, <1>1, ContractOpen
<1>2. ASSUME NEW h \in Holds, FinishCapture(h)
      PROVE  Contract!Next
  BY <1>2, ContractSell
<1>3. ASSUME NEW h \in Holds, CompensateCapturedHold(h)
      PROVE  Contract!Next
  BY <1>0, <1>3, ContractRefund
<1>4. ASSUME NEW h \in Holds, ReleaseHold(h)
      PROVE  Contract!Next
  <2>1. /\ {h} \in SUBSET Holds
        /\ qty' = qty
        /\ \A g \in {h} : status[g] = "ACTIVE"
        /\ \A g \in {h} : status'[g] \in {"RELEASED", "EXPIRED"}
        /\ \A g \in Holds \ {h} : status'[g] = status[g]
    BY <1>0, <1>4 DEF ReleaseHold, TypeOK
  <2> QED
    BY <1>0, <2>1, ContractClose
<1>5. CASE SweepExpiredHolds
  <2> DEFINE S == StaleHolds(now)
  <2>1. /\ S \in SUBSET Holds
        /\ qty' = qty
        /\ \A g \in S : status[g] = "ACTIVE"
        /\ \A g \in S : status'[g] \in {"RELEASED", "EXPIRED"}
        /\ \A g \in Holds \ S : status'[g] = status[g]
    BY <1>5 DEF SweepExpiredHolds, Expire, StaleHolds
  <2> QED
    BY <1>0, <2>1, ContractClose
<1>6. ASSUME NEW w \in Sweepers, SweepUpdate(w)
      PROVE  Contract!Next
  <2> DEFINE S == sweep[w].candidates \cap StaleHolds(sweep[w].now)
  <2>1. /\ S \in SUBSET Holds
        /\ qty' = qty
        /\ \A g \in S : status[g] = "ACTIVE"
        /\ \A g \in S : status'[g] \in {"RELEASED", "EXPIRED"}
        /\ \A g \in Holds \ S : status'[g] = status[g]
    BY <1>6 DEF SweepUpdate, Expire, StaleHolds
  <2> QED
    BY <1>0, <2>1, ContractClose
<1>7. ASSUME \/ \E h \in Holds : BeginCapture(h) \/ AbortCapture(h)
             \/ \E w \in Sweepers : SweepScan(w) \/ CrashSweep(w)
             \/ \E a \in Admins : PolicyRead(a) \/ PolicyWrite(a)
             \/ Tick
             \/ UNCHANGED vars
      PROVE  UNCHANGED <<status, qty>>
  BY <1>7 DEF BeginCapture, AbortCapture, SweepScan, CrashSweep, PolicyRead,
              PolicyWrite, Tick, vars
<1> QED
  BY <1>1, <1>2, <1>3, <1>4, <1>5, <1>6, <1>7 DEF Next

\* A new allotment maps to the contract's initial state.
LEMMA ContractInit == Init => Contract!Init
BY PhaseOfStatus DEF Init, Contract!Init

\* Whatever the clocks, locks, sweeps, duplicates and crashes do, the engine
\* sells each hold at most once, only while it is open, and never sells more
\* units than the allotment has.
THEOREM EngineImplementsContract ==
  ASSUME PolicyTotals = {}
  PROVE  Spec => ImplementsContract
<1>1. Init => total = Capacity
  BY DEF Init
<1>2. TypeOK /\ total = Capacity /\ [Next]_vars => (total = Capacity)'
  BY TotalUnchanged
<1>3. Spec => [](total = Capacity)
  BY <1>1, <1>2, TypeCorrect, PTL DEF Spec
<1>4. IInv /\ TypeOK' /\ total = Capacity /\ [Next]_vars
        => [Contract!Next]_<<[h \in Holds |-> PhaseOf(status[h])], qty>>
  BY ContractNext
<1> QED
  BY <1>3, <1>4, ContractInit, Invariance, TypeCorrect, PTL
     DEF Spec, ImplementsContract, Contract!Spec

-----------------------------------------------------------------------------
(***************************************************************************)
(* Life cycle of a hold.                                                   *)
(***************************************************************************)

\* Every change of status is a declared transition.
LEMMA StateMachineNext ==
  ASSUME IInv, [Next]_vars, NEW h \in Holds, status'[h] # status[h]
  PROVE  <<status[h], status'[h]>> \in Transitions
<1>0. TypeOK /\ CapturesOwnTheirHold
  BY DEF IInv
<1> USE DEF allotment, holdRows, Transitions
<1>1. CASE \E g \in Holds, q \in 1..MaxQty, ttl \in TTLs : CreateHold(g, q, ttl)
  BY <1>0, <1>1 DEF CreateHold, TypeOK
<1>2. CASE \E g \in Holds : FinishCapture(g)
  BY <1>0, <1>2 DEF FinishCapture, CapturesOwnTheirHold, TypeOK
<1>3. CASE \E g \in Holds : ReleaseHold(g) \/ CompensateCapturedHold(g)
  BY <1>0, <1>3 DEF ReleaseHold, CompensateCapturedHold, Restorable, TypeOK
<1>4. CASE SweepExpiredHolds \/ \E w \in Sweepers : SweepUpdate(w)
  BY <1>0, <1>4 DEF SweepExpiredHolds, SweepUpdate, SweepHits, Expire, StaleHolds
<1>5. ASSUME \/ \E g \in Holds : BeginCapture(g) \/ AbortCapture(g)
             \/ \E w \in Sweepers : SweepScan(w) \/ CrashSweep(w)
             \/ \E a \in Admins : PolicyRead(a) \/ PolicyWrite(a)
             \/ Tick
             \/ UNCHANGED vars
      PROVE  status' = status
  BY <1>5 DEF BeginCapture, AbortCapture, SweepScan, CrashSweep, PolicyRead,
              PolicyWrite, Tick, vars
<1> QED
  BY <1>1, <1>2, <1>3, <1>4, <1>5 DEF Next

\* Whatever races for a hold, it moves along hold-state-machine.ts only: no
\* sweep takes back a sold hold, and a closed hold stays closed.
THEOREM LifeCycle == Spec => HoldsFollowStateMachine
<1>1. IInv /\ [Next]_vars =>
        [\A h \in Holds : status'[h] # status[h] =>
           <<status[h], status'[h]>> \in Transitions]_vars
  BY StateMachineNext
<1> QED
  BY <1>1, Invariance, PTL DEF Spec, HoldsFollowStateMachine

\* A sweep in flight works from a clock reading of the past.
SweepsReadThePast == \A w \in Sweepers : sweep[w].now <= now

\* The clock never runs back behind a sweep.
LEMMA SweepClock == Spec => []SweepsReadThePast
<1>1. Init => SweepsReadThePast
  BY DEF Init, NoSweep, SweepsReadThePast
<1>2. TypeOK /\ SweepsReadThePast /\ [Next]_vars => SweepsReadThePast'
  <2> SUFFICES ASSUME TypeOK, SweepsReadThePast, [Next]_vars
               PROVE  SweepsReadThePast'
    OBVIOUS
  <2>1. ASSUME NEW w \in Sweepers,
               SweepScan(w) \/ SweepUpdate(w) \/ CrashSweep(w)
        PROVE  SweepsReadThePast'
    BY <2>1 DEF SweepScan, SweepUpdate, CrashSweep, NoSweep, SweepsReadThePast,
                TypeOK
  <2>2. CASE Tick
    BY <2>2 DEF Tick, SweepsReadThePast, TypeOK
  <2>3. ASSUME \/ \E h \in Holds :
                    \/ \E q \in 1..MaxQty, ttl \in TTLs : CreateHold(h, q, ttl)
                    \/ BeginCapture(h) \/ FinishCapture(h) \/ AbortCapture(h)
                    \/ ReleaseHold(h) \/ CompensateCapturedHold(h)
               \/ SweepExpiredHolds
               \/ \E a \in Admins : PolicyRead(a) \/ PolicyWrite(a)
               \/ UNCHANGED vars
        PROVE  UNCHANGED <<sweep, now>>
    BY <2>3 DEF CreateHold, BeginCapture, FinishCapture, AbortCapture,
                ReleaseHold, CompensateCapturedHold, SweepExpiredHolds,
                PolicyRead, PolicyWrite, vars
  <2> QED
    BY <2>1, <2>2, <2>3 DEF Next, SweepsReadThePast
<1> QED
  BY <1>1, <1>2, TypeCorrect, PTL DEF Spec

\* However long a sweep waits between its SELECT and its UPDATE, it expires
\* only holds whose time has passed.
THEOREM SweepsExpireStaleHolds == Spec => OnlyStaleHoldsExpire
<1>1. TypeOK /\ SweepsReadThePast /\ [Next]_vars =>
        [\A h \in Holds : status'[h] = "EXPIRED" /\ status[h] # "EXPIRED" =>
           expiresAt[h] <= now]_vars
  <2> SUFFICES ASSUME TypeOK, SweepsReadThePast, Next,
                      NEW h \in Holds,
                      status'[h] = "EXPIRED", status[h] # "EXPIRED"
               PROVE  expiresAt[h] <= now
    OBVIOUS
  <2>1. CASE SweepExpiredHolds
    BY <2>1 DEF SweepExpiredHolds, Expire, StaleHolds
  <2>2. ASSUME NEW w \in Sweepers, SweepUpdate(w)
        PROVE  expiresAt[h] <= now
    <3>1. h \in StaleHolds(sweep[w].now)
      BY <2>2 DEF SweepUpdate, SweepHits, Expire
    <3> QED
      BY <3>1 DEF StaleHolds, SweepsReadThePast, TypeOK
  <2>3. CASE \/ \E g \in Holds :
                  \/ \E q \in 1..MaxQty, ttl \in TTLs : CreateHold(g, q, ttl)
                  \/ BeginCapture(g) \/ FinishCapture(g) \/ AbortCapture(g)
                  \/ ReleaseHold(g) \/ CompensateCapturedHold(g)
             \/ \E w \in Sweepers : SweepScan(w) \/ CrashSweep(w)
             \/ \E a \in Admins : PolicyRead(a) \/ PolicyWrite(a)
             \/ Tick
    BY <2>3 DEF CreateHold, BeginCapture, FinishCapture, AbortCapture,
                ReleaseHold, CompensateCapturedHold, SweepScan, CrashSweep,
                PolicyRead, PolicyWrite, Tick, TypeOK, holdRows, allotment
  <2> QED
    BY <2>1, <2>2, <2>3 DEF Next
<1> QED
  BY <1>1, SweepClock, TypeCorrect, PTL DEF Spec, OnlyStaleHoldsExpire
=============================================================================
