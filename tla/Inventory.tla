------------------------------ MODULE Inventory ------------------------------
(***************************************************************************)
(* One allotment row (an inventory item on one date) and the holds taken   *)
(* on it: src/domains/inventory/InventoryEngine.ts and the background      *)
(* HoldExpirationWorker.ts.                                                *)
(*                                                                         *)
(* Every engine call is one database transaction, so it is one action,     *)
(* except where the code itself reads in one step and writes in a later    *)
(* one:                                                                    *)
(*   - captureHold reads the hold's status and its expiry, then waits for  *)
(*     the allotment row: BeginCapture, then FinishCapture;                *)
(*   - HoldExpirationWorker.runSweep selects candidates, then updates      *)
(*     them: SweepScan, then SweepUpdate;                                  *)
(*   - setAllotmentPolicy, as the admin action calls it, runs outside a    *)
(*     transaction: PolicyRead, then PolicyWrite.                          *)
(***************************************************************************)
EXTENDS HoldQuantities

CONSTANTS
  Sweepers,       \* processes that run HoldExpirationWorker
  Admins,         \* admin sessions that call updateAllotment
  Capacity,       \* total of the allotment when it is created
  PreBooked,      \* booked of the allotment when it is created
  TTLs,           \* time-to-live values createHold is called with
  MaxTime,        \* bound: the last instant; every hold expires before it
  BatchSize,      \* most candidates one sweep takes (200 in the code)
  MaxCrashes,     \* bound: sweeps that die between their two statements
  PolicyTotals,   \* totals an admin may set
  Keep            \* a policy field that is left undefined

ASSUME CapacityAssumption ==
  /\ Capacity \in Nat
  /\ PreBooked \in 0..Capacity
ASSUME TimeAssumption == TTLs \subseteq Nat /\ MaxTime \in Nat
ASSUME SweepAssumption == BatchSize \in Nat \ {0} /\ MaxCrashes \in Nat
ASSUME PolicyAssumption ==
  /\ PolicyTotals \subseteq Nat
  /\ Keep \notin PolicyTotals
  /\ Keep \notin BOOLEAN

VARIABLES
  total,       \* Allotment.total
  booked,      \* Allotment.booked
  stopSell,    \* Allotment.stopSell
  status,      \* InventoryHold.status, "NONE" while the row does not exist
  qty,         \* InventoryHold.quantity
  expiresAt,   \* InventoryHold.expiresAt
  capturing,   \* holds whose row a captureHold has locked and checked
  sweep,       \* per sweeper: the clock and the candidates it has read
  policy,      \* per admin: the policy it has checked and not yet written
  now,         \* the clock
  crashes,     \* sweeps that have died
  late         \* auxiliary: holds captured when their time had run out

allotment == <<total, booked, stopSell>>
holdRows  == <<status, qty, expiresAt>>
vars == <<allotment, holdRows, capturing, sweep, policy, now, crashes, late>>

Status == {"NONE", "ACTIVE", "CAPTURED", "RELEASED", "EXPIRED"}

(***************************************************************************)
(* Faulty variants of the definitions below: slips that would leave the    *)
(* code plausible. Each property is checked to notice one of them.         *)
(***************************************************************************)

\* createHold counts the rows of the live holds instead of their quantities.
CountedHolds ==
  Cardinality({h \in Holds : status[h] = "ACTIVE" /\ expiresAt[h] > now})

\* captureHold does not refuse an EXPIRED hold.
CapturableThoughExpired(h) ==
  status[h] \in {"ACTIVE", "EXPIRED"} /\ now <= expiresAt[h] + 1

\* compensateCapturedHold repeats itself on a hold it already released,
\* without the guard of its decrement.
RestorableUnguarded(h) == status[h] \in {"CAPTURED", "RELEASED"}

\* runSweep's UPDATE by id alone.
SweepHitsById(w) == sweep[w].candidates

\* runSweep without the finally that clears isRunning.
StillRunning == [busy |-> TRUE, now |-> 0, candidates |-> {}]

-----------------------------------------------------------------------------
NoSweep  == [busy |-> FALSE, now |-> 0, candidates |-> {}]
NoPolicy == [busy |-> FALSE, total |-> Keep, stopSell |-> Keep]

-----------------------------------------------------------------------------
\* The sum of the quantities of the holds in S.
QtyOf(S) == SumOfQuantities(S, qty)

InStatus(s) == {h \in Holds : status[h] = s}

\* The holds createHold's aggregate counts: ACTIVE and expiresAt > now.
LiveHolds == {h \in Holds : status[h] = "ACTIVE" /\ expiresAt[h] > now}

\* The holds a sweep at time t looks for: ACTIVE and expiresAt <= t.
StaleHolds(t) == {h \in Holds : status[h] = "ACTIVE" /\ expiresAt[h] <= t}

\* The quantity createHold regards as taken by other holds.
HeldQty == QtyOf(LiveHolds)

\* No transaction in flight holds the row lock of h.
Unlocked(h) == h \notin capturing

\* captureHold's checks on the locked hold row.
Capturable(h) == status[h] = "ACTIVE" /\ now <= expiresAt[h]

\* The WHERE clause of captureHold's conditional UPDATE of the allotment.
RoomToCapture(h) == booked + qty[h] <= total

\* The case of compensateCapturedHold that gives capacity back, with the
\* guard of its decrement.
Restorable(h) == status[h] = "CAPTURED" /\ booked >= qty[h]

\* The rows runSweep's UPDATE hits: candidates that still are ACTIVE and stale.
SweepHits(w) == sweep[w].candidates \cap StaleHolds(sweep[w].now)

Expire(S) == [h \in Holds |-> IF h \in S THEN "EXPIRED" ELSE status[h]]

-----------------------------------------------------------------------------
\* createAllotments: a new allotment with booked <= total and no holds.
Init ==
  /\ total = Capacity
  /\ booked = PreBooked
  /\ stopSell = FALSE
  /\ status = [h \in Holds |-> "NONE"]
  /\ qty = [h \in Holds |-> 0]
  /\ expiresAt = [h \in Holds |-> 0]
  /\ capturing = {}
  /\ sweep = [w \in Sweepers |-> NoSweep]
  /\ policy = [a \in Admins |-> NoPolicy]
  /\ now = 0
  /\ crashes = 0
  /\ late = {}

\* createHold: under the allotment's row lock, available capacity is total
\* minus booked minus the holds that are still live.
CreateHold(h, q, ttl) ==
  /\ status[h] = "NONE"
  /\ ~stopSell
  /\ total - booked - HeldQty >= q
  /\ now + ttl < MaxTime
  /\ status' = [status EXCEPT ![h] = "ACTIVE"]
  /\ qty' = [qty EXCEPT ![h] = q]
  /\ expiresAt' = [expiresAt EXCEPT ![h] = now + ttl]
  /\ UNCHANGED <<allotment, capturing, sweep, policy, now, crashes, late>>

\* captureHold, up to the expiry check: the hold row is locked, ACTIVE and
\* its time has not passed.
BeginCapture(h) ==
  /\ Unlocked(h)
  /\ Capturable(h)
  /\ capturing' = capturing \cup {h}
  /\ UNCHANGED <<allotment, holdRows, sweep, policy, now, crashes, late>>

\* captureHold, the conditional UPDATE of the allotment and the commit.
FinishCapture(h) ==
  /\ h \in capturing
  /\ RoomToCapture(h)
  /\ booked' = booked + qty[h]
  /\ status' = [status EXCEPT ![h] = "CAPTURED"]
  /\ capturing' = capturing \ {h}
  /\ late' = IF expiresAt[h] > now THEN late ELSE late \cup {h}
  /\ UNCHANGED <<total, stopSell, qty, expiresAt, sweep, policy, now, crashes>>

\* captureHold that updates no row, times out, or whose enclosing
\* transaction rolls back.
AbortCapture(h) ==
  /\ h \in capturing
  /\ capturing' = capturing \ {h}
  /\ UNCHANGED <<allotment, holdRows, sweep, policy, now, crashes, late>>

\* releaseHold: only an ACTIVE hold changes; a CAPTURED one is refused.
ReleaseHold(h) ==
  /\ Unlocked(h)
  /\ status[h] = "ACTIVE"
  /\ status' = [status EXCEPT ![h] = "RELEASED"]
  /\ UNCHANGED <<allotment, qty, expiresAt, capturing, sweep, policy, now,
                 crashes, late>>

\* compensateCapturedHold: a CAPTURED hold gives its quantity back, an
\* ACTIVE one is only released.
CompensateCapturedHold(h) ==
  /\ Unlocked(h)
  /\ \/ /\ Restorable(h)
        /\ booked' = booked - qty[h]
     \/ /\ status[h] = "ACTIVE"
        /\ booked' = booked
  /\ status' = [status EXCEPT ![h] = "RELEASED"]
  /\ late' = late \ {h}
  /\ UNCHANGED <<total, stopSell, qty, expiresAt, capturing, sweep, policy,
                 now, crashes>>

\* sweepExpiredHolds: one UPDATE, which waits for the rows captures lock.
SweepExpiredHolds ==
  /\ StaleHolds(now) # {}
  /\ StaleHolds(now) \cap capturing = {}
  /\ status' = Expire(StaleHolds(now))
  /\ UNCHANGED <<allotment, qty, expiresAt, capturing, sweep, policy, now,
                 crashes, late>>

\* runSweep, the SELECT: at most BatchSize stale holds, in no given order.
SweepScan(w) ==
  /\ ~sweep[w].busy
  /\ StaleHolds(now) # {}
  /\ \E S \in SUBSET StaleHolds(now) :
       /\ S # {}
       /\ Cardinality(S) <= BatchSize
       /\ S # StaleHolds(now) => Cardinality(S) = BatchSize
       /\ sweep' = [sweep EXCEPT
            ![w] = [busy |-> TRUE, now |-> now, candidates |-> S]]
  /\ UNCHANGED <<allotment, holdRows, capturing, policy, now, crashes, late>>

\* runSweep, the UPDATE, which waits for the rows captures lock.
SweepUpdate(w) ==
  /\ sweep[w].busy
  /\ SweepHits(w) \cap capturing = {}
  /\ status' = Expire(SweepHits(w))
  /\ sweep' = [sweep EXCEPT ![w] = NoSweep]
  /\ UNCHANGED <<allotment, qty, expiresAt, capturing, policy, now, crashes,
                 late>>

\* A sweeper that dies, or whose UPDATE throws, after its SELECT.
CrashSweep(w) ==
  /\ sweep[w].busy
  /\ crashes < MaxCrashes
  /\ crashes' = crashes + 1
  /\ sweep' = [sweep EXCEPT ![w] = NoSweep]
  /\ UNCHANGED <<allotment, holdRows, capturing, policy, now, late>>

\* setAllotmentPolicy without a transaction: the row lock ends with the
\* SELECT that took it, and the check is made on what that SELECT read.
PolicyRead(a) ==
  /\ ~policy[a].busy
  /\ \E t \in PolicyTotals \cup {Keep}, s \in BOOLEAN \cup {Keep} :
       /\ t # Keep \/ s # Keep
       /\ t # Keep => t >= booked
       /\ policy' = [policy EXCEPT
            ![a] = [busy |-> TRUE, total |-> t, stopSell |-> s]]
  /\ UNCHANGED <<allotment, holdRows, capturing, sweep, now, crashes, late>>

\* setAllotmentPolicy, the update by id.
PolicyWrite(a) ==
  /\ policy[a].busy
  /\ total' = IF policy[a].total = Keep THEN total ELSE policy[a].total
  /\ stopSell' = IF policy[a].stopSell = Keep THEN stopSell
                 ELSE policy[a].stopSell
  /\ policy' = [policy EXCEPT ![a] = NoPolicy]
  /\ UNCHANGED <<booked, holdRows, capturing, sweep, now, crashes, late>>

Tick ==
  /\ now < MaxTime
  /\ now' = now + 1
  /\ UNCHANGED <<allotment, holdRows, capturing, sweep, policy, crashes, late>>

Next ==
  \/ \E h \in Holds :
       \/ \E q \in 1..MaxQty, ttl \in TTLs : CreateHold(h, q, ttl)
       \/ BeginCapture(h)
       \/ FinishCapture(h)
       \/ AbortCapture(h)
       \/ ReleaseHold(h)
       \/ CompensateCapturedHold(h)
  \/ SweepExpiredHolds
  \/ \E w \in Sweepers : SweepScan(w) \/ SweepUpdate(w) \/ CrashSweep(w)
  \/ \E a \in Admins : PolicyRead(a) \/ PolicyWrite(a)
  \/ Tick

Spec == Init /\ [][Next]_vars

\* Time passes, the sweep's timer keeps firing (worker-entrypoint.ts runs it
\* every 30 s), and a capture's transaction ends: it commits or times out.
Fairness ==
  /\ WF_vars(Tick)
  /\ \A w \in Sweepers : WF_vars(SweepScan(w)) /\ WF_vars(SweepUpdate(w))
  /\ \A h \in Holds : WF_vars(FinishCapture(h) \/ AbortCapture(h))

FairSpec == Spec /\ Fairness

-----------------------------------------------------------------------------
TypeOK ==
  /\ total \in Nat
  /\ booked \in Nat
  /\ stopSell \in BOOLEAN
  /\ status \in [Holds -> Status]
  /\ qty \in [Holds -> 0..MaxQty]
  /\ expiresAt \in [Holds -> Nat]
  /\ capturing \subseteq Holds
  /\ sweep \in [Sweepers ->
       [busy : BOOLEAN, now : Nat, candidates : SUBSET Holds]]
  /\ policy \in [Admins ->
       [busy : BOOLEAN, total : PolicyTotals \cup {Keep},
        stopSell : BOOLEAN \cup {Keep}]]
  /\ now \in Nat
  /\ crashes \in 0..MaxCrashes
  /\ late \subseteq Holds

\* The booked counter is exactly what was booked at creation plus the
\* quantities of the holds that are CAPTURED: no capture, duplicate capture,
\* compensation or sweep counts a unit twice or forgets one.
BookedMatchesCaptures == booked = PreBooked + QtyOf(InStatus("CAPTURED"))

\* No oversell of what is sold: booked never exceeds the capacity.
BookedWithinTotal == booked <= total

\* What the promises add up to: booked units plus live holds exceed the
\* capacity by no more than the holds that were captured when their time
\* had already run out.
OversellOnlyByLateCaptures ==
  booked + QtyOf(LiveHolds) <= total + QtyOf(late)

\* A capture in flight owns its hold: no sweep, release or compensation
\* changes the hold under it.
CapturesOwnTheirHold == \A h \in capturing : status[h] = "ACTIVE"

\* hold-state-machine.ts: a hold moves along the declared transitions only,
\* whatever captures, sweeps and compensations race for it.
Transitions ==
  {<<"NONE", "ACTIVE">>, <<"ACTIVE", "CAPTURED">>, <<"ACTIVE", "RELEASED">>,
   <<"ACTIVE", "EXPIRED">>, <<"CAPTURED", "RELEASED">>}

HoldsFollowStateMachine ==
  [][\A h \in Holds : status'[h] # status[h] =>
        <<status[h], status'[h]>> \in Transitions]_vars

\* A hold that expires was never in time: a sweep, however old the snapshot
\* it works from, only expires holds whose expiry has passed.
OnlyStaleHoldsExpire ==
  [][\A h \in Holds : status'[h] = "EXPIRED" /\ status[h] # "EXPIRED" =>
        expiresAt[h] <= now]_vars

\* The engine implements CapacityContract: closed is RELEASED or EXPIRED.
PhaseOf(s) == CASE s = "NONE" -> "none"
                [] s = "ACTIVE" -> "open"
                [] s = "CAPTURED" -> "sold"
                [] OTHER -> "closed"

Contract == INSTANCE CapacityContract WITH
  phase <- [h \in Holds |-> PhaseOf(status[h])],
  size <- qty

\* Whatever interleaves on the allotment, each hold is sold at most once,
\* only while open, and the sold units fit the capacity, by counting holds
\* and not by trusting the booked counter.
ImplementsContract == Contract!Spec

\* Inventory is not held for ever: a hold that is neither paid nor released
\* stops being ACTIVE, whatever sweeps die on the way.
HoldsAreEventuallySettled ==
  \A h \in Holds : status[h] = "ACTIVE" ~> status[h] # "ACTIVE"
=============================================================================
