----------------------------- MODULE RuntimeProofs -----------------------------
(***************************************************************************)
(* Proofs about OutboxUnderLease: the runtime is an outbox and a lease at  *)
(* the same time, so what OutboxProofs and LeaseProofs prove of each part  *)
(* holds of the two together; and with the lease, cycles that have events  *)
(* in hand are cycles at work, of which there is one while nothing has     *)
(* gone wrong.                                                             *)
(***************************************************************************)
EXTENDS OutboxUnderLease, OutboxProofs, FiniteSetTheorems

(* The lease with the theorems about it.                                   *)
Proved == INSTANCE LeaseProofs WITH Cycles <- Workers

(* The assumptions on the lease's constants are those of the runtime.      *)
LEMMA LeaseConstantsHold == Proved!LeaseAssumption
BY RuntimeAssumption DEF Lease!LeaseAssumption, Proved!LeaseAssumption

(***************************************************************************)
(* The two instances of WorkerLease agree.                                 *)
(***************************************************************************)
LEMMA LeaseInitAgrees == Lease!LeaseInit <=> Proved!LeaseInit
BY DEF Lease!LeaseInit, Proved!LeaseInit, Lease!NoLease, Proved!NoLease

(* Action by action: the same code over the same variables.                *)
LEMMA LeaseStepAgrees == Lease!LeaseStep => Proved!LeaseStep
<1> SUFFICES ASSUME Lease!LeaseStep PROVE Proved!LeaseStep
    OBVIOUS
<1>1. ASSUME NEW c \in Workers, Lease!AcquireRead(c) PROVE Proved!AcquireRead(c)
    BY <1>1, Zenon
       DEF Lease!AcquireRead, Proved!AcquireRead, Lease!Alive, Proved!Alive, Lease!InMemory,
           Proved!InMemory, Lease!Busy, Proved!Busy, Lease!Free, Proved!Free, Lease!Owns,
           Proved!Owns, Lease!Remember, Proved!Remember, Lease!NewCycle, Proved!NewCycle,
           Lease!HolderOf, Proved!HolderOf
<1>2. ASSUME NEW c \in Workers, Lease!AcquireInMemory(c) PROVE Proved!AcquireInMemory(c)
    BY <1>2, Zenon
       DEF Lease!AcquireInMemory, Proved!AcquireInMemory, Lease!Alive, Proved!Alive,
           Lease!InMemory, Proved!InMemory, Lease!Busy, Proved!Busy, Lease!Free,
           Proved!Free, Lease!Owns, Proved!Owns, Lease!Remember, Proved!Remember,
           Lease!NewCycle, Proved!NewCycle, Lease!HolderOf, Proved!HolderOf,
           Lease!TakeInMemory, Proved!TakeInMemory, Lease!Held, Proved!Held
<1>3. ASSUME NEW c \in Workers, Lease!Claim(c) PROVE Proved!Claim(c)
    BY <1>3, Zenon
       DEF Lease!Claim, Proved!Claim, Lease!Alive, Proved!Alive, Lease!HolderOf,
           Proved!HolderOf, Lease!Spent, Proved!Spent, Lease!Remember, Proved!Remember,
           Lease!Free, Proved!Free
<1>4. ASSUME NEW c \in Workers, Lease!Extend(c) PROVE Proved!Extend(c)
    BY <1>4, Zenon
       DEF Lease!Extend, Proved!Extend, Lease!Alive, Proved!Alive, Lease!Spent,
           Proved!Spent, Lease!Remember, Proved!Remember
<1>5. ASSUME NEW c \in Workers, Lease!FallBackToMemory(c) PROVE Proved!FallBackToMemory(c)
    BY <1>5, Zenon
       DEF Lease!FallBackToMemory, Proved!FallBackToMemory, Lease!Alive, Proved!Alive,
           Lease!TakeInMemory, Proved!TakeInMemory, Lease!Spent, Proved!Spent,
           Lease!Remember, Proved!Remember, Lease!Free, Proved!Free, Lease!Owns,
           Proved!Owns, Lease!Held, Proved!Held, Lease!HolderOf, Proved!HolderOf
<1>6. ASSUME NEW c \in Workers, Lease!ReleaseRead(c) PROVE Proved!ReleaseRead(c)
    BY <1>6, Zenon
       DEF Lease!ReleaseRead, Proved!ReleaseRead, Lease!Alive, Proved!Alive, Lease!InMemory,
           Proved!InMemory, Lease!Owns, Proved!Owns, Lease!HolderOf, Proved!HolderOf,
           Lease!Remember, Proved!Remember
<1>7. ASSUME NEW c \in Workers, Lease!ReleaseInMemory(c) PROVE Proved!ReleaseInMemory(c)
    BY <1>7, Zenon
       DEF Lease!ReleaseInMemory, Proved!ReleaseInMemory, Lease!Alive, Proved!Alive,
           Lease!InMemory, Proved!InMemory, Lease!Owns, Proved!Owns, Lease!HolderOf,
           Proved!HolderOf, Lease!NoLease, Proved!NoLease, Lease!Remember, Proved!Remember
<1>8. ASSUME NEW c \in Workers, Lease!ReleaseWrite(c) PROVE Proved!ReleaseWrite(c)
    BY <1>8, Zenon
       DEF Lease!ReleaseWrite, Proved!ReleaseWrite, Lease!Alive, Proved!Alive,
           Lease!Deleted, Proved!Deleted, Lease!NoLease, Proved!NoLease, Lease!Remember,
           Proved!Remember
<1>9. ASSUME NEW c \in Workers, Lease!BeatRead(c) PROVE Proved!BeatRead(c)
    BY <1>9, Zenon
       DEF Lease!BeatRead, Proved!BeatRead, Lease!Alive, Proved!Alive, Lease!InMemory,
           Proved!InMemory, Lease!Owns, Proved!Owns, Lease!HolderOf, Proved!HolderOf,
           Lease!Remember, Proved!Remember
<1>10. ASSUME NEW c \in Workers, Lease!BeatWrite(c) PROVE Proved!BeatWrite(c)
    BY <1>10, Zenon
       DEF Lease!BeatWrite, Proved!BeatWrite, Lease!Alive, Proved!Alive, Lease!Spent,
           Proved!Spent, Lease!Remember, Proved!Remember
<1>11. ASSUME NEW c \in Workers, Lease!BeatFails(c) PROVE Proved!BeatFails(c)
    BY <1>11, Zenon
       DEF Lease!BeatFails, Proved!BeatFails, Lease!Alive, Proved!Alive, Lease!Spent,
           Proved!Spent, Lease!Remember, Proved!Remember
<1>12. ASSUME NEW c \in Workers, Lease!BeatInMemory(c) PROVE Proved!BeatInMemory(c)
    BY <1>12, Zenon
       DEF Lease!BeatInMemory, Proved!BeatInMemory, Lease!Alive, Proved!Alive,
           Lease!InMemory, Proved!InMemory, Lease!Owns, Proved!Owns, Lease!HolderOf,
           Proved!HolderOf
<1>13. ASSUME NEW c \in Workers, Lease!ReleaseFails(c) PROVE Proved!ReleaseFails(c)
    BY <1>13, Zenon
       DEF Lease!ReleaseFails, Proved!ReleaseFails, Lease!Alive, Proved!Alive,
           Lease!InMemory, Proved!InMemory, Lease!Remember, Proved!Remember
<1>14. ASSUME NEW p \in Procs, Lease!RecoverCrashedLeases(p) PROVE Proved!RecoverCrashedLeases(p)
    BY <1>14, Zenon
       DEF Lease!RecoverCrashedLeases, Proved!RecoverCrashedLeases, Lease!Expired,
           Proved!Expired, Lease!NoLease, Proved!NoLease
<1>15. ASSUME NEW p \in Procs, Lease!Crash(p) PROVE Proved!Crash(p)
    BY <1>15, Zenon
       DEF Lease!Crash, Proved!Crash, Lease!NoLease, Proved!NoLease, Lease!Remember,
           Proved!Remember
<1>16. ASSUME Lease!Tick PROVE Proved!Tick
    BY <1>16, Zenon
       DEF Lease!Tick, Proved!Tick, Lease!Less, Proved!Less, Lease!Owns, Proved!Owns,
           Lease!HolderOf, Proved!HolderOf, Lease!Remember, Proved!Remember
<1> QED
    BY <1>1, <1>2, <1>3, <1>4, <1>5, <1>6, <1>7, <1>8, <1>9, <1>10, <1>11, <1>12, <1>13, <1>14,
       <1>15, <1>16
       DEF Lease!LeaseStep, Proved!LeaseStep, Lease!Start, Proved!Start, Lease!Write,
           Proved!Write, Lease!Finish, Proved!Finish

(* Work is a stutter of the lease.                                         *)
LEMMA RuntimeStepOfLease ==
    [RuntimeNext]_runtimeVars => [Lease!LeaseStep]_leaseVars
<1> SUFFICES ASSUME [RuntimeNext]_runtimeVars PROVE Lease!LeaseStep \/ UNCHANGED leaseVars
    OBVIOUS
<1>1. CASE AcquireOrBeat
    BY <1>1, Zenon DEF AcquireOrBeat, Lease!LeaseStep
<1>2. ASSUME NEW c \in Workers, EndWork(c) PROVE Lease!LeaseStep
    BY <1>2, Zenon DEF EndWork, Lease!LeaseStep
<1>3. ASSUME NEW c \in Workers, ReleaseDropped(c) PROVE Lease!LeaseStep
    BY <1>3, Zenon DEF ReleaseDropped, Lease!LeaseStep
<1>4. ASSUME NEW p \in Procs, ProcessDies(p) PROVE Lease!LeaseStep
    BY <1>4, Zenon DEF ProcessDies, Lease!LeaseStep
<1>5. CASE RuntimeTick
    BY <1>5, Zenon DEF RuntimeTick, Lease!LeaseStep
<1>6. ASSUME NEW c \in Workers, BeginWork(c) \/ DoWork(c) \/ AbortWork(c)
      PROVE  UNCHANGED leaseVars
    BY <1>6, Zenon DEF BeginWork, DoWork, AbortWork
<1>7. CASE UNCHANGED runtimeVars
    BY <1>7 DEF runtimeVars
<1> QED BY <1>1, <1>2, <1>3, <1>4, <1>5, <1>6, <1>7, Zenon DEF RuntimeNext

(* Acquiring, beating and releasing are stutters of the outbox.            *)
LEMMA RuntimeStepOfOutbox ==
    [RuntimeNext]_runtimeVars => [OutboxNext]_outboxVars
<1> SUFFICES ASSUME [RuntimeNext]_runtimeVars PROVE OutboxNext \/ UNCHANGED outboxVars
    OBVIOUS
<1>1. CASE AcquireOrBeat
    BY <1>1, Zenon DEF AcquireOrBeat
<1>2. ASSUME NEW c \in Workers, EndWork(c) \/ ReleaseDropped(c) PROVE UNCHANGED outboxVars
    BY <1>2, Zenon DEF EndWork, ReleaseDropped
<1>3. ASSUME NEW c \in Workers, BeginWork(c) \/ DoWork(c) PROVE OutboxNext
    BY <1>3, Zenon DEF BeginWork, DoWork, OutboxNext
<1>4. ASSUME NEW c \in Workers, AbortWork(c) PROVE OutboxNext
    BY <1>4 DEF AbortWork, OutboxNext
<1>5. ASSUME NEW p \in Procs, ProcessDies(p) PROVE OutboxNext \/ UNCHANGED outboxVars
    <2>1. CyclesOf(p) \in SUBSET Workers
        BY DEF CyclesOf
    <2> QED BY <1>5, <2>1, Zenon DEF ProcessDies, OutboxNext
<1>6. CASE RuntimeTick
    BY <1>6, Zenon DEF RuntimeTick, OutboxNext
<1>7. CASE UNCHANGED runtimeVars
    BY <1>7 DEF runtimeVars
<1> QED BY <1>1, <1>2, <1>3, <1>4, <1>5, <1>6, <1>7, Zenon DEF RuntimeNext, OutboxNext

(* The runtime is an outbox: what is proved of Outbox alone, for cycles    *)
(* that nothing keeps apart, holds under the lease as well.                *)
THEOREM RuntimeImplementsOutbox == RuntimeSpec => OutboxSpec
BY RuntimeStepOfOutbox, PTL DEF RuntimeSpec, RuntimeInit, OutboxSpec

(* And it is a lease: the work between acquiring and releasing disturbs    *)
(* nothing that the lease relies on.                                       *)
THEOREM RuntimeImplementsLease == RuntimeSpec => Lease!LeaseSpec
<1>1. [Lease!LeaseStep]_leaseVars => [Lease!LeaseStep]_(Lease!leaseVars)
    BY DEF leaseVars, Lease!leaseVars
<1> QED BY <1>1, RuntimeStepOfLease, PTL DEF RuntimeSpec, RuntimeInit, Lease!LeaseSpec

(***************************************************************************)
(* Cycles with events in hand have begun their work, and who has begun     *)
(* runs under the lease.                                                   *)
(***************************************************************************)
WorkIsLeased ==
    /\ \A c \in Workers : stage[c] # "idle" => c \in worked
    /\ \A c \in worked : c \in Workers /\ pc[c] = "running"

RuntimeInvariant == Proved!LeaseInvariant /\ OutboxTypeOK /\ WorkIsLeased

LEMMA RuntimeInvariantInit == RuntimeInit => RuntimeInvariant
<1> SUFFICES ASSUME RuntimeInit PROVE RuntimeInvariant
    OBVIOUS
<1>1. Proved!LeaseInvariant
    BY LeaseConstantsHold, LeaseInitAgrees, Proved!LeaseInvariantInit DEF RuntimeInit
<1>2. OutboxTypeOK
    BY OutboxTypeInit DEF RuntimeInit
<1>3. WorkIsLeased
    BY DEF RuntimeInit, OutboxInit, WorkIsLeased
<1> QED BY <1>1, <1>2, <1>3 DEF RuntimeInvariant

(* The lease's steps besides those that end a cycle let who runs run on.   *)
LEMMA RunnersRunOn ==
    ASSUME Proved!LeaseTypeOK, AcquireOrBeat, NEW d \in Workers, pc[d] = "running"
    PROVE  pc'[d] = "running"
<1> USE DEF Proved!LeaseTypeOK
<1>1. ASSUME NEW c \in Workers, Lease!Start(c) PROVE pc'[d] = "running"
    BY <1>1 DEF Lease!Start, Lease!AcquireRead, Lease!AcquireInMemory, Lease!TakeInMemory,
                Lease!NewCycle, Lease!Busy
<1>2. ASSUME NEW c \in Workers, Lease!Write(c) PROVE pc'[d] = "running"
    BY <1>2 DEF Lease!Write, Lease!Claim, Lease!Extend, Lease!FallBackToMemory,
                Lease!ReleaseWrite, Lease!TakeInMemory
<1>3. ASSUME NEW c \in Workers,
             Lease!BeatRead(c) \/ Lease!BeatWrite(c) \/ Lease!BeatFails(c) \/ Lease!BeatInMemory(c)
      PROVE  pc'[d] = "running"
    BY <1>3 DEF Lease!BeatRead, Lease!BeatWrite, Lease!BeatFails, Lease!BeatInMemory
<1>4. ASSUME NEW p \in Procs, Lease!RecoverCrashedLeases(p) PROVE pc'[d] = "running"
    BY <1>4 DEF Lease!RecoverCrashedLeases
<1> QED BY <1>1, <1>2, <1>3, <1>4 DEF AcquireOrBeat

(* A step of a cycle's work moves no other cycle.                          *)
LEMMA WorkIsOwn ==
    ASSUME OutboxTypeOK, NEW c \in Workers, NEW d \in Workers, d # c,
           Recover(c) \/ Work(c) \/ FallbackRead(c) \/ AnswerLost(c) \/ MarkFails(c)
    PROVE  stage'[d] = stage[d]
BY DEF OutboxTypeOK, Recover, Work, Claim, FallbackRead, FallbackTake, FallbackDone, Take, Deliver,
       DeliveryIgnored, AnswerLost, DeliveryFails, MarkProcessed, MarkFails, RecordFailure, cycles

(* A cycle begins its work under the lease and ends it before it releases. *)
LEMMA WorkStaysLeased ==
    RuntimeInvariant /\ [RuntimeNext]_runtimeVars => WorkIsLeased'
<1> SUFFICES ASSUME RuntimeInvariant, [RuntimeNext]_runtimeVars PROVE WorkIsLeased'
    OBVIOUS
<1>0. Proved!LeaseTypeOK /\ OutboxTypeOK /\ WorkIsLeased
    BY DEF RuntimeInvariant, Proved!LeaseInvariant
<1> USE <1>0 DEF WorkIsLeased
<1>1. CASE AcquireOrBeat
    <2>1. UNCHANGED <<stage, worked>>
        BY <1>1 DEF AcquireOrBeat, outboxVars, cycles
    <2> QED BY <1>1, <2>1, RunnersRunOn
<1>2. ASSUME NEW c \in Workers, BeginWork(c) PROVE WorkIsLeased'
    <2>1. \A d \in Workers : d # c => stage'[d] = stage[d]
        BY <1>2, WorkIsOwn DEF BeginWork
    <2> QED BY <1>2, <2>1 DEF BeginWork, leaseVars
<1>3. ASSUME NEW c \in Workers, DoWork(c) PROVE WorkIsLeased'
    <2>1. \A d \in Workers : d # c => stage'[d] = stage[d]
        BY <1>3, WorkIsOwn DEF DoWork
    <2> QED BY <1>3, <2>1 DEF DoWork, leaseVars
<1>4. ASSUME NEW c \in Workers, AbortWork(c) PROVE WorkIsLeased'
    BY <1>4 DEF AbortWork, StopCycles, leaseVars
<1>5. ASSUME NEW c \in Workers, EndWork(c) PROVE WorkIsLeased'
    <2>1. /\ \A d \in Workers : d # c => pc'[d] = pc[d]
          /\ stage' = stage /\ stage[c] = "idle" /\ worked' = worked \ {c}
        BY <1>5
           DEF EndWork, WorkEnded, Lease!Finish, Lease!ReleaseRead, Lease!ReleaseInMemory,
               Lease!ReleaseFails, Proved!LeaseTypeOK, outboxVars, cycles
    <2> QED BY <2>1
<1>6. ASSUME NEW c \in Workers, ReleaseDropped(c) PROVE WorkIsLeased'
    <2>1. /\ \A d \in Workers : pc[d] = "running" => pc'[d] = pc[d]
          /\ stage' = stage /\ worked' = worked
        BY <1>6
           DEF ReleaseDropped, Lease!ReleaseFails, Proved!LeaseTypeOK, outboxVars, cycles
    <2> QED BY <2>1
<1>7. ASSUME NEW p \in Procs, ProcessDies(p) PROVE WorkIsLeased'
    <2>1. \A d \in Workers : d \notin CyclesOf(p) => pc'[d] = pc[d]
        BY <1>7 DEF ProcessDies, Lease!Crash, CyclesOf
    <2>2. \A d \in Workers : stage'[d] # "idle" => stage[d] # "idle" /\ d \notin CyclesOf(p)
        <3>1. CASE \E c \in CyclesOf(p) : stage[c] # "idle"
            BY <1>7, <3>1 DEF ProcessDies, StopCycles
        <3>2. CASE ~\E c \in CyclesOf(p) : stage[c] # "idle"
            BY <1>7, <3>2 DEF ProcessDies, outboxVars, cycles
        <3> QED BY <3>1, <3>2
    <2>3. worked' = worked \ CyclesOf(p)
        BY <1>7 DEF ProcessDies
    <2> QED BY <2>1, <2>2, <2>3
<1>8. CASE UNCHANGED <<pc, stage, worked>>
    BY <1>8
<1>9. CASE Others /\ UNCHANGED <<leaseVars, worked>>
    BY <1>9, <1>8
       DEF Others, Emit, BackoffEnds, GrowOld, RequeueRead, RequeueWrite, cycles, leaseVars
<1>10. CASE RuntimeTick
    BY <1>10, <1>8 DEF RuntimeTick, Lease!Tick, OutboxTick, cycles
<1>11. CASE UNCHANGED runtimeVars
    BY <1>11, <1>8 DEF runtimeVars, outboxVars, cycles, leaseVars
<1> QED
    BY <1>1, <1>2, <1>3, <1>4, <1>5, <1>6, <1>7, <1>9, <1>10, <1>11, Zenon DEF RuntimeNext

LEMMA RuntimeInvariantPreserved ==
    RuntimeInvariant /\ [RuntimeNext]_runtimeVars => RuntimeInvariant'
<1> SUFFICES ASSUME RuntimeInvariant, [RuntimeNext]_runtimeVars PROVE RuntimeInvariant'
    OBVIOUS
<1>1. [Proved!LeaseStep]_(Proved!leaseVars)
    BY RuntimeStepOfLease, LeaseStepAgrees DEF leaseVars, Proved!leaseVars
<1>2. Proved!LeaseInvariant'
    BY <1>1, LeaseConstantsHold, Proved!LeaseInvariantPreserved DEF RuntimeInvariant
<1>3. OutboxTypeOK'
    BY RuntimeStepOfOutbox, OutboxTypePreserved DEF RuntimeInvariant
<1> QED BY <1>2, <1>3, WorkStaysLeased DEF RuntimeInvariant

(* A set in which no two elements differ has one at most.                  *)
LEMMA AtMostOneElement ==
    ASSUME NEW S, \A x, y \in S : x = y PROVE Cardinality(S) <= 1
<1>1. CASE S = {}
    BY <1>1, FS_EmptySet
<1>2. ASSUME NEW x \in S PROVE Cardinality(S) <= 1
    <2>1. S = {x}
        OBVIOUS
    <2> QED BY <2>1, FS_Singleton
<1> QED BY <1>1, <1>2

(* As long as nothing has gone wrong with the lease, no two cycles have    *)
(* events in hand, whatever the number of processes.                       *)
THEOREM OneCycleHasEvents == RuntimeSpec => []OneCycleAtWork
<1>1. RuntimeInvariant => OneCycleAtWork
    <2> DEFINE Acting == {c \in Workers : stage[c] # "idle"}
    <2> SUFFICES ASSUME RuntimeInvariant, ~mishap PROVE Cardinality(Acting) <= 1
        BY DEF OneCycleAtWork
    <2>1. \A c \in Acting : Proved!AtWork(c)
        BY DEF RuntimeInvariant, WorkIsLeased, Proved!AtWork
    <2>2. \A c, d \in Acting : c = d
        BY <2>1 DEF RuntimeInvariant, Proved!LeaseInvariant, Proved!WorkersOwnTheLease
    <2> QED BY <2>2, AtMostOneElement
<1> QED BY <1>1, RuntimeInvariantInit, RuntimeInvariantPreserved, PTL DEF RuntimeSpec
=============================================================================
