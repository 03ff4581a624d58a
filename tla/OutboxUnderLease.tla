--------------------------- MODULE OutboxUnderLease ---------------------------
(***************************************************************************)
(* The outbox consumer as it runs: OutboxConsumer.processPendingEvents     *)
(* calls WorkerLeaseService.withLease around executeProcessingCycle. The   *)
(* composition of Outbox and WorkerLease: a cycle of Outbox runs while the *)
(* lease's cycle of the same name is "running", the lease is released when *)
(* the work has ended, time passes for both, and a process that dies takes *)
(* with it all its cycles.                                                 *)
(***************************************************************************)
EXTENDS Outbox

CONSTANTS
  Procs, ProcOf, SharedIds, Mortal, TTL, MaxDbErrors, NoHolder,
  MaxTrouble      \* bound on failures of the two parts together

VARIABLES
  lease, memory, inMemory, pc, budget, beat, beatLeft, dead, dbErrors, mishap,
  worked     \* cycles that have begun their work under the present lease

Lease == INSTANCE WorkerLease WITH Cycles <- Workers

ASSUME RuntimeAssumption == Lease!LeaseAssumption /\ MaxTrouble \in Nat

leaseVars == <<lease, memory, inMemory, pc, budget, beat, beatLeft, dead,
               dbErrors, mishap>>
runtimeVars == <<outboxVars, leaseVars, worked>>

(***************************************************************************)
(* Faulty variant: withLease's fn is not awaited, so that the lease is     *)
(* released while the work goes on.                                        *)
(***************************************************************************)
NotAwaited(c) == c \in worked

-----------------------------------------------------------------------------
RuntimeInit ==
  /\ OutboxInit
  /\ Lease!LeaseInit
  /\ worked = {}

\* withLease's await fn().
WorkEnded(c) == c \in worked /\ stage[c] = "idle"

\* The lease's own steps while the work of the cycles stands still.
AcquireOrBeat ==
  /\ \/ \E c \in Workers :
          \/ Lease!Start(c) \/ Lease!Write(c)
          \/ Lease!BeatRead(c) \/ Lease!BeatWrite(c) \/ Lease!BeatFails(c)
          \/ Lease!BeatInMemory(c)
     \/ \E p \in Procs : Lease!RecoverCrashedLeases(p)
  /\ UNCHANGED <<outboxVars, worked>>

\* The work begins once the lease is taken.
BeginWork(c) ==
  /\ pc[c] = "running"
  /\ c \notin worked
  /\ Recover(c)
  /\ worked' = worked \cup {c}
  /\ UNCHANGED leaseVars

DoWork(c) ==
  /\ c \in worked
  /\ Work(c) \/ FallbackRead(c) \/ AnswerLost(c) \/ MarkFails(c)
  /\ UNCHANGED <<leaseVars, worked>>

\* executeProcessingCycle's outer catch: the error is logged and the cycle
\* returns, to release the lease.
AbortWork(c) ==
  /\ c \in worked
  /\ stage[c] # "idle"
  /\ StopCycles({c})
  /\ UNCHANGED <<leaseVars, worked>>

\* withLease's finally.
EndWork(c) ==
  /\ WorkEnded(c)
  /\ Lease!Finish(c) \/ (pc[c] = "running" /\ Lease!ReleaseFails(c))
  /\ worked' = worked \ {c}
  /\ UNCHANGED outboxVars

ReleaseDropped(c) ==
  /\ pc[c] = "releasing"
  /\ Lease!ReleaseFails(c)
  /\ UNCHANGED <<outboxVars, worked>>

CyclesOf(p) == {c \in Workers : ProcOf[c] = p}

\* A process dies: with cycles at work, or between them.
ProcessDies(p) ==
  /\ Lease!Crash(p)
  /\ IF \E c \in CyclesOf(p) : stage[c] # "idle"
     THEN StopCycles(CyclesOf(p)) ELSE UNCHANGED outboxVars
  /\ worked' = worked \ CyclesOf(p)

RuntimeTick == Lease!Tick /\ OutboxTick /\ UNCHANGED worked

RuntimeNext ==
  /\ \/ AcquireOrBeat
     \/ \E c \in Workers :
          \/ BeginWork(c) \/ DoWork(c) \/ AbortWork(c)
          \/ EndWork(c) \/ ReleaseDropped(c)
     \/ \E p \in Procs : ProcessDies(p)
     \/ Others /\ UNCHANGED <<leaseVars, worked>>
     \/ RuntimeTick
  /\ faults' + dbErrors' <= MaxTrouble
  /\ Cardinality(dead') + dbErrors' <= MaxTrouble

RuntimeSpec == RuntimeInit /\ [][RuntimeNext]_runtimeVars

\* The fairness of the two parts, and nothing of the two together: timers
\* fire, statements return, work goes on in processes that live.
RuntimeFairness ==
  /\ WF_runtimeVars(RuntimeTick)
  /\ \A c \in Workers :
       /\ WF_runtimeVars(Lease!Start(c) /\ UNCHANGED <<outboxVars, worked>>)
       /\ WF_runtimeVars(Lease!Write(c) /\ UNCHANGED <<outboxVars, worked>>)
       /\ WF_runtimeVars(Lease!BeatWrite(c) /\ UNCHANGED <<outboxVars, worked>>)
       /\ WF_runtimeVars(BeginWork(c))
       /\ WF_runtimeVars(Work(c) /\ UNCHANGED <<leaseVars, worked>>)
       /\ WF_runtimeVars(EndWork(c))
  /\ \A e \in Events :
       WF_runtimeVars(BackoffEnds(e) /\ UNCHANGED <<leaseVars, worked>>)

FairRuntimeSpec == RuntimeSpec /\ RuntimeFairness

-----------------------------------------------------------------------------
\* What the lease adds to the outbox: as long as nothing has gone wrong with
\* it, no two cycles have events in hand at the same time.
OneCycleAtWork ==
  ~mishap /\ (\A c \in Lease!Running : ~Lease!InMemory(c)) =>
    Cardinality({c \in Workers : stage[c] # "idle"}) <= 1

\* No event is stranded by a process that dies with the lease and the event:
\* lease expiry and stale recovery together bring it back.
EventsSurviveWorkerDeath ==
  \A e \in Events :
    status[e] \in {"PENDING", "PROCESSING"} ~> status[e] \in {"PROCESSED", "DEAD_LETTER"}
=============================================================================
