----------------------------- MODULE WorkerLease -----------------------------
(***************************************************************************)
(* The database lease that worker cycles take before they run:             *)
(* src/domains/events/WorkerLeaseService.ts, for one resource.             *)
(*                                                                         *)
(* withLease acquires, runs the task under a heartbeat timer, and releases.*)
(* Acquiring, renewing and releasing each read the lease row first and     *)
(* write it in a second statement, and no write looks at what the row has  *)
(* become in between; so each is two actions. Times are relative: a lease  *)
(* is left to live for a number of ticks, and a write carries the number   *)
(* of ticks that remain of the expiry it computed before its read.         *)
(*                                                                         *)
(* The version column is written and never read, so it is left out.        *)
(***************************************************************************)
EXTENDS Naturals, FiniteSets

CONSTANTS
  Cycles,      \* calls of withLease that can be in progress at once
  Procs,       \* operating-system processes
  ProcOf,      \* the process each cycle runs in
  SharedIds,   \* processes whose cycles all give the process's holderId
  Mortal,      \* bound: processes that may die (they do not come back)
  TTL,         \* ticks a lease lives without a heartbeat
  MaxDbErrors, \* bound: database statements that fail
  NoHolder     \* holder of a row that does not exist

ASSUME LeaseAssumption ==
  /\ ProcOf \in [Cycles -> Procs]
  /\ SharedIds \subseteq Procs
  /\ Mortal \subseteq Procs
  /\ TTL \in Nat \ {0}
  /\ MaxDbErrors \in Nat
  /\ Cycles \cap Procs = {}
  /\ NoHolder \notin Cycles \cup Procs

VARIABLES
  lease,     \* the WorkerLease row: its holder and the ticks it has left
  memory,    \* per process: inMemoryLeases, same shape
  inMemory,  \* processes with forceInMemory
  pc,        \* per cycle: where withLease is
  budget,    \* per cycle: ticks left of the expiry its acquire will write
  beat,      \* cycles whose heartbeat has read the row and not written it
  beatLeft,  \* per cycle: ticks left of the expiry its heartbeat will write
  dead,      \* processes that have died
  dbErrors,  \* statements that have failed
  mishap     \* auxiliary: something has gone wrong since no cycle was at work

leaseVars == <<lease, memory, inMemory, pc, budget, beat, beatLeft, dead,
               dbErrors, mishap>>

Holders == Cycles \cup Procs
LeaseRow == [holder : Holders \cup {NoHolder}, left : 0..TTL]

\* worker-entrypoint.ts gives one workerNodeId to all its cycles; the cron
\* route and instrumentation.ts give each cycle a fresh random id.
HolderOf(c) == IF ProcOf[c] \in SharedIds THEN ProcOf[c] ELSE c

NoLease == [holder |-> NoHolder, left |-> 0]

Alive(c) == ProcOf[c] \notin dead
InMemory(c) == ProcOf[c] \in inMemory
Busy(c) == pc[c] # "idle" \/ c \in beat
Running == {c \in Cycles : pc[c] = "running"}

(***************************************************************************)
(* Faulty variants of definitions below, each noticed by a property.       *)
(***************************************************************************)

\* recoverCrashedLeases deletes without its WHERE.
AnyLease(row) == TRUE

\* withLease's finally without the release.
KeptLease == lease

-----------------------------------------------------------------------------
\* acquireLease's test: no row, or expiresAt <= now.
Free(row, c) == row.holder = NoHolder \/ row.left = 0

\* recoverCrashedLeases: expiresAt < now.
Expired(row) == row.holder # NoHolder /\ row.left = 0

\* The holder comparison of renewLease and releaseLease.
Owns(row, c) == row.holder = HolderOf(c)

\* The row after delete.
Deleted == NoLease

\* What a statement in flight carried is used up.
Spent(f, c) == [f EXCEPT ![c] = 0]

Held(c) == [holder |-> HolderOf(c), left |-> TTL]

-----------------------------------------------------------------------------
LeaseInit ==
  /\ lease = NoLease
  /\ memory = [p \in Procs |-> NoLease]
  /\ inMemory = {}
  /\ pc = [c \in Cycles |-> "idle"]
  /\ budget = [c \in Cycles |-> 0]
  /\ beat = {}
  /\ beatLeft = [c \in Cycles |-> 0]
  /\ dead = {}
  /\ dbErrors = 0
  /\ mishap = FALSE

\* A mishap is remembered until every cycle is idle again.
Remember(happened) ==
  mishap' = /\ mishap \/ happened
            /\ \E c \in Cycles : pc'[c] # "idle" \/ c \in beat'

\* A slot takes up a new cycle. Its random holderId never owns a live row that
\* a former cycle of the slot has left behind.
NewCycle(c) ==
  /\ Alive(c)
  /\ ~Busy(c)
  /\ ProcOf[c] \notin SharedIds =>
       \A row \in {lease, memory[ProcOf[c]]} : Owns(row, c) => row.left = 0

\* acquireLease, findUnique: the lease is free, or the caller has it.
AcquireRead(c) ==
  /\ NewCycle(c)
  /\ ~InMemory(c)
  /\ \/ Free(lease, c) /\ pc' = [pc EXCEPT ![c] = "claiming"]
     \/ /\ ~Free(lease, c)
        /\ Owns(lease, c)
        /\ pc' = [pc EXCEPT ![c] = "extending"]
  /\ budget' = [budget EXCEPT ![c] = TTL]
  /\ UNCHANGED <<lease, memory, inMemory, beat, beatLeft, dead, dbErrors>>
  /\ Remember(FALSE)

\* acquireLease, upsert: it takes the row whoever has it by now.
Claim(c) ==
  /\ Alive(c)
  /\ pc[c] = "claiming"
  /\ lease' = [holder |-> HolderOf(c), left |-> budget[c]]
  /\ pc' = [pc EXCEPT ![c] = "running"]
  /\ budget' = Spent(budget, c)
  /\ UNCHANGED <<memory, inMemory, beat, beatLeft, dead, dbErrors>>
  /\ Remember(~Free(lease, c) \/ budget[c] = 0)

\* acquireLease, the update of a row the caller has: the holder stays.
Extend(c) ==
  /\ Alive(c)
  /\ pc[c] = "extending"
  /\ lease.holder # NoHolder
  /\ lease' = [lease EXCEPT !.left = budget[c]]
  /\ pc' = [pc EXCEPT ![c] = "running"]
  /\ budget' = Spent(budget, c)
  /\ UNCHANGED <<memory, inMemory, beat, beatLeft, dead, dbErrors>>
  /\ Remember(TRUE)

\* acquireLease in memory.
TakeInMemory(c) ==
  LET p == ProcOf[c] IN
  IF Free(memory[p], c) \/ Owns(memory[p], c)
  THEN /\ memory' = [memory EXCEPT ![p] = Held(c)]
       /\ pc' = [pc EXCEPT ![c] = "running"]
  ELSE /\ memory' = memory
       /\ pc' = [pc EXCEPT ![c] = "idle"]

AcquireInMemory(c) ==
  /\ NewCycle(c)
  /\ InMemory(c)
  /\ Free(memory[ProcOf[c]], c) \/ Owns(memory[ProcOf[c]], c)
  /\ TakeInMemory(c)
  /\ UNCHANGED <<lease, inMemory, budget, beat, beatLeft, dead, dbErrors>>
  /\ Remember(TRUE)

\* acquireLease's catch: the process stops using the database for its
\* leases, for good. An update of a row deleted meanwhile throws too.
FallBackToMemory(c) ==
  /\ Alive(c)
  /\ \/ pc[c] = "extending" /\ lease.holder = NoHolder /\ dbErrors' = dbErrors
     \/ /\ pc[c] \in {"claiming", "extending"}
        /\ dbErrors < MaxDbErrors
        /\ dbErrors' = dbErrors + 1
  /\ inMemory' = inMemory \cup {ProcOf[c]}
  /\ TakeInMemory(c)
  /\ budget' = Spent(budget, c)
  /\ UNCHANGED <<lease, beat, beatLeft, dead>>
  /\ Remember(TRUE)

\* renewLease, findUnique: the row is the caller's and live.
BeatRead(c) ==
  /\ Alive(c)
  /\ pc[c] = "running"
  /\ ~InMemory(c)
  /\ c \notin beat
  /\ Owns(lease, c)
  /\ lease.left > 0
  /\ beat' = beat \cup {c}
  /\ beatLeft' = [beatLeft EXCEPT ![c] = TTL]
  /\ UNCHANGED <<lease, memory, inMemory, pc, budget, dead, dbErrors>>
  /\ Remember(FALSE)

\* renewLease, update: by resource name. It runs on after the cycle's end
\* (clearInterval does not stop it); without a row it throws, which is caught.
BeatWrite(c) ==
  /\ Alive(c)
  /\ c \in beat
  /\ lease' = IF lease.holder = NoHolder THEN lease
              ELSE [lease EXCEPT !.left = beatLeft[c]]
  /\ beat' = beat \ {c}
  /\ beatLeft' = Spent(beatLeft, c)
  /\ UNCHANGED <<memory, inMemory, pc, budget, dead, dbErrors>>
  /\ Remember(beatLeft[c] = 0)

\* A renewal that fails: the error is caught and nothing is written.
BeatFails(c) ==
  /\ Alive(c)
  /\ c \in beat
  /\ dbErrors < MaxDbErrors
  /\ dbErrors' = dbErrors + 1
  /\ beat' = beat \ {c}
  /\ beatLeft' = Spent(beatLeft, c)
  /\ UNCHANGED <<lease, memory, inMemory, pc, budget, dead>>
  /\ Remember(FALSE)

\* renewLease in memory.
BeatInMemory(c) ==
  /\ Alive(c)
  /\ pc[c] = "running"
  /\ InMemory(c)
  /\ LET p == ProcOf[c] IN
       /\ Owns(memory[p], c)
       /\ memory[p].left \in 1..(TTL - 1)
       /\ memory' = [memory EXCEPT ![p].left = TTL]
  /\ UNCHANGED <<lease, inMemory, pc, budget, beat, beatLeft, dead, dbErrors,
                 mishap>>

\* The task is done: releaseLease, findUnique. Without a row of its own the
\* caller has nothing to delete.
ReleaseRead(c) ==
  /\ Alive(c)
  /\ pc[c] = "running"
  /\ ~InMemory(c)
  /\ pc' = [pc EXCEPT ![c] = IF Owns(lease, c) THEN "releasing" ELSE "idle"]
  /\ UNCHANGED <<lease, memory, inMemory, budget, beat, beatLeft, dead, dbErrors>>
  /\ Remember(FALSE)

\* releaseLease, delete: by resource name.
ReleaseWrite(c) ==
  /\ Alive(c)
  /\ pc[c] = "releasing"
  /\ lease' = Deleted
  /\ pc' = [pc EXCEPT ![c] = "idle"]
  /\ UNCHANGED <<memory, inMemory, budget, beat, beatLeft, dead, dbErrors>>
  /\ Remember(FALSE)

\* A release that fails: the row stays until it expires.
ReleaseFails(c) ==
  /\ Alive(c)
  /\ pc[c] \in {"running", "releasing"}
  /\ ~InMemory(c)
  /\ dbErrors < MaxDbErrors
  /\ dbErrors' = dbErrors + 1
  /\ pc' = [pc EXCEPT ![c] = "idle"]
  /\ UNCHANGED <<lease, memory, inMemory, budget, beat, beatLeft, dead>>
  /\ Remember(FALSE)

\* releaseLease in memory: a lease that the process holds in the database
\* is left there.
ReleaseInMemory(c) ==
  /\ Alive(c)
  /\ pc[c] = "running"
  /\ InMemory(c)
  /\ LET p == ProcOf[c] IN
       memory' = IF Owns(memory[p], c) THEN [memory EXCEPT ![p] = NoLease]
                 ELSE memory
  /\ pc' = [pc EXCEPT ![c] = "idle"]
  /\ UNCHANGED <<lease, inMemory, budget, beat, beatLeft, dead, dbErrors>>
  /\ Remember(FALSE)

\* recoverCrashedLeases, in the database or, for a process that has left
\* it, in memory.
RecoverCrashedLeases(p) ==
  /\ p \notin dead
  /\ \/ /\ p \notin inMemory
        /\ Expired(lease)
        /\ lease' = NoLease
        /\ memory' = memory
     \/ /\ p \in inMemory
        /\ Expired(memory[p])
        /\ memory' = [memory EXCEPT ![p] = NoLease]
        /\ lease' = lease
  /\ UNCHANGED <<inMemory, pc, budget, beat, beatLeft, dead, dbErrors, mishap>>

\* A process dies with everything it had in flight.
Crash(p) ==
  /\ p \in Mortal \ dead
  /\ dead' = dead \cup {p}
  /\ pc' = [c \in Cycles |-> IF ProcOf[c] = p THEN "idle" ELSE pc[c]]
  /\ beat' = {c \in beat : ProcOf[c] # p}
  /\ memory' = [memory EXCEPT ![p] = NoLease]
  /\ budget' = [c \in Cycles |-> IF ProcOf[c] = p THEN 0 ELSE budget[c]]
  /\ beatLeft' = [c \in Cycles |-> IF ProcOf[c] = p THEN 0 ELSE beatLeft[c]]
  /\ UNCHANGED <<lease, inMemory, dbErrors>>
  /\ Remember(FALSE)

Less(n) == IF n = 0 THEN 0 ELSE n - 1

\* Time passes. A lease that runs out while a cycle of its holder is at work
\* is a mishap: the heartbeat came late, or not at all.
Tick ==
  /\ lease' = [lease EXCEPT !.left = Less(@)]
  /\ memory' = [p \in Procs |-> [memory[p] EXCEPT !.left = Less(@)]]
  /\ budget' = [c \in Cycles |-> Less(budget[c])]
  /\ beatLeft' = [c \in Cycles |-> Less(beatLeft[c])]
  /\ UNCHANGED <<inMemory, pc, beat, dead, dbErrors>>
  /\ Remember(\E c \in Cycles : /\ pc[c] \in {"running", "releasing"}
                                /\ Owns(lease, c)
                                /\ lease.left = 1)

Start(c) == AcquireRead(c) \/ AcquireInMemory(c)
Write(c) == Claim(c) \/ Extend(c) \/ FallBackToMemory(c) \/ ReleaseWrite(c)
Finish(c) == ReleaseRead(c) \/ ReleaseInMemory(c)

LeaseStep ==
  \/ \E c \in Cycles :
       \/ Start(c) \/ Write(c) \/ Finish(c)
       \/ BeatRead(c) \/ BeatWrite(c) \/ BeatFails(c) \/ BeatInMemory(c)
       \/ ReleaseFails(c)
  \/ \E p \in Procs : RecoverCrashedLeases(p) \/ Crash(p)
  \/ Tick

LeaseSpec == LeaseInit /\ [][LeaseStep]_leaseVars

-----------------------------------------------------------------------------
LeaseTypeOK ==
  /\ lease \in LeaseRow
  /\ memory \in [Procs -> LeaseRow]
  /\ inMemory \subseteq Procs
  /\ pc \in [Cycles -> {"idle", "claiming", "extending", "running", "releasing"}]
  /\ budget \in [Cycles -> 0..TTL]
  /\ beat \subseteq Cycles
  /\ beatLeft \in [Cycles -> 0..TTL]
  /\ dead \subseteq Procs
  /\ dbErrors \in 0..MaxDbErrors
  /\ mishap \in BOOLEAN

\* What the lease gives, which is not the atomic acquisition its comment speaks
\* of: two cycles run at once only if, since all were
\* last idle, two of them read the free row before either wrote it, a lease
\* ran out under its holder, one process started a second cycle under its
\* own holderId, or a process gave up the database.
ExclusionUnlessMishap == Cardinality(Running) > 1 => mishap

\* A cycle that has ended leaves no live lease behind to block the others,
\* unless its process died or left the database, or a statement failed.
NoOrphanLease ==
  lease.holder # NoHolder /\ lease.left > 0 =>
    \/ \E c \in Cycles : Owns(lease, c) /\ Busy(c)
    \/ \E c \in Cycles : Owns(lease, c) /\ (~Alive(c) \/ InMemory(c))
    \/ dbErrors > 0
=============================================================================
