------------------------------ MODULE LeaseProofs ------------------------------
(***************************************************************************)
(* Proofs about WorkerLease, for every number of cycles and processes, and *)
(* every time-to-live.                                                     *)
(*                                                                         *)
(* The argument for exclusion: as long as there is no mishap, whoever is   *)
(* at work has the row, live, and is alone. A claim of a free row finds    *)
(* nobody at work; a row runs out under its holder only with a mishap; and *)
(* a mishap is forgotten only when nobody is at work.                      *)
(***************************************************************************)
EXTENDS WorkerLease, FiniteSetTheorems, TLAPS

AtWork(c) == pc[c] \in {"running", "releasing"}

(* Who is at work has the lease to himself, and nobody does without the    *)
(* database.                                                               *)
WorkersOwnTheLease ==
    ~mishap => \A c \in Cycles :
        /\ pc[c] # "idle" => ~InMemory(c)
        /\ AtWork(c) => /\ Owns(lease, c) /\ lease.left > 0
                        /\ \A d \in Cycles : AtWork(d) => d = c

(* A row belongs to a cycle at work, or to one that cannot delete it.      *)
RowsHaveOwners ==
    lease.holder # NoHolder =>
        \/ dbErrors > 0
        \/ \E c \in Cycles : Owns(lease, c) /\ (AtWork(c) \/ ~Alive(c) \/ InMemory(c))

LeaseInvariant == LeaseTypeOK /\ WorkersOwnTheLease /\ RowsHaveOwners

LEMMA LeaseConstants ==
    /\ \A c \in Cycles : ProcOf[c] \in Procs /\ HolderOf(c) \in Holders
    /\ TTL \in Nat /\ TTL > 0 /\ MaxDbErrors \in Nat
    /\ NoHolder \notin Holders /\ Mortal \subseteq Procs
BY LeaseAssumption DEF HolderOf, Holders

LEMMA LeaseInvariantInit == LeaseInit => LeaseInvariant
<1> SUFFICES ASSUME LeaseInit PROVE LeaseInvariant
    OBVIOUS
<1>1. NoLease \in LeaseRow /\ 0 \in 0..TTL /\ 0 \in 0..MaxDbErrors
    BY LeaseConstants DEF NoLease, LeaseRow
<1>2. LeaseTypeOK
    BY <1>1 DEF LeaseInit, LeaseTypeOK
<1>3. WorkersOwnTheLease /\ RowsHaveOwners
    BY DEF LeaseInit, NoLease, WorkersOwnTheLease, AtWork, RowsHaveOwners
<1> QED BY <1>2, <1>3 DEF LeaseInvariant

(* What acquireLease leaves in memory.                                     *)
LEMMA MemoryTyped ==
    ASSUME LeaseTypeOK, NEW c \in Cycles, TakeInMemory(c)
    PROVE  /\ memory' \in [Procs -> LeaseRow]
           /\ pc' \in [Cycles -> {"idle", "claiming", "extending", "running", "releasing"}]
<1>1. Held(c) \in LeaseRow
    BY LeaseConstants DEF Held, LeaseRow
<1> QED BY <1>1 DEF TakeInMemory, LeaseTypeOK

(* A tick takes one from what is left.                                     *)
LEMMA LessIsLess == \A n \in 0..TTL : Less(n) \in 0..TTL /\ (n > 1 => Less(n) > 0)
BY LeaseConstants DEF Less

LEMMA LeaseTypePreserved == LeaseTypeOK /\ [LeaseStep]_leaseVars => LeaseTypeOK'
<1> SUFFICES ASSUME LeaseTypeOK, [LeaseStep]_leaseVars PROVE LeaseTypeOK'
    OBVIOUS
<1> USE LeaseConstants DEF LeaseTypeOK, LeaseRow, NoLease, Held, Spent, Remember
<1>1. ASSUME NEW c \in Cycles, AcquireRead(c) PROVE LeaseTypeOK'
    BY <1>1 DEF AcquireRead
<1>2. ASSUME NEW c \in Cycles, AcquireInMemory(c) PROVE LeaseTypeOK'
    BY <1>2, MemoryTyped DEF AcquireInMemory
<1>3. ASSUME NEW c \in Cycles, Claim(c) PROVE LeaseTypeOK'
    BY <1>3 DEF Claim
<1>4. ASSUME NEW c \in Cycles, Extend(c) PROVE LeaseTypeOK'
    BY <1>4 DEF Extend
<1>5. ASSUME NEW c \in Cycles, FallBackToMemory(c) PROVE LeaseTypeOK'
    BY <1>5, MemoryTyped DEF FallBackToMemory
<1>6. ASSUME NEW c \in Cycles, ReleaseWrite(c) PROVE LeaseTypeOK'
    BY <1>6 DEF ReleaseWrite, Deleted
<1>7. ASSUME NEW c \in Cycles, ReleaseRead(c) PROVE LeaseTypeOK'
    BY <1>7 DEF ReleaseRead
<1>8. ASSUME NEW c \in Cycles, ReleaseInMemory(c) PROVE LeaseTypeOK'
    BY <1>8 DEF ReleaseInMemory
<1>9. ASSUME NEW c \in Cycles, BeatRead(c) PROVE LeaseTypeOK'
    BY <1>9 DEF BeatRead
<1>10. ASSUME NEW c \in Cycles, BeatWrite(c) PROVE LeaseTypeOK'
    BY <1>10 DEF BeatWrite
<1>11. ASSUME NEW c \in Cycles, BeatFails(c) PROVE LeaseTypeOK'
    BY <1>11 DEF BeatFails
<1>12. ASSUME NEW c \in Cycles, BeatInMemory(c) PROVE LeaseTypeOK'
    BY <1>12 DEF BeatInMemory
<1>13. ASSUME NEW c \in Cycles, ReleaseFails(c) PROVE LeaseTypeOK'
    BY <1>13 DEF ReleaseFails
<1>14. ASSUME NEW p \in Procs, RecoverCrashedLeases(p) PROVE LeaseTypeOK'
    BY <1>14 DEF RecoverCrashedLeases
<1>15. ASSUME NEW p \in Procs, Crash(p) PROVE LeaseTypeOK'
    BY <1>15 DEF Crash
<1>16. CASE Tick
    BY <1>16, LessIsLess DEF Tick
<1>17. CASE UNCHANGED leaseVars
    BY <1>17 DEF leaseVars
<1> QED BY <1>1, <1>2, <1>3, <1>4, <1>5, <1>6, <1>7, <1>8, <1>9, <1>10, <1>11, <1>12, <1>13,
           <1>14, <1>15, <1>16, <1>17 DEF LeaseStep, Start, Write, Finish

(* A mishap that was, or that happens, is remembered while a cycle is at   *)
(* work: so one that is not remembered was not, or nobody is at work.      *)
LEMMA Remembered ==
    ASSUME LeaseTypeOK, NEW happened \in BOOLEAN, Remember(happened), ~mishap'
    PROVE  (~mishap /\ ~happened) \/ \A c \in Cycles : pc'[c] = "idle"
BY DEF Remember

(* Steps that put nobody to work and leave the row to its holder.          *)
LEMMA NobodyStarts ==
    ASSUME LeaseTypeOK, WorkersOwnTheLease, ~mishap' => ~mishap,
           inMemory' = inMemory, lease'.holder = lease.holder, lease'.left >= lease.left,
           lease'.left \in Nat,
           \A c \in Cycles : pc'[c] # "idle" => pc[c] # "idle" \/ ~InMemory(c),
           \A c \in Cycles : AtWork(c)' => AtWork(c)
    PROVE  WorkersOwnTheLease'
BY DEF WorkersOwnTheLease, InMemory, Owns, HolderOf, LeaseTypeOK, LeaseRow

(* All cycles are idle, or a mishap is remembered.                         *)
LEMMA NothingClaimed ==
    ASSUME mishap' \/ \A c \in Cycles : pc'[c] = "idle"
    PROVE  WorkersOwnTheLease'
BY DEF WorkersOwnTheLease, AtWork

LEMMA OwnershipPreserved ==
    LeaseTypeOK /\ WorkersOwnTheLease /\ [LeaseStep]_leaseVars => WorkersOwnTheLease'
<1> SUFFICES ASSUME LeaseTypeOK, WorkersOwnTheLease, [LeaseStep]_leaseVars
             PROVE  WorkersOwnTheLease'
    OBVIOUS
<1> USE LeaseConstants
<1>1. ASSUME NEW c \in Cycles, AcquireRead(c) PROVE WorkersOwnTheLease'
    <2>1. /\ \A d \in Cycles : AtWork(d)' => AtWork(d)
          /\ \A d \in Cycles : pc'[d] # "idle" => pc[d] # "idle" \/ ~InMemory(d)
          /\ lease' = lease /\ inMemory' = inMemory /\ lease.left \in Nat
        BY <1>1 DEF AcquireRead, AtWork, LeaseTypeOK, LeaseRow
    <2>2. mishap' \/ ~mishap \/ \A d \in Cycles : pc'[d] = "idle"
        BY <1>1, Remembered DEF AcquireRead
    <2> QED BY <2>1, <2>2, NobodyStarts, NothingClaimed
<1>2. ASSUME NEW c \in Cycles, AcquireInMemory(c) PROVE WorkersOwnTheLease'
    BY <1>2, Remembered, NothingClaimed DEF AcquireInMemory
<1>3. ASSUME NEW c \in Cycles, Claim(c) PROVE WorkersOwnTheLease'
    <2> SUFFICES ASSUME ~mishap, Free(lease, c), budget[c] # 0
                 PROVE  WorkersOwnTheLease'
        BY <1>3, Remembered, NothingClaimed DEF Claim
    <2>1. \A d \in Cycles : ~AtWork(d)
        BY DEF WorkersOwnTheLease, Free, Owns
    <2>2. /\ \A d \in Cycles : AtWork(d)' => d = c
          /\ \A d \in Cycles : pc'[d] # "idle" => pc[d] # "idle"
        BY <1>3, <2>1 DEF Claim, AtWork, LeaseTypeOK
    <2>3. lease' = [holder |-> HolderOf(c), left |-> budget[c]] /\ budget[c] \in Nat
          /\ inMemory' = inMemory
        BY <1>3 DEF Claim, LeaseTypeOK
    <2> QED BY <2>2, <2>3 DEF WorkersOwnTheLease, Owns, HolderOf, InMemory
<1>4. ASSUME NEW c \in Cycles, Extend(c) PROVE WorkersOwnTheLease'
    BY <1>4, Remembered, NothingClaimed DEF Extend
<1>5. ASSUME NEW c \in Cycles, FallBackToMemory(c) PROVE WorkersOwnTheLease'
    BY <1>5, Remembered, NothingClaimed DEF FallBackToMemory
<1>6. ASSUME NEW c \in Cycles, ReleaseWrite(c) \/ ReleaseFails(c) PROVE WorkersOwnTheLease'
    <2> SUFFICES ASSUME ~mishap PROVE WorkersOwnTheLease'
        BY <1>6, Remembered, NothingClaimed DEF ReleaseWrite, ReleaseFails
    <2>1. AtWork(c) /\ pc' = [pc EXCEPT ![c] = "idle"] /\ inMemory' = inMemory
        BY <1>6 DEF ReleaseWrite, ReleaseFails, AtWork
    <2>2. \A d \in Cycles : ~AtWork(d)' /\ (pc'[d] # "idle" => pc[d] # "idle")
        BY <2>1 DEF WorkersOwnTheLease, AtWork, LeaseTypeOK
    <2> QED BY <2>1, <2>2 DEF WorkersOwnTheLease, InMemory
<1>7. ASSUME NEW c \in Cycles, ReleaseRead(c) PROVE WorkersOwnTheLease'
    <2>1. /\ \A d \in Cycles : AtWork(d)' => AtWork(d)
          /\ \A d \in Cycles : pc'[d] # "idle" => pc[d] # "idle"
          /\ lease' = lease /\ inMemory' = inMemory /\ lease.left \in Nat
        BY <1>7 DEF ReleaseRead, AtWork, LeaseTypeOK, LeaseRow
    <2>2. mishap' \/ ~mishap \/ \A d \in Cycles : pc'[d] = "idle"
        BY <1>7, Remembered DEF ReleaseRead
    <2> QED BY <2>1, <2>2, NobodyStarts, NothingClaimed
<1>8. ASSUME NEW c \in Cycles, ReleaseInMemory(c) PROVE WorkersOwnTheLease'
    <2>1. mishap
        BY <1>8 DEF ReleaseInMemory, WorkersOwnTheLease
    <2> QED BY <1>8, <2>1, Remembered, NothingClaimed DEF ReleaseInMemory
<1>9. ASSUME NEW c \in Cycles, BeatRead(c) \/ BeatFails(c) PROVE WorkersOwnTheLease'
    <2>1. pc' = pc /\ lease' = lease /\ inMemory' = inMemory
        BY <1>9 DEF BeatRead, BeatFails
    <2>3. lease.left \in Nat
        BY DEF LeaseTypeOK, LeaseRow
    <2>2. mishap' \/ ~mishap \/ \A d \in Cycles : pc'[d] = "idle"
        BY <1>9, Remembered DEF BeatRead, BeatFails
    <2> QED BY <2>1, <2>2, <2>3, NobodyStarts, NothingClaimed DEF AtWork
<1>10. ASSUME NEW c \in Cycles, BeatWrite(c) PROVE WorkersOwnTheLease'
    <2> SUFFICES ASSUME ~mishap, beatLeft[c] # 0 PROVE WorkersOwnTheLease'
        BY <1>10, Remembered, NothingClaimed DEF BeatWrite
    <2>1. beatLeft[c] \in Nat /\ pc' = pc /\ inMemory' = inMemory
        BY <1>10 DEF BeatWrite, LeaseTypeOK
    <2>2. lease'.holder = lease.holder /\ (lease'.left = lease.left \/ lease'.left > 0)
        BY <1>10, <2>1 DEF BeatWrite, LeaseTypeOK, LeaseRow
    <2> QED BY <2>1, <2>2 DEF WorkersOwnTheLease, AtWork, Owns, HolderOf, InMemory
<1>11. ASSUME NEW c \in Cycles, BeatInMemory(c) PROVE WorkersOwnTheLease'
    BY <1>11, NothingClaimed DEF BeatInMemory, WorkersOwnTheLease
<1>12. ASSUME NEW p \in Procs, RecoverCrashedLeases(p) PROVE WorkersOwnTheLease'
    <2> SUFFICES ASSUME ~mishap PROVE WorkersOwnTheLease'
        BY <1>12, NothingClaimed DEF RecoverCrashedLeases
    <2>1. lease' = lease \/ \A c \in Cycles : ~AtWork(c)
        BY <1>12 DEF RecoverCrashedLeases, Expired, WorkersOwnTheLease
    <2>2. UNCHANGED <<pc, inMemory, mishap>>
        BY <1>12 DEF RecoverCrashedLeases
    <2> QED BY <2>1, <2>2 DEF WorkersOwnTheLease, AtWork, Owns, HolderOf, InMemory
<1>13. ASSUME NEW p \in Procs, Crash(p) PROVE WorkersOwnTheLease'
    <2>1. /\ \A d \in Cycles : AtWork(d)' => AtWork(d)
          /\ \A d \in Cycles : pc'[d] # "idle" => pc[d] # "idle"
          /\ lease' = lease /\ inMemory' = inMemory /\ lease.left \in Nat
        BY <1>13 DEF Crash, AtWork, LeaseTypeOK, LeaseRow
    <2>2. mishap' \/ ~mishap \/ \A d \in Cycles : pc'[d] = "idle"
        BY <1>13, Remembered DEF Crash
    <2> QED BY <2>1, <2>2, NobodyStarts, NothingClaimed
<1>14. CASE Tick
    <2> SUFFICES ASSUME ~mishap,
                        \A c \in Cycles : AtWork(c) /\ Owns(lease, c) => lease.left # 1
                 PROVE  WorkersOwnTheLease'
        BY <1>14, Remembered, NothingClaimed DEF Tick, AtWork
    <2>1. lease'.holder = lease.holder /\ lease'.left = Less(lease.left)
          /\ lease.left \in 0..TTL /\ pc' = pc /\ inMemory' = inMemory
        BY <1>14 DEF Tick, LeaseTypeOK, LeaseRow
    <2>2. lease.left > 0 /\ lease.left # 1 => lease'.left > 0
        BY <2>1, LessIsLess
    <2> QED BY <2>1, <2>2 DEF WorkersOwnTheLease, AtWork, Owns, HolderOf, InMemory
<1>15. CASE UNCHANGED leaseVars
    BY <1>15 DEF leaseVars, WorkersOwnTheLease, AtWork, Owns, HolderOf, InMemory
<1> QED BY <1>1, <1>2, <1>3, <1>4, <1>5, <1>6, <1>7, <1>8, <1>9, <1>10, <1>11, <1>12, <1>13,
           <1>14, <1>15 DEF LeaseStep, Start, Write, Finish

(* A step that keeps the row's holder, at work.                            *)
LEMMA OwnerStays ==
    ASSUME LeaseTypeOK, RowsHaveOwners, lease'.holder = lease.holder,
           dead \subseteq dead', inMemory \subseteq inMemory', dbErrors' = dbErrors,
           \A c \in Cycles : AtWork(c) /\ Owns(lease, c) =>
               AtWork(c)' \/ ~Alive(c)' \/ InMemory(c)'
    PROVE  RowsHaveOwners'
BY DEF RowsHaveOwners, Owns, HolderOf, Alive, InMemory

LEMMA OwnersPreserved ==
    LeaseTypeOK /\ RowsHaveOwners /\ [LeaseStep]_leaseVars => RowsHaveOwners'
<1> SUFFICES ASSUME LeaseTypeOK, RowsHaveOwners, [LeaseStep]_leaseVars
             PROVE  RowsHaveOwners'
    OBVIOUS
<1> USE LeaseConstants
<1>1. ASSUME NEW c \in Cycles, AcquireRead(c) \/ AcquireInMemory(c) PROVE RowsHaveOwners'
    <2>1. UNCHANGED <<lease, dead, inMemory, dbErrors>> /\ pc[c] = "idle"
        BY <1>1 DEF AcquireRead, AcquireInMemory, NewCycle, Busy
    <2>2. \A d \in Cycles : d # c => pc'[d] = pc[d]
        BY <1>1 DEF AcquireRead, AcquireInMemory, TakeInMemory, LeaseTypeOK
    <2> QED BY <2>1, <2>2, OwnerStays DEF AtWork
<1>2. ASSUME NEW c \in Cycles, Claim(c) PROVE RowsHaveOwners'
    BY <1>2 DEF Claim, RowsHaveOwners, Owns, HolderOf, AtWork, LeaseTypeOK
<1>3. ASSUME NEW c \in Cycles, Extend(c) PROVE RowsHaveOwners'
    <2>1. /\ lease'.holder = lease.holder /\ UNCHANGED <<dead, inMemory, dbErrors>>
          /\ \A d \in Cycles : AtWork(d) => AtWork(d)'
        BY <1>3 DEF Extend, AtWork, LeaseTypeOK, LeaseRow
    <2> QED BY <2>1, OwnerStays
<1>4. ASSUME NEW c \in Cycles, FallBackToMemory(c) PROVE RowsHaveOwners'
    <2>1. /\ UNCHANGED <<lease, dead>> /\ inMemory' = inMemory \cup {ProcOf[c]}
          /\ dbErrors' = dbErrors \/ dbErrors' > 0
        BY <1>4 DEF FallBackToMemory, LeaseTypeOK
    <2>2. \A d \in Cycles : AtWork(d) => AtWork(d)'
        BY <1>4 DEF FallBackToMemory, TakeInMemory, AtWork, LeaseTypeOK
    <2>3. CASE dbErrors' = dbErrors
        BY <2>1, <2>2, <2>3, OwnerStays
    <2> QED BY <2>1, <2>3 DEF RowsHaveOwners
<1>5. ASSUME NEW c \in Cycles, ReleaseWrite(c) PROVE RowsHaveOwners'
    BY <1>5 DEF ReleaseWrite, Deleted, NoLease, RowsHaveOwners
<1>6. ASSUME NEW c \in Cycles, ReleaseFails(c) \/ BeatFails(c) PROVE RowsHaveOwners'
    <2>1. dbErrors' = dbErrors + 1
        BY <1>6 DEF ReleaseFails, BeatFails
    <2>2. dbErrors \in Nat
        BY DEF LeaseTypeOK
    <2> QED BY <2>1, <2>2 DEF RowsHaveOwners
<1>7. ASSUME NEW c \in Cycles, ReleaseRead(c) PROVE RowsHaveOwners'
    <2>1. UNCHANGED <<lease, dead, inMemory, dbErrors>>
        BY <1>7 DEF ReleaseRead
    <2>2. \A d \in Cycles : AtWork(d) /\ Owns(lease, d) => AtWork(d)'
        BY <1>7 DEF ReleaseRead, AtWork, LeaseTypeOK
    <2> QED BY <2>1, <2>2, OwnerStays
<1>8. ASSUME NEW c \in Cycles, ReleaseInMemory(c) PROVE RowsHaveOwners'
    <2>1. UNCHANGED <<lease, dead, inMemory, dbErrors>> /\ InMemory(c)
        BY <1>8 DEF ReleaseInMemory
    <2>2. \A d \in Cycles : AtWork(d) => AtWork(d)' \/ InMemory(d)'
        BY <1>8, <2>1 DEF ReleaseInMemory, AtWork, LeaseTypeOK, InMemory
    <2> QED BY <2>1, <2>2, OwnerStays
<1>9. ASSUME NEW c \in Cycles, BeatRead(c) \/ BeatInMemory(c) PROVE RowsHaveOwners'
    <2>1. UNCHANGED <<lease, dead, inMemory, dbErrors, pc>>
        BY <1>9 DEF BeatRead, BeatInMemory
    <2> QED BY <2>1, OwnerStays DEF AtWork
<1>10. ASSUME NEW c \in Cycles, BeatWrite(c) PROVE RowsHaveOwners'
    <2>1. lease'.holder = lease.holder /\ UNCHANGED <<dead, inMemory, dbErrors, pc>>
        BY <1>10 DEF BeatWrite, LeaseTypeOK, LeaseRow
    <2> QED BY <2>1, OwnerStays DEF AtWork
<1>11. ASSUME NEW p \in Procs, RecoverCrashedLeases(p) PROVE RowsHaveOwners'
    <2>1. UNCHANGED <<dead, inMemory, dbErrors, pc>>
        BY <1>11 DEF RecoverCrashedLeases
    <2>2. CASE lease' = lease
        BY <2>1, <2>2, OwnerStays DEF AtWork
    <2>3. CASE lease' = NoLease
        BY <2>3 DEF NoLease, RowsHaveOwners
    <2> QED BY <1>11, <2>2, <2>3 DEF RecoverCrashedLeases
<1>12. ASSUME NEW p \in Procs, Crash(p) PROVE RowsHaveOwners'
    <2>1. UNCHANGED <<lease, inMemory, dbErrors>> /\ dead' = dead \cup {p}
        BY <1>12 DEF Crash
    <2>2. \A d \in Cycles : AtWork(d) => AtWork(d)' \/ ~Alive(d)'
        BY <1>12 DEF Crash, AtWork, Alive, LeaseTypeOK
    <2> QED BY <2>1, <2>2, OwnerStays
<1>13. CASE Tick
    <2>1. lease'.holder = lease.holder /\ UNCHANGED <<dead, inMemory, dbErrors, pc>>
        BY <1>13 DEF Tick, LeaseTypeOK, LeaseRow
    <2> QED BY <2>1, OwnerStays DEF AtWork
<1>14. CASE UNCHANGED leaseVars
    BY <1>14, OwnerStays DEF leaseVars, AtWork
<1> QED BY <1>1, <1>2, <1>3, <1>4, <1>5, <1>6, <1>7, <1>8, <1>9, <1>10, <1>11, <1>12, <1>13,
           <1>14 DEF LeaseStep, Start, Write, Finish

LEMMA LeaseInvariantPreserved == LeaseInvariant /\ [LeaseStep]_leaseVars => LeaseInvariant'
BY LeaseTypePreserved, OwnershipPreserved, OwnersPreserved DEF LeaseInvariant

(* The conjunction above is inductive.                                     *)
THEOREM LeasesAreOwned == LeaseSpec => []LeaseInvariant
BY LeaseInvariantInit, LeaseInvariantPreserved, PTL DEF LeaseSpec

(* The lease row, the leases in memory and the cycles keep their types.    *)
THEOREM LeaseTypeCorrect == LeaseSpec => []LeaseTypeOK
<1>1. LeaseInvariant => LeaseTypeOK
    BY DEF LeaseInvariant
<1> QED BY <1>1, LeasesAreOwned, PTL

(* withLease: for any number of cycles and processes, two cycles run at    *)
(* once only while a mishap is remembered.                                 *)
THEOREM Exclusion == LeaseSpec => []ExclusionUnlessMishap
<1>1. LeaseInvariant => ExclusionUnlessMishap
    <2> SUFFICES ASSUME LeaseInvariant, ~mishap, Cardinality(Running) > 1 PROVE FALSE
        BY DEF ExclusionUnlessMishap
    <2>1. CASE Running = {}
        BY <2>1, FS_EmptySet
    <2>2. CASE Running # {}
        <3>1. PICK c \in Running : TRUE
            BY <2>2
        <3>2. Running = {c}
            BY <3>1 DEF LeaseInvariant, WorkersOwnTheLease, AtWork, Running
        <3>3. Cardinality(Running) = 1
            BY <3>2, FS_Singleton
        <3> QED BY <3>3
    <2> QED BY <2>1, <2>2
<1> QED BY <1>1, LeasesAreOwned, PTL

(* releaseLease and recoverCrashedLeases: a live row belongs to a cycle    *)
(* that is busy, or to one whose process died or left the database, or a   *)
(* statement has failed.                                                   *)
THEOREM NoOrphan == LeaseSpec => []NoOrphanLease
<1>1. LeaseInvariant => NoOrphanLease
    BY DEF LeaseInvariant, RowsHaveOwners, NoOrphanLease, AtWork, Busy, LeaseTypeOK
<1> QED BY <1>1, LeasesAreOwned, PTL
=============================================================================
