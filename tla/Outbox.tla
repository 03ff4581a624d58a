-------------------------------- MODULE Outbox --------------------------------
(***************************************************************************)
(* The transactional outbox and its consumer:                              *)
(* src/domains/events/OutboxConsumer.ts.                                   *)
(*                                                                         *)
(* A cycle recovers events that have been PROCESSING for too long, claims  *)
(* a batch of due PENDING events, and works through the rows it read at    *)
(* the claim: it delivers each event and marks it PROCESSED, or records a  *)
(* failure. Neither update looks at the row's present status or owner.     *)
(* Any number of cycles run side by side: WorkerLease shows that the lease *)
(* does not exclude it, and OutboxUnderLease adds the lease.               *)
(*                                                                         *)
(* requeueDeadLetters selects dead events and then updates them by id.     *)
(*                                                                         *)
(* The workerId column is written and never read, so it is left out; times *)
(* are kept as what the code compares: the age of a lock, whether the      *)
(* backoff has passed, whether a dead event is an hour old.                *)
(***************************************************************************)
EXTENDS Naturals, FiniteSets

CONSTANTS
  Events,       \* rows of OutboxEvent
  Unknown,      \* events whose eventType has no handler
  Unchecked,    \* events whose handler ignores the provider's verdict
  Workers,      \* consumer cycles that can be in progress at once
  Requeuers,    \* callers of requeueDeadLetters (the cron route)
  Batch,        \* most events one claim takes (20 in the code)
  MaxAttempts,  \* failures that make an event a dead letter (5)
  RequeueCap,   \* retryCount from which an event is not requeued (8)
  Stale,        \* ticks after which PROCESSING counts as stranded (2 minutes)
  MaxFaults     \* bound: cycles that die, statements that fail, answers lost

ASSUME OutboxAssumption ==
  /\ IsFiniteSet(Events)
  /\ Unknown \subseteq Events
  /\ Unchecked \subseteq Events \ Unknown
  /\ Batch \in Nat \ {0}
  /\ MaxAttempts \in Nat \ {0}
  /\ RequeueCap \in Nat
  /\ Stale \in Nat \ {0}
  /\ MaxFaults \in Nat

VARIABLES
  status,      \* OutboxEvent.status, "NONE" before the row is inserted
  retry,       \* OutboxEvent.retryCount
  lockAge,     \* ticks since lockedAt, at most Stale
  waiting,     \* events whose availableAt is still to come
  unhandled,   \* events whose lastError is UNKNOWN_EVENT_TYPE
  aged,        \* events not updated for an hour
  stage,       \* per cycle: where executeProcessingCycle is
  picked,      \* per cycle: rows the fallback has read and not yet taken
  claimed,     \* per cycle: rows claimed and still to be worked on
  current,     \* per cycle: the row being worked on
  candidates,  \* per requeuer: the dead events it has selected
  faults,      \* cycles that died, statements that failed, answers lost
  delivered,   \* auxiliary: per event, times it was delivered, at most Many
  unanswered,  \* auxiliary: per event, deliveries that count as failed
  failures,    \* auxiliary: per event, failed attempts, at most MaxAttempts
  disturbed,   \* auxiliary: events whose processing was interfered with
  ignored      \* auxiliary: events whose refusal by the provider was ignored

rows    == <<status, retry, lockAge, waiting, unhandled, aged>>
cycles  == <<stage, picked, claimed, current>>
history == <<delivered, unanswered, failures, disturbed, ignored>>
outboxVars == <<rows, cycles, candidates, faults, history>>

Statuses == {"NONE", "PENDING", "PROCESSING", "PROCESSED", "DEAD_LETTER"}

\* A row as a cycle remembers it.
Row == [event : Events, retry : Nat]
RowOf(e) == [event |-> e, retry |-> retry[e]]

Least(m, n) == IF m < n THEN m ELSE n

\* Deliveries are counted up to one more than lost answers can explain.
Many == MaxFaults + 2

(***************************************************************************)
(* Faulty variants of definitions below, each noticed by a property.       *)
(***************************************************************************)

\* The recovery with the comparison turned round: it never fires.
NothingStranded == {}

\* SKIP LOCKED without the status in its WHERE.
DueWhatever == {e \in Events : status[e] \in {"PENDING", "PROCESSING"} /\ e \notin waiting}

\* isDeadLetter with nextRetry >= 4 for nextRetry >= 5.
GivesUpEarly(r) == r.retry + 2 >= MaxAttempts \/ r.event \in Unknown

\* The PROCESSED update moved before the switch.
MarkedFirst(c) == stage[c] \in {"working", "delivered"}

\* requeueDeadLetters without its exception for UNKNOWN_EVENT_TYPE.
AnyDead == {e \in Events : status[e] = "DEAD_LETTER" /\ retry[e] < RequeueCap /\ e \in aged}

-----------------------------------------------------------------------------
\* Events a cycle that is alive has claimed and not finished.
InHand(c) == {r.event : r \in claimed[c] \cup current[c]}

\* The recovery's WHERE: PROCESSING, and locked before the cutoff.
Stranded == {e \in Events : status[e] = "PROCESSING" /\ lockAge[e] = Stale}

\* The claim's WHERE: PENDING and available.
Due == {e \in Events : status[e] = "PENDING" /\ e \notin waiting}

\* A failure is the last one at MaxAttempts, or for an unknown type.
DeadAfter(r) == r.retry + 1 >= MaxAttempts \/ r.event \in Unknown

\* The PROCESSED update comes after the switch.
ReadyToMark(c) == stage[c] = "delivered"

\* requeueDeadLetters' WHERE.
Requeueable ==
  {e \in Events : /\ status[e] = "DEAD_LETTER"
                  /\ retry[e] < RequeueCap
                  /\ e \in aged
                  /\ e \notin unhandled}

\* An update of the rows in S: their status becomes s.
SetStatus(S, s) == [e \in Events |-> IF e \in S THEN s ELSE status[e]]

Unlock(S) == [e \in Events |-> IF e \in S THEN 0 ELSE lockAge[e]]

\* The batches a claim may take from S.
Batches(S) ==
  {B \in SUBSET S : Cardinality(B) <= Batch /\ (B # S => Cardinality(B) = Batch)}

-----------------------------------------------------------------------------
OutboxInit ==
  /\ status = [e \in Events |-> "NONE"]
  /\ retry = [e \in Events |-> 0]
  /\ lockAge = [e \in Events |-> 0]
  /\ waiting = {}
  /\ unhandled = {}
  /\ aged = {}
  /\ stage = [c \in Workers |-> "idle"]
  /\ picked = [c \in Workers |-> {}]
  /\ claimed = [c \in Workers |-> {}]
  /\ current = [c \in Workers |-> {}]
  /\ candidates = [q \in Requeuers |-> {}]
  /\ faults = 0
  /\ delivered = [e \in Events |-> 0]
  /\ unanswered = [e \in Events |-> 0]
  /\ failures = [e \in Events |-> 0]
  /\ disturbed = {}
  /\ ignored = {}

\* A business transaction commits with its event.
Emit(e) ==
  /\ status[e] = "NONE"
  /\ status' = [status EXCEPT ![e] = "PENDING"]
  /\ UNCHANGED <<retry, lockAge, waiting, unhandled, aged, cycles, candidates,
                 faults, history>>

\* The start of a cycle: events stranded in PROCESSING become PENDING. A
\* stranded event may be one that a slow cycle still has in hand.
Recover(c) ==
  /\ stage[c] = "idle"
  /\ stage' = [stage EXCEPT ![c] = "claiming"]
  /\ status' = SetStatus(Stranded, "PENDING")
  /\ lockAge' = Unlock(Stranded)
  /\ aged' = aged \ Stranded
  /\ disturbed' = disturbed \cup (Stranded \cap UNION {InHand(d) : d \in Workers})
  /\ UNCHANGED <<retry, waiting, unhandled, picked, claimed, current,
                 candidates, faults, delivered, unanswered, failures, ignored>>

\* UPDATE ... WHERE id IN (SELECT ... FOR UPDATE SKIP LOCKED), and the read
\* of the rows it returns.
Claim(c) ==
  /\ stage[c] = "claiming"
  /\ \E B \in Batches(Due) :
       /\ status' = SetStatus(B, "PROCESSING")
       /\ lockAge' = Unlock(B)
       /\ aged' = aged \ B
       /\ claimed' = [claimed EXCEPT ![c] = {RowOf(e) : e \in B}]
       /\ stage' = [stage EXCEPT ![c] = IF B = {} THEN "idle" ELSE "working"]
  /\ UNCHANGED <<retry, waiting, unhandled, picked, current, candidates, faults,
                 history>>

\* The claim's catch: the fallback reads due events ...
FallbackRead(c) ==
  /\ stage[c] = "claiming"
  /\ faults < MaxFaults
  /\ faults' = faults + 1
  /\ \E B \in Batches(Due) :
       picked' = [picked EXCEPT ![c] = {RowOf(e) : e \in B}]
  /\ stage' = [stage EXCEPT ![c] = "taking"]
  /\ UNCHANGED <<rows, claimed, current, candidates, history>>

\* ... and takes each that still is PENDING, as it was when it was read.
FallbackTake(c) ==
  /\ stage[c] = "taking"
  /\ \E r \in picked[c] :
       /\ picked' = [picked EXCEPT ![c] = @ \ {r}]
       /\ IF status[r.event] = "PENDING"
          THEN /\ status' = SetStatus({r.event}, "PROCESSING")
               /\ lockAge' = Unlock({r.event})
               /\ aged' = aged \ {r.event}
               /\ claimed' = [claimed EXCEPT ![c] = @ \cup {r}]
          ELSE UNCHANGED <<status, lockAge, aged, claimed>>
  /\ UNCHANGED <<retry, waiting, unhandled, stage, current, candidates, faults,
                 history>>

FallbackDone(c) ==
  /\ stage[c] = "taking"
  /\ picked[c] = {}
  /\ stage' = [stage EXCEPT ![c] = IF claimed[c] = {} THEN "idle" ELSE "working"]
  /\ UNCHANGED <<rows, picked, claimed, current, candidates, faults, history>>

\* The next event of the batch; without one the cycle ends.
Take(c) ==
  /\ stage[c] = "working"
  /\ current[c] = {}
  /\ \/ \E r \in claimed[c] :
          /\ current' = [current EXCEPT ![c] = {r}]
          /\ claimed' = [claimed EXCEPT ![c] = @ \ {r}]
          /\ stage' = stage
     \/ /\ claimed[c] = {}
        /\ stage' = [stage EXCEPT ![c] = "idle"]
        /\ UNCHANGED <<current, claimed>>
  /\ UNCHANGED <<rows, picked, candidates, faults, history>>

\* The switch on eventType, when the handler's effect succeeds.
Deliver(c) ==
  /\ stage[c] = "working"
  /\ \E r \in current[c] :
       /\ r.event \notin Unknown
       /\ delivered' = [delivered EXCEPT ![r.event] = Least(@ + 1, Many)]
  /\ stage' = [stage EXCEPT ![c] = "delivered"]
  /\ UNCHANGED <<rows, picked, claimed, current, candidates, faults, unanswered,
                 failures, disturbed, ignored>>

\* The switch throws although the message went out: the provider's answer is
\* lost or late (its call is aborted after a few seconds), or a push reached
\* some of its devices. The catch cannot tell it from a refusal.
AnswerLost(c) ==
  /\ stage[c] = "working"
  /\ faults < MaxFaults
  /\ faults' = faults + 1
  /\ \E r \in current[c] :
       /\ r.event \notin Unknown
       /\ delivered' = [delivered EXCEPT ![r.event] = Least(@ + 1, Many)]
       /\ unanswered' = [unanswered EXCEPT ![r.event] = @ + 1]
  /\ stage' = [stage EXCEPT ![c] = "failed"]
  /\ UNCHANGED <<rows, picked, claimed, current, candidates, failures, disturbed,
                 ignored>>

\* A refund or notification handler returns although the provider refused:
\* only the OTP and push handlers look at the result.
DeliveryIgnored(c) ==
  /\ stage[c] = "working"
  /\ \E r \in current[c] :
       /\ r.event \in Unchecked
       /\ ignored' = ignored \cup {r.event}
  /\ stage' = [stage EXCEPT ![c] = "delivered"]
  /\ UNCHANGED <<rows, picked, claimed, current, candidates, faults, delivered,
                 unanswered, failures, disturbed>>

\* The switch throws and nothing went out: the provider refuses, the payload
\* is broken, or no handler is registered.
DeliveryFails(c) ==
  /\ stage[c] = "working"
  /\ current[c] # {}
  /\ stage' = [stage EXCEPT ![c] = "failed"]
  /\ UNCHANGED <<rows, picked, claimed, current, candidates, faults, history>>

\* The event is marked PROCESSED, whatever its status is by now.
MarkProcessed(c) ==
  /\ ReadyToMark(c)
  /\ \E r \in current[c] :
       /\ status' = SetStatus({r.event}, "PROCESSED")
       /\ aged' = aged \ {r.event}
  /\ current' = [current EXCEPT ![c] = {}]
  /\ stage' = [stage EXCEPT ![c] = "working"]
  /\ UNCHANGED <<retry, lockAge, waiting, unhandled, picked, claimed,
                 candidates, faults, history>>

\* The PROCESSED update throws, into the catch of the delivery.
MarkFails(c) ==
  /\ stage[c] = "delivered"
  /\ faults < MaxFaults
  /\ faults' = faults + 1
  /\ stage' = [stage EXCEPT ![c] = "failed"]
  /\ disturbed' = disturbed \cup {r.event : r \in current[c]}
  /\ UNCHANGED <<rows, picked, claimed, current, candidates, delivered, unanswered,
                 failures, ignored>>

\* The catch: retry with a backoff, or dead letter. The count goes up from
\* the one read at the claim, and the row is overwritten whatever it is.
RecordFailure(c) ==
  /\ stage[c] = "failed"
  /\ \E r \in current[c] :
       LET e == r.event IN
       /\ status' = SetStatus({e}, IF DeadAfter(r) THEN "DEAD_LETTER" ELSE "PENDING")
       /\ retry' = [retry EXCEPT ![e] = r.retry + 1]
       /\ lockAge' = Unlock({e})
       /\ waiting' = waiting \cup {e}
       /\ unhandled' = IF e \in Unknown THEN unhandled \cup {e} ELSE unhandled \ {e}
       /\ aged' = aged \ {e}
       /\ failures' = [failures EXCEPT ![e] = Least(@ + 1, MaxAttempts)]
  /\ current' = [current EXCEPT ![c] = {}]
  /\ stage' = [stage EXCEPT ![c] = "working"]
  /\ UNCHANGED <<picked, claimed, candidates, faults, delivered, unanswered,
                 disturbed, ignored>>

\* Cycles whose process dies, or whose error handling throws: the events
\* they have in hand stay PROCESSING.
StopCycles(S) ==
  /\ \E c \in S : stage[c] # "idle"
  /\ faults < MaxFaults
  /\ faults' = faults + 1
  /\ disturbed' = disturbed \cup
       {r.event : r \in UNION {current[c] : c \in {d \in S : stage[d] = "delivered"}}}
  /\ stage' = [c \in Workers |-> IF c \in S THEN "idle" ELSE stage[c]]
  /\ picked' = [c \in Workers |-> IF c \in S THEN {} ELSE picked[c]]
  /\ claimed' = [c \in Workers |-> IF c \in S THEN {} ELSE claimed[c]]
  /\ current' = [c \in Workers |-> IF c \in S THEN {} ELSE current[c]]
  /\ UNCHANGED <<rows, candidates, delivered, unanswered, failures, ignored>>

\* requeueDeadLetters, the SELECT (three events in the code: Batch bounds it).
RequeueRead(q) ==
  /\ candidates[q] = {}
  /\ \E B \in Batches(Requeueable) \ {{}} :
       candidates' = [candidates EXCEPT ![q] = B]
  /\ UNCHANGED <<rows, cycles, faults, history>>

\* requeueDeadLetters, the update by id.
RequeueWrite(q) ==
  /\ candidates[q] # {}
  /\ LET B == candidates[q] IN
       /\ status' = SetStatus(B, "PENDING")
       /\ lockAge' = Unlock(B)
       /\ waiting' = waiting \ B
       /\ aged' = aged \ B
       /\ disturbed' = disturbed \cup {e \in B : status[e] # "DEAD_LETTER"}
  /\ candidates' = [candidates EXCEPT ![q] = {}]
  /\ UNCHANGED <<retry, unhandled, cycles, faults, delivered, unanswered, failures,
                 ignored>>

\* The backoff of an event passes.
BackoffEnds(e) ==
  /\ e \in waiting
  /\ waiting' = waiting \ {e}
  /\ UNCHANGED <<status, retry, lockAge, unhandled, aged, cycles, candidates,
                 faults, history>>

\* An hour passes without an update of a dead event; only requeues care.
GrowOld(e) ==
  /\ Requeuers # {}
  /\ status[e] = "DEAD_LETTER"
  /\ e \notin aged
  /\ aged' = aged \cup {e}
  /\ UNCHANGED <<status, retry, lockAge, waiting, unhandled, cycles, candidates,
                 faults, history>>

\* Time passes for the events that are locked.
Age ==
  lockAge' = [e \in Events |-> IF status[e] = "PROCESSING"
                               THEN Least(lockAge[e] + 1, Stale) ELSE lockAge[e]]

OutboxTick ==
  /\ Age
  /\ UNCHANGED <<status, retry, waiting, unhandled, aged, cycles, candidates,
                 faults, history>>

\* One step of a cycle that has begun.
Work(c) ==
  \/ Claim(c) \/ FallbackTake(c) \/ FallbackDone(c) \/ Take(c)
  \/ Deliver(c) \/ DeliveryIgnored(c) \/ DeliveryFails(c)
  \/ MarkProcessed(c) \/ RecordFailure(c)

\* What happens to the outbox besides its consumer cycles and time.
Others ==
  \/ \E e \in Events : Emit(e) \/ BackoffEnds(e) \/ GrowOld(e)
  \/ \E q \in Requeuers : RequeueRead(q) \/ RequeueWrite(q)

OutboxNext ==
  \/ \E c \in Workers :
       Recover(c) \/ Work(c) \/ FallbackRead(c) \/ AnswerLost(c) \/ MarkFails(c)
  \/ \E S \in SUBSET Workers : StopCycles(S)
  \/ Others
  \/ OutboxTick

OutboxSpec == OutboxInit /\ [][OutboxNext]_outboxVars

-----------------------------------------------------------------------------
OutboxTypeOK ==
  /\ status \in [Events -> Statuses]
  /\ retry \in [Events -> Nat]
  /\ lockAge \in [Events -> 0..Stale]
  /\ waiting \subseteq Events
  /\ unhandled \subseteq Unknown
  /\ aged \subseteq Events
  /\ stage \in [Workers -> {"idle", "claiming", "taking", "working",
                            "delivered", "failed"}]
  /\ picked \in [Workers -> SUBSET Row]
  /\ claimed \in [Workers -> SUBSET Row]
  /\ current \in [Workers -> SUBSET Row]
  /\ candidates \in [Requeuers -> SUBSET Events]
  /\ faults \in 0..MaxFaults
  /\ delivered \in [Events -> 0..Many]
  /\ unanswered \in [Events -> Nat]
  /\ failures \in [Events -> 0..MaxAttempts]
  /\ disturbed \subseteq Events
  /\ ignored \subseteq Unchecked

\* An event that counts as PROCESSED was delivered, however often cycles
\* overtook each other on it, or its handler ignored that it was not.
ProcessedWasDelivered ==
  \A e \in Events : status[e] = "PROCESSED" => delivered[e] > 0 \/ e \in ignored

\* An event is given up only after MaxAttempts real failures, although the
\* count is written from what the cycle read at its claim; or at once when
\* its type has no handler.
DeadLettersFailedEnough ==
  \A e \in Events : status[e] = "DEAD_LETTER" =>
    e \in Unknown \/ failures[e] = MaxAttempts

\* An event is delivered once more for each delivery that was taken for a
\* failure, and beyond that only if a cycle stopped between delivering it and
\* marking it, the recovery took it from a cycle that was slow and not dead,
\* or two requeues raced for it.
DuplicatesAreExplained ==
  \A e \in Events : delivered[e] > 1 + unanswered[e] => e \in disturbed

\* "UNKNOWN_EVENT_TYPE failures are permanent code bugs and are never
\* requeued", whatever requeues and slow cycles do.
UnhandledStayDead ==
  [][\A e \in Events : e \in unhandled /\ status[e] = "DEAD_LETTER" =>
        status'[e] = "DEAD_LETTER"]_outboxVars
=============================================================================
