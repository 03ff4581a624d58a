----------------------------- MODULE DraftRequests -----------------------------
(***************************************************************************)
(* Draft bookings asked for under idempotency keys: createBookingDraft     *)
(* (actions/booking.ts) with the key store of lib/security/idempotency.ts. *)
(*                                                                         *)
(* The checkout page sends one key with every attempt of a session.  The   *)
(* store is a map in the memory of a server process, so an entry is named  *)
(* by a process and a key.  An entry is made IN_PROGRESS before the draft, *)
(* and COMPLETED after it.  createBookingDraft never fails or releases an  *)
(* entry: what throws leaves it IN_PROGRESS until it expires, and an entry *)
(* of an answered request expires as early.                                *)
(***************************************************************************)
EXTENDS Naturals

CONSTANTS
    Calls,      \* requests to createBookingDraft
    Entries,    \* a process and a key, scoped to a user
    Processes,  \* server processes
    EntryOf,    \* the entry each request meets
    ProcessOf,  \* the process whose memory holds an entry
    PayloadOf,  \* the fingerprint of each request
    TTL,        \* lifetime of an entry: 300 s
    MaxTime,    \* bound: the clock
    MaxDeaths,  \* bound: processes that die
    NoCall      \* who made an entry that does not exist

ASSUME DraftAssumption ==
    /\ EntryOf \in [Calls -> Entries] /\ ProcessOf \in [Entries -> Processes]
    /\ NoCall \notin Calls
    /\ TTL \in Nat /\ MaxTime \in Nat /\ MaxDeaths \in Nat

VARIABLES
    clock,    \* Date.now()
    maker,    \* the request that made an entry, with its fingerprint
    kept,     \* IdempotencyRecord.status
    until,    \* IdempotencyRecord.expiresAt
    answer,   \* the draft in IdempotencyRecord.response
    step,     \* how far each request has come
    started,  \* when it made its entry
    drafted,  \* requests whose draft is in the database
    told,     \* the draft a request was answered with
    lost,     \* auxiliary: requests whose process has died since they started
    belated,  \* auxiliary: requests that completed an entry of another request
    deaths

store     == <<maker, kept, until, answer>>
draftVars == <<clock, store, step, started, drafted, told, lost, belated, deaths>>

DraftTypeOK ==
    /\ clock \in 0..MaxTime
    /\ maker \in [Entries -> Calls \cup {NoCall}]
    /\ kept \in [Entries -> {"none", "IN_PROGRESS", "COMPLETED"}]
    /\ \A n \in Entries : kept[n] = "none" <=> maker[n] = NoCall
    /\ until \in [Entries -> 0..(MaxTime + TTL)]
    /\ answer \in [Entries -> Calls \cup {NoCall}]
    /\ \A n \in Entries : kept[n] = "COMPLETED" => answer[n] \in drafted
    /\ step \in [Calls -> {"new", "locked", "written", "over"}]
    /\ started \in [Calls -> 0..MaxTime]
    /\ drafted \subseteq Calls
    /\ told \in [Calls -> drafted \cup {NoCall}]
    /\ lost \subseteq Calls /\ belated \subseteq drafted
    /\ deaths \in 0..MaxDeaths

DraftInit ==
    /\ clock = 0
    /\ maker = [n \in Entries |-> NoCall] /\ kept = [n \in Entries |-> "none"]
    /\ until = [n \in Entries |-> 0] /\ answer = [n \in Entries |-> NoCall]
    /\ step = [c \in Calls |-> "new"] /\ started = [c \in Calls |-> 0]
    /\ drafted = {} /\ told = [c \in Calls |-> NoCall]
    /\ lost = {} /\ belated = {} /\ deaths = 0

(***************************************************************************)
(* Faulty variants of the definitions below, for checking the properties.  *)
(***************************************************************************)
AlwaysMatches(c, n) == TRUE
EndsAtOnce(n) == kept[n] # "none" /\ clock < until[n]

-----------------------------------------------------------------------------
(* get: an entry past its time is deleted when it is looked for.           *)
Remembered(n) == kept[n] # "none" /\ clock <= until[n]

Matches(c, n) == maker[n] # NoCall /\ PayloadOf[maker[n]] = PayloadOf[c]

Proceed(c, from, to) == step[c] = from /\ step' = [step EXCEPT ![c] = to]

(* acquireIdempotencyLock: a new entry, ...                                *)
Lock(c) ==
    /\ Proceed(c, "new", "locked")
    /\ LET n == EntryOf[c] IN
         /\ ~Remembered(n)
         /\ maker' = [maker EXCEPT ![n] = c]
         /\ kept' = [kept EXCEPT ![n] = "IN_PROGRESS"]
         /\ until' = [until EXCEPT ![n] = clock + TTL]
         /\ answer' = [answer EXCEPT ![n] = NoCall]
    /\ started' = [started EXCEPT ![c] = clock]
    /\ UNCHANGED <<clock, drafted, told, lost, belated, deaths>>

(* ... the cached answer, ...                                              *)
Replay(c) ==
    /\ Proceed(c, "new", "over")
    /\ LET n == EntryOf[c] IN
         /\ Remembered(n) /\ Matches(c, n) /\ kept[n] = "COMPLETED"
         /\ told' = [told EXCEPT ![c] = answer[n]]
    /\ UNCHANGED <<clock, store, started, drafted, lost, belated, deaths>>

(* ... or a refusal: another payload, or still in progress.                *)
Refuse(c) ==
    /\ Proceed(c, "new", "over")
    /\ LET n == EntryOf[c] IN
         Remembered(n) /\ ~(Matches(c, n) /\ kept[n] = "COMPLETED")
    /\ UNCHANGED <<clock, store, started, drafted, told, lost, belated, deaths>>

(* createDraft has written the booking; what follows it may throw.         *)
WriteDraft(c) ==
    /\ Proceed(c, "locked", "written")
    /\ drafted' = drafted \cup {c}
    /\ UNCHANGED <<clock, store, started, told, lost, belated, deaths>>

(* completeIdempotency: whoever made the entry that is there now.          *)
Answer(c) ==
    /\ Proceed(c, "written", "over")
    /\ told' = [told EXCEPT ![c] = c]
    /\ LET n == EntryOf[c] IN
         IF Remembered(n)
         THEN /\ kept' = [kept EXCEPT ![n] = "COMPLETED"]
              /\ answer' = [answer EXCEPT ![n] = c]
              /\ belated' = IF maker[n] = c THEN belated ELSE belated \cup {c}
         ELSE UNCHANGED <<kept, answer, belated>>
    /\ UNCHANGED <<clock, maker, until, started, drafted, lost, deaths>>

(* createDraft throws, before or after the booking is written.             *)
DraftThrows(c) ==
    /\ step[c] \in {"locked", "written"} /\ Proceed(c, step[c], "over")
    /\ UNCHANGED <<clock, store, started, drafted, told, lost, belated, deaths>>

(* A process dies with its memory and its requests.                        *)
ProcessDies(p) ==
    /\ deaths < MaxDeaths /\ deaths' = deaths + 1
    /\ LET there(n) == ProcessOf[n] = p
           gone(c)  == there(EntryOf[c]) /\ step[c] # "new" IN
         /\ maker' = [n \in Entries |-> IF there(n) THEN NoCall ELSE maker[n]]
         /\ kept' = [n \in Entries |-> IF there(n) THEN "none" ELSE kept[n]]
         /\ until' = [n \in Entries |-> IF there(n) THEN 0 ELSE until[n]]
         /\ answer' = [n \in Entries |-> IF there(n) THEN NoCall ELSE answer[n]]
         /\ step' = [c \in Calls |-> IF gone(c) THEN "over" ELSE step[c]]
         /\ lost' = lost \cup {c \in Calls : gone(c)}
    /\ UNCHANGED <<clock, started, drafted, told, belated>>

DraftTick ==
    /\ clock < MaxTime /\ clock' = clock + 1
    /\ UNCHANGED <<store, step, started, drafted, told, lost, belated, deaths>>

DraftNext ==
    \/ \E c \in Calls :
         Lock(c) \/ Replay(c) \/ Refuse(c) \/ WriteDraft(c) \/ Answer(c) \/ DraftThrows(c)
    \/ \E p \in Processes : ProcessDies(p)
    \/ DraftTick

DraftSpec == DraftInit /\ [][DraftNext]_draftVars

-----------------------------------------------------------------------------
(* "A retry of draft creation returns the original draft": two requests    *)
(* under one key that meet one process have drafts of their own only if    *)
(* the process died in between, or the first one's entry had expired       *)
(* before the second came.                                                 *)
KeyMakesOneDraft ==
    \A c, d \in drafted :
        c # d /\ EntryOf[c] = EntryOf[d] =>
            \/ c \in lost \/ d \in lost
            \/ started[c] + TTL < started[d] \/ started[d] + TTL < started[c]

(* A request is answered with a draft for its own payload, unless that     *)
(* draft's request had outlived its entry and completed its successor's.   *)
AnswersAreOwn ==
    \A c \in Calls :
        told[c] # NoCall /\ PayloadOf[told[c]] # PayloadOf[c] => told[c] \in belated
=============================================================================
