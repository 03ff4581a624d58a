---------------------------- MODULE BookingRequestProofs ----------------------------
(***************************************************************************)
(* Proofs about the requests that make and fill a booking: DraftRequests,  *)
(* Referrals, LeaderRewards and CartHolds, for every number of requests,   *)
(* bookings, clerks and carts, every limit and every lifetime; and about   *)
(* the nine components together, which share no row.                       *)
(***************************************************************************)
EXTENDS MCRequests, MoneyRequestProofs, FiniteSetTheorems, TLAPS

(***************************************************************************)
(* Drafts under one key. A request "has the key" from the entry it makes   *)
(* on, whatever becomes of it. While its process lives, its entry, or a    *)
(* later one in the same place, is kept until TTL after it started; so     *)
(* another request finds no entry only after that time.                    *)
(***************************************************************************)
HasKey(c) == step[c] \in {"locked", "written"} \/ c \in drafted

(* What a request has done by the step it has come to.                     *)
StepsAreDone ==
    \A c \in Calls :
        /\ step[c] = "new" => c \notin drafted \cup lost
        /\ step[c] = "written" => c \in drafted
        /\ started[c] <= clock

(* The entry of a request lasts as long as it should, or its process died. *)
KeysAreKept ==
    \A c \in Calls :
        HasKey(c) /\ c \notin lost =>
            /\ kept[EntryOf[c]] # "none"
            /\ started[c] + TTL <= until[EntryOf[c]]

(* Requests that have had one key one after the other.                     *)
KeysAreApart ==
    \A c, d \in Calls :
        c # d /\ EntryOf[c] = EntryOf[d] /\ HasKey(c) /\ HasKey(d) =>
            \/ c \in lost \/ d \in lost
            \/ started[c] + TTL < started[d] \/ started[d] + TTL < started[c]

(* The answer an entry gives is its maker's, or a belated request's.       *)
EntriesAnswerTheirMaker ==
    \A n \in Entries :
        kept[n] = "COMPLETED" =>
            PayloadOf[answer[n]] = PayloadOf[maker[n]] \/ answer[n] \in belated

DraftInvariant ==
    DraftTypeOK /\ StepsAreDone /\ KeysAreKept /\ KeysAreApart
    /\ EntriesAnswerTheirMaker /\ AnswersAreOwn

LEMMA DraftConstants ==
    /\ \A c \in Calls : EntryOf[c] \in Entries
    /\ \A n \in Entries : ProcessOf[n] \in Processes
    /\ TTL \in Nat /\ MaxTime \in Nat /\ MaxDeaths \in Nat /\ NoCall \notin Calls
BY DraftAssumption

LEMMA DraftInvariantInit == DraftInit => DraftInvariant
BY DraftConstants
   DEF DraftInit, DraftInvariant, DraftTypeOK, StepsAreDone, KeysAreKept, KeysAreApart,
       HasKey, EntriesAnswerTheirMaker, AnswersAreOwn

(* The types, action by action.                                            *)
LEMMA DraftTypePreserved == DraftTypeOK /\ StepsAreDone /\ [DraftNext]_draftVars => DraftTypeOK'
<1> SUFFICES ASSUME DraftTypeOK, StepsAreDone, [DraftNext]_draftVars PROVE DraftTypeOK'
    OBVIOUS
<1> USE DraftConstants DEF DraftTypeOK, StepsAreDone, store, Proceed
<1>1. ASSUME NEW c \in Calls, Lock(c) PROVE DraftTypeOK'
    BY <1>1 DEF Lock
<1>2. ASSUME NEW c \in Calls, Replay(c) PROVE DraftTypeOK'
    BY <1>2 DEF Replay
<1>3. ASSUME NEW c \in Calls, Refuse(c) PROVE DraftTypeOK'
    BY <1>3 DEF Refuse
<1>4. ASSUME NEW c \in Calls, WriteDraft(c) PROVE DraftTypeOK'
    BY <1>4 DEF WriteDraft
<1>5. ASSUME NEW c \in Calls, Answer(c) PROVE DraftTypeOK'
    BY <1>5 DEF Answer, Remembered
<1>6. ASSUME NEW c \in Calls, DraftThrows(c) PROVE DraftTypeOK'
    BY <1>6 DEF DraftThrows
<1>7. ASSUME NEW p \in Processes, ProcessDies(p) PROVE DraftTypeOK'
    BY <1>7 DEF ProcessDies
<1>8. CASE DraftTick
    BY <1>8 DEF DraftTick
<1>9. CASE UNCHANGED draftVars
    BY <1>9 DEF draftVars
<1> QED BY <1>1, <1>2, <1>3, <1>4, <1>5, <1>6, <1>7, <1>8, <1>9 DEF DraftNext

(* What the steps of a request have done stays done.                       *)
LEMMA StepsPreserved == DraftTypeOK /\ StepsAreDone /\ [DraftNext]_draftVars => StepsAreDone'
<1> SUFFICES ASSUME DraftTypeOK, StepsAreDone, [DraftNext]_draftVars PROVE StepsAreDone'
    OBVIOUS
<1> USE DraftConstants DEF DraftTypeOK, StepsAreDone, store, Proceed
<1>1. ASSUME NEW c \in Calls, Lock(c) PROVE StepsAreDone'
    BY <1>1 DEF Lock
<1>2. ASSUME NEW c \in Calls, Replay(c) PROVE StepsAreDone'
    BY <1>2 DEF Replay
<1>3. ASSUME NEW c \in Calls, Refuse(c) PROVE StepsAreDone'
    BY <1>3 DEF Refuse
<1>4. ASSUME NEW c \in Calls, WriteDraft(c) PROVE StepsAreDone'
    BY <1>4 DEF WriteDraft
<1>5. ASSUME NEW c \in Calls, Answer(c) PROVE StepsAreDone'
    BY <1>5 DEF Answer
<1>6. ASSUME NEW c \in Calls, DraftThrows(c) PROVE StepsAreDone'
    BY <1>6 DEF DraftThrows
<1>7. ASSUME NEW p \in Processes, ProcessDies(p) PROVE StepsAreDone'
    BY <1>7 DEF ProcessDies
<1>8. CASE DraftTick
    BY <1>8 DEF DraftTick
<1>9. CASE UNCHANGED draftVars
    BY <1>9 DEF draftVars
<1> QED BY <1>1, <1>2, <1>3, <1>4, <1>5, <1>6, <1>7, <1>8, <1>9 DEF DraftNext

(* A step in which no request gets the key, no entry goes and nobody       *)
(* starts, leaves the keys as they were.                                   *)
LEMMA KeysUntouched ==
    ASSUME DraftTypeOK, StepsAreDone, KeysAreKept, KeysAreApart,
           \A c \in Calls : HasKey(c)' => HasKey(c),
           started' = started, lost' = lost, until' = until,
           \A n \in Entries : kept[n] # "none" => kept'[n] # "none"
    PROVE  KeysAreKept' /\ KeysAreApart'
BY DraftConstants DEF KeysAreKept, KeysAreApart

(* Entries are kept, and requests under one key stay apart.                *)
LEMMA KeysPreserved ==
    DraftTypeOK /\ StepsAreDone /\ KeysAreKept /\ KeysAreApart /\ [DraftNext]_draftVars
        => KeysAreKept' /\ KeysAreApart'
<1> SUFFICES ASSUME DraftTypeOK, StepsAreDone, KeysAreKept, KeysAreApart,
                    [DraftNext]_draftVars
             PROVE  KeysAreKept' /\ KeysAreApart'
    OBVIOUS
<1> DEFINE Goal == KeysAreKept' /\ KeysAreApart'
<1> USE DraftConstants DEF DraftTypeOK, store, Proceed
<1>1. ASSUME NEW c \in Calls, Lock(c) PROVE Goal
    <2> DEFINE n == EntryOf[c]
    <2>1. /\ \A d \in Calls : d # c => (HasKey(d)' <=> HasKey(d))
          /\ started' = [started EXCEPT ![c] = clock] /\ lost' = lost
          /\ ~HasKey(c) /\ clock \in Nat /\ started \in [Calls -> Nat]
        BY <1>1 DEF Lock, HasKey, StepsAreDone
    <2>2. kept'[n] # "none" /\ until'[n] = clock + TTL
        BY <1>1 DEF Lock
    <2>3. \A m \in Entries : m # n => kept'[m] = kept[m] /\ until'[m] = until[m]
        BY <1>1 DEF Lock
    <2>4. KeysAreKept'
        BY <2>1, <2>2, <2>3 DEF KeysAreKept, StepsAreDone
    <2>5. ASSUME NEW d \in Calls, d # c, EntryOf[d] = n, HasKey(d), d \notin lost
          PROVE  started[d] + TTL < clock
        BY <2>5, <1>1 DEF Lock, Remembered, KeysAreKept
    <2>6. KeysAreApart'
        BY <2>1, <2>5 DEF KeysAreApart
    <2> QED BY <2>4, <2>6
<1>2. ASSUME NEW c \in Calls, Replay(c) PROVE Goal
    BY <1>2, KeysUntouched DEF Replay, HasKey
<1>3. ASSUME NEW c \in Calls, Refuse(c) PROVE Goal
    BY <1>3, KeysUntouched DEF Refuse, HasKey
<1>4. ASSUME NEW c \in Calls, WriteDraft(c) PROVE Goal
    BY <1>4, KeysUntouched DEF WriteDraft, HasKey
<1>5. ASSUME NEW c \in Calls, Answer(c) PROVE Goal
    BY <1>5, KeysUntouched DEF Answer, HasKey
<1>6. ASSUME NEW c \in Calls, DraftThrows(c) PROVE Goal
    BY <1>6, KeysUntouched DEF DraftThrows, HasKey
<1>7. ASSUME NEW p \in Processes, ProcessDies(p) PROVE Goal
    <2>1. /\ \A c \in Calls : HasKey(c)' => HasKey(c)
          /\ started' = started /\ lost \subseteq lost'
        BY <1>7 DEF ProcessDies, HasKey
    <2>2. \A c \in Calls : HasKey(c) /\ c \notin lost' => ProcessOf[EntryOf[c]] # p
        BY <1>7 DEF ProcessDies, HasKey, StepsAreDone
    <2>3. \A n \in Entries : ProcessOf[n] # p => kept'[n] = kept[n] /\ until'[n] = until[n]
        BY <1>7 DEF ProcessDies
    <2>4. KeysAreKept'
        BY <2>1, <2>2, <2>3 DEF KeysAreKept
    <2>5. KeysAreApart'
        BY <2>1 DEF KeysAreApart
    <2> QED BY <2>4, <2>5
<1>8. CASE DraftTick
    BY <1>8, KeysUntouched DEF DraftTick, HasKey
<1>9. CASE UNCHANGED draftVars
    BY <1>9, KeysUntouched DEF draftVars, HasKey
<1> QED BY <1>1, <1>2, <1>3, <1>4, <1>5, <1>6, <1>7, <1>8, <1>9 DEF DraftNext

(* An entry goes on answering for who made it.                             *)
LEMMA AnswersPreserved ==
    DraftInvariant /\ [DraftNext]_draftVars => EntriesAnswerTheirMaker' /\ AnswersAreOwn'
<1> SUFFICES ASSUME DraftTypeOK, StepsAreDone, EntriesAnswerTheirMaker, AnswersAreOwn,
                    [DraftNext]_draftVars
             PROVE  EntriesAnswerTheirMaker' /\ AnswersAreOwn'
    BY DEF DraftInvariant
<1> DEFINE Goal == EntriesAnswerTheirMaker' /\ AnswersAreOwn'
<1> USE DraftConstants DEF DraftTypeOK, EntriesAnswerTheirMaker, AnswersAreOwn, store, Proceed
<1>1. ASSUME NEW c \in Calls, Lock(c) PROVE Goal
    BY <1>1 DEF Lock
<1>2. ASSUME NEW c \in Calls, Replay(c) PROVE Goal
    BY <1>2 DEF Replay, Matches
<1>3. ASSUME NEW c \in Calls, Refuse(c) PROVE Goal
    BY <1>3 DEF Refuse
<1>4. ASSUME NEW c \in Calls, WriteDraft(c) PROVE Goal
    BY <1>4 DEF WriteDraft
<1>5. ASSUME NEW c \in Calls, Answer(c) PROVE Goal
    BY <1>5 DEF Answer
<1>6. ASSUME NEW c \in Calls, DraftThrows(c) PROVE Goal
    BY <1>6 DEF DraftThrows
<1>7. ASSUME NEW p \in Processes, ProcessDies(p) PROVE Goal
    BY <1>7 DEF ProcessDies
<1>8. CASE DraftTick
    BY <1>8 DEF DraftTick
<1>9. CASE UNCHANGED draftVars
    BY <1>9 DEF draftVars
<1> QED BY <1>1, <1>2, <1>3, <1>4, <1>5, <1>6, <1>7, <1>8, <1>9 DEF DraftNext

LEMMA DraftInvariantPreserved == DraftInvariant /\ [DraftNext]_draftVars => DraftInvariant'
BY DraftTypePreserved, StepsPreserved, KeysPreserved, AnswersPreserved DEF DraftInvariant

(* The conjunction above is inductive.                                     *)
THEOREM DraftsAreOrderly == DraftSpec => []DraftInvariant
BY DraftInvariantInit, DraftInvariantPreserved, PTL DEF DraftSpec

(* Clock, entries, requests and answers keep their types; a completed      *)
(* entry answers with a draft that is in the database.                     *)
THEOREM DraftTypeCorrect == DraftSpec => []DraftTypeOK
<1>1. DraftInvariant => DraftTypeOK
    BY DEF DraftInvariant
<1> QED BY <1>1, DraftsAreOrderly, PTL

(* createBookingDraft under one idempotency key: two requests make drafts  *)
(* of their own only if their process died in between or the first one's   *)
(* entry had lived for more than its time (idempotency.ts).                *)
THEOREM OneDraftPerKey == DraftSpec => []KeyMakesOneDraft
<1>1. DraftInvariant => KeyMakesOneDraft
    BY DEF DraftInvariant, KeysAreApart, HasKey, KeyMakesOneDraft, DraftTypeOK
<1> QED BY <1>1, DraftsAreOrderly, PTL

(* A cached answer is the draft of a request with the same payload, unless *)
(* that request had outlived its entry (completeIdempotency).              *)
THEOREM OwnAnswers == DraftSpec => []AnswersAreOwn
<1>1. DraftInvariant => AnswersAreOwn
    BY DEF DraftInvariant
<1> QED BY <1>1, DraftsAreOrderly, PTL

(***************************************************************************)
(* Referral codes and the leader's reward. A verdict VALID stands for a    *)
(* count that was below the limit, and a use that is no stray adds at most *)
(* itself to what was counted. As long as no two clerks have found no      *)
(* voucher at the same time, the one who has is alone, and what was found  *)
(* is still so.                                                            *)
(***************************************************************************)
(***************************************************************************)
(* The uses of a code.                                                     *)
(***************************************************************************)
(* A verdict VALID was given below the limit.                              *)
VerdictsWereCounted ==
    \A d \in Drafts : verdict[d] = "VALID" => Cardinality(seen[d]) < MaxUses

ReferralInvariant == ReferralTypeOK /\ VerdictsWereCounted /\ UsesWithinLimit

LEMMA ReferralConstants ==
    /\ IsFiniteSet(Drafts) /\ Nobody \notin Drafts /\ MaxUses \in Nat /\ MaxUses > 0
BY ReferralAssumption

(* A set of bookings in another has no more of them.                       *)
LEMMA FewerDrafts ==
    ASSUME NEW S, NEW T \in SUBSET Drafts, S \subseteq T
    PROVE  Cardinality(S) \in Nat /\ Cardinality(T) \in Nat /\ Cardinality(S) <= Cardinality(T)
<1>1. IsFiniteSet(T) BY FS_Subset, ReferralConstants
<1> QED BY <1>1, FS_Subset, FS_CardinalityType

(* One booking more.                                                       *)
LEMMA OneDraftMore ==
    ASSUME NEW S \in SUBSET Drafts, NEW d \in Drafts
    PROVE  Cardinality(S \cup {d}) \in Nat /\ Cardinality(S \cup {d}) <= Cardinality(S) + 1
<1>1. IsFiniteSet(S) BY FS_Subset, ReferralConstants
<1> QED BY <1>1, FS_AddElement, FS_CardinalityType

LEMMA ReferralInvariantInit == ReferralInit => ReferralInvariant
<1> SUFFICES ASSUME ReferralInit PROVE ReferralInvariant
    OBVIOUS
<1>1. ReferralTypeOK
    BY DEF ReferralInit, ReferralTypeOK, Verdicts
<1>2. VerdictsWereCounted
    BY DEF ReferralInit, VerdictsWereCounted
<1>3. Uses \ strays = {}
    BY DEF ReferralInit, Uses
<1> QED BY <1>1, <1>2, <1>3, FS_EmptySet, ReferralConstants
        DEF ReferralInvariant, UsesWithinLimit

(* What validateCode leaves.                                               *)
LEMMA ValidateCounts ==
    ASSUME ReferralTypeOK, VerdictsWereCounted, NEW d \in Drafts, Validate(d)
    PROVE  /\ verdict' \in [Drafts -> Verdicts] /\ seen' \in [Drafts -> SUBSET Drafts]
           /\ VerdictsWereCounted'
<1>1. PICK v \in Verdicts : /\ v = "VALID" => Cardinality(Uses) < MaxUses
                           /\ verdict' = [verdict EXCEPT ![d] = v]
    BY DEF Validate, CountedUses
<1>2. seen' = [seen EXCEPT ![d] = Uses] /\ Uses \in SUBSET Drafts
    BY DEF Validate, Uses
<1> QED BY <1>1, <1>2 DEF ReferralTypeOK, VerdictsWereCounted

(* The types, action by action.                                            *)
LEMMA ReferralTypePreserved == ReferralInvariant /\ [ReferralNext]_referralVars => ReferralTypeOK'
<1> SUFFICES ASSUME ReferralTypeOK, VerdictsWereCounted, [ReferralNext]_referralVars
             PROVE  ReferralTypeOK'
    BY DEF ReferralInvariant
<1> USE ReferralConstants DEF ReferralTypeOK, Verdicts
<1>1. ASSUME NEW d \in Drafts, ValidateDraft(d) PROVE ReferralTypeOK'
    BY <1>1, ValidateCounts DEF ValidateDraft
<1>2. ASSUME NEW d \in Drafts, CreateDraft(d) PROVE ReferralTypeOK'
    BY <1>2 DEF CreateDraft, Attribute
<1>3. ASSUME NEW d \in Drafts, ValidateAmendment(d) PROVE ReferralTypeOK'
    BY <1>3, ValidateCounts DEF ValidateAmendment
<1>4. ASSUME NEW d \in Drafts, ConfirmBooking(d) PROVE ReferralTypeOK'
    BY <1>4 DEF ConfirmBooking
<1>5. ASSUME NEW d \in Drafts, EndBooking(d) PROVE ReferralTypeOK'
    BY <1>5 DEF EndBooking
<1>6. ASSUME NEW d \in Drafts, ComesBack(d) PROVE ReferralTypeOK'
    BY <1>6 DEF ComesBack
<1>7. CASE RegisterCode
    BY <1>7 DEF RegisterCode
<1>8. CASE FindUnmatched
    BY <1>8 DEF FindUnmatched
<1>9. CASE LinkUnmatched
    BY <1>9 DEF LinkUnmatched
<1>10. CASE Amend
    BY <1>10 DEF Amend, Attribute
<1>11. CASE UNCHANGED referralVars
    BY <1>11 DEF referralVars
<1> QED BY <1>1, <1>2, <1>3, <1>4, <1>5, <1>6, <1>7, <1>8, <1>9, <1>10, <1>11 DEF ReferralNext

(* A verdict goes on standing for its count.                               *)
LEMMA VerdictsPreserved ==
    ReferralInvariant /\ [ReferralNext]_referralVars => VerdictsWereCounted'
<1> SUFFICES ASSUME ReferralTypeOK, VerdictsWereCounted, [ReferralNext]_referralVars
             PROVE  VerdictsWereCounted'
    BY DEF ReferralInvariant
<1>1. ASSUME UNCHANGED <<verdict, seen>> PROVE VerdictsWereCounted'
    BY <1>1 DEF VerdictsWereCounted
<1>2. ASSUME NEW d \in Drafts, Attribute(d) PROVE VerdictsWereCounted'
    BY <1>2 DEF Attribute, VerdictsWereCounted, ReferralTypeOK
<1>3. ASSUME NEW d \in Drafts, ValidateDraft(d) \/ ValidateAmendment(d)
      PROVE  VerdictsWereCounted'
    BY <1>3, ValidateCounts DEF ValidateDraft, ValidateAmendment
<1>4. ASSUME NEW d \in Drafts, CreateDraft(d) PROVE VerdictsWereCounted'
    BY <1>4, <1>2 DEF CreateDraft
<1>5. CASE Amend
    BY <1>5, <1>2 DEF Amend, ReferralTypeOK
<1> QED BY <1>1, <1>3, <1>4, <1>5
        DEF ReferralNext, ConfirmBooking, EndBooking, ComesBack, RegisterCode,
            FindUnmatched, LinkUnmatched, referralVars

(* A step that adds no use but strays keeps the limit.                     *)
LEMMA OnlyStraysAdded ==
    ASSUME ReferralTypeOK, UsesWithinLimit, ReferralTypeOK', Uses' \ strays' \subseteq Uses \ strays
    PROVE  UsesWithinLimit'
<1>1. Uses \ strays \subseteq Drafts
    BY DEF Uses
<1> QED BY <1>1, FewerDrafts, ReferralConstants DEF UsesWithinLimit

(* The use a booking gets by what validateCode has said.                   *)
LEMMA AttributedWithinLimit ==
    ASSUME ReferralTypeOK, VerdictsWereCounted, UsesWithinLimit, ReferralTypeOK',
           NEW d \in Drafts, Attribute(d),
           \A e \in Drafts \ {d} : fate'[e] = fate[e]
    PROVE  UsesWithinLimit'
<1>1. Uses' \subseteq Uses \cup {d} /\ Uses' \subseteq Drafts
    BY DEF Attribute, Uses, ReferralTypeOK
<1>2. CASE verdict[d] = "VALID" /\ Uses \ {d} \subseteq seen[d]
    <2>1. Uses' \ strays' \subseteq seen[d] \cup {d}
        BY <1>1, <1>2
    <2>2. Cardinality(seen[d]) < MaxUses /\ seen[d] \in SUBSET Drafts
        BY <1>2 DEF VerdictsWereCounted, ReferralTypeOK
    <2>3. /\ Cardinality(seen[d] \cup {d}) \in Nat
          /\ Cardinality(seen[d] \cup {d}) <= Cardinality(seen[d]) + 1
          /\ Cardinality(seen[d]) \in Nat
        BY <2>2, OneDraftMore, FewerDrafts
    <2>4. /\ Cardinality(Uses' \ strays') \in Nat
          /\ Cardinality(Uses' \ strays') <= Cardinality(seen[d] \cup {d})
        BY <2>1, <2>2, FewerDrafts
    <2> QED BY <2>2, <2>3, <2>4, ReferralConstants DEF UsesWithinLimit
<1>3. CASE verdict[d] # "VALID"
    <2>1. Uses' \subseteq Uses /\ strays' = strays
        BY <1>3 DEF Attribute, Uses, ReferralTypeOK
    <2> QED BY <2>1, OnlyStraysAdded
<1>4. CASE verdict[d] = "VALID" /\ ~(Uses \ {d} \subseteq seen[d])
    <2>1. strays' = strays \cup {d}
        BY <1>4 DEF Attribute
    <2> QED BY <2>1, <1>1, OnlyStraysAdded
<1> QED BY <1>2, <1>3, <1>4

(* The limit, action by action.                                            *)
LEMMA LimitPreserved ==
    ReferralInvariant /\ [ReferralNext]_referralVars => UsesWithinLimit'
<1> SUFFICES ASSUME ReferralTypeOK, VerdictsWereCounted, UsesWithinLimit, ReferralTypeOK',
                    [ReferralNext]_referralVars
             PROVE  UsesWithinLimit'
    BY ReferralTypePreserved DEF ReferralInvariant
<1> USE DEF ReferralTypeOK
<1>1. ASSUME UNCHANGED <<use, fate, strays>> PROVE UsesWithinLimit'
    BY <1>1, OnlyStraysAdded DEF Uses
<1>2. ASSUME NEW d \in Drafts, CreateDraft(d) PROVE UsesWithinLimit'
    BY <1>2, AttributedWithinLimit DEF CreateDraft
<1>3. ASSUME NEW d \in Drafts, ConfirmBooking(d) PROVE UsesWithinLimit'
    BY <1>3, OnlyStraysAdded DEF ConfirmBooking, Uses
<1>4. ASSUME NEW d \in Drafts, EndBooking(d) PROVE UsesWithinLimit'
    BY <1>4, OnlyStraysAdded DEF EndBooking, Uses
<1>5. ASSUME NEW d \in Drafts, ComesBack(d) PROVE UsesWithinLimit'
    BY <1>5, OnlyStraysAdded DEF ComesBack, Uses
<1>6. CASE LinkUnmatched
    BY <1>6, OnlyStraysAdded DEF LinkUnmatched, Uses
<1>7. CASE Amend
    BY <1>7, AttributedWithinLimit DEF Amend
<1> QED BY <1>1, <1>2, <1>3, <1>4, <1>5, <1>6, <1>7
        DEF ReferralNext, ValidateDraft, ValidateAmendment, RegisterCode, FindUnmatched,
            referralVars

LEMMA ReferralInvariantPreserved ==
    ReferralInvariant /\ [ReferralNext]_referralVars => ReferralInvariant'
BY ReferralTypePreserved, VerdictsPreserved, LimitPreserved DEF ReferralInvariant

(* Codes, verdicts, uses and bookings keep their types; a booking has a    *)
(* row in BookingReferral from its creation on.                            *)
THEOREM ReferralTypeCorrect == ReferralSpec => []ReferralTypeOK
<1>1. ReferralInvariant => ReferralTypeOK
    BY DEF ReferralInvariant
<1> QED BY <1>1, ReferralInvariantInit, ReferralInvariantPreserved, PTL DEF ReferralSpec

(* maxUses (ReferralDomainService): for every limit and every number of    *)
(* bookings, the uses that a count has stood for are within the limit,     *)
(* whatever bookings end and come back by a capture, a receipt or a        *)
(* transfer.                                                               *)
THEOREM LimitHolds == ReferralSpec => []UsesWithinLimit
<1>1. ReferralInvariant => UsesWithinLimit
    BY DEF ReferralInvariant
<1> QED BY <1>1, ReferralInvariantInit, ReferralInvariantPreserved, PTL DEF ReferralSpec

(***************************************************************************)
(* The reward of a leader.                                                 *)
(***************************************************************************)
Clear(s) == settling[s] = "clear"

(* A clerk who has found no voucher is the only one, and there is none.    *)
ClearIsAlone ==
    \A s \in Settlers : Clear(s) =>
        /\ \A o \in Settlers : Clear(o) => o = s
        /\ ~Covered(passengers[s])

RewardInvariant == RewardTypeOK /\ (doubled \/ ClearIsAlone) /\ SettledOnce

(* The passengers of the confirmed bookings are no more than there are.    *)
LEMMA PassengersCount ==
    ASSUME RewardTypeOK
    PROVE  /\ Counts \subseteq Nat /\ 0 \in Counts
           /\ ConfirmedPax \in Counts /\ Quota \in Nat /\ Quota > 0 /\ MaxVouchers \in Nat
<1>1. IsFiniteSet(Bookings) /\ confirmed \in SUBSET Bookings
    BY RewardAssumption DEF RewardTypeOK
<1>2. Cardinality(Bookings) \in Nat /\ Cardinality(confirmed) \in Nat
    BY <1>1, FS_Subset, FS_CardinalityType
<1>3. Cardinality(confirmed) <= Cardinality(Bookings)
    BY <1>1, FS_Subset
<1> QED BY <1>2, <1>3, RewardAssumption DEF Counts, ConfirmedPax

LEMMA RewardInvariantInit == RewardInit => RewardInvariant
<1> SUFFICES ASSUME RewardInit PROVE RewardInvariant
    OBVIOUS
<1>1. Cardinality(Bookings) \in Nat
    BY RewardAssumption, FS_CardinalityType
<1>2. Counts \subseteq Nat /\ 0 \in Counts /\ MaxVouchers \in Nat
    BY <1>1, RewardAssumption DEF Counts
<1>3. RewardTypeOK
    <2>1. vouchers \in [Counts -> 0..MaxVouchers]
        BY <1>2 DEF RewardInit
    <2>2. /\ settling \in [Settlers -> {"idle", "counted", "clear"}]
          /\ passengers \in [Settlers -> Counts]
          /\ \A s \in Settlers : settling[s] = "idle" <=> passengers[s] = 0
        BY <1>2 DEF RewardInit
    <2> QED BY <2>1, <2>2 DEF RewardInit, RewardTypeOK
<1>4. ClearIsAlone /\ SettledOnce
    BY <1>2 DEF RewardInit, ClearIsAlone, Clear, SettledOnce
<1> QED BY <1>3, <1>4 DEF RewardInvariant

(* The types, action by action.                                            *)
LEMMA RewardTypePreserved == RewardTypeOK /\ [RewardNext]_rewardVars => RewardTypeOK'
<1> SUFFICES ASSUME RewardTypeOK, [RewardNext]_rewardVars PROVE RewardTypeOK'
    OBVIOUS
<1> USE PassengersCount DEF RewardTypeOK
<1>1. ASSUME NEW b \in Bookings, Confirm(b) \/ CancelBooking(b) PROVE RewardTypeOK'
    BY <1>1 DEF Confirm, CancelBooking
<1>2. ASSUME NEW s \in Settlers, CountPassengers(s) PROVE RewardTypeOK'
    BY <1>2 DEF CountPassengers, Settling
<1>3. ASSUME NEW s \in Settlers, LookForVoucher(s) PROVE RewardTypeOK'
    BY <1>3 DEF LookForVoucher, Settling
<1>4. ASSUME NEW s \in Settlers, WriteVoucher(s) PROVE RewardTypeOK'
    <2>1. vouchers' \in [Counts -> 0..MaxVouchers]
        BY <1>4 DEF WriteVoucher
    <2> QED BY <1>4, <2>1 DEF WriteVoucher, Settling
<1>5. CASE UNCHANGED rewardVars
    BY <1>5 DEF rewardVars
<1> QED BY <1>1, <1>2, <1>3, <1>4, <1>5 DEF RewardNext

(* A clerk who has found no voucher stays alone.                           *)
LEMMA RewardInvariantPreserved == RewardInvariant /\ [RewardNext]_rewardVars => RewardInvariant'
<1> SUFFICES ASSUME RewardInvariant, RewardTypeOK, doubled \/ ClearIsAlone, SettledOnce,
                    [RewardNext]_rewardVars, RewardTypeOK'
             PROVE  (doubled \/ ClearIsAlone)' /\ SettledOnce'
    BY RewardTypePreserved DEF RewardInvariant
<1> DEFINE Goal == (doubled \/ ClearIsAlone)' /\ SettledOnce'
<1> USE PassengersCount DEF RewardTypeOK
<1>1. ASSUME UNCHANGED <<vouchers, doubled>>,
             \A s \in Settlers : Clear(s)' => Clear(s) /\ passengers'[s] = passengers[s]
      PROVE  Goal
    BY <1>1 DEF ClearIsAlone, Covered, SettledOnce
<1>2. ASSUME NEW b \in Bookings, Confirm(b) \/ CancelBooking(b) PROVE Goal
    BY <1>2, <1>1 DEF Confirm, CancelBooking, Clear
<1>3. ASSUME NEW s \in Settlers, CountPassengers(s) PROVE Goal
    BY <1>3, <1>1 DEF CountPassengers, Settling, Clear
<1>4. ASSUME NEW s \in Settlers, LookForVoucher(s) PROVE Goal
    <2>1. CASE Covered(passengers[s]) /\ settling' = [settling EXCEPT ![s] = "idle"]
        <3>1. passengers' = [passengers EXCEPT ![s] = 0] /\ UNCHANGED <<vouchers, doubled>>
            BY <1>4, <2>1 DEF LookForVoucher, Settling
        <3> QED BY <2>1, <3>1, <1>1 DEF Clear
    <2>2. CASE /\ ~Covered(passengers[s])
               /\ Settling(s, "counted", "clear", passengers[s])
               /\ doubled' = (doubled \/ \E o \in Settlers : settling[o] = "clear")
        <3>1. vouchers' = vouchers /\ passengers' = passengers
              /\ settling' = [settling EXCEPT ![s] = "clear"]
            BY <1>4, <2>2 DEF LookForVoucher, Settling
        <3>2. SettledOnce'
            BY <2>2, <3>1 DEF SettledOnce
        <3>3. CASE doubled'
            BY <3>2, <3>3
        <3>4. CASE ~doubled'
            BY <2>2, <3>1, <3>2, <3>4 DEF ClearIsAlone, Clear, Covered
        <3> QED BY <3>3, <3>4
    <2> QED BY <1>4, <2>1, <2>2 DEF LookForVoucher, Settling
<1>5. ASSUME NEW s \in Settlers, WriteVoucher(s) PROVE Goal
    <2>1. CASE doubled
        BY <1>5, <2>1 DEF WriteVoucher, SettledOnce
    <2>2. CASE ~doubled
        <3>1. Clear(s) /\ settling' = [settling EXCEPT ![s] = "idle"] /\ ~doubled'
            BY <1>5, <2>2 DEF WriteVoucher, Settling, Clear
        <3>2. \A o \in Settlers : ~Clear(o)'
            BY <2>2, <3>1 DEF ClearIsAlone, Clear
        <3>3. vouchers[passengers[s]] = 0 /\ passengers[s] \in Counts
            BY <2>2, <3>1 DEF ClearIsAlone, Covered
        <3>4. vouchers' = [vouchers EXCEPT ![passengers[s]] = 1]
            BY <1>5, <3>3 DEF WriteVoucher
        <3> QED BY <2>2, <3>2, <3>3, <3>4 DEF ClearIsAlone, SettledOnce
    <2> QED BY <2>1, <2>2
<1>6. CASE UNCHANGED rewardVars
    BY <1>6, <1>1 DEF rewardVars, Clear
<1> QED BY <1>2, <1>3, <1>4, <1>5, <1>6 DEF RewardNext

(* Clerks, counts and vouchers keep their types.                           *)
THEOREM RewardTypeCorrect == RewardSpec => []RewardTypeOK
<1>1. RewardInvariant => RewardTypeOK
    BY DEF RewardInvariant
<1> QED BY <1>1, RewardInvariantInit, RewardInvariantPreserved, PTL DEF RewardSpec

(* settleLeaderRewardAction: for every number of clerks and bookings, one  *)
(* number of passengers is settled twice only if two clerks had both found *)
(* no voucher before either wrote one.                                     *)
THEOREM RewardsSettleOnce == RewardSpec => []SettledOnce
<1>1. RewardInvariant => SettledOnce
    BY DEF RewardInvariant
<1> QED BY <1>1, RewardInvariantInit, RewardInvariantPreserved, PTL DEF RewardSpec

(* The status of one hold of a cart.                                       *)
Held(c, i) == seat[<<c, i>>]

(* Before the booking: the holds taken so far, none of which has ended.    *)
TakenInTurn(c) ==
    /\ line[c] >= 1
    /\ \A i \in LinesOf(c) : line[c] <= i => Held(c, i) = "NONE"
    /\ progress[c] # "over" =>
         reservation[c] = "NONE" /\ \A i \in LinesOf(c) : <<c, i>> \notin past
    /\ progress[c] = "holding" => \A i \in LinesOf(c) : i < line[c] => Held(c, i) = "ACTIVE"
    /\ progress[c] = "over" /\ reservation[c] = "NONE" =>
         \A i \in LinesOf(c) : Held(c, i) = "ACTIVE" => <<c, i>> \in past \cup forgotten

(* Afterwards: the holds by what has happened to the booking. A payment    *)
(* leaves no hold active, so what is written over the booking later finds  *)
(* none to release but the first one, which only a refund gives back.      *)
SettledTogether(c) ==
    /\ c \notin paid => \A i \in LinesOf(c) : Held(c, i) # "CAPTURED"
    /\ c \notin paid /\ reservation[c] # "NONE" =>
         \A i \in LinesOf(c) : Held(c, i) \in {"ACTIVE", "EXPIRED"}
    /\ c \in paid =>
         /\ \A i \in LinesOf(c) : \/ Held(c, i) \in {"CAPTURED", "EXPIRED"}
                                  \/ i = 1 /\ c \in refunded /\ Held(c, i) = "RELEASED"
         /\ reservation[c] = "CONFIRMED" \/ c \in overwritten \cup refunded
    /\ c \in refunded => \A i \in LinesOf(c) : Held(c, i) = "CAPTURED" => i > 1
    /\ c \in viewed \/ (reservation[c] = "EXPIRED" /\ c \notin paid) =>
         \A i \in LinesOf(c) : <<c, i>> \in past

InOrder(c) == TakenInTurn(c) /\ SettledTogether(c)

CartInvariant == CartTypeOK /\ \A c \in Carts : InOrder(c)

LEMMA CartConstants ==
    /\ MaxMishaps \in Nat
    /\ \A c \in Carts : Len(Contents[c]) \in Nat /\ LinesOf(c) \subseteq Nat
    /\ \A c \in Carts : \A i \in LinesOf(c) : i >= 1
<1>1. \A c \in Carts : Len(Contents[c]) \in Nat
    BY CartAssumption
<1> QED BY <1>1, CartAssumption DEF LinesOf

(* Lines are pairs of a cart and a position in it.                         *)
LEMMA LinesArePairs ==
    /\ \A c \in Carts : \A i \in LinesOf(c) : <<c, i>> \in Lines
    /\ \A l \in Lines : l = <<l[1], l[2]>> /\ l[1] \in Carts /\ l[2] \in LinesOf(l[1])
    /\ \A c \in Carts : \A S \in SUBSET LinesOf(c) : ({c} \X S) \subseteq Lines
BY DEF Lines

(* What a change of some holds of one cart does to a line.                 *)
LEMMA BecomesLine ==
    ASSUME CartTypeOK, NEW c \in Carts, NEW S \in SUBSET LinesOf(c),
           NEW status \in {"ACTIVE", "CAPTURED", "RELEASED", "EXPIRED"}, Becomes(c, S, status)
    PROVE  /\ seat' \in [Lines -> {"NONE", "ACTIVE", "CAPTURED", "RELEASED", "EXPIRED"}]
           /\ \A d \in Carts : \A i \in LinesOf(d) :
                seat'[<<d, i>>] = IF d = c /\ i \in S THEN status ELSE seat[<<d, i>>]
BY LinesArePairs DEF Becomes, CartTypeOK

LEMMA CartInvariantInit == CartInit => CartInvariant
<1> SUFFICES ASSUME CartInit PROVE CartInvariant
    OBVIOUS
<1>1. CartTypeOK
    BY CartConstants DEF CartInit, CartTypeOK
<1>2. \A c \in Carts : InOrder(c)
    BY CartConstants, LinesArePairs
       DEF CartInit, InOrder, TakenInTurn, SettledTogether, Held
<1> QED BY <1>1, <1>2 DEF CartInvariant

(* What a mishap adds to the releases that are forgotten.                  *)
LEMMA MishapLine ==
    ASSUME CartTypeOK, NEW c \in Carts, NEW S \in SUBSET LinesOf(c), Mishap(c, S)
    PROVE  /\ forgotten' \subseteq Lines /\ mishaps' \in 0..MaxMishaps
           /\ \A d \in Carts : \A i \in LinesOf(d) :
                <<d, i>> \in forgotten' <=> <<d, i>> \in forgotten \/ (d = c /\ i \in S)
BY LinesArePairs, CartConstants DEF Mishap, CartTypeOK

(* A step of one cart leaves the others in order.                          *)
OnlyConcerns(c) ==
    \A d \in Carts \ {c} :
        /\ progress'[d] = progress[d] /\ line'[d] = line[d]
        /\ reservation'[d] = reservation[d]
        /\ d \in paid' <=> d \in paid
        /\ d \in viewed' <=> d \in viewed
        /\ d \in refunded' <=> d \in refunded
        /\ d \in overwritten' <=> d \in overwritten
        /\ \A i \in LinesOf(d) :
             /\ seat'[<<d, i>>] = seat[<<d, i>>]
             /\ <<d, i>> \in past' <=> <<d, i>> \in past
             /\ <<d, i>> \in forgotten => <<d, i>> \in forgotten'

(* A step of one cart leaves the others in order.                          *)
LEMMA OthersInOrder ==
    ASSUME NEW c \in Carts, NEW d \in Carts, d # c, OnlyConcerns(c), InOrder(d)
    PROVE  InOrder(d)'
BY DEF OnlyConcerns, InOrder, TakenInTurn, SettledTogether, Held

(***************************************************************************)
(* A step of one cart: the types, the other carts, and its own order.      *)
(***************************************************************************)
StepOf(c) ==
    \/ TakeHold(c) \/ SoldOut(c) \/ WriteBooking(c) \/ BookingFails(c)
    \/ GiveBack(c) \/ GivenBack(c) \/ Abandon(c)
    \/ CaptureAll(c) \/ PayFromWallet(c) \/ HandInReceipt(c) \/ ApproveReceipt(c)
    \/ CancelCart(c) \/ RefundCart(c)
    \/ ExpireBooking(c) \/ ViewBooking(c) \/ ViewExpires(c)
    \/ TimePasses(c) \/ SweepHolds(c)

(* The types, action by action.                                            *)
LEMMA StepKeepsTypes ==
    ASSUME CartTypeOK, NEW c \in Carts, InOrder(c), StepOf(c)
    PROVE  CartTypeOK' /\ OnlyConcerns(c)
<1> DEFINE Goal == CartTypeOK' /\ OnlyConcerns(c)
<1>a. Acquired(c) \in SUBSET LinesOf(c) /\ ActiveHolds(c) \in SUBSET LinesOf(c)
    BY DEF Acquired, ActiveHolds
<1> USE CartConstants, LinesArePairs, <1>a DEF CartTypeOK, OnlyConcerns, upkeep
<1>1. CASE TakeHold(c)
    BY <1>1, BecomesLine DEF TakeHold, Goes
<1>2. CASE SoldOut(c)
    BY <1>2, BecomesLine DEF SoldOut, Goes
<1>3. CASE WriteBooking(c)
    BY <1>3 DEF WriteBooking, Goes
<1>4. CASE BookingFails(c)
    BY <1>4, BecomesLine DEF BookingFails, Goes
<1>5. CASE GiveBack(c)
    <2>1. PICK i \in Acquired(c) :
            \/ Becomes(c, {i}, "RELEASED") /\ UNCHANGED <<forgotten, mishaps>>
            \/ Mishap(c, {i}) /\ UNCHANGED seat
        BY <1>5 DEF GiveBack
    <2>2. {i} \in SUBSET LinesOf(c)
        BY <2>1
    <2>3. UNCHANGED <<past, line, reservation, upkeep>> /\ Goes(c, "undoing", "undoing")
        BY <1>5 DEF GiveBack
    <2>4. /\ seat' \in [Lines -> {"NONE", "ACTIVE", "CAPTURED", "RELEASED", "EXPIRED"}]
          /\ \A d \in Carts \ {c} : \A j \in LinesOf(d) : seat'[<<d, j>>] = seat[<<d, j>>]
        BY <2>1, <2>2, BecomesLine
    <2>5. /\ forgotten' \subseteq Lines /\ mishaps' \in 0..MaxMishaps
          /\ \A d \in Carts \ {c} : \A j \in LinesOf(d) :
                <<d, j>> \in forgotten => <<d, j>> \in forgotten'
        BY <2>1, <2>2, MishapLine
    <2> QED BY <2>3, <2>4, <2>5 DEF Goes
<1>6. CASE GivenBack(c)
    BY <1>6, BecomesLine DEF GivenBack, Goes
<1>7. CASE Abandon(c)
    BY <1>7, MishapLine DEF Abandon, Goes
<1>8. CASE Confirms(c)
    BY <1>8, BecomesLine DEF Confirms, Turns, Booked
<1>9. CASE CaptureAll(c) \/ PayFromWallet(c) \/ ApproveReceipt(c)
    BY <1>8, <1>9 DEF CaptureAll, PayFromWallet, ApproveReceipt
<1>10. CASE HandInReceipt(c)
    BY <1>10 DEF HandInReceipt, Overwrites, Turns, Booked
<1>11. CASE CancelCart(c)
    <2>1. ({1} \cap ActiveHolds(c)) \in SUBSET LinesOf(c)
        BY <1>a
    <2>2. /\ seat' \in [Lines -> {"NONE", "ACTIVE", "CAPTURED", "RELEASED", "EXPIRED"}]
          /\ \A d \in Carts \ {c} : \A j \in LinesOf(d) : seat'[<<d, j>>] = seat[<<d, j>>]
        BY <1>11, <2>1, BecomesLine DEF CancelCart
    <2> QED BY <1>11, <2>2 DEF CancelCart, Overwrites, Turns, Booked
<1>12. CASE RefundCart(c)
    <2> DEFINE first == {i \in LinesOf(c) : i = 1 /\ seat[<<c, i>>] \in {"ACTIVE", "CAPTURED"}}
    <2>1. first \in SUBSET LinesOf(c) /\ Becomes(c, first, "RELEASED")
        BY <1>12 DEF RefundCart
    <2>2. /\ seat' \in [Lines -> {"NONE", "ACTIVE", "CAPTURED", "RELEASED", "EXPIRED"}]
          /\ \A d \in Carts \ {c} : \A j \in LinesOf(d) : seat'[<<d, j>>] = seat[<<d, j>>]
        <3> HIDE DEF first
        <3> QED BY <2>1, BecomesLine
    <2> QED BY <1>12, <2>2 DEF RefundCart, Turns, Booked
<1>13. CASE ExpireBooking(c)
    BY <1>13 DEF ExpireBooking, Turns, Booked
<1>14. CASE ViewBooking(c)
    BY <1>14 DEF ViewBooking, Open
<1>15. CASE ViewExpires(c)
    BY <1>15 DEF ViewExpires, Overwrites, Turns, Booked
<1>16. CASE TimePasses(c)
    BY <1>16, BecomesLine DEF TimePasses
<1>17. CASE SweepHolds(c)
    BY <1>17, BecomesLine DEF SweepHolds
<1> QED BY <1>1, <1>2, <1>3, <1>4, <1>5, <1>6, <1>7, <1>9, <1>10, <1>11, <1>12, <1>13, <1>14,
           <1>15, <1>16, <1>17
   DEF StepOf

(* The order of a cart, action by action.                                  *)
LEMMA StepKeepsOrder ==
    ASSUME CartTypeOK, NEW c \in Carts, InOrder(c), StepOf(c)
    PROVE  InOrder(c)'
<1>a. Acquired(c) \in SUBSET LinesOf(c) /\ ActiveHolds(c) \in SUBSET LinesOf(c)
    BY DEF Acquired, ActiveHolds
<1> USE CartConstants, <1>a
    DEF CartTypeOK, InOrder, TakenInTurn, SettledTogether, Held, upkeep
<1>1. CASE TakeHold(c)
    <2>1. /\ progress[c] = "holding" /\ progress'[c] = "holding" /\ line'[c] = line[c] + 1
          /\ UNCHANGED <<past, reservation, upkeep, forgotten>>
          /\ line[c] \in LinesOf(c) /\ Becomes(c, {line[c]}, "ACTIVE")
        BY <1>1 DEF TakeHold, Goes
    <2>2. {line[c]} \in SUBSET LinesOf(c) /\ Becomes(c, {line[c]}, "ACTIVE")
        BY <2>1
    <2>3. \A i \in LinesOf(c) : seat'[<<c, i>>] = IF i = line[c] THEN "ACTIVE" ELSE seat[<<c, i>>]
        BY <2>2, BecomesLine
    <2>4. \A i \in LinesOf(c) : i \in Nat /\ (i < line[c] + 1 => i < line[c] \/ i = line[c])
        BY <2>1
    <2>5. /\ line'[c] >= 1
          /\ \A i \in LinesOf(c) : line'[c] <= i => line[c] <= i /\ i # line[c]
        BY <2>1
    <2>6. \A i \in LinesOf(c) : line'[c] <= i => seat'[<<c, i>>] = "NONE"
        BY <2>3, <2>5
    <2>7. \A i \in LinesOf(c) : i < line'[c] => seat'[<<c, i>>] = "ACTIVE"
        BY <2>1, <2>3, <2>4
    <2>8. TakenInTurn(c)'
        BY <2>1, <2>3, <2>5, <2>6, <2>7
    <2>9. SettledTogether(c)'
        BY <2>1, <2>3
    <2> QED BY <2>8, <2>9
<1>2. CASE SoldOut(c)
    BY <1>2 DEF SoldOut, Goes
<1>3. CASE WriteBooking(c)
    <2>1. /\ progress[c] = "holding" /\ progress'[c] = "over" /\ reservation'[c] = "HELD"
          /\ UNCHANGED <<seat, past, line, upkeep, forgotten>> /\ line[c] \notin LinesOf(c)
        BY <1>3 DEF WriteBooking, Goes
    <2>2. \A i \in LinesOf(c) : i < line[c]
        BY <2>1 DEF LinesOf
    <2> QED BY <2>1, <2>2
<1>4. CASE BookingFails(c)
    BY <1>4 DEF BookingFails, Goes
<1>5. CASE GiveBack(c)
    <2>1. PICK i \in Acquired(c) :
            \/ Becomes(c, {i}, "RELEASED") /\ UNCHANGED <<forgotten, mishaps>>
            \/ Mishap(c, {i}) /\ UNCHANGED seat
        BY <1>5 DEF GiveBack
    <2>2. /\ progress[c] = "undoing" /\ progress'[c] = "undoing"
          /\ UNCHANGED <<past, line, reservation, upkeep>>
        BY <1>5 DEF GiveBack, Goes
    <2>3. {i} \in SUBSET LinesOf(c) /\ i < line[c]
        BY <2>1 DEF Acquired
    <2>4. \A j \in LinesOf(c) : seat'[<<c, j>>] = seat[<<c, j>>]
                               \/ (j = i /\ seat'[<<c, j>>] = "RELEASED")
        BY <2>1, <2>3, BecomesLine
    <2>5. TakenInTurn(c)'
        BY <2>2, <2>3, <2>4
    <2>6. SettledTogether(c)'
        BY <2>2, <2>4
    <2> QED BY <2>5, <2>6
<1>6. CASE GivenBack(c)
    BY <1>6 DEF GivenBack, Goes, Acquired
<1>7. CASE Abandon(c)
    <2>1. /\ progress[c] # "over" /\ progress'[c] = "over"
          /\ UNCHANGED <<seat, past, line, reservation, upkeep>>
        BY <1>7 DEF Abandon, Goes
    <2>2. \A i \in LinesOf(c) : i \in Acquired(c) => <<c, i>> \in forgotten'
        <3>1. PICK S \in SUBSET LinesOf(c) : S = Acquired(c) /\ Mishap(c, S)
            BY <1>7 DEF Abandon
        <3> QED BY <3>1, MishapLine
    <2>3. ASSUME NEW i \in LinesOf(c), seat[<<c, i>>] = "ACTIVE"
          PROVE  i \in Acquired(c)
        <3>1. ~(line[c] <= i)
            BY Zenon, <2>3 DEF TakenInTurn, InOrder, Held
        <3>2. line[c] \in Nat /\ i \in Nat
            BY <2>3
        <3>3. i < line[c]
            BY <3>1, <3>2
        <3> QED BY <2>3, <3>3 DEF Acquired
    <2> QED BY <2>1, <2>2, <2>3
<1>8. CASE Confirms(c)
    <2>1. /\ reservation[c] # "NONE" /\ reservation'[c] = "CONFIRMED" /\ c \in paid'
          /\ UNCHANGED <<past, progress, line, forgotten, viewed, refunded, overwritten>>
        BY <1>8 DEF Confirms, Turns, Booked
    <2>2. \A i \in LinesOf(c) :
            seat'[<<c, i>>] = IF seat[<<c, i>>] = "ACTIVE" THEN "CAPTURED" ELSE seat[<<c, i>>]
        <3>1. PICK S \in SUBSET LinesOf(c) : S = ActiveHolds(c) /\ Becomes(c, S, "CAPTURED")
            BY <1>8 DEF Confirms
        <3>2. \A i \in LinesOf(c) :
                seat'[<<c, i>>] = IF i \in S THEN "CAPTURED" ELSE seat[<<c, i>>]
            BY <3>1, BecomesLine
        <3> QED BY <3>1, <3>2 DEF ActiveHolds
    <2>3. \A i \in LinesOf(c) : \/ seat'[<<c, i>>] \in {"CAPTURED", "EXPIRED"}
                                \/ i = 1 /\ c \in refunded /\ seat'[<<c, i>>] = "RELEASED"
        BY <2>1, <2>2
    <2>4. c \in refunded => \A i \in LinesOf(c) : seat'[<<c, i>>] = "CAPTURED" => i > 1
        BY <2>2
    <2>5. TakenInTurn(c)'
        BY <2>1, <2>2
    <2>6. SettledTogether(c)'
        BY <2>1, <2>3, <2>4
    <2> QED BY <2>5, <2>6
<1>9. CASE CaptureAll(c) \/ PayFromWallet(c) \/ ApproveReceipt(c)
    BY <1>8, <1>9 DEF CaptureAll, PayFromWallet, ApproveReceipt
<1>10. CASE HandInReceipt(c)
    BY <1>10 DEF HandInReceipt, Overwrites, Turns, Booked
<1>11. CASE CancelCart(c)
    <2>1. /\ reservation[c] # "NONE" /\ reservation'[c] = "CANCEL_REQUESTED" /\ c \in paid
          /\ UNCHANGED <<past, progress, line, forgotten, paid, viewed, refunded>>
          /\ overwritten \subseteq overwritten'
          /\ reservation[c] = "CONFIRMED" => c \in overwritten'
        BY <1>11 DEF CancelCart, Overwrites, Turns, Booked
    <2>2. {1} \cap ActiveHolds(c) = {}
        BY <2>1 DEF ActiveHolds
    <2>3. \A i \in LinesOf(c) : seat'[<<c, i>>] = seat[<<c, i>>]
        BY <1>11, <2>2, LinesArePairs DEF CancelCart, Becomes
    <2> QED BY <2>1, <2>3
<1>12. CASE RefundCart(c)
    <2> DEFINE first == {i \in LinesOf(c) : i = 1 /\ seat[<<c, i>>] \in {"ACTIVE", "CAPTURED"}}
    <2>1. /\ reservation[c] # "NONE" /\ reservation'[c] = "REFUNDED"
          /\ c \in paid /\ c \in refunded'
          /\ UNCHANGED <<past, progress, line, forgotten, paid, viewed, overwritten>>
        BY <1>12 DEF RefundCart, Turns, Booked
    <2>2. first \in SUBSET LinesOf(c) /\ Becomes(c, first, "RELEASED")
        BY <1>12 DEF RefundCart
    <2>3. \A i \in LinesOf(c) : seat'[<<c, i>>] = IF i \in first THEN "RELEASED" ELSE seat[<<c, i>>]
        <3> HIDE DEF first
        <3> QED BY <2>2, BecomesLine
    <2>4. \A i \in LinesOf(c) : seat'[<<c, i>>] = "CAPTURED" => i > 1
        <3>1. \A i \in LinesOf(c) : seat'[<<c, i>>] = "CAPTURED" => i # 1
            BY <2>3
        <3> QED BY <3>1
    <2>5. \A i \in LinesOf(c) : \/ seat'[<<c, i>>] \in {"CAPTURED", "EXPIRED"}
                                \/ i = 1 /\ seat'[<<c, i>>] = "RELEASED"
        BY <2>1, <2>3
    <2>6. TakenInTurn(c)'
        BY <2>1, <2>3
    <2>7. SettledTogether(c)'
        BY <2>1, <2>4, <2>5
    <2> QED BY <2>6, <2>7
<1>13. CASE ExpireBooking(c)
    BY <1>13, LinesArePairs DEF ExpireBooking, Turns, Booked, Overdue
<1>14. CASE ViewBooking(c)
    BY <1>14, LinesArePairs DEF ViewBooking, Overdue, Open
<1>15. CASE ViewExpires(c)
    BY <1>15 DEF ViewExpires, Overwrites, Turns, Booked
<1>16. CASE TimePasses(c)
    BY <1>16 DEF TimePasses
<1>17. CASE SweepHolds(c)
    <2>1. PICK i \in ActiveHolds(c) : <<c, i>> \in past /\ Becomes(c, {i}, "EXPIRED")
        BY <1>17 DEF SweepHolds
    <2>2. UNCHANGED <<past, progress, line, reservation, upkeep, forgotten>>
        BY <1>17 DEF SweepHolds
    <2>3. {i} \in SUBSET LinesOf(c) /\ seat[<<c, i>>] = "ACTIVE"
        BY <2>1 DEF ActiveHolds
    <2>4. \A j \in LinesOf(c) : seat'[<<c, j>>] = IF j = i THEN "EXPIRED" ELSE seat[<<c, j>>]
        BY <2>1, <2>3, BecomesLine
    <2> QED BY <2>1, <2>2, <2>3, <2>4
<1> QED BY <1>1, <1>2, <1>3, <1>4, <1>5, <1>6, <1>7, <1>9, <1>10, <1>11, <1>12, <1>13, <1>14,
           <1>15, <1>16, <1>17
   DEF StepOf

LEMMA CartInvariantPreserved == CartInvariant /\ [CartNext]_cartVars => CartInvariant'
<1> SUFFICES ASSUME CartInvariant, [CartNext]_cartVars PROVE CartInvariant'
    OBVIOUS
<1>1. ASSUME NEW c \in Carts, StepOf(c) PROVE CartInvariant'
    <2>1. CartTypeOK' /\ OnlyConcerns(c) /\ InOrder(c)'
        BY <1>1, StepKeepsTypes, StepKeepsOrder DEF CartInvariant
    <2>2. \A d \in Carts : InOrder(d)'
        BY <2>1, OthersInOrder DEF CartInvariant
    <2> QED BY <2>1, <2>2 DEF CartInvariant
<1>2. CASE UNCHANGED cartVars
    BY <1>2 DEF cartVars, upkeep, CartInvariant, CartTypeOK, InOrder, TakenInTurn,
               SettledTogether, Held
<1> QED BY <1>1, <1>2 DEF CartNext, StepOf

(* The conjunction above is inductive.                                     *)
THEOREM CartsInOrder == CartSpec => []CartInvariant
BY CartInvariantInit, CartInvariantPreserved, PTL DEF CartSpec

(* Holds, calls and bookings keep their types; a booking that is           *)
(* confirmed, asked to be cancelled or refunded has been paid for.         *)
THEOREM CartTypeCorrect == CartSpec => []CartTypeOK
<1>1. CartInvariant => CartTypeOK
    BY DEF CartInvariant
<1> QED BY <1>1, CartsInOrder, PTL

(* acquireAllOrNothingHolds: for all carts, contents and interleavings, a  *)
(* cart without an open booking keeps no hold, unless its release was      *)
(* prevented.                                                              *)
THEOREM AllOrNothing == CartSpec => []CartsKeepAllOrNothing
<1>1. CartInvariant => CartsKeepAllOrNothing
    <2> SUFFICES ASSUME CartInvariant, NEW c \in Carts, progress[c] = "over", ~Open(c),
                        NEW i \in LinesOf(c), seat[<<c, i>>] = "ACTIVE"
                 PROVE  <<c, i>> \in past \cup forgotten
        BY DEF CartsKeepAllOrNothing, ActiveHolds
    <2>1. InOrder(c) /\ CartTypeOK
        BY DEF CartInvariant
    <2> QED BY <2>1 DEF InOrder, TakenInTurn, SettledTogether, Held, CartTypeOK, Open
<1> QED BY <1>1, CartsInOrder, PTL

(* What confirms a cart's booking, what is written over it and its refund: *)
(* a confirmed cart that was never refunded has sold all its holds but     *)
(* those that had expired, and a unit stays sold without a confirmed       *)
(* booking only where a refund gives back the first, or a cancellation, a  *)
(* receipt or a view was written over it.                                  *)
THEOREM SoldIsBooked == CartSpec => []SoldUnitsAreBooked
<1>1. CartInvariant => SoldUnitsAreBooked
    <2> SUFFICES ASSUME CartInvariant, NEW c \in Carts, NEW i \in LinesOf(c)
                 PROVE  /\ reservation[c] = "CONFIRMED" /\ c \notin refunded =>
                             seat[<<c, i>>] \in {"CAPTURED", "EXPIRED"}
                        /\ seat[<<c, i>>] = "CAPTURED" =>
                             \/ reservation[c] = "CONFIRMED" \/ c \in overwritten
                             \/ c \in refunded /\ i > 1
        BY DEF SoldUnitsAreBooked
    <2>1. InOrder(c) /\ CartTypeOK
        BY DEF CartInvariant
    <2> QED BY <2>1 DEF InOrder, TakenInTurn, SettledTogether, Held, CartTypeOK
<1> QED BY <1>1, CartsInOrder, PTL

(***************************************************************************)
(* The nine together. Each has its own rows: one moves and the others      *)
(* rest, so the invariant of each stays what it is.                        *)
(***************************************************************************)
RequestsInvariant ==
    /\ scene \in Scenes
    /\ TopUpInvariant /\ RefundInvariant /\ AutoBuyInvariant /\ DraftInvariant
    /\ ReferralInvariant /\ RewardInvariant /\ CartInvariant /\ CryptoInvariant
    /\ BusinessInvariant

LEMMA RequestsInvariantInit == RequestsInit => RequestsInvariant
BY TopUpInvariantInit, RefundInvariantInit, AutoBuyInvariantInit, DraftInvariantInit,
   ReferralInvariantInit, RewardInvariantInit, CartInvariantInit, CryptoInvariantInit,
   BusinessInvariantInit
   DEF RequestsInit, RequestsInvariant

(* Who rests leaves its variables alone.                                   *)
LEMMA OthersRest ==
    RequestsNext \/ UNCHANGED <<scene, topUpVars, refundVars, autoBuyVars, draftVars,
                                referralVars, rewardVars, cartVars, cryptoVars, businessVars>> =>
        /\ UNCHANGED scene
        /\ [TopUpNext]_topUpVars /\ [RefundNext]_refundVars /\ [AutoBuyNext]_autoBuyVars
        /\ [DraftNext]_draftVars /\ [ReferralNext]_referralVars /\ [RewardNext]_rewardVars
        /\ [CartNext]_cartVars /\ [CryptoNext]_cryptoVars /\ [BusinessNext]_businessVars
BY Zenon DEF RequestsNext, Resting

LEMMA RequestsInvariantPreserved ==
    RequestsInvariant
    /\ [RequestsNext]_<<scene, topUpVars, refundVars, autoBuyVars, draftVars, referralVars,
                        rewardVars, cartVars, cryptoVars, businessVars>>
        => RequestsInvariant'
<1> SUFFICES ASSUME RequestsInvariant,
                    RequestsNext \/ UNCHANGED <<scene, topUpVars, refundVars, autoBuyVars,
                        draftVars, referralVars, rewardVars, cartVars, cryptoVars, businessVars>>
             PROVE  RequestsInvariant'
    OBVIOUS
<1>1. scene' \in Scenes
    BY OthersRest DEF RequestsInvariant
<1>2. TopUpInvariant' /\ RefundInvariant' /\ AutoBuyInvariant'
    BY OthersRest, TopUpInvariantPreserved, RefundInvariantPreserved, RefundTypePreserved,
       AutoBuyInvariantPreserved DEF RequestsInvariant
<1>3. DraftInvariant' /\ ReferralInvariant' /\ RewardInvariant'
    BY OthersRest, DraftInvariantPreserved, ReferralInvariantPreserved,
       RewardInvariantPreserved DEF RequestsInvariant
<1>4. CartInvariant' /\ CryptoInvariant' /\ BusinessInvariant'
    BY OthersRest, CartInvariantPreserved, CryptoInvariantPreserved,
       BusinessInvariantPreserved DEF RequestsInvariant
<1> QED BY <1>1, <1>2, <1>3, <1>4 DEF RequestsInvariant

(***************************************************************************)
(* The types of all nine hold wherever they run beside each other, on      *)
(* whatever rows the one that moves has come to.                           *)
(***************************************************************************)
THEOREM RequestsTypeCorrect == RequestsSpec => []RequestsTypeOK
<1>1. RequestsInvariant => RequestsTypeOK
    BY DEF RequestsInvariant, RequestsTypeOK, TopUpInvariant, RefundInvariant, AutoBuyInvariant,
           DraftInvariant, ReferralInvariant, RewardInvariant, CartInvariant, CryptoInvariant,
           BusinessInvariant
<1> QED BY <1>1, RequestsInvariantInit, RequestsInvariantPreserved, PTL DEF RequestsSpec
=============================================================================
