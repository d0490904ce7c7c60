--------------------------- MODULE PipelineProofs ---------------------------
(***************************************************************************)
(* What holds of Pipeline for every number of requests, lookups, rounds of *)
(* the result lookup, and every clock.                                     *)
(***************************************************************************)
EXTENDS Pipeline, FiniteSetTheorems, TLAPS

(* What requests, the batch and lookups still know when they go on: rows that *)
(* are created later have other ids, a confirmation is never taken back, a    *)
(* published result stays published.                                          *)
IdsInUse ==
    /\ entry.id <= used
    /\ batch.id <= used
    /\ \A u \in User : req[u].id <= used
    /\ \A r \in Runner : lookup[r].id <= used

Confirmed(id) == Holds(id) => entry.confirmed

RequestKnows(q) ==
    /\ q.kind = "create" => q.target \in {"reviewing", "preparing"}
    /\ q.kind = "exclude" => q.target = "excluded"
    /\ q.seen = "submitted" => Confirmed(q.id)

RequestsKnow == \A u \in User : RequestKnows(req[u])

LookupsKnow == \A r \in Runner : lookup[r].phase # "idle" => Confirmed(lookup[r].id)

Justified(result) ==
    /\ result = "WON" => \E k \in Round : award[k] = "ours"
    /\ result = "LOST" => award[0] = "other" /\ SafeMethod
    /\ result = "REBID" => award[1] \in Winner

Sound(d) ==
    /\ d.action = "WIN" => d.result = "WON"
    /\ d.action = "LOSE" => d.result = "LOST"
    /\ d.action \in {"HOLD", "NAME_MATCH"} => d.result \in FinalResult
    /\ Justified(d.result)

DecisionsSound ==
    \A r \in Runner : lookup[r].phase \in {"decided", "telling"} => Sound(lookup[r].decision)

(* A final result has been told, or the lookup that found it will. *)
WillTell(r) ==
    /\ lookup[r].phase = "telling"
    /\ Holds(lookup[r].id)
    /\ lookup[r].decision.result = entry.result

ToldOrTelling ==
    faults = 0 /\ entry.finalized /\ entry.result # "NO_RESULT"
    => entry.result \in entry.told \/ \E r \in Runner : WillTell(r)

LEMMA Constants ==
    /\ Lookups \in Nat /\ Lookups > 0
    /\ Cardinality(Runner) \in Nat
    /\ \A k \in 1..Lookups : Offsets[k] \in Nat
<1>1. Cardinality(Runner) \in Nat
  BY RunnerAssumption, FS_CardinalityType
<1> QED BY <1>1, OffsetsAssumption DEF Lookups

LEMMA PickInRound ==
  ASSUME NEW pub \in [Round -> Published]
  PROVE  LET k == PickMatchingAward(pub)
         IN  k = -1 \/ (k \in Round /\ pub[k] \in Winner)
<1> DEFINE final == {k \in Round : pub[k] \in Winner}
<1>1. CASE final = {}
  BY <1>1 DEF PickMatchingAward
<1>2. CASE final # {}
  <2>1. final = {0} \/ final = {1} \/ final = {0, 1}
    BY <1>2 DEF Round
  <2>2. \E k \in final : \A j \in final : j <= k
    BY <2>1
  <2>3. LastOf(final) \in final
    BY <2>2 DEF LastOf
  <2> QED BY <1>2, <2>3 DEF PickMatchingAward
<1> QED BY <1>1, <1>2

LEMMA ClassifySound ==
  ASSUME award \in [Round -> Published]
  PROVE  /\ ClassifyAwardResult(award) \in Decision
         /\ Sound(ClassifyAwardResult(award))
<1> DEFINE k == PickMatchingAward(award)
<1>1. CASE k = -1
  <2>1. ClassifyAwardResult(award) = Undecided
    BY <1>1 DEF ClassifyAwardResult
  <2> QED BY <2>1 DEF Undecided, Decision, Action, Result, None, Sound, Justified
<1>2. CASE k # -1
  <2>1. k \in {0, 1} /\ award[k] \in {"ours", "other", "namesake", "unknown"}
    BY <1>2, PickInRound DEF Round, Winner
  <2>2. CASE award[k] = "ours"
    <3>1. ClassifyAwardResult(award) = [action |-> "WIN", result |-> "WON"]
      BY <1>2, <2>2 DEF ClassifyAwardResult
    <3> QED BY <3>1, <2>1, <2>2 DEF Decision, Action, Result, FinalResult, Sound, Justified, Round
  <2>3. CASE award[k] # "ours" /\ k = 1
    <3>1. ClassifyAwardResult(award) = [action |-> "HOLD", result |-> "REBID"]
      BY <1>2, <2>3 DEF ClassifyAwardResult
    <3> QED BY <3>1, <2>1, <2>3 DEF Decision, Action, Result, FinalResult, Sound, Justified, Winner
  <2>4. CASE award[k] = "namesake" /\ k = 0
    <3>1. ClassifyAwardResult(award) = [action |-> "NAME_MATCH", result |-> "NAME_MATCH"]
      BY <1>2, <2>4 DEF ClassifyAwardResult
    <3> QED BY <3>1 DEF Decision, Action, Result, FinalResult, Sound, Justified
  <2>5. CASE award[k] = "unknown" /\ k = 0
    <3>1. ClassifyAwardResult(award) = [action |-> "HOLD", result |-> "NEEDS_REVIEW"]
      BY <1>2, <2>5 DEF ClassifyAwardResult
    <3> QED BY <3>1 DEF Decision, Action, Result, FinalResult, Sound, Justified
  <2>6. CASE award[k] = "other" /\ k = 0
    <3>1. ClassifyAwardResult(award) = IF SafeMethod THEN [action |-> "LOSE", result |-> "LOST"]
                                       ELSE [action |-> "HOLD", result |-> "NEEDS_REVIEW"]
      BY <1>2, <2>6 DEF ClassifyAwardResult
    <3> QED BY <3>1, <2>6 DEF Decision, Action, Result, FinalResult, Sound, Justified
  <2> QED BY <2>1, <2>2, <2>3, <2>4, <2>5, <2>6
<1> QED BY <1>1, <1>2

(* Every step, one by one. *)
LEMMA Steps ==
  ASSUME [Next]_vars
  PROVE  \/ Tick \/ CancelNotice \/ Publish \/ HandleDeletePipelineEntry
         \/ AutoExcludeSelect \/ AutoExcludeWrite \/ Restart \/ UNCHANGED vars
         \/ \E u \in User : UserNext(u) \/ RequestFails(u)
         \/ \E r \in Runner : LookupNext(r) \/ LookupFault(r)
  BY DEF Next

LEMMA InitTypeOK == Init => TypeOK
<1> SUFFICES ASSUME Init PROVE TypeOK
  OBVIOUS
<1>1. entry \in Entry
  BY DEF Init, NoEntry, NewEntry, Entry, Status, Author, Reason, Result, None
<1>2. req \in [User -> Request] /\ batch \in Batch
  BY DEF Init, Idle, Request, Status, None, NoBatch, Batch
<1>3. lookup \in [Runner -> Lookup] /\ award \in [Round -> Published]
  BY DEF Init, NoLookup, Lookup, Undecided, Decision, Action, Result, Published, None
<1>4. 0 \in 0..MaxTime /\ 0 \in 0..MaxEntries /\ 0 \in 0..MaxFaults
  BY TimeAssumption, BoundAssumption
<1> QED BY <1>1, <1>2, <1>3, <1>4 DEF Init, TypeOK

LEMMA StartType ==
  ASSUME TypeOK, NEW u \in User, NEW kind \in {"create", "exclude", "update"},
         NEW target \in Status, Start(u, kind, target)
  PROVE  TypeOK'
<1>1. entry.id \in Nat /\ entry.status \in Status
  BY DEF TypeOK, Entry
<1>2. [kind |-> kind, phase |-> "checked", target |-> target, id |-> entry.id,
       seen |-> IF Exists THEN entry.status ELSE None] \in Request
  BY <1>1 DEF Request
<1> QED BY <1>2 DEF Start, TypeOK

LEMMA UserType ==
  ASSUME TypeOK, NEW u \in User, UserNext(u) \/ RequestFails(u)
  PROVE  TypeOK'
<1>1. Idle \in Request /\ req[u] \in Request /\ entry \in Entry
  BY DEF Idle, Request, Status, None, TypeOK
<1>2. CASE CreateCheck(u) \/ ExcludeCheck(u) \/ UpdateCheck(u)
  BY <1>2, StartType, GoalAssumption DEF CreateCheck, ExcludeCheck, UpdateCheck, Status
<1>3. CASE InsertEntry(u)
  <2>1. req[u].target \in Status /\ used + 1 \in Nat /\ (used < MaxEntries => used + 1 \in 0..MaxEntries)
    BY <1>1, BoundAssumption DEF TypeOK, Request
  <2>2. NewEntry(used + 1, req[u].target) \in Entry
    BY <2>1 DEF NewEntry, Entry, Author, Reason, Result, None
  <2> QED BY <1>1, <1>3, <2>1, <2>2 DEF InsertEntry, TypeOK
<1>4. CASE ReactivateEntry(u)
  <2>1. entry' \in Entry
    BY <1>1, <1>4 DEF ReactivateEntry, Request, Entry, Author, Reason, None
  <2> QED BY <1>1, <1>4, <2>1 DEF ReactivateEntry, TypeOK
<1>5. CASE UpdateEntry(u)
  <2>1. entry' \in Entry
    BY <1>1, <1>5 DEF UpdateEntry, Request, Entry, Author, Reason, None
  <2> QED BY <1>1, <1>5, <2>1 DEF UpdateEntry, TypeOK
<1>6. CASE RequestFails(u)
  BY <1>1, <1>6, BoundAssumption DEF RequestFails, TypeOK
<1> QED BY <1>2, <1>3, <1>4, <1>5, <1>6 DEF UserNext

LEMMA LookupType ==
  ASSUME TypeOK, NEW r \in Runner, LookupNext(r) \/ LookupFault(r)
  PROVE  TypeOK'
<1>1. /\ NoLookup \in Lookup /\ lookup[r] \in Lookup /\ entry \in Entry
      /\ \A p \in {"idle", "selected", "decided", "telling"} :
            [lookup[r] EXCEPT !.phase = p] \in Lookup
  BY DEF NoLookup, Lookup, Undecided, Decision, Action, Result, None, TypeOK
<1>2. lookup[r].decision.result \in Result
  BY <1>1 DEF Lookup, Decision
<1>3. faults < MaxFaults => faults + 1 \in 0..MaxFaults
  BY BoundAssumption DEF TypeOK
<1>4. CASE LookupSelect(r)
  <2>1. [NoLookup EXCEPT !.phase = "selected", !.id = entry.id,
                         !.attempts = entry.attempts] \in Lookup
    BY <1>1 DEF Entry, Lookup, NoLookup
  <2> QED BY <1>4, <2>1 DEF LookupSelect, TypeOK
<1>5. CASE LookupFetch(r)
  <2>1. ClassifyAwardResult(award) \in Decision
    BY ClassifySound DEF TypeOK
  <2>2. lookup' \in [Runner -> Lookup]
    BY <1>1, <1>5, <2>1 DEF LookupFetch, Lookup, TypeOK
  <2> QED BY <1>5, <2>2 DEF LookupFetch, TypeOK
<1>6. CASE LookupFetchFails(r)
  <2>1. [action |-> "FAILED", result |-> None] \in Decision
    BY DEF Decision, Action, Result
  <2>2. lookup' \in [Runner -> Lookup]
    BY <1>1, <1>6, <2>1 DEF LookupFetchFails, Lookup, TypeOK
  <2> QED BY <1>3, <1>6, <2>2 DEF LookupFetchFails, TypeOK
<1>7. CASE ApplyAward(r)
  <2>1. lookup[r].decision.result \in Result /\ entry.attempts + 1 \in Nat
    BY <1>1, <1>2 DEF Entry
  <2>2. \A s \in {"won", "lost"} :
          [Finalized(entry, lookup[r].decision.result) EXCEPT !.status = s, !.by = "system"] \in Entry
    BY <1>1, <2>1 DEF Finalized, Entry, Status, Author
  <2>3. entry' \in Entry
    BY <1>1, <1>7, <2>2 DEF ApplyAward
  <2> QED BY <1>1, <1>7, <2>3 DEF ApplyAward, TypeOK
<1>8. CASE FinalizeResultOnly(r)
  <2>1. lookup[r].decision.result \in Result /\ entry.attempts + 1 \in Nat
    BY <1>1, <1>2 DEF Entry
  <2>2. \A x \in Result : Finalized(entry, x) \in Entry
    BY <1>1, <2>1 DEF Finalized, Entry
  <2>3. entry' \in Entry
    BY <1>1, <1>8, <2>1, <2>2 DEF FinalizeResultOnly, Result, FinalResult
  <2> QED BY <1>1, <1>8, <2>3 DEF FinalizeResultOnly, TypeOK
<1>9. CASE BumpResultAttempt(r)
  <2>0. entry.attempts + 1 \in Nat /\ entry.result \in Result
    BY <1>1 DEF Entry
  <2>2. \A x \in Result : [entry EXCEPT !.attempts = @ + 1, !.result = x] \in Entry
    BY <1>1, <2>0 DEF Entry
  <2>1. entry' \in Entry
    BY <1>1, <1>9, <2>0, <2>2 DEF BumpResultAttempt, Result
  <2> QED BY <1>1, <1>9, <2>1 DEF BumpResultAttempt, TypeOK
<1>10. ASSUME NEW done \in SUBSET Follow, Tell(r, done), faults' \in 0..MaxFaults
       PROVE TypeOK'
  <2>1. candidates' \subseteq Nat
    BY <1>1, <1>10 DEF Tell, Lookup, TypeOK
  <2>2. entry' \in Entry
    BY <1>1, <1>2, <1>10 DEF Tell, Entry
  <2> QED BY <1>1, <1>10, <2>1, <2>2 DEF Tell, TypeOK
<1>11. CASE TellResult(r) \/ TellResultPartly(r)
  <2>1. faults \in 0..MaxFaults
    BY DEF TypeOK
  <2> QED BY <1>3, <1>10, <1>11, <2>1 DEF TellResult, TellResultPartly
<1>12. CASE LookupFails(r) \/ FinalizeFails(r)
  BY <1>1, <1>3, <1>12 DEF LookupFails, FinalizeFails, TypeOK
<1> QED BY <1>4, <1>5, <1>6, <1>7, <1>8, <1>9, <1>11, <1>12 DEF LookupNext, LookupFault

LEMMA TypeStep ==
  ASSUME TypeOK, [Next]_vars
  PROVE  TypeOK'
<1>1. CASE Tick \/ CancelNotice
  <2>1. MaxTime \in Nat
    BY TimeAssumption
  <2>2. CASE Tick
    BY <2>1, <2>2 DEF Tick, TypeOK
  <2>3. CASE CancelNotice
    BY <2>3 DEF CancelNotice, TypeOK
  <2> QED BY <1>1, <2>2, <2>3
<1>2. CASE Publish
  BY <1>2 DEF Publish, TypeOK, Published
<1>3. CASE HandleDeletePipelineEntry
  <2>1. NoEntry \in Entry
    BY DEF NoEntry, NewEntry, Entry, Status, Author, Reason, Result, None
  <2> QED BY <1>3, <2>1 DEF HandleDeletePipelineEntry, TypeOK
<1>4. CASE AutoExcludeSelect
  <2>1. batch' \in Batch
    BY <1>4 DEF AutoExcludeSelect, Batch, TypeOK, Entry
  <2> QED BY <1>4, <2>1 DEF AutoExcludeSelect, TypeOK
<1>5. CASE AutoExcludeWrite
  <2>1. batch.rule \in {"deadline", "cancelled"}
    BY <1>5 DEF AutoExcludeWrite, TypeOK, Batch, NoBatch, None
  <2>2. entry' \in Entry
    BY <1>5, <2>1 DEF AutoExcludeWrite, TypeOK, Entry, Status, Author, Reason
  <2>3. batch' \in Batch
    BY <1>5 DEF AutoExcludeWrite, NoBatch, Batch, None
  <2> QED BY <1>5, <2>2, <2>3 DEF AutoExcludeWrite, TypeOK
<1>6. CASE Restart
  <2>1. Idle \in Request /\ NoBatch \in Batch /\ NoLookup \in Lookup
    BY DEF Idle, Request, Status, None, NoBatch, Batch, NoLookup, Lookup, Undecided,
           Decision, Action, Result
  <2> QED BY <1>6, <2>1, BoundAssumption DEF Restart, TypeOK
<1>7. CASE UNCHANGED vars
  BY <1>7 DEF vars, TypeOK
<1> QED BY <1>1, <1>2, <1>3, <1>4, <1>5, <1>6, <1>7, Steps, UserType, LookupType

(* The types of the rows and of the local variables. *)
THEOREM TypeCorrect == Spec => []TypeOK
  BY InitTypeOK, TypeStep, PTL DEF Spec

-----------------------------------------------------------------------------
(* What is carried from one statement to the next *)

IInv == TypeOK /\ IdsInUse /\ RequestsKnow /\ LookupsKnow /\ SubmittedIsConfirmed

LEMMA IdsStep ==
  ASSUME TypeOK, IdsInUse, [Next]_vars
  PROVE  IdsInUse'
<1>1. /\ entry \in Entry /\ entry.id \in Nat /\ used \in Nat
      /\ \A u \in User : req[u] \in Request /\ req[u].id \in Nat
      /\ \A r \in Runner : lookup[r] \in Lookup /\ lookup[r].id \in Nat
      /\ batch.id \in Nat
  BY BoundAssumption DEF TypeOK, Entry, Request, Lookup, Batch, NoBatch
<1>2. CASE Tick \/ CancelNotice \/ Publish \/ UNCHANGED vars
  BY <1>2 DEF Tick, CancelNotice, Publish, vars, IdsInUse
<1>3. CASE HandleDeletePipelineEntry \/ Restart
  BY <1>1, <1>3 DEF HandleDeletePipelineEntry, Restart, NoEntry, NewEntry, Idle, NoBatch,
                    NoLookup, IdsInUse
<1>4. CASE AutoExcludeSelect \/ AutoExcludeWrite
  <2>1. CASE AutoExcludeSelect
    BY <1>1, <2>1 DEF AutoExcludeSelect, IdsInUse
  <2>2. CASE AutoExcludeWrite
    <3>1. entry'.id = entry.id
      BY <1>1, <2>2 DEF AutoExcludeWrite, Entry
    <3> QED BY <1>1, <2>2, <3>1 DEF AutoExcludeWrite, NoBatch, IdsInUse
  <2> QED BY <1>4, <2>1, <2>2
<1>5. ASSUME NEW u \in User, UserNext(u) \/ RequestFails(u) PROVE IdsInUse'
  <2>1. UNCHANGED <<batch, lookup>>
    BY <1>5 DEF UserNext, CreateCheck, ExcludeCheck, UpdateCheck, Start, InsertEntry,
                ReactivateEntry, UpdateEntry, RequestFails
  <2>2. CASE CreateCheck(u) \/ ExcludeCheck(u) \/ UpdateCheck(u)
    BY <1>1, <2>1, <2>2 DEF CreateCheck, ExcludeCheck, UpdateCheck, Start, IdsInUse, TypeOK
  <2>3. CASE InsertEntry(u)
    <3>1. used' \in {used, used + 1} /\ entry'.id <= used'
      BY <1>1, <2>3 DEF InsertEntry, NewEntry, IdsInUse
    <3>2. \A v \in User : req'[v].id \in {req[v].id, 0}
      BY <1>1, <2>3 DEF InsertEntry, Idle, TypeOK
    <3> QED BY <1>1, <2>1, <3>1, <3>2 DEF IdsInUse
  <2>4. CASE ReactivateEntry(u) \/ UpdateEntry(u) \/ RequestFails(u)
    <3>1. used' = used /\ entry'.id = entry.id
      BY <1>1, <2>4 DEF ReactivateEntry, UpdateEntry, RequestFails, Entry
    <3>2. \A v \in User : req'[v].id \in {req[v].id, 0}
      BY <1>1, <2>4 DEF ReactivateEntry, UpdateEntry, RequestFails, Idle, TypeOK
    <3> QED BY <1>1, <2>1, <3>1, <3>2 DEF IdsInUse
  <2> QED BY <1>5, <2>2, <2>3, <2>4 DEF UserNext
<1>6. ASSUME NEW r \in Runner, LookupNext(r) \/ LookupFault(r) PROVE IdsInUse'
  <2>1. UNCHANGED <<batch, req, used>>
    BY <1>6 DEF LookupNext, LookupFault, LookupSelect, LookupFetch, ApplyAward,
                FinalizeResultOnly, BumpResultAttempt, TellResult, TellResultPartly, Tell,
                LookupFetchFails, LookupFails, FinalizeFails
  <2>2. entry'.id = entry.id
    BY <1>1, <1>6 DEF LookupNext, LookupFault, LookupSelect, LookupFetch, ApplyAward,
                FinalizeResultOnly, BumpResultAttempt, TellResult, TellResultPartly, Tell,
                LookupFetchFails, LookupFails, FinalizeFails, Finalized, Entry
  <2>3. CASE LookupSelect(r)
    <3>1. \A q \in Runner : lookup'[q].id \in {lookup[q].id, entry.id}
      BY <1>1, <2>3 DEF LookupSelect, NoLookup, Lookup, TypeOK
    <3> QED BY <1>1, <2>1, <2>2, <3>1 DEF IdsInUse
  <2>4. CASE \/ LookupFetch(r) \/ LookupFetchFails(r) \/ ApplyAward(r)
             \/ FinalizeResultOnly(r) \/ FinalizeFails(r)
    <3>1. \A q \in Runner : lookup'[q].id \in {lookup[q].id, 0}
      BY <1>1, <2>4 DEF LookupFetch, LookupFetchFails, ApplyAward, FinalizeResultOnly,
                        FinalizeFails, NoLookup, Lookup, TypeOK
    <3> QED BY <1>1, <2>1, <2>2, <3>1 DEF IdsInUse
  <2>5. CASE BumpResultAttempt(r) \/ TellResult(r) \/ TellResultPartly(r) \/ LookupFails(r)
    <3>1. \A q \in Runner : lookup'[q].id \in {lookup[q].id, 0}
      BY <1>1, <2>5 DEF BumpResultAttempt, TellResult, TellResultPartly, Tell, LookupFails,
                        NoLookup, Lookup, TypeOK
    <3> QED BY <1>1, <2>1, <2>2, <3>1 DEF IdsInUse
  <2> QED BY <1>6, <2>3, <2>4, <2>5 DEF LookupNext, LookupFault
<1> QED BY <1>2, <1>3, <1>4, <1>5, <1>6, Steps

(* A row is replaced only by no row or by one with a new id, and a *)
(* confirmation stays.                                             *)
LEMMA RowKept ==
  ASSUME TypeOK, IdsInUse, [Next]_vars
  PROVE  \/ entry'.id = entry.id /\ (entry.confirmed => entry'.confirmed)
         \/ entry'.id = 0
         \/ entry'.id = used + 1
<1>1. entry \in Entry
  BY DEF TypeOK
<1>2. CASE \/ Tick \/ CancelNotice \/ Publish \/ UNCHANGED vars \/ Restart
           \/ HandleDeletePipelineEntry \/ AutoExcludeSelect \/ AutoExcludeWrite
  <2>1. CASE \/ Tick \/ CancelNotice \/ Publish \/ UNCHANGED vars \/ Restart \/ AutoExcludeSelect
    BY <2>1 DEF Tick, CancelNotice, Publish, vars, Restart, AutoExcludeSelect
  <2>2. CASE HandleDeletePipelineEntry
    BY <2>2 DEF HandleDeletePipelineEntry, NoEntry, NewEntry
  <2>3. CASE AutoExcludeWrite
    BY <1>1, <2>3 DEF AutoExcludeWrite, Entry
  <2> QED BY <1>2, <2>1, <2>2, <2>3
<1>3. ASSUME NEW u \in User, UserNext(u) \/ RequestFails(u)
      PROVE  \/ entry'.id = entry.id /\ (entry.confirmed => entry'.confirmed)
             \/ entry'.id = used + 1
  <2>1. CASE CreateCheck(u) \/ ExcludeCheck(u) \/ UpdateCheck(u) \/ RequestFails(u)
    BY <2>1 DEF CreateCheck, ExcludeCheck, UpdateCheck, Start, RequestFails
  <2>2. CASE InsertEntry(u)
    BY <2>2 DEF InsertEntry, NewEntry
  <2>3. CASE ReactivateEntry(u) \/ UpdateEntry(u)
    BY <1>1, <2>3 DEF ReactivateEntry, UpdateEntry, Entry
  <2> QED BY <1>3, <2>1, <2>2, <2>3 DEF UserNext
<1>4. ASSUME NEW r \in Runner, LookupNext(r) \/ LookupFault(r)
      PROVE  entry'.id = entry.id /\ (entry.confirmed => entry'.confirmed)
  BY <1>1, <1>4 DEF LookupNext, LookupFault, LookupSelect, LookupFetch, ApplyAward,
                FinalizeResultOnly, BumpResultAttempt, TellResult, TellResultPartly, Tell,
                LookupFetchFails, LookupFails, FinalizeFails, Finalized, Entry
<1> QED BY <1>2, <1>3, <1>4, Steps

LEMMA ConfirmationKept ==
  ASSUME TypeOK, IdsInUse, [Next]_vars,
         NEW id \in Nat, id <= used, Confirmed(id)
  PROVE  Confirmed(id)'
<1>1. used \in Nat /\ entry.id \in Nat
  BY BoundAssumption DEF TypeOK, Entry
<1>2. CASE entry'.id = entry.id /\ (entry.confirmed => entry'.confirmed)
  BY <1>2 DEF Confirmed, Holds, Exists
<1>3. CASE entry'.id = 0 \/ entry'.id = used + 1
  BY <1>1, <1>3 DEF Confirmed, Holds, Exists
<1> QED BY <1>2, <1>3, RowKept

LEMMA RequestsKnowStep ==
  ASSUME TypeOK, IdsInUse, RequestsKnow, SubmittedIsConfirmed, [Next]_vars
  PROVE  RequestsKnow'
<1>1. \A u \in User : req[u].id \in Nat /\ req[u].id <= used
  BY DEF TypeOK, Request, IdsInUse
<1>2. ASSUME NEW u \in User, req'[u] = req[u] \/ req'[u] = Idle
      PROVE  RequestKnows(req[u])'
  <2>1. CASE req'[u] = req[u]
    <3> DEFINE id == req[u].id
    <3>1. id \in Nat /\ id <= used /\ (req[u].seen = "submitted" => Confirmed(id))
      BY <1>1 DEF RequestsKnow, RequestKnows
    <3>2. ASSUME req[u].seen = "submitted" PROVE Confirmed(req[u].id)'
      <4> HIDE DEF id
      <4>1. entry'.id # 0 /\ entry'.id = id => entry'.confirmed
        BY <3>1, <3>2, ConfirmationKept DEF Confirmed, Holds, Exists
      <4> QED BY <2>1, <4>1 DEF id, Confirmed, Holds, Exists
    <3> QED BY <2>1, <3>2 DEF RequestsKnow, RequestKnows
  <2>2. CASE req'[u] = Idle
    BY <2>2 DEF RequestKnows, Idle, None
  <2> QED BY <1>2, <2>1, <2>2
<1>3. CASE \A u \in User : req'[u] = req[u] \/ req'[u] = Idle
  BY <1>2, <1>3 DEF RequestsKnow
<1>4. ASSUME NEW u \in User, UserNext(u) \/ RequestFails(u)
      PROVE  RequestsKnow'
  <2>1. CASE CreateCheck(u) \/ ExcludeCheck(u) \/ UpdateCheck(u)
    <3>1. PICK kind \in {"create", "exclude", "update"}, target \in Status :
            /\ Start(u, kind, target)
            /\ kind = "create" => target \in {"reviewing", "preparing"}
            /\ kind = "exclude" => target = "excluded"
      BY <2>1, GoalAssumption DEF CreateCheck, ExcludeCheck, UpdateCheck, Status
    <3>2. /\ entry' = entry
          /\ req'[u] = [kind |-> kind, phase |-> "checked", target |-> target, id |-> entry.id,
                        seen |-> IF Exists THEN entry.status ELSE None]
          /\ \A v \in User \ {u} : req'[v] = req[v]
      BY <3>1 DEF Start, TypeOK
    <3>3. req'[u].seen = "submitted" => Exists /\ entry.status = "submitted"
      BY <3>2 DEF None
    <3>4. req'[u].seen = "submitted" => Confirmed(req[u].id)'
      BY <3>2, <3>3 DEF Confirmed, Holds, Exists, SubmittedIsConfirmed
    <3>5. RequestKnows(req[u])'
      BY <3>1, <3>2, <3>4 DEF RequestKnows
    <3> QED BY <1>2, <3>2, <3>5 DEF RequestsKnow
  <2>2. CASE \/ InsertEntry(u) \/ ReactivateEntry(u) \/ UpdateEntry(u) \/ RequestFails(u)
    <3>1. \A v \in User : req'[v] = req[v] \/ req'[v] = Idle
      BY <2>2 DEF InsertEntry, ReactivateEntry, UpdateEntry, RequestFails, TypeOK
    <3> QED BY <1>3, <3>1
  <2> QED BY <1>4, <2>1, <2>2 DEF UserNext
<1>5. CASE Restart
  BY <1>3, <1>5 DEF Restart
<1>6. CASE \/ Tick \/ CancelNotice \/ Publish \/ HandleDeletePipelineEntry
           \/ AutoExcludeSelect \/ AutoExcludeWrite \/ UNCHANGED vars
  BY <1>3, <1>6 DEF Tick, CancelNotice, Publish, HandleDeletePipelineEntry, vars,
                    AutoExcludeSelect, AutoExcludeWrite
<1>7. ASSUME NEW r \in Runner, LookupNext(r) \/ LookupFault(r)
      PROVE  RequestsKnow'
  BY <1>3, <1>7 DEF LookupNext, LookupFault, LookupSelect, LookupFetch, ApplyAward,
                FinalizeResultOnly, BumpResultAttempt, TellResult, TellResultPartly, Tell,
                LookupFetchFails, LookupFails, FinalizeFails
<1> QED BY <1>4, <1>5, <1>6, <1>7, Steps

LEMMA LookupsKnowStep ==
  ASSUME TypeOK, IdsInUse, LookupsKnow, SubmittedIsConfirmed, [Next]_vars
  PROVE  LookupsKnow'
<1>1. \A r \in Runner : lookup[r].id \in Nat /\ lookup[r].id <= used
  BY DEF TypeOK, Lookup, IdsInUse
<1>2. ASSUME NEW r \in Runner,
             \/ lookup'[r].phase = "idle"
             \/ lookup'[r].id = lookup[r].id /\ lookup[r].phase # "idle"
      PROVE  (lookup[r].phase # "idle" => Confirmed(lookup[r].id))'
  <2> DEFINE id == lookup[r].id
  <2>1. CASE lookup'[r].id = id /\ lookup[r].phase # "idle"
    <3>1. id \in Nat /\ id <= used /\ Confirmed(id)
      BY <1>1, <2>1 DEF LookupsKnow
    <3> HIDE DEF id
    <3>2. entry'.id # 0 /\ entry'.id = id => entry'.confirmed
      BY <3>1, ConfirmationKept DEF Confirmed, Holds, Exists
    <3> QED BY <2>1, <3>2 DEF Confirmed, Holds, Exists
  <2> QED BY <1>2, <2>1
<1>3. CASE lookup' = lookup \/ Restart
  <2>1. \A r \in Runner : \/ lookup'[r].phase = "idle"
                          \/ lookup'[r].id = lookup[r].id /\ lookup[r].phase # "idle"
    BY <1>3 DEF Restart, NoLookup
  <2> QED BY <1>2, <2>1 DEF LookupsKnow
<1>4. ASSUME NEW r \in Runner, LookupNext(r) \/ LookupFault(r)
      PROVE  LookupsKnow'
  <2>1. CASE LookupSelect(r)
    <3>1. /\ entry' = entry /\ Exists /\ entry.status = "submitted"
          /\ lookup'[r].id = entry.id
          /\ \A q \in Runner \ {r} : lookup'[q] = lookup[q]
      BY <2>1 DEF LookupSelect, Awaiting, NoLookup, TypeOK
    <3>2. (lookup[r].phase # "idle" => Confirmed(lookup[r].id))'
      BY <3>1 DEF SubmittedIsConfirmed, Confirmed, Holds, Exists
    <3>3. ASSUME NEW q \in Runner \ {r}
          PROVE (lookup[q].phase # "idle" => Confirmed(lookup[q].id))'
      BY <1>2, <3>1, <3>3
    <3> QED BY <3>2, <3>3 DEF LookupsKnow
  <2>2. CASE \/ LookupFetch(r) \/ LookupFetchFails(r) \/ ApplyAward(r) \/ FinalizeResultOnly(r)
             \/ BumpResultAttempt(r) \/ FinalizeFails(r) \/ TellResult(r) \/ TellResultPartly(r)
             \/ LookupFails(r)
    <3>1. lookup[r].phase # "idle"
      BY <2>2 DEF LookupFetch, LookupFetchFails, ApplyAward, FinalizeResultOnly,
                  BumpResultAttempt, FinalizeFails, TellResult, TellResultPartly, Tell,
                  LookupFails, Decided
    <3>2. /\ lookup'[r].phase = "idle" \/ lookup'[r].id = lookup[r].id
          /\ \A q \in Runner \ {r} : lookup'[q] = lookup[q]
      BY <2>2 DEF LookupFetch, LookupFetchFails, ApplyAward, FinalizeResultOnly,
                  BumpResultAttempt, FinalizeFails, TellResult, TellResultPartly, Tell,
                  LookupFails, NoLookup, TypeOK, Lookup
    <3>3. \A q \in Runner : \/ lookup'[q].phase = "idle"
                            \/ lookup'[q].id = lookup[q].id /\ lookup[q].phase # "idle"
      BY <3>1, <3>2
    <3> QED BY <1>2, <3>3 DEF LookupsKnow
  <2> QED BY <1>4, <2>1, <2>2 DEF LookupNext, LookupFault
<1>5. CASE \/ Tick \/ CancelNotice \/ Publish \/ HandleDeletePipelineEntry
           \/ AutoExcludeSelect \/ AutoExcludeWrite \/ UNCHANGED vars
  BY <1>3, <1>5 DEF Tick, CancelNotice, Publish, HandleDeletePipelineEntry, vars,
                    AutoExcludeSelect, AutoExcludeWrite
<1>6. ASSUME NEW u \in User, UserNext(u) \/ RequestFails(u)
      PROVE  LookupsKnow'
  BY <1>3, <1>6 DEF UserNext, CreateCheck, ExcludeCheck, UpdateCheck, Start, InsertEntry,
                ReactivateEntry, UpdateEntry, RequestFails
<1> QED BY <1>3, <1>4, <1>5, <1>6, Steps

LEMMA SubmittedStep ==
  ASSUME IInv, [Next]_vars
  PROVE  SubmittedIsConfirmed'
<1> USE DEF IInv
<1>1. entry \in Entry /\ (\A u \in User : req[u] \in Request)
  BY DEF TypeOK
<1>2. CASE entry' = entry
  BY <1>2 DEF SubmittedIsConfirmed, Exists
<1>3. CASE HandleDeletePipelineEntry
  BY <1>3 DEF HandleDeletePipelineEntry, NoEntry, NewEntry, SubmittedIsConfirmed, Exists
<1>4. CASE AutoExcludeWrite
  <2>1. CASE entry' = [entry EXCEPT !.status = "excluded", !.by = "system", !.reason = batch.rule]
    BY <1>1, <2>1 DEF SubmittedIsConfirmed, Exists, Entry
  <2> QED BY <1>2, <1>4, <2>1 DEF AutoExcludeWrite
<1>5. CASE \/ Tick \/ CancelNotice \/ Publish \/ AutoExcludeSelect \/ Restart \/ UNCHANGED vars
  BY <1>2, <1>5 DEF Tick, CancelNotice, Publish, AutoExcludeSelect, Restart, vars
<1>6. ASSUME NEW u \in User, UserNext(u) \/ RequestFails(u)
      PROVE  SubmittedIsConfirmed'
  <2>1. CASE CreateCheck(u) \/ ExcludeCheck(u) \/ UpdateCheck(u) \/ RequestFails(u)
    BY <1>2, <2>1 DEF CreateCheck, ExcludeCheck, UpdateCheck, Start, RequestFails
  <2>2. CASE InsertEntry(u)
    <3>1. req[u].target \in {"reviewing", "preparing", "excluded"}
      BY <2>2 DEF InsertEntry, Checked, RequestsKnow, RequestKnows
    <3>2. CASE entry' = NewEntry(used + 1, req[u].target)
      BY <3>1, <3>2 DEF NewEntry, SubmittedIsConfirmed
    <3> QED BY <1>2, <2>2, <3>2 DEF InsertEntry
  <2>3. CASE ReactivateEntry(u)
    <3>1. req[u].target \in {"reviewing", "preparing"}
      BY <2>3 DEF ReactivateEntry, Checked, RequestsKnow, RequestKnows
    <3>2. /\ entry'.id = entry.id /\ entry'.attempts = entry.attempts
          /\ entry'.finalized = entry.finalized /\ entry'.confirmed = entry.confirmed
          /\ entry'.status \in {entry.status, req[u].target}
      BY <1>1, <2>3 DEF ReactivateEntry, Entry
    <3> QED BY <3>1, <3>2 DEF SubmittedIsConfirmed, Exists
  <2>4. CASE UpdateEntry(u)
    <3> DEFINE q == req[u]
    <3>1. CASE Holds(q.id)
      <4>1. /\ entry'.id = entry.id /\ entry'.attempts = entry.attempts
            /\ entry'.finalized = entry.finalized /\ entry'.status = q.target
        BY <1>1, <2>4, <3>1 DEF UpdateEntry, Entry
      <4>2. entry'.confirmed = (entry.confirmed \/ (q.target # q.seen /\ q.target = "submitted"))
        BY <1>1, <2>4, <3>1 DEF UpdateEntry, Entry
      <4>3. q.seen = "submitted" => entry.confirmed
        BY <3>1 DEF RequestsKnow, RequestKnows, Confirmed
      <4>4. entry.confirmed => entry'.confirmed
        BY <1>1, <4>2 DEF Entry
      <4>5. q.target = "submitted" => entry'.confirmed
        BY <4>2, <4>3, <4>4
      <4> QED BY <4>1, <4>4, <4>5 DEF SubmittedIsConfirmed, Exists
    <3>2. CASE ~Holds(q.id)
      BY <1>2, <2>4, <3>2 DEF UpdateEntry
    <3> QED BY <3>1, <3>2
  <2> QED BY <1>6, <2>1, <2>2, <2>3, <2>4 DEF UserNext
<1>7. ASSUME NEW r \in Runner, LookupNext(r) \/ LookupFault(r)
      PROVE  SubmittedIsConfirmed'
  <2>1. CASE \/ LookupSelect(r) \/ LookupFetch(r) \/ LookupFetchFails(r) \/ LookupFails(r)
             \/ FinalizeFails(r)
    BY <1>2, <2>1 DEF LookupSelect, LookupFetch, LookupFetchFails, LookupFails, FinalizeFails
  <2>2. CASE ApplyAward(r)
    <3>1. CASE Holds(lookup[r].id) /\ entry.status = "submitted"
      <4>1. entry'.id = entry.id /\ entry'.confirmed = entry.confirmed
        BY <1>1, <2>2, <3>1 DEF ApplyAward, Finalized, Entry
      <4> QED BY <3>1, <4>1 DEF SubmittedIsConfirmed, Exists
    <3> QED BY <1>2, <2>2, <3>1 DEF ApplyAward
  <2>3. CASE FinalizeResultOnly(r) \/ BumpResultAttempt(r)
    <3>1. CASE Holds(lookup[r].id)
      <4>1. entry.confirmed
        BY <2>3, <3>1 DEF FinalizeResultOnly, BumpResultAttempt, Decided, LookupsKnow, Confirmed
      <4>2. entry'.confirmed = entry.confirmed
        BY <1>1, <2>3, <3>1 DEF FinalizeResultOnly, BumpResultAttempt, Finalized, Entry
      <4> QED BY <4>1, <4>2 DEF SubmittedIsConfirmed
    <3> QED BY <1>2, <2>3, <3>1 DEF FinalizeResultOnly, BumpResultAttempt
  <2>4. CASE TellResult(r) \/ TellResultPartly(r)
    <3>1. /\ entry'.id = entry.id /\ entry'.attempts = entry.attempts
          /\ entry'.finalized = entry.finalized /\ entry'.confirmed = entry.confirmed
          /\ entry'.status = entry.status
      BY <1>1, <2>4 DEF TellResult, TellResultPartly, Tell, Entry
    <3> QED BY <3>1 DEF SubmittedIsConfirmed, Exists
  <2> QED BY <1>7, <2>1, <2>2, <2>3, <2>4 DEF LookupNext, LookupFault
<1> QED BY <1>3, <1>4, <1>5, <1>6, <1>7, Steps

LEMMA InitIInv == Init => IInv
<1> SUFFICES ASSUME Init PROVE IInv
  OBVIOUS
<1>1. IdsInUse
  BY DEF Init, IdsInUse, NoEntry, NewEntry, NoBatch, Idle, NoLookup
<1>2. RequestsKnow /\ LookupsKnow /\ SubmittedIsConfirmed
  BY DEF Init, RequestsKnow, RequestKnows, LookupsKnow, SubmittedIsConfirmed, Exists, Idle,
         NoLookup, NoEntry, NewEntry, None
<1> QED BY <1>1, <1>2, InitTypeOK DEF IInv

LEMMA InductiveIInv == IInv /\ [Next]_vars => IInv'
  BY TypeStep, IdsStep, RequestsKnowStep, LookupsKnowStep, SubmittedStep DEF IInv

(* A submitted bid, and one whose result is looked up, was confirmed by its *)
(* user: however many requests overlap, and whatever rows come and go.      *)
THEOREM SubmittedBidsConfirmed == Spec => []SubmittedIsConfirmed
<1>1. IInv => SubmittedIsConfirmed
  BY DEF IInv
<1> QED BY <1>1, InitIInv, InductiveIInv, PTL DEF Spec

-----------------------------------------------------------------------------
(* The calls of the procurement service *)

LEMMA BusyFinite ==
  /\ IsFiniteSet(Busy) /\ Cardinality(Busy) \in Nat /\ Cardinality(Busy) <= Cardinality(Runner)
  /\ IsFiniteSet(Busy') /\ Cardinality(Busy') \in Nat /\ Cardinality(Busy') <= Cardinality(Runner)
<1>1. Busy \subseteq Runner /\ Busy' \subseteq Runner
  BY DEF Busy
<1> QED BY <1>1, RunnerAssumption, FS_Subset, FS_CardinalityType

LEMMA FewerAreBounded ==
  ASSUME TypeOK, TypeOK', LookupBounded,
         entry'.attempts <= entry.attempts, Busy' \subseteq Busy
  PROVE  LookupBounded'
<1>1. Cardinality(Busy') <= Cardinality(Busy)
  BY BusyFinite, FS_Subset
<1>2. entry.attempts \in Nat /\ entry'.attempts \in Nat
  BY DEF TypeOK, Entry
<1> QED BY <1>1, <1>2, BusyFinite, Constants DEF LookupBounded

LEMMA FirstAreBounded ==
  ASSUME TypeOK', entry'.attempts < Lookups
  PROVE  LookupBounded'
<1>1. entry'.attempts \in Nat
  BY DEF TypeOK, Entry
<1> QED BY <1>1, BusyFinite, Constants DEF LookupBounded

LEMMA CountedAreBounded ==
  ASSUME TypeOK, TypeOK', LookupBounded,
         NEW r \in Busy, entry'.attempts = entry.attempts + 1, Busy' \subseteq Busy \ {r}
  PROVE  LookupBounded'
<1>1. Cardinality(Busy \ {r}) = Cardinality(Busy) - 1 /\ IsFiniteSet(Busy \ {r})
  BY BusyFinite, FS_RemoveElement
<1>2. Cardinality(Busy') <= Cardinality(Busy \ {r})
  BY <1>1, FS_Subset
<1>3. entry.attempts \in Nat /\ entry'.attempts \in Nat
  BY DEF TypeOK, Entry
<1> QED BY <1>1, <1>2, <1>3, BusyFinite, Constants DEF LookupBounded

LEMMA BoundStep ==
  ASSUME TypeOK, TypeOK', IdsInUse, LookupBounded, [Next]_vars
  PROVE  LookupBounded'
<1>1. /\ entry \in Entry /\ entry.attempts \in Nat
      /\ \A r \in Runner : lookup[r] \in Lookup
      /\ Lookups \in Nat /\ Lookups > 0
  BY Constants DEF TypeOK, Entry
<1>2. ASSUME lookup' = lookup, entry'.id = entry.id, entry'.attempts = entry.attempts
      PROVE  LookupBounded'
  <2>1. Busy' = Busy
    BY <1>2 DEF Busy, Holds, Exists
  <2> QED BY <1>1, <1>2, <2>1, FewerAreBounded
<1>3. CASE \/ Tick \/ CancelNotice \/ Publish \/ AutoExcludeSelect \/ UNCHANGED vars
  BY <1>2, <1>3 DEF Tick, CancelNotice, Publish, AutoExcludeSelect, vars
<1>4. CASE AutoExcludeWrite
  <2>1. lookup' = lookup /\ entry'.id = entry.id /\ entry'.attempts = entry.attempts
    BY <1>1, <1>4 DEF AutoExcludeWrite, Entry
  <2> QED BY <1>2, <2>1
<1>5. CASE HandleDeletePipelineEntry
  BY <1>1, <1>5, FirstAreBounded DEF HandleDeletePipelineEntry, NoEntry, NewEntry
<1>6. CASE Restart
  <2>1. Busy' = {} /\ entry' = entry
    BY <1>6 DEF Restart, Busy, NoLookup
  <2> QED BY <1>1, <2>1, FewerAreBounded
<1>7. ASSUME NEW u \in User, UserNext(u) \/ RequestFails(u)
      PROVE  LookupBounded'
  <2>1. CASE CreateCheck(u) \/ ExcludeCheck(u) \/ UpdateCheck(u) \/ RequestFails(u)
    BY <1>2, <2>1 DEF CreateCheck, ExcludeCheck, UpdateCheck, Start, RequestFails
  <2>2. CASE InsertEntry(u)
    <3>1. CASE entry' = entry
      BY <1>2, <2>2, <3>1 DEF InsertEntry
    <3>2. CASE entry' = NewEntry(used + 1, req[u].target)
      BY <1>1, <3>2, FirstAreBounded DEF NewEntry
    <3> QED BY <2>2, <3>1, <3>2 DEF InsertEntry
  <2>3. CASE ReactivateEntry(u) \/ UpdateEntry(u)
    <3>1. lookup' = lookup /\ entry'.id = entry.id /\ entry'.attempts = entry.attempts
      BY <1>1, <2>3 DEF ReactivateEntry, UpdateEntry, Entry
    <3> QED BY <1>2, <3>1
  <2> QED BY <1>7, <2>1, <2>2, <2>3 DEF UserNext
<1>8. ASSUME NEW r \in Runner, LookupNext(r) \/ LookupFault(r)
      PROVE  LookupBounded'
  <2>1. CASE LookupSelect(r)
    BY <1>1, <2>1, FirstAreBounded DEF LookupSelect, Awaiting
  <2>2. CASE LookupFetch(r) \/ LookupFetchFails(r)
    <3>1. entry' = entry /\ lookup[r].phase = "selected"
      BY <2>2 DEF LookupFetch, LookupFetchFails
    <3>2. lookup'[r].id = lookup[r].id /\ \A q \in Runner \ {r} : lookup'[q] = lookup[q]
      BY <1>1, <2>2 DEF LookupFetch, LookupFetchFails, TypeOK, Lookup
    <3>3. Busy' \subseteq Busy
      BY <3>1, <3>2 DEF Busy, Holds, Exists
    <3> QED BY <1>1, <3>1, <3>3, FewerAreBounded
  <2>3. CASE ApplyAward(r) \/ FinalizeResultOnly(r) \/ BumpResultAttempt(r)
    <3>1. /\ lookup[r].phase = "decided" /\ lookup'[r].phase \in {"idle", "telling"}
          /\ \A q \in Runner \ {r} : lookup'[q] = lookup[q]
      BY <1>1, <2>3 DEF ApplyAward, FinalizeResultOnly, BumpResultAttempt, Decided, NoLookup,
                       TypeOK, Lookup
    <3>2. entry'.id = entry.id
      BY <1>1, <2>3 DEF ApplyAward, FinalizeResultOnly, BumpResultAttempt, Finalized, Entry
    <3>3. Busy' \subseteq Busy \ {r}
      BY <3>1, <3>2 DEF Busy, Holds, Exists
    <3>4. CASE entry' = entry
      BY <1>1, <3>3, <3>4, FewerAreBounded
    <3>5. CASE Holds(lookup[r].id) /\ entry'.attempts = entry.attempts + 1
      <4>1. r \in Busy
        BY <3>1, <3>5 DEF Busy
      <4> QED BY <3>3, <3>5, <4>1, CountedAreBounded
    <3>6. entry' = entry \/ (Holds(lookup[r].id) /\ entry'.attempts = entry.attempts + 1)
      <4>1. CASE ApplyAward(r)
        BY <1>1, <4>1 DEF ApplyAward, Finalized, Entry
      <4>2. CASE FinalizeResultOnly(r)
        BY <1>1, <4>2 DEF FinalizeResultOnly, Finalized, Entry
      <4>3. CASE BumpResultAttempt(r)
        BY <1>1, <4>3 DEF BumpResultAttempt, Entry
      <4> QED BY <2>3, <4>1, <4>2, <4>3
    <3> QED BY <3>4, <3>5, <3>6
  <2>4. CASE TellResult(r) \/ TellResultPartly(r) \/ FinalizeFails(r) \/ LookupFails(r)
    <3>1. /\ lookup'[r].phase \in {"idle", "telling"}
          /\ \A q \in Runner \ {r} : lookup'[q] = lookup[q]
      BY <1>1, <2>4 DEF TellResult, TellResultPartly, Tell, FinalizeFails, LookupFails, NoLookup,
                       TypeOK, Lookup
    <3>2. entry'.id = entry.id /\ entry'.attempts = entry.attempts
      BY <1>1, <2>4 DEF TellResult, TellResultPartly, Tell, FinalizeFails, LookupFails, Entry
    <3>3. Busy' \subseteq Busy
      BY <3>1, <3>2 DEF Busy, Holds, Exists
    <3> QED BY <1>1, <3>2, <3>3, FewerAreBounded
  <2> QED BY <1>8, <2>1, <2>2, <2>3, <2>4 DEF LookupNext, LookupFault
<1> QED BY <1>3, <1>4, <1>5, <1>6, <1>7, <1>8, Steps

LEMMA InitBounded == Init => LookupBounded
<1> SUFFICES ASSUME Init PROVE LookupBounded
  OBVIOUS
<1>1. entry.attempts = 0 /\ Busy = {}
  BY DEF Init, NoEntry, NewEntry, Busy, NoLookup
<1> QED BY <1>1, FS_EmptySet, Constants DEF LookupBounded

(* The procurement service is asked about one bid at most as often as *)
(* resultCheckOffsets says, and once more for each overlapping run.   *)
THEOREM LookupsBounded == Spec => []LookupBounded
<1>1. IInv /\ LookupBounded /\ [Next]_vars => LookupBounded'
  BY InductiveIInv, BoundStep DEF IInv
<1> QED BY <1>1, InitIInv, InductiveIInv, InitBounded, PTL DEF Spec

-----------------------------------------------------------------------------
(* What is decided and written was published *)

LEMMA AwardsKept ==
  ASSUME TypeOK, [Next]_vars
  PROVE  \A k \in Round : award[k] \in Winner => award'[k] = award[k]
<1>1. CASE Publish
  <2>1. PICK k \in Round, p \in {"opened"} \cup Winner :
          award[k] \in {None, "opened"} \ {p} /\ award' = [award EXCEPT ![k] = p]
    BY <1>1 DEF Publish
  <2>2. award[k] \notin Winner
    BY <2>1 DEF Winner, None
  <2> QED BY <2>1, <2>2 DEF TypeOK
<1>2. CASE \/ Tick \/ CancelNotice \/ HandleDeletePipelineEntry \/ UNCHANGED vars
           \/ AutoExcludeSelect \/ AutoExcludeWrite \/ Restart
  BY <1>2 DEF Tick, CancelNotice, HandleDeletePipelineEntry, AutoExcludeSelect,
              AutoExcludeWrite, Restart, vars
<1>3. ASSUME NEW u \in User, UserNext(u) \/ RequestFails(u) PROVE award' = award
  BY <1>3 DEF UserNext, CreateCheck, ExcludeCheck, UpdateCheck, Start, InsertEntry,
                ReactivateEntry, UpdateEntry, RequestFails
<1>4. ASSUME NEW r \in Runner, LookupNext(r) \/ LookupFault(r) PROVE award' = award
  BY <1>4 DEF LookupNext, LookupFault, LookupSelect, LookupFetch, ApplyAward,
                FinalizeResultOnly, BumpResultAttempt, TellResult, TellResultPartly, Tell,
                LookupFetchFails, LookupFails, FinalizeFails
<1> QED BY <1>1, <1>2, <1>3, <1>4, Steps

LEMMA DecisionsStep ==
  ASSUME TypeOK, DecisionsSound, [Next]_vars
  PROVE  DecisionsSound'
<1>1. ASSUME NEW r \in Runner,
             \/ lookup'[r].phase \in {"idle", "selected"}
             \/ lookup[r].phase \in {"decided", "telling"} /\ lookup'[r].decision = lookup[r].decision
      PROVE  (lookup[r].phase \in {"decided", "telling"} => Sound(lookup[r].decision))'
  <2>1. CASE lookup[r].phase \in {"decided", "telling"} /\ lookup'[r].decision = lookup[r].decision
    <3> DEFINE d == lookup[r].decision
    <3>1. Sound(d)
      BY <2>1 DEF DecisionsSound
    <3> HIDE DEF d
    <3>2. Justified(d.result)'
      <4> DEFINE x == d.result
      <4>1. Justified(x)
        BY <3>1 DEF Sound
      <4> HIDE DEF x
      <4>2. /\ x = "WON" => \E k \in Round : award'[k] = "ours"
            /\ x = "LOST" => award'[0] = "other" /\ SafeMethod
            /\ x = "REBID" => award'[1] \in Winner
        BY <4>1, AwardsKept DEF Justified, Round, Winner
      <4> QED BY <2>1, <4>2 DEF x, d, Justified
    <3> QED BY <2>1, <3>1, <3>2 DEF Sound, d, Justified
  <2> QED BY <1>1, <2>1
<1>2. CASE lookup' = lookup \/ Restart
  <2>1. \A r \in Runner :
          \/ lookup'[r].phase \in {"idle", "selected"}
          \/ lookup[r].phase \in {"decided", "telling"} /\ lookup'[r].decision = lookup[r].decision
    BY <1>2 DEF Restart, NoLookup, TypeOK, Lookup
  <2> QED BY <1>1, <2>1 DEF DecisionsSound
<1>3. ASSUME NEW r \in Runner, LookupNext(r) \/ LookupFault(r)
      PROVE  DecisionsSound'
  <2>1. CASE LookupFetch(r) \/ LookupFetchFails(r)
    <3>1. /\ award' = award /\ lookup'[r].decision \in {ClassifyAwardResult(award),
                              [action |-> "FAILED", result |-> None]}
          /\ \A q \in Runner \ {r} : lookup'[q] = lookup[q]
      BY <2>1 DEF LookupFetch, LookupFetchFails, TypeOK, Lookup
    <3>2. Sound(ClassifyAwardResult(award))
      BY ClassifySound DEF TypeOK
    <3>3. Sound([action |-> "FAILED", result |-> None])
      BY DEF Sound, Justified, None
    <3>4. Sound(lookup[r].decision)'
      BY <3>1, <3>2, <3>3 DEF Sound, Justified
    <3>5. ASSUME NEW q \in Runner \ {r}
          PROVE (lookup[q].phase \in {"decided", "telling"} => Sound(lookup[q].decision))'
      BY <1>1, <3>1, <3>5 DEF TypeOK, Lookup
    <3> QED BY <3>4, <3>5 DEF DecisionsSound
  <2>2. CASE \/ LookupSelect(r) \/ ApplyAward(r) \/ FinalizeResultOnly(r)
             \/ BumpResultAttempt(r) \/ FinalizeFails(r) \/ TellResult(r) \/ TellResultPartly(r)
             \/ LookupFails(r)
    <3>1. \A q \in Runner \ {r} : lookup'[q] = lookup[q]
      BY <2>2 DEF LookupSelect, ApplyAward, FinalizeResultOnly, BumpResultAttempt, FinalizeFails,
                  TellResult, TellResultPartly, Tell, LookupFails, TypeOK
    <3>2. \/ lookup'[r].phase \in {"idle", "selected"}
          \/ lookup[r].phase \in {"decided", "telling"} /\ lookup'[r].decision = lookup[r].decision
      <4>1. lookup[r] \in Lookup
        BY DEF TypeOK
      <4>2. CASE LookupFails(r) \/ BumpResultAttempt(r)
        BY <4>1, <4>2 DEF LookupFails, BumpResultAttempt, TypeOK, NoLookup
      <4>6. CASE LookupSelect(r)
        <5>1. lookup'[r] = [NoLookup EXCEPT !.phase = "selected", !.id = entry.id,
                                            !.attempts = entry.attempts]
          BY <4>6 DEF LookupSelect, TypeOK
        <5> QED BY <5>1 DEF NoLookup
      <4>3. CASE ApplyAward(r) \/ FinalizeFails(r)
        BY <4>1, <4>3 DEF ApplyAward, FinalizeFails, TypeOK, Lookup, Decided
      <4>4. CASE FinalizeResultOnly(r)
        BY <4>1, <4>4 DEF FinalizeResultOnly, TypeOK, NoLookup, Lookup, Decided
      <4>5. CASE TellResult(r) \/ TellResultPartly(r)
        BY <4>1, <4>5 DEF TellResult, TellResultPartly, Tell, TypeOK, NoLookup
      <4> QED BY <2>2, <4>2, <4>3, <4>4, <4>5, <4>6
    <3>3. ASSUME NEW q \in Runner
          PROVE (lookup[q].phase \in {"decided", "telling"} => Sound(lookup[q].decision))'
      BY <1>1, <3>1, <3>2, <3>3 DEF TypeOK, Lookup
    <3> QED BY <3>3 DEF DecisionsSound
  <2> QED BY <1>3, <2>1, <2>2 DEF LookupNext, LookupFault
<1>4. CASE \/ Tick \/ CancelNotice \/ Publish \/ HandleDeletePipelineEntry
           \/ AutoExcludeSelect \/ AutoExcludeWrite \/ UNCHANGED vars
  BY <1>2, <1>4 DEF Tick, CancelNotice, Publish, HandleDeletePipelineEntry, vars,
                    AutoExcludeSelect, AutoExcludeWrite
<1>5. ASSUME NEW u \in User, UserNext(u) \/ RequestFails(u)
      PROVE  DecisionsSound'
  BY <1>2, <1>5 DEF UserNext, CreateCheck, ExcludeCheck, UpdateCheck, Start, InsertEntry,
                ReactivateEntry, UpdateEntry, RequestFails
<1> QED BY <1>2, <1>3, <1>4, <1>5, Steps

LEMMA OfficialKept ==
  ASSUME TypeOK, [Next]_vars, OfficialOutcome,
         entry'.result = entry.result, entry'.finalized = entry.finalized,
         \/ entry'.by = entry.by /\ entry'.status = entry.status
         \/ entry'.by = "user"
         \/ entry'.status \notin {"won", "lost"}
  PROVE  OfficialOutcome'
  BY AwardsKept DEF OfficialOutcome, Round, Winner

LEMMA OfficialStep ==
  ASSUME TypeOK, TypeOK', DecisionsSound, OfficialOutcome, [Next]_vars
  PROVE  OfficialOutcome'
<1>1. entry \in Entry /\ \A r \in Runner : lookup[r] \in Lookup
  BY DEF TypeOK
<1>2. CASE entry' = entry
  BY <1>2, OfficialKept
<1>3. CASE \/ Tick \/ CancelNotice \/ Publish \/ AutoExcludeSelect \/ Restart \/ UNCHANGED vars
  BY <1>2, <1>3 DEF Tick, CancelNotice, Publish, AutoExcludeSelect, Restart, vars
<1>4. CASE HandleDeletePipelineEntry
  <2>1. entry' = NoEntry
    BY <1>4 DEF HandleDeletePipelineEntry
  <2> QED BY <2>1 DEF NoEntry, NewEntry, OfficialOutcome, FinalResult, None
<1>5. CASE AutoExcludeWrite
  <2>1. CASE entry' = [entry EXCEPT !.status = "excluded", !.by = "system", !.reason = batch.rule]
    <3>1. /\ entry'.result = entry.result /\ entry'.finalized = entry.finalized
          /\ entry'.status = "excluded"
      BY <1>1, <2>1 DEF Entry
    <3> QED BY <3>1, OfficialKept
  <2> QED BY <1>2, <1>5, <2>1 DEF AutoExcludeWrite
<1>6. ASSUME NEW u \in User, UserNext(u) \/ RequestFails(u)
      PROVE  OfficialOutcome'
  <2>1. CASE CreateCheck(u) \/ ExcludeCheck(u) \/ UpdateCheck(u) \/ RequestFails(u)
    BY <1>2, <2>1 DEF CreateCheck, ExcludeCheck, UpdateCheck, Start, RequestFails
  <2>2. CASE InsertEntry(u)
    <3>1. CASE entry' = NewEntry(used + 1, req[u].target)
      BY <3>1 DEF NewEntry, OfficialOutcome, FinalResult, None
    <3> QED BY <1>2, <2>2, <3>1 DEF InsertEntry
  <2>3. CASE ReactivateEntry(u) \/ UpdateEntry(u)
    <3>1. CASE Holds(req[u].id)
      <4>1. /\ entry'.result = entry.result /\ entry'.finalized = entry.finalized
            /\ entry'.by = "user"
        BY <1>1, <2>3, <3>1 DEF ReactivateEntry, UpdateEntry, Entry
      <4> QED BY <4>1, OfficialKept
    <3> QED BY <1>2, <2>3, <3>1 DEF ReactivateEntry, UpdateEntry
  <2> QED BY <1>6, <2>1, <2>2, <2>3 DEF UserNext
<1>7. ASSUME NEW r \in Runner, LookupNext(r) \/ LookupFault(r)
      PROVE  OfficialOutcome'
  <2>0. award' = award
    BY <1>7 DEF LookupNext, LookupFault, LookupSelect, LookupFetch, ApplyAward,
                FinalizeResultOnly, BumpResultAttempt, TellResult, TellResultPartly, Tell,
                LookupFetchFails, LookupFails, FinalizeFails
  <2> DEFINE d == lookup[r].decision
  <2>1. CASE \/ LookupSelect(r) \/ LookupFetch(r) \/ LookupFetchFails(r) \/ LookupFails(r)
             \/ FinalizeFails(r)
    BY <1>2, <2>1 DEF LookupSelect, LookupFetch, LookupFetchFails, LookupFails, FinalizeFails
  <2>2. CASE ApplyAward(r)
    <3>1. CASE Holds(lookup[r].id) /\ entry.status = "submitted"
      <4>1. /\ d.action \in {"WIN", "LOSE"} /\ Sound(d)
        BY <2>2 DEF ApplyAward, Decided, DecisionsSound
      <4>2. /\ entry'.result = d.result /\ entry'.finalized = TRUE
            /\ entry'.status = IF d.action = "WIN" THEN "won" ELSE "lost"
        BY <1>1, <2>2, <3>1 DEF ApplyAward, Finalized, Entry
      <4>3. \/ d.result = "WON" /\ entry'.status = "won"
            \/ d.result = "LOST" /\ entry'.status = "lost"
        BY <4>1, <4>2 DEF Sound
      <4>4. Justified(d.result)
        BY <4>1 DEF Sound
      <4> QED BY <2>0, <4>2, <4>3, <4>4 DEF OfficialOutcome, Justified, FinalResult
    <3> QED BY <1>2, <2>2, <3>1 DEF ApplyAward
  <2>3. CASE FinalizeResultOnly(r)
    <3>1. CASE Holds(lookup[r].id)
      <4>1. d.action \in {"HOLD", "NAME_MATCH", "NONE"} /\ Sound(d)
        BY <2>3 DEF FinalizeResultOnly, Decided, DecisionsSound
      <4>2. /\ entry'.result = (IF d.action = "NONE" THEN "NO_RESULT" ELSE d.result)
            /\ entry'.finalized = TRUE
            /\ entry'.by = entry.by /\ entry'.status = entry.status
        BY <1>1, <2>3, <3>1 DEF FinalizeResultOnly, Finalized, Entry
      <4>3. entry'.result \in FinalResult /\ Justified(entry'.result)
        BY <4>1, <4>2 DEF Sound, Justified, FinalResult
      <4> QED BY <2>0, <4>2, <4>3 DEF OfficialOutcome, Justified
    <3> QED BY <1>2, <2>3, <3>1 DEF FinalizeResultOnly
  <2>4. CASE BumpResultAttempt(r)
    <3>1. /\ entry'.finalized = entry.finalized
          /\ entry'.by = entry.by /\ entry'.status = entry.status
          /\ \/ entry'.result = entry.result
             \/ entry.result = None /\ entry'.result = "PENDING"
      BY <1>1, <2>4 DEF BumpResultAttempt, Entry
    <3> QED BY <2>0, <3>1 DEF OfficialOutcome, FinalResult, None
  <2>5. CASE TellResult(r) \/ TellResultPartly(r)
    <3>1. /\ entry'.finalized = entry.finalized /\ entry'.result = entry.result
          /\ entry'.by = entry.by /\ entry'.status = entry.status
      BY <1>1, <2>5 DEF TellResult, TellResultPartly, Tell, Entry
    <3> QED BY <3>1, OfficialKept
  <2> QED BY <1>7, <2>1, <2>2, <2>3, <2>4, <2>5 DEF LookupNext, LookupFault
<1> QED BY <1>3, <1>4, <1>5, <1>6, <1>7, Steps

(* A result and a status that the lookup wrote are those that were published, *)
(* whatever users and other lookups wrote meanwhile.                          *)
THEOREM OutcomesOfficial == Spec => []OfficialOutcome
<1> DEFINE Inv == TypeOK /\ DecisionsSound /\ OfficialOutcome
<1>1. Init => Inv
  <2>1. Init => DecisionsSound /\ OfficialOutcome
    BY DEF Init, DecisionsSound, NoLookup, OfficialOutcome, NoEntry, NewEntry, FinalResult, None
  <2> QED BY <2>1, InitTypeOK
<1>2. Inv /\ [Next]_vars => Inv'
  BY TypeStep, DecisionsStep, OfficialStep
<1>3. Inv => OfficialOutcome
  OBVIOUS
<1> QED BY <1>1, <1>2, <1>3, PTL DEF Spec

-----------------------------------------------------------------------------
(* A result is told *)

LEMMA TellingKept ==
  ASSUME ToldOrTelling, faults = 0,
         entry'.id = entry.id, entry'.finalized = entry.finalized,
         entry'.result = entry.result \/ ~entry.finalized, entry'.told = entry.told,
         \A r \in Runner : lookup[r].phase = "telling" => lookup'[r] = lookup[r]
  PROVE  ToldOrTelling'
<1> SUFFICES ASSUME faults' = 0, entry'.finalized, entry'.result # "NO_RESULT",
                    entry'.result \notin entry'.told
             PROVE  \E r \in Runner : WillTell(r)'
  BY DEF ToldOrTelling
<1>1. PICK r \in Runner : WillTell(r)
  BY DEF ToldOrTelling
<1>2. WillTell(r)'
  BY <1>1 DEF WillTell, Holds, Exists
<1> QED BY <1>2

LEMMA ToldStep ==
  ASSUME TypeOK, OfficialOutcome, ToldOrTelling, [Next]_vars
  PROVE  ToldOrTelling'
<1>1. entry \in Entry /\ faults \in Nat /\ \A r \in Runner : lookup[r] \in Lookup
  BY BoundAssumption DEF TypeOK
<1>2. CASE faults' = faults + 1
  BY <1>1, <1>2 DEF ToldOrTelling
<1>3. CASE \/ Tick \/ CancelNotice \/ Publish \/ AutoExcludeSelect \/ UNCHANGED vars
  BY <1>3 DEF Tick, CancelNotice, Publish, AutoExcludeSelect, vars, ToldOrTelling, WillTell,
              Holds, Exists
<1>4. CASE Restart
  BY <1>2, <1>4 DEF Restart
<1>5. CASE HandleDeletePipelineEntry
  BY <1>5 DEF HandleDeletePipelineEntry, NoEntry, NewEntry, ToldOrTelling
<1>6. CASE AutoExcludeWrite
  <2>1. /\ entry'.id = entry.id /\ entry'.finalized = entry.finalized
        /\ entry'.result = entry.result /\ entry'.told = entry.told
        /\ lookup' = lookup /\ faults' = faults
    BY <1>1, <1>6 DEF AutoExcludeWrite, Entry
  <2>2. CASE faults = 0
    BY <2>1, <2>2, TellingKept
  <2>3. CASE faults # 0
    BY <2>1, <2>3 DEF ToldOrTelling
  <2> QED BY <2>2, <2>3
<1>7. ASSUME NEW u \in User, UserNext(u) \/ RequestFails(u)
      PROVE  ToldOrTelling'
  <2>1. CASE CreateCheck(u) \/ ExcludeCheck(u) \/ UpdateCheck(u)
    BY <2>1 DEF CreateCheck, ExcludeCheck, UpdateCheck, Start, ToldOrTelling, WillTell, Holds,
                Exists
  <2>2. CASE RequestFails(u)
    BY <1>2, <2>2 DEF RequestFails
  <2>3. CASE InsertEntry(u)
    <3>1. CASE entry' = entry
      BY <2>3, <3>1 DEF InsertEntry, ToldOrTelling, WillTell, Holds, Exists
    <3>2. CASE entry' = NewEntry(used + 1, req[u].target)
      BY <3>2 DEF NewEntry, ToldOrTelling
    <3> QED BY <2>3, <3>1, <3>2 DEF InsertEntry
  <2>4. CASE ReactivateEntry(u) \/ UpdateEntry(u)
    <3>1. /\ entry'.id = entry.id /\ entry'.finalized = entry.finalized
          /\ entry'.result = entry.result /\ entry'.told = entry.told
          /\ lookup' = lookup /\ faults' = faults
      BY <1>1, <2>4 DEF ReactivateEntry, UpdateEntry, Entry
    <3>2. CASE faults = 0
      BY <3>1, <3>2, TellingKept
    <3>3. CASE faults # 0
      BY <3>1, <3>3 DEF ToldOrTelling
    <3> QED BY <3>2, <3>3
  <2> QED BY <1>7, <2>1, <2>2, <2>3, <2>4 DEF UserNext
<1>8. ASSUME NEW r \in Runner, LookupNext(r) \/ LookupFault(r), faults = 0
      PROVE  ToldOrTelling'
  <2> DEFINE d == lookup[r].decision
  <2>1. CASE LookupSelect(r) \/ LookupFetch(r) \/ BumpResultAttempt(r)
    <3>1. /\ entry'.id = entry.id /\ entry'.finalized = entry.finalized /\ entry'.told = entry.told
          /\ \/ entry'.result = entry.result
             \/ entry.result = None
      BY <1>1, <2>1 DEF LookupSelect, LookupFetch, BumpResultAttempt, Entry
    <3>2. \A q \in Runner : lookup[q].phase = "telling" => lookup'[q] = lookup[q]
      BY <2>1 DEF LookupSelect, LookupFetch, BumpResultAttempt, Decided, TypeOK
    <3>3. CASE entry'.result = entry.result
      BY <1>8, <3>1, <3>2, <3>3, TellingKept
    <3>4. CASE entry.result = None /\ entry'.result # entry.result
      <4>3. ~entry.finalized
        BY <3>4 DEF OfficialOutcome, FinalResult, None
      <4> QED BY <1>8, <3>1, <3>2, <4>3, TellingKept
    <3> QED BY <3>1, <3>3, <3>4
  <2>2. CASE ApplyAward(r) \/ FinalizeResultOnly(r)
    <3>1. \A q \in Runner : lookup[q].phase = "telling" => lookup'[q] = lookup[q]
      BY <2>2 DEF ApplyAward, FinalizeResultOnly, Decided, TypeOK
    <3>2. CASE entry' = entry
      BY <1>8, <3>1, <3>2, TellingKept
    <3>3. CASE entry' # entry
      <4>1. Holds(lookup[r].id) /\ entry'.id = entry.id
        BY <1>1, <2>2, <3>3 DEF ApplyAward, FinalizeResultOnly, Finalized, Entry
      <4>2. \/ entry'.result = "NO_RESULT"
            \/ /\ entry'.result = d.result /\ lookup'[r].phase = "telling"
               /\ lookup'[r].decision = d /\ lookup'[r].id = lookup[r].id
        <5>1. CASE ApplyAward(r)
          BY <1>1, <3>3, <5>1 DEF ApplyAward, Finalized, Entry, TypeOK, Lookup
        <5>2. CASE FinalizeResultOnly(r)
          BY <1>1, <3>3, <5>2 DEF FinalizeResultOnly, Finalized, Entry, TypeOK, Lookup
        <5> QED BY <2>2, <5>1, <5>2
      <4>3. CASE entry'.result = "NO_RESULT"
        BY <4>3 DEF ToldOrTelling
      <4>4. CASE entry'.result = d.result /\ lookup'[r].phase = "telling"
                 /\ lookup'[r].decision = d /\ lookup'[r].id = lookup[r].id
        <5>1. WillTell(r)'
          BY <4>1, <4>4 DEF WillTell, Holds, Exists
        <5> QED BY <5>1 DEF ToldOrTelling
      <4> QED BY <4>2, <4>3, <4>4
    <3> QED BY <3>2, <3>3
  <2>3. CASE TellResult(r)
    <3>1. \A q \in Runner \ {r} : lookup'[q] = lookup[q]
      BY <2>3 DEF TellResult, Tell, TypeOK
    <3>2. /\ entry'.id = entry.id /\ entry'.finalized = entry.finalized
          /\ entry'.result = entry.result /\ entry.told \subseteq entry'.told
          /\ Holds(lookup[r].id) => d.result \in entry'.told
      BY <1>1, <2>3 DEF TellResult, Tell, Follow, Entry
    <3> SUFFICES ASSUME entry.finalized, entry.result # "NO_RESULT",
                        entry.result \notin entry'.told
                 PROVE  \E q \in Runner : WillTell(q)'
      BY <3>2 DEF ToldOrTelling
    <3>3. PICK q \in Runner : WillTell(q)
      BY <1>8, <3>2 DEF ToldOrTelling
    <3>4. q # r
      BY <3>2, <3>3 DEF WillTell
    <3>5. WillTell(q)'
      BY <3>1, <3>2, <3>3, <3>4 DEF WillTell, Holds, Exists
    <3> QED BY <3>5
  <2>4. CASE LookupFault(r)
    BY <1>2, <2>4 DEF LookupFault, LookupFetchFails, LookupFails, FinalizeFails, TellResultPartly
  <2> QED BY <1>8, <2>1, <2>2, <2>3, <2>4 DEF LookupNext
<1>9. ASSUME NEW r \in Runner, LookupNext(r) \/ LookupFault(r), faults # 0
      PROVE  ToldOrTelling'
  <2>1. faults' = faults \/ faults' = faults + 1
    BY <1>9 DEF LookupNext, LookupFault, LookupSelect, LookupFetch, ApplyAward,
                FinalizeResultOnly, BumpResultAttempt, TellResult, TellResultPartly, Tell,
                LookupFetchFails, LookupFails, FinalizeFails
  <2> QED BY <1>1, <1>9, <2>1 DEF ToldOrTelling
<1> QED BY <1>3, <1>4, <1>5, <1>6, <1>7, <1>8, <1>9, Steps

(* Without faults the company is told of every result that the lookup found. *)
THEOREM OutcomesTold == Spec => []ToldOfOutcome
<1>1. Init => ToldOrTelling
  BY DEF Init, ToldOrTelling, NoEntry, NewEntry
<1>2. ToldOrTelling => ToldOfOutcome
  BY DEF ToldOrTelling, ToldOfOutcome, WillTell
<1> QED BY <1>1, <1>2, TypeCorrect, OutcomesOfficial, ToldStep, PTL DEF Spec
=============================================================================
