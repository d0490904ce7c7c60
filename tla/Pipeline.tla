------------------------------ MODULE Pipeline ------------------------------
(***************************************************************************)
(* One notice in the bid pipeline of one company: the user's handlers      *)
(* (api/company_pipeline.go, api/notice_exclude.go), the automatic         *)
(* exclusion (api/pipeline_auto_transition.go) and the lookup of the       *)
(* official result (api/pipeline_result_lookup.go), which all write the    *)
(* one notice_pipeline_entries row of the pair.                            *)
(*                                                                         *)
(* No handler uses a transaction around its check and its write, so each   *)
(* SQL statement is a step and a request carries what it has read.         *)
(***************************************************************************)
EXTENDS Integers, Sequences, FiniteSets

CONSTANTS
    User,        \* the user requests that may be in flight together
    Runner,      \* result lookups in flight: the ticker, administrators
    Offsets,     \* resultCheckOffsets: lookup k is due Offsets[k] after the opening
    Opening,     \* notices.opening_at
    Overdue,     \* the instant 24 hours after the submission deadline
    SafeMethod,  \* isSafeCompetitiveMethod(success_bid_method_name)
    Goal,        \* bound: the statuses users set
    Publishable, \* bound: the pairs of a round and an award that may be published
    MaxTime,     \* bound: the clock stops here
    MaxEntries,  \* bound on rows ever created for the pair
    MaxFaults    \* bound on failed statements, failed calls and restarts

ASSUME OffsetsAssumption == Offsets \in Seq(Nat) /\ Len(Offsets) > 0
ASSUME TimeAssumption == {Opening, Overdue, MaxTime} \subseteq Nat
ASSUME BoundAssumption == MaxEntries \in Nat /\ MaxFaults \in Nat
ASSUME RunnerAssumption == IsFiniteSet(Runner)
ASSUME MethodAssumption == SafeMethod \in BOOLEAN

VARIABLES
    now,         \* the clock
    cancelled,   \* notices.status = 'cancelled'
    award,       \* award[k]: what the procurement service publishes of bid round k
    entry,       \* the notice_pipeline_entries row, id 0 without one
    used,        \* how many rows have been created
    candidates,  \* the entries for which a company_track_records row was made
    req,         \* req[u]: local variables of a user request
    batch,       \* what the exclusion statement has selected and not yet written
    lookup,      \* lookup[r]: local variables of a result lookup
    faults

vars == <<now, cancelled, award, entry, used, candidates, req, batch,
          lookup, faults>>

-----------------------------------------------------------------------------
(* Rows *)

Status == {"reviewing", "preparing", "submitted", "won", "lost", "excluded"}
ASSUME GoalAssumption == Goal \subseteq Status
None == "none"
Reason == {None, "user", "deadline", "cancelled"}
FinalResult == {"WON", "LOST", "REBID", "NAME_MATCH", "NEEDS_REVIEW", "NO_RESULT"}
Result == FinalResult \cup {None, "PENDING"}
Author == {"user", "system"}

Entry == [id: Nat, status: Status, by: Author, reason: Reason,
          confirmed: BOOLEAN, attempts: Nat, finalized: BOOLEAN,
          result: Result, told: SUBSET Result]

NewEntry(id, status) ==
    [id |-> id, status |-> status, by |-> "user", reason |-> None,
     confirmed |-> FALSE, attempts |-> 0, finalized |-> FALSE,
     result |-> None, told |-> {}]

NoEntry == NewEntry(0, "reviewing")
Exists == entry.id # 0
Holds(id) == Exists /\ entry.id = id

Request == [kind: {None, "create", "exclude", "update"},
            phase: {"idle", "checked"},
            target: Status, id: Nat, seen: Status \cup {None}]
Idle == [kind |-> None, phase |-> "idle", target |-> "reviewing", id |-> 0, seen |-> None]

NoBatch == [rule |-> None, id |-> 0]
Batch == {NoBatch} \cup [rule: {"deadline", "cancelled"}, id: Nat]

-----------------------------------------------------------------------------
(* The published awards and their classification *)

Round == 0..1      \* rbidNo: 0 is the bid, 1 its repetition
Winner == {"ours", "other", "namesake", "unknown"}
Published == {None, "opened"} \cup Winner

Action == {"NONE", "WIN", "LOSE", "NAME_MATCH", "HOLD", "FAILED"}
Decision == [action: Action, result: Result]
Undecided == [action |-> "NONE", result |-> None]
Lookup == [phase: {"idle", "selected", "decided", "telling"}, id: Nat,
           attempts: Nat, decision: Decision]
NoLookup == [phase |-> "idle", id |-> 0, attempts |-> 0, decision |-> Undecided]

LastOf(rounds) == CHOOSE k \in rounds : \A j \in rounds : j <= k

(* Mutant: fnlSucsfDate is not looked at. *)
TakesAnyRecord(pub) ==
    LET known == {k \in Round : pub[k] # None}
    IN  IF known # {} THEN LastOf(known) ELSE -1

(* pickMatchingAward: a final record before an opened one, then the last round *)
PickMatchingAward(pub) ==
    LET final == {k \in Round : pub[k] \in Winner}
    IN  IF final # {} THEN LastOf(final) ELSE -1

ClassifyAwardResult(pub) ==
    LET k == PickMatchingAward(pub)
        decide(a, r) == [action |-> a, result |-> r]
    IN  IF k = -1 THEN Undecided
        ELSE CASE pub[k] = "ours" -> decide("WIN", "WON")
               [] pub[k] # "ours" /\ k > 0 -> decide("HOLD", "REBID")
               [] pub[k] = "namesake" /\ k = 0 -> decide("NAME_MATCH", "NAME_MATCH")
               [] pub[k] = "unknown" /\ k = 0 -> decide("HOLD", "NEEDS_REVIEW")
               [] OTHER -> IF SafeMethod THEN decide("LOSE", "LOST")
                                         ELSE decide("HOLD", "NEEDS_REVIEW")

-----------------------------------------------------------------------------
Init ==
    /\ now = 0
    /\ cancelled = FALSE
    /\ award = [k \in Round |-> None]
    /\ entry = NoEntry
    /\ used = 0
    /\ candidates = {}
    /\ req = [u \in User |-> Idle]
    /\ batch = NoBatch
    /\ lookup = [r \in Runner |-> NoLookup]
    /\ faults = 0

(* Environment *)

Tick ==
    /\ now < MaxTime
    /\ now' = now + 1
    /\ UNCHANGED <<cancelled, award, entry, used, candidates, req, batch, lookup, faults>>

(* The collector stores a cancellation notice. *)
CancelNotice ==
    /\ ~cancelled
    /\ cancelled' = TRUE
    /\ UNCHANGED <<now, award, entry, used, candidates, req, batch, lookup, faults>>

(* The procurement service publishes an opening, later its final result; a bid *)
(* is repeated only after its first round was opened.                          *)
Publish ==
    /\ now >= Opening
    /\ \E k \in Round, p \in {"opened"} \cup Winner :
        /\ <<k, p>> \in Publishable
        /\ award[k] \in {None, "opened"} \ {p}
        /\ \A j \in Round : j < k => award[j] # None
        /\ award' = [award EXCEPT ![k] = p]
    /\ UNCHANGED <<now, cancelled, entry, used, candidates, req, batch, lookup, faults>>

-----------------------------------------------------------------------------
(* The user's requests *)

Start(u, kind, target) ==
    /\ req[u].phase = "idle"
    /\ req' = [req EXCEPT ![u] =
                 [kind |-> kind, phase |-> "checked", target |-> target, id |-> entry.id,
                  seen |-> IF Exists THEN entry.status ELSE None]]
    /\ UNCHANGED <<now, cancelled, award, entry, used, candidates, batch, lookup, faults>>

(* handleCreatePipelineEntry up to its write: a row that is neither excluded *)
(* nor to be promoted is returned as it is.                                  *)
CreateCheck(u) ==
    \E target \in {"reviewing", "preparing"} :
        /\ \/ ~Exists
           \/ entry.status = "excluded"
           \/ entry.status = "reviewing" /\ target = "preparing"
        /\ Start(u, "create", target)

(* handleExcludeNotice: only a notice without a row goes on *)
ExcludeCheck(u) ==
    /\ ~Exists
    /\ Start(u, "exclude", "excluded")

(* handleUpdatePipelineEntry: ownership and current status *)
UpdateCheck(u) ==
    /\ Exists
    /\ \E target \in Goal : Start(u, "update", target)

Checked(u, kind) == req[u].phase = "checked" /\ req[u].kind = kind

(* INSERT under UNIQUE (company_profile_id, notice_id): the loser of two      *)
(* inserts gets an error.                                                     *)
InsertEntry(u) ==
    /\ Checked(u, "create") \/ Checked(u, "exclude")
    /\ req[u].id = 0
    /\ used < MaxEntries
    /\ IF Exists
       THEN UNCHANGED <<entry, used>>
       ELSE /\ entry' = NewEntry(used + 1, req[u].target)
            /\ used' = used + 1
    /\ req' = [req EXCEPT ![u] = Idle]
    /\ UNCHANGED <<now, cancelled, award, candidates, batch, lookup, faults>>

(* UPDATE ... WHERE id: an excluded row comes back, a reviewed one is promoted *)
ReactivateEntry(u) ==
    /\ Checked(u, "create")
    /\ req[u].id # 0
    /\ entry' = IF Holds(req[u].id)
                THEN [entry EXCEPT !.status = req[u].target, !.by = "user",
                        !.reason = IF req[u].seen = "excluded" THEN None ELSE @]
                ELSE entry
    /\ req' = [req EXCEPT ![u] = Idle]
    /\ UNCHANGED <<now, cancelled, award, used, candidates, batch, lookup, faults>>

(* Mutant: only a bid in preparation can be confirmed. *)
ConfirmsPreparedOnly(u) ==
    LET q == req[u]
        changes == q.target # q.seen
    IN  /\ Checked(u, "update")
        /\ entry' = IF Holds(q.id)
                    THEN [entry EXCEPT !.status = q.target, !.by = "user",
                            !.confirmed = @ \/ (q.seen = "preparing" /\ q.target = "submitted"),
                            !.reason = IF ~changes THEN @
                                       ELSE IF q.target = "excluded" THEN "user" ELSE None]
                    ELSE entry
        /\ req' = [req EXCEPT ![u] = Idle]
        /\ UNCHANGED <<now, cancelled, award, used, candidates, batch, lookup, faults>>

(* The partial UPDATE of handleUpdatePipelineEntry. Whether the status changes *)
(* is decided by the status read before: the confirmed and reason columns go   *)
(* with a change only.                                                         *)
UpdateEntry(u) ==
    LET q == req[u]
        changes == q.target # q.seen
    IN  /\ Checked(u, "update")
        /\ entry' = IF Holds(q.id)
                    THEN [entry EXCEPT !.status = q.target, !.by = "user",
                            !.confirmed = @ \/ (changes /\ q.target = "submitted"),
                            !.reason = IF ~changes THEN @
                                       ELSE IF q.target = "excluded" THEN "user" ELSE None]
                    ELSE entry
        /\ req' = [req EXCEPT ![u] = Idle]
        /\ UNCHANGED <<now, cancelled, award, used, candidates, batch, lookup, faults>>

(* handleDeletePipelineEntry: one transaction, by id *)
HandleDeletePipelineEntry ==
    /\ Exists
    /\ entry' = NoEntry
    /\ UNCHANGED <<now, cancelled, award, used, candidates, req, batch, lookup, faults>>

-----------------------------------------------------------------------------
(* Automatic exclusion. Each rule is one statement, but its SELECT is a part   *)
(* that PostgreSQL evaluates on the statement's snapshot and does not repeat   *)
(* when the UPDATE has waited for another writer of the row.                   *)

DeadlinePassed ==
    entry.status \in {"reviewing", "preparing"} /\ ~entry.confirmed /\ now > Overdue

NoticeClosed ==
    entry.status \in {"reviewing", "preparing", "submitted"} /\ cancelled

AutoExcludeSelect ==
    /\ batch = NoBatch
    /\ Exists
    /\ \E rule \in {"deadline", "cancelled"} :
        /\ rule = "deadline" => DeadlinePassed
        /\ rule = "cancelled" => NoticeClosed
        /\ batch' = [rule |-> rule, id |-> entry.id]
    /\ UNCHANGED <<now, cancelled, award, entry, used, candidates, req, lookup, faults>>

AutoExcludeWrite ==
    /\ batch # NoBatch
    /\ batch' = NoBatch
    /\ entry' = IF Holds(batch.id)
                THEN [entry EXCEPT !.status = "excluded", !.by = "system",
                                   !.reason = batch.rule]
                ELSE entry
    /\ UNCHANGED <<now, cancelled, award, used, candidates, req, lookup, faults>>

-----------------------------------------------------------------------------
(* Result lookup *)

Lookups == Len(Offsets)
Awaiting == Exists /\ entry.status = "submitted" /\ now >= Opening
                /\ ~entry.finalized /\ entry.attempts < Lookups

(* Mutant: the number of attempts does not end the lookups. *)
SelectsForEver(r) ==
    /\ lookup[r].phase = "idle"
    /\ Exists /\ entry.status = "submitted" /\ ~entry.finalized
    /\ now >= Opening + Offsets[IF entry.attempts < Lookups THEN entry.attempts + 1 ELSE Lookups]
    /\ lookup' = [lookup EXCEPT ![r] = [NoLookup EXCEPT !.phase = "selected",
                                          !.id = entry.id, !.attempts = entry.attempts]]
    /\ UNCHANGED <<now, cancelled, award, entry, used, candidates, req, batch, faults>>

LookupSelect(r) ==
    /\ lookup[r].phase = "idle"
    /\ Awaiting
    /\ now >= Opening + Offsets[entry.attempts + 1]
    /\ lookup' = [lookup EXCEPT ![r] = [NoLookup EXCEPT !.phase = "selected",
                                          !.id = entry.id, !.attempts = entry.attempts]]
    /\ UNCHANGED <<now, cancelled, award, entry, used, candidates, req, batch, faults>>

(* FetchAwards and classifyAwardResult *)
LookupFetch(r) ==
    /\ lookup[r].phase = "selected"
    /\ lookup' = [lookup EXCEPT ![r].phase = "decided",
                                ![r].decision = ClassifyAwardResult(award)]
    /\ UNCHANGED <<now, cancelled, award, entry, used, candidates, req, batch, faults>>

LookupFetchFails(r) ==
    /\ lookup[r].phase = "selected"
    /\ faults < MaxFaults
    /\ faults' = faults + 1
    /\ lookup' = [lookup EXCEPT ![r].phase = "decided",
                                ![r].decision = [action |-> "FAILED", result |-> None]]
    /\ UNCHANGED <<now, cancelled, award, entry, used, candidates, req, batch>>

Decided(r, actions) == lookup[r].phase = "decided" /\ lookup[r].decision.action \in actions

Finalized(e, result) ==
    [e EXCEPT !.attempts = @ + 1, !.finalized = TRUE, !.result = result]

(* applyAwardWin, applyAwardLose: only the UPDATE is guarded by the status *)
ApplyAward(r) ==
    LET l == lookup[r]
        status == IF l.decision.action = "WIN" THEN "won" ELSE "lost"
    IN  /\ Decided(r, {"WIN", "LOSE"})
        /\ entry' = IF Holds(l.id) /\ entry.status = "submitted"
                    THEN [Finalized(entry, l.decision.result) EXCEPT
                            !.status = status, !.by = "system"]
                    ELSE entry
        /\ lookup' = [lookup EXCEPT ![r].phase = "telling"]
        /\ UNCHANGED <<now, cancelled, award, used, candidates, req, batch, faults>>

(* Mutant: a result without a change of status is not told. *)
FinalizesSilently(r) ==
    LET l == lookup[r]
        result == IF l.decision.action = "NONE" THEN "NO_RESULT" ELSE l.decision.result
    IN  /\ Decided(r, {"HOLD", "NAME_MATCH", "NONE"})
        /\ l.decision.action = "NONE" => l.attempts + 1 >= Lookups
        /\ entry' = IF Holds(l.id) THEN Finalized(entry, result) ELSE entry
        /\ lookup' = [lookup EXCEPT ![r] = NoLookup]
        /\ UNCHANGED <<now, cancelled, award, used, candidates, req, batch, faults>>

(* finalizeResultOnly: the status stays, the lookups end *)
FinalizeResultOnly(r) ==
    LET l == lookup[r]
        exhausted == l.attempts + 1 >= Lookups
        result == IF l.decision.action = "NONE" THEN "NO_RESULT" ELSE l.decision.result
    IN  /\ Decided(r, {"HOLD", "NAME_MATCH", "NONE"})
        /\ l.decision.action = "NONE" => exhausted
        /\ entry' = IF Holds(l.id) THEN Finalized(entry, result) ELSE entry
        /\ lookup' = [lookup EXCEPT ![r] = IF l.decision.action = "NONE" THEN NoLookup
                                           ELSE [@ EXCEPT !.phase = "telling"]]
        /\ UNCHANGED <<now, cancelled, award, used, candidates, req, batch, faults>>

(* Mutant: a lookup without a result is not counted. *)
DoesNotCount(r) ==
    /\ Decided(r, {"NONE", "FAILED"})
    /\ lookup[r].decision.action = "NONE" => lookup[r].attempts + 1 < Lookups
    /\ lookup' = [lookup EXCEPT ![r] = NoLookup]
    /\ UNCHANGED <<now, cancelled, award, entry, used, candidates, req, batch, faults>>

(* bumpResultAttempt: no result yet, or the service failed *)
BumpResultAttempt(r) ==
    LET l == lookup[r]
        exhausted == l.attempts + 1 >= Lookups
    IN  /\ Decided(r, {"NONE", "FAILED"})
        /\ l.decision.action = "NONE" => ~exhausted
        /\ entry' = IF Holds(l.id)
                    THEN [entry EXCEPT !.attempts = @ + 1,
                                       !.result = IF @ = None THEN "PENDING" ELSE @]
                    ELSE entry
        /\ lookup' = [lookup EXCEPT ![r] = NoLookup]
        /\ UNCHANGED <<now, cancelled, award, used, candidates, req, batch, faults>>

(* The track record candidate and the messages after the UPDATE. They do not  *)
(* ask whether it changed a row, and neither depends on the other: done is    *)
(* the set of those that succeed. A message refers to the entry and is        *)
(* refused when it is gone, the candidate belongs to the company.             *)
Follow == {"candidate", "message"}

Tell(r, done) ==
    LET l == lookup[r]
        action == l.decision.action
    IN  /\ l.phase = "telling"
        /\ candidates' = IF "candidate" \in done /\ action = "WIN"
                         THEN candidates \cup {l.id} ELSE candidates
        /\ entry' = IF "message" \in done /\ Holds(l.id)
                    THEN [entry EXCEPT !.told = @ \cup {l.decision.result}] ELSE entry
        /\ lookup' = [lookup EXCEPT ![r] = NoLookup]
        /\ UNCHANGED <<now, cancelled, award, used, req, batch>>

TellResult(r) == Tell(r, Follow) /\ UNCHANGED faults

TellResultPartly(r) ==
    /\ faults < MaxFaults
    /\ faults' = faults + 1
    /\ \E done \in SUBSET Follow \ {Follow} : Tell(r, done)

(* finalizeResultOnly only logs an error: the message is sent all the same. *)
FinalizeFails(r) ==
    /\ Decided(r, {"HOLD", "NAME_MATCH"})
    /\ faults < MaxFaults
    /\ faults' = faults + 1
    /\ lookup' = [lookup EXCEPT ![r].phase = "telling"]
    /\ UNCHANGED <<now, cancelled, award, entry, used, candidates, req, batch>>

-----------------------------------------------------------------------------
(* Faults: a statement fails or its context ends, the process restarts *)

RequestFails(u) ==
    /\ req[u].phase # "idle"
    /\ faults < MaxFaults
    /\ faults' = faults + 1
    /\ req' = [req EXCEPT ![u] = Idle]
    /\ UNCHANGED <<now, cancelled, award, entry, used, candidates, batch, lookup>>

LookupFails(r) ==
    /\ lookup[r].phase \in {"selected", "decided"}
    /\ faults < MaxFaults
    /\ faults' = faults + 1
    /\ lookup' = [lookup EXCEPT ![r] = NoLookup]
    /\ UNCHANGED <<now, cancelled, award, entry, used, candidates, req, batch>>

Restart ==
    /\ faults < MaxFaults
    /\ faults' = faults + 1
    /\ req' = [u \in User |-> Idle]
    /\ batch' = NoBatch
    /\ lookup' = [r \in Runner |-> NoLookup]
    /\ UNCHANGED <<now, cancelled, award, entry, used, candidates>>

-----------------------------------------------------------------------------
UserNext(u) ==
    \/ CreateCheck(u) \/ ExcludeCheck(u) \/ UpdateCheck(u)
    \/ InsertEntry(u) \/ ReactivateEntry(u) \/ UpdateEntry(u)

LookupNext(r) ==
    \/ LookupSelect(r) \/ LookupFetch(r)
    \/ ApplyAward(r) \/ FinalizeResultOnly(r) \/ BumpResultAttempt(r) \/ TellResult(r)

LookupFault(r) ==
    LookupFetchFails(r) \/ LookupFails(r) \/ FinalizeFails(r) \/ TellResultPartly(r)

Next ==
    \/ Tick \/ CancelNotice \/ Publish
    \/ HandleDeletePipelineEntry
    \/ AutoExcludeSelect \/ AutoExcludeWrite
    \/ Restart
    \/ \E u \in User : UserNext(u) \/ RequestFails(u)
    \/ \E r \in Runner : LookupNext(r) \/ LookupFault(r)

Spec == Init /\ [][Next]_vars

(* The clock goes on and the half-hourly ticker repeats the lookup. *)
Fairness ==
    /\ WF_vars(Tick)
    /\ \A r \in Runner : WF_vars(LookupNext(r))

FairSpec == Spec /\ Fairness

-----------------------------------------------------------------------------
(* Properties *)

TypeOK ==
    /\ now \in 0..MaxTime
    /\ cancelled \in BOOLEAN
    /\ award \in [Round -> Published]
    /\ entry \in Entry
    /\ used \in 0..MaxEntries
    /\ candidates \subseteq Nat
    /\ req \in [User -> Request]
    /\ batch \in Batch
    /\ lookup \in [Runner -> Lookup]
    /\ faults \in 0..MaxFaults

(* A bid that is submitted, or whose result is looked up, has the instant at    *)
(* which the user confirmed the submission (handleUpdatePipelineEntry sets it   *)
(* only when the status it read before is another one), whatever overlaps.      *)
SubmittedIsConfirmed ==
    Exists /\ (entry.status = "submitted" \/ entry.attempts > 0 \/ entry.finalized)
        => entry.confirmed

(* The polling of the procurement service ends: overlapping lookups can exceed  *)
(* resultCheckOffsets by one call each, but the bound counts every call.        *)
Busy == {r \in Runner : lookup[r].phase \in {"selected", "decided"} /\ Holds(lookup[r].id)}
LookupBounded == entry.attempts + Cardinality(Busy) <= Lookups + Cardinality(Runner) - 1

(* What the lookup writes is what was published, though it is written after the *)
(* call, over whatever the user and other lookups did meanwhile.                *)
OfficialOutcome ==
    /\ entry.finalized <=> entry.result \in FinalResult
    /\ entry.result = "WON" => \E k \in Round : award[k] = "ours"
    /\ entry.result = "LOST" => award[0] = "other" /\ SafeMethod
    /\ entry.result = "REBID" => award[1] \in Winner
    /\ entry.by = "system" /\ entry.status = "won" => \E k \in Round : award[k] = "ours"
    /\ entry.by = "system" /\ entry.status = "lost" => award[0] = "other" /\ SafeMethod

(* Without faults the company hears of every result that was found: the row is  *)
(* final before the message, and a final row is never looked up again.          *)
ToldOfOutcome ==
    (faults = 0 /\ entry.finalized /\ entry.result # "NO_RESULT"
        /\ \A r \in Runner : ~(lookup[r].phase = "telling" /\ Holds(lookup[r].id)))
    => entry.result \in entry.told

(* A submitted bid does not wait for its result for ever. *)
LookupEnds == Awaiting ~> ~Awaiting
=============================================================================
