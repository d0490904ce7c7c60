---------------------------- MODULE FeatureUsage ----------------------------
(***************************************************************************)
(* The monthly uses a plan allows: api/feature_usage.go and its callers,   *)
(* for one organisation.                                                   *)
(*                                                                         *)
(* consumeFeatureUsage serialises the requests for one (feature, period)   *)
(* with an advisory lock; everything around it happens outside: the plan   *)
(* is read before, the provider is called after, and releaseFeatureUsage   *)
(* deletes a row without taking the lock.                                  *)
(***************************************************************************)
EXTENDS Integers, FiniteSets

CONSTANTS
    Request,         \* the requests, each one run of a caller
    Target,          \* notices, uploaded files, text messages
    MaxRank,         \* the plans are 0..MaxRank, 0 is Free
    Limit,           \* Limit[f][q]: MonthlyLimit, negative without limit
    Trial,           \* FreeProposalTrialLifetime
    MaxMonth,        \* bound: the calendar stops here
    MaxPlanChanges,  \* bound on changes of the plan
    MaxFaults        \* bound on failed statements, lost answers and restarts

Free == 0
Plan == 0..MaxRank
Feature == {"review", "ocr", "sms", "draft"}
Lifetime == -1
Period == {Lifetime} \cup 0..MaxMonth
Key == [feature: Feature, period: Period]
Subject == Target \cup Request

ASSUME MaxRankAssumption == MaxRank \in Nat
ASSUME LimitAssumption == Limit \in [Feature -> [Plan -> Int]]
ASSUME TrialAssumption == Trial \in Nat
ASSUME MaxMonthAssumption == MaxMonth \in Nat
ASSUME BoundAssumption == MaxPlanChanges \in Nat /\ MaxFaults \in Nat
ASSUME DisjointAssumption == Target \cap Request = {}

VARIABLES
    plan,     \* effectivePlan of the organisation
    seen,     \* history variable: the plans that have been in force
    changes,  \* how often the plan has changed
    month,    \* the month in Korean time
    usage,    \* the feature_usage rows
    drafts,   \* the proposal_drafts rows
    req,      \* req[r]: the local variables of request r
    faults    \* how many faults have happened

vars == <<plan, seen, changes, month, usage, drafts, req, faults>>

-----------------------------------------------------------------------------
(* Requests *)

InTx == {"locked", "looked", "counted"}
Answered == {"served", "refused", "failed", "gone"}
Phase == {"idle", "gated", "admitted", "priced", "asking", "calling", "releasing"}
            \cup InTx \cup Answered

Rec == [phase: Phase, feature: Feature, target: Target, force: BOOLEAN,
        period: Period, limit: Int, exists: BOOLEAN, used: Int,
        allowed: BOOLEAN, reserved: BOOLEAN]

(* The subject key: the id of the new draft, or the notice, file hash, alert. *)
SubjectOf(r) == IF req[r].feature = "draft" THEN r ELSE req[r].target

KeyOf(r) == [feature |-> req[r].feature, period |-> req[r].period]

Row(r) == [key |-> KeyOf(r), subject |-> SubjectOf(r)]

Used(k) == {x \in usage : x.key = k}

(* The period key and the limit of a feature under plan q. *)
PeriodFor(f, q) == IF f = "draft" /\ q = Free THEN Lifetime ELSE month
LimitFor(f, q) == IF f = "draft" /\ q = Free THEN Trial ELSE Limit[f][q]

(* Who calls a provider between the reservation and the answer. *)
Metered == {"ocr", "sms"}
Allowed(f) == IF f \in Metered THEN "calling" ELSE "served"

Holding(r) == req[r].phase \in {"calling", "releasing"} /\ req[r].reserved

Init ==
    /\ plan \in Plan
    /\ seen = {plan}
    /\ changes = 0
    /\ month = 0
    /\ usage = {}
    /\ drafts = {}
    /\ \E t \in Target :
         req = [r \in Request |->
                 [phase |-> "idle", feature |-> "review", target |-> t, force |-> FALSE,
                  period |-> 0, limit |-> 0, exists |-> FALSE, used |-> 0,
                  allowed |-> FALSE, reserved |-> FALSE]]
    /\ faults = 0

Tables == <<plan, seen, changes, month, usage, drafts, faults>>

Goto(r, phase) == req' = [req EXCEPT ![r].phase = phase]

-----------------------------------------------------------------------------
(* The callers up to consumeFeatureUsage *)

(* A notice is opened, a registration uploaded, a text message due. *)
Ask(r, f, t) ==
    /\ req[r].phase = "idle"
    /\ f # "draft"
    /\ req' = [req EXCEPT ![r].phase = "admitted", ![r].feature = f, ![r].target = t]
    /\ UNCHANGED Tables

(* A proposal is asked for: canUseFeature lets paid plans and an unused trial by. *)
AskDraft(r, t, force) ==
    /\ req[r].phase = "idle"
    /\ LET entitled == \/ plan # Free
                       \/ Cardinality(Used([feature |-> "draft", period |-> Lifetime])) < Trial
       IN  req' = [req EXCEPT ![r].phase = IF entitled THEN "gated" ELSE "refused",
                              ![r].feature = "draft", ![r].target = t, ![r].force = force]
    /\ UNCHANGED Tables

(* Without force a notice that has a draft gets no second one; evidence may be missing. *)
CheckExisting(r) ==
    /\ req[r].phase = "gated"
    /\ \/ /\ req[r].force \/ \A d \in drafts : d.notice # req[r].target
          /\ Goto(r, "admitted")
       \/ Goto(r, "refused")
    /\ UNCHANGED Tables

(* effectivePlan, the period key of this instant and the limit. *)
Price(r) ==
    /\ req[r].phase = "admitted"
    /\ LET f == req[r].feature
       IN  req' = [req EXCEPT ![r].phase = IF f = "review" THEN "priced" ELSE "asking",
                              ![r].period = PeriodFor(f, plan),
                              ![r].limit = LimitFor(f, plan)]
    /\ UNCHANGED Tables

(* Mutant: any review of this month will do. *)
PeeksAnySubject(r) ==
    /\ req[r].phase = "priced"
    /\ IF Used(KeyOf(r)) # {}
         THEN req' = [req EXCEPT ![r].phase = "served", ![r].allowed = TRUE]
         ELSE Goto(r, "asking")
    /\ UNCHANGED Tables

(* hasFeatureUsageSubject: a notice reviewed this month needs no lock. *)
Peek(r) ==
    /\ req[r].phase = "priced"
    /\ IF Row(r) \in usage
         THEN req' = [req EXCEPT ![r].phase = "served", ![r].allowed = TRUE]
         ELSE Goto(r, "asking")
    /\ UNCHANGED Tables

-----------------------------------------------------------------------------
(* consumeFeatureUsage *)

(* A limit of zero is refused without a transaction. *)
RefuseZero(r) ==
    /\ req[r].phase = "asking"
    /\ req[r].limit = 0
    /\ Goto(r, "refused")
    /\ UNCHANGED Tables

(* Mutant: no advisory lock. *)
BeginsUnlocked(r) ==
    /\ req[r].phase = "asking"
    /\ req[r].limit # 0
    /\ Goto(r, "locked")
    /\ UNCHANGED Tables

(* BEGIN (and the INSERT of the draft, seen by nobody), pg_advisory_xact_lock. *)
TakeLock(r) ==
    /\ req[r].phase = "asking"
    /\ req[r].limit # 0
    /\ \A q \in Request \ {r} : req[q].phase \in InTx => KeyOf(q) # KeyOf(r)
    /\ Goto(r, "locked")
    /\ UNCHANGED Tables

ReadExists(r) ==
    /\ req[r].phase = "locked"
    /\ req' = [req EXCEPT ![r].phase = "looked", ![r].exists = Row(r) \in usage]
    /\ UNCHANGED Tables

ReadUsed(r) ==
    /\ req[r].phase = "looked"
    /\ req' = [req EXCEPT ![r].phase = "counted",
                          ![r].used = Cardinality(Used(KeyOf(r)))]
    /\ UNCHANGED Tables

HasRoom(r) == req[r].limit < 0 \/ req[r].used < req[r].limit

(* What the COMMIT of an allowed request makes visible. *)
Committed(r) ==
    /\ usage' = IF req[r].exists THEN usage ELSE usage \cup {Row(r)}
    /\ drafts' = IF req[r].feature = "draft"
                   THEN drafts \cup {[id |-> r, notice |-> req[r].target]}
                   ELSE drafts

(* Known subject, or INSERT below the limit; COMMIT releases the lock. *)
Allow(r) ==
    /\ req[r].phase = "counted"
    /\ req[r].exists \/ HasRoom(r)
    /\ Committed(r)
    /\ req' = [req EXCEPT ![r].phase = Allowed(req[r].feature), ![r].allowed = TRUE,
                          ![r].reserved = ~req[r].exists]
    /\ UNCHANGED <<plan, seen, changes, month, faults>>

(* Mutant: the draft is committed before the limit is looked at. *)
KeepsDeniedDraft(r) ==
    /\ req[r].phase = "counted"
    /\ ~req[r].exists
    /\ ~HasRoom(r)
    /\ drafts' = IF req[r].feature = "draft"
                   THEN drafts \cup {[id |-> r, notice |-> req[r].target]} ELSE drafts
    /\ Goto(r, "refused")
    /\ UNCHANGED <<plan, seen, changes, month, usage, faults>>

(* Over the limit: 403, and the draft is rolled back. *)
Deny(r) ==
    /\ req[r].phase = "counted"
    /\ ~req[r].exists
    /\ ~HasRoom(r)
    /\ Goto(r, "refused")
    /\ UNCHANGED Tables

-----------------------------------------------------------------------------
(* The provider, and releaseFeatureUsage *)

CallSucceeds(r) ==
    /\ req[r].phase = "calling"
    /\ Goto(r, "served")
    /\ UNCHANGED Tables

(* Mutant: a failed call keeps its reservation. *)
ForgetsRelease(r) ==
    /\ req[r].phase = "calling"
    /\ Goto(r, "failed")
    /\ UNCHANGED Tables

CallFails(r) ==
    /\ req[r].phase = "calling"
    /\ Goto(r, IF req[r].reserved THEN "releasing" ELSE "failed")
    /\ UNCHANGED Tables

(* DELETE of the row, without the lock. *)
Release(r) ==
    /\ req[r].phase = "releasing"
    /\ usage' = usage \ {Row(r)}
    /\ Goto(r, "failed")
    /\ UNCHANGED <<plan, seen, changes, month, drafts, faults>>

(* The client goes away: r.Context() ends, a transaction is rolled back, the  *)
(* call is aborted, and the DELETE, on the same context, is not executed.     *)
ClientLeaves(r) ==
    /\ req[r].phase \notin {"idle"} \cup Answered
    /\ req[r].feature # "sms"
    /\ Goto(r, "gone")
    /\ UNCHANGED Tables

-----------------------------------------------------------------------------
(* Faults *)

Fault ==
    /\ faults < MaxFaults
    /\ faults' = faults + 1
    /\ UNCHANGED <<plan, seen, changes, month>>

(* An error of consumeFeatureUsage: reviews and messages go ahead uncounted. *)
AfterError(f) ==
    CASE f = "review" -> "served"
      [] f = "sms" -> "calling"
      [] OTHER -> "failed"

(* effectivePlan fails: an upload goes ahead uncounted too. *)
PlanUnreadable(r) ==
    /\ req[r].phase = "admitted"
    /\ Goto(r, IF req[r].feature = "ocr" THEN "calling" ELSE AfterError(req[r].feature))
    /\ Fault
    /\ UNCHANGED <<usage, drafts>>

(* The look for an earlier draft or review fails: as if there were none. *)
LookupFails(r) ==
    /\ \/ req[r].phase = "gated" /\ Goto(r, "admitted")
       \/ req[r].phase = "priced" /\ Goto(r, "asking")
    /\ Fault
    /\ UNCHANGED <<usage, drafts>>

(* A statement fails and the transaction is rolled back. *)
TxFails(r) ==
    /\ req[r].phase \in {"asking"} \cup InTx
    /\ Goto(r, AfterError(req[r].feature))
    /\ Fault
    /\ UNCHANGED <<usage, drafts>>

(* COMMIT is executed and its answer lost. *)
CommitAnswerLost(r) ==
    /\ req[r].phase = "counted"
    /\ req[r].exists \/ HasRoom(r)
    /\ Committed(r)
    /\ Goto(r, AfterError(req[r].feature))
    /\ Fault

ReleaseFails(r) ==
    /\ req[r].phase = "releasing"
    /\ Goto(r, "failed")
    /\ Fault
    /\ UNCHANGED <<usage, drafts>>

(* The process ends: open transactions are rolled back, nothing is released. *)
Restart ==
    /\ \E r \in Request : req[r].phase \notin {"idle"} \cup Answered
    /\ req' = [r \in Request |->
                IF req[r].phase \in {"idle"} \cup Answered
                  THEN req[r] ELSE [req[r] EXCEPT !.phase = "failed"]]
    /\ Fault
    /\ UNCHANGED <<usage, drafts>>

-----------------------------------------------------------------------------
(* The environment, and the specification *)

(* A purchase, an expiry or an administrator changes the effective plan. *)
ChangePlan(q) ==
    /\ changes < MaxPlanChanges
    /\ q # plan
    /\ changes' = changes + 1
    /\ plan' = q
    /\ seen' = seen \cup {q}
    /\ UNCHANGED <<month, usage, drafts, req, faults>>

NextMonth ==
    /\ month < MaxMonth
    /\ month' = month + 1
    /\ UNCHANGED <<plan, seen, changes, usage, drafts, req, faults>>

(* The steps a request makes by itself. *)
Proceed(r) ==
    \/ CheckExisting(r) \/ Price(r) \/ Peek(r)
    \/ RefuseZero(r) \/ TakeLock(r) \/ ReadExists(r) \/ ReadUsed(r) \/ Allow(r) \/ Deny(r)
    \/ CallSucceeds(r) \/ CallFails(r) \/ Release(r)

FailStep(r) ==
    \/ PlanUnreadable(r) \/ LookupFails(r) \/ TxFails(r)
    \/ CommitAnswerLost(r) \/ ReleaseFails(r)

Next ==
    \/ \E r \in Request :
         \/ \E f \in Feature, t \in Target : Ask(r, f, t)
         \/ \E t \in Target, force \in BOOLEAN : AskDraft(r, t, force)
         \/ Proceed(r)
         \/ ClientLeaves(r)
         \/ FailStep(r)
    \/ Restart
    \/ \E q \in Plan : ChangePlan(q)
    \/ NextMonth

Spec == Init /\ [][Next]_vars

-----------------------------------------------------------------------------
(* Properties *)

TypeOK ==
    /\ plan \in Plan
    /\ seen \in SUBSET Plan
    /\ changes \in 0..MaxPlanChanges
    /\ month \in 0..MaxMonth
    /\ usage \in SUBSET [key: Key, subject: Subject]
    /\ drafts \in SUBSET [id: Request, notice: Target]
    /\ req \in [Request -> Rec]
    /\ faults \in 0..MaxFaults

(* A reservation that may still be released owns its row: nobody else's     *)
(* release deletes it, and nobody else was charged for the same subject     *)
(* (releaseFeatureUsage takes no lock).                                      *)
ReservationHeld ==
    \A r \in Request : Holding(r) =>
        /\ Row(r) \in usage
        /\ \A q \in Request \ {r} : Holding(q) => Row(q) # Row(r)

(* What is charged was delivered or is being delivered: without faults, and *)
(* while clients wait for their answers, no failure is charged.             *)
FailuresAreFree ==
    (faults = 0 /\ \A r \in Request : req[r].phase # "gone") =>
        \A x \in usage : \E r \in Request :
            /\ Row(r) = x
            /\ req[r].reserved
            /\ req[r].phase \in {"calling", "releasing", "served"}

(* A use that was allowed is not charged only if the request it relied on   *)
(* failed and gave its row back.                                            *)
UnchargedOnlyByRelease ==
    \A r \in Request :
        req[r].phase = "served" /\ req[r].allowed /\ Row(r) \notin usage =>
            \E q \in Request : Row(q) = Row(r) /\ req[q].reserved /\ req[q].phase = "failed"

(* releaseFeatureUsage deletes by subject and without the lock, and takes   *)
(* nothing from anybody but the request that failed.                        *)
ReleaseIsSafe == ReservationHeld /\ UnchargedOnlyByRelease

(* A stored draft is charged and a charged draft is stored, whatever fails. *)
DraftsMatchCharges ==
    {d.id : d \in drafts} = {x.subject : x \in {y \in usage : y.key.feature = "draft"}}

(* The quota: the limit of plan q for key k; a plan without its own period  *)
(* for a feature has no room there.                                         *)
Cap == [q \in Plan |-> [k \in Key |->
          IF (k.period = Lifetime) = (k.feature = "draft" /\ q = Free)
            THEN LimitFor(k.feature, q) ELSE 0]]

Held == {Row(r) : r \in {q \in Request : Holding(q)}}

Q == INSTANCE Quota WITH charged <- usage, held <- Held

(* Requests, lock and release implement the quota. *)
ImplementsQuota == Q!Spec
=============================================================================
