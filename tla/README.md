# A verification development for biz-platform

biz-platform collects public tender notices (나라장터, 기업마당), matches them
with companies, follows each bid through a pipeline and sells the service as a
monthly subscription. One Go process (`collector/cmd/apiserver`) serves the API
and runs all the batches as goroutines; a Python analyzer reads attachments; one
PostgreSQL database holds everything. There is hardly any in-memory state, so
what is hard about this code is what happens *between SQL statements*: handlers
seldom use a transaction, they hold what they have read while they call a payment
provider, a language model or a mail service, and several batches, admin endpoints
and users work on the same rows.

## Inventory

Paths are below `src/collector/internal/` unless they say otherwise. The last column
names the module; what is left out of each is under "Not modelled".

| Component | State | Operations | What is hard | What makes it correct | Module |
|---|---|---|---|---|---|
| **Subscription billing** `api/billing.go`, `api/billing_refund.go`, `billing/` | one `subscriptions` row per organisation, `payment_log`, the money at Toss | checkout, confirm, cancel-downgrade, cancel- and resume-renewal, refund, two daily batches | every handler is a chain of autocommitted statements around a Toss call; the row is overwritten by purchases, refunds and batches; lost answers | a plan in force is paid for; refunds give back the right payment and leave what is still paid; the ledger follows Toss | `Billing` |
| **Feature usage** `api/feature_usage.go`, `api/entitlements.go`, `billing/features.go`; **proposal drafts** `api/proposal_drafts.go` | `feature_usage` rows per organisation, feature, month, subject; `proposal_drafts` | consume, reserve before a model call, release after a failure, create a draft | concurrent requests at the limit, two requests for one subject, release racing a reuse | never more charges than the plan allows, nothing charged twice or for a failure, a stored draft is charged | `FeatureUsage`, `Quota` |
| **Bid pipeline** `api/company_pipeline.go`, `api/notice_exclude.go`, `api/pipeline_auto_transition.go`; **result lookup** `api/pipeline_result_lookup.go` | `notice_pipeline_entries`, attempts and result columns, track record candidates | create, exclude, change, delete, automatic exclusion, half-hourly lookup with back-off | batch, lookup and users change one row, each after a read of its own | a submitted bid was confirmed; what the lookup writes was published; it ends, and the company hears of it | `Pipeline` |
| **Notice collection** `collector/runner`, `collector/pgstore`, `changedetect`; **enrichment** `api/notice_enrichment.go` | raw documents, `notices`, versions, changes, attachments, limits | incremental runs, 15-minute sweep, on-view trigger | a run stops between two commits; two runs, or sweep and view, on one notice | versions agree with the notice; change rows are true; corrections are announced; the store catches up | `Collection` |
| **Deadline scheduler** `api/pipeline_deadline_scheduler.go`; **e-mails** `api/notifications.go`, `api/saved_search_digest.go`, `api/reports.go` | `pipeline_deadline_events`, `notification_log`, `reports`, the monthly limit | half-hourly and daily batches, callbacks, goroutines, admin re-runs | claim, send and record are separate steps | nobody is told twice, nobody is forgotten, corrections are not applied backwards | `Notifications` |
| **Document extraction** `api/document_extraction.go`, `api/review.go`, `src/analyzer/worker.py` | queue of attachments, extracted rows, attempts | workers, recovery of stale claims, hourly batch, model calls, review | workers die or stall; batches overlap; the reviewer works meanwhile | each attachment reaches an outcome, its rows come once, a decision stands | `Extraction` |
| **Accounts and teams** `api/auth.go`, `api/oauth_login.go`, `api/account_settings.go`, `api/company_team.go`, `api/admin_member_actions.go` | users, login methods, companies, members, invitations | sign up, link, disconnect, invite, accept, remove, leave | counts are read before the transaction that relies on them | seats hold, nobody is locked out or evicted, nothing outlives its owner | `Accounts` |
| **Schema migration** `migrate/` | tables, CHECK constraints, seeds, backfilled columns | `Apply` at every start, in three places | the same steps run again, interrupted, and at the same time | starts succeed, no row is refused, no edit undone, nobody grandfathered twice | `Schema`, `Migration` |
| **Judgement of a notice** `api/scoring.go`, `api/eligibility.go`, `api/participation_judgment.go`, `api/dashboard_gaps.go`, `api/notice_license_match.go` | none: functions of company, notice and day | score, requirements, judgement, gaps, grades | one set of rules, written four times | "ready" and "not recommended" rest on facts; the copies agree | `Eligibility` |
| **Company data and checklist** `api/company_licenses.go`, `api/company_info.go`, `api/checklist.go`, `api/checklist_matching.go` | profile, licences, records, checklist items, conditions | save the profile, register, view, evaluate | loops of single statements, interrupted and overlapping | the last answer stands, a view is complete, nothing is added twice | `Readiness` |
| Search, statistics, sharing, administration, content, sources, document formats, login codes | none of their own, or single-statement edits | queries, formatting | little | — | — |

How they interact: the components share the database and call each other in
process. Collection calls `NotifyNoticeChanged` through a callback; the daily
ticker runs automatic transitions, award ingestion, notifications, reports and
then the two billing batches, one after the other, in one goroutine; every batch
can also be started by an administrator, concurrently with the ticker. Feature
limits are computed from the effective plan of the subscription at each request.
The analyzer's workers share only the `attachments` table with the server. The
collectors run `migrate.Apply` again when they open their store.

The modules meet at those tables and callbacks: what one component takes from another
is an environment action of its module. `Notifications` takes corrections from
`Collection` (`CorrectNotice`) and status changes from `Pipeline` (`ParticipateAgain`, `UpdateEntry`,
`AutoExclude`);
`Readiness` takes new versions, limits and extracted documents from `Collection` and
`Extraction` (`Correct`, `Enrich`, `Extract`); `FeatureUsage` takes the plan in force
from `Billing` (`plan`); `Billing` takes the use of the service (`docAt`, `entryAt`)
from documents and pipeline. Apart from its bound, such an input may come at any
moment, so a property does not depend on the schedule of the component that produces it.
Where components write the *same* rows they are in one module: billing with its batches,
pipeline with exclusion and lookup, collectors with enrichment, scheduler with e-mails,
workers with batches and reviewers, leaving with teams, Apply with requests.

The hazards of this code, each at its line, with the properties that would catch
them, are in `PROJECT.json`.

## Plan

The modules of the table above are written, each with an MC module and a passing run.
Proved are the safety properties of `Billing` (any schedule, and the sequential one),
`FeatureUsage` with `Quota`, `Pipeline`, `Collection`, `Notifications`, `Accounts`,
`Migration`, `Extraction` and `Readiness`: every invariant and action property of a passing run
is a theorem. What is left, in this order: the capacities that are counted before an insert
(pipeline entries, analyses, saved searches); one-time codes.

All runs stay below five minutes on two workers; every bound is a named constant or a
named operator of an MC module. The deadlock check is off in every run because users,
clock, faults and changes are bounded: the system really may have nothing left to do.

## Billing

`Billing.tla` models one organisation: rows of different organisations never
meet, every statement is by `company_profile_id`, `subscription_id` or `id`.

| State | Code |
|---|---|
| `sub` | the `subscriptions` row: status, plan, started_at, expires_at, pending_plan, cancel_at_period_end, previous_plan, previous_plan_expires_at |
| `order[p]` | the plan that `EncodeOrderID` put into the order id of payment `p` |
| `toss[p]`, `approvedAt[p]` | what Toss did with the payment, and when (external) |
| `log[p]` | the `payment_log` status of the payment (승인, 실패, 환불) |
| `conf[p]` | local variables of a `handleBillingConfirm` in progress |
| `ref[r]` | local variables of a `handleBillingRefundRequest` in progress |
| `cancelReq`, `downgrade[b]`, `cancellation[b]` | a cancel-renewal between check and UPDATE; batch targets between SELECT and UPDATE |
| `docAt`, `entryAt` | the rows `serviceUsageSince` counts |

A plan is its index in `billing.PlanOrder`. Each SQL statement is an action of its
own; a handler's record carries what it has read. The daily ticker and the admin
endpoints are the set `Runner`.

Left out: prices and amounts (refused before any state changes), roles and
authorisation, the AI counters of the plan, the text of answers. Two concurrent
confirmations of the *same* payment key are one confirmation here: Toss refuses
the second, which only adds a failed `payment_log` row. All failed rows of a
payment count as one. A billing period is `Month` ticks, so the varying length of
calendar months is abstracted away; the properties compare instants only with the
ends of periods.

What can fail (`MaxFaults` bounds how often): the answer of a Toss call is lost
after Toss acted or before (15 s client timeout, client gone: the handlers run on
`r.Context()`), any later statement fails, one row's UPDATE in a batch fails, the
process restarts.

`SequentialSpec` has the steps of `Spec` that keep to `OneAtATime`: handlers and batches
(`Running`) do not overlap, and while one runs every step is a step of it. The policy
properties (what a *sequence* of purchases, refunds and cancellations must give) are
stated of it; that one of them does not survive overlapping is under "Divergences". The
structural properties hold without restriction.

| Run | Specification | Bounds | Shows |
|---|---|---|---|
| `billing_races` | `Spec` | 2 paid plans, 2 payments, 1 refund, 1 runner, period 1, clock to 1, 1 fault | in every interleaving: `RowIsSound` (types, the paid period is bounded, the snapshot of the previous plan is older than the plan), `PlanWasPaid` (no plan for free), `LedgerMatchesToss` (the ledger is never ahead of Toss, and complete without faults) |
| `billing_sequential` | `Spec` with the action constraint `OneAtATime`, which is `SequentialSpec` | 2 paid plans, 3 payments, 1 refund, period 2, clock to 4 | `NoEarlyLoss`, `RefundIsRight` (right payment, right fallback), `PlanInForceIsBacked` |

Bounds. Two payments and a refund in one period are the smallest instance with an
upgrade over a running plan and its refund; three payments give an upgrade over a
scheduled downgrade, and a fallback that has to choose. The clock lets a period end
while handlers are in flight, and in `billing_sequential` a second one run out. One
runner holds a downgrade and a cancellation target at the same time, which is the
overlap of the ticker with an admin request.

### Proofs

`BillingProofs.tla` proves, for every number of plans, payments, refund requests,
runners and faults and every length of the period, from the three assumptions
`MaxRankAssumption`, `MonthAssumption` and `PayAssumption`:

- `TypeCorrect`, `PaidPeriod`, `SnapshotOlder` and with them `RowSound`; `NothingForFree`:
  the invariants of the row;
- `LedgerFollowsToss`: `LedgerMatchesToss`.

The argument. The row is written with values read earlier, so none of its
invariants is inductive. `LocalsStayTrue` says what remains true of a value while
it is carried: a confirmation's snapshot is not above what it will write and ends
no later, a refund's fallback was paid and began in the past, a batch target was
due. `IInv` conjoins it with the row's and the ledger's invariants. It rests on
monotonicity: money that moved stays moved (`MoneyKept`, `PaidKept`), final ledger
rows stay final (`LogKept`), the clock does not go back (`ClockKept`). For each part
there is a step lemma with one step per action that touches it; `Inductive` puts them
together (theorem `Invariance`).

For `SequentialSpec`, with any number of faults:

- `NothingLostEarly` (`NoEarlyLoss`) and `RefundRight` (`RefundIsRight`);
- `PlanBacked`: `PlanInForceIsBacked`, which is about the time before the first fault.

The argument. `SeqInv` says that what a handler read is still so when it writes: a
confirmation's idea of the plan in force (`ConfirmationsCurrent`), a batch's target
(`BatchesCurrent`), a refund's best prior payment (`RefundsCurrent`). It is kept
because a step of the schedule either begins or ends a handler or leaves row, ledger and
clock as they are (`Held`). A scheduled plan is below the running one (`PendingIsLower`).
Before the first fault the plan of the row and the scheduled one have an approved payment
(`PlansAreBacked`); a fault ends this part and no other. `SequentialInvariance` puts
`IInv` and `SeqInv` together. TLC checked `SeqInv` in the instance of the run (600602
states) and in one of 2 payments, 2 refunds, 2 runners and 1 fault (177930 states).

## Feature usage

`FeatureUsage.tla` models the monthly uses of one organisation: who is let through
to a notice review, an upload analysis, a text message or a new proposal draft.

| State | Code |
|---|---|
| `usage` | the `feature_usage` rows: (feature, period) and subject |
| `drafts` | the `proposal_drafts` rows |
| `plan`, `month` | `effectivePlan` and the month in Korean time (environment) |
| `seen` | history variable: the plans that have been in force |
| `req[r]` | the local variables of one request, from the caller's first statement to its answer |

A request is one run of one of the four callers (`handleGetNotice`,
`handleExtractBusinessRegistration`, the text message senders,
`handleCreateProposalDraft`); its phase says which statement comes next:

    idle -> gated -> admitted -> priced -> asking -> locked -> looked -> counted
                                                  -> calling -> releasing -> answered

A draft is `gated` by its entitlement first, a review is `priced` and looks without
the lock whether its notice is counted already, uploads and messages go on to
`calling`. The phases `locked`, `looked` and `counted` are the transaction; the
transaction lock excludes requests for the same feature and month in them
(`TakeLock`). A COMMIT is one action with the statement before it (`Allow`),
because nobody sees the inserted rows earlier. Reviews and messages continue
uncounted after an error (`AfterError`), uploads and drafts do not.

Left out: the wording of subjects (two different texts of a key are two members of
`Target`), the quantity of a row (always 1), requests of users without a company
(they are not counted), and the rate limit before an upload. Roles, `effectivePlan`
and the table of limits are parameters; `Limit` is constant, so an administrator's
change of the limits of a paid plan is a change to another plan.

What can fail (`MaxFaults` bounds how often): any statement, the answer of a COMMIT
that was executed, the release, the whole process. Besides, a client may leave at any
time before its answer: the context of its request ends, and with it the
transaction, the provider call and the release. The text message senders run on
contexts of their own.

`Quota.tla` is the promise without locks, transactions or requests: an item is
charged at most once, only while some plan that has been in force has room for it,
and given back only while the charge is provisional. `ImplementsQuota` maps
`charged` to `usage` and `held` to the rows of requests that may still release.
The limit it keeps is that of the largest plan in force so far, because the code
reads the plan before it waits for the lock and the rows of a month outlive a
downgrade.

| Run | Bounds | Shows |
|---|---|---|
| `feature_usage` | 2 requests, 2 targets, 2 plans, 1 change of plan, 1 change of month, 1 fault | `FailuresAreFree`, `ReleaseIsSafe` (a release takes only a row that is held for it; nothing else takes one), `DraftsMatchCharges`, and the refinement `ImplementsQuota` |

Bounds. Every property relates at most two requests (the owner of a row and
another one for the same row or key), so two show each conflict; the free plan
allows one review and one upload, so two subjects meet the limit. Requests are
interchangeable and so are targets, hence the symmetry.

### Proofs

`FeatureUsageProofs.tla` proves for every set of requests and targets, every table of
limits and every bound, from the assumptions of `FeatureUsage`:

- `TypeCorrect`, `NoFailureCharged`, `DraftsCharged`, and `ReservationsHold` with
  `UnchargedByRelease`, which make `ReleaseSafe`: the properties of the run;
- `QuotaImplemented`: the refinement, by a simulation of each step;
- `QuotaKeepsCap`: the abstract quota never has more charged items than the largest
  limit in force so far, for every table of limits;
- `RowsWithinLimit`: hence the same of the rows, from `QuotaImplemented` and `QuotaKeepsCap`.

The argument. `IInv` says what a request knows at each phase (`Knows`): the limit it
carries was in force; a row it did not see under the lock is still absent; the count
it read can only have gone *down*, since every insert needs the lock and a release
does not (`CountBounds`); a row it saw is there or was given back by an owner that
failed (`SeenRow`). With mutual exclusion (`LockExcludes`) a charge is below the
limit at the moment of the COMMIT, whatever was released meanwhile. `Footprint` and
`Acquires` summarise what any step of one request does to the others; `Bystander`
and `ActorKnows` use them to prove `Knows` once for the acting request and once for
all others. `ReservationHeld` gives the refinement its last case: a release removes
a row that is held, and no longer held by anybody after it.

That every request ends is not stated: each has finitely many steps.

## Pipeline

`Pipeline.tla` models one notice of one company: the entry is unique for the pair, and
everything here is by its id or by the pair.

| State | Code |
|---|---|
| `entry` | the `notice_pipeline_entries` row: status, who set it, the reason of an exclusion, `submission_confirmed_at`, the attempts, result and end of the lookup, and which results were told |
| `candidates` | the `company_track_records` rows made from a won entry |
| `req[u]` | a create, exclude or update request between its check and its write |
| `batch` | what an automatic exclusion selected and has not yet written |
| `lookup[r]` | a result lookup between its SELECT, the call, the guarded UPDATE and the messages |
| `award`, `cancelled`, `now` | what the procurement service publishes (external), `notices.status`, the clock |

The two automatic rules are one statement each, but PostgreSQL chooses the rows by a
subquery that it does not repeat when it has waited for a lock; so `AutoExcludeSelect` and
`AutoExcludeWrite` are two steps. `ClassifyAwardResult` and `PickMatchingAward`
are the code's choice among rounds, companies of the same name and unfinished openings.
`Tell` follows the UPDATE whether it changed a row or not, as in `applyAwardWin`.

Left out: notes, assignees, the history of statuses, the text of messages. The checklist
of an entry is in `Readiness`, reminders and e-mails in `Notifications`.

| Run | Bounds | Shows |
|---|---|---|
| `pipeline` | 1 user request and 2 lookups in flight, 2 rounds of lookups, 1 entry, clock to 1, 1 fault; users set reviewing, submitted or won; 3 published results | `SubmittedIsConfirmed`, `LookupBounded`, `OfficialOutcome`, `ToldOfOutcome`, and `LookupEnds` under `FairSpec` |

Bounds. The published results of the instance are an opening, a namesake and an own win:
one that keeps the lookup waiting, one that is final without a change of status, one that
changes it. The results LOST and REBID, and deleted and created entries, are left to the
theorems, which hold for every `Publishable`, `Goal` and `MaxEntries`.

Fairness. The clock advances, and the ticker repeats the lookup every half hour and
finishes what it began. No user, no message and no publication is fair: the lookup ends
because it counts its attempts.

### Proofs

`PipelineProofs.tla` proves for every set of requests, lookups, offsets, published results
and bounds, from the named assumptions of `Pipeline`:

- `TypeCorrect`;
- `SubmittedBidsConfirmed`: a confirmation is never taken back (`Confirmed`), and what a
  request or a lookup has read says of which row it holds (`RequestsKnow`, `LookupsKnow`);
  rows that come later have other ids (`IdsInUse`);
- `LookupsBounded`: the calls in flight count as attempts; each UPDATE turns one into the other;
- `OutcomesOfficial`: a published result stays published, so a decision stays sound while it
  is carried (`DecisionsSound`);
- `OutcomesTold`: a final row is told, or a lookup is about to tell it.

`LookupEnds` is only model-checked.

## Collection

`Collection.tla` models one notice of one source as the collectors store it and the
enrichment completes it. A content is a pair of what `changedetect.Compare` looks at and the
rest. A transaction is one step at its COMMIT, preceded by a step for the rows its first
statement saw (READ COMMITTED): that is where `AddNewVersion` clears `is_current` before it
locks the notice, and where `saveEnrichment` deletes before it inserts.

| State | Code |
|---|---|
| `notice`, `versions`, `changes` | `notices`, `notice_versions` with the attachment, status and limits of each, `notice_changes` |
| `notified` | the versions `OnChangesRecorded` was called for |
| `mute` | history: the versions added by a collector without that callback |
| `disk` | the attachment's file: absent, partly written, whole |
| `col[c]` | an item of `RunIncremental`, from its document to its attachment |
| `enr[e]` | an enrichment: the ticker's sweep, or one started by a view |
| `source` | what the source publishes (environment) |

What can fail: every call and statement, a process at any point (it loses its local
variables), a process in the middle of writing a file. Left out: the parsing of pages, the
rate limiter, several notices of one page (they share nothing), several attachments.

| Run | Bounds | Shows |
|---|---|---|
| `collection` | 2 collectors, 3 contents, 2 changes of the source, 1 fault | `StoreConsistent` (row and versions agree, one current version per collector at most, a completed attachment has its file), `ChangesAreTrue`, `OnlyFaultsSilence` |
| `collection_enrichment` | 1 collector, sweep and view, 1 limit, 1 change, 1 fault | `SourceIsFollowed`: the stored content catches up with the source, every current version is enriched or marked in the end, "completed" only with limits |

Bounds. Two collectors are the server's and the daemon's; `Announcing`, those whose `Runner` has
the callback, is the server's alone, as in `apiserver/main.go` and `collector-daemon/main.go`.
So `OnlyFaultsSilence` says that what the server's collector adds is announced unless a fault
hit it, and that what the daemon's adds is recorded and announced by nobody. Two changes let a slow collector
hold a document that is two versions old; contents differ in a compared field and in another.
Fairness: the hourly and quarter-hourly tickers; no view is fair.

### Proofs

`CollectionProofs.tla` proves, for every number of collectors, enrichments, contents,
versions and faults, the three properties of the first run: `StoreAgrees`
(`StoreConsistent`), `ChangesTrue` (`ChangesAreTrue`) and `SilenceNeedsFault`
(`OnlyFaultsSilence`).

The argument. `StoreInv` says what a collector between two transactions may rely on: the
version it compared with is stored and unchanged (`ComparedIsStored`), what it has stored
since is newer and is its document (`OwnIsStored`). That there is at most one current
version per collector needs an owner for each (`CurrentOwned`): a collector that adds a
version has cleared all those its statement saw, its own among them. The file is
written before anything counts on it (`FileComesFirst`), and a change row before it is
announced (`RecordedFirst`), so that only a fault leaves a change of an announcing collector
unannounced. A version is mute from the step that adds it, and the collector that holds it tells
whose it is (`MuteKnown`), so that no version is both mute and announced.

`SourceIsFollowed` is liveness with an invariant, and is model-checked only.

## Notifications

`Notifications.tla` models what one company is told about one notice. Reminders are claimed
before they are sent (`pipeline_deadline_events`), e-mails are logged after
(`notification_log`), reports are stored before. A `Scheduler` is a run of
`RunDeadlineSchedule`, from the rows it selected to the snapshot it writes back; a `Worker`
is one of the batches, callbacks or goroutines that send one of five kinds of e-mail:
status change, correction, digest, saved search, report. The saved search digest alone
reads the log again before each recipient (`RecheckRecipient`). `CheckQuota` reads the
month's count once for a batch; when the plan, the limit or the count cannot be read,
`checkEmailNotificationQuota` lets all e-mails pass on purpose, which is a branch of `CheckQuota`
and of `Dispatch` and counts as a fault. The company is on the free plan; the others have no limit.

An entry starts as 검토중 or 준비중 (`Init`) and goes from one to the other and to 제외 and back by
the three writers of its status: the button that takes part again (`ParticipateAgain`), the page
(`UpdateEntry`, with the goroutine that tells of it) and the daily transitions (`AutoExclude`). The
scheduler selects 준비중 only (`preparing`), but looks back to the row's first day: `since` is a
history variable, the instant at which the entry last became 준비중. 제출완료, 낙찰 and 탈락 are one
value of `stage`, because nothing here tells them apart.

The clock ticks with the scheduler: `Tick` needs `Timely`, that the ticker has completed a
run at this instant or the last one, if the entry was being prepared by then, and that the runs in
flight began now. A slow run or a
late ticker is a fault (`Late`), and so is a server that is down (`Downtime`). `Grace`, the
24 hours of `deadlineEventGrace`, is at least five of the half-hourly ticks. A pair of a
reminder and a deadline is one claim: `pipeline_entry_id`, `event_type` and `deadline_at` are the
unique key, and there is one entry. Reminders some hours before the deadline need its time of day
(`requiresTime`): `TimeOnly` are those reminders, `Timed` the deadlines that have one (`Applies`).

`storedAt` is a history variable: when the notice *first* got each deadline, which is what
`NotRetroactive` compares a reminder with. A deadline that is corrected away and back
between two runs leaves no trace in the snapshot, and a slow run may write an older one
back; with the last such instant the property would not be an invariant of the code.
`NotRetroactive` holds whatever fails, `NothingMissed` before the first fault. It leaves out what
fell due more than `Grace - 5` ticks before the entry was last prepared: the scheduler looks back
for `Grace`, and five ticks is what the first runs afterwards may need, overlapping ones that
still hold an older snapshot included.

Left out: messages in the app, pushes and text messages (sent in the same steps, without
logs that another step reads), the message that a cancelled notice's entries get, the users'
settings, paid plans, the change of a month.

| Run | Bounds | Shows |
|---|---|---|
| `notifications` | 2 schedulers, 2 workers, 2 reminders, one of them for deadlines with a time of day, 2 deadlines, one without, 1 contact, 1 member, limit 1, `Grace` 5, clock to 7, 2 changes, 1 fault | `RemindedOnce`, `NotRetroactive`, `NothingMissed`, `MailBounded` |

Bounds. The action constraint `Bounds` of `MCNotifications` keeps the two mechanisms apart,
which share only the monthly count: scheduler runs overlap while there is no e-mail, batches
overlap while there is no run, e-mails are of at most two kinds and end with the first instant, a
second change excludes a fault and e-mails; after the second instant runs follow one another
without faults, up to the seventh, so that an entry can be prepared a day after a reminder was due.
One recipient of each sort suffices, because a row of the log or of the events is for one
recipient. Two deadlines let a slow run write an older one back after a correction.

### Proofs

`NotificationsProofs.tla` proves for every number of runs, batches, reminders, deadlines,
recipients and faults, from the assumptions of `Notifications` and without `Bounds`:
`TypeCorrect`, `RemindersOnce` (`RemindedOnce`), `NeverBackwards` (`NotRetroactive`),
`NoneMissed` (`NothingMissed`) and `MailStaysBounded` (`MailBounded`).

The argument. A reminder that was sent is claimed; one that is being dispatched is claimed,
not yet sent, and held by one run (`ClaimedFirst`). The deadline of a snapshot, in the row
or in a run, was stored when it was seen (`SeenLater`). While the ticker is on time, the
last completed run has claimed all that fell due since its deadline was seen, and every run
in flight has it selected or claimed (`OnTime`). What is owed begins when the deadline was seen,
or five ticks less than `Grace` before the entry was prepared, whichever is later (`Owed`). A run
looks back for no more than `Grace`; that five ticks suffice is the part of `OnTime` which says that
what fell due six ticks ago or earlier is claimed if it is owed. An entry that is prepared again
owes less (`OwesLess`, `PreparedLater`), so a change of status only weakens the claim, and while it
is not prepared nothing is claimed of it. What a batch may still send was within the month's limit
when the batch read it, or a fault let it pass: each worker and each fault pays for one list of
recipients, and the allowance grows with the faults (`WithinQuota`, `BatchFits`, `AllowanceGrows`,
in `MailInv`). TLC checked `OnTime`, without e-mails, with two runs, two reminders, two deadlines
and two changes: with `Grace` 5 and a clock to 10 (3773230 states), and with `Grace` 7 and a clock
to 12 (4920315 states).

## Extraction

`Extraction.tla` models the attachments of one version: `attachments` is the queue,
`workers[w]` what a worker of `worker.py` holds, `rows` the extracted conditions and
documents, `batches[b]` the phase and the targets of a run of `RunDocumentExtraction`.
`Claim` is the one UPDATE that takes a row and counts the attempt; `Write` is guarded by the
status but not by who claimed the row, as in the code, and a stale claim may be
recovered at any moment, so that a worker is as slow as it likes. A batch replaces all rows
of an attachment in one transaction (`RuleExtract`); two overlapping ones do not see each
other's rows (`RuleExtractBlind`). `Supplement` and `CallFails` write what the model answers
and the attempts counted from the value that the batch read. The reviewer's `Review` comes at
any moment.

Left out: the content of texts, rules that are certain from the start (nobody revises their
rows), backoff times, support programmes, older scripts (see below).

| Run | Bounds | Shows |
|---|---|---|
| `extraction` | 1 attachment, 2 workers, 2 batches, the table of conditions, rejections, 2 attempts each, 1 fault | `AttemptsBounded`, `RowsOnce`, `ResultsStand` (a text and a verdict are final), `AnalysisEnds` under `FairSpec` |

Bounds. Attachments share no state; the second table is handled by twins of the same
functions; a confirmation differs from a rejection only in the value. Two workers give the
late answer, two batches the overlap of the hourly run with an administrator's.
Fairness: workers poll, one that is not killed finishes, the ticker starts its batch every hour
and a batch comes to its end. Reviews, deaths, restarts and administrators' batches are not fair.

### Proofs

The first half of `NoticeProofs.tla` proves for every number of attachments, workers, batches,
attempts and faults, from the assumptions of `Extraction`: `AttemptsEnd` (`AttemptsBounded`),
`RowsComeOnce` (`RowsOnce`) and `ResultsAreFinal` (`ResultsStand`).

The argument. Beyond the cap no worker may claim an attachment that a recovery puts back, only
one that a worker puts back who claimed it before the cap. Each of those stands for one more
attempt, and the worker that reached the cap is not among them: `LateCounted` says that attempts,
late workers and a row that waits together stay below the sum of cap and workers.
For the rows, a row's number is given once (`RowsNumbered`), rows are only of attachments that
the rules have processed (`RowsProcessed`), and a row that was supplemented is marked
(`SourcesMarked`). A batch that runs alone (`BatchesAlone`) has only selected what is still
to do (`TargetsFresh`), so it extracts no attachment that has rows, and supplements no row
twice. TLC checked this invariant in the run's instance (734770 states), with two attachments and
both tables (one batch, one worker, 67661 states), and with three workers (795 states).
`AnalysisEnds` is model-checked only.

## Accounts

`Accounts.tla` models users (one row with the address it was created with), the ways they
log in, companies, members, invitations, and the handlers that change them. Every handler reads,
decides and writes later: `request[r]` holds what one has decided (`ProfileCheck`
and `ProfileInsert`, `InviteCheck` and `InviteInsert`, `AcceptCheck` and `AcceptInsert`,
`DepartCheck` and `DeactivateUserAccount` or `DeleteMember`, `DisconnectCheck` and
`DisconnectDelete`). The writes that are transactions are one step; `Fail` rolls one back.

The history variables `raced`, `overInvited`, `overAccepted` and `locked` name who is exempt
from a property because two handlers overlapped where the code has no lock; each property
then says that nothing *else* breaks it, in any order of any number of calls.

| Run | Bounds | Shows |
|---|---|---|
| `accounts` | 3 users, one with 2 providers, 1 company, 2 invitations, 2 requests, 2 seats, 1 leaver | `SeatsKept`, `NobodyLeftBehind`, `CanLogIn`, `NoEviction` |

Bounds. Three users are an owner, a member and one who joins; two requests show each overlap of
a check with another's write; two seats are filled by them. Users without providers, providers,
invitations and requests are interchangeable, hence the symmetry.

### Proofs

`AccountsProofs.tla` proves for every set of users, providers, companies, invitations and
requests and every number of seats: `TypeCorrect`, `LoginStays` (`CanLogIn`),
`TeamsComplete` (`NobodyLeftBehind`), `NobodyEvicted` (`NoEviction`) and `SeatsSuffice`
(`SeatsKept`). Users and invitations are finitely many (`FiniteAssumption`), because seats
are counted.

The argument. Each property rests on what the requests in flight know. `LoginInv`: the
disconnections of one user that are decided are of one provider, unless they
overlapped, and another way in is left beside it. `TeamInv`: what a leaver has seen of
the team is still so, or history names who joined meanwhile (`LeaversKnow`). `SeatsInv`: an
invitation that is decided, and an acceptance, has its seat free as long as it is the only
one (`InvitesFit`, `AcceptsFit`), and an invitation reserves one (`SeatsReserved`).

## Schema and migration

`Schema.tla` is the sequence of steps of `migrate.Apply`: the embedded schema, if `notices` is
not there, and then each `ensure` function, one step per `Exec`, in the order of the calls. A step creates tables or
columns, widens a CHECK (drop and add in one `Exec`), drops, remaps and adds one in several,
seeds content, or backfills a new column. `Migration.tla` runs it: the server before it serves,
then each collector again, while users and administrators work, with crashes between any two steps
and restarts. A start may find each of five databases: none, the first deployment's, the
embedded schema's, the one before the backfilled columns, today's.

Of a table only its existence is kept and of a CHECK its values; values that all lists treat
alike are one value. Neighbouring steps that only create are one step: repeated they have no
effect, and no step takes away what they made. `Migration` takes the steps as a parameter
(`Script`) and says what it needs of them (`ScriptAssumption`), which TLC evaluates on the
real sequence, `ApplySteps`:

- the embedded schema comes first and alone makes the tables it is recognised by (`InitFirst`);
- no step needs a table of a later one (`NeedsAreMadeBefore`);
- a backfilled column is added by the step that fills it (`ColumnsAreFilled`);
- a list takes what handlers write and comes after the CREATE TABLE with the list of its day
  (`ListsFollow`);
- old values are replaced before the list that refuses them (`StagesAreReplaced`).

| Run | Bounds | Shows |
|---|---|---|
| `migration` | 2 collectors, all 5 databases, 3 starts, 1 act of users | `OnlyKnownFailures`, `SchemaServes` (no handler's row refused but one, lists settle, rows of the old kind converted), `GrandfatheredOnce`, `EditsKept` |
| `boot_refused` | 2 databases, 2 starts, 1 act | violated, as `PROJECT.json` quotes: one reminder of a saved search keeps the server from starting again |

Bounds. Three starts are a deployment, a crash in its middle, and another deployment over what
was left, with the collectors at any point of their own Apply; an act is a row written, edited
or emptied between any two steps.

### Proofs

`MigrationProofs.tla` proves for every script that satisfies `ScriptAssumption`, every number of
collectors, starts and acts: `TypeCorrect`, `FailuresAreKnown` (`OnlyKnownFailures`),
`SchemaIsServed` (`SchemaServes`), `OldRowsAreGrandfathered` (`GrandfatheredOnce`) and
`EditsSurvive` (`EditsKept`). A step that is added to `migrate.go` is covered as long as
TLC still accepts the script.

The argument. `MigrationInv` says how far the server has come: all that its steps so far make
is there (`Progress`), for nothing is taken away; rows have values that handlers write or an old
one (`ValuesKnown`), and no old one once its remap is behind (`Converted`). The lists are the
difficulty, because collectors narrow them again while the server serves: a list other than that of the
events takes all that handlers write as soon as the server is past it (`ListsWide`), also after a
collector's Apply (`OthersStay`), and the reminders of saved searches come only after the last
list (`RemindersLate`, `EventsListed`), which is why one failure remains and is known.

## Eligibility and readiness

`Eligibility.tla` has no state: the score of region, industry and budget, the requirements
of a notice and their judgement, the dashboard's gaps and buckets, the pipeline's grades, and
the two ways of matching a licence, as operators of a company, a notice and a day. A name is a
record of what the code looks at in its text (keywords, suffix, standard document), so that each
rule can go either way. `Readiness.tla` puts them into a system: the company registers
licences, records and documents and saves its profile, the notice is corrected, extracted and
enriched, the entry's checklist is written and viewed, conditions are evaluated.
Two requests are loops of single statements and may stop or overlap anywhere:
`SaveProfile` with `SyncCheck` and `SyncInsert` per name, and the checklist with
`GenerateItem` and `SyncItem` per document.

| Run | Bounds | Shows |
|---|---|---|
| `readiness` | 2 requests, 2 versions of a notice of either type, 3 profiles, 3 answers, 1 record, 1 kind of file, 2 days, 2 edits, 2 events | `GradeIsBacked` (ready and not recommended rest on facts), `EnginesAgree` (dashboard, pipeline, card and page), `AnswerStands`, `AddedOnce`, `ViewShowsCurrent` |

Bounds. The first version asks for a licence paper and an official licence limit, the second for
a certificate, direct production, a registration number and a track record, so that every rule
is met and a checklist of three rows can be left unfinished; a licence and a certificate expire within the two days. A support programme
is scored (`SupportProgramScore`) and its documents are listed, but no page judges it
(`NoJudgement`): the properties of the grades then say that no engine calls it ready or advises
against it.

### Proofs

The second half of `NoticeProofs.tla` (the proofs about a notice, from its attachments to what
a company is told, are one module) proves for every number of requests, every
sequence of versions, and every profile, answer, record and file: `ReadinessTypeCorrect`,
`GradeBacked` (`GradeIsBacked`), `EnginesAlwaysAgree` (`EnginesAgree`), `AnswersStand`
(`AnswerStands`), `NothingAddedTwice` (`AddedOnce`) and `ViewsAreCurrent` (`ViewShowsCurrent`).
The assumptions are `PublishedAssumption` and `OwnerAssumption` (what is published and saved
has the form of the code's rows; a region has a province, the tables are the two of the code),
`TypeAssumption` (a notice is a procurement notice or a support programme, as its CHECK says),
`DayAssumption` (the bounds) and `SmallCapAssumption`. None restricts which licences,
conditions or regions there are: TLC samples the inputs of the rules, the theorems cover all of them.

The argument for the judgement. Names of one requirement supersede one another by source and
rank, which are numbers, so one of each is always left (`OneIsLeft`, by the least element of a
set of numbers), and a kind that no licence limit stands for is still looked at (`StaysAsked`).
The newest of a name's rows decides (`NewestRow`, `MatchHeld`). `ConditionKinds` and
`ConditionThere` say which conditions a judgement has and what each shows, so that it is ready
exactly when everything is met (`ReadyGrade`) and not recommended exactly when a category is not
(`TurnedDownGrade`), which only the region can cause (`TurnedDown`). These are of procurement
notices; a support programme gets neither grade (`NotJudged`). `GradeIsBacked` follows for
any company and notice of the right form, with no invariant but the type; so does `EnginesAgree`,
where `PlainAsks` says that judgement and gaps look at the same documents in the cases that the
property names.

The argument for the requests. `AnswerStands` is not inductive: a save that has found no row
may still write one. `AnswersKept` adds that an answered name has a row, and that a save about
to write a row of it in one table has it in the other, which the answer's own row or the race that
`raced` records guarantees. `AddedOnce` and `ViewShowsCurrent` need `ChecklistKept` (a version has
one document of each name, one request makes the entry, and unless a view began meanwhile nothing
it still has to write is listed), `ViewKnows` (what an undisturbed view does not find missing is
listed) and `EvaluationKept` (unless two overlapped, the category that an evaluation is at has no
condition). `Keeps` says what a step leaves of the two checklist requests when it is not one of
theirs. TLC checked the whole invariant with procurement notices in the run's bounds (325472 states), with
the registration number moved to the first version (982838 states), and so
with three requests and one event (676754 states).

## Not modelled

- **Quotas of pipeline entries, analyses and saved searches** are counts followed by an
  insert; the code keeps no bound under concurrency to state.
- **One-time codes, tokens and sessions**: rows of one user that expire, shared with nobody.
- **Messages in the app, pushes, text messages, broadcast**: no log that another step reads,
  except the claims, which are modelled.
- **Support programmes' extraction**, `run_extraction.py`, `extract_sections.py`,
  `ai_extract.py`, `ai_summarize.py`: parsing and prompting; the older script overwrites a
  status unconditionally (`src/analyzer/run_extraction.py:179`) and is not part of the service.
- **Parsers of the sources, document formats, payment, login and message clients**: pages and
  answers are nondeterministic inputs of the modules.
- **Search, sharing, calendars, statistics, award history, administration of content**:
  queries, or single statements behind a check.
- **Joint ventures** in a judgement, and deadlocks of the database, which would be failed
  statements to the modules.

Only model-checked: liveness under fairness, which the prover does not handle (`LookupEnds`,
`AnalysisEnds`, `SourceIsFollowed`).

## Divergences

What the code does otherwise than its comments say, or than one would expect, met while
modelling. The first is a finding of the run `boot_refused`; the others are no runs, and where a
property would be broken by one of them it names the exemption.

Billing (`api/billing.go`, `api/billing_refund.go`)

- A lower plan bought after a cancel-renewal leaves `pending_plan` and
  `cancel_at_period_end` both set; `billing_refund.go:318-319` says they cannot be.
- Between the expiry and the batch a customer who has paid for the lower plan is on Free;
  `billing.go:744-747` says there is no gap.
- A confirmation whose client leaves while Toss captures the money logs nothing;
  `billing.go:533-535` says both outcomes are logged.
- A lower purchase whose confirmation overlaps that of a higher one overwrites it at once;
  `billing.go:640-644` says it waits. Hence `NoEarlyLoss` is stated of `SequentialSpec`.
- A downgrade written after the cancellation batch freed the row is selected by no batch.
- An entry created in the period and deleted again does not exclude a refund;
  `billing_refund.go:3-5` says any use does.

Feature usage

- A request that finds its subject counted is served without a row; when the owner of the row fails,
  the place is free again: more subjects are served than `feature_usage.go:13` says. `Quota`
  bounds the charges, not the answers.
- The release runs on the context of the request: when the client leaves during the call, the failure
  stays charged, against `business_registration.go:149`. `FailuresAreFree` exempts it.

Pipeline

- The lookup that uses up the attempts by failing leaves the entry without
  `result_finalized_at`, although nothing looks it up again.
- An overlapping lookup may write NO_RESULT over a WON that another one found; the message was sent.
- A PATCH decided on an older status may leave an exclusion's reason on an entry that is not excluded.
- `handleExcludeNotice` writes no line of the status history.

Collection

- `Compare` does not look at the time of day of a deadline, the opening or the qualification
  texts: a correction of these alone is not stored. `SourceIsFollowed` is for the compared fields.
- The sweep's `error` may replace the `completed` of a view that finished meanwhile; two saves at
  once can leave duplicate limits, or `not_found` beside limits.
- An attachment is reused by its address: a file replaced at the source is not downloaded again.
- A write that is cut short leaves a truncated file that the next run takes for the whole one;
  `CompletedHasFile` exempts it.
- A correction that `collector-daemon` stores is announced to nobody: its `Runner` has no
  `OnChangesRecorded` (`collector-daemon/main.go:42`; only `apiserver/main.go:383` and `:437` set
  one), and the server's collector finds no difference afterwards. `OnlyFaultsSilence` says so by `mute`.

Notifications

- An entry that is prepared more than a day after a reminder was due misses it, however punctual the
  ticker: only 준비중 is selected, the deadline counts as seen since the entry was made, and what is
  older than 24 hours is not sent. `pipeline_deadline_scheduler.go:23-24` says that in normal
  operation everything is sent within them. `NothingMissed` exempts it by `since`.
- A deadline corrected while the entry is not 준비중 is seen by the first run after it is, and counts as
  corrected then: its reminders due in between are not sent (`done.seen`).
- The monthly limit fails open by design (`notifications.go:85-87`): while the plan, the limit or the
  count cannot be read, a batch passes whole. `QuotaBounded` allows one batch for each such fault.
- The log rows of the scheduler's e-mails and of corrections do not count in the monthly limit that
  gates them.
- A second correction of a notice is not told by e-mail: the log is asked for the kind, ever.
- A deadline that is first observed after a correction may be reminded of retroactively
  (`first` in `NotRetroactive`).
- A report is stored before its e-mail: a crash in between and it is never sent.

Extraction

- Notices of support programmes never get `section_extraction_processed_at`, so they show
  `awaiting_structured_extraction` for ever (`document_extraction.go:1100-1106`).
- Overlapping batches can duplicate rows, and lose a reviewed one; `RowsOnce` and `ReviewKept`
  exempt them.
- A late worker may hand out one attempt above the cap; `AttemptsBounded` counts it.

Accounts

- An acceptance does not look at the invitation's status again, so of two by one user the second can take
  a seat back after a removal; a deactivation beside the creation of a company leaves it without
  its owner until `ensureTeamTables` runs again.

Migration

- `sql/001_init.sql` and `db/migrations/001_init.sql` differ, although `migrate.go:7-9` asks to
  keep them alike.
- Two collectors collide at `migrate.go:602`, where DROP and ADD are separate statements although
  the comment before it calls them safe to repeat; one collector then does not start.
- While a collector's Apply runs, the list of events is narrow and a reminder of a saved search
  is not logged (`RowsAccepted`).
- Banners that an administrator deleted to the last come back at the next start.

Judgement

- An official licence limit absorbs the paper that names it: a notice may be "ready" without the paper
  being held (`JudgedByName`). The card on the dashboard is judged without the version's limits and
  conditions and may promise more than the page, although `dashboard.go:288` says they must match.
- The dashboard's gaps do not look at conditions of licence, certificate and direct production, and
  they count support programmes (`dashboard_gaps.go` has no filter by type), which no page judges.
- On its last day a licence is valid in the list and expired in the judgement; `ListedExpired` and
  `Expired` are both in the module.
- `notice_license_match.go` does not look at expiry at all.
- The track record's "seems met" may take the amount of one contract and the period of another.
- A profile saved while an answer is given may add the licence again as held (`raced`); views that overlap the
  creation of an entry, and overlapping evaluations, can add an item or a condition twice (`lapped`).
- Check marks beside documents are lost when an extraction gives them new ids.
- `reevaluateChecklistMatches` waits for the deletion of a document, which nothing does.
