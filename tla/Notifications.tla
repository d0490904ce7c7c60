--------------------------- MODULE Notifications ---------------------------
(***************************************************************************)
(* What one company is told about one notice of its pipeline: the deadline *)
(* scheduler (api/pipeline_deadline_scheduler.go), the e-mails of          *)
(* api/notifications.go, api/saved_search_digest.go and api/reports.go,    *)
(* and the free plan's monthly limit on them.                              *)
(*                                                                         *)
(* There are two ways not to tell twice: a row inserted BEFORE the first   *)
(* message (pipeline_deadline_events, reports) and a row of                *)
(* notification_log written AFTER each. Tickers, callbacks, goroutines and *)
(* administrators run the same batches on both without a lock.             *)
(***************************************************************************)
EXTENDS Integers, FiniteSets

CONSTANTS
    Scheduler,   \* runs of RunDeadlineSchedule in flight
    Worker,      \* batches, callbacks and goroutines in flight
    Event,       \* kinds of reminder
    Offset,      \* Offset[e]: how long before the deadline reminder e is due
    TimeOnly,    \* those that require the deadline's time of day (requiresTime)
    Deadline,    \* deadlines the notice may have
    Timed,       \* those published with a time of day
    Contact,     \* company_contacts with e-mail notifications
    Member,      \* members of the company
    None,        \* no event, no kind, no instant
    Grace,       \* deadlineEventGrace
    Quota,       \* free_plan_email_limit
    MaxTime,     \* bound: the clock stops here
    MaxChanges,  \* bound on corrections and on changes of status
    MaxFaults    \* bound on failed sends, lost log rows and downtimes

ASSUME OffsetAssumption == Offset \in [Event -> Nat] /\ Deadline \subseteq Nat
ASSUME TimeAssumption == TimeOnly \subseteq Event /\ Timed \subseteq Deadline
ASSUME BoundAssumption == {Grace, MaxTime, MaxChanges, MaxFaults} \subseteq Nat
(* A day, and the scheduler runs every half an hour. *)
ASSUME GraceAssumption == Grace >= 5
ASSUME QuotaAssumption == Quota \in Nat \ {0}
ASSUME RecipientAssumption == IsFiniteSet(Contact) /\ IsFiniteSet(Member) /\ IsFiniteSet(Worker)

VARIABLES
    now,         \* the clock, in ticks of the scheduler
    deadline,    \* the notice's deadline
    storedAt,    \* when it first got each deadline
    corrections, \* corrections whose callback has not begun
    stage,       \* the entry's status
    since,       \* history: when it last became the one reminders are for
    shifts,      \* changes of status whose goroutine has not begun
    changes,     \* corrections and changes of status so far
    snapshot,    \* submission_deadline_snapshot, submission_deadline_seen_at
    first,       \* deadlines observed without a snapshot
    claims,      \* pipeline_deadline_events
    reported,    \* the row of reports
    sent,        \* how often each message was delivered
    logged,      \* messages with a 'sent' row in notification_log
    sched,       \* sched[s]: local variables of a scheduler run
    done,        \* the complete scheduler run that ended last
    work,        \* work[w]: local variables of a batch
    faults

notice == <<deadline, storedAt, corrections>>
status == <<stage, since, shifts>>
reminders == <<snapshot, first, claims, sched, done>>
mails == <<reported, work>>
vars == <<now, notice, status, changes, reminders, mails, sent, logged, faults>>

(* 검토중, 준비중, 제외; 제출완료, 낙찰 and 탈락 are one: nothing here tells them apart *)
Stage == {"reviewing", "preparing", "excluded", "ended"}
preparing == stage = "preparing"

-----------------------------------------------------------------------------
(* Messages: a kind, what it is about and to whom *)

Kind == {"status", "corrected", "digest", "saved", "report"}
ASSUME NoneAssumption == None \notin Event /\ None \notin Deadline /\ None \notin Kind

Counted == {"status", "digest", "saved", "report"}   \* notificationEmailEventTypes
Recipients(kind) == IF kind \in {"digest", "report"} THEN Member ELSE Contact

Reminder == Event \X Deadline \X Contact
Mail == UNION {{k} \X Recipients(k) : k \in Kind}
Message == Reminder \cup Mail

(* countNotificationEmailsThisMonth: reminders and corrections do not count. *)
CountedMail == UNION {{k} \X Recipients(k) : k \in Counted}
UsedQuota == Cardinality(logged \cap CountedMail)
(* Mutant: the limit is the last number that passes. *)
AllowsOneMore == UsedQuota <= Quota
CheckEmailNotificationQuota == UsedQuota < Quota

NoSnapshot == [at |-> None, seen |-> 0]
Snapshot == {NoSnapshot} \cup [at: Deadline, seen: 0..MaxTime]

Run == [phase: {"idle", "selected", "firing", "dispatch"}, deadline: Deadline, at: 0..MaxTime,
        snapshot: Snapshot, seen: 0..MaxTime, todo: SUBSET Event,
        event: Event \cup {None}]
Done == [at: 0..MaxTime, deadline: Deadline, seen: 0..(MaxTime + 1)]
Batch == [kind: Kind \cup {None}, phase: {"idle", "begun", "sending"}, allowed: BOOLEAN,
          todo: SUBSET (Contact \cup Member), checked: SUBSET Contact]

NoBatch == [kind |-> None, phase |-> "idle", allowed |-> FALSE, todo |-> {}, checked |-> {}]
AnyDeadline == CHOOSE d \in Deadline : TRUE
NoRun == [phase |-> "idle", deadline |-> AnyDeadline, at |-> 0, snapshot |-> NoSnapshot,
          seen |-> 0, todo |-> {}, event |-> None]

NothingDone(t) == [at |-> t, deadline |-> AnyDeadline, seen |-> MaxTime + 1]

Init ==
    /\ now = 0
    /\ deadline \in Deadline
    /\ storedAt = [d \in Deadline |-> IF d = deadline THEN 0 ELSE MaxTime + 1]
    /\ corrections = 0
    /\ stage \in {"reviewing", "preparing"} /\ since = 0
    /\ shifts = 0
    /\ changes = 0
    /\ snapshot = NoSnapshot
    /\ first = {}
    /\ claims = {}
    /\ reported = FALSE
    /\ sent = [m \in Message |-> 0]
    /\ logged = {}
    /\ sched = [s \in Scheduler |-> NoRun]
    /\ done = NothingDone(0)
    /\ work = [w \in Worker |-> NoBatch]
    /\ faults = 0

Max2(a, b) == IF a > b THEN a ELSE b
Min2(a, b) == IF a < b THEN a ELSE b

-----------------------------------------------------------------------------
(* Environment *)

(* While all goes well a run is over before the second instant after its own, and *)
(* the ticker completes one at every second instant at the latest.                 *)
Timely ==
    /\ \A s \in Scheduler : sched[s].phase # "idle" => sched[s].at = now
    /\ preparing => Max2(done.at, since) >= now - 1

Tick ==
    /\ now < MaxTime
    /\ Timely
    /\ now' = now + 1
    /\ UNCHANGED <<notice, status, changes, reminders, mails, sent, logged, faults>>

(* A run is slow, or the ticker is late. *)
Late ==
    /\ now < MaxTime
    /\ faults < MaxFaults
    /\ faults' = faults + 1
    /\ now' = now + 1
    /\ UNCHANGED <<notice, status, changes, reminders, mails, sent, logged>>

Downtime ==
    /\ now < MaxTime
    /\ faults < MaxFaults
    /\ faults' = faults + 1
    /\ now' = now + 1
    /\ sched' = [s \in Scheduler |-> NoRun]
    /\ work' = [w \in Worker |-> NoBatch]
    /\ corrections' = 0 /\ shifts' = 0
    /\ done' = NothingDone(now + 1)
    /\ UNCHANGED <<deadline, storedAt, stage, since, changes, snapshot, first, claims,
                   reported, sent, logged>>

(* The collector stores another deadline and calls NotifyNoticeChanged. *)
CorrectNotice ==
    /\ changes < MaxChanges
    /\ changes' = changes + 1
    /\ deadline' \in Deadline \ {deadline}
    /\ storedAt' = [storedAt EXCEPT ![deadline'] = Min2(@, now)]
    /\ corrections' = corrections + 1
    /\ UNCHANGED <<now, status, reminders, mails, sent, logged, faults>>

ChangeStatus(to) ==
    /\ changes < MaxChanges
    /\ changes' = changes + 1
    /\ stage' = to
    /\ since' = IF to = "preparing" THEN now ELSE since
    /\ UNCHANGED <<now, notice, reminders, mails, sent, logged, faults>>

(* handleCreatePipelineEntry for a notice already in the pipeline *)
ParticipateAgain ==
    \E to \in {"reviewing", "preparing"} :
        /\ stage = "excluded" \/ (stage = "reviewing" /\ to = "preparing")
        /\ ChangeStatus(to)
        /\ UNCHANGED shifts

(* handleUpdatePipelineEntry starts a goroutine for every change of status. *)
UpdateEntry ==
    \E to \in Stage :
        /\ to = stage => stage = "ended"
        /\ ChangeStatus(to)
        /\ shifts' = shifts + 1

(* RunPipelineAutoTransitions: a passed deadline, or a cancelled notice, also of a *)
(* bid that was submitted                                                          *)
AutoExclude ==
    /\ stage # "excluded"
    /\ ChangeStatus("excluded")
    /\ UNCHANGED shifts

-----------------------------------------------------------------------------
(* The deadline scheduler *)

(* One SELECT reads the entry, the notice and the snapshot. *)
SelectEntries(s) ==
    /\ sched[s].phase = "idle"
    /\ preparing
    /\ sched' = [sched EXCEPT ![s] = [NoRun EXCEPT !.phase = "selected", !.at = now,
                                        !.deadline = deadline, !.snapshot = snapshot]]
    /\ UNCHANGED <<now, notice, status, changes, snapshot, first, claims, done, mails,
                   sent, logged, faults>>

(* Without a time of day a deadline has no reminders hours before it. *)
Applies(e, d) == e \in TimeOnly => d \in Timed

(* Mutant: the instant of a correction is not a bound. *)
DueFromStart(run, seen) ==
    {e \in Event : Applies(e, run.deadline) /\ run.at - Grace <= run.deadline - Offset[e] /\ run.deadline - Offset[e] <= run.at}

(* Mutant: only the reminders of this very instant. *)
DueNow(run, seen) == {e \in Event : Applies(e, run.deadline) /\ run.deadline - Offset[e] = run.at}

(* The reminders whose instant lies in [floor, now]; the company joined at 0 *)
Due(run, seen) ==
    {e \in Event : LET t == run.deadline - Offset[e]
                   IN  /\ Applies(e, run.deadline)
                       /\ Max2(seen, run.at - Grace) <= t /\ t <= run.at}

(* reconcileDeadlineSnapshot *)
Reconcile(s) ==
    LET run == sched[s]
        known == run.snapshot.at # None
        seen == CASE ~known -> 0
                  [] known /\ run.snapshot.at # run.deadline -> run.at
                  [] OTHER -> run.snapshot.seen
    IN  /\ run.phase = "selected"
        /\ snapshot' = IF known /\ run.snapshot.at = run.deadline THEN snapshot
                       ELSE [at |-> run.deadline, seen |-> seen]
        /\ first' = IF known THEN first ELSE first \cup {run.deadline}
        /\ sched' = [sched EXCEPT ![s].phase = "firing", ![s].seen = seen,
                                  ![s].snapshot = NoSnapshot, ![s].todo = Due(run, seen)]
        /\ UNCHANGED <<now, notice, status, changes, claims, done, mails, sent, logged, faults>>

Claimed(e, d) == <<e, d>> \in claims

(* Mutant: the reminder is sent before the row is inserted. *)
ClaimsAfter(s) ==
    LET run == sched[s]
    IN  /\ run.phase = "firing"
        /\ \E e \in run.todo :
            /\ claims' = claims \cup {<<e, run.deadline>>}
            /\ sched' = [sched EXCEPT ![s].todo = @ \ {e}, ![s].event = e,
                                      ![s].phase = "dispatch"]
        /\ UNCHANGED <<now, notice, status, changes, snapshot, first, done, mails,
                       sent, logged, faults>>

(* maybeFireDeadlineEvent: ON CONFLICT DO NOTHING *)
Claim(s) ==
    LET run == sched[s]
    IN  /\ run.phase = "firing"
        /\ \E e \in run.todo :
            IF Claimed(e, run.deadline)
            THEN /\ sched' = [sched EXCEPT ![s].todo = @ \ {e}]
                 /\ UNCHANGED claims
            ELSE /\ claims' = claims \cup {<<e, run.deadline>>}
                 /\ sched' = [sched EXCEPT ![s].todo = @ \ {e}, ![s].event = e,
                                           ![s].phase = "dispatch"]
        /\ UNCHANGED <<now, notice, status, changes, snapshot, first, done, mails,
                       sent, logged, faults>>

(* dispatchDeadlineEvent: all contacts, whatever the log says, unless the quota is  *)
(* used up and the lookup of that succeeds; each send may fail, which is logged and *)
(* not repeated                                                                     *)
Dispatch(s) ==
    LET run == sched[s]
    IN  /\ run.phase = "dispatch"
        /\ \/ /\ ~CheckEmailNotificationQuota
              /\ UNCHANGED <<sent, logged, faults>>
           \/ \E to \in SUBSET Contact :
                LET messages == {<<run.event, run.deadline, c>> : c \in to}
                IN  /\ faults' = faults + Cardinality(Contact \ to)
                                        + (IF CheckEmailNotificationQuota THEN 0 ELSE 1)
                    /\ faults' <= MaxFaults
                    /\ sent' = [m \in Message |-> sent[m] + IF m \in messages THEN 1 ELSE 0]
                    /\ logged' = logged \cup messages
        /\ sched' = [sched EXCEPT ![s].phase = "firing", ![s].event = None]
        /\ UNCHANGED <<now, notice, status, changes, snapshot, first, claims, done, mails>>

FinishRun(s) ==
    /\ sched[s].phase = "firing" /\ sched[s].todo = {}
    /\ done' = [at |-> sched[s].at, deadline |-> sched[s].deadline, seen |-> sched[s].seen]
    /\ sched' = [sched EXCEPT ![s] = NoRun]
    /\ UNCHANGED <<now, notice, status, changes, snapshot, first, claims, mails,
                   sent, logged, faults>>

-----------------------------------------------------------------------------
(* E-mails with a log row each *)

Unsent(kind) == {r \in Recipients(kind) : <<kind, r>> \notin logged}

Start(w, kind, todo) ==
    /\ work[w].phase = "idle"
    /\ todo # {}
    /\ work' = [work EXCEPT ![w] = [NoBatch EXCEPT !.kind = kind, !.phase = "begun",
                                                   !.todo = todo]]

(* NotifyNoticeChanged, notifyNoticeCorrected: fetchNotifiableContacts reads who *)
(* was already sent an e-mail of the kind for this entry, ever.                  *)
NotifyNoticeCorrected(w) ==
    /\ corrections > 0
    /\ corrections' = corrections - 1
    /\ IF stage \in {"reviewing", "preparing"} /\ Unsent("corrected") # {}
       THEN Start(w, "corrected", Unsent("corrected"))
       ELSE UNCHANGED work
    /\ UNCHANGED <<now, deadline, storedAt, status, changes, reminders, reported, sent,
                   logged, faults>>

NotifyAssigneeStatusChange(w) ==
    /\ shifts > 0
    /\ shifts' = shifts - 1
    /\ IF Unsent("status") # {} THEN Start(w, "status", Unsent("status")) ELSE UNCHANGED work
    /\ UNCHANGED <<now, notice, stage, since, changes, reminders, reported, sent, logged, faults>>

(* sendRecommendationDigest reads the log for each member; the notice is one *)
(* that is recommended until it is in the pipeline                           *)
SendRecommendationDigest(w) ==
    /\ \E m \in Unsent("digest") : Start(w, "digest", {m})
    /\ UNCHANGED <<now, notice, status, changes, reminders, reported, sent, logged, faults>>

SendSavedSearchDigest(w) ==
    /\ Start(w, "saved", Unsent("saved"))
    /\ UNCHANGED <<now, notice, status, changes, reminders, reported, sent, logged, faults>>

(* insertReport, then sendReportEmail *)
GenerateReports(w) ==
    /\ ~reported
    /\ Start(w, "report", Member)
    /\ reported' = TRUE
    /\ UNCHANGED <<now, notice, status, changes, reminders, sent, logged, faults>>

(* checkEmailNotificationQuota, once for all recipients of a batch; when the plan, *)
(* the limit or the count cannot be read, all of them pass.                        *)
CheckQuota(w) ==
    /\ work[w].phase = "begun"
    /\ \/ /\ CheckEmailNotificationQuota
          /\ work' = [work EXCEPT ![w].phase = "sending", ![w].allowed = TRUE]
          /\ UNCHANGED faults
       \/ /\ ~CheckEmailNotificationQuota
          /\ work' = [work EXCEPT ![w] = NoBatch]
          /\ UNCHANGED faults
       \/ /\ ~CheckEmailNotificationQuota /\ faults < MaxFaults
          /\ faults' = faults + 1
          /\ work' = [work EXCEPT ![w].phase = "sending", ![w].allowed = TRUE]
    /\ UNCHANGED <<now, notice, status, changes, reminders, reported, sent, logged>>

Rest(b, r) == IF b.todo = {r} THEN NoBatch ELSE [b EXCEPT !.todo = @ \ {r}, !.checked = {}]
Ready(b) == IF b.kind = "saved" THEN b.checked ELSE b.todo

(* fetchSavedSearchAlreadySentNoticeIDs: this digest reads the log again for each *)
(* recipient before it sends.                                                      *)
RecheckRecipient(w) ==
    /\ work[w].phase = "sending" /\ work[w].kind = "saved" /\ work[w].checked = {}
    /\ \E r \in work[w].todo :
        work' = [work EXCEPT ![w] = IF <<"saved", r>> \in logged THEN Rest(@, r)
                                    ELSE [@ EXCEPT !.checked = {r}]]
    /\ UNCHANGED <<now, notice, status, changes, reminders, reported, sent, logged, faults>>

(* sendNotificationEmail: the e-mail, then its row *)
Send(w) ==
    /\ work[w].phase = "sending"
    /\ \E r \in Ready(work[w]) :
        LET mail == <<work[w].kind, r>>
        IN  /\ work' = [work EXCEPT ![w] = Rest(@, r)]
            /\ sent' = [sent EXCEPT ![mail] = @ + 1]
            /\ logged' = logged \cup {mail}
    /\ UNCHANGED <<now, notice, status, changes, reminders, reported, faults>>

(* The provider refuses it, or the row is not written or the process ends. *)
SendFails(w) ==
    /\ work[w].phase = "sending"
    /\ faults < MaxFaults
    /\ faults' = faults + 1
    /\ \E r \in Ready(work[w]), delivered \in BOOLEAN, ends \in BOOLEAN :
        /\ sent' = IF delivered THEN [sent EXCEPT ![<<work[w].kind, r>>] = @ + 1] ELSE sent
        /\ work' = [work EXCEPT ![w] = IF ends THEN NoBatch ELSE Rest(@, r)]
    /\ UNCHANGED <<now, notice, status, changes, reminders, reported, logged>>

-----------------------------------------------------------------------------
ScheduleNext(s) == SelectEntries(s) \/ Reconcile(s) \/ Claim(s) \/ Dispatch(s) \/ FinishRun(s)

MailNext(w) ==
    \/ NotifyNoticeCorrected(w) \/ NotifyAssigneeStatusChange(w)
    \/ SendRecommendationDigest(w) \/ SendSavedSearchDigest(w) \/ GenerateReports(w)
    \/ CheckQuota(w) \/ RecheckRecipient(w) \/ Send(w) \/ SendFails(w)

Next ==
    \/ Tick \/ Late \/ Downtime \/ CorrectNotice
    \/ ParticipateAgain \/ UpdateEntry \/ AutoExclude
    \/ \E s \in Scheduler : ScheduleNext(s)
    \/ \E w \in Worker : MailNext(w)

Spec == Init /\ [][Next]_vars

-----------------------------------------------------------------------------
(* Properties *)

TypeOK ==
    /\ now \in 0..MaxTime
    /\ deadline \in Deadline
    /\ storedAt \in [Deadline -> 0..(MaxTime + 1)]
    /\ {corrections, shifts, changes} \subseteq 0..MaxChanges
    /\ stage \in Stage /\ since \in 0..MaxTime
    /\ snapshot \in Snapshot
    /\ first \subseteq Deadline
    /\ claims \subseteq Event \X Deadline
    /\ reported \in BOOLEAN
    /\ sent \in [Message -> Nat]
    /\ logged \subseteq Message
    /\ sched \in [Scheduler -> Run]
    /\ done \in Done
    /\ work \in [Worker -> Batch]
    /\ faults \in 0..MaxFaults

(* A reminder is claimed before it is sent: whatever overlaps, crashes or is corrected *)
(* back and forth, no contact gets the same reminder of the same deadline twice.        *)
RemindedOnce == \A m \in Reminder : sent[m] <= 1

(* A report is stored before it is sent and delivered at most once. What is logged    *)
(* after it was sent is repeated, but by each further batch in flight and each fault  *)
(* only.                                                                              *)
RepeatsBounded ==
    /\ \A m \in Member : sent[<<"report", m>>] <= 1
    /\ \A m \in Mail : sent[m] <= Cardinality(Worker) + faults

(* The monthly limit is read once for all recipients, nobody locks it, and whoever *)
(* cannot read it sends: it is passed by the recipients of the batches in flight    *)
(* and of one more batch for each fault, and by no more.                            *)
Pending(w) == IF work[w].kind \in Counted /\ work[w].allowed THEN Cardinality(work[w].todo) ELSE 0
Largest == Max2(Cardinality(Contact), Cardinality(Member))
Allowance == Quota - 1 + (Cardinality(Worker) + faults) * Largest
QuotaBounded == UsedQuota <= Allowance /\ \A w \in Worker : UsedQuota + Pending(w) <= Allowance

(* Both bounds on e-mails: what overlapping batches can cost a company. *)
MailBounded == TypeOK /\ RepeatsBounded /\ QuotaBounded

(* A reminder of a corrected deadline is never sent for an instant that had passed    *)
(* when that deadline was first stored, however late, slow, often or interrupted the   *)
(* runs are; only a deadline that was found without a snapshot counts as known from    *)
(* the start.                                                                          *)
NotRetroactive ==
    \A c \in claims : c[2] \in first \/ c[2] - Offset[c[1]] >= storedAt[c[2]]

(* While the ticker is on time no reminder is missed: when a run ends, all those that *)
(* fell due since the deadline was seen are claimed, also the ones between two runs   *)
(* and those a slower run has made the scheduler look at again. An entry that was     *)
(* prepared after it joined misses those that fell due a day before that, less the    *)
(* five ticks that the first runs may take to settle, however punctual the ticker is. *)
NothingMissed ==
    faults = 0 /\ preparing /\ done.at = now =>
        \A e \in Event :
            LET t == done.deadline - Offset[e]
            IN  /\ Applies(e, done.deadline)
                /\ t \in done.seen..now /\ t >= since + 5 - Grace
                => Claimed(e, done.deadline)
=============================================================================
