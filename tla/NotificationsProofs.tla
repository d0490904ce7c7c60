------------------------- MODULE NotificationsProofs -------------------------
(***************************************************************************)
(* Proofs about Notifications, for every number of runs, batches,          *)
(* reminders, deadlines, recipients and faults.                            *)
(*                                                                         *)
(* Three inductive invariants, which share the types: reminders are        *)
(* claimed before they are sent and by one run each (ClaimedFirst); what a *)
(* run holds was known in time (SeenLater) and, while the ticker is on     *)
(* time, accounts for every reminder that is owed since then and since the *)
(* entry was prepared (OnTime); what a batch may still send is paid for by *)
(* its worker or by a fault (MailInv).                                     *)
(***************************************************************************)
EXTENDS Notifications, FiniteSetTheorems, TLAPS

LEMMA NoRecords ==
    ASSUME Deadline # {}
    PROVE  NoSnapshot \in Snapshot /\ AnyDeadline \in Deadline /\ NoRun \in Run
           /\ NoBatch \in Batch
<1>1. AnyDeadline \in Deadline
  BY DEF AnyDeadline
<1>2. 0 \in 0..MaxTime
  BY BoundAssumption
<1> QED BY <1>1, <1>2 DEF NoSnapshot, Snapshot, NoRun, Run, NoBatch, Batch

LEMMA InitTypeOK == Init => TypeOK
<1> SUFFICES ASSUME Init PROVE TypeOK
  OBVIOUS
<1> USE DEF Init
<1>1. Deadline # {} /\ 0 \in 0..MaxTime /\ MaxTime + 1 \in 0..(MaxTime + 1)
      /\ 0 \in 0..(MaxTime + 1) /\ 0 \in 0..MaxChanges /\ 0 \in 0..MaxFaults
  BY BoundAssumption
<1>2. NoSnapshot \in Snapshot /\ AnyDeadline \in Deadline /\ NoRun \in Run /\ NoBatch \in Batch
  BY <1>1, NoRecords
<1>3. done \in Done /\ stage \in Stage /\ since \in 0..MaxTime
  BY <1>1, <1>2 DEF Done, NothingDone, Stage
<1>4. storedAt \in [Deadline -> 0..(MaxTime + 1)]
  BY <1>1
<1>5. sched \in [Scheduler -> Run] /\ work \in [Worker -> Batch] /\ sent \in [Message -> Nat]
  BY <1>2
<1> QED BY <1>1, <1>2, <1>3, <1>4, <1>5 DEF TypeOK

(* What a run holds when it selects the entry and when it has reconciled it. *)
LEMMA Selects ==
    ASSUME TypeOK, NEW s \in Scheduler, SelectEntries(s)
    PROVE  /\ sched' \in [Scheduler -> Run]
           /\ sched'[s] = [NoRun EXCEPT !.phase = "selected", !.at = now,
                                        !.deadline = deadline, !.snapshot = snapshot]
           /\ \A t \in Scheduler \ {s} : sched'[t] = sched[t]
<1> DEFINE run == [NoRun EXCEPT !.phase = "selected", !.at = now, !.deadline = deadline,
                                !.snapshot = snapshot]
<1>1. NoRun \in Run
  BY NoRecords DEF TypeOK
<1>2. run \in Run
  BY <1>1 DEF TypeOK, Run
<1> QED BY <1>2 DEF SelectEntries, TypeOK

Known(run) == run.snapshot.at # None
SeenBy(run) ==
    IF ~Known(run) THEN 0 ELSE IF run.snapshot.at # run.deadline THEN run.at ELSE run.snapshot.seen

LEMMA Reconciles ==
    ASSUME TypeOK, NEW s \in Scheduler, Reconcile(s)
    PROVE  LET run == sched[s]
           IN  /\ run.phase = "selected"
               /\ SeenBy(run) \in 0..MaxTime
               /\ sched' \in [Scheduler -> Run]
               /\ sched'[s].phase = "firing" /\ sched'[s].deadline = run.deadline
               /\ sched'[s].at = run.at /\ sched'[s].seen = SeenBy(run)
               /\ sched'[s].todo = Due(run, SeenBy(run)) /\ sched'[s].snapshot = NoSnapshot
               /\ sched'[s].event = run.event
               /\ \A t \in Scheduler \ {s} : sched'[t] = sched[t]
               /\ snapshot' \in Snapshot
               /\ IF Known(run) /\ run.snapshot.at = run.deadline THEN snapshot' = snapshot
                  ELSE snapshot' = [at |-> run.deadline, seen |-> SeenBy(run)]
               /\ first' = IF Known(run) THEN first ELSE first \cup {run.deadline}
<1> DEFINE run == sched[s]
           next == [run EXCEPT !.phase = "firing", !.seen = SeenBy(run), !.snapshot = NoSnapshot,
                               !.todo = Due(run, SeenBy(run))]
<1>1. run \in Run
  BY DEF TypeOK
<1>2. SeenBy(run) \in 0..MaxTime
  <2>1. run.snapshot \in Snapshot /\ run.at \in 0..MaxTime
    BY <1>1 DEF Run
  <2>2. run.snapshot.at # None => run.snapshot.seen \in 0..MaxTime
    BY <2>1 DEF Snapshot, NoSnapshot
  <2> QED BY <2>1, <2>2, BoundAssumption DEF SeenBy, Known
<1>3. sched' = [sched EXCEPT ![s] = next]
  BY DEF Reconcile, TypeOK, SeenBy, Known
<1>4. next \in Run
  BY <1>1, <1>2 DEF Run, Snapshot, Due
<1>5. sched' \in [Scheduler -> Run] /\ sched'[s] = next /\ \A t \in Scheduler \ {s} : sched'[t] = sched[t]
  BY <1>3, <1>4 DEF TypeOK
<1>6. /\ next.phase = "firing" /\ next.deadline = run.deadline /\ next.at = run.at
      /\ next.seen = SeenBy(run) /\ next.todo = Due(run, SeenBy(run))
      /\ next.snapshot = NoSnapshot /\ next.event = run.event
  BY <1>1 DEF Run
<1>7. snapshot' = IF Known(run) /\ run.snapshot.at = run.deadline THEN snapshot
                  ELSE [at |-> run.deadline, seen |-> SeenBy(run)]
  BY DEF Reconcile, SeenBy, Known
<1>8. snapshot' \in Snapshot
  BY <1>7, <1>1, <1>2 DEF Snapshot, TypeOK, Run
<1>9. run.phase = "selected" /\ first' = IF Known(run) THEN first ELSE first \cup {run.deadline}
  BY DEF Reconcile, Known
<1> QED BY <1>2, <1>5, <1>6, <1>7, <1>8, <1>9

(* A claim takes one reminder off the run's list, and is the first or finds another's. *)
Claims(s, e) ==
    /\ sched[s].phase = "firing" /\ e \in sched[s].todo /\ e \in Event
    /\ sched' \in [Scheduler -> Run]
    /\ sched'[s].deadline = sched[s].deadline /\ sched'[s].at = sched[s].at
    /\ sched'[s].seen = sched[s].seen /\ sched'[s].snapshot = sched[s].snapshot
    /\ sched'[s].todo = sched[s].todo \ {e}
    /\ \A t \in Scheduler \ {s} : sched'[t] = sched[t]
    /\ claims' = claims \cup {<<e, sched[s].deadline>>}
    /\ IF Claimed(e, sched[s].deadline)
       THEN sched'[s].phase = "firing" /\ sched'[s].event = sched[s].event
       ELSE sched'[s].phase = "dispatch" /\ sched'[s].event = e

LEMMA ClaimsOne ==
    ASSUME TypeOK, NEW s \in Scheduler, Claim(s)
    PROVE  \E e \in Event : Claims(s, e)
<1> DEFINE run == sched[s]
<1>1. run \in Run
  BY DEF TypeOK
<1>2. PICK e \in run.todo :
          IF Claimed(e, run.deadline)
          THEN /\ sched' = [sched EXCEPT ![s].todo = @ \ {e}]
               /\ UNCHANGED claims
          ELSE /\ claims' = claims \cup {<<e, run.deadline>>}
               /\ sched' = [sched EXCEPT ![s].todo = @ \ {e}, ![s].event = e,
                                         ![s].phase = "dispatch"]
  BY DEF Claim
<1> DEFINE skipped == [run EXCEPT !.todo = @ \ {e}]
           claimed == [run EXCEPT !.todo = @ \ {e}, !.event = e, !.phase = "dispatch"]
<1>3. e \in Event /\ run.phase = "firing"
  BY <1>1, <1>2 DEF Run, Claim
<1>4. skipped \in Run /\ claimed \in Run
  BY <1>1, <1>3 DEF Run
<1>5. CASE Claimed(e, run.deadline)
  <2>1. sched' = [sched EXCEPT ![s] = skipped] /\ claims' = claims
    BY <1>2, <1>5 DEF TypeOK
  <2>2. claims' = claims \cup {<<e, run.deadline>>}
    BY <2>1, <1>5 DEF Claimed
  <2>3. sched' \in [Scheduler -> Run] /\ sched'[s] = skipped
        /\ \A t \in Scheduler \ {s} : sched'[t] = sched[t]
    BY <2>1, <1>4 DEF TypeOK
  <2>4. /\ skipped.deadline = run.deadline /\ skipped.at = run.at /\ skipped.seen = run.seen
        /\ skipped.snapshot = run.snapshot /\ skipped.todo = run.todo \ {e}
        /\ skipped.phase = run.phase /\ skipped.event = run.event
    BY <1>1 DEF Run
  <2> QED BY <1>2, <1>3, <1>5, <2>2, <2>3, <2>4 DEF Claims
<1>6. CASE ~Claimed(e, run.deadline)
  <2>1. sched' = [sched EXCEPT ![s] = claimed] /\ claims' = claims \cup {<<e, run.deadline>>}
    BY <1>2, <1>6 DEF TypeOK
  <2>3. sched' \in [Scheduler -> Run] /\ sched'[s] = claimed
        /\ \A t \in Scheduler \ {s} : sched'[t] = sched[t]
    BY <2>1, <1>4 DEF TypeOK
  <2>4. /\ claimed.deadline = run.deadline /\ claimed.at = run.at /\ claimed.seen = run.seen
        /\ claimed.snapshot = run.snapshot /\ claimed.todo = run.todo \ {e}
        /\ claimed.phase = "dispatch" /\ claimed.event = e
    BY <1>1 DEF Run
  <2> QED BY <1>2, <1>3, <1>6, <2>1, <2>3, <2>4 DEF Claims
<1> QED BY <1>5, <1>6

(* A dispatch adds one to each message it sends, and writes its row. *)
Messages(s, to) == {<<sched[s].event, sched[s].deadline, c>> : c \in to}

Dispatches(s, to) ==
    /\ sched[s].phase = "dispatch" /\ to \subseteq Contact
    /\ sched' \in [Scheduler -> Run]
    /\ sched'[s].deadline = sched[s].deadline /\ sched'[s].at = sched[s].at
    /\ sched'[s].seen = sched[s].seen /\ sched'[s].snapshot = sched[s].snapshot
    /\ sched'[s].todo = sched[s].todo /\ sched'[s].phase = "firing"
    /\ \A t \in Scheduler \ {s} : sched'[t] = sched[t]
    /\ faults' \in 0..MaxFaults /\ faults <= faults'
    /\ sent' \in [Message -> Nat] /\ logged' \subseteq logged \cup Messages(s, to)
    /\ logged \subseteq logged'
    /\ \A m \in Message : sent'[m] = sent[m] \/ (m \in Messages(s, to) /\ sent'[m] = sent[m] + 1)

LEMMA DispatchesAll ==
    ASSUME TypeOK, NEW s \in Scheduler, Dispatch(s)
    PROVE  \E to \in SUBSET Contact : Dispatches(s, to)
<1> DEFINE run == sched[s]
           next == [run EXCEPT !.phase = "firing", !.event = None]
<1>1. run \in Run /\ next \in Run
  BY DEF TypeOK, Run
<1>2. sched' = [sched EXCEPT ![s] = next]
  BY DEF Dispatch, TypeOK
<1>3. /\ sched' \in [Scheduler -> Run] /\ sched'[s] = next
      /\ \A t \in Scheduler \ {s} : sched'[t] = sched[t]
  BY <1>1, <1>2 DEF TypeOK
<1>4. /\ next.deadline = run.deadline /\ next.at = run.at /\ next.seen = run.seen
      /\ next.snapshot = run.snapshot /\ next.todo = run.todo /\ next.phase = "firing"
  BY <1>1 DEF Run
<1>5. ASSUME NEW to \in SUBSET Contact,
             faults' = faults + Cardinality(Contact \ to)
                       + (IF CheckEmailNotificationQuota THEN 0 ELSE 1),
             faults' <= MaxFaults,
             sent' = [m \in Message |-> sent[m] + IF m \in Messages(s, to) THEN 1 ELSE 0],
             logged' = logged \cup Messages(s, to)
      PROVE  Dispatches(s, to)
  <2>2. IsFiniteSet(Contact \ to)
    BY RecipientAssumption, FS_Subset
  <2>3. Cardinality(Contact \ to) \in Nat
    BY <2>2, FS_CardinalityType
  <2>4. faults' \in 0..MaxFaults /\ faults <= faults'
    BY <1>5, <2>3, BoundAssumption DEF TypeOK
  <2>5. sent' \in [Message -> Nat]
        /\ \A m \in Message : sent'[m] = sent[m] \/ (m \in Messages(s, to) /\ sent'[m] = sent[m] + 1)
    <3> DEFINE M == Messages(s, to)
    <3>1. sent \in [Message -> Nat]
      BY DEF TypeOK
    <3>2. sent' = [m \in Message |-> sent[m] + IF m \in M THEN 1 ELSE 0]
      BY <1>5
    <3> HIDE DEF M
    <3>3. \A m \in Message : sent'[m] = IF m \in M THEN sent[m] + 1 ELSE sent[m]
      BY <3>1, <3>2
    <3>4. sent' \in [Message -> Nat]
      BY <3>1, <3>2
    <3>5. \A m \in Message : sent'[m] = sent[m] \/ (m \in M /\ sent'[m] = sent[m] + 1)
      BY <3>3
    <3> QED BY <3>4, <3>5 DEF M
  <2> QED BY <1>3, <1>4, <1>5, <2>4, <2>5 DEF Dispatches, Dispatch
<1>6. CASE UNCHANGED <<sent, logged, faults>>
  <2>2. Dispatches(s, {})
    <3>1. faults' \in 0..MaxFaults /\ faults <= faults'
      BY <1>6, BoundAssumption DEF TypeOK
    <3>2. sent' \in [Message -> Nat] /\ \A m \in Message : sent'[m] = sent[m]
      BY <1>6 DEF TypeOK
    <3>3. run.phase = "dispatch" /\ {} \subseteq Contact /\ logged \subseteq logged'
          /\ logged' \subseteq logged \cup Messages(s, {})
      BY <1>6 DEF Dispatch
    <3>4. \A m \in Message : sent'[m] = sent[m] \/ (m \in Messages(s, {}) /\ sent'[m] = sent[m] + 1)
      BY <3>2
    <3> QED BY <1>3, <1>4, <3>1, <3>2, <3>3, <3>4 DEF Dispatches
  <2> QED BY <2>2
<1>7. \/ UNCHANGED <<sent, logged, faults>>
      \/ \E to \in SUBSET Contact :
            /\ faults' = faults + Cardinality(Contact \ to)
                         + (IF CheckEmailNotificationQuota THEN 0 ELSE 1)
            /\ faults' <= MaxFaults
            /\ sent' = [m \in Message |-> sent[m] + IF m \in Messages(s, to) THEN 1 ELSE 0]
            /\ logged' = logged \cup Messages(s, to)
  BY DEF Dispatch, Messages
<1> QED BY <1>5, <1>6, <1>7

LEMMA Finishes ==
    ASSUME TypeOK, NEW s \in Scheduler, FinishRun(s)
    PROVE  /\ sched' \in [Scheduler -> Run] /\ sched'[s] = NoRun
           /\ \A t \in Scheduler \ {s} : sched'[t] = sched[t]
           /\ done' \in Done /\ done'.at = sched[s].at /\ done'.deadline = sched[s].deadline
           /\ done'.seen = sched[s].seen
           /\ sched[s].phase = "firing" /\ sched[s].todo = {}
<1>1. NoRun \in Run
  BY NoRecords DEF TypeOK
<1>2. done' \in Done
  BY BoundAssumption DEF FinishRun, Done, TypeOK, Run
<1> QED BY <1>1, <1>2 DEF FinishRun, TypeOK

-----------------------------------------------------------------------------
(* Batches *)

(* Worker w goes on with batch b, the others with theirs. *)
GoesOn(w, b) ==
    /\ b \in Batch /\ work' \in [Worker -> Batch] /\ work'[w] = b
    /\ \A v \in Worker \ {w} : work'[v] = work[v]

LEMMA WorkSet ==
    ASSUME TypeOK, NEW w \in Worker, NEW b \in Batch, work' = [work EXCEPT ![w] = b]
    PROVE  GoesOn(w, b)
BY DEF GoesOn, TypeOK

Begun(kind, todo) == [NoBatch EXCEPT !.kind = kind, !.phase = "begun", !.todo = todo]

LEMMA BegunIs ==
    ASSUME NEW kind \in Kind, NEW todo, todo \subseteq Recipients(kind)
    PROVE  /\ Begun(kind, todo) \in Batch /\ Begun(kind, todo).kind = kind
           /\ Begun(kind, todo).phase = "begun" /\ Begun(kind, todo).todo = todo
           /\ Begun(kind, todo).allowed = FALSE /\ Begun(kind, todo).checked = {}
BY DEF Begun, NoBatch, Batch, Recipients

LEMMA NoBatchIs ==
    /\ NoBatch \in Batch /\ NoBatch.kind = None /\ NoBatch.phase = "idle"
    /\ NoBatch.allowed = FALSE /\ NoBatch.todo = {} /\ NoBatch.checked = {}
BY DEF NoBatch, Batch

LEMMA Starts ==
    ASSUME TypeOK, NEW w \in Worker, NEW kind \in Kind, NEW todo, todo \subseteq Recipients(kind),
           Start(w, kind, todo)
    PROVE  GoesOn(w, Begun(kind, todo)) /\ work[w].phase = "idle"
<1>1. work' = [work EXCEPT ![w] = Begun(kind, todo)] /\ work[w].phase = "idle"
  BY DEF Start, Begun
<1> QED BY <1>1, BegunIs, WorkSet

LEMMA RestIs ==
    ASSUME NEW b \in Batch, NEW r \in b.todo
    PROVE  /\ Rest(b, r) \in Batch /\ Rest(b, r).todo = b.todo \ {r} /\ Rest(b, r).checked = {}
           /\ \/ Rest(b, r) = NoBatch
              \/ /\ Rest(b, r).kind = b.kind /\ Rest(b, r).phase = b.phase
                 /\ Rest(b, r).allowed = b.allowed
<1>1. CASE b.todo = {r}
  BY <1>1, NoBatchIs DEF Rest
<1>2. CASE b.todo # {r}
  BY <1>2 DEF Rest, Batch
<1> QED BY <1>1, <1>2

(* The batches that can be: what is checked is to be sent, what is allowed is being sent, *)
(* a run dispatches a reminder, and a callback or goroutine stands for a change.          *)
BatchShape ==
    /\ corrections + shifts <= changes
    /\ \A s \in Scheduler : sched[s].phase = "dispatch" => sched[s].event \in Event
    /\ \A w \in Worker :
        /\ work[w].phase = "idle" => work[w] = NoBatch
        /\ work[w].phase # "idle" => /\ work[w].kind \in Kind
                                     /\ work[w].todo \subseteq Recipients(work[w].kind)
        /\ work[w].checked \subseteq work[w].todo
        /\ work[w].allowed <=> work[w].phase = "sending"

TypeInv == TypeOK /\ BatchShape

LEMMA Stopped ==
    ASSUME TypeInv, NEW w \in Worker
    PROVE  work[w].todo # {} => work[w].kind \in Kind /\ work[w].todo \subseteq Recipients(work[w].kind)
BY NoBatchIs DEF TypeInv, BatchShape

LEMMA MailIs ==
    ASSUME TypeInv, NEW w \in Worker, NEW r \in Ready(work[w])
    PROVE  /\ r \in work[w].todo /\ <<work[w].kind, r>> \in Mail /\ <<work[w].kind, r>> \in Message
           /\ work[w].kind \in Kind
<1>1. r \in work[w].todo
  BY DEF Ready, TypeInv, BatchShape
<1>2. work[w].kind \in Kind /\ r \in Recipients(work[w].kind)
  BY <1>1, Stopped
<1> QED BY <1>1, <1>2 DEF Mail, Message

(* What a step of a batch does to it: nothing, it begins, it may send all it has,    *)
(* it goes on without a message, or it sends one.                                     *)
Waits(w) == UNCHANGED <<work, reported, sent, logged, faults>>

Begins(w, kind, todo) ==
    /\ work[w].phase = "idle" /\ GoesOn(w, Begun(kind, todo))
    /\ kind \in Kind /\ todo \subseteq Recipients(kind)
    /\ IF kind = "report" THEN ~reported /\ reported' = TRUE
       ELSE reported' = reported /\ todo \subseteq Unsent(kind)
    /\ UNCHANGED <<sent, logged, faults>>

Allows(w, b) ==
    /\ work[w].phase = "begun" /\ GoesOn(w, b)
    /\ b.kind = work[w].kind /\ b.todo = work[w].todo /\ b.checked = work[w].checked
    /\ b.allowed = TRUE /\ b.phase = "sending"
    /\ \/ CheckEmailNotificationQuota /\ faults' = faults
       \/ faults' = faults + 1 /\ faults' \in 0..MaxFaults
    /\ UNCHANGED <<reported, sent, logged>>

(* What is left of a batch: nothing, or the same batch with fewer recipients. *)
Left(b, was) ==
    \/ b = NoBatch
    \/ /\ b.kind = was.kind /\ b.phase = was.phase /\ b.allowed = was.allowed
       /\ b.todo \subseteq was.todo /\ b.checked \subseteq b.todo

Skips(w, b) ==
    /\ work[w].phase # "idle" /\ GoesOn(w, b) /\ Left(b, work[w])
    /\ UNCHANGED <<reported, sent, logged, faults>>

Sends(w, b, r) ==
    /\ work[w].phase = "sending" /\ GoesOn(w, b) /\ Left(b, work[w])
    /\ r \in work[w].todo /\ r \notin b.todo
    /\ <<work[w].kind, r>> \in Mail
    /\ sent' = [sent EXCEPT ![<<work[w].kind, r>>] = @ + 1]
    /\ \/ logged' = logged \cup {<<work[w].kind, r>>} /\ faults' = faults
       \/ logged' = logged /\ faults' = faults + 1
    /\ reported' = reported /\ faults' \in 0..MaxFaults

Loses(w, b) ==
    /\ work[w].phase # "idle" /\ GoesOn(w, b) /\ Left(b, work[w])
    /\ faults' = faults + 1 /\ faults' \in 0..MaxFaults
    /\ UNCHANGED <<reported, sent, logged>>

MailStep(w) ==
    \/ Waits(w)
    \/ \E kind \in Kind : \E todo \in SUBSET Recipients(kind) : Begins(w, kind, todo)
    \/ \E b \in Batch : Allows(w, b) \/ Skips(w, b) \/ Loses(w, b)
    \/ \E b \in Batch : \E r \in work[w].todo : Sends(w, b, r)

LEMMA StartsMail ==
    ASSUME TypeInv, NEW w \in Worker, NEW kind \in Kind, kind # "report",
           NEW todo, todo \subseteq Unsent(kind), Start(w, kind, todo),
           UNCHANGED <<reported, sent, logged, faults>>
    PROVE  MailStep(w)
<1>1. todo \subseteq Recipients(kind)
  BY DEF Unsent
<1>2. GoesOn(w, Begun(kind, todo)) /\ work[w].phase = "idle"
  BY <1>1, Starts DEF TypeInv
<1>3. Begins(w, kind, todo)
  BY <1>1, <1>2 DEF Begins
<1>4. todo \in SUBSET Recipients(kind)
  BY <1>1
<1> QED BY <1>3, <1>4 DEF MailStep

LEMMA RestIsLeft ==
    ASSUME NEW b \in Batch, NEW r \in b.todo
    PROVE  Left(Rest(b, r), b) /\ r \notin Rest(b, r).todo
BY RestIs DEF Left

LEMMA MailSteps == ASSUME TypeInv, NEW w \in Worker, MailNext(w) PROVE MailStep(w)
<1> DEFINE b == work[w]
<1>0. b \in Batch /\ TypeOK
  BY DEF TypeInv, TypeOK
<1>1. CASE NotifyNoticeCorrected(w)
  <2>1. CASE stage \in {"reviewing", "preparing"} /\ Unsent("corrected") # {}
    BY <1>1, <2>1, StartsMail DEF NotifyNoticeCorrected, Kind
  <2>2. CASE ~(stage \in {"reviewing", "preparing"} /\ Unsent("corrected") # {})
    BY <1>1, <2>2 DEF NotifyNoticeCorrected, MailStep, Waits
  <2> QED BY <2>1, <2>2
<1>2. CASE NotifyAssigneeStatusChange(w)
  <2>1. CASE Unsent("status") # {}
    BY <1>2, <2>1, StartsMail DEF NotifyAssigneeStatusChange, Kind
  <2>2. CASE Unsent("status") = {}
    BY <1>2, <2>2 DEF NotifyAssigneeStatusChange, MailStep, Waits
  <2> QED BY <2>1, <2>2
<1>3. CASE SendRecommendationDigest(w)
  <2>1. PICK m \in Unsent("digest") : Start(w, "digest", {m})
    BY <1>3 DEF SendRecommendationDigest
  <2> QED BY <1>3, <2>1, StartsMail DEF SendRecommendationDigest, Kind
<1>4. CASE SendSavedSearchDigest(w)
  BY <1>4, StartsMail DEF SendSavedSearchDigest, Kind
<1>5. CASE GenerateReports(w)
  <2>1. Member \subseteq Recipients("report") /\ "report" \in Kind
    BY DEF Recipients, Kind
  <2>2. GoesOn(w, Begun("report", Member)) /\ work[w].phase = "idle"
    BY <1>0, <1>5, <2>1, Starts DEF GenerateReports
  <2>3. Begins(w, "report", Member)
    BY <1>5, <2>1, <2>2 DEF GenerateReports, Begins
  <2>4. Member \in SUBSET Recipients("report")
    BY <2>1
  <2> QED BY <2>1, <2>3, <2>4 DEF MailStep
<1>6. CASE CheckQuota(w)
  <2> DEFINE next == [b EXCEPT !.phase = "sending", !.allowed = TRUE]
  <2>1. next \in Batch
    BY <1>0 DEF Batch
  <2>2. /\ next.kind = b.kind /\ next.todo = b.todo /\ next.checked = b.checked
        /\ next.allowed = TRUE /\ next.phase = "sending"
    BY <1>0 DEF Batch
  <2>3. CASE /\ work' = [work EXCEPT ![w] = next]
             /\ \/ CheckEmailNotificationQuota /\ faults' = faults
                \/ faults < MaxFaults /\ faults' = faults + 1
    <3>1. GoesOn(w, next)
      BY <1>0, <2>1, <2>3, WorkSet
    <3>2. faults' = faults + 1 /\ faults < MaxFaults => faults' \in 0..MaxFaults
      BY <1>0, BoundAssumption DEF TypeOK
    <3>3. Allows(w, next)
      BY <1>6, <2>2, <2>3, <3>1, <3>2 DEF CheckQuota, Allows
    <3> QED BY <2>1, <3>3 DEF MailStep
  <2>4. CASE work' = [work EXCEPT ![w] = NoBatch] /\ UNCHANGED faults
    <3>1. GoesOn(w, NoBatch)
      BY <1>0, <2>4, WorkSet, NoBatchIs
    <3>2. Skips(w, NoBatch)
      BY <1>6, <2>4, <3>1 DEF CheckQuota, Skips, Left
    <3> QED BY <3>2, NoBatchIs DEF MailStep
  <2>5. \/ work' = [work EXCEPT ![w] = next] /\ CheckEmailNotificationQuota /\ faults' = faults
        \/ work' = [work EXCEPT ![w] = next] /\ faults < MaxFaults /\ faults' = faults + 1
        \/ work' = [work EXCEPT ![w] = NoBatch] /\ UNCHANGED faults
    BY <1>0, <1>6 DEF CheckQuota, TypeOK
  <2> QED BY <2>3, <2>4, <2>5
<1>7. CASE RecheckRecipient(w)
  <2>1. PICK r \in b.todo :
            work' = [work EXCEPT ![w] = IF <<"saved", r>> \in logged THEN Rest(b, r)
                                        ELSE [b EXCEPT !.checked = {r}]]
    BY <1>0, <1>7 DEF RecheckRecipient, TypeOK
  <2>2. CASE <<"saved", r>> \in logged
    <3>1. work' = [work EXCEPT ![w] = Rest(b, r)]
      BY <2>1, <2>2
    <3>2. Rest(b, r) \in Batch /\ Left(Rest(b, r), b)
      BY <1>0, RestIs, RestIsLeft
    <3>3. Skips(w, Rest(b, r))
      BY <1>0, <1>7, <3>1, <3>2, WorkSet DEF RecheckRecipient, Skips
    <3> QED BY <3>2, <3>3 DEF MailStep
  <2>3. CASE <<"saved", r>> \notin logged
    <3> DEFINE next == [b EXCEPT !.checked = {r}]
    <3>1. work' = [work EXCEPT ![w] = next]
      BY <2>1, <2>3
    <3>2. "saved" \in Kind /\ b.kind = "saved" /\ b.phase = "sending"
      BY <1>7 DEF RecheckRecipient, Kind
    <3>3. r \in Contact
      BY <3>2, Stopped DEF Recipients
    <3>4. next \in Batch
      BY <1>0, <3>3 DEF Batch
    <3>5. Left(next, b)
      BY <1>0 DEF Left, Batch
    <3>6. Skips(w, next)
      BY <1>0, <1>7, <3>1, <3>2, <3>4, <3>5, WorkSet DEF RecheckRecipient, Skips
    <3> QED BY <3>4, <3>6 DEF MailStep
  <2> QED BY <2>2, <2>3
<1>8. CASE Send(w)
  <2>1. PICK r \in Ready(b) : /\ work' = [work EXCEPT ![w] = Rest(b, r)]
                              /\ sent' = [sent EXCEPT ![<<b.kind, r>>] = @ + 1]
                              /\ logged' = logged \cup {<<b.kind, r>>}
    BY <1>0, <1>8 DEF Send, TypeOK
  <2>2. r \in b.todo /\ <<b.kind, r>> \in Mail
    BY MailIs
  <2>3. Rest(b, r) \in Batch /\ Left(Rest(b, r), b) /\ r \notin Rest(b, r).todo
    BY <1>0, <2>2, RestIs, RestIsLeft
  <2>4. Sends(w, Rest(b, r), r)
    BY <1>0, <1>8, <2>1, <2>2, <2>3, WorkSet DEF Send, Sends, TypeOK
  <2> QED BY <2>2, <2>3, <2>4 DEF MailStep
<1>9. CASE SendFails(w)
  <2>1. PICK r \in Ready(b), delivered \in BOOLEAN, ends \in BOOLEAN :
            /\ sent' = IF delivered THEN [sent EXCEPT ![<<b.kind, r>>] = @ + 1] ELSE sent
            /\ work' = [work EXCEPT ![w] = IF ends THEN NoBatch ELSE Rest(b, r)]
    BY <1>0, <1>9 DEF SendFails, TypeOK
  <2> DEFINE next == IF ends THEN NoBatch ELSE Rest(b, r)
  <2>2. r \in b.todo /\ <<b.kind, r>> \in Mail
    BY MailIs
  <2>3. next \in Batch /\ Left(next, b) /\ r \notin next.todo
    BY <1>0, <2>2, RestIs, RestIsLeft, NoBatchIs DEF Left
  <2>4. GoesOn(w, next)
    BY <1>0, <2>1, <2>3, WorkSet
  <2>5. /\ faults' = faults + 1 /\ faults' \in 0..MaxFaults /\ reported' = reported
        /\ logged' = logged /\ b.phase = "sending"
    BY <1>0, <1>9, BoundAssumption DEF SendFails, TypeOK
  <2>6. CASE delivered
    <3>1. Sends(w, next, r)
      BY <2>1, <2>2, <2>3, <2>4, <2>5, <2>6 DEF Sends
    <3> QED BY <2>2, <2>3, <3>1 DEF MailStep
  <2>7. CASE ~delivered
    <3>1. Loses(w, next)
      BY <2>1, <2>3, <2>4, <2>5, <2>7 DEF Loses
    <3> QED BY <2>3, <3>1 DEF MailStep
  <2> QED BY <2>6, <2>7
<1> QED BY <1>1, <1>2, <1>3, <1>4, <1>5, <1>6, <1>7, <1>8, <1>9 DEF MailNext

(* Batches touch neither the clock nor the deadline nor a run, and runs no batch. *)
LEMMA MailFrame ==
    ASSUME TypeOK, NEW w \in Worker, MailNext(w)
    PROVE  /\ UNCHANGED <<now, deadline, storedAt, stage, since, changes, reminders>>
           /\ corrections' \in 0..MaxChanges /\ shifts' \in 0..MaxChanges
           /\ corrections' + shifts' <= corrections + shifts
<1> USE DEF TypeOK, reminders, notice, status
<1>1. CASE NotifyNoticeCorrected(w)
  BY <1>1, BoundAssumption DEF NotifyNoticeCorrected
<1>2. CASE NotifyAssigneeStatusChange(w)
  BY <1>2, BoundAssumption DEF NotifyAssigneeStatusChange
<1>3. CASE SendRecommendationDigest(w) \/ SendSavedSearchDigest(w) \/ GenerateReports(w)
  BY <1>3 DEF SendRecommendationDigest, SendSavedSearchDigest, GenerateReports
<1>4. CASE CheckQuota(w) \/ RecheckRecipient(w) \/ Send(w) \/ SendFails(w)
  BY <1>4 DEF CheckQuota, RecheckRecipient, Send, SendFails
<1> QED BY <1>1, <1>2, <1>3, <1>4 DEF MailNext

LEMMA RunFrame ==
    ASSUME NEW s \in Scheduler, ScheduleNext(s)
    PROVE  UNCHANGED <<now, deadline, storedAt, corrections, status, changes, mails>>
<1> USE DEF notice
<1>1. CASE SelectEntries(s) \/ Reconcile(s)
  BY <1>1 DEF SelectEntries, Reconcile
<1>2. CASE Claim(s) \/ Dispatch(s) \/ FinishRun(s)
  BY <1>2 DEF Claim, Dispatch, FinishRun
<1> QED BY <1>1, <1>2 DEF ScheduleNext

(* A correction stores a deadline at the latest now, and none later than before. *)
LEMMA Corrects ==
    ASSUME TypeOK, CorrectNotice
    PROVE  /\ deadline' \in Deadline /\ storedAt' \in [Deadline -> 0..(MaxTime + 1)]
           /\ storedAt'[deadline'] <= now
           /\ \A d \in Deadline : storedAt'[d] <= storedAt[d]
<1>1. deadline' \in Deadline
  BY DEF CorrectNotice
<1>2. storedAt' = [storedAt EXCEPT ![deadline'] = Min2(@, now)]
  BY DEF CorrectNotice
<1>3. Min2(storedAt[deadline'], now) \in 0..(MaxTime + 1)
      /\ Min2(storedAt[deadline'], now) <= now
      /\ Min2(storedAt[deadline'], now) <= storedAt[deadline']
  BY <1>1, BoundAssumption DEF Min2, TypeOK
<1> QED BY <1>1, <1>2, <1>3, BoundAssumption DEF TypeOK

LEMMA MailTypes ==
    ASSUME TypeInv, NEW w \in Worker, MailStep(w)
    PROVE  /\ reported' \in BOOLEAN /\ sent' \in [Message -> Nat] /\ logged' \subseteq Message
           /\ work' \in [Worker -> Batch] /\ faults' \in 0..MaxFaults /\ faults <= faults'
           /\ \A v \in Worker :
                  /\ work'[v].phase = "idle" => work'[v] = NoBatch
                  /\ work'[v].phase # "idle" => /\ work'[v].kind \in Kind
                                                /\ work'[v].todo \subseteq Recipients(work'[v].kind)
                  /\ work'[v].checked \subseteq work'[v].todo
                  /\ work'[v].allowed <=> work'[v].phase = "sending"
<1> USE DEF TypeInv, TypeOK
<1> DEFINE Shape(b) == /\ b.phase = "idle" => b = NoBatch
                       /\ b.phase # "idle" => b.kind \in Kind /\ b.todo \subseteq Recipients(b.kind)
                       /\ b.checked \subseteq b.todo
                       /\ b.allowed <=> b.phase = "sending"
<1>1. \A v \in Worker : Shape(work[v])
  BY DEF BatchShape
<1>2. Shape(NoBatch)
  BY NoBatchIs
<1>3. \A b : Left(b, work[w]) /\ work[w].phase # "idle" => Shape(b)
  BY <1>1, <1>2 DEF Left
<1>4. faults \in Nat
  BY BoundAssumption
<1>5. CASE Waits(w)
  BY <1>1, <1>4, <1>5 DEF Waits
<1>6. ASSUME NEW kind \in Kind, NEW todo \in SUBSET Recipients(kind), Begins(w, kind, todo)
      PROVE  /\ Shape(Begun(kind, todo)) /\ GoesOn(w, Begun(kind, todo))
             /\ reported' \in BOOLEAN /\ UNCHANGED <<sent, logged, faults>>
  <2>1. kind \in Kind /\ todo \subseteq Recipients(kind)
    OBVIOUS
  <2>2. Shape(Begun(kind, todo))
    <3>1. /\ Begun(kind, todo).kind = kind /\ Begun(kind, todo).phase = "begun"
          /\ Begun(kind, todo).todo = todo /\ Begun(kind, todo).allowed = FALSE
          /\ Begun(kind, todo).checked = {}
      BY DEF Begun, NoBatch
    <3> QED BY <2>1, <3>1
  <2>3. reported' \in BOOLEAN
    BY <1>6 DEF Begins
  <2> QED BY <1>6, <2>2, <2>3 DEF Begins
<1>7. ASSUME NEW b \in Batch, Allows(w, b) \/ Skips(w, b) \/ Loses(w, b)
      PROVE  /\ Shape(b) /\ GoesOn(w, b)
             /\ UNCHANGED <<reported, sent, logged>> /\ faults' \in 0..MaxFaults /\ faults <= faults'
  <2>1. CASE Allows(w, b)
    BY <1>1, <1>4, <2>1 DEF Allows
  <2>2. CASE Skips(w, b)
    BY <1>3, <1>4, <2>2 DEF Skips
  <2>3. CASE Loses(w, b)
    BY <1>3, <1>4, <2>3 DEF Loses
  <2> QED BY <1>7, <2>1, <2>2, <2>3
<1>8. ASSUME NEW b \in Batch, NEW r \in work[w].todo, Sends(w, b, r)
      PROVE  /\ Shape(b) /\ GoesOn(w, b) /\ reported' \in BOOLEAN
             /\ sent' \in [Message -> Nat] /\ logged' \subseteq Message
             /\ faults' \in 0..MaxFaults /\ faults <= faults'
  <2>1. Shape(b)
    BY <1>3, <1>8 DEF Sends
  <2>2. <<work[w].kind, r>> \in Message
    BY <1>8 DEF Sends, Message
  <2>3. sent' \in [Message -> Nat] /\ logged' \subseteq Message
    BY <1>8, <2>2 DEF Sends
  <2>4. faults' \in 0..MaxFaults /\ faults <= faults'
    BY <1>4, <1>8 DEF Sends
  <2> QED BY <1>8, <2>1, <2>3, <2>4 DEF Sends
<1>9. \A b : GoesOn(w, b) /\ Shape(b) => work' \in [Worker -> Batch] /\ \A v \in Worker : Shape(work'[v])
  BY <1>1 DEF GoesOn
<1> HIDE DEF Shape
<1>10. /\ reported' \in BOOLEAN /\ sent' \in [Message -> Nat] /\ logged' \subseteq Message
       /\ work' \in [Worker -> Batch] /\ faults' \in 0..MaxFaults /\ faults <= faults'
       /\ \A v \in Worker : Shape(work'[v])
  <2>1. CASE Waits(w)
    BY <1>1, <1>5, <2>1, <1>4 DEF Waits
  <2>2. CASE \E kind \in Kind : \E todo \in SUBSET Recipients(kind) : Begins(w, kind, todo)
    BY <1>4, <1>6, <1>9, <2>2
  <2>3. CASE \E b \in Batch : Allows(w, b) \/ Skips(w, b) \/ Loses(w, b)
    BY <1>7, <1>9, <2>3
  <2>4. CASE \E b \in Batch : \E r \in work[w].todo : Sends(w, b, r)
    BY <1>8, <1>9, <2>4
  <2> QED BY <2>1, <2>2, <2>3, <2>4 DEF MailStep
<1> QED BY <1>10 DEF Shape

(* Whoever changes the status, it is one step of the entry alone. *)
LEMMA StatusChanges ==
    ASSUME ParticipateAgain \/ UpdateEntry \/ AutoExclude
    PROVE  \E to \in Stage : ChangeStatus(to) /\ (shifts' = shifts \/ shifts' = shifts + 1)
<1>1. ParticipateAgain => \E to \in Stage : ChangeStatus(to) /\ shifts' = shifts
  BY DEF ParticipateAgain, Stage
<1>2. UpdateEntry => \E to \in Stage : ChangeStatus(to) /\ shifts' = shifts + 1
  BY DEF UpdateEntry
<1>3. AutoExclude => \E to \in Stage : ChangeStatus(to) /\ shifts' = shifts
  BY DEF AutoExclude, Stage
<1> QED BY <1>1, <1>2, <1>3

LEMMA TypeStep == ASSUME TypeInv, [Next]_vars PROVE TypeInv'
<1> USE DEF TypeInv
<1>0. TypeOK /\ now \in Nat /\ faults \in Nat /\ NoSnapshot \in Snapshot /\ NoRun \in Run
  BY NoRecords, BoundAssumption DEF TypeOK
<1>1. CASE Tick \/ Late
  <2>1. now' \in 0..MaxTime /\ faults' \in 0..MaxFaults
    BY <1>0, <1>1, BoundAssumption DEF Tick, Late, TypeOK
  <2>2. UNCHANGED <<notice, status, changes, reminders, mails, sent, logged>>
    BY <1>1 DEF Tick, Late
  <2> QED BY <2>1, <2>2 DEF notice, status, reminders, mails, TypeOK, BatchShape
<1>2. CASE Downtime
  <2>1. now' \in 0..MaxTime /\ faults' \in 0..MaxFaults /\ corrections' \in 0..MaxChanges
        /\ shifts' \in 0..MaxChanges
    BY <1>0, <1>2, BoundAssumption DEF Downtime, TypeOK
  <2>2. done' \in Done
    BY <1>0, <1>2, <2>1, NoRecords, BoundAssumption DEF Downtime, NothingDone, Done, TypeOK
  <2>3. sched' \in [Scheduler -> Run] /\ work' \in [Worker -> Batch]
    BY <1>0, <1>2, NoBatchIs DEF Downtime
  <2>4. BatchShape'
    <3>1. corrections' + shifts' <= changes'
      BY <1>2, BoundAssumption DEF Downtime, TypeOK
    <3>2. \A s \in Scheduler : sched'[s].phase # "dispatch"
      BY <1>2 DEF Downtime, NoRun
    <3>3. \A w \in Worker : work'[w] = NoBatch
      BY <1>2 DEF Downtime
    <3> QED BY <3>1, <3>2, <3>3, NoBatchIs DEF BatchShape
  <2> QED BY <1>2, <2>1, <2>2, <2>3, <2>4 DEF Downtime, TypeOK
<1>3. CASE CorrectNotice
  <2>1. changes' \in 0..MaxChanges /\ corrections' \in Nat
    BY <1>3, BoundAssumption DEF CorrectNotice, TypeOK
  <2>2. corrections' + shifts' <= changes' /\ corrections' \in 0..MaxChanges
    BY <1>3, <2>1, BoundAssumption DEF CorrectNotice, status, TypeOK, BatchShape
  <2>3. TypeOK'
    BY <1>0, <1>3, <2>1, <2>2, Corrects DEF CorrectNotice, status, reminders, mails, TypeOK
  <2>4. BatchShape'
    BY <1>3, <2>2 DEF CorrectNotice, status, reminders, mails, BatchShape
  <2> QED BY <2>3, <2>4
<1>4. CASE ParticipateAgain \/ UpdateEntry \/ AutoExclude
  <2>1. PICK to \in Stage : ChangeStatus(to) /\ (shifts' = shifts \/ shifts' = shifts + 1)
    BY <1>4, StatusChanges
  <2>2. changes' \in 0..MaxChanges /\ shifts' \in Nat /\ since' \in 0..MaxTime
    BY <1>0, <2>1, BoundAssumption DEF ChangeStatus, TypeOK
  <2>3. corrections' + shifts' <= changes' /\ shifts' \in 0..MaxChanges
    BY <2>1, <2>2, BoundAssumption DEF ChangeStatus, notice, TypeOK, BatchShape
  <2>4. TypeOK'
    BY <1>0, <2>1, <2>2, <2>3 DEF ChangeStatus, notice, reminders, mails, TypeOK
  <2>5. BatchShape'
    BY <2>1, <2>3 DEF ChangeStatus, notice, reminders, mails, BatchShape
  <2> QED BY <2>4, <2>5
<1>5. ASSUME NEW s \in Scheduler, ScheduleNext(s)
      PROVE  TypeInv'
  <2>0. UNCHANGED <<now, deadline, storedAt, corrections, status, changes, mails>>
    BY <1>5, RunFrame
  <2>1. CASE SelectEntries(s)
    <3>1. sched' \in [Scheduler -> Run]
          /\ \A t \in Scheduler : sched'[t].phase = "dispatch" => sched[t] = sched'[t]
      BY <1>0, <2>1, Selects DEF NoRun
    <3>2. UNCHANGED <<snapshot, first, claims, done, sent, logged, faults>>
      BY <2>1 DEF SelectEntries
    <3>3. TypeOK'
      BY <1>0, <2>0, <3>1, <3>2 DEF TypeOK, mails, status
    <3>4. BatchShape'
      BY <2>0, <3>1 DEF BatchShape, mails, status
    <3> QED BY <3>3, <3>4
  <2>2. CASE Reconcile(s)
    <3>1. sched' \in [Scheduler -> Run] /\ snapshot' \in Snapshot /\ first' \subseteq Deadline
          /\ \A t \in Scheduler : sched'[t].phase = "dispatch" => sched[t] = sched'[t]
      BY <1>0, <2>2, Reconciles DEF TypeOK, Run
    <3>2. UNCHANGED <<claims, done, sent, logged, faults>>
      BY <2>2 DEF Reconcile
    <3>3. TypeOK'
      BY <1>0, <2>0, <3>1, <3>2 DEF TypeOK, mails, status
    <3>4. BatchShape'
      BY <2>0, <3>1 DEF BatchShape, mails, status
    <3> QED BY <3>3, <3>4
  <2>3. CASE Claim(s)
    <3>1. PICK e \in Event : Claims(s, e)
      BY <1>0, <2>3, ClaimsOne
    <3>2. UNCHANGED <<snapshot, first, done, sent, logged, faults>>
      BY <2>3 DEF Claim
    <3>3. sched' \in [Scheduler -> Run] /\ claims' \subseteq Event \X Deadline
      BY <1>0, <3>1 DEF Claims, TypeOK, Run
    <3>4. \A t \in Scheduler : sched'[t].phase = "dispatch" => sched'[t].event \in Event
      BY <3>1 DEF Claims, BatchShape
    <3>5. TypeOK'
      BY <1>0, <2>0, <3>2, <3>3 DEF TypeOK, mails, status
    <3>6. BatchShape'
      BY <2>0, <3>4 DEF BatchShape, mails, status
    <3> QED BY <3>5, <3>6
  <2>4. CASE Dispatch(s)
    <3>1. PICK to \in SUBSET Contact : Dispatches(s, to)
      BY <1>0, <2>4, DispatchesAll
    <3>2. UNCHANGED <<snapshot, first, claims, done>>
      BY <2>4 DEF Dispatch
    <3>3. Messages(s, to) \subseteq Message
      BY <1>0, <3>1 DEF Dispatches, Messages, Message, Reminder, BatchShape, TypeOK, Run
    <3>4. /\ sched' \in [Scheduler -> Run] /\ sent' \in [Message -> Nat]
          /\ logged' \subseteq Message /\ faults' \in 0..MaxFaults
      BY <1>0, <3>1, <3>3 DEF Dispatches, TypeOK
    <3>5. \A t \in Scheduler : sched'[t].phase = "dispatch" => sched'[t] = sched[t]
      BY <3>1 DEF Dispatches
    <3>6. TypeOK'
      BY <1>0, <2>0, <3>2, <3>4 DEF TypeOK, mails, status
    <3>7. BatchShape'
      BY <2>0, <3>5 DEF BatchShape, mails, status
    <3> QED BY <3>6, <3>7
  <2>5. CASE FinishRun(s)
    <3>1. sched' \in [Scheduler -> Run] /\ done' \in Done
          /\ \A t \in Scheduler : sched'[t].phase = "dispatch" => sched[t] = sched'[t]
      BY <1>0, <2>5, Finishes DEF NoRun
    <3>2. UNCHANGED <<snapshot, first, claims, sent, logged, faults>>
      BY <2>5 DEF FinishRun
    <3>3. TypeOK'
      BY <1>0, <2>0, <3>1, <3>2 DEF TypeOK, mails, status
    <3>4. BatchShape'
      BY <2>0, <3>1 DEF BatchShape, mails, status
    <3> QED BY <3>3, <3>4
  <2> QED BY <1>5, <2>1, <2>2, <2>3, <2>4, <2>5 DEF ScheduleNext
<1>6. ASSUME NEW w \in Worker, MailNext(w)
      PROVE  TypeInv'
  <2>1. MailStep(w)
    BY <1>6, MailSteps
  <2>2. /\ UNCHANGED <<now, deadline, storedAt, stage, since, changes, reminders>>
        /\ corrections' \in 0..MaxChanges /\ shifts' \in 0..MaxChanges
        /\ corrections' + shifts' <= corrections + shifts
    BY <1>0, <1>6, MailFrame
  <2>3. /\ reported' \in BOOLEAN /\ sent' \in [Message -> Nat] /\ logged' \subseteq Message
        /\ work' \in [Worker -> Batch] /\ faults' \in 0..MaxFaults
    BY <2>1, MailTypes
  <2>4. TypeOK'
    BY <1>0, <2>2, <2>3 DEF TypeOK, reminders
  <2>5. \A v \in Worker :
            /\ work'[v].phase = "idle" => work'[v] = NoBatch
            /\ work'[v].phase # "idle" => /\ work'[v].kind \in Kind
                                          /\ work'[v].todo \subseteq Recipients(work'[v].kind)
            /\ work'[v].checked \subseteq work'[v].todo
            /\ work'[v].allowed <=> work'[v].phase = "sending"
    BY <2>1, MailTypes
  <2>6. corrections' + shifts' <= changes'
    BY <1>0, <2>2, BoundAssumption DEF BatchShape, TypeOK
  <2>7. BatchShape'
    BY <2>2, <2>5, <2>6 DEF BatchShape, reminders
  <2> QED BY <2>4, <2>7
<1>7. CASE UNCHANGED vars
  BY <1>7 DEF vars, notice, status, reminders, mails, TypeOK, BatchShape
<1> QED BY <1>1, <1>2, <1>3, <1>4, <1>5, <1>6, <1>7 DEF Next

LEMMA InitTypeInv == Init => TypeInv
<1> SUFFICES ASSUME Init PROVE BatchShape
  BY InitTypeOK DEF TypeInv
<1> QED BY NoBatchIs DEF Init, BatchShape, NoRun

-----------------------------------------------------------------------------
(* Reminders are sent once *)

(* What was sent was claimed, what is being dispatched was claimed and not yet sent, *)
(* and by one run.                                                                   *)
Dispatching(s, e, d) ==
    sched[s].phase = "dispatch" /\ sched[s].event = e /\ sched[s].deadline = d

ClaimedFirst ==
    /\ RemindedOnce
    /\ \A e \in Event, d \in Deadline, c \in Contact :
           sent[<<e, d, c>>] > 0 =>
               Claimed(e, d) /\ \A s \in Scheduler : ~Dispatching(s, e, d)
    /\ \A s \in Scheduler, e \in Event, d \in Deadline :
           Dispatching(s, e, d) =>
               Claimed(e, d) /\ \A t \in Scheduler : Dispatching(t, e, d) => t = s

LEMMA ReminderIs ==
    /\ \A e \in Event, d \in Deadline, c \in Contact : <<e, d, c>> \in Reminder /\ <<e, d, c>> \in Message
    /\ \A m \in Reminder : m \in Message /\ m \notin Mail
    /\ \A m \in Mail : m \in Message /\ m \notin Reminder
<1>1. \A e, d, c, k, r : <<e, d, c>> # <<k, r>>
  OBVIOUS
<1> QED BY <1>1 DEF Reminder, Mail, Message

LEMMA MailSent ==
    ASSUME TypeOK, NEW w \in Worker, MailStep(w)
    PROVE  \A m \in Reminder : sent'[m] = sent[m]
<1>1. CASE Waits(w)
  BY <1>1 DEF Waits
<1>2. CASE \E kind \in Kind : \E todo \in SUBSET Recipients(kind) : Begins(w, kind, todo)
  BY <1>2 DEF Begins
<1>3. CASE \E b \in Batch : Allows(w, b) \/ Skips(w, b) \/ Loses(w, b)
  BY <1>3 DEF Allows, Skips, Loses
<1>4. ASSUME NEW b \in Batch, NEW r \in work[w].todo, Sends(w, b, r)
      PROVE  \A m \in Reminder : sent'[m] = sent[m]
  <2> DEFINE mail == <<work[w].kind, r>>
  <2>1. mail \in Mail /\ sent' = [sent EXCEPT ![mail] = @ + 1]
    BY <1>4 DEF Sends
  <2> HIDE DEF mail
  <2>2. \A m \in Reminder : m \in Message /\ m # mail
    BY <2>1, ReminderIs
  <2> QED BY <2>1, <2>2 DEF TypeOK
<1> QED BY <1>1, <1>2, <1>3, <1>4 DEF MailStep

LEMMA ClaimedStep ==
    ASSUME TypeInv, ClaimedFirst, [Next]_vars
    PROVE  ClaimedFirst'
<1> USE DEF TypeInv
<1>0. TypeOK /\ (\A m \in Message : sent[m] \in Nat)
  BY DEF TypeOK
<1>1. ASSUME UNCHANGED <<sent, claims>>,
             \A s \in Scheduler : sched'[s].phase = "dispatch" => sched'[s] = sched[s]
      PROVE  ClaimedFirst'
  BY <1>1 DEF ClaimedFirst, RemindedOnce, Dispatching, Claimed
<1>2. CASE \/ Tick \/ Late \/ CorrectNotice \/ ParticipateAgain \/ UpdateEntry \/ AutoExclude
           \/ UNCHANGED vars
  <2>1. UNCHANGED <<sent, reminders>>
    BY <1>2, StatusChanges DEF Tick, Late, CorrectNotice, ChangeStatus, vars
  <2> QED BY <1>1, <2>1 DEF reminders
<1>3. CASE Downtime
  BY <1>1, <1>3 DEF Downtime, NoRun
<1>4. ASSUME NEW s \in Scheduler, SelectEntries(s) \/ Reconcile(s) \/ FinishRun(s)
      PROVE  ClaimedFirst'
  <2>1. UNCHANGED <<sent, claims>>
    BY <1>4 DEF SelectEntries, Reconcile, FinishRun
  <2>2. \A t \in Scheduler : sched'[t].phase = "dispatch" => sched'[t] = sched[t]
    <3>1. CASE SelectEntries(s)
      BY <1>0, <3>1, Selects DEF NoRun
    <3>2. CASE Reconcile(s)
      BY <1>0, <3>2, Reconciles
    <3>3. CASE FinishRun(s)
      BY <1>0, <3>3, Finishes DEF NoRun
    <3> QED BY <1>4, <3>1, <3>2, <3>3
  <2> QED BY <1>1, <2>1, <2>2
<1>5. ASSUME NEW s \in Scheduler, Claim(s)
      PROVE  ClaimedFirst'
  <2>1. PICK e \in Event : Claims(s, e)
    BY <1>0, <1>5, ClaimsOne
  <2>2. sent' = sent /\ sched[s].deadline \in Deadline
    BY <1>5 DEF Claim, TypeOK, Run
  <2>3. CASE Claimed(e, sched[s].deadline)
    BY <1>1, <2>1, <2>2, <2>3 DEF Claims, Claimed
  <2>4. CASE ~Claimed(e, sched[s].deadline)
    <3> DEFINE d == sched[s].deadline
    <3>1. \A a \in Event, b \in Deadline : Claimed(a, b)' <=> Claimed(a, b) \/ (a = e /\ b = d)
      BY <2>1 DEF Claims, Claimed
    <3>2. \A t \in Scheduler, a \in Event, b \in Deadline :
              Dispatching(t, a, b)' <=> \/ t # s /\ Dispatching(t, a, b)
                                        \/ t = s /\ a = e /\ b = d
      BY <2>1, <2>4 DEF Claims, Dispatching
    <3>3. \A t \in Scheduler : ~Dispatching(t, e, d)
      BY <2>2, <2>4 DEF ClaimedFirst
    <3>4. RemindedOnce'
      BY <2>2 DEF ClaimedFirst, RemindedOnce
    <3>5. \A a \in Event, b \in Deadline, c \in Contact :
              sent'[<<a, b, c>>] > 0 =>
                  Claimed(a, b)' /\ \A t \in Scheduler : ~Dispatching(t, a, b)'
      BY <2>2, <2>4, <3>1, <3>2 DEF ClaimedFirst
    <3>6. \A t \in Scheduler, a \in Event, b \in Deadline :
              Dispatching(t, a, b)' =>
                  Claimed(a, b)' /\ \A v \in Scheduler : Dispatching(v, a, b)' => v = t
      BY <3>1, <3>2, <3>3 DEF ClaimedFirst
    <3> QED BY <3>4, <3>5, <3>6 DEF ClaimedFirst
  <2> QED BY <2>3, <2>4
<1>6. ASSUME NEW s \in Scheduler, Dispatch(s)
      PROVE  ClaimedFirst'
  <2> DEFINE e == sched[s].event
             d == sched[s].deadline
  <2>1. PICK to \in SUBSET Contact : Dispatches(s, to)
    BY <1>0, <1>6, DispatchesAll
  <2>2. claims' = claims
    BY <1>6 DEF Dispatch
  <2>3. e \in Event /\ d \in Deadline /\ Dispatching(s, e, d)
    BY <2>1 DEF Dispatches, BatchShape, TypeOK, Run, Dispatching
  <2>4. \A t \in Scheduler, a \in Event, b \in Deadline :
            Dispatching(t, a, b)' <=> t # s /\ Dispatching(t, a, b)
    BY <2>1 DEF Dispatches, Dispatching
  <2>5. Claimed(e, d) /\ (\A t \in Scheduler : Dispatching(t, e, d) => t = s)
        /\ \A c \in Contact : ~(sent[<<e, d, c>>] > 0)
    BY <2>3 DEF ClaimedFirst
  <2>6. \A m \in Message : sent'[m] = sent[m] \/ (\E c \in Contact : m = <<e, d, c>>)
    BY <2>1 DEF Dispatches, Messages
  <2>7. \A c \in Contact : sent'[<<e, d, c>>] <= 1
    <3> SUFFICES ASSUME NEW c \in Contact PROVE sent'[<<e, d, c>>] <= 1
      OBVIOUS
    <3> DEFINE m == <<e, d, c>>
    <3>1. m \in Message
      BY <2>3, ReminderIs
    <3>2. sent[m] \in Nat /\ ~(sent[m] > 0)
      BY <1>0, <2>5, <3>1
    <3>3. sent'[m] = sent[m] \/ sent'[m] = sent[m] + 1
      BY <2>1, <3>1 DEF Dispatches
    <3> HIDE DEF m
    <3>4. sent'[m] <= 1
      BY <3>2, <3>3
    <3> QED BY <3>4 DEF m
  <2>8. RemindedOnce'
    <3>1. \A m \in Reminder : sent'[m] = sent[m] \/ sent'[m] <= 1
      BY <2>6, <2>7, ReminderIs
    <3> QED BY <3>1 DEF ClaimedFirst, RemindedOnce
  <2>9. \A a \in Event, b \in Deadline, c \in Contact :
            sent'[<<a, b, c>>] > 0 =>
                Claimed(a, b)' /\ \A t \in Scheduler : ~Dispatching(t, a, b)'
    <3> SUFFICES ASSUME NEW a \in Event, NEW b \in Deadline, NEW c \in Contact,
                        sent'[<<a, b, c>>] > 0
                 PROVE  Claimed(a, b)' /\ \A t \in Scheduler : ~Dispatching(t, a, b)'
      OBVIOUS
    <3>1. CASE sent'[<<a, b, c>>] = sent[<<a, b, c>>]
      <4>1. Claimed(a, b) /\ \A t \in Scheduler : ~Dispatching(t, a, b)
        BY <3>1 DEF ClaimedFirst
      <4> QED BY <2>2, <2>4, <4>1 DEF Claimed
    <3>2. CASE sent'[<<a, b, c>>] # sent[<<a, b, c>>]
      <4>1. a = e /\ b = d
        BY <2>6, <3>2, ReminderIs
      <4> QED BY <2>2, <2>4, <2>5, <4>1 DEF Claimed
    <3> QED BY <3>1, <3>2
  <2>10. \A t \in Scheduler, a \in Event, b \in Deadline :
             Dispatching(t, a, b)' =>
                 Claimed(a, b)' /\ \A v \in Scheduler : Dispatching(v, a, b)' => v = t
    BY <2>2, <2>4 DEF ClaimedFirst, Claimed
  <2> QED BY <2>8, <2>9, <2>10 DEF ClaimedFirst
<1>7. ASSUME NEW w \in Worker, MailNext(w)
      PROVE  ClaimedFirst'
  <2>1. \A m \in Reminder : sent'[m] = sent[m]
    BY <1>0, <1>7, MailSteps, MailSent
  <2>2. UNCHANGED <<claims, sched>>
    BY <1>0, <1>7, MailFrame DEF reminders
  <2>3. \A a \in Event, b \in Deadline, c \in Contact : sent'[<<a, b, c>>] = sent[<<a, b, c>>]
    BY <2>1, ReminderIs
  <2> QED BY <2>1, <2>2, <2>3 DEF ClaimedFirst, RemindedOnce, Dispatching, Claimed
<1> QED BY <1>2, <1>3, <1>4, <1>5, <1>6, <1>7 DEF Next, ScheduleNext

LEMMA InitClaimed == Init => ClaimedFirst
<1> SUFFICES ASSUME Init PROVE ClaimedFirst
  OBVIOUS
<1>1. \A m \in Message : sent[m] = 0
  BY DEF Init
<1>2. \A s \in Scheduler : sched[s].phase = "idle"
  BY DEF Init, NoRun
<1> QED BY <1>1, <1>2, ReminderIs DEF ClaimedFirst, RemindedOnce, Dispatching

-----------------------------------------------------------------------------
(* Reminders are not sent backwards *)

(* Deadline d was there from the start or before instant t. *)
KnownAt(d, t) == d \in first \/ t >= storedAt[d]

(* What the scheduler holds was stored when it read it, and has a snapshot no older. *)
SeenLater ==
    /\ NotRetroactive
    /\ storedAt[deadline] <= now
    /\ snapshot.at # None => KnownAt(snapshot.at, snapshot.seen)
    /\ \A s \in Scheduler :
           /\ sched[s].phase # "idle" => storedAt[sched[s].deadline] <= sched[s].at
           /\ sched[s].snapshot.at # None =>
                  KnownAt(sched[s].snapshot.at, sched[s].snapshot.seen)
           /\ \A e \in sched[s].todo :
                  KnownAt(sched[s].deadline, sched[s].deadline - Offset[e])

LEMMA NoRunIs ==
    /\ NoRun.phase = "idle" /\ NoRun.snapshot = NoSnapshot /\ NoRun.snapshot.at = None
    /\ NoRun.todo = {} /\ NoRun.deadline = AnyDeadline /\ NoRun.at = 0
BY DEF NoRun, NoSnapshot

LEMMA SeenStep ==
    ASSUME TypeInv, SeenLater, [Next]_vars
    PROVE  SeenLater'
<1> USE DEF TypeInv
<1>0. /\ TypeOK /\ now \in Nat
      /\ (\A d \in Deadline : d \in Int) /\ (\A e \in Event : Offset[e] \in Int)
      /\ \A d \in Deadline : storedAt[d] \in Int
      /\ \A s \in Scheduler : /\ sched[s] \in Run /\ sched[s].deadline \in Deadline
                              /\ sched[s].at \in Int /\ sched[s].todo \subseteq Event
                              /\ sched[s].snapshot \in Snapshot
      /\ \A x \in Snapshot : x.seen \in Int /\ (x.at # None => x.at \in Deadline)
      /\ claims \subseteq Event \X Deadline
  BY OffsetAssumption, BoundAssumption DEF TypeOK, Run, Snapshot, NoSnapshot
<1>1. ASSUME UNCHANGED <<storedAt, first, deadline>>, now' >= now, claims' = claims,
             snapshot' = snapshot,
             \A s \in Scheduler : sched'[s] = sched[s] \/ sched'[s] = NoRun
      PROVE  SeenLater'
  <2>1. \A d, t : KnownAt(d, t) => d \in first' \/ t >= storedAt'[d]
    BY <1>1 DEF KnownAt
  <2>2. NotRetroactive'
    BY <1>1 DEF SeenLater, NotRetroactive
  <2>3. storedAt'[deadline'] <= now'
    <3>1. now' \in Int /\ storedAt[deadline] \in Int /\ storedAt[deadline] <= now
      BY <1>0, <1>1, TypeStep DEF SeenLater, TypeOK
    <3> QED BY <1>0, <1>1, <3>1
  <2> QED BY <1>1, <2>1, <2>2, <2>3, NoRunIs DEF SeenLater, KnownAt
<1>2. CASE Tick \/ Late \/ ParticipateAgain \/ UpdateEntry \/ AutoExclude \/ UNCHANGED vars
  <2>1. UNCHANGED <<notice, reminders>> /\ (now' = now \/ now' = now + 1)
    BY <1>2, StatusChanges DEF Tick, Late, ChangeStatus, vars
  <2> QED BY <1>0, <1>1, <2>1 DEF notice, reminders
<1>3. CASE Downtime
  BY <1>0, <1>1, <1>3 DEF Downtime
<1>4. CASE CorrectNotice
  <2>1. UNCHANGED <<first, claims, snapshot, sched, now>>
    BY <1>4 DEF CorrectNotice, reminders
  <2>2. /\ deadline' \in Deadline /\ storedAt'[deadline'] <= now
        /\ \A d \in Deadline : storedAt'[d] <= storedAt[d] /\ storedAt'[d] \in Int
    <3>1. /\ deadline' \in Deadline /\ storedAt' \in [Deadline -> 0..(MaxTime + 1)]
          /\ storedAt'[deadline'] <= now /\ \A d \in Deadline : storedAt'[d] <= storedAt[d]
      BY <1>0, <1>4, Corrects
    <3>2. \A d \in Deadline : storedAt'[d] \in 0..(MaxTime + 1)
      BY <3>1
    <3> QED BY <3>1, <3>2
  <2>3. \A d \in Deadline, t \in Int : KnownAt(d, t) => d \in first' \/ t >= storedAt'[d]
    BY <1>0, <2>1, <2>2 DEF KnownAt
  <2>4. NotRetroactive'
    <3> SUFFICES ASSUME NEW c \in claims PROVE c[2] \in first' \/ c[2] - Offset[c[1]] >= storedAt'[c[2]]
      BY <2>1 DEF NotRetroactive
    <3>1. c[2] \in Deadline /\ c[1] \in Event
      BY <1>0
    <3>2. KnownAt(c[2], c[2] - Offset[c[1]])
      BY DEF SeenLater, NotRetroactive, KnownAt
    <3> QED BY <1>0, <2>3, <3>1, <3>2
  <2>5. ASSUME NEW s \in Scheduler
        PROVE  /\ sched[s].phase # "idle" => storedAt'[sched[s].deadline] <= sched[s].at
               /\ sched[s].snapshot.at # None =>
                      \/ sched[s].snapshot.at \in first'
                      \/ sched[s].snapshot.seen >= storedAt'[sched[s].snapshot.at]
               /\ \A e \in sched[s].todo :
                      \/ sched[s].deadline \in first'
                      \/ sched[s].deadline - Offset[e] >= storedAt'[sched[s].deadline]
    <3>1. sched[s].phase # "idle" => storedAt'[sched[s].deadline] <= sched[s].at
      BY <1>0, <2>2 DEF SeenLater
    <3>2. sched[s].snapshot.at # None =>
              \/ sched[s].snapshot.at \in first'
              \/ sched[s].snapshot.seen >= storedAt'[sched[s].snapshot.at]
      BY <1>0, <2>3 DEF SeenLater
    <3>3. \A e \in sched[s].todo :
              \/ sched[s].deadline \in first'
              \/ sched[s].deadline - Offset[e] >= storedAt'[sched[s].deadline]
      <4> SUFFICES ASSUME NEW e \in sched[s].todo
                   PROVE  \/ sched[s].deadline \in first'
                          \/ sched[s].deadline - Offset[e] >= storedAt'[sched[s].deadline]
        OBVIOUS
      <4>1. sched[s].deadline - Offset[e] \in Int /\ sched[s].deadline \in Deadline
        BY <1>0
      <4> QED BY <2>3, <4>1 DEF SeenLater
    <3> QED BY <3>1, <3>2, <3>3
  <2>6. snapshot.at # None => snapshot.at \in first' \/ snapshot.seen >= storedAt'[snapshot.at]
    BY <1>0, <2>3 DEF SeenLater, TypeOK
  <2> QED BY <2>1, <2>2, <2>4, <2>5, <2>6 DEF SeenLater, KnownAt
<1>5. ASSUME NEW s \in Scheduler, SelectEntries(s)
      PROVE  SeenLater'
  <2>1. UNCHANGED <<first, claims, snapshot, storedAt, deadline, now>>
    BY <1>5 DEF SelectEntries, notice
  <2>2. /\ sched'[s].deadline = deadline /\ sched'[s].at = now /\ sched'[s].snapshot = snapshot
        /\ sched'[s].todo = {}
        /\ \A t \in Scheduler \ {s} : sched'[t] = sched[t]
    BY <1>0, <1>5, Selects DEF NoRun
  <2> QED BY <2>1, <2>2 DEF SeenLater, KnownAt, NotRetroactive
<1>6. ASSUME NEW s \in Scheduler, Reconcile(s)
      PROVE  SeenLater'
  <2> DEFINE run == sched[s]
             seen == SeenBy(run)
  <2>1. UNCHANGED <<claims, storedAt, deadline, now>>
    BY <1>6 DEF Reconcile, notice
  <2>2. /\ run.phase = "selected" /\ seen \in 0..MaxTime
        /\ sched'[s].deadline = run.deadline /\ sched'[s].at = run.at
        /\ sched'[s].todo = Due(run, seen) /\ sched'[s].snapshot = NoSnapshot
        /\ \A t \in Scheduler \ {s} : sched'[t] = sched[t]
        /\ IF Known(run) /\ run.snapshot.at = run.deadline THEN snapshot' = snapshot
           ELSE snapshot' = [at |-> run.deadline, seen |-> seen]
        /\ first' = IF Known(run) THEN first ELSE first \cup {run.deadline}
    BY <1>0, <1>6, Reconciles
  <2>3. \A d, t : KnownAt(d, t) => KnownAt(d, t)'
    BY <2>1, <2>2 DEF KnownAt
  <2>4. run.deadline \in first' \/ seen >= storedAt[run.deadline]
    <3>1. CASE ~Known(run)
      BY <2>2, <3>1
    <3>2. CASE Known(run) /\ run.snapshot.at # run.deadline
      BY <1>0, <2>2, <3>2 DEF SeenBy, SeenLater
    <3>3. CASE Known(run) /\ run.snapshot.at = run.deadline
      BY <2>2, <3>3 DEF SeenBy, SeenLater, Known, KnownAt
    <3> QED BY <3>1, <3>2, <3>3
  <2>5. \A e \in Due(run, seen) : run.deadline - Offset[e] >= seen
    BY <1>0, <2>2, BoundAssumption DEF Due, Max2
  <2>6. \A e \in Due(run, seen) :
            run.deadline \in first' \/ run.deadline - Offset[e] >= storedAt[run.deadline]
    <3>1. \A e \in Due(run, seen) : e \in Event
      BY DEF Due
    <3>2. seen \in Int /\ run.deadline \in Int /\ storedAt[run.deadline] \in Int
      BY <1>0, <2>2
    <3> QED BY <1>0, <2>4, <2>5, <3>1, <3>2
  <2>7. snapshot'.at # None => KnownAt(snapshot.at, snapshot.seen)'
    <3>1. CASE snapshot' = snapshot
      BY <2>3, <3>1 DEF SeenLater, KnownAt
    <3>2. CASE snapshot' = [at |-> run.deadline, seen |-> seen]
      BY <2>1, <2>4, <3>2 DEF KnownAt
    <3> QED BY <2>2, <3>1, <3>2
  <2>8. NotRetroactive'
    BY <2>1, <2>2 DEF SeenLater, NotRetroactive
  <2>9. \A t \in Scheduler :
            /\ sched'[t].phase # "idle" => storedAt'[sched'[t].deadline] <= sched'[t].at
            /\ sched'[t].snapshot.at # None => KnownAt(sched[t].snapshot.at, sched[t].snapshot.seen)'
            /\ \A e \in sched'[t].todo : KnownAt(sched[t].deadline, sched[t].deadline - Offset[e])'
    <3>1. NoSnapshot.at = None
      BY DEF NoSnapshot
    <3> QED BY <2>1, <2>2, <2>3, <2>6, <3>1 DEF SeenLater, KnownAt
  <2> QED BY <2>1, <2>7, <2>8, <2>9 DEF SeenLater
<1>7. ASSUME NEW s \in Scheduler, Claim(s)
      PROVE  SeenLater'
  <2>1. PICK e \in Event : Claims(s, e)
    BY <1>0, <1>7, ClaimsOne
  <2>2. UNCHANGED <<snapshot, first, storedAt, deadline, now>>
    BY <1>7 DEF Claim, notice
  <2>3. KnownAt(sched[s].deadline, sched[s].deadline - Offset[e])
    BY <2>1 DEF Claims, SeenLater
  <2>4. NotRetroactive'
    BY <2>1, <2>2, <2>3 DEF Claims, SeenLater, NotRetroactive, KnownAt
  <2> QED BY <2>1, <2>2, <2>4 DEF Claims, SeenLater, KnownAt
<1>8. ASSUME NEW s \in Scheduler, Dispatch(s)
      PROVE  SeenLater'
  <2>1. PICK to \in SUBSET Contact : Dispatches(s, to)
    BY <1>0, <1>8, DispatchesAll
  <2>2. UNCHANGED <<claims, snapshot, first, storedAt, deadline, now>>
    BY <1>8 DEF Dispatch, notice
  <2> QED BY <2>1, <2>2 DEF Dispatches, SeenLater, KnownAt, NotRetroactive
<1>9. ASSUME NEW s \in Scheduler, FinishRun(s)
      PROVE  SeenLater'
  <2>1. UNCHANGED <<claims, snapshot, first, storedAt, deadline, now>>
    BY <1>9 DEF FinishRun, notice
  <2>2. \A t \in Scheduler : sched'[t] = sched[t] \/ sched'[t] = NoRun
    BY <1>0, <1>9, Finishes
  <2> QED BY <1>0, <1>1, <2>1, <2>2
<1>10. ASSUME NEW w \in Worker, MailNext(w)
       PROVE  SeenLater'
  <2>1. UNCHANGED <<claims, snapshot, first, storedAt, deadline, now, sched>>
    BY <1>0, <1>10, MailFrame DEF reminders
  <2> QED BY <1>0, <1>1, <2>1
<1> QED BY <1>2, <1>3, <1>4, <1>5, <1>6, <1>7, <1>8, <1>9, <1>10 DEF Next, ScheduleNext

LEMMA InitSeen == Init => SeenLater
<1> SUFFICES ASSUME Init PROVE SeenLater
  OBVIOUS
<1>1. snapshot.at = None /\ storedAt[deadline] = 0 /\ now = 0 /\ claims = {}
      /\ \A s \in Scheduler : sched[s] = NoRun
  BY DEF Init, NoSnapshot
<1> QED BY <1>1, NoRunIs DEF SeenLater, NotRetroactive

-----------------------------------------------------------------------------
(* No reminder is missed while the ticker is on time *)

(* All reminders of deadline d that fell due in the interval are claimed. *)
AllIn(claimed, d, from, to) ==
    \A e \in Event : Applies(e, d) /\ d - Offset[e] \in from..to => <<e, d>> \in claimed

(* The instant from which on nothing is missed: the deadline was seen and the entry   *)
(* prepared, which is at instant start, less the part of the grace period that is left *)
(* when the runs have settled.                                                         *)
Owed(seen, start) == Max2(seen, start + 5 - Grace)

(* A run in flight at instant t: it began at the last instant at the earliest, the     *)
(* snapshot is its own unless that was written, or the entry prepared, at most three   *)
(* instants before the run, and it has claimed or is going to claim all that is owed.  *)
(* The first run is two instants after the entry was prepared at the latest.           *)
RunFits(run, snap, t, start, claimed) ==
    /\ run.at <= t /\ t <= run.at + 1
    /\ run.phase = "selected" =>
        /\ IF run.snapshot.at = None THEN run.at <= start + 2 ELSE snap.at # None
        /\ run.at >= Max2(snap.seen, start) + 4 => run.snapshot = snap
        /\ run.snapshot.at = run.deadline =>
               AllIn(claimed, run.deadline, Owed(run.snapshot.seen, start), run.at - Grace - 1)
    /\ run.phase # "selected" =>
        /\ snap.at # None
        /\ run.at >= Max2(snap.seen, start) + 4 => run.deadline = snap.at /\ run.seen = snap.seen
        /\ \A e \in Event :
               Applies(e, run.deadline) /\ run.deadline - Offset[e] \in Owed(run.seen, start)..run.at =>
                   e \in run.todo \/ <<e, run.deadline>> \in claimed

(* The run that ended last was of this snapshot, unless that is new or the entry newly *)
(* prepared, and what the grace period no longer covers has been claimed.              *)
Punctual ==
    /\ since <= now /\ done.at <= now
    /\ preparing => now <= Max2(done.at, since) + 2
    /\ snapshot.at = None => done.at = 0
    /\ done.at >= Max2(snapshot.seen, since) + 4 =>
           done.deadline = snapshot.at /\ done.seen = snapshot.seen
    /\ AllIn(claims, done.deadline, Owed(done.seen, since), done.at)
    /\ preparing /\ snapshot.at # None =>
           AllIn(claims, snapshot.at, Owed(snapshot.seen, since), now - Grace - 1)
    /\ \A s \in Scheduler : sched[s].phase # "idle" => RunFits(sched[s], snapshot, now, since, claims)

OnTime == faults = 0 => Punctual

(* The runs of other schedulers do not notice claims nor an unchanged snapshot. *)
LEMMA MoreClaims ==
    ASSUME NEW run, NEW snap, NEW t, NEW start, NEW C, NEW D, C \subseteq D
    PROVE  /\ RunFits(run, snap, t, start, C) => RunFits(run, snap, t, start, D)
           /\ \A d, from, to : AllIn(C, d, from, to) => AllIn(D, d, from, to)
BY DEF RunFits, AllIn

(* A new snapshot is as new as the run that wrote it. *)
LEMMA NewSnapshot ==
    ASSUME NEW run \in Run, NEW t \in Int, NEW start \in Int, NEW C, NEW snap, NEW new \in Snapshot,
           RunFits(run, snap, t, start, C), new.at # None, t < Max2(new.seen, start) + 4
    PROVE  RunFits(run, new, t, start, C)
<1>1. run.at \in Int /\ run.at <= t /\ Max2(new.seen, start) \in Int
  BY BoundAssumption DEF RunFits, Run, Snapshot, NoSnapshot, Max2
<1>2. ~(run.at >= Max2(new.seen, start) + 4)
  BY <1>1
<1> QED BY <1>2 DEF RunFits

(* An entry that is prepared later is owed less. *)
LEMMA OwesLess ==
    ASSUME NEW x \in Int, NEW start \in Int, NEW later \in Int, start <= later
    PROVE  /\ Owed(x, start) \in Int /\ Owed(x, later) \in Int /\ Owed(x, start) <= Owed(x, later)
           /\ Max2(x, start) \in Int /\ Max2(x, later) \in Int /\ Max2(x, start) <= Max2(x, later)
           /\ x <= Owed(x, start) /\ start + 5 - Grace <= Owed(x, start)
           /\ x <= Max2(x, start) /\ start <= Max2(x, start)
BY BoundAssumption DEF Owed, Max2

LEMMA PreparedLater ==
    ASSUME NEW run \in Run, NEW snap \in Snapshot, NEW t \in Int, NEW C,
           NEW start \in Int, NEW later \in Int, start <= later,
           RunFits(run, snap, t, start, C)
    PROVE  RunFits(run, snap, t, later, C)
<1>1. /\ run.at \in Int /\ run.seen \in Int /\ run.snapshot \in Snapshot
      /\ run.deadline \in Deadline
  BY BoundAssumption DEF Run
<1>2. \A x \in Snapshot : x.seen \in Int
  BY BoundAssumption DEF Snapshot, NoSnapshot
<1>3. \A e \in Event : run.deadline - Offset[e] \in Int
  <2>1. \A d \in Deadline, e \in Event : d - Offset[e] \in Int
    BY OffsetAssumption
  <2> QED BY <1>1, <2>1
<1>4. /\ run.at <= start + 2 => run.at <= later + 2
      /\ run.at >= Max2(snap.seen, later) + 4 => run.at >= Max2(snap.seen, start) + 4
  BY <1>1, <1>2, OwesLess
<1>5. /\ \A e \in Event, y \in Int :
             /\ run.deadline - Offset[e] \in Owed(run.snapshot.seen, later)..y =>
                    run.deadline - Offset[e] \in Owed(run.snapshot.seen, start)..y
             /\ run.deadline - Offset[e] \in Owed(run.seen, later)..y =>
                    run.deadline - Offset[e] \in Owed(run.seen, start)..y
  <2>1. /\ Owed(run.snapshot.seen, start) <= Owed(run.snapshot.seen, later)
        /\ Owed(run.seen, start) <= Owed(run.seen, later)
        /\ Owed(run.snapshot.seen, start) \in Int /\ Owed(run.seen, start) \in Int
        /\ Owed(run.snapshot.seen, later) \in Int /\ Owed(run.seen, later) \in Int
    BY <1>1, <1>2, OwesLess
  <2> QED BY <1>3, <2>1
<1>6. run.at - Grace - 1 \in Int
  BY <1>1, BoundAssumption
<1>7. run.phase = "selected" =>
        /\ IF run.snapshot.at = None THEN run.at <= later + 2 ELSE snap.at # None
        /\ run.at >= Max2(snap.seen, later) + 4 => run.snapshot = snap
        /\ run.snapshot.at = run.deadline =>
               AllIn(C, run.deadline, Owed(run.snapshot.seen, later), run.at - Grace - 1)
  BY <1>4, <1>5, <1>6 DEF RunFits, AllIn
<1>8. run.phase # "selected" =>
        /\ snap.at # None
        /\ run.at >= Max2(snap.seen, later) + 4 => run.deadline = snap.at /\ run.seen = snap.seen
        /\ \A e \in Event :
               Applies(e, run.deadline) /\ run.deadline - Offset[e] \in Owed(run.seen, later)..run.at =>
                   e \in run.todo \/ <<e, run.deadline>> \in C
  BY <1>1, <1>4, <1>5 DEF RunFits
<1>9. run.at <= t /\ t <= run.at + 1
  BY DEF RunFits
<1> QED BY <1>7, <1>8, <1>9 DEF RunFits

LEMMA SnapshotIs ==
    ASSUME NEW x \in Snapshot
    PROVE  /\ x.seen \in 0..MaxTime /\ x.seen \in Int /\ x.seen >= 0
           /\ x.at # None => x.at \in Deadline
<1>1. x.seen \in 0..MaxTime
  BY BoundAssumption DEF Snapshot, NoSnapshot
<1>2. x.at # None => x.at \in Deadline
  BY DEF Snapshot, NoSnapshot
<1> QED BY <1>1, <1>2, BoundAssumption

LEMMA OnTimeStep ==
    ASSUME TypeInv, OnTime, [Next]_vars
    PROVE  OnTime'
<1> USE DEF TypeInv
<1> SUFFICES ASSUME faults' = 0 PROVE Punctual'
  BY DEF OnTime
<1>0. /\ TypeOK /\ now \in Int /\ done.at \in Int /\ done.seen \in Int /\ Grace \in Int
      /\ (\A d \in Deadline : d \in Int) /\ (\A e \in Event : Offset[e] \in Int)
      /\ done.deadline \in Deadline /\ snapshot \in Snapshot /\ snapshot.seen \in Int
      /\ snapshot.seen >= 0 /\ now >= 0 /\ since \in Int /\ since >= 0
  BY OffsetAssumption, BoundAssumption, SnapshotIs DEF TypeOK, Done
<1>s. \A s \in Scheduler : /\ sched[s] \in Run /\ sched[s].deadline \in Deadline
                           /\ sched[s].at \in 0..MaxTime /\ sched[s].at \in Int
                           /\ sched[s].todo \subseteq Event
                           /\ sched[s].snapshot \in Snapshot /\ sched[s].seen \in Int
  BY BoundAssumption DEF TypeOK, Run
<1>m. /\ \A x \in Int : /\ Owed(x, since) \in Int /\ Max2(x, since) \in Int
                        /\ x <= Owed(x, since) /\ since + 5 - Grace <= Owed(x, since)
                        /\ x <= Max2(x, since) /\ since <= Max2(x, since)
      /\ \A x \in Int : Max2(x, since) = x \/ Max2(x, since) = since
  <2>1. \A x \in Int : Max2(x, since) = x \/ Max2(x, since) = since
    BY DEF Max2
  <2>2. since <= since
    BY <1>0
  <2> QED BY <1>0, <2>1, <2>2, OwesLess
<1>1. ASSUME UNCHANGED <<now, status, snapshot, claims, sched, done>>, faults = 0
      PROVE  Punctual'
  BY <1>1 DEF OnTime, Punctual, status, preparing
<1>2. CASE Tick
  <2>1. /\ preparing => Max2(done.at, since) >= now - 1
        /\ now' = now + 1
        /\ \A s \in Scheduler : sched[s].phase # "idle" => sched[s].at = now
        /\ UNCHANGED <<stage, since, snapshot, claims, sched, done>>
        /\ Punctual
    BY <1>2 DEF Tick, Timely, status, reminders, OnTime
  <2>2. preparing /\ snapshot.at # None =>
            AllIn(claims, snapshot.at, Owed(snapshot.seen, since), now - Grace)
    <3> SUFFICES ASSUME preparing, snapshot.at # None, NEW e \in Event, Applies(e, snapshot.at),
                        snapshot.at - Offset[e] \in Owed(snapshot.seen, since)..(now - Grace)
                 PROVE  <<e, snapshot.at>> \in claims
      BY DEF AllIn
    <3> DEFINE t == snapshot.at - Offset[e]
    <3>1. snapshot.at \in Int /\ t \in Int
      BY <1>0, SnapshotIs
    <3>2. CASE t <= now - Grace - 1
      BY <1>0, <1>m, <2>1, <3>1, <3>2 DEF Punctual, AllIn
    <3>3. CASE t = now - Grace
      <4>1. t >= snapshot.seen /\ t >= since + 5 - Grace
        BY <1>0, <1>m, <3>1
      <4>2. now >= since + 5 /\ now >= snapshot.seen + 5
        BY <1>0, <3>3, <4>1, GraceAssumption
      <4>3. done.at >= now - 1
        BY <1>0, <1>m, <2>1, <4>2
      <4>4. done.at >= Max2(snapshot.seen, since) + 4
        BY <1>0, <1>m, <4>2, <4>3
      <4>5. done.deadline = snapshot.at /\ done.seen = snapshot.seen
        BY <2>1, <4>4 DEF Punctual
      <4>6. t <= done.at
        BY <1>0, <3>3, <4>3, GraceAssumption
      <4>7. t \in Owed(done.seen, since)..done.at
        BY <1>0, <1>m, <3>1, <4>5, <4>6
      <4> QED BY <2>1, <4>5, <4>7 DEF Punctual, AllIn
    <3> QED BY <1>0, <1>m, <3>1, <3>2, <3>3
  <2>3. \A s \in Scheduler : sched[s].phase # "idle" => RunFits(sched[s], snapshot, now', since, claims)
    BY <1>0, <1>s, <2>1 DEF Punctual, RunFits
  <2>4. now' - Grace - 1 = now - Grace /\ done.at <= now' /\ since <= now'
    BY <1>0, <2>1 DEF Punctual
  <2>5. preparing => now' <= Max2(done.at, since) + 2
    BY <1>0, <1>m, <2>1
  <2> QED BY <2>1, <2>2, <2>3, <2>4, <2>5 DEF Punctual, preparing
<1>3. CASE Late \/ Downtime
  <2>1. faults \in Nat
    BY <1>0, BoundAssumption DEF TypeOK
  <2>2. Late \/ Downtime => faults' = faults + 1
    BY DEF Late, Downtime
  <2> QED BY <1>3, <2>1, <2>2
<1>4. CASE CorrectNotice \/ UNCHANGED vars
  BY <1>1, <1>4 DEF CorrectNotice, reminders, vars
<1>p. CASE ParticipateAgain \/ UpdateEntry \/ AutoExclude
  <2>1. PICK to \in Stage : ChangeStatus(to)
    BY <1>p, StatusChanges
  <2>2. UNCHANGED <<now, snapshot, claims, sched, done, faults>> /\ Punctual
    BY <2>1 DEF ChangeStatus, reminders, OnTime
  <2>3. IF to = "preparing" THEN since' = now /\ stage' = to ELSE since' = since /\ stage' = to
    BY <2>1 DEF ChangeStatus
  <2>4. since' \in Int /\ since <= since' /\ since' <= now
    BY <1>0, <2>2, <2>3 DEF Punctual
  <2>5. \A x \in Int : /\ Owed(x, since) <= Owed(x, since') /\ Owed(x, since') \in Int
                       /\ Max2(x, since) <= Max2(x, since') /\ Max2(x, since') \in Int
                       /\ since' + 5 - Grace <= Owed(x, since') /\ since' <= Max2(x, since')
    BY <1>0, <2>4, OwesLess
  <2>6. to = "preparing" => now <= Max2(done.at, since') + 2
    BY <1>0, <2>3, <2>5
  <2>7. done.at >= Max2(snapshot.seen, since') + 4 =>
            done.deadline = snapshot.at /\ done.seen = snapshot.seen
    BY <1>0, <1>m, <2>2, <2>5 DEF Punctual
  <2>8. AllIn(claims, done.deadline, Owed(done.seen, since'), done.at)
    <3>1. \A e \in Event : done.deadline - Offset[e] \in Owed(done.seen, since')..done.at =>
              done.deadline - Offset[e] \in Owed(done.seen, since)..done.at
      BY <1>0, <1>m, <2>5
    <3> QED BY <2>2, <3>1 DEF Punctual, AllIn
  <2>9. to = "preparing" => AllIn(claims, snapshot.at, Owed(snapshot.seen, since'), now - Grace - 1)
    <3>1. to = "preparing" => \A t : t \notin Owed(snapshot.seen, since')..(now - Grace - 1)
      BY <1>0, <2>3, <2>5
    <3> QED BY <3>1 DEF AllIn
  <2>10. \A s \in Scheduler : sched[s].phase # "idle" => RunFits(sched[s], snapshot, now, since', claims)
    BY <1>0, <1>s, <2>2, <2>4, PreparedLater DEF Punctual
  <2>11. preparing' => to = "preparing"
    BY <2>3 DEF preparing
  <2>12. /\ preparing' => now <= Max2(done.at, since') + 2
         /\ preparing' /\ snapshot.at # None =>
                AllIn(claims, snapshot.at, Owed(snapshot.seen, since'), now - Grace - 1)
    BY <2>6, <2>9, <2>11
  <2> QED BY <2>2, <2>4, <2>7, <2>8, <2>10, <2>12 DEF Punctual
<1>5. ASSUME NEW w \in Worker, MailNext(w)
      PROVE  Punctual'
  <2>1. UNCHANGED <<now, stage, since, reminders>>
    BY <1>0, <1>5, MailFrame
  <2>2. faults \in Nat /\ faults <= faults'
    BY <1>0, <1>5, MailSteps, MailTypes, BoundAssumption DEF TypeOK
  <2>3. faults = 0
    BY <2>2
  <2> QED BY <2>1, <2>3 DEF reminders, OnTime, Punctual, preparing
<1>6. ASSUME NEW s \in Scheduler, SelectEntries(s)
      PROVE  Punctual'
  <2>1. /\ UNCHANGED <<now, stage, since, snapshot, claims, done>> /\ Punctual /\ preparing
    BY <1>6 DEF SelectEntries, status, OnTime
  <2>2. /\ sched'[s].phase = "selected" /\ sched'[s].at = now /\ sched'[s].deadline = deadline
        /\ sched'[s].snapshot = snapshot /\ \A t \in Scheduler \ {s} : sched'[t] = sched[t]
    BY <1>0, <1>6, Selects DEF NoRun
  <2>3. snapshot.at = None => now <= since + 2
    BY <1>0, <1>m, <2>1 DEF Punctual
  <2>4. snapshot.at = deadline => AllIn(claims, deadline, Owed(snapshot.seen, since), now - Grace - 1)
    BY <2>1, <1>0, NoneAssumption DEF Punctual, TypeOK
  <2>5. RunFits(sched'[s], snapshot, now, since, claims)
    BY <1>0, <2>2, <2>3, <2>4 DEF RunFits
  <2> QED BY <2>1, <2>2, <2>5 DEF Punctual, preparing
<1>7. ASSUME NEW s \in Scheduler, Reconcile(s)
      PROVE  Punctual'
  <2> DEFINE run == sched[s]
             seen == SeenBy(run)
  <2>1. UNCHANGED <<now, stage, since, claims, done>> /\ Punctual
    BY <1>7 DEF Reconcile, status, OnTime
  <2>2. /\ run.phase = "selected" /\ seen \in 0..MaxTime
        /\ sched'[s].phase = "firing" /\ sched'[s].deadline = run.deadline
        /\ sched'[s].at = run.at /\ sched'[s].seen = seen
        /\ sched'[s].todo = Due(run, seen)
        /\ \A t \in Scheduler \ {s} : sched'[t] = sched[t]
        /\ snapshot' \in Snapshot
        /\ IF Known(run) /\ run.snapshot.at = run.deadline THEN snapshot' = snapshot
           ELSE snapshot' = [at |-> run.deadline, seen |-> seen]
    BY <1>0, <1>7, Reconciles
  <2>3. RunFits(run, snapshot, now, since, claims) /\ seen \in Int
    BY <2>1, <2>2 DEF Punctual
  <2>4. run.at \in Int /\ run.deadline \in Int /\ run.deadline # None
        /\ (\A e \in Event : run.deadline - Offset[e] \in Int)
        /\ run.snapshot.seen \in Int
    BY <1>0, <1>s, NoneAssumption, SnapshotIs
  <2>5. \A e \in Event :
            Applies(e, run.deadline) /\ run.deadline - Offset[e] \in Owed(seen, since)..run.at =>
                e \in Due(run, seen) \/ <<e, run.deadline>> \in claims
    <3> SUFFICES ASSUME NEW e \in Event, Applies(e, run.deadline),
                        run.deadline - Offset[e] \in Owed(seen, since)..run.at
                 PROVE  e \in Due(run, seen) \/ <<e, run.deadline>> \in claims
      OBVIOUS
    <3> DEFINE t == run.deadline - Offset[e]
    <3>1. t \in Int /\ seen <= t /\ t <= run.at /\ since + 5 - Grace <= t
      BY <1>0, <1>m, <2>3, <2>4
    <3>2. CASE run.at - Grace <= t
      BY <1>0, <2>3, <2>4, <3>1, <3>2 DEF Due, Max2
    <3>3. CASE ~(run.at - Grace <= t)
      <4>1. t <= run.at - Grace - 1
        BY <1>0, <2>4, <3>1, <3>3
      <4>2. run.at <= now /\ ~(run.at <= since + 2) /\ seen # run.at
        BY <1>0, <2>2, <2>3, <2>4, <3>1, <4>1, GraceAssumption DEF RunFits
      <4>3. Known(run) /\ run.snapshot.at = run.deadline /\ seen = run.snapshot.seen
        BY <2>2, <2>3, <4>2 DEF RunFits, Known, SeenBy
      <4>4. AllIn(claims, run.deadline, Owed(run.snapshot.seen, since), run.at - Grace - 1)
        BY <2>2, <2>3, <4>3 DEF RunFits
      <4>5. t \in Owed(run.snapshot.seen, since)..(run.at - Grace - 1)
        BY <1>0, <1>m, <2>4, <3>1, <4>1, <4>3
      <4> QED BY <4>4, <4>5 DEF AllIn
    <3> QED BY <3>2, <3>3
  <2>6. CASE Known(run) /\ run.snapshot.at = run.deadline
    <3>1. snapshot' = snapshot /\ seen = run.snapshot.seen /\ snapshot.at # None
      BY <2>2, <2>3, <2>6 DEF SeenBy, RunFits, Known
    <3>2. run.at >= Max2(snapshot.seen, since) + 4 =>
              run.deadline = snapshot.at /\ seen = snapshot.seen
      BY <2>2, <2>3, <2>6, <3>1 DEF RunFits
    <3>3. RunFits(sched'[s], snapshot, now, since, claims)
      BY <2>2, <2>3, <2>5, <3>1, <3>2 DEF RunFits
    <3> QED BY <2>1, <2>2, <3>1, <3>3 DEF Punctual, preparing
  <2>7. CASE ~(Known(run) /\ run.snapshot.at = run.deadline)
    <3>1. /\ snapshot' = [at |-> run.deadline, seen |-> seen]
          /\ IF Known(run) THEN seen = run.at ELSE seen = 0 /\ run.at <= since + 2
      BY <2>2, <2>3, <2>7 DEF SeenBy, RunFits, Known
    <3>2. snapshot'.at = run.deadline /\ snapshot'.seen = seen
          /\ (now < seen + 4 \/ now < since + 4)
      BY <1>0, <2>2, <2>3, <2>4, <3>1 DEF RunFits
    <3>3. now < Max2(seen, since) + 4
      BY <1>0, <1>m, <2>3, <3>2
    <3>4. \A t \in Scheduler \ {s} :
              sched[t].phase # "idle" => RunFits(sched[t], snapshot', now, since, claims)
      BY <1>0, <1>s, <2>1, <2>2, <2>4, <3>2, <3>3, NewSnapshot DEF Punctual
    <3>5. ~(run.at >= Max2(seen, since) + 4) /\ ~(done.at >= Max2(seen, since) + 4)
      BY <1>0, <1>m, <2>1, <2>3, <2>4, <3>3 DEF RunFits, Punctual
    <3>6. RunFits(sched'[s], snapshot', now, since, claims)
      BY <1>0, <2>2, <2>3, <2>4, <2>5, <3>2, <3>5 DEF RunFits
    <3>7. AllIn(claims, snapshot'.at, Owed(seen, since), now - Grace - 1)
      <4>1. \A t \in Int : t \notin Owed(seen, since)..(now - Grace - 1)
        BY <1>0, <1>m, <2>3, <3>2, GraceAssumption
      <4> QED BY <2>4, <3>2, <4>1 DEF AllIn
    <3> QED BY <2>1, <2>2, <2>4, <3>2, <3>4, <3>5, <3>6, <3>7 DEF Punctual, preparing
  <2> QED BY <2>6, <2>7
<1>8. ASSUME NEW s \in Scheduler, Claim(s)
      PROVE  Punctual'
  <2>1. UNCHANGED <<now, stage, since, snapshot, done>> /\ Punctual
    BY <1>8 DEF Claim, status, OnTime
  <2>2. PICK e \in Event : Claims(s, e)
    BY <1>0, <1>8, ClaimsOne
  <2>3. claims \subseteq claims'
    BY <2>2 DEF Claims
  <2>4. RunFits(sched'[s], snapshot, now, since, claims')
    <3>1. sched[s].phase = "firing" /\ RunFits(sched[s], snapshot, now, since, claims)
      BY <2>1, <2>2 DEF Punctual, Claims
    <3> QED BY <2>2, <3>1 DEF Claims, RunFits
  <2>5. \A t \in Scheduler \ {s} :
            sched[t].phase # "idle" => RunFits(sched[t], snapshot, now, since, claims')
    BY <2>1, <2>3, MoreClaims DEF Punctual
  <2>6. /\ AllIn(claims', done.deadline, Owed(done.seen, since), done.at)
        /\ preparing /\ snapshot.at # None =>
               AllIn(claims', snapshot.at, Owed(snapshot.seen, since), now - Grace - 1)
    BY <2>1, <2>3, MoreClaims DEF Punctual
  <2> QED BY <2>1, <2>2, <2>4, <2>5, <2>6 DEF Punctual, Claims, preparing
<1>9. ASSUME NEW s \in Scheduler, Dispatch(s)
      PROVE  Punctual'
  <2>1. PICK to \in SUBSET Contact : Dispatches(s, to)
    BY <1>0, <1>9, DispatchesAll
  <2>2. faults = 0
    BY <1>0, <2>1, BoundAssumption DEF Dispatches, TypeOK
  <2>3. UNCHANGED <<now, stage, since, snapshot, claims, done>> /\ Punctual
    BY <1>9, <2>2 DEF Dispatch, status, OnTime
  <2>4. RunFits(sched'[s], snapshot, now, since, claims)
    <3>1. sched[s].phase = "dispatch" /\ RunFits(sched[s], snapshot, now, since, claims)
      BY <2>1, <2>3 DEF Punctual, Dispatches
    <3> QED BY <2>1, <3>1 DEF Dispatches, RunFits
  <2> QED BY <2>1, <2>3, <2>4 DEF Punctual, Dispatches, preparing
<1>10. ASSUME NEW s \in Scheduler, FinishRun(s)
       PROVE  Punctual'
  <2>1. UNCHANGED <<now, stage, since, snapshot, claims>> /\ Punctual
    BY <1>10 DEF FinishRun, status, OnTime
  <2>2. /\ sched'[s] = NoRun /\ \A t \in Scheduler \ {s} : sched'[t] = sched[t]
        /\ done'.at = sched[s].at /\ done'.deadline = sched[s].deadline
        /\ done'.seen = sched[s].seen
        /\ sched[s].phase = "firing" /\ sched[s].todo = {}
    BY <1>0, <1>10, Finishes
  <2>3. RunFits(sched[s], snapshot, now, since, claims)
    BY <2>1, <2>2 DEF Punctual
  <2>4. done'.at <= now /\ now <= done'.at + 1 /\ snapshot.at # None /\ done'.at \in Int
    BY <1>0, <1>s, <2>2, <2>3 DEF RunFits
  <2>5. now <= Max2(done'.at, since) + 2
    BY <1>0, <1>m, <2>4
  <2>6. AllIn(claims, done'.deadline, Owed(done'.seen, since), done'.at)
    BY <2>2, <2>3 DEF RunFits, AllIn
  <2>7. done'.at >= Max2(snapshot.seen, since) + 4 =>
            done'.deadline = snapshot.at /\ done'.seen = snapshot.seen
    BY <2>2, <2>3 DEF RunFits
  <2> QED BY <2>1, <2>2, <2>4, <2>5, <2>6, <2>7, NoRunIs DEF Punctual, preparing
<1> QED BY <1>2, <1>3, <1>4, <1>p, <1>5, <1>6, <1>7, <1>8, <1>9, <1>10 DEF Next, ScheduleNext

LEMMA InitOnTime == Init => OnTime
<1> SUFFICES ASSUME Init PROVE Punctual
  BY DEF OnTime
<1>1. /\ done.at = 0 /\ done.seen = MaxTime + 1 /\ now = 0 /\ snapshot.at = None /\ since = 0
      /\ snapshot.seen = 0 /\ \A s \in Scheduler : sched[s] = NoRun
  BY DEF Init, NothingDone, NoSnapshot
<1>2. MaxTime + 1 <= Owed(MaxTime + 1, 0) /\ Owed(MaxTime + 1, 0) \in Int /\ MaxTime \in Nat
  BY BoundAssumption DEF Owed, Max2
<1>3. \A t : t \notin Owed(MaxTime + 1, 0)..0
  BY <1>2
<1>4. Max2(0, 0) = 0
  BY DEF Max2
<1> QED BY <1>1, <1>3, <1>4, NoRunIs DEF Punctual, AllIn

-----------------------------------------------------------------------------
(* E-mails: what a batch may still send *)

(* A report is stored before it is sent: one batch has it, and each recipient once. *)
ReportsOnce ==
    /\ \A m \in Member : sent[<<"report", m>>] <= 1
    /\ ~reported => \A m \in Member : sent[<<"report", m>>] = 0
    /\ \A w \in Worker : work[w].kind = "report" =>
        /\ reported
        /\ \A m \in work[w].todo : sent[<<"report", m>>] = 0
        /\ \A v \in Worker : work[v].kind = "report" => v = w

(* The batches that may still send a message; without its row it was only sent by faults. *)
WaitingIn(batch, m) == {w \in Worker : batch[w].kind = m[1] /\ m[2] \in batch[w].todo}

RepeatsCounted ==
    \A m \in Mail :
        /\ sent[m] + Cardinality(WaitingIn(work, m)) <= Cardinality(Worker) + faults
        /\ m[1] # "report" /\ m \notin logged => sent[m] <= faults

(* The messages of batches that have read the count, one by one. *)
PendingIn(batch) ==
    {p \in Worker \X (Contact \cup Member) :
        /\ batch[p[1]].kind \in Counted /\ batch[p[1]].allowed
        /\ p[2] \in batch[p[1]].todo}

WithinQuota == UsedQuota + Cardinality(PendingIn(work)) <= Allowance

MailInv == ReportsOnce /\ RepeatsCounted /\ WithinQuota

LEMMA Counts ==
    /\ Cardinality(Worker) \in Nat /\ Cardinality(Contact) \in Nat /\ Cardinality(Member) \in Nat
    /\ Largest \in Nat /\ Cardinality(Contact) <= Largest /\ Cardinality(Member) <= Largest
    /\ Cardinality(Worker) * Largest \in Nat /\ Quota - 1 \in Nat
<1>1. Cardinality(Worker) \in Nat /\ Cardinality(Contact) \in Nat /\ Cardinality(Member) \in Nat
  BY RecipientAssumption, FS_CardinalityType
<1>2. Largest \in Nat /\ Cardinality(Contact) <= Largest /\ Cardinality(Member) <= Largest
  BY <1>1 DEF Largest, Max2
<1>3. \A a, b \in Nat : a * b \in Nat
  OBVIOUS
<1> QED BY <1>1, <1>2, <1>3, QuotaAssumption

LEMMA FiniteMail ==
    /\ IsFiniteSet(CountedMail)
    /\ \A S : IsFiniteSet(S \cap CountedMail) /\ Cardinality(S \cap CountedMail) \in Nat
    /\ IsFiniteSet(Worker \X (Contact \cup Member))
<1>1. IsFiniteSet(Contact \cup Member)
  BY RecipientAssumption, FS_Union
<1>2. IsFiniteSet(Counted)
  <2>1. Counted = {"status", "digest"} \cup {"saved", "report"}
    BY DEF Counted
  <2>2. {"status", "digest"} = ({} \cup {"status"}) \cup {"digest"}
        /\ {"saved", "report"} = ({} \cup {"saved"}) \cup {"report"}
    OBVIOUS
  <2>3. IsFiniteSet({"status", "digest"}) /\ IsFiniteSet({"saved", "report"})
    <3>1. IsFiniteSet({} \cup {"status"}) /\ IsFiniteSet({} \cup {"saved"})
      BY FS_EmptySet, FS_AddElement
    <3>2. IsFiniteSet(({} \cup {"status"}) \cup {"digest"}) /\ IsFiniteSet(({} \cup {"saved"}) \cup {"report"})
      BY <3>1, FS_AddElement
    <3> QED BY <2>2, <3>2
  <2> QED BY <2>1, <2>3, FS_Union
<1>3. IsFiniteSet(Counted \X (Contact \cup Member)) /\ IsFiniteSet(Worker \X (Contact \cup Member))
  BY <1>1, <1>2, RecipientAssumption, FS_Product
<1>4. CountedMail \subseteq Counted \X (Contact \cup Member)
  BY DEF CountedMail, Recipients
<1>5. IsFiniteSet(CountedMail)
  BY <1>3, <1>4, FS_Subset
<1>6. \A S : IsFiniteSet(S \cap CountedMail)
  <2>1. \A S : S \cap CountedMail \subseteq CountedMail
    OBVIOUS
  <2> QED BY <1>5, <2>1, FS_Subset
<1> QED BY <1>3, <1>5, <1>6, FS_CardinalityType

LEMMA FiniteCounts ==
    ASSUME NEW batch
    PROVE  /\ IsFiniteSet(PendingIn(batch)) /\ Cardinality(PendingIn(batch)) \in Nat
           /\ \A m : /\ IsFiniteSet(WaitingIn(batch, m))
                     /\ Cardinality(WaitingIn(batch, m)) \in Nat
                     /\ Cardinality(WaitingIn(batch, m)) <= Cardinality(Worker)
<1>1. PendingIn(batch) \subseteq Worker \X (Contact \cup Member)
  BY DEF PendingIn
<1>2. \A m : WaitingIn(batch, m) \subseteq Worker
  BY DEF WaitingIn
<1>3. IsFiniteSet(PendingIn(batch)) /\ Cardinality(PendingIn(batch)) \in Nat
  BY <1>1, FiniteMail, FS_Subset, FS_CardinalityType
<1>4. \A m : /\ IsFiniteSet(WaitingIn(batch, m)) /\ Cardinality(WaitingIn(batch, m)) \in Nat
             /\ Cardinality(WaitingIn(batch, m)) <= Cardinality(Worker)
  BY <1>2, RecipientAssumption, FS_Subset, FS_CardinalityType
<1> QED BY <1>3, <1>4

(* A set of at most Largest recipients can be numbered. *)
LEMMA Numbered ==
    ASSUME NEW S, IsFiniteSet(S), Cardinality(S) <= Largest
    PROVE  \E f : /\ f \in [S -> 1..Largest]
                  /\ \A x, y \in S : f[x] = f[y] => x = y
<1>1. Cardinality(S) \in Nat /\ Largest \in Nat
  BY FS_CardinalityType, Counts
<1>2. ExistsBijection(1..Cardinality(S), S)
  BY FS_CardinalityType
<1>3. PICK g : g \in Bijection(1..Cardinality(S), S)
  BY <1>2 DEF ExistsBijection
<1>4. \A x \in S : \E i \in 1..Cardinality(S) : g[i] = x
  BY <1>3 DEF Bijection, Surjection
<1> DEFINE f == [x \in S |-> CHOOSE i \in 1..Cardinality(S) : g[i] = x]
<1>5. \A x \in S : f[x] \in 1..Cardinality(S) /\ g[f[x]] = x
  BY <1>4
<1>6. f \in [S -> 1..Largest]
  BY <1>1, <1>5
<1>7. \A x, y \in S : f[x] = f[y] => x = y
  BY <1>5
<1> QED BY <1>6, <1>7

LEMMA PendingFits ==
    ASSUME NEW batch, \A w \in Worker : batch[w].allowed => batch[w].todo \subseteq Recipients(batch[w].kind)
    PROVE  Cardinality(PendingIn(batch)) <= Cardinality(Worker) * Largest
<1> DEFINE P == PendingIn(batch)
           Slots == Worker \X (1..Largest)
<1>1. PICK f : f \in [Contact -> 1..Largest] /\ \A x, y \in Contact : f[x] = f[y] => x = y
  BY Numbered, RecipientAssumption, Counts
<1>2. PICK g : g \in [Member -> 1..Largest] /\ \A x, y \in Member : g[x] = g[y] => x = y
  BY Numbered, RecipientAssumption, Counts
<1> DEFINE Number(w, r) == IF batch[w].kind \in {"digest", "report"} THEN g[r] ELSE f[r]
           h == [p \in P |-> <<p[1], Number(p[1], p[2])>>]
<1>3. \A p \in P : /\ p = <<p[1], p[2]>> /\ p[1] \in Worker
                   /\ p[2] \in Recipients(batch[p[1]].kind)
  BY DEF PendingIn
<1>4. \A p \in P : Number(p[1], p[2]) \in 1..Largest
  BY <1>1, <1>2, <1>3 DEF Recipients
<1>5. \A p, q \in P : p[1] = q[1] /\ Number(p[1], p[2]) = Number(q[1], q[2]) => p[2] = q[2]
  BY <1>1, <1>2, <1>3 DEF Recipients
<1> HIDE DEF P, Number
<1>6. h \in [P -> Slots]
  BY <1>3, <1>4
<1>7. \A p, q \in P : h[p] = h[q] => p = q
  <2> SUFFICES ASSUME NEW p \in P, NEW q \in P, h[p] = h[q] PROVE p = q
    OBVIOUS
  <2>1. <<p[1], Number(p[1], p[2])>> = <<q[1], Number(q[1], q[2])>>
    OBVIOUS
  <2>2. p[1] = q[1] /\ Number(p[1], p[2]) = Number(q[1], q[2])
    BY <2>1
  <2>3. p[2] = q[2]
    BY <1>5, <2>2
  <2> QED BY <1>3, <2>2, <2>3
<1> HIDE DEF h, Slots
<1>8. h \in Injection(P, Slots)
  BY <1>6, <1>7 DEF Injection, IsInjective
<1> USE DEF Slots
<1>9. Largest \in Int /\ 1 \in Int /\ Largest >= 0
  BY Counts
<1>10. IsFiniteSet(1..Largest) /\ Cardinality(1..Largest) = Largest
  BY <1>9, FS_Interval
<1>11. IsFiniteSet(Slots) /\ Cardinality(Slots) = Cardinality(Worker) * Largest
  BY <1>10, FS_Product, RecipientAssumption
<1>12. Cardinality(P) <= Cardinality(Slots)
  BY <1>8, <1>11, FS_Injection
<1> QED BY <1>11, <1>12 DEF P

(* A smaller set counts less, and one without an element of the first one less. *)
LEMMA Smaller ==
    ASSUME NEW S, IsFiniteSet(S), NEW T, T \subseteq S
    PROVE  /\ Cardinality(T) \in Nat /\ Cardinality(S) \in Nat /\ Cardinality(T) <= Cardinality(S)
           /\ \A x \in S \ T : Cardinality(T) <= Cardinality(S) - 1
<1>1. IsFiniteSet(T) /\ Cardinality(T) <= Cardinality(S)
  BY FS_Subset
<1>2. Cardinality(T) \in Nat /\ Cardinality(S) \in Nat
  BY <1>1, FS_CardinalityType
<1>3. ASSUME NEW x \in S \ T
      PROVE  Cardinality(T) <= Cardinality(S) - 1
  <2>1. IsFiniteSet(S \ {x}) /\ Cardinality(S \ {x}) = Cardinality(S) - 1
    BY FS_RemoveElement
  <2>2. T \subseteq S \ {x}
    OBVIOUS
  <2>3. Cardinality(T) <= Cardinality(S \ {x})
    BY <2>1, <2>2, FS_Subset
  <2> QED BY <2>1, <2>3
<1> QED BY <1>1, <1>2, <1>3

LEMMA MailAre ==
    /\ \A m \in Mail : /\ m = <<m[1], m[2]>> /\ m[1] \in Kind /\ m[2] \in Recipients(m[1])
                       /\ m \in CountedMail <=> m[1] \in Counted
    /\ \A m \in Member : <<"report", m>> \in Mail
    /\ CountedMail \subseteq Mail /\ CountedMail \cap Reminder = {}
<1>1. \A m \in Mail : m = <<m[1], m[2]>> /\ m[1] \in Kind /\ m[2] \in Recipients(m[1])
  BY DEF Mail
<1>2. \A m \in Mail : m \in CountedMail <=> m[1] \in Counted
  BY <1>1 DEF CountedMail, Mail
<1>3. \A m \in Member : <<"report", m>> \in Mail
  BY DEF Mail, Kind, Recipients
<1>4. CountedMail \subseteq Mail
  BY DEF CountedMail, Mail, Counted, Kind
<1> QED BY <1>1, <1>2, <1>3, <1>4, ReminderIs

LEMMA MailNumbers ==
    ASSUME TypeOK
    PROVE  /\ faults \in Nat /\ \A m \in Mail : sent[m] \in Nat
           /\ UsedQuota \in Nat
<1>1. faults \in Nat
  BY BoundAssumption DEF TypeOK
<1>2. \A m \in Mail : sent[m] \in Nat
  BY ReminderIs DEF TypeOK
<1>3. UsedQuota \in Nat
  BY FiniteMail DEF UsedQuota
<1> QED BY <1>1, <1>2, <1>3

(* A fault allows one more batch. *)
LEMMA AllowanceGrows ==
    ASSUME TypeOK, TypeOK', faults <= faults'
    PROVE  /\ Allowance \in Nat /\ Allowance' \in Nat /\ Allowance <= Allowance'
           /\ Quota - 1 + Cardinality(Worker) * Largest <= Allowance
           /\ faults' = faults + 1 => Allowance' = Allowance + Largest
<1> DEFINE W == Cardinality(Worker)
           L == Largest
           Bound(f) == Quota - 1 + (W + f) * L
<1>1. W \in Nat /\ L \in Nat /\ Quota - 1 \in Nat
  BY Counts
<1>2. faults \in Nat /\ faults' \in Nat
  BY MailNumbers, BoundAssumption DEF TypeOK
<1>3. Allowance = Bound(faults) /\ Allowance' = Bound(faults')
  BY DEF Allowance
<1> HIDE DEF W, L
<1>4. \A f \in Nat : W * L \in Nat /\ f * L \in Nat /\ Bound(f) = Quota - 1 + W * L + f * L
  BY <1>1, QuotaAssumption
<1>5. faults * L <= faults' * L
  <2> DEFINE k == faults' - faults
  <2>1. k \in Nat /\ faults' = faults + k
    <3>1. \A a, b \in Nat : a <= b => b - a \in Nat /\ b = a + (b - a)
      OBVIOUS
    <3> QED BY <1>2, <3>1
  <2> HIDE DEF k
  <2>2. (faults + k) * L = faults * L + k * L
    BY <1>1, <1>2, <2>1
  <2>3. k * L \in Nat /\ faults * L \in Nat
    BY <1>1, <1>2, <2>1
  <2> QED BY <2>1, <2>2, <2>3
<1>6. (faults + 1) * L = faults * L + L
  BY <1>1, <1>2
<1>7. /\ Bound(faults) \in Nat /\ Bound(faults') \in Nat /\ Bound(faults) <= Bound(faults')
      /\ Quota - 1 + W * L <= Bound(faults)
  <2>1. /\ W * L \in Nat /\ faults * L \in Nat /\ faults' * L \in Nat
        /\ Bound(faults) = Quota - 1 + W * L + faults * L
        /\ Bound(faults') = Quota - 1 + W * L + faults' * L
    BY <1>2, <1>4
  <2> HIDE DEF Bound
  <2> QED BY <1>1, <1>5, <2>1
<1>8. faults' = faults + 1 => Bound(faults') = Bound(faults) + L
  <2>1. /\ W * L \in Nat /\ faults * L \in Nat
        /\ Bound(faults) = Quota - 1 + W * L + faults * L
        /\ Bound(faults') = Quota - 1 + W * L + faults' * L
    BY <1>2, <1>4
  <2> HIDE DEF Bound
  <2> QED BY <1>1, <1>6, <2>1
<1> QED BY <1>3, <1>7, <1>8 DEF W, L

(* The messages of one batch are at most Largest. *)
LEMMA BatchFits ==
    ASSUME NEW w \in Worker, NEW batch, NEW next,
           batch \in [Worker -> Batch], next \in [Worker -> Batch],
           next[w].kind \in Kind, next[w].todo \subseteq Recipients(next[w].kind),
           \A v \in Worker \ {w} : next[v] = batch[v]
    PROVE  Cardinality(PendingIn(next)) <= Cardinality(PendingIn(batch)) + Largest
<1> DEFINE T == next[w].todo
<1>1. IsFiniteSet(T) /\ Cardinality(T) \in Nat /\ Cardinality(T) <= Largest
  <2>1. T \subseteq Contact \/ T \subseteq Member
    BY DEF Recipients
  <2> HIDE DEF T
  <2>2. IsFiniteSet(T) /\ (Cardinality(T) <= Cardinality(Contact) \/ Cardinality(T) <= Cardinality(Member))
    BY <2>1, RecipientAssumption, FS_Subset
  <2>3. Cardinality(T) \in Nat
    BY <2>2, FS_CardinalityType
  <2> QED BY <2>2, <2>3, Counts
<1>2. PendingIn(next) \subseteq PendingIn(batch) \cup ({w} \X T)
  BY DEF PendingIn
<1> HIDE DEF T
<1>3. IsFiniteSet({w}) /\ Cardinality({w}) = 1
  BY FS_Singleton
<1>4. IsFiniteSet({w} \X T) /\ Cardinality({w} \X T) = Cardinality({w}) * Cardinality(T)
  BY <1>1, <1>3, FS_Product
<1>5. Cardinality({w} \X T) = Cardinality(T)
  BY <1>1, <1>3, <1>4
<1>6. IsFiniteSet(PendingIn(batch)) /\ Cardinality(PendingIn(batch)) \in Nat
      /\ Cardinality(PendingIn(next)) \in Nat
  BY FiniteCounts
<1>7. LET P == PendingIn(batch)
          B == {w} \X T
      IN  IsFiniteSet(P \cup B) /\ Cardinality(P \cup B) = Cardinality(P) + Cardinality(B) - Cardinality(P \cap B)
          /\ Cardinality(P \cap B) \in Nat
  <2> DEFINE P == PendingIn(batch)
             B == {w} \X T
  <2> HIDE DEF P, B
  <2>1. IsFiniteSet(P) /\ IsFiniteSet(B)
    BY <1>4, <1>6 DEF P, B
  <2>2. IsFiniteSet(P \cup B) /\ Cardinality(P \cup B) = Cardinality(P) + Cardinality(B) - Cardinality(P \cap B)
    BY <2>1, FS_Union
  <2>3. IsFiniteSet(P \cap B)
    <3>1. P \cap B \subseteq P
      OBVIOUS
    <3> QED BY <2>1, <3>1, FS_Subset
  <2>4. Cardinality(P \cap B) \in Nat
    BY <2>3, FS_CardinalityType
  <2> QED BY <2>2, <2>4 DEF P, B
<1>8. Cardinality(PendingIn(next)) <= Cardinality(PendingIn(batch) \cup ({w} \X T))
  BY <1>2, <1>7, FS_Subset
<1>9. Largest \in Nat
  BY Counts
<1> QED BY <1>1, <1>5, <1>6, <1>7, <1>8, <1>9

(* Nothing is mailed, no count is read and batches at most end. *)
LEMMA QuietStep ==
    ASSUME TypeInv, TypeInv', MailInv, reported' = reported, faults <= faults',
           \A m \in Mail : sent'[m] = sent[m] /\ (m \in logged' <=> m \in logged),
           \A w \in Worker : Left(work'[w], work[w])
    PROVE  MailInv'
<1>0. TypeOK /\ TypeOK' /\ faults \in Nat /\ faults' \in Nat
  BY BoundAssumption DEF TypeInv, TypeOK
<1>1. \A w \in Worker : /\ work'[w].kind = work[w].kind \/ (work'[w].kind = None /\ work'[w].todo = {})
                        /\ work'[w].todo \subseteq work[w].todo
                        /\ work'[w].allowed => work[w].allowed
  BY NoBatchIs DEF Left
<1>2. ReportsOnce'
  <2>1. \A m \in Member : sent'[<<"report", m>>] = sent[<<"report", m>>]
    BY MailAre
  <2>2. \A w \in Worker : work'[w].kind = "report" => work[w].kind = "report"
    BY <1>1, NoneAssumption DEF Kind
  <2>3. \A w \in Worker : work'[w].kind = "report" =>
            /\ reported' /\ \A m \in work'[w].todo : sent[<<"report", m>>] = 0
            /\ \A v \in Worker : work'[v].kind = "report" => v = w
    BY <1>1, <2>2 DEF MailInv, ReportsOnce
  <2>4. \A w \in Worker : work'[w].kind = "report" => work'[w].todo \subseteq Member
    BY <2>2, <1>1, Stopped DEF Recipients
  <2> QED BY <2>1, <2>3, <2>4 DEF MailInv, ReportsOnce
<1>3. RepeatsCounted'
  <2> SUFFICES ASSUME NEW m \in Mail
               PROVE  /\ sent'[m] + Cardinality(WaitingIn(work', m)) <= Cardinality(Worker) + faults'
                      /\ m[1] # "report" /\ m \notin logged' => sent'[m] <= faults'
    BY DEF RepeatsCounted
  <2>1. WaitingIn(work', m) \subseteq WaitingIn(work, m)
    BY <1>1 DEF WaitingIn
  <2>2. Cardinality(WaitingIn(work', m)) <= Cardinality(WaitingIn(work, m))
        /\ Cardinality(WaitingIn(work', m)) \in Nat /\ Cardinality(WaitingIn(work, m)) \in Nat
    BY <2>1, FiniteCounts, Smaller
  <2>3. sent[m] \in Nat /\ sent'[m] = sent[m]
    BY <1>0, MailNumbers
  <2>4. /\ sent[m] + Cardinality(WaitingIn(work, m)) <= Cardinality(Worker) + faults
        /\ m[1] # "report" /\ m \notin logged => sent[m] <= faults
    BY DEF MailInv, RepeatsCounted
  <2> QED BY <1>0, <2>2, <2>3, <2>4, Counts
<1>4. WithinQuota'
  <2>1. PendingIn(work') \subseteq PendingIn(work)
    BY <1>1, NoneAssumption DEF PendingIn, Counted, Kind
  <2>2. Cardinality(PendingIn(work')) <= Cardinality(PendingIn(work))
        /\ Cardinality(PendingIn(work')) \in Nat /\ Cardinality(PendingIn(work)) \in Nat
    BY <2>1, FiniteCounts, Smaller
  <2>3. logged' \cap CountedMail = logged \cap CountedMail
    BY MailAre
  <2>4. UsedQuota' = UsedQuota /\ UsedQuota \in Nat
    BY <1>0, <2>3, MailNumbers DEF UsedQuota
  <2>5. Allowance \in Nat /\ Allowance' \in Nat /\ Allowance <= Allowance'
    BY <1>0, AllowanceGrows
  <2> QED BY <2>2, <2>4, <2>5 DEF MailInv, WithinQuota
<1> QED BY <1>2, <1>3, <1>4 DEF MailInv

LEMMA BeginStep ==
    ASSUME TypeInv, TypeInv', MailInv, NEW w \in Worker, NEW kind, NEW todo,
           Begins(w, kind, todo)
    PROVE  MailInv'
<1>0. TypeOK /\ TypeOK' /\ faults \in Nat /\ Begun(kind, todo) \in Batch
  BY BoundAssumption DEF TypeInv, TypeOK, Begins, GoesOn
<1>1. /\ work'[w].kind = kind /\ work'[w].todo = todo /\ work'[w].allowed = FALSE
      /\ work[w].todo = {} /\ work[w].kind = None /\ kind \in Kind
      /\ \A v \in Worker \ {w} : work'[v] = work[v]
      /\ UNCHANGED <<sent, logged, faults>>
  <2>1. /\ Begun(kind, todo).kind = kind /\ Begun(kind, todo).todo = todo
        /\ Begun(kind, todo).allowed = FALSE
    BY DEF Begun, NoBatch
  <2>2. work[w] = NoBatch
    BY DEF Begins, TypeInv, BatchShape
  <2> QED BY <2>1, <2>2, NoBatchIs DEF Begins, GoesOn
<1>2. ReportsOnce'
  <2>1. CASE kind = "report"
    <3>1. ~reported /\ reported' /\ \A v \in Worker : work[v].kind # "report"
      BY <2>1 DEF Begins, MailInv, ReportsOnce
    <3>2. (\A m \in Member : sent[<<"report", m>>] = 0) /\ todo \subseteq Member
      BY <2>1, <3>1 DEF Begins, MailInv, ReportsOnce, Recipients
    <3> QED BY <1>1, <3>1, <3>2 DEF ReportsOnce
  <2>2. CASE kind # "report"
    <3>1. reported' = reported
      BY <2>2 DEF Begins
    <3> QED BY <1>1, <2>2, <3>1 DEF MailInv, ReportsOnce
  <2> QED BY <2>1, <2>2
<1>3. RepeatsCounted'
  <2> SUFFICES ASSUME NEW m \in Mail
               PROVE  sent[m] + Cardinality(WaitingIn(work', m)) <= Cardinality(Worker) + faults
    BY <1>1 DEF MailInv, RepeatsCounted
  <2>1. Cardinality(WaitingIn(work', m)) \in Nat /\ Cardinality(WaitingIn(work, m)) \in Nat
        /\ Cardinality(WaitingIn(work', m)) <= Cardinality(Worker)
    BY FiniteCounts
  <2>2. sent[m] \in Nat
    BY <1>0, MailNumbers
  <2>3. CASE w \notin WaitingIn(work', m)
    <3>1. WaitingIn(work', m) \subseteq WaitingIn(work, m)
      BY <1>1, <2>3 DEF WaitingIn
    <3>2. Cardinality(WaitingIn(work', m)) <= Cardinality(WaitingIn(work, m))
      BY <3>1, FiniteCounts, Smaller
    <3> QED BY <1>0, <2>1, <2>2, <3>2, Counts DEF MailInv, RepeatsCounted
  <2>4. CASE w \in WaitingIn(work', m)
    <3>1. m[1] = kind /\ m[2] \in todo /\ m = <<m[1], m[2]>>
      BY <1>1, <2>4, MailAre DEF WaitingIn
    <3>2. CASE kind = "report"
      <4>1. sent[m] = 0
        BY <3>1, <3>2 DEF Begins, MailInv, ReportsOnce, Recipients
      <4> QED BY <1>0, <2>1, <4>1, Counts
    <3>3. CASE kind # "report"
      <4>1. m \notin logged
        BY <3>1, <3>3 DEF Begins, Unsent
      <4>2. sent[m] <= faults
        BY <3>1, <3>3, <4>1 DEF MailInv, RepeatsCounted
      <4> QED BY <1>0, <2>1, <2>2, <4>2, Counts
    <3> QED BY <3>2, <3>3
  <2> QED BY <2>3, <2>4
<1>4. WithinQuota'
  <2>1. PendingIn(work') \subseteq PendingIn(work)
    BY <1>1 DEF PendingIn
  <2>2. Cardinality(PendingIn(work')) <= Cardinality(PendingIn(work))
        /\ Cardinality(PendingIn(work')) \in Nat /\ Cardinality(PendingIn(work)) \in Nat
    BY <2>1, FiniteCounts, Smaller
  <2>3. UsedQuota' = UsedQuota /\ UsedQuota \in Nat
    BY <1>0, <1>1, MailNumbers DEF UsedQuota
  <2>4. Allowance \in Nat /\ Allowance' = Allowance
    BY <1>0, <1>1, AllowanceGrows DEF Allowance
  <2> QED BY <2>2, <2>3, <2>4 DEF MailInv, WithinQuota
<1> QED BY <1>2, <1>3, <1>4 DEF MailInv

LEMMA AllowStep ==
    ASSUME TypeInv, TypeInv', MailInv, NEW w \in Worker, NEW b, Allows(w, b)
    PROVE  MailInv'
<1>0. TypeOK /\ TypeOK' /\ faults \in Nat /\ faults' \in Nat
  BY BoundAssumption DEF TypeInv, TypeOK
<1>1. /\ \A v \in Worker : work'[v].kind = work[v].kind /\ work'[v].todo = work[v].todo
      /\ UNCHANGED <<reported, sent, logged>> /\ faults <= faults'
  BY <1>0 DEF Allows, GoesOn
<1>2. ReportsOnce'
  BY <1>1 DEF MailInv, ReportsOnce
<1>3. RepeatsCounted'
  <2> SUFFICES ASSUME NEW m \in Mail
               PROVE  /\ sent[m] + Cardinality(WaitingIn(work', m)) <= Cardinality(Worker) + faults'
                      /\ m[1] # "report" /\ m \notin logged => sent[m] <= faults'
    BY <1>1 DEF RepeatsCounted
  <2>1. WaitingIn(work', m) = WaitingIn(work, m)
    BY <1>1 DEF WaitingIn
  <2>2. sent[m] \in Nat /\ Cardinality(WaitingIn(work, m)) \in Nat
    BY <1>0, MailNumbers, FiniteCounts
  <2>3. /\ sent[m] + Cardinality(WaitingIn(work, m)) <= Cardinality(Worker) + faults
        /\ m[1] # "report" /\ m \notin logged => sent[m] <= faults
    BY DEF MailInv, RepeatsCounted
  <2> QED BY <1>0, <1>1, <2>1, <2>2, <2>3, Counts
<1>4. WithinQuota'
  <2>1. UsedQuota' = UsedQuota /\ UsedQuota \in Nat
    BY <1>0, <1>1, MailNumbers DEF UsedQuota
  <2>2. Cardinality(PendingIn(work')) \in Nat /\ Cardinality(PendingIn(work)) \in Nat
    BY FiniteCounts
  <2>3. /\ Allowance \in Nat /\ Allowance' \in Nat /\ Allowance <= Allowance'
        /\ Quota - 1 + Cardinality(Worker) * Largest <= Allowance
        /\ faults' = faults + 1 => Allowance' = Allowance + Largest
    BY <1>0, <1>1, AllowanceGrows
  <2>4. CASE CheckEmailNotificationQuota
    <3>1. Cardinality(PendingIn(work')) <= Cardinality(Worker) * Largest
      <4>1. \A v \in Worker : work'[v].allowed => work'[v].todo \subseteq Recipients(work'[v].kind)
        BY DEF TypeInv, BatchShape
      <4> QED BY <4>1, PendingFits
    <3>2. UsedQuota < Quota
      BY <2>4 DEF CheckEmailNotificationQuota
    <3> QED BY <2>1, <2>2, <2>3, <3>1, <3>2, Counts, QuotaAssumption DEF WithinQuota
  <2>5. CASE faults' = faults + 1
    <3>1. /\ work[w].phase = "begun" /\ work'[w].kind = work[w].kind
          /\ work'[w].todo = work[w].todo /\ \A v \in Worker \ {w} : work'[v] = work[v]
      BY DEF Allows, GoesOn
    <3>2. work'[w].kind \in Kind /\ work'[w].todo \subseteq Recipients(work'[w].kind)
      BY <3>1 DEF TypeInv, BatchShape
    <3>3. Cardinality(PendingIn(work')) <= Cardinality(PendingIn(work)) + Largest
      BY <1>0, <3>1, <3>2, BatchFits DEF TypeOK
    <3> QED BY <2>1, <2>2, <2>3, <2>5, <3>3, Counts DEF MailInv, WithinQuota
  <2> QED BY <2>4, <2>5 DEF Allows
<1> QED BY <1>2, <1>3, <1>4 DEF MailInv

LEMMA SendStep ==
    ASSUME TypeInv, TypeInv', MailInv, NEW w \in Worker, NEW b \in Batch, NEW r \in work[w].todo,
           Sends(w, b, r)
    PROVE  MailInv'
<1> DEFINE kind == work[w].kind
           mail == <<kind, r>>
<1>0. TypeOK /\ TypeOK' /\ faults \in Nat /\ faults' \in Nat
  BY BoundAssumption DEF TypeInv, TypeOK
<1>1. /\ mail \in Mail /\ mail \in Message /\ kind \in Kind /\ mail[1] = kind /\ mail[2] = r
      /\ sent' = [sent EXCEPT ![mail] = @ + 1]
      /\ \/ logged' = logged \cup {mail} /\ faults' = faults
         \/ logged' = logged /\ faults' = faults + 1
      /\ reported' = reported
  BY Stopped, ReminderIs DEF Sends
<1>2. \A v \in Worker : /\ work'[v].todo \subseteq work[v].todo
                        /\ work'[v].kind = work[v].kind \/ work'[v].todo = {}
                        /\ work'[v].allowed => work[v].allowed
                        /\ work'[v].kind = work[v].kind \/ work'[v].kind = None
  BY NoBatchIs DEF Sends, GoesOn, Left
<1>3. r \notin work'[w].todo /\ work[w].allowed
  BY DEF Sends, GoesOn, TypeInv, BatchShape
<1>4. sent'[mail] = sent[mail] + 1 /\ \A m \in Mail : m # mail => sent'[m] = sent[m]
  <2> HIDE DEF mail
  <2> QED BY <1>0, <1>1, ReminderIs DEF TypeOK
<1>5. \A m \in Mail : sent[m] \in Nat
  BY <1>0, MailNumbers
<1> HIDE DEF mail
<1>6. ReportsOnce'
  <2>1. \A v \in Worker : work'[v].kind = "report" => work[v].kind = "report"
    BY <1>2, NoneAssumption DEF Kind
  <2>2. CASE kind # "report"
    <3>1. \A m \in Member : sent'[<<"report", m>>] = sent[<<"report", m>>]
      BY <1>1, <1>4, <2>2, MailAre DEF mail
    <3>2. \A v \in Worker : work'[v].kind = "report" => work'[v].todo \subseteq Member
      BY <1>2, <2>1, Stopped DEF Recipients
    <3> QED BY <1>1, <1>2, <2>1, <3>1, <3>2 DEF MailInv, ReportsOnce
  <2>3. CASE kind = "report"
    <3>1. /\ reported /\ sent[mail] = 0 /\ work[w].todo \subseteq Member
          /\ \A v \in Worker : work[v].kind = "report" => v = w
          /\ \A m \in work[w].todo : sent[<<"report", m>>] = 0
      BY <2>3, Stopped DEF MailInv, ReportsOnce, Recipients, mail
    <3>2. sent'[mail] = 1
      BY <1>4, <3>1
    <3>3. \A m \in Member : \/ m = r /\ sent'[<<"report", m>>] = 1
                            \/ m # r /\ sent'[<<"report", m>>] = sent[<<"report", m>>]
      BY <1>4, <2>3, <3>2, MailAre DEF mail
    <3>4. \A m \in Member : sent'[<<"report", m>>] <= 1
      <4>1. \A m \in Member : sent[<<"report", m>>] <= 1
        BY DEF MailInv, ReportsOnce
      <4>2. 1 <= 1
        OBVIOUS
      <4> QED BY <3>3, <4>1, <4>2
    <3>5. \A v \in Worker : work'[v].kind = "report" =>
              v = w /\ \A m \in work'[v].todo : sent'[<<"report", m>>] = 0
      BY <1>2, <1>3, <2>1, <3>1, <3>3
    <3> QED BY <1>1, <3>1, <3>4, <3>5 DEF ReportsOnce
  <2> QED BY <2>2, <2>3
<1>7. RepeatsCounted'
  <2> SUFFICES ASSUME NEW m \in Mail
               PROVE  /\ sent'[m] + Cardinality(WaitingIn(work', m)) <= Cardinality(Worker) + faults'
                      /\ m[1] # "report" /\ m \notin logged' => sent'[m] <= faults'
    BY DEF RepeatsCounted
  <2>1. WaitingIn(work', m) \subseteq WaitingIn(work, m)
    BY <1>2 DEF WaitingIn
  <2>2. /\ Cardinality(WaitingIn(work', m)) \in Nat /\ Cardinality(WaitingIn(work, m)) \in Nat
        /\ Cardinality(WaitingIn(work', m)) <= Cardinality(WaitingIn(work, m))
        /\ \A x \in WaitingIn(work, m) \ WaitingIn(work', m) :
               Cardinality(WaitingIn(work', m)) <= Cardinality(WaitingIn(work, m)) - 1
    BY <2>1, FiniteCounts, Smaller
  <2>3. /\ sent[m] + Cardinality(WaitingIn(work, m)) <= Cardinality(Worker) + faults
        /\ m[1] # "report" /\ m \notin logged => sent[m] <= faults
    BY DEF MailInv, RepeatsCounted
  <2>4. CASE m = mail
    <3>1. w \in WaitingIn(work, m) \ WaitingIn(work', m)
      BY <1>1, <1>3, <2>4 DEF WaitingIn
    <3>2. Cardinality(WaitingIn(work', m)) <= Cardinality(WaitingIn(work, m)) - 1
      BY <2>2, <3>1
    <3>3. sent'[m] = sent[m] + 1 /\ sent[m] \in Nat /\ faults <= faults'
      BY <1>0, <1>1, <1>4, <1>5, <2>4
    <3>4. m \notin logged' => m \notin logged /\ faults' = faults + 1
      BY <1>1, <2>4
    <3> QED BY <1>0, <2>2, <2>3, <3>2, <3>3, <3>4, Counts
  <2>5. CASE m # mail
    <3>1. sent'[m] = sent[m] /\ sent[m] \in Nat /\ faults <= faults' /\ (m \notin logged' => m \notin logged)
      BY <1>0, <1>1, <1>4, <1>5, <2>5
    <3> QED BY <1>0, <2>2, <2>3, <3>1, Counts
  <2> QED BY <2>4, <2>5
<1>8. WithinQuota'
  <2>1. PendingIn(work') \subseteq PendingIn(work)
    BY <1>2 DEF PendingIn
  <2>2. /\ Cardinality(PendingIn(work')) \in Nat /\ Cardinality(PendingIn(work)) \in Nat
        /\ Cardinality(PendingIn(work')) <= Cardinality(PendingIn(work))
        /\ \A x \in PendingIn(work) \ PendingIn(work') :
               Cardinality(PendingIn(work')) <= Cardinality(PendingIn(work)) - 1
    BY <2>1, FiniteCounts, Smaller
  <2>3. /\ UsedQuota \in Nat /\ UsedQuota' \in Nat
        /\ Allowance \in Nat /\ Allowance' \in Nat /\ Allowance <= Allowance'
    <3>1. UsedQuota \in Nat /\ UsedQuota' \in Nat
      BY <1>0, MailNumbers, FiniteMail DEF UsedQuota
    <3>2. faults <= faults'
      BY <1>0, <1>1
    <3> QED BY <1>0, <3>1, <3>2, AllowanceGrows
  <2>4. CASE kind \in Counted
    <3>1. r \in Contact \cup Member
      BY <1>1, Stopped DEF Recipients
    <3>2. <<w, r>> \in PendingIn(work) \ PendingIn(work')
      BY <1>3, <2>4, <3>1 DEF PendingIn
    <3>3. Cardinality(PendingIn(work')) <= Cardinality(PendingIn(work)) - 1
      BY <2>2, <3>2
    <3>4. logged' \cap CountedMail \subseteq (logged \cap CountedMail) \cup {mail}
      BY <1>1
    <3>5. IsFiniteSet(logged \cap CountedMail) /\ UsedQuota = Cardinality(logged \cap CountedMail)
      BY FiniteMail DEF UsedQuota
    <3>6. IsFiniteSet((logged \cap CountedMail) \cup {mail})
          /\ Cardinality((logged \cap CountedMail) \cup {mail}) <= UsedQuota + 1
      <4> DEFINE S == logged \cap CountedMail
      <4> HIDE DEF S
      <4>1. IsFiniteSet(S) /\ UsedQuota = Cardinality(S)
        BY <3>5 DEF S
      <4>2. IsFiniteSet(S \cup {mail})
            /\ Cardinality(S \cup {mail}) = IF mail \in S THEN Cardinality(S) ELSE Cardinality(S) + 1
        BY <4>1, FS_AddElement
      <4>3. Cardinality(S \cup {mail}) <= UsedQuota + 1
        BY <2>3, <4>1, <4>2
      <4> QED BY <4>2, <4>3 DEF S
    <3>7. Cardinality(logged' \cap CountedMail) <= Cardinality((logged \cap CountedMail) \cup {mail})
      BY <3>4, <3>6, FS_Subset
    <3>8. Cardinality((logged \cap CountedMail) \cup {mail}) \in Nat
      BY <3>6, FS_CardinalityType
    <3>9. UsedQuota' <= UsedQuota + 1
      BY <2>3, <3>6, <3>7, <3>8 DEF UsedQuota
    <3> QED BY <2>2, <2>3, <3>3, <3>9 DEF MailInv, WithinQuota
  <2>5. CASE kind \notin Counted
    <3>1. mail \notin CountedMail
      BY <1>1, <2>5, MailAre
    <3>2. logged' \cap CountedMail = logged \cap CountedMail
      BY <1>1, <3>1
    <3>3. UsedQuota' = UsedQuota
      BY <3>2 DEF UsedQuota
    <3> QED BY <2>2, <2>3, <3>3 DEF MailInv, WithinQuota
  <2> QED BY <2>4, <2>5
<1> QED BY <1>6, <1>7, <1>8 DEF MailInv

LEMMA MailInvStep ==
    ASSUME TypeInv, MailInv, [Next]_vars
    PROVE  MailInv'
<1>0. TypeInv' /\ TypeOK /\ faults \in Nat
  BY TypeStep, BoundAssumption DEF TypeInv, TypeOK
<1>1. \A b : Left(b, b) \/ ~(b.checked \subseteq b.todo)
  BY DEF Left
<1>2. \A w \in Worker : Left(work[w], work[w])
  BY <1>1 DEF TypeInv, BatchShape
<1>3. CASE \/ Tick \/ Late \/ CorrectNotice \/ ParticipateAgain \/ UpdateEntry \/ AutoExclude
           \/ UNCHANGED vars
  <2>1. UNCHANGED <<reported, work, sent, logged>> /\ faults <= faults'
    BY <1>0, <1>3, StatusChanges DEF Tick, Late, CorrectNotice, ChangeStatus, mails, vars
  <2> QED BY <1>0, <1>2, <2>1, QuietStep
<1>4. CASE Downtime
  <2>1. UNCHANGED <<reported, sent, logged>> /\ faults <= faults'
        /\ \A w \in Worker : Left(work'[w], work[w])
    BY <1>0, <1>4 DEF Downtime, Left
  <2> QED BY <1>0, <2>1, QuietStep
<1>5. ASSUME NEW s \in Scheduler, SelectEntries(s) \/ Reconcile(s) \/ Claim(s) \/ FinishRun(s)
      PROVE  MailInv'
  <2>1. UNCHANGED <<reported, work, sent, logged, faults>>
    BY <1>5 DEF SelectEntries, Reconcile, Claim, FinishRun, mails
  <2> QED BY <1>0, <1>2, <2>1, QuietStep
<1>6. ASSUME NEW s \in Scheduler, Dispatch(s)
      PROVE  MailInv'
  <2>1. PICK to \in SUBSET Contact : Dispatches(s, to)
    BY <1>0, <1>6, DispatchesAll
  <2>2. UNCHANGED <<reported, work>> /\ faults <= faults'
    BY <1>6, <2>1 DEF Dispatch, Dispatches, mails
  <2>3. \A m \in Mail : m \in Message /\ m \notin Messages(s, to)
    <3>1. Messages(s, to) \subseteq Reminder
      BY <1>0, <2>1 DEF Dispatches, Messages, Reminder, TypeInv, BatchShape, TypeOK, Run
    <3> QED BY <3>1, ReminderIs
  <2>4. \A m \in Mail : sent'[m] = sent[m] /\ (m \in logged' <=> m \in logged)
    BY <2>1, <2>3 DEF Dispatches
  <2> QED BY <1>0, <1>2, <2>2, <2>4, QuietStep
<1>7. ASSUME NEW w \in Worker, MailStep(w)
      PROVE  MailInv'
  <2>1. CASE Waits(w)
    <3>1. UNCHANGED <<work, reported, sent, logged, faults>>
      BY <2>1 DEF Waits
    <3> QED BY <1>0, <1>2, <3>1, QuietStep
  <2>2. CASE \E kind \in Kind : \E todo \in SUBSET Recipients(kind) : Begins(w, kind, todo)
    BY <1>0, <2>2, BeginStep
  <2>3. ASSUME NEW b \in Batch, Skips(w, b) \/ Loses(w, b)
        PROVE  MailInv'
    <3>1. UNCHANGED <<reported, sent, logged>> /\ faults <= faults'
      BY <1>0, <2>3 DEF Skips, Loses
    <3>2. \A v \in Worker : Left(work'[v], work[v])
      BY <1>2, <2>3 DEF Skips, Loses, GoesOn
    <3> QED BY <1>0, <3>1, <3>2, QuietStep
  <2>4. CASE \E b \in Batch : Allows(w, b)
    BY <1>0, <2>4, AllowStep
  <2>5. CASE \E b \in Batch : \E r \in work[w].todo : Sends(w, b, r)
    BY <1>0, <2>5, SendStep
  <2> QED BY <1>7, <2>1, <2>2, <2>3, <2>4, <2>5 DEF MailStep
<1> QED BY <1>3, <1>4, <1>5, <1>6, <1>7, MailSteps DEF Next, ScheduleNext

LEMMA InitMail == Init => MailInv
<1> SUFFICES ASSUME Init PROVE MailInv
  OBVIOUS
<1>1. /\ \A m \in Message : sent[m] = 0
      /\ \A w \in Worker : work[w] = NoBatch
      /\ logged = {} /\ faults = 0
  BY DEF Init
<1>2. ReportsOnce
  BY <1>1, MailAre, ReminderIs, NoBatchIs, NoneAssumption DEF ReportsOnce, Kind
<1>3. \A m \in Mail : WaitingIn(work, m) = {}
  BY <1>1, NoBatchIs DEF WaitingIn
<1>4. PendingIn(work) = {} /\ logged \cap CountedMail = {}
  BY <1>1, NoBatchIs DEF PendingIn
<1>5. Cardinality({}) = 0
  BY FS_EmptySet
<1>6. RepeatsCounted
  <2>1. \A m \in Mail : sent[m] = 0 /\ Cardinality(WaitingIn(work, m)) = 0
    BY <1>1, <1>3, <1>5, ReminderIs
  <2>2. 0 + 0 <= Cardinality(Worker) + 0
    BY Counts
  <2> QED BY <1>1, <2>1, <2>2 DEF RepeatsCounted
<1>7. WithinQuota
  <2>1. UsedQuota = 0 /\ Cardinality(PendingIn(work)) = 0
    BY <1>4, <1>5 DEF UsedQuota
  <2>2. Allowance = Quota - 1 + Cardinality(Worker) * Largest
    BY <1>1, Counts DEF Allowance
  <2> QED BY <2>1, <2>2, Counts DEF WithinQuota
<1> QED BY <1>2, <1>6, <1>7 DEF MailInv

-----------------------------------------------------------------------------
(* What a batch may still send is bounded by what it has been allowed. *)
LEMMA MailInvBounds == ASSUME TypeInv, MailInv PROVE MailBounded
<1>0. TypeOK /\ faults \in Nat /\ UsedQuota \in Nat
  BY MailNumbers DEF TypeInv
<1>1. RepeatsBounded
  <2>1. \A m \in Mail : sent[m] <= Cardinality(Worker) + faults
    <3> SUFFICES ASSUME NEW m \in Mail PROVE sent[m] <= Cardinality(Worker) + faults
      OBVIOUS
    <3>1. sent[m] + Cardinality(WaitingIn(work, m)) <= Cardinality(Worker) + faults
      BY DEF MailInv, RepeatsCounted
    <3>2. sent[m] \in Nat /\ Cardinality(WaitingIn(work, m)) \in Nat
      BY <1>0, MailNumbers, FiniteCounts
    <3> QED BY <1>0, <3>1, <3>2, Counts
  <2> QED BY <2>1 DEF MailInv, ReportsOnce, RepeatsBounded
<1>2. UsedQuota + Cardinality(PendingIn(work)) <= Allowance /\ Allowance \in Nat
  <2>1. \A a, b \in Nat : a * b \in Nat
    OBVIOUS
  <2>2. Cardinality(Worker) + faults \in Nat
    BY <1>0, Counts
  <2>3. (Cardinality(Worker) + faults) * Largest \in Nat
    BY <2>1, <2>2, Counts
  <2>4. Allowance \in Nat
    BY <2>3, QuotaAssumption DEF Allowance
  <2> QED BY <2>4 DEF MailInv, WithinQuota
<1>3. IsFiniteSet(PendingIn(work)) /\ Cardinality(PendingIn(work)) \in Nat
  BY FiniteCounts
<1>4. \A w \in Worker : Pending(w) \in Nat /\ Pending(w) <= Cardinality(PendingIn(work))
  <2> SUFFICES ASSUME NEW w \in Worker
               PROVE  Pending(w) \in Nat /\ Pending(w) <= Cardinality(PendingIn(work))
    OBVIOUS
  <2>1. CASE ~(work[w].kind \in Counted /\ work[w].allowed)
    BY <1>3, <2>1 DEF Pending
  <2>2. CASE work[w].kind \in Counted /\ work[w].allowed
    <3> DEFINE T == work[w].todo
    <3>1. T \subseteq Contact \cup Member
      BY <1>0 DEF TypeOK, Batch
    <3>2. {w} \X T \subseteq PendingIn(work)
      BY <2>2, <3>1 DEF PendingIn
    <3>3. IsFiniteSet(T) /\ IsFiniteSet({w}) /\ Cardinality({w}) = 1
      BY <3>1, RecipientAssumption, FS_Union, FS_Subset, FS_Singleton
    <3>4. Cardinality({w} \X T) = Cardinality({w}) * Cardinality(T) /\ Cardinality(T) \in Nat
      BY <3>3, FS_Product, FS_CardinalityType
    <3>5. Cardinality({w} \X T) <= Cardinality(PendingIn(work))
      BY <1>3, <3>2, FS_Subset
    <3> QED BY <2>2, <3>3, <3>4, <3>5 DEF Pending
  <2> QED BY <2>1, <2>2
<1>5. QuotaBounded
  BY <1>0, <1>2, <1>3, <1>4 DEF QuotaBounded
<1> QED BY <1>0, <1>1, <1>5 DEF MailBounded

LEMMA OnTimeMisses ==
    ASSUME TypeInv, OnTime
    PROVE  NothingMissed
<1> SUFFICES ASSUME faults = 0, preparing, done.at = now,
                    NEW e \in Event, Applies(e, done.deadline),
                    done.deadline - Offset[e] \in done.seen..now,
                    done.deadline - Offset[e] >= since + 5 - Grace
             PROVE  Claimed(e, done.deadline)
  BY DEF NothingMissed
<1>1. AllIn(claims, done.deadline, Owed(done.seen, since), done.at)
  BY DEF OnTime, Punctual
<1>2. /\ done.seen \in Int /\ done.deadline - Offset[e] \in Int /\ now \in Int
      /\ since + 5 - Grace \in Int
  BY OffsetAssumption, BoundAssumption DEF TypeInv, TypeOK, Done
<1>3. done.deadline - Offset[e] \in Owed(done.seen, since)..done.at
  BY <1>2 DEF Owed, Max2
<1> QED BY <1>1, <1>3 DEF AllIn, Claimed

NotificationsInv == TypeInv /\ ClaimedFirst /\ SeenLater /\ OnTime /\ MailInv

LEMMA Invariance == Spec => []NotificationsInv
<1>1. Init => NotificationsInv
  BY InitTypeInv, InitClaimed, InitSeen, InitOnTime, InitMail DEF NotificationsInv
<1>2. NotificationsInv /\ [Next]_vars => NotificationsInv'
  BY TypeStep, ClaimedStep, SeenStep, OnTimeStep, MailInvStep DEF NotificationsInv
<1> QED BY <1>1, <1>2, PTL DEF Spec

(* Types, however many runs and batches are in flight. *)
THEOREM TypeCorrect == Spec => []TypeOK
<1>1. NotificationsInv => TypeOK
  BY DEF NotificationsInv, TypeInv
<1> QED BY <1>1, Invariance, PTL

(* No contact gets the same reminder of the same deadline twice, however many runs of *)
(* the scheduler overlap, are repeated, end early or hold an older deadline           *)
(* (pipeline_deadline_scheduler.go:296-331).                                          *)
THEOREM RemindersOnce == Spec => []RemindedOnce
<1>1. NotificationsInv => RemindedOnce
  BY DEF NotificationsInv, ClaimedFirst
<1> QED BY <1>1, Invariance, PTL

(* No reminder of a corrected deadline is for an instant before that deadline was     *)
(* first stored (pipeline_deadline_scheduler.go:268, 301-312).                        *)
THEOREM NeverBackwards == Spec => []NotRetroactive
<1>1. NotificationsInv => NotRetroactive
  BY DEF NotificationsInv, SeenLater
<1> QED BY <1>1, Invariance, PTL

(* While the ticker is on time and nothing fails, every reminder that fell due since  *)
(* the deadline was seen is claimed by the end of a run, except those that fell due a *)
(* grace period, less five ticks, before the entry was prepared, for which no         *)
(* punctuality suffices (pipeline_deadline_scheduler.go:23-25, 143, 301-312;          *)
(* company_pipeline.go:224-272).                                                      *)
THEOREM NoneMissed == Spec => []NothingMissed
<1>1. NotificationsInv => NothingMissed
  BY OnTimeMisses DEF NotificationsInv
<1> QED BY <1>1, Invariance, PTL

(* An e-mail is repeated by the batches in flight and by faults only, a report never. *)
(* The monthly limit is passed by the recipients of those batches and, because a      *)
(* batch that cannot read the plan, the limit or the count is let through, by those   *)
(* of one more batch for each fault, and never by more                                *)
(* (notifications.go:82-158, 1222-1262).                                              *)
THEOREM MailStaysBounded == Spec => []MailBounded
<1>1. NotificationsInv => MailBounded
  BY MailInvBounds DEF NotificationsInv
<1> QED BY <1>1, Invariance, PTL
=============================================================================
