----------------------------- MODULE Extraction -----------------------------
(***************************************************************************)
(* From an attachment to the conditions a notice shows.                    *)
(*                                                                         *)
(* analyzer/worker.py turns attachments into text, with the attachments    *)
(* table as its queue: several workers claim rows, die or stall, and a     *)
(* stale claim is given back.  document_extraction.go turns the text into  *)
(* rows: a batch of rules, then a language model for the rows the rules    *)
(* marked review_required, run by an hourly ticker and by an administrator.*)
(* review.go is the reviewer, who confirms or rejects rows meanwhile.      *)
(*                                                                         *)
(* Time is left out: a claim may be found stale at any moment, so a worker *)
(* is as slow as it likes, and a backoff is a claim that comes later.      *)
(***************************************************************************)
EXTENDS Naturals, Sequences, FiniteSets, Functions

CONSTANTS
    Attachment,    \* attachments of one version of a bid notice
    Worker,        \* extraction workers, each a process of its own
    Batch,         \* runs of RunDocumentExtraction that may overlap
    Ticker,        \* the one among them that is repeated every hour
    Verdict,       \* what a reviewer may decide, of confirmed and rejected
    Kinds,         \* the tables of rows, in the order a batch supplements them
    MaxAttempts,   \* cfg.max_attempts
    MaxSupplement, \* maxAISupplementAttempts
    MaxFaults,     \* bound: database errors and restarts of the API server
    None           \* no attachment

ASSUME ExtractionAssumption ==
    /\ MaxAttempts \in Nat \ {0}
    /\ MaxSupplement \in Nat \ {0}
    /\ MaxFaults \in Nat
    /\ None \notin Attachment
    /\ Ticker \in Batch
    /\ IsFiniteSet(Worker)
    /\ Verdict \subseteq {"confirmed", "rejected"}
    /\ Kinds \in Seq({"eligibility", "document"})

VARIABLES
    attachments,   \* the rows of the table attachments
    workers,       \* what each worker holds: the attachment and its attempt
    rows,          \* eligibility_conditions and required_documents
    gen,           \* row identifiers given out so far
    batches,       \* phase and selected targets of each batch
    overlapped,    \* whether two batches have ever run at once
    faults         \* database errors and restarts so far

vars == <<attachments, workers, rows, gen, batches,
          overlapped, faults>>

extraction == <<attachments, workers>>
analysis   == <<rows, gen, batches, overlapped, faults>>

ExtractionStatus == {"pending", "processing", "completed", "failed",
                     "unsupported"}

\* What a file is: of a supported type, of another one, or one no worker may
\* claim because its download failed or it is older than the cut-off.
File == {"supported", "unsupported", "outOfScope"}

Phases == <<"rules">> \o Kinds

Held(a, n) == [att |-> a, attempt |-> n]

Idle == [phase |-> 0, atts |-> {}, targets |-> {}]

\* A row, named by its table and a number; "from" is the row the language
\* model supplemented with it, 0 for a row of the rules.
Row == [kind : Range(Kinds), gen : Nat, att : Attachment, from : Nat,
        review : {"pending", "review_required"} \cup Verdict,
        attempts : Nat, attempted : BOOLEAN]

TypeOK ==
    /\ attachments \in [Attachment ->
          [file : File, status : ExtractionStatus, attempts : Nat,
           processed : BOOLEAN]]
    /\ workers \in [Worker -> [att : Attachment \cup {None}, attempt : Nat]]
    /\ rows \subseteq Row
    /\ gen \in Nat
    /\ batches \in [Batch ->
          [phase : 0..Len(Phases), atts : SUBSET Attachment, targets : SUBSET Row]]
    /\ overlapped \in BOOLEAN
    /\ faults \in 0..MaxFaults

Init ==
    /\ attachments \in [Attachment ->
          [file : File, status : {"pending"}, attempts : {0},
           processed : {FALSE}]]
    /\ workers = [w \in Worker |-> Held(None, 0)]
    /\ rows = {}
    /\ gen = 0
    /\ batches = [b \in Batch |-> Idle]
    /\ overlapped = FALSE
    /\ faults = 0

-----------------------------------------------------------------------------
(* The extraction worker.                                                  *)

Holds(w, a) == workers[w].att = a

\* claim_next: the oldest pending row becomes processing and its attempts are
\* counted, in one statement; two workers never claim the same row.
Claim(w, a) ==
    /\ Holds(w, None)
    /\ attachments[a].file # "outOfScope"
    /\ attachments[a].status = "pending"
    /\ attachments' = [attachments EXCEPT ![a].status = "processing",
                                          ![a].attempts = @ + 1]
    /\ workers' = [workers EXCEPT ![w] = Held(a, attachments[a].attempts + 1)]
    /\ UNCHANGED analysis

\* Mutant: recover_stale without the cap.
RecoversForEver(a) ==
    /\ \E w \in Worker : Holds(w, None)
    /\ attachments[a].status = "processing"
    /\ attachments[a].attempts < MaxAttempts + 3
    /\ attachments' = [attachments EXCEPT ![a].status = "pending"]
    /\ UNCHANGED <<workers, analysis>>

\* recover_stale: a row left in processing goes back to the queue, or fails
\* when its attempts are used up.  A worker does it between two claims.
RecoverStale(a) ==
    /\ \E w \in Worker : Holds(w, None)
    /\ attachments[a].status = "processing"
    /\ attachments' = [attachments EXCEPT ![a].status =
          IF attachments[a].attempts >= MaxAttempts THEN "failed" ELSE "pending"]
    /\ UNCHANGED <<workers, analysis>>

\* Mutant: finish without AND extraction_status = 'processing'.
WritesAlways(a, status) ==
    attachments' = [attachments EXCEPT ![a].status = status]

\* finish, requeue_transient: the outcome is written only while the row is
\* processing; nothing checks who claimed it.
Write(a, status) ==
    attachments' = IF attachments[a].status = "processing"
                   THEN [attachments EXCEPT ![a].status = status]
                   ELSE attachments

Release(w) == workers' = [workers EXCEPT ![w] = Held(None, 0)]

\* process_one: an unsupported type is refused before the download; a download
\* fails for now or for good; a parser rejects the bytes or yields no text.
RefuseType(w, a) ==
    /\ Holds(w, a)
    /\ attachments[a].file = "unsupported"
    /\ Write(a, "unsupported")
    /\ Release(w)
    /\ UNCHANGED analysis

Requeue(w, a) ==
    /\ Holds(w, a)
    /\ attachments[a].file = "supported"
    /\ workers[w].attempt < MaxAttempts
    /\ Write(a, "pending")
    /\ Release(w)
    /\ UNCHANGED analysis

Fail(w, a) ==
    /\ Holds(w, a)
    /\ attachments[a].file = "supported"
    /\ Write(a, "failed")
    /\ Release(w)
    /\ UNCHANGED analysis

Complete(w, a) ==
    /\ Holds(w, a)
    /\ attachments[a].file = "supported"
    /\ Write(a, "completed")
    /\ Release(w)
    /\ UNCHANGED analysis

ProcessOne(w, a) ==
    RefuseType(w, a) \/ Requeue(w, a) \/ Fail(w, a) \/ Complete(w, a)

\* A worker that is killed or redeployed leaves its row in processing.
WorkerDies(w) ==
    /\ ~Holds(w, None)
    /\ Release(w)
    /\ UNCHANGED <<attachments, analysis>>

-----------------------------------------------------------------------------
(* The batch of RunDocumentExtraction.                                     *)

\* runRuleBasedDocumentExtraction: completed attachments of bid notices that
\* no rule has seen; the workers complete none without text.
RuleTargets ==
    {a \in Attachment : /\ attachments[a].status = "completed"
                  /\ ~attachments[a].processed}

\* fetchEligibilitySupplementTargets, fetchDocumentSupplementTargets.
SupplementTargets(kind) ==
    {r \in rows : /\ r.kind = kind
                  /\ r.review = "review_required"
                  /\ ~r.attempted}

Running(b) == batches[b].phase # 0
Phase(b)   == Phases[batches[b].phase]
Done(b)    == batches[b].atts = {} /\ batches[b].targets = {}

\* The targets of a phase are selected when it starts.
Enter(b, n) ==
    batches' = [batches EXCEPT ![b] =
       [phase   |-> n,
        atts    |-> IF n = 1 THEN RuleTargets ELSE {},
        targets |-> IF n = 1 THEN {} ELSE SupplementTargets(Phases[n])]]

StartBatch(b) ==
    /\ ~Running(b)
    /\ Enter(b, 1)
    /\ overlapped' = (overlapped \/ \E c \in Batch : Running(c))
    /\ UNCHANGED <<extraction, rows, gen, faults>>

NextPhase(b) ==
    /\ Running(b)
    /\ Done(b)
    /\ IF batches[b].phase = Len(Phases)
       THEN batches' = [batches EXCEPT ![b] = Idle]
       ELSE Enter(b, batches[b].phase + 1)
    /\ UNCHANGED <<extraction, rows, gen, overlapped, faults>>

\* runRuleExtractionForOneAttachment: in one transaction every row of the
\* attachment is replaced by what the rules find and the attachment marked.
RuleRow(kind, a) ==
    [kind |-> kind, gen |-> gen + 1, att |-> a, from |-> 0,
     review |-> "review_required", attempts |-> 0, attempted |-> FALSE]

RuleExtract(b, a) ==
    /\ Running(b)
    /\ Phase(b) = "rules"
    /\ a \in batches[b].atts
    /\ \E found \in SUBSET Range(Kinds) :
          rows' = {r \in rows : r.att # a} \cup {RuleRow(k, a) : k \in found}
    /\ gen' = gen + 1
    /\ attachments' = [attachments EXCEPT ![a].processed = TRUE]
    /\ batches' = [batches EXCEPT ![b].atts = @ \ {a}]
    /\ UNCHANGED <<workers, overlapped, faults>>

\* Two overlapping transactions on one attachment both delete before either
\* has inserted: the second does not see, and keeps, the rows of the first.
RuleExtractBlind(b, a) ==
    /\ Running(b)
    /\ Phase(b) = "rules"
    /\ a \in batches[b].atts
    /\ attachments[a].processed
    /\ \E found \in SUBSET Range(Kinds) :
          rows' = rows \cup {RuleRow(k, a) : k \in found}
    /\ gen' = gen + 1
    /\ batches' = [batches EXCEPT ![b].atts = @ \ {a}]
    /\ UNCHANGED <<extraction, overlapped, faults>>

\* A failed statement: the batch logs it and goes on with the next attachment.
SkipAttachment(b, a) ==
    /\ faults < MaxFaults
    /\ a \in batches[b].atts
    /\ faults' = faults + 1
    /\ batches' = [batches EXCEPT ![b].atts = @ \ {a}]
    /\ UNCHANGED <<extraction, rows, gen, overlapped>>

Same(r, t) == r.kind = t.kind /\ r.gen = t.gen

\* The UPDATE of the row a target was read from; it may be gone.
Update(t, f(_)) == {IF Same(r, t) THEN f(r) ELSE r : r \in rows}

Dismiss(b, t) == batches' = [batches EXCEPT ![b].targets = @ \ {t}]

\* Mutant: A failed call that never gives the row up.
NeverGivesUp(b, t) ==
    /\ t \in batches[b].targets
    /\ Dismiss(b, t)
    /\ UNCHANGED <<extraction, rows, gen, overlapped, faults>>

\* markEligibilitySupplementAttemptFailed and its twin: one more attempt than
\* the batch has read, and the last one gives the row up.
CallFails(b, t) ==
    /\ t \in batches[b].targets
    /\ LET n == t.attempts + 1
           Failed(r) == [r EXCEPT !.attempts = n,
                                  !.attempted = @ \/ n >= MaxSupplement]
       IN rows' = Update(t, Failed)
    /\ Dismiss(b, t)
    /\ UNCHANGED <<extraction, gen, overlapped, faults>>

\* Mutant: A supplement saved without its watermark.
SupplementsUnmarked(b, t) ==
    /\ t \in batches[b].targets
    /\ gen < 5
    /\ rows' = rows \cup
          {[t EXCEPT !.gen = gen + 1, !.from = t.gen, !.review = "pending"]}
    /\ gen' = gen + 1
    /\ Dismiss(b, t)
    /\ UNCHANGED <<extraction, overlapped, faults>>

\* saveEligibilitySupplement and its twin: the quotes found in the text are
\* inserted and the target is marked, in one transaction.
Marked(r) == [r EXCEPT !.attempted = TRUE]

Supplement(b, t) ==
    /\ t \in batches[b].targets
    /\ \/ /\ rows' = Update(t, Marked)
          /\ gen' = gen
       \/ /\ rows' = Update(t, Marked) \cup
                {[t EXCEPT !.gen = gen + 1, !.from = t.gen, !.review = "pending"]}
          /\ gen' = gen + 1
    /\ Dismiss(b, t)
    /\ UNCHANGED <<extraction, overlapped, faults>>

\* The save, or the count of a failed call, is itself refused: only logged.
SkipTarget(b, t) ==
    /\ faults < MaxFaults
    /\ t \in batches[b].targets
    /\ faults' = faults + 1
    /\ Dismiss(b, t)
    /\ UNCHANGED <<extraction, rows, gen, overlapped>>

\* All batches run in the API server and go with it.
Restart ==
    /\ faults < MaxFaults
    /\ \E b \in Batch : Running(b)
    /\ faults' = faults + 1
    /\ batches' = [b \in Batch |-> Idle]
    /\ UNCHANGED <<extraction, rows, gen, overlapped>>

\* applyReviewAction: whatever the row's state when the verdict arrives; the
\* review queue showed it as review_required.
Review(r, verdict) ==
    /\ r.review # "pending"
    /\ rows' = Update(r, LAMBDA x : [x EXCEPT !.review = verdict])
    /\ UNCHANGED <<extraction, gen, batches, overlapped, faults>>

-----------------------------------------------------------------------------
WorkerNext ==
    \/ \E w \in Worker, a \in Attachment : Claim(w, a) \/ ProcessOne(w, a)
    \/ \E a \in Attachment : RecoverStale(a)
    \/ \E w \in Worker : WorkerDies(w)

BatchStep(b) ==
    \/ NextPhase(b)
    \/ \E a \in batches[b].atts :
          \/ RuleExtract(b, a) \/ RuleExtractBlind(b, a)
          \/ SkipAttachment(b, a)
    \/ \E t \in batches[b].targets :
          CallFails(b, t) \/ Supplement(b, t) \/ SkipTarget(b, t)

ReviewNext == \E r \in rows, v \in Verdict : Review(r, v)

Next ==
    \/ WorkerNext
    \/ \E b \in Batch : StartBatch(b) \/ BatchStep(b)
    \/ Restart
    \/ ReviewNext

Spec == Init /\ [][Next]_vars

\* Workers poll their queue, and one that is not killed finishes what it
\* claimed; the ticker starts a batch every hour and a batch goes on to its end.
Fairness ==
    /\ \A a \in Attachment : /\ WF_vars(\E w \in Worker : Claim(w, a))
                             /\ WF_vars(RecoverStale(a))
    /\ \A w \in Worker : WF_vars(\E a \in Attachment : ProcessOne(w, a))
    /\ WF_vars(StartBatch(Ticker))
    /\ \A b \in Batch : WF_vars(BatchStep(b))

FairSpec == Spec /\ Fairness

-----------------------------------------------------------------------------
(* computeNoticeDocumentAnalysisStatus: what the detail of a notice with   *)
(* the attachments "of" says while it shows no condition.                  *)
AnalysisStatus(of) ==
    LET Completed == {a \in of : attachments[a].status = "completed"}
    IN  IF of = {} THEN "no_attachments"
        ELSE IF \E a \in Completed : ~attachments[a].processed
        THEN "awaiting_structured_extraction"
        ELSE IF Completed # of THEN "extracting_text"
        ELSE "analyzed_empty"

-----------------------------------------------------------------------------
(* Properties                                                              *)

\* A text that was extracted is final: no worker, however late, and no
\* recovery changes the outcome of a completed attachment (worker.py finish).
TextIsFinal ==
    [][\A a \in Attachment :
          attachments[a].status = "completed" =>
             attachments'[a].status = "completed"]_vars

\* The cap on attempts holds up to the workers that stall: a late worker can
\* give a row back that another one holds for the last time, once each
\* (worker.py process_one and recover_stale).
AttemptsBounded ==
    /\ TypeOK
    /\ \A a \in Attachment :
          attachments[a].attempts <= MaxAttempts + Cardinality(Worker) - 1

\* While batches do not overlap, no restart, retry or repeated batch writes
\* the rows of an attachment twice or supplements a row twice
\* (document_extraction.go, processAttachmentForRuleExtraction's promise).
RowsOnce ==
    ~overlapped => \A r, t \in rows :
       r.kind = t.kind /\ r.att = t.att /\ r.from = t.from => r = t

\* What a reviewer decided stays decided: while batches do not overlap, no
\* batch removes a confirmed or rejected row or puts it back in the queue.
ReviewKept ==
    [][overlapped' \/ \A r \in rows : r.review \in Verdict =>
          \E t \in rows' : Same(r, t) /\ t.review \in Verdict]_vars

\* The two results a batch must not undo: the text of a worker and the verdict
\* of a reviewer.
ResultsStand == TextIsFinal /\ ReviewKept

\* Everything comes to rest: every attachment that may be claimed reaches an
\* outcome whatever workers do, "usually within the hour" a notice no longer
\* awaits its structured extraction, and no row awaits the language model for
\* ever, overlapping batches or not.
Settled ==
    /\ \A a \in Attachment :
          attachments[a].file # "outOfScope" =>
             attachments[a].status \notin {"pending", "processing"}
    /\ AnalysisStatus(Attachment) # "awaiting_structured_extraction"
    /\ \A kind \in Range(Kinds) : SupplementTargets(kind) = {}

AnalysisEnds == <>[]Settled
=============================================================================
