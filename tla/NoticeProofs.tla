---------------------------- MODULE NoticeProofs ----------------------------
(* What holds of a notice, from its attachments to what a company is told:  *)
(* of Extraction for any number of attachments, workers, batches, attempts  *)
(* and faults, and of Readiness for any number of requests, any versions of *)
(* the notice and anything the company may save, answer or upload.          *)
EXTENDS Extraction, Readiness, FiniteSetTheorems, WellFoundedInduction, TLAPS

-----------------------------------------------------------------------------
(* Attempts.  Beyond the cap only a worker that claimed before it can give   *)
(* the row back, so each of those stands for one more attempt at most; the   *)
(* worker that reached the cap is not among them.                            *)

Late(a) == {w \in Worker : Holds(w, a) /\ workers[w].attempt < MaxAttempts}

Waiting(a) == IF attachments[a].status = "pending" THEN 1 ELSE 0

LateCounted ==
    \A a \in Attachment : attachments[a].attempts >= MaxAttempts =>
        attachments[a].attempts + Cardinality(Late(a)) + Waiting(a)
            <= MaxAttempts + Cardinality(Worker) - 1

-----------------------------------------------------------------------------
(* Rows.                                                                     *)

\* Numbers are given out once.
Numbered(R, n) ==
    /\ \A r \in R : r.gen \in 1..n /\ r.from \in 0..n
    /\ \A r, s \in R : Same(r, s) => r = s

RowsNumbered ==
    /\ Numbered(rows, gen)
    /\ \A b \in Batch : \A t \in batches[b].targets : t.gen \in 1..gen

\* A row that was supplemented is marked.
Sourced(R) == \A r, s \in R : r.kind = s.kind /\ r.from = s.gen => s.attempted

SourcesMarked == Sourced(rows)

\* Rows are only of attachments that the rules have seen.
RowsProcessed ==
    /\ \A r \in rows : attachments[r.att].processed
    /\ \A b \in Batch : \A t \in batches[b].targets : attachments[t.att].processed

\* A batch that does not run has nothing to do, and runs alone if none overlap.
BatchesAlone ==
    /\ \A b \in Batch : ~Running(b) => Done(b)
    /\ ~overlapped => \A b, c \in Batch : Running(b) /\ Running(c) => b = c

\* What a batch that runs alone has selected is still to do.
TargetsFresh ==
    ~overlapped => \A b \in Batch :
        /\ \A a \in batches[b].atts : ~attachments[a].processed
        /\ \A s, t \in batches[b].targets : Same(s, t) => s = t
        /\ \A t \in batches[b].targets, r \in rows :
               ~(r.kind = t.kind /\ r.from = t.gen)

\* What RowsOnce says of the rows.
Once(R) ==
    \A r, t \in R : r.kind = t.kind /\ r.att = t.att /\ r.from = t.from => r = t

AnalysisInv ==
    /\ TypeOK
    /\ RowsNumbered /\ SourcesMarked /\ RowsProcessed
    /\ BatchesAlone /\ TargetsFresh
    /\ RowsOnce

ExtractionInv == AnalysisInv /\ LateCounted

-----------------------------------------------------------------------------
(* An UPDATE of rows: none comes or goes, none changes its name or source,   *)
(* no watermark is taken away and no verdict.                                *)

Revised(r, x) ==
    /\ x.kind = r.kind /\ x.gen = r.gen /\ x.att = r.att /\ x.from = r.from
    /\ r.attempted => x.attempted
    /\ r.review \in Verdict => x.review \in Verdict

Revision(N) ==
    \E F \in [rows -> Row] : /\ \A r \in rows : Revised(r, F[r])
                            /\ N = {F[r] : r \in rows}

LEMMA UpdateMarks ==
    ASSUME TypeOK, NEW t
    PROVE  /\ Revision(Update(t, Marked))
           /\ \A x \in Update(t, Marked) : Same(x, t) => x.attempted
<1> DEFINE F == [r \in rows |-> IF Same(r, t) THEN [r EXCEPT !.attempted = TRUE] ELSE r]
<1>1. Update(t, Marked) = {F[r] : r \in rows}
  BY DEF Update, Marked
<1>2. ASSUME NEW r \in rows
      PROVE  F[r] \in Row /\ Revised(r, F[r]) /\ (Same(F[r], t) => F[r].attempted)
  BY DEF TypeOK, Row, Revised, Same
<1> QED BY <1>1, <1>2 DEF Revision

LEMMA UpdateFails ==
    ASSUME TypeOK, NEW b \in Batch, NEW t \in batches[b].targets, CallFails(b, t)
    PROVE  Revision(rows')
<1> DEFINE n == t.attempts + 1
           F == [r \in rows |->
                   IF Same(r, t)
                   THEN [r EXCEPT !.attempts = n, !.attempted = @ \/ n >= MaxSupplement]
                   ELSE r]
<1>1. n \in Nat
  BY DEF TypeOK, Row
<1>2. rows' = {F[r] : r \in rows}
  BY DEF CallFails, Update
<1>3. ASSUME NEW r \in rows PROVE F[r] \in Row /\ Revised(r, F[r])
  <2>1. r \in Row
    BY DEF TypeOK
  <2>2. CASE Same(r, t)
    <3>1. F[r] = [r EXCEPT !.attempts = n, !.attempted = @ \/ n >= MaxSupplement]
      BY <2>2
    <3> HIDE DEF n
    <3>2. F[r] \in Row
      BY <1>1, <2>1, <3>1 DEF Row
    <3> QED BY <2>1, <3>1, <3>2 DEF Revised, Row
  <2> QED BY <2>1, <2>2 DEF Revised
<1> QED BY <1>2, <1>3 DEF Revision

LEMMA UpdateReviews ==
    ASSUME TypeOK, NEW t \in rows, NEW v \in Verdict, Review(t, v)
    PROVE  Revision(rows')
<1> DEFINE F == [r \in rows |-> IF Same(r, t) THEN [r EXCEPT !.review = v] ELSE r]
<1>1. rows' = {F[r] : r \in rows}
  BY DEF Review, Update
<1>2. ASSUME NEW r \in rows PROVE F[r] \in Row /\ Revised(r, F[r])
  BY DEF TypeOK, Row, Revised
<1> QED BY <1>1, <1>2 DEF Revision

LEMMA RevisedRows ==
    ASSUME TypeOK, NEW N, Revision(N)
    PROVE  /\ N \subseteq Row
           /\ \A x \in N : \E r \in rows : Revised(r, x)
           /\ \A r \in rows : \E x \in N : Revised(r, x)
           /\ \A n \in Nat : Numbered(rows, n) => Numbered(N, n)
           /\ Sourced(rows) => Sourced(N)
           /\ Once(rows) => Once(N)
<1>1. PICK F \in [rows -> Row] : /\ \A r \in rows : Revised(r, F[r])
                                 /\ N = {F[r] : r \in rows}
  BY DEF Revision
<1>2. N \subseteq Row /\ (\A x \in N : \E r \in rows : x = F[r])
  BY <1>1
<1>3. ASSUME NEW n \in Nat, Numbered(rows, n) PROVE Numbered(N, n)
  BY <1>1, <1>2, <1>3 DEF Numbered, Same, Revised
<1>4. ASSUME Sourced(rows) PROVE Sourced(N)
  BY <1>1, <1>2, <1>4 DEF Sourced, Revised
<1>5. ASSUME Once(rows) PROVE Once(N)
  BY <1>1, <1>2, <1>5 DEF Once, Revised
<1> QED BY <1>1, <1>2, <1>3, <1>4, <1>5

-----------------------------------------------------------------------------
(* Types.                                                                    *)

LEMMA PhasesAre == Len(Phases) \in Nat /\ Len(Phases) >= 1
  BY ExtractionAssumption DEF Phases

Attachments == [Attachment -> [file : File, status : ExtractionStatus,
                               attempts : Nat, processed : BOOLEAN]]

\* What the steps of a worker leave of the attachments.
LEMMA WrittenType ==
    ASSUME TypeOK, NEW a \in Attachment, NEW s \in ExtractionStatus, Write(a, s)
    PROVE  /\ attachments' \in Attachments
           /\ \A x \in Attachment :
                  /\ attachments'[x].processed = attachments[x].processed
                  /\ attachments'[x].attempts = attachments[x].attempts
                  /\ attachments'[x].status =
                        IF x = a /\ attachments[x].status = "processing"
                        THEN s ELSE attachments[x].status
  BY DEF TypeOK, Write, Attachments

LEMMA ReleasedType ==
    ASSUME TypeOK, NEW w \in Worker, Release(w)
    PROVE  /\ workers' \in [Worker -> [att : Attachment \cup {None}, attempt : Nat]]
           /\ workers'[w].att = None
           /\ \A v \in Worker \ {w} : workers'[v] = workers[v]
  BY DEF TypeOK, Release, Held

LEMMA ClaimedType ==
    ASSUME TypeOK, NEW w \in Worker, NEW a \in Attachment, Claim(w, a)
    PROVE  /\ attachments' \in Attachments
           /\ workers' \in [Worker -> [att : Attachment \cup {None}, attempt : Nat]]
           /\ workers'[w] = [att |-> a, attempt |-> attachments[a].attempts + 1]
           /\ \A v \in Worker \ {w} : workers'[v] = workers[v]
           /\ \A x \in Attachment \ {a} : attachments'[x] = attachments[x]
           /\ attachments'[a].status = "processing"
           /\ attachments'[a].attempts = attachments[a].attempts + 1
           /\ attachments'[a].processed = attachments[a].processed
<1>1. workers[w] \in [att : Attachment \cup {None}, attempt : Nat]
  BY DEF TypeOK
<1>2. /\ attachments[a].attempts \in Nat
      /\ attachments[a] \in [file : File, status : ExtractionStatus,
                             attempts : Nat, processed : BOOLEAN]
  BY DEF TypeOK
<1>3. attachments[a].attempts + 1 \in Nat
  BY <1>2
<1>4. attachments' = [attachments EXCEPT ![a] =
                         [attachments[a] EXCEPT !.status = "processing",
                                                !.attempts = attachments[a].attempts + 1]]
  BY DEF Claim, TypeOK
<1>5. [attachments[a] EXCEPT !.status = "processing",
                             !.attempts = attachments[a].attempts + 1]
        \in [file : File, status : ExtractionStatus, attempts : Nat, processed : BOOLEAN]
  BY <1>2, <1>3 DEF ExtractionStatus
<1>6. attachments' \in Attachments
  BY <1>4, <1>5 DEF TypeOK, Attachments
<1>7. workers' = [workers EXCEPT ![w] = [att |-> a, attempt |-> attachments[a].attempts + 1]]
  BY DEF Claim, Held
<1>8. workers' \in [Worker -> [att : Attachment \cup {None}, attempt : Nat]]
  BY <1>3, <1>7 DEF TypeOK
<1> QED BY <1>2, <1>4, <1>6, <1>7, <1>8 DEF TypeOK

LEMMA WorkerKeeps ==
    ASSUME TypeOK, WorkerNext
    PROVE  /\ TypeOK' /\ UNCHANGED analysis
           /\ \A x \in Attachment : attachments'[x].processed = attachments[x].processed
<1>1. ASSUME NEW w \in Worker, NEW a \in Attachment, Claim(w, a)
      PROVE  /\ TypeOK' /\ UNCHANGED analysis
             /\ \A x \in Attachment : attachments'[x].processed = attachments[x].processed
  <2>1. UNCHANGED analysis
    BY <1>1 DEF Claim
  <2> QED BY <1>1, <2>1, ClaimedType DEF TypeOK, analysis, Attachments
<1>2. ASSUME NEW w \in Worker, NEW a \in Attachment, ProcessOne(w, a)
      PROVE  /\ TypeOK' /\ UNCHANGED analysis
             /\ \A x \in Attachment : attachments'[x].processed = attachments[x].processed
  <2>1. PICK s \in ExtractionStatus : Write(a, s)
    BY <1>2 DEF ProcessOne, RefuseType, Requeue, Fail, Complete, ExtractionStatus
  <2>2. Release(w) /\ UNCHANGED analysis
    BY <1>2 DEF ProcessOne, RefuseType, Requeue, Fail, Complete
  <2> QED BY <2>1, <2>2, WrittenType, ReleasedType DEF TypeOK, analysis, Attachments
<1>3. ASSUME NEW a \in Attachment, RecoverStale(a)
      PROVE  /\ TypeOK' /\ UNCHANGED analysis
             /\ \A x \in Attachment : attachments'[x].processed = attachments[x].processed
  <2>1. PICK s \in ExtractionStatus : Write(a, s)
    BY <1>3 DEF RecoverStale, ExtractionStatus, Write
  <2>2. UNCHANGED <<workers, analysis>>
    BY <1>3 DEF RecoverStale
  <2> QED BY <2>1, <2>2, WrittenType DEF TypeOK, analysis, Attachments
<1>4. ASSUME NEW w \in Worker, WorkerDies(w)
      PROVE  /\ TypeOK' /\ UNCHANGED analysis
             /\ \A x \in Attachment : attachments'[x].processed = attachments[x].processed
  <2>1. Release(w) /\ UNCHANGED <<attachments, analysis>>
    BY <1>4 DEF WorkerDies
  <2> QED BY <2>1, ReleasedType DEF TypeOK, analysis
<1> QED BY <1>1, <1>2, <1>3, <1>4 DEF WorkerNext

Batches == [Batch -> [phase : 0..Len(Phases), atts : SUBSET Attachment,
                      targets : SUBSET Row]]

\* A batch drops what it has dealt with, and no other changes.
LEMMA DropsAttachments ==
    ASSUME TypeOK, NEW b \in Batch, NEW A \in SUBSET Attachment,
           batches' = [batches EXCEPT ![b].atts = A]
    PROVE  /\ batches' \in Batches
           /\ batches'[b].phase = batches[b].phase /\ batches'[b].atts = A
           /\ batches'[b].targets = batches[b].targets
           /\ \A c \in Batch \ {b} : batches'[c] = batches[c]
<1>1. batches \in Batches
  BY DEF TypeOK, Batches
<1> QED BY <1>1 DEF Batches

LEMMA DropsTargets ==
    ASSUME TypeOK, NEW b \in Batch, NEW T \in SUBSET Row,
           batches' = [batches EXCEPT ![b].targets = T]
    PROVE  /\ batches' \in Batches
           /\ batches'[b].phase = batches[b].phase /\ batches'[b].targets = T
           /\ batches'[b].atts = batches[b].atts
           /\ \A c \in Batch \ {b} : batches'[c] = batches[c]
<1>1. batches \in Batches
  BY DEF TypeOK, Batches
<1> QED BY <1>1 DEF Batches

LEMMA Enters ==
    ASSUME TypeOK, NEW b \in Batch, NEW n \in 1..Len(Phases), Enter(b, n)
    PROVE  /\ batches' \in Batches
           /\ batches'[b].phase = n
           /\ batches'[b].atts = IF n = 1 THEN RuleTargets ELSE {}
           /\ batches'[b].targets = IF n = 1 THEN {} ELSE SupplementTargets(Phases[n])
           /\ \A c \in Batch \ {b} : batches'[c] = batches[c]
<1>1. batches \in Batches /\ n \in 0..Len(Phases)
  BY PhasesAre DEF TypeOK, Batches
<1>2. RuleTargets \subseteq Attachment /\ SupplementTargets(Phases[n]) \subseteq Row
  BY DEF RuleTargets, SupplementTargets, TypeOK
<1> QED BY <1>1, <1>2 DEF Enter, Batches

LEMMA Idles ==
    ASSUME TypeOK, NEW b \in Batch, batches' = [batches EXCEPT ![b] = Idle]
    PROVE  /\ batches' \in Batches /\ batches'[b] = Idle
           /\ \A c \in Batch \ {b} : batches'[c] = batches[c]
<1>1. batches \in Batches /\ 0 \in 0..Len(Phases)
  BY PhasesAre DEF TypeOK, Batches
<1>2. Idle \in [phase : 0..Len(Phases), atts : SUBSET Attachment, targets : SUBSET Row]
  BY <1>1 DEF Idle
<1> QED BY <1>1, <1>2 DEF Batches

-----------------------------------------------------------------------------
(* The analysis, action by action.                                           *)

LEMMA AnalysisInit == Init => AnalysisInv
<1> SUFFICES ASSUME Init PROVE AnalysisInv
  OBVIOUS
<1> USE DEF Init
<1>1. Idle \in [phase : 0..Len(Phases), atts : SUBSET Attachment, targets : SUBSET Row]
      /\ Idle.phase = 0 /\ Idle.atts = {} /\ Idle.targets = {}
  BY PhasesAre DEF Idle
<1>2. TypeOK
  <2>1. \A w \in Worker : workers[w] = [att |-> None, attempt |-> 0]
    BY DEF Held
  <2>2. attachments \in Attachments
    <3>1. ASSUME NEW x \in [file : File, status : {"pending"}, attempts : {0},
                            processed : {FALSE}]
          PROVE  x \in [file : File, status : ExtractionStatus, attempts : Nat,
                        processed : BOOLEAN]
      <4>1. x = [file |-> x.file, status |-> "pending", attempts |-> 0, processed |-> FALSE]
            /\ x.file \in File
        OBVIOUS
      <4>2. "pending" \in ExtractionStatus /\ 0 \in Nat /\ FALSE \in BOOLEAN
        BY DEF ExtractionStatus
      <4> QED BY <4>1, <4>2
    <3> QED BY <3>1 DEF Attachments
  <2>3. workers \in [Worker -> [att : Attachment \cup {None}, attempt : Nat]]
    BY DEF Held
  <2>4. 0 \in 0..MaxFaults
    BY ExtractionAssumption
  <2> QED BY <1>1, <2>2, <2>3, <2>4 DEF TypeOK, Attachments
<1>3. \A b \in Batch : batches[b] = Idle
  OBVIOUS
<1> QED BY <1>1, <1>2, <1>3
        DEF AnalysisInv, RowsNumbered, Numbered, SourcesMarked, Sourced, RowsProcessed,
            BatchesAlone, Running, Done, TargetsFresh, RowsOnce

LEMMA WorkerAnalysis == AnalysisInv /\ WorkerNext => AnalysisInv'
<1> SUFFICES ASSUME AnalysisInv, WorkerNext PROVE AnalysisInv'
  OBVIOUS
<1>1. /\ TypeOK /\ TypeOK' /\ UNCHANGED analysis
      /\ \A x \in Attachment : attachments'[x].processed = attachments[x].processed
  BY WorkerKeeps DEF AnalysisInv
<1>2. /\ \A r \in rows : r.att \in Attachment
      /\ \A b \in Batch : batches[b].atts \subseteq Attachment
      /\ \A b \in Batch : \A t \in batches[b].targets : t.att \in Attachment
  BY <1>1 DEF TypeOK, Row
<1>3. RowsProcessed'
  BY <1>1, <1>2 DEF AnalysisInv, RowsProcessed, analysis
<1>4. TargetsFresh'
  BY <1>1, <1>2 DEF AnalysisInv, TargetsFresh, analysis, Same
<1>5. RowsNumbered' /\ SourcesMarked' /\ BatchesAlone' /\ RowsOnce'
  BY <1>1 DEF AnalysisInv, RowsNumbered, Numbered, Same, SourcesMarked, Sourced,
              BatchesAlone, Running, Done, RowsOnce, analysis
<1> QED BY <1>1, <1>3, <1>4, <1>5 DEF AnalysisInv

\* No batch starts, and none has more to do than before.
Shrink ==
    /\ batches' \in Batches
    /\ \A c \in Batch : /\ batches'[c].phase = batches[c].phase
                        /\ batches'[c].atts \subseteq batches[c].atts
                        /\ batches'[c].targets \subseteq batches[c].targets

LEMMA ShrinkAlone ==
    ASSUME BatchesAlone, Shrink, overlapped' = overlapped
    PROVE  BatchesAlone'
<1>1. \A c \in Batch : Running(c)' = Running(c)
  BY DEF Shrink, Running
<1> QED BY <1>1 DEF Shrink, BatchesAlone, Done

LEMMA Skips ==
    ASSUME TypeOK, NEW b \in Batch
    PROVE  /\ \A a : batches' = [batches EXCEPT ![b].atts = @ \ {a}] => Shrink
           /\ \A t : Dismiss(b, t) =>
                  Shrink /\ batches'[b].targets = batches[b].targets \ {t}
<1>1. batches \in Batches
  BY DEF TypeOK, Batches
<1>2. ASSUME NEW a, batches' = [batches EXCEPT ![b].atts = @ \ {a}] PROVE Shrink
  <2>1. batches' = [batches EXCEPT ![b].atts = batches[b].atts \ {a}]
    BY <1>2
  <2>2. batches[b].atts \ {a} \in SUBSET Attachment
    BY <1>1 DEF Batches
  <2>3. /\ batches' \in Batches
        /\ batches'[b].phase = batches[b].phase
        /\ batches'[b].atts = batches[b].atts \ {a}
        /\ batches'[b].targets = batches[b].targets
        /\ \A c \in Batch \ {b} : batches'[c] = batches[c]
    BY <2>1, <2>2, DropsAttachments
  <2> QED BY <2>3 DEF Shrink
<1>3. ASSUME NEW t, Dismiss(b, t)
      PROVE  Shrink /\ batches'[b].targets = batches[b].targets \ {t}
  <2>1. batches' = [batches EXCEPT ![b].targets = batches[b].targets \ {t}]
    BY <1>3 DEF Dismiss
  <2>2. batches[b].targets \ {t} \in SUBSET Row
    BY <1>1 DEF Batches
  <2>3. /\ batches' \in Batches
        /\ batches'[b].phase = batches[b].phase
        /\ batches'[b].atts = batches[b].atts
        /\ batches'[b].targets = batches[b].targets \ {t}
        /\ \A c \in Batch \ {b} : batches'[c] = batches[c]
    BY <2>1, <2>2, DropsTargets
  <2> QED BY <2>3 DEF Shrink
<1> QED BY <1>2, <1>3

LEMMA RevisedAnalysis ==
    ASSUME AnalysisInv, Revision(rows'), Shrink, faults' \in 0..MaxFaults,
           UNCHANGED <<extraction, gen, overlapped>>
    PROVE  AnalysisInv'
<1>0. TypeOK /\ UNCHANGED <<attachments, workers>>
  BY DEF AnalysisInv, extraction
<1>1. TypeOK'
  BY <1>0, RevisedRows DEF TypeOK, Shrink, Batches
<1>2. /\ \A x \in rows' : \E r \in rows : Revised(r, x)
      /\ \A n \in Nat : Numbered(rows, n) => Numbered(rows', n)
      /\ Sourced(rows) => Sourced(rows')
      /\ Once(rows) => Once(rows')
  BY <1>0, RevisedRows
<1>3. RowsNumbered'
  BY <1>0, <1>2 DEF AnalysisInv, RowsNumbered, TypeOK, Shrink
<1>4. SourcesMarked'
  BY <1>2 DEF AnalysisInv, SourcesMarked
<1>5. RowsProcessed'
  BY <1>0, <1>2 DEF AnalysisInv, RowsProcessed, Revised, Shrink
<1>6. TargetsFresh'
  <2> SUFFICES ASSUME ~overlapped', NEW c \in Batch
               PROVE  /\ \A a \in batches'[c].atts : ~attachments'[a].processed
                      /\ \A s, t \in batches'[c].targets : Same(s, t) => s = t
                      /\ \A t \in batches'[c].targets, r \in rows' :
                             ~(r.kind = t.kind /\ r.from = t.gen)
    BY DEF TargetsFresh, Same
  <2> QED BY <1>0, <1>2 DEF AnalysisInv, TargetsFresh, Revised, Shrink
<1>7. RowsOnce'
  BY <1>2 DEF AnalysisInv, RowsOnce, Once
<1> QED BY <1>1, <1>3, <1>4, <1>5, <1>6, <1>7, ShrinkAlone DEF AnalysisInv

LEMMA SameRows == TypeOK => Revision(rows)
<1> SUFFICES ASSUME TypeOK PROVE Revision(rows)
  OBVIOUS
<1> DEFINE F == [r \in rows |-> r]
<1>1. F \in [rows -> Row] /\ rows = {F[r] : r \in rows}
  BY DEF TypeOK
<1>2. \A r \in rows : Revised(r, F[r])
  BY DEF Revised
<1> QED BY <1>1, <1>2 DEF Revision

LEMMA StartAnalysis ==
    ASSUME AnalysisInv, NEW b \in Batch, StartBatch(b)
    PROVE  AnalysisInv'
<1>1. /\ TypeOK /\ ~Running(b) /\ Enter(b, 1)
      /\ UNCHANGED <<attachments, workers, rows, gen, faults>>
      /\ overlapped' = (overlapped \/ \E c \in Batch : Running(c))
  BY DEF StartBatch, AnalysisInv, extraction
<1>2. /\ batches' \in Batches
      /\ batches'[b].phase = 1
      /\ batches'[b].atts = RuleTargets /\ batches'[b].targets = {}
      /\ \A c \in Batch \ {b} : batches'[c] = batches[c]
  <2>1. 1 \in 1..Len(Phases)
    BY PhasesAre
  <2> QED BY <1>1, <2>1, Enters
<1>3. TypeOK'
  BY <1>1, <1>2 DEF TypeOK, Batches
<1>4. ASSUME ~overlapped' PROVE \A c \in Batch \ {b} : ~Running(c) /\ Done(c)
  BY <1>1, <1>4 DEF AnalysisInv, BatchesAlone
<1>5. BatchesAlone'
  <2>1. \A c \in Batch \ {b} : Running(c)' = Running(c) /\ Done(c)' = Done(c)
    BY <1>2 DEF Running, Done
  <2>2. Running(b)'
    BY <1>2 DEF Running
  <2>3. \A c \in Batch : ~Running(c)' => Done(c)'
    BY <2>1, <2>2 DEF AnalysisInv, BatchesAlone
  <2>4. ~overlapped' => \A c, d \in Batch : Running(c)' /\ Running(d)' => c = d
    BY <1>4, <2>1
  <2> QED BY <2>3, <2>4 DEF BatchesAlone
<1>6. TargetsFresh'
  <2> SUFFICES ASSUME ~overlapped', NEW c \in Batch
               PROVE  /\ \A a \in batches'[c].atts : ~attachments'[a].processed
                      /\ batches'[c].targets = {}
    BY DEF TargetsFresh
  <2>1. CASE c = b
    BY <1>1, <1>2, <2>1 DEF RuleTargets
  <2>2. CASE c # b
    BY <1>2, <1>4, <2>2 DEF Done
  <2> QED BY <2>1, <2>2
<1>7. RowsNumbered' /\ RowsProcessed'
  <2>1. \A c \in Batch : batches'[c].targets \subseteq batches[c].targets
    BY <1>2
  <2> QED BY <1>1, <2>1 DEF AnalysisInv, RowsNumbered, Numbered, Same, RowsProcessed
<1>8. SourcesMarked' /\ RowsOnce'
  BY <1>1 DEF AnalysisInv, SourcesMarked, Sourced, RowsOnce
<1> QED BY <1>3, <1>5, <1>6, <1>7, <1>8 DEF AnalysisInv

LEMMA PhaseAnalysis ==
    ASSUME AnalysisInv, NEW b \in Batch, NextPhase(b)
    PROVE  AnalysisInv'
<1>1. /\ TypeOK /\ Running(b) /\ Done(b)
      /\ UNCHANGED <<attachments, workers, rows, gen, overlapped, faults>>
  BY DEF NextPhase, AnalysisInv, extraction
<1>2. /\ batches' \in Batches /\ (batches'[b].phase = 0 => batches'[b] = Idle)
      /\ batches'[b].atts = {}
      /\ batches'[b].targets \subseteq {r \in rows : ~r.attempted}
      /\ \A c \in Batch \ {b} : batches'[c] = batches[c]
  <2>1. CASE batches[b].phase = Len(Phases)
    <3>1. batches' = [batches EXCEPT ![b] = Idle]
      BY <2>1 DEF NextPhase
    <3>2. /\ batches' \in Batches /\ batches'[b] = Idle
          /\ \A c \in Batch \ {b} : batches'[c] = batches[c]
      BY <1>1, <3>1, Idles
    <3>3. Idle.atts = {} /\ Idle.targets = {}
      BY DEF Idle
    <3> QED BY <3>2, <3>3
  <2>2. CASE batches[b].phase # Len(Phases)
    <3>1. batches[b].phase \in 0..Len(Phases)
      BY <1>1 DEF TypeOK
    <3>2. batches[b].phase + 1 \in 1..Len(Phases) /\ batches[b].phase + 1 # 1
          /\ batches[b].phase + 1 # 0
      BY <1>1, <2>2, <3>1, PhasesAre DEF Running
    <3>3. Enter(b, batches[b].phase + 1)
      BY <2>2 DEF NextPhase
    <3>4. SupplementTargets(Phases[batches[b].phase + 1]) \subseteq {r \in rows : ~r.attempted}
      BY DEF SupplementTargets
    <3> HIDE DEF Phases
    <3> QED BY <1>1, <3>2, <3>3, <3>4, Enters
  <2> QED BY <2>1, <2>2
<1>3. TypeOK'
  BY <1>1, <1>2 DEF TypeOK, Batches
<1>4. BatchesAlone'
  <2>1. \A c \in Batch \ {b} : Running(c)' = Running(c) /\ Done(c)' = Done(c)
    BY <1>2 DEF Running, Done
  <2>2. ~Running(b)' => Done(b)'
    BY <1>2 DEF Running, Done, Idle
  <2>3. \A c \in Batch : ~Running(c)' => Done(c)'
    BY <2>1, <2>2 DEF AnalysisInv, BatchesAlone
  <2>4. ~overlapped' => \A c, d \in Batch : Running(c)' /\ Running(d)' => c = d
    BY <1>1, <2>1 DEF AnalysisInv, BatchesAlone
  <2> QED BY <2>3, <2>4 DEF BatchesAlone
<1>5. TargetsFresh'
  <2> SUFFICES ASSUME ~overlapped', NEW c \in Batch
               PROVE  /\ \A a \in batches'[c].atts : ~attachments'[a].processed
                      /\ \A s, t \in batches'[c].targets : Same(s, t) => s = t
                      /\ \A t \in batches'[c].targets, r \in rows' :
                             ~(r.kind = t.kind /\ r.from = t.gen)
    BY DEF TargetsFresh, Same
  <2>1. CASE c = b
    BY <1>1, <1>2, <2>1 DEF AnalysisInv, RowsNumbered, Numbered, SourcesMarked, Sourced
  <2>2. CASE c # b
    BY <1>1, <1>2, <2>2 DEF AnalysisInv, TargetsFresh
  <2> QED BY <2>1, <2>2
<1>6. RowsNumbered' /\ RowsProcessed'
  <2>1. \A c \in Batch : \A t \in batches'[c].targets :
           t \in batches[c].targets \/ t \in rows
    BY <1>2
  <2> QED BY <1>1, <2>1 DEF AnalysisInv, RowsNumbered, Numbered, Same, RowsProcessed
<1>7. SourcesMarked' /\ RowsOnce'
  BY <1>1 DEF AnalysisInv, SourcesMarked, Sourced, RowsOnce
<1> QED BY <1>3, <1>4, <1>5, <1>6, <1>7 DEF AnalysisInv

LEMMA RuleRowIs ==
    ASSUME TypeOK, NEW k \in Range(Kinds), NEW a \in Attachment
    PROVE  /\ RuleRow(k, a) \in Row
           /\ RuleRow(k, a).kind = k /\ RuleRow(k, a).gen = gen + 1
           /\ RuleRow(k, a).att = a /\ RuleRow(k, a).from = 0
           /\ ~RuleRow(k, a).attempted
<1>1. gen + 1 \in Nat /\ 0 \in Nat
  BY DEF TypeOK
<1> QED BY <1>1 DEF RuleRow, Row

\* Rows of the rules beside rows that are kept.
LEMMA RuleRowsAdded ==
    ASSUME TypeOK, RowsNumbered, SourcesMarked,
           NEW K \in SUBSET rows, NEW a \in Attachment, NEW found \in SUBSET Range(Kinds),
           rows' = K \cup {RuleRow(k, a) : k \in found}, gen' = gen + 1
    PROVE  /\ rows' \subseteq Row /\ gen' \in Nat
           /\ Numbered(rows', gen') /\ SourcesMarked'
           /\ \A x \in rows' : x \in K \/ (x.att = a /\ x.from = 0 /\ x.gen = gen + 1)
           /\ \A x, y \in rows' :
                  x.gen = gen + 1 /\ y.gen = gen + 1 /\ x.kind = y.kind => x = y
<1>1. gen \in Nat /\ K \subseteq Row /\ Numbered(rows, gen) /\ Sourced(rows)
  BY DEF TypeOK, RowsNumbered, SourcesMarked
<1>2. ASSUME NEW x \in rows'
      PROVE  \/ x \in K /\ x.gen \in 1..gen /\ x.from \in 0..gen
             \/ /\ x \in Row /\ x.att = a /\ x.from = 0 /\ x.gen = gen + 1
                /\ \E k \in found : x = RuleRow(k, a) /\ x.kind = k
  <2>1. CASE x \in K
    BY <1>1, <2>1 DEF Numbered
  <2>2. CASE x \notin K
    <3>1. PICK k \in found : x = RuleRow(k, a)
      BY <2>2
    <3> QED BY <3>1, RuleRowIs
  <2> QED BY <2>1, <2>2
<1>3. \A x, y \in rows' : x.gen = gen + 1 /\ y.gen = gen + 1 /\ x.kind = y.kind => x = y
  BY <1>1, <1>2
<1>4. Numbered(rows', gen')
  <2>1. \A x \in rows' : x.gen \in 1..gen' /\ x.from \in 0..gen'
    BY <1>1, <1>2
  <2>2. ASSUME NEW x \in rows', NEW y \in rows', Same(x, y) PROVE x = y
    BY <1>1, <1>2, <1>3, <2>2 DEF Numbered, Same
  <2> QED BY <2>1, <2>2 DEF Numbered
<1>5. SourcesMarked'
  <2> SUFFICES ASSUME NEW x \in rows', NEW y \in rows', x.kind = y.kind, x.from = y.gen
               PROVE  y.attempted
    BY DEF SourcesMarked, Sourced
  <2> QED BY <1>1, <1>2 DEF Sourced
<1>6. rows' \subseteq Row /\ gen' \in Nat
  BY <1>1, <1>2
<1> QED BY <1>2, <1>3, <1>4, <1>5, <1>6

LEMMA RulesAnalysis ==
    ASSUME AnalysisInv, NEW b \in Batch, NEW a \in batches[b].atts, RuleExtract(b, a)
    PROVE  AnalysisInv' /\ (~overlapped => \A r \in rows : r \in rows')
<1>1. /\ TypeOK /\ a \in Attachment /\ gen \in Nat
      /\ gen' = gen + 1 /\ UNCHANGED <<workers, overlapped, faults>>
      /\ attachments' = [attachments EXCEPT ![a].processed = TRUE]
      /\ batches' = [batches EXCEPT ![b].atts = @ \ {a}]
  BY DEF RuleExtract, AnalysisInv, TypeOK
<1>2. Shrink /\ Running(b) /\ a \notin batches'[b].atts
  <2>1. batches' = [batches EXCEPT ![b].atts = batches[b].atts \ {a}]
    BY <1>1
  <2>2. batches[b].atts \ {a} \in SUBSET Attachment
    BY <1>1 DEF TypeOK
  <2>3. batches'[b].atts = batches[b].atts \ {a}
    <3>1. TypeOK
      BY <1>1
    <3> QED BY <2>1, <2>2, <3>1, DropsAttachments
  <2> QED BY <1>1, <2>3, Skips DEF RuleExtract
<1>3. PICK found \in SUBSET Range(Kinds) :
          rows' = {r \in rows : r.att # a} \cup {RuleRow(k, a) : k \in found}
  BY DEF RuleExtract
<1>4. /\ attachments' \in Attachments
      /\ attachments'[a].processed
      /\ \A x \in Attachment \ {a} : attachments'[x] = attachments[x]
  BY <1>1 DEF TypeOK, Attachments
<1> DEFINE K == {r \in rows : r.att # a}
<1>5. K \in SUBSET rows
  OBVIOUS
<1>6. RowsNumbered /\ SourcesMarked
  BY DEF AnalysisInv
<1> HIDE DEF K
<1>7. /\ rows' \subseteq Row /\ gen' \in Nat
      /\ Numbered(rows', gen') /\ SourcesMarked'
      /\ \A x \in rows' : x \in K \/ (x.att = a /\ x.from = 0 /\ x.gen = gen + 1)
      /\ \A x, y \in rows' :
             x.gen = gen + 1 /\ y.gen = gen + 1 /\ x.kind = y.kind => x = y
  BY <1>1, <1>3, <1>5, <1>6, RuleRowsAdded DEF K
<1>8. \A x \in K : x \in rows /\ x.att # a
  BY DEF K
<1>9. TypeOK'
  BY <1>1, <1>2, <1>4, <1>7 DEF TypeOK, Attachments, Shrink, Batches
<1>10. RowsNumbered'
  <2>1. \A c \in Batch : \A t \in batches'[c].targets : t.gen \in 1..gen
    BY <1>2, <1>6 DEF Shrink, RowsNumbered
  <2>2. \A n \in 1..gen : n \in 1..gen'
    BY <1>1
  <2> QED BY <1>7, <2>1, <2>2 DEF RowsNumbered
<1>11. RowsProcessed'
  <2>1. \A x \in Attachment : attachments[x].processed => attachments'[x].processed
    BY <1>4
  <2>2. /\ \A r \in rows : r.att \in Attachment
        /\ \A c \in Batch : \A t \in batches[c].targets : t.att \in Attachment
    BY <1>1 DEF TypeOK, Row
  <2>3. \A c \in Batch : batches'[c].targets \subseteq batches[c].targets
    BY <1>2 DEF Shrink
  <2> QED BY <1>4, <1>7, <1>8, <2>1, <2>2, <2>3 DEF AnalysisInv, RowsProcessed
<1>12. BatchesAlone'
  BY <1>1, <1>2, ShrinkAlone DEF AnalysisInv
<1>13. TargetsFresh'
  <2> SUFFICES ASSUME ~overlapped', NEW c \in Batch
               PROVE  /\ \A x \in batches'[c].atts : ~attachments'[x].processed
                      /\ \A s, t \in batches'[c].targets : Same(s, t) => s = t
                      /\ \A t \in batches'[c].targets, r \in rows' :
                             ~(r.kind = t.kind /\ r.from = t.gen)
    BY DEF TargetsFresh, Same
  <2>1. /\ batches'[c].atts \subseteq batches[c].atts /\ batches[c].atts \subseteq Attachment
        /\ batches'[c].targets \subseteq batches[c].targets
    BY <1>1, <1>2 DEF Shrink, TypeOK
  <2>2. a \notin batches'[c].atts
    <3>1. CASE c = b
      BY <1>2, <3>1
    <3>2. CASE c # b
      BY <1>1, <1>2, <2>1, <3>2 DEF AnalysisInv, BatchesAlone, Done
    <3> QED BY <3>1, <3>2
  <2>3. \A x \in batches'[c].atts : ~attachments'[x].processed
    BY <1>1, <1>4, <2>1, <2>2 DEF AnalysisInv, TargetsFresh
  <2>4. \A s, t \in batches'[c].targets : Same(s, t) => s = t
    BY <1>1, <2>1 DEF AnalysisInv, TargetsFresh
  <2>5. ASSUME NEW t \in batches'[c].targets, NEW r \in rows', r.kind = t.kind, r.from = t.gen
        PROVE  FALSE
    <3>1. t.gen \in 1..gen
      BY <1>6, <2>1 DEF RowsNumbered
    <3>2. r \in rows
      BY <1>7, <1>8, <2>5, <3>1
    <3> QED BY <1>1, <2>1, <2>5, <3>2 DEF AnalysisInv, TargetsFresh
  <2> QED BY <2>3, <2>4, <2>5
<1>14. RowsOnce'
  <2> SUFFICES ASSUME ~overlapped, NEW x \in rows', NEW y \in rows',
                      x.kind = y.kind, x.att = y.att, x.from = y.from
               PROVE  x = y
    BY <1>1 DEF RowsOnce
  <2> QED BY <1>7, <1>8 DEF AnalysisInv, RowsOnce
<1>15. ASSUME ~overlapped, NEW r \in rows PROVE r \in rows'
  <2>1. ~attachments[a].processed
    BY <1>15 DEF AnalysisInv, TargetsFresh
  <2>2. r.att # a
    BY <2>1 DEF AnalysisInv, RowsProcessed
  <2> QED BY <1>3, <2>2
<1> QED BY <1>7, <1>9, <1>10, <1>11, <1>12, <1>13, <1>14, <1>15 DEF AnalysisInv

LEMMA BlindAnalysis ==
    ASSUME AnalysisInv, NEW b \in Batch, NEW a \in batches[b].atts, RuleExtractBlind(b, a)
    PROVE  AnalysisInv' /\ (\A r \in rows : r \in rows')
<1>1. /\ TypeOK /\ a \in Attachment /\ gen \in Nat
      /\ gen' = gen + 1 /\ UNCHANGED <<attachments, workers, overlapped, faults>>
      /\ batches' = [batches EXCEPT ![b].atts = @ \ {a}]
  BY DEF RuleExtractBlind, AnalysisInv, TypeOK, extraction
<1>2. Shrink /\ overlapped
  <2>1. attachments[a].processed
    BY DEF RuleExtractBlind
  <2> QED BY <1>1, <2>1, Skips DEF AnalysisInv, TargetsFresh
<1>3. PICK found \in SUBSET Range(Kinds) : rows' = rows \cup {RuleRow(k, a) : k \in found}
  BY DEF RuleExtractBlind
<1>4. RowsNumbered /\ SourcesMarked /\ rows \in SUBSET rows
  BY DEF AnalysisInv
<1>5. /\ rows' \subseteq Row /\ gen' \in Nat
      /\ Numbered(rows', gen') /\ SourcesMarked'
      /\ \A x \in rows' : x \in rows \/ (x.att = a /\ x.from = 0 /\ x.gen = gen + 1)
  BY <1>1, <1>3, <1>4, RuleRowsAdded
<1>6. TypeOK'
  BY <1>1, <1>2, <1>5 DEF TypeOK, Shrink, Batches
<1>7. RowsNumbered'
  <2>1. \A c \in Batch : \A t \in batches'[c].targets : t.gen \in 1..gen
    BY <1>2, <1>4 DEF Shrink, RowsNumbered
  <2>2. \A n \in 1..gen : n \in 1..gen'
    BY <1>1
  <2> QED BY <1>5, <2>1, <2>2 DEF RowsNumbered
<1>8. RowsProcessed'
  <2>1. attachments[a].processed
    BY DEF RuleExtractBlind
  <2>2. \A c \in Batch : batches'[c].targets \subseteq batches[c].targets
    BY <1>2 DEF Shrink
  <2> QED BY <1>1, <1>5, <2>1, <2>2 DEF AnalysisInv, RowsProcessed
<1>9. BatchesAlone'
  BY <1>1, <1>2, ShrinkAlone DEF AnalysisInv
<1>10. TargetsFresh' /\ RowsOnce'
  BY <1>1, <1>2 DEF TargetsFresh, RowsOnce
<1> QED BY <1>3, <1>5, <1>6, <1>7, <1>8, <1>9, <1>10 DEF AnalysisInv

LEMMA SupplementAnalysis ==
    ASSUME AnalysisInv, NEW b \in Batch, NEW t \in batches[b].targets, Supplement(b, t)
    PROVE  AnalysisInv' /\ (\A r \in rows : \E x \in rows' : Revised(r, x))
<1>1. /\ TypeOK /\ gen \in Nat /\ t \in Row
      /\ UNCHANGED <<attachments, workers, overlapped, faults>>
      /\ Dismiss(b, t)
  BY DEF Supplement, AnalysisInv, TypeOK, extraction
<1>2. Shrink /\ batches'[b].targets = batches[b].targets \ {t}
  BY <1>1, Skips
<1> DEFINE N == Update(t, Marked)
           x == [t EXCEPT !.gen = gen + 1, !.from = t.gen, !.review = "pending"]
<1>3. Revision(N) /\ \A y \in N : Same(y, t) => y.attempted
  BY <1>1, UpdateMarks
<1>4. (rows' = N /\ gen' = gen) \/ (rows' = N \cup {x} /\ gen' = gen + 1)
  BY DEF Supplement
<1> HIDE DEF N
<1>5. /\ N \subseteq Row
      /\ \A y \in N : \E r \in rows : Revised(r, y)
      /\ \A r \in rows : \E y \in N : Revised(r, y)
      /\ Numbered(N, gen) /\ Sourced(N) /\ (~overlapped => Once(N))
  BY <1>1, <1>3, RevisedRows
     DEF AnalysisInv, RowsNumbered, SourcesMarked, RowsOnce, Once
<1>6. CASE rows' = N /\ gen' = gen
  <2>1. Revision(rows') /\ faults' \in 0..MaxFaults /\ UNCHANGED <<extraction, gen, overlapped>>
    BY <1>1, <1>3, <1>6 DEF TypeOK, extraction
  <2> QED BY <1>2, <1>5, <1>6, <2>1, RevisedAnalysis
<1>7. CASE rows' = N \cup {x} /\ gen' = gen + 1
  <2>1. t.gen \in 1..gen /\ attachments[t.att].processed
    BY DEF AnalysisInv, RowsNumbered, RowsProcessed
  <2>2. /\ x \in Row /\ x.kind = t.kind /\ x.gen = gen + 1 /\ x.att = t.att /\ x.from = t.gen
    <3>1. gen + 1 \in Nat /\ t.gen \in Nat
      BY <1>1 DEF Row
    <3>2. [t EXCEPT !.gen = gen + 1] \in Row
      BY <1>1, <3>1 DEF Row
    <3>3. [[t EXCEPT !.gen = gen + 1] EXCEPT !.from = t.gen] \in Row
      BY <3>1, <3>2 DEF Row
    <3>4. x = [[[t EXCEPT !.gen = gen + 1] EXCEPT !.from = t.gen] EXCEPT !.review = "pending"]
      OBVIOUS
    <3>5. x \in Row
      BY <3>3, <3>4 DEF Row
    <3> QED BY <1>1, <3>4, <3>5 DEF Row
  <2> HIDE DEF x
  <2>3. \A y \in N : y.gen \in 1..gen /\ y.from \in 0..gen
    BY <1>5 DEF Numbered
  <2>4. Numbered(rows', gen')
    <3>1. \A y \in rows' : y.gen \in 1..gen' /\ y.from \in 0..gen'
      BY <1>1, <1>7, <2>1, <2>2, <2>3
    <3>2. ASSUME NEW y \in rows', NEW z \in rows', Same(y, z) PROVE y = z
      BY <1>1, <1>5, <1>7, <2>2, <2>3, <3>2 DEF Numbered, Same
    <3> QED BY <3>1, <3>2 DEF Numbered
  <2>5. SourcesMarked'
    <3> SUFFICES ASSUME NEW y \in rows', NEW z \in rows', y.kind = z.kind, y.from = z.gen
                 PROVE  z.attempted
      BY DEF SourcesMarked, Sourced
    <3>1. z # x
      BY <1>1, <1>7, <2>1, <2>2, <2>3
    <3>2. CASE y = x
      BY <1>3, <1>7, <2>2, <3>1, <3>2 DEF Same
    <3>3. CASE y # x
      BY <1>5, <1>7, <3>1, <3>3 DEF Sourced
    <3> QED BY <3>2, <3>3
  <2>6. TypeOK'
    BY <1>1, <1>2, <1>5, <1>7, <2>2 DEF TypeOK, Shrink, Batches
  <2>7. RowsNumbered'
    <3>1. \A c \in Batch : \A s \in batches'[c].targets : s.gen \in 1..gen
      BY <1>2 DEF Shrink, AnalysisInv, RowsNumbered
    <3>2. \A n \in 1..gen : n \in 1..gen'
      BY <1>1, <1>7
    <3> QED BY <2>4, <3>1, <3>2 DEF RowsNumbered
  <2>8. RowsProcessed'
    <3>1. \A c \in Batch : batches'[c].targets \subseteq batches[c].targets
      BY <1>2 DEF Shrink
    <3>2. \A y \in rows' : attachments[y.att].processed
      BY <1>5, <1>7, <2>1, <2>2 DEF AnalysisInv, RowsProcessed, Revised
    <3> QED BY <1>1, <3>1, <3>2 DEF AnalysisInv, RowsProcessed
  <2>9. BatchesAlone'
    BY <1>1, <1>2, ShrinkAlone DEF AnalysisInv
  <2>10. TargetsFresh'
    <3> SUFFICES ASSUME ~overlapped', NEW c \in Batch
                 PROVE  /\ \A a \in batches'[c].atts : ~attachments'[a].processed
                        /\ \A r, s \in batches'[c].targets : Same(r, s) => r = s
                        /\ \A s \in batches'[c].targets, r \in rows' :
                               ~(r.kind = s.kind /\ r.from = s.gen)
      BY DEF TargetsFresh, Same
    <3>1. /\ batches'[c].atts \subseteq batches[c].atts
          /\ batches'[c].targets \subseteq batches[c].targets
      BY <1>2 DEF Shrink
    <3>2. ASSUME NEW s \in batches'[c].targets PROVE ~Same(s, t)
      <4>1. CASE c = b
        BY <1>1, <1>2, <3>1, <4>1 DEF AnalysisInv, TargetsFresh
      <4>2. CASE c # b
        <5>1. Running(b)
          BY DEF AnalysisInv, BatchesAlone, Done
        <5>2. Done(c)
          BY <1>1, <4>2, <5>1 DEF AnalysisInv, BatchesAlone
        <5> QED BY <3>1, <5>2 DEF Done
      <4> QED BY <4>1, <4>2
    <3>3. ASSUME NEW s \in batches'[c].targets, NEW r \in rows', r.kind = s.kind, r.from = s.gen
          PROVE  FALSE
      <4>1. CASE r = x
        BY <2>2, <3>2, <3>3, <4>1 DEF Same
      <4>2. CASE r # x
        <5>1. PICK q \in rows : Revised(q, r)
          BY <1>5, <1>7, <4>2
        <5> QED BY <1>1, <3>1, <3>3, <5>1 DEF AnalysisInv, TargetsFresh, Revised
      <4> QED BY <4>1, <4>2
    <3> QED BY <1>1, <3>1, <3>3 DEF AnalysisInv, TargetsFresh
  <2>11. RowsOnce'
    <3>1. ~overlapped => \A y \in N : ~(y.kind = x.kind /\ y.from = x.from)
      <4> SUFFICES ASSUME ~overlapped, NEW y \in N, y.kind = t.kind, y.from = t.gen
                   PROVE  FALSE
        BY <2>2
      <4>1. PICK q \in rows : Revised(q, y)
        BY <1>5
      <4> QED BY <4>1 DEF AnalysisInv, TargetsFresh, Revised
    <3> QED BY <1>1, <1>5, <1>7, <3>1 DEF RowsOnce, Once
  <2> QED BY <1>5, <1>7, <2>5, <2>6, <2>7, <2>8, <2>9, <2>10, <2>11 DEF AnalysisInv
<1> QED BY <1>4, <1>6, <1>7

LEMMA RestartAnalysis == AnalysisInv /\ Restart => AnalysisInv'
<1> SUFFICES ASSUME AnalysisInv, Restart PROVE AnalysisInv'
  OBVIOUS
<1>1. /\ TypeOK /\ faults' \in 0..MaxFaults
      /\ UNCHANGED <<attachments, workers, rows, gen, overlapped>>
      /\ batches' = [b \in Batch |-> Idle]
  BY ExtractionAssumption DEF Restart, AnalysisInv, TypeOK, extraction
<1>2. Idle.phase = 0 /\ Idle.atts = {} /\ Idle.targets = {}
  BY DEF Idle
<1>3. batches' \in Batches
  BY <1>1, PhasesAre DEF Idle, Batches
<1>4. TypeOK'
  BY <1>1, <1>3 DEF TypeOK, Batches
<1>5. \A b \in Batch : batches'[b] = Idle
  BY <1>1
<1> QED BY <1>1, <1>2, <1>4, <1>5
        DEF AnalysisInv, RowsNumbered, Numbered, Same, SourcesMarked, Sourced,
            RowsProcessed, BatchesAlone, Running, Done, TargetsFresh, RowsOnce

\* A step removes no verdict, unless batches overlapped.
VerdictsStay ==
    \A r \in rows : r.review \in Verdict =>
        \E t \in rows' : Same(r, t) /\ t.review \in Verdict

LEMMA KeptVerdicts ==
    /\ (\A r \in rows : r \in rows') => VerdictsStay
    /\ (\A r \in rows : \E x \in rows' : Revised(r, x)) => VerdictsStay
  BY DEF VerdictsStay, Same, Revised

LEMMA AnalysisStep ==
    ASSUME AnalysisInv, [Next]_vars
    PROVE  AnalysisInv' /\ (~overlapped => VerdictsStay)
<1>0. TypeOK
  BY DEF AnalysisInv
<1>1. CASE WorkerNext
  BY <1>0, <1>1, WorkerAnalysis, WorkerKeeps, KeptVerdicts DEF analysis
<1>2. ASSUME NEW b \in Batch, StartBatch(b) PROVE AnalysisInv' /\ VerdictsStay
  BY <1>2, StartAnalysis, KeptVerdicts DEF StartBatch
<1>3. ASSUME NEW b \in Batch, BatchStep(b)
      PROVE  AnalysisInv' /\ (~overlapped => VerdictsStay)
  <2>1. CASE NextPhase(b)
    BY <2>1, PhaseAnalysis, KeptVerdicts DEF NextPhase
  <2>2. ASSUME NEW a \in batches[b].atts, RuleExtract(b, a)
        PROVE  AnalysisInv' /\ (~overlapped => VerdictsStay)
    BY <2>2, RulesAnalysis, KeptVerdicts
  <2>3. ASSUME NEW a \in batches[b].atts, RuleExtractBlind(b, a)
        PROVE  AnalysisInv' /\ VerdictsStay
    BY <2>3, BlindAnalysis, KeptVerdicts
  <2>4. ASSUME NEW a \in batches[b].atts, SkipAttachment(b, a)
        PROVE  AnalysisInv' /\ VerdictsStay
    <3>1. /\ rows' = rows /\ faults' \in 0..MaxFaults
          /\ UNCHANGED <<extraction, gen, overlapped>>
          /\ batches' = [batches EXCEPT ![b].atts = @ \ {a}]
      BY <1>0, <2>4, ExtractionAssumption DEF SkipAttachment, TypeOK
    <3>2. Shrink /\ Revision(rows')
      BY <1>0, <3>1, Skips, SameRows
    <3> QED BY <3>1, <3>2, RevisedAnalysis, KeptVerdicts
  <2>5. ASSUME NEW t \in batches[b].targets, CallFails(b, t)
        PROVE  AnalysisInv' /\ VerdictsStay
    <3>1. /\ Dismiss(b, t) /\ faults' \in 0..MaxFaults
          /\ UNCHANGED <<extraction, gen, overlapped>>
      BY <1>0, <2>5 DEF CallFails, TypeOK
    <3>2. Shrink /\ Revision(rows')
      BY <1>0, <2>5, <3>1, Skips, UpdateFails
    <3> QED BY <1>0, <3>1, <3>2, RevisedAnalysis, RevisedRows, KeptVerdicts
  <2>6. ASSUME NEW t \in batches[b].targets, Supplement(b, t)
        PROVE  AnalysisInv' /\ VerdictsStay
    BY <2>6, SupplementAnalysis, KeptVerdicts
  <2>7. ASSUME NEW t \in batches[b].targets, SkipTarget(b, t)
        PROVE  AnalysisInv' /\ VerdictsStay
    <3>1. /\ rows' = rows /\ faults' \in 0..MaxFaults /\ Dismiss(b, t)
          /\ UNCHANGED <<extraction, gen, overlapped>>
      BY <1>0, <2>7, ExtractionAssumption DEF SkipTarget, TypeOK
    <3>2. Shrink /\ Revision(rows')
      BY <1>0, <3>1, Skips, SameRows
    <3> QED BY <3>1, <3>2, RevisedAnalysis, KeptVerdicts
  <2> QED BY <1>3, <2>1, <2>2, <2>3, <2>4, <2>5, <2>6, <2>7 DEF BatchStep
<1>4. CASE Restart
  BY <1>4, RestartAnalysis, KeptVerdicts DEF Restart
<1>5. ASSUME NEW r \in rows, NEW v \in Verdict, Review(r, v)
      PROVE  AnalysisInv' /\ VerdictsStay
  <2>1. UNCHANGED <<extraction, gen, batches, overlapped, faults>>
    BY <1>5 DEF Review
  <2>2. Revision(rows') /\ faults' \in 0..MaxFaults
    BY <1>0, <1>5, <2>1, UpdateReviews DEF TypeOK
  <2>3. Shrink
    BY <1>0, <2>1 DEF Shrink, TypeOK, Batches
  <2> QED BY <1>0, <2>1, <2>2, <2>3, RevisedAnalysis, RevisedRows, KeptVerdicts
<1>6. CASE UNCHANGED vars
  <2>1. /\ UNCHANGED <<extraction, rows, gen, batches, overlapped, faults>>
        /\ faults' \in 0..MaxFaults
    BY <1>0, <1>6 DEF vars, extraction, TypeOK
  <2>2. Shrink /\ Revision(rows')
    BY <1>0, <2>1, SameRows DEF Shrink, TypeOK, Batches
  <2> QED BY <2>1, <2>2, RevisedAnalysis, KeptVerdicts
<1> QED BY <1>1, <1>2, <1>3, <1>4, <1>5, <1>6 DEF Next, ReviewNext

-----------------------------------------------------------------------------
(* The queue, action by action.                                              *)

\* The analysis only marks attachments.
LEMMA AnalysisLeaves ==
    ASSUME TypeOK, [Next]_vars, ~WorkerNext
    PROVE  /\ workers' = workers
           /\ \A x \in Attachment :
                  /\ attachments'[x].status = attachments[x].status
                  /\ attachments'[x].attempts = attachments[x].attempts
<1>1. ASSUME NEW b \in Batch, NEW a \in batches[b].atts, RuleExtract(b, a)
      PROVE  /\ workers' = workers
             /\ \A x \in Attachment :
                    /\ attachments'[x].status = attachments[x].status
                    /\ attachments'[x].attempts = attachments[x].attempts
  <2>1. attachments \in Attachments /\ attachments' = [attachments EXCEPT ![a].processed = TRUE]
    BY <1>1 DEF TypeOK, Attachments, RuleExtract
  <2> QED BY <1>1, <2>1 DEF RuleExtract, Attachments
<1>2. \/ \E b \in Batch : \E a \in batches[b].atts : RuleExtract(b, a)
      \/ UNCHANGED extraction
  BY DEF Next, vars, extraction, StartBatch, BatchStep, NextPhase, RuleExtractBlind,
         SkipAttachment, CallFails, Supplement, SkipTarget, Restart, ReviewNext, Review
<1> QED BY <1>1, <1>2 DEF extraction

\* A worker claims a row that is waiting, writes to one that is being processed and
\* lets it go, or gives it back as stale.
Claims(w, a) ==
    /\ workers[w].att = None
    /\ attachments[a].status = "pending"
    /\ attachments'[a].status = "processing"
    /\ attachments'[a].attempts = attachments[a].attempts + 1
    /\ workers'[w] = [att |-> a, attempt |-> attachments[a].attempts + 1]
    /\ \A v \in Worker \ {w} : workers'[v] = workers[v]
    /\ \A x \in Attachment \ {a} : attachments'[x] = attachments[x]

Writes(a, s) ==
    \A x \in Attachment :
        /\ attachments'[x].attempts = attachments[x].attempts
        /\ attachments'[x].status = IF x = a /\ attachments[x].status = "processing"
                                    THEN s ELSE attachments[x].status

LetsGo(w) ==
    /\ workers'[w].att = None
    /\ \A v \in Worker \ {w} : workers'[v] = workers[v]

LEMMA WorkerSteps ==
    ASSUME TypeOK, WorkerNext
    PROVE  \/ \E w \in Worker, a \in Attachment : Claims(w, a)
           \/ \E w \in Worker, a \in Attachment, s \in ExtractionStatus :
                 /\ Holds(w, a) /\ Writes(a, s) /\ LetsGo(w)
                 /\ s = "pending" => workers[w].attempt < MaxAttempts
           \/ \E a \in Attachment, s \in ExtractionStatus :
                 /\ workers' = workers /\ Writes(a, s)
                 /\ s = "pending" => ~(attachments[a].attempts >= MaxAttempts)
           \/ \E w \in Worker : attachments' = attachments /\ LetsGo(w)
<1>1. ASSUME NEW w \in Worker, NEW a \in Attachment, Claim(w, a) PROVE Claims(w, a)
  BY <1>1, ClaimedType DEF Claims, Claim, Holds
<1>2. ASSUME NEW w \in Worker, NEW a \in Attachment, ProcessOne(w, a)
      PROVE  \E s \in ExtractionStatus :
                 /\ Holds(w, a) /\ Writes(a, s) /\ LetsGo(w)
                 /\ s = "pending" => workers[w].attempt < MaxAttempts
  <2>1. PICK s \in ExtractionStatus :
             Write(a, s) /\ (s = "pending" => workers[w].attempt < MaxAttempts)
    BY <1>2 DEF ProcessOne, RefuseType, Requeue, Fail, Complete, ExtractionStatus
  <2>2. Release(w) /\ Holds(w, a)
    BY <1>2 DEF ProcessOne, RefuseType, Requeue, Fail, Complete
  <2>3. Writes(a, s) /\ LetsGo(w)
    BY <2>1, <2>2, WrittenType, ReleasedType DEF Writes, LetsGo
  <2> QED BY <2>1, <2>2, <2>3
<1>3. ASSUME NEW a \in Attachment, RecoverStale(a)
      PROVE  \E s \in ExtractionStatus :
                 /\ workers' = workers /\ Writes(a, s)
                 /\ s = "pending" => ~(attachments[a].attempts >= MaxAttempts)
  <2>1. PICK s \in ExtractionStatus :
             Write(a, s) /\ (s = "pending" => ~(attachments[a].attempts >= MaxAttempts))
    BY <1>3 DEF RecoverStale, ExtractionStatus, Write
  <2>2. Writes(a, s)
    BY <2>1, WrittenType DEF Writes
  <2> QED BY <1>3, <2>1, <2>2 DEF RecoverStale
<1>4. ASSUME NEW w \in Worker, WorkerDies(w) PROVE attachments' = attachments /\ LetsGo(w)
  BY <1>4, ReleasedType DEF WorkerDies, LetsGo
<1> QED BY <1>1, <1>2, <1>3, <1>4 DEF WorkerNext

LEMMA TextStep ==
    ASSUME TypeOK, [Next]_vars, NEW a \in Attachment, attachments[a].status = "completed"
    PROVE  attachments'[a].status = "completed"
<1>1. CASE WorkerNext
  BY <1>1, WorkerSteps DEF Claims, Writes
<1>2. CASE ~WorkerNext
  BY <1>2, AnalysisLeaves
<1> QED BY <1>1, <1>2

LEMMA LateIsFinite ==
    ASSUME NEW a
    PROVE  /\ IsFiniteSet(Late(a)) /\ Cardinality(Late(a)) \in Nat
           /\ Cardinality(Worker) \in Nat
<1>1. Late(a) \subseteq Worker /\ IsFiniteSet(Worker)
  BY ExtractionAssumption DEF Late
<1> QED BY <1>1, FS_Subset, FS_CardinalityType

LEMMA LateInit == Init => LateCounted
<1> SUFFICES ASSUME Init, NEW a \in Attachment PROVE ~(attachments[a].attempts >= MaxAttempts)
  BY DEF LateCounted
<1>1. attachments[a].attempts = 0
  BY DEF Init
<1> QED BY <1>1, ExtractionAssumption

LEMMA AttemptsFit == TypeOK /\ LateCounted => AttemptsBounded
<1> SUFFICES ASSUME TypeOK, LateCounted, NEW a \in Attachment
             PROVE  attachments[a].attempts <= MaxAttempts + Cardinality(Worker) - 1
  BY DEF AttemptsBounded
<1>1. attachments[a].attempts \in Nat /\ Waiting(a) \in {0, 1} /\ MaxAttempts \in Nat
  BY ExtractionAssumption DEF TypeOK, Waiting
<1>2. CASE attachments[a].attempts >= MaxAttempts
  BY <1>1, <1>2, LateIsFinite DEF LateCounted
<1>3. CASE ~(attachments[a].attempts >= MaxAttempts)
  BY <1>1, <1>3, LateIsFinite
<1> QED BY <1>2, <1>3

\* Nobody joins the late workers of an attachment that is not claimed.
LEMMA LateStep ==
    ASSUME TypeOK, LateCounted, [Next]_vars
    PROVE  LateCounted'
<1> SUFFICES ASSUME NEW a \in Attachment, (attachments[a].attempts >= MaxAttempts)'
             PROVE  (attachments[a].attempts + Cardinality(Late(a)) + Waiting(a)
                       <= MaxAttempts + Cardinality(Worker) - 1)'
  BY DEF LateCounted
<1>0. /\ attachments[a].attempts \in Nat /\ MaxAttempts \in Nat
      /\ Waiting(a) \in {0, 1} /\ Waiting(a)' \in {0, 1}
      /\ IsFiniteSet(Late(a)) /\ Cardinality(Late(a)) \in Nat /\ Cardinality(Worker) \in Nat
  BY LateIsFinite, ExtractionAssumption DEF TypeOK, Waiting
<1>1. ASSUME Late(a)' \subseteq Late(a), Waiting(a)' <= Waiting(a),
             attachments'[a].attempts = attachments[a].attempts
      PROVE  (attachments[a].attempts + Cardinality(Late(a)) + Waiting(a)
                <= MaxAttempts + Cardinality(Worker) - 1)'
  <2>1. Cardinality(Late(a)') <= Cardinality(Late(a)) /\ Cardinality(Late(a)') \in Nat
    BY <1>0, <1>1, FS_Subset, FS_CardinalityType
  <2> QED BY <1>0, <1>1, <2>1 DEF LateCounted
<1>2. ASSUME NEW w \in Worker, Claims(w, a)
      PROVE  (attachments[a].attempts + Cardinality(Late(a)) + Waiting(a)
                <= MaxAttempts + Cardinality(Worker) - 1)'
  <2>1. w \notin Late(a)' /\ Late(a)' \subseteq Late(a) /\ Waiting(a) = 1 /\ Waiting(a)' = 0
    BY <1>0, <1>2, ExtractionAssumption DEF Claims, Late, Holds, Waiting
  <2>2. Cardinality(Late(a)') <= Cardinality(Late(a)) /\ Cardinality(Late(a)') \in Nat
    BY <1>0, <2>1, FS_Subset, FS_CardinalityType
  <2>3. CASE attachments[a].attempts >= MaxAttempts
    BY <1>0, <1>2, <2>1, <2>2, <2>3 DEF LateCounted, Claims
  <2>4. CASE ~(attachments[a].attempts >= MaxAttempts)
    <3>1. attachments'[a].attempts = MaxAttempts
      BY <1>0, <1>2, <2>4 DEF Claims
    <3>2. /\ Late(a)' \subseteq Worker \ {w}
          /\ IsFiniteSet(Worker) /\ IsFiniteSet(Worker \ {w})
          /\ Cardinality(Worker \ {w}) = Cardinality(Worker) - 1
      BY <2>1, ExtractionAssumption, FS_RemoveElement DEF Late
    <3>3. Cardinality(Late(a)') <= Cardinality(Worker) - 1
      BY <3>2, FS_Subset
    <3> QED BY <1>0, <2>1, <2>2, <3>1, <3>3
  <2> QED BY <2>3, <2>4
<1>3. ASSUME NEW w \in Worker, NEW s \in ExtractionStatus, Holds(w, a), Writes(a, s), LetsGo(w),
             s = "pending" => workers[w].attempt < MaxAttempts
      PROVE  (attachments[a].attempts + Cardinality(Late(a)) + Waiting(a)
                <= MaxAttempts + Cardinality(Worker) - 1)'
  <2>1. Late(a)' \subseteq Late(a) \ {w}
    BY <1>3, ExtractionAssumption DEF LetsGo, Late, Holds
  <2>2. attachments'[a].attempts = attachments[a].attempts
    BY <1>3 DEF Writes
  <2>3. CASE Waiting(a)' <= Waiting(a)
    BY <1>1, <2>1, <2>2, <2>3
  <2>4. CASE ~(Waiting(a)' <= Waiting(a))
    <3>1. Waiting(a) = 0 /\ Waiting(a)' = 1 /\ w \in Late(a)
      BY <1>3, <2>4 DEF Waiting, Writes, Late
    <3>2. /\ Cardinality(Late(a) \ {w}) = Cardinality(Late(a)) - 1
          /\ IsFiniteSet(Late(a) \ {w})
      BY <1>0, <3>1, FS_RemoveElement
    <3>3. /\ Cardinality(Late(a)') <= Cardinality(Late(a)) - 1
          /\ Cardinality(Late(a)') \in Nat
      BY <2>1, <3>2, FS_Subset, FS_CardinalityType
    <3> QED BY <1>0, <2>2, <3>1, <3>3 DEF LateCounted
  <2> QED BY <2>3, <2>4
<1>4. ASSUME NEW s \in ExtractionStatus, workers' = workers, Writes(a, s),
             s = "pending" => ~(attachments[a].attempts >= MaxAttempts)
      PROVE  (attachments[a].attempts + Cardinality(Late(a)) + Waiting(a)
                <= MaxAttempts + Cardinality(Worker) - 1)'
  <2>1. attachments'[a].attempts = attachments[a].attempts /\ s # "pending"
    BY <1>4 DEF Writes
  <2>2. Late(a)' \subseteq Late(a) /\ Waiting(a)' <= Waiting(a)
    BY <1>4, <2>1 DEF Late, Holds, Waiting, Writes
  <2> QED BY <1>1, <2>1, <2>2
<1>5. ASSUME NEW w \in Worker, LetsGo(w), attachments'[a].status = attachments[a].status,
             attachments'[a].attempts = attachments[a].attempts
      PROVE  Late(a)' \subseteq Late(a) /\ Waiting(a)' <= Waiting(a)
  BY <1>0, <1>5, ExtractionAssumption DEF LetsGo, Late, Holds, Waiting
<1>6. ASSUME NEW w \in Worker, NEW x \in Attachment, x # a, Claims(w, x)
      PROVE  Late(a)' \subseteq Late(a) /\ Waiting(a)' <= Waiting(a)
  BY <1>0, <1>6 DEF Claims, Late, Holds, Waiting
<1>7. ASSUME NEW x \in Attachment, NEW s, x # a, Writes(x, s)
      PROVE  /\ attachments'[a].status = attachments[a].status
             /\ attachments'[a].attempts = attachments[a].attempts
  BY <1>7 DEF Writes
<1>8. CASE WorkerNext
  <2>1. CASE \E w \in Worker, x \in Attachment : Claims(w, x)
    <3>1. PICK w \in Worker, x \in Attachment : Claims(w, x)
      BY <2>1
    <3>2. CASE x = a
      BY <1>2, <3>1, <3>2
    <3>3. CASE x # a
      BY <1>1, <1>6, <3>1, <3>3 DEF Claims
    <3> QED BY <3>2, <3>3
  <2>2. CASE \E w \in Worker, x \in Attachment, s \in ExtractionStatus :
                 /\ Holds(w, x) /\ Writes(x, s) /\ LetsGo(w)
                 /\ s = "pending" => workers[w].attempt < MaxAttempts
    <3>1. PICK w \in Worker, x \in Attachment, s \in ExtractionStatus :
                 /\ Holds(w, x) /\ Writes(x, s) /\ LetsGo(w)
                 /\ s = "pending" => workers[w].attempt < MaxAttempts
      BY <2>2
    <3>2. CASE x = a
      BY <1>3, <3>1, <3>2
    <3>3. CASE x # a
      BY <1>1, <1>5, <1>7, <3>1, <3>3
    <3> QED BY <3>2, <3>3
  <2>3. CASE \E x \in Attachment, s \in ExtractionStatus :
                 /\ workers' = workers /\ Writes(x, s)
                 /\ s = "pending" => ~(attachments[x].attempts >= MaxAttempts)
    <3>1. PICK x \in Attachment, s \in ExtractionStatus :
                 /\ workers' = workers /\ Writes(x, s)
                 /\ s = "pending" => ~(attachments[x].attempts >= MaxAttempts)
      BY <2>3
    <3>2. CASE x = a
      BY <1>4, <3>1, <3>2
    <3>3. CASE x # a
      <4>1. Late(a)' \subseteq Late(a) /\ Waiting(a)' <= Waiting(a)
        BY <1>0, <1>7, <3>1, <3>3 DEF Late, Holds, Waiting
      <4> QED BY <1>1, <1>7, <3>1, <3>3, <4>1
    <3> QED BY <3>2, <3>3
  <2>4. CASE \E w \in Worker : attachments' = attachments /\ LetsGo(w)
    BY <1>1, <1>5, <2>4
  <2> QED BY <1>8, <2>1, <2>2, <2>3, <2>4, WorkerSteps
<1>9. CASE ~WorkerNext
  <2>1. /\ workers' = workers
        /\ attachments'[a].status = attachments[a].status
        /\ attachments'[a].attempts = attachments[a].attempts
    BY <1>9, AnalysisLeaves
  <2>2. Late(a)' \subseteq Late(a) /\ Waiting(a)' <= Waiting(a)
    BY <1>0, <2>1 DEF Late, Holds, Waiting
  <2> QED BY <1>1, <2>1, <2>2
<1> QED BY <1>8, <1>9

-----------------------------------------------------------------------------
(* The theorems.                                                             *)

LEMMA Invariance == Spec => []ExtractionInv
<1>1. Init => ExtractionInv
  BY AnalysisInit, LateInit DEF ExtractionInv
<1>2. ExtractionInv /\ [Next]_vars => ExtractionInv'
  BY AnalysisStep, LateStep DEF ExtractionInv, AnalysisInv
<1> QED BY <1>1, <1>2, PTL DEF Spec

(* However many workers die, stall and answer late, an attachment is tried no     *)
(* more often than the cap and one time for each other worker (worker.py).        *)
THEOREM AttemptsEnd == Spec => []AttemptsBounded
<1>1. ExtractionInv => AttemptsBounded
  BY AttemptsFit DEF ExtractionInv, AnalysisInv
<1> QED BY <1>1, Invariance, PTL

(* As long as batches do not overlap, no row is written twice and no row is       *)
(* supplemented twice, whatever fails or restarts (document_extraction.go).       *)
THEOREM RowsComeOnce == Spec => []RowsOnce
<1>1. ExtractionInv => RowsOnce
  BY DEF ExtractionInv, AnalysisInv
<1> QED BY <1>1, Invariance, PTL

(* A text that was extracted is final, and so is a verdict as long as batches do  *)
(* not overlap (worker.py finish, document_extraction.go, review.go).             *)
THEOREM ResultsAreFinal == Spec => ResultsStand
<1>1. ExtractionInv /\ [Next]_vars =>
          [\A a \in Attachment : attachments[a].status = "completed" =>
              attachments'[a].status = "completed"]_vars
  BY TextStep DEF ExtractionInv, AnalysisInv
<1>2. ExtractionInv /\ [Next]_vars =>
          [overlapped' \/ \A r \in rows : r.review \in Verdict =>
              \E t \in rows' : Same(r, t) /\ t.review \in Verdict]_vars
  <2> SUFFICES ASSUME ExtractionInv, [Next]_vars, ~overlapped' PROVE VerdictsStay
    BY DEF VerdictsStay
  <2>1. overlapped => overlapped'
    <3>1. CASE WorkerNext
      BY <3>1, WorkerKeeps DEF ExtractionInv, AnalysisInv, analysis
    <3>2. CASE ~WorkerNext
      BY <3>2 DEF Next, vars, StartBatch, BatchStep, NextPhase, RuleExtract, RuleExtractBlind,
                  SkipAttachment, CallFails, Supplement, SkipTarget, Restart, ReviewNext, Review
    <3> QED BY <3>1, <3>2
  <2> QED BY <2>1, AnalysisStep DEF ExtractionInv
<1> QED BY <1>1, <1>2, Invariance, PTL DEF Spec, ResultsStand, TextIsFinal, ReviewKept

-----------------------------------------------------------------------------
(* Least and greatest numbers.                                               *)

\* A set of numbers has a least one.
LEMMA LeastNumber ==
    ASSUME NEW S \in SUBSET Nat, S # {}
    PROVE  \E m \in S : \A k \in S : m <= k
<1>1. PICK m \in S : \A k \in S : ~(<<k, m>> \in OpToRel(<, Nat))
  BY WFMin, NatLessThanWellFounded
<1>2. ASSUME NEW k \in S PROVE m <= k
  <2>1. <<k, m>> \in Nat \X Nat /\ ~(k < m)
    BY <1>1 DEF OpToRel
  <2> QED BY <2>1
<1> QED BY <1>2

\* The greatest of a set of indices is one of them.
LEMMA GreatestIndex ==
    ASSUME NEW n \in Nat, NEW S \in SUBSET (1..n), S # {}
    PROVE  Max(S) \in S /\ \A i \in S : i <= Max(S)
<1> DEFINE T == {n - i : i \in S}
<1>1. PICK m \in T : \A k \in T : m <= k
  <2>1. \A i \in S : n - i \in Nat
    OBVIOUS
  <2>2. T \in SUBSET Nat /\ T # {}
    BY <2>1
  <2> QED BY <2>2, LeastNumber
<1>2. PICK x \in S : m = n - x
  OBVIOUS
<1>3. \A i \in S : x >= i
  <2> SUFFICES ASSUME NEW i \in S PROVE x >= i
    OBVIOUS
  <2>1. m <= n - i
    BY <1>1
  <2> QED BY <1>2, <2>1
<1>4. Max(S) \in S /\ \A i \in S : Max(S) >= i
  BY <1>3 DEF Max
<1> QED BY <1>4

-----------------------------------------------------------------------------
(* The rows of one name.                                                     *)

\* What the rules need to know of a company's rows.
RowsTyped(co) == co.rows \in Seq(LicenceRow)

\* The newest row of a name is the one with the greatest index.
LEMMA NewestRow ==
    ASSUME NEW co, RowsTyped(co), NEW name, RowsNamed(co, name) # {}
    PROVE  \E i \in RowsNamed(co, name) :
              /\ Newest(co, name) = co.rows[i] /\ Newest(co, name) \in LicenceRow
              /\ \A j \in RowsNamed(co, name) : j <= i
<1>1. /\ Len(co.rows) \in Nat /\ DOMAIN co.rows = 1..Len(co.rows)
      /\ \A i \in DOMAIN co.rows : co.rows[i] \in LicenceRow
  BY DEF RowsTyped
<1>2. RowsNamed(co, name) \in SUBSET (1..Len(co.rows))
  BY <1>1 DEF RowsNamed
<1> QED BY <1>1, <1>2, GreatestIndex DEF Newest, RowsNamed

\* What a name counts as, from its newest row (matchLicenseCertByName).
LEMMA MatchHeld ==
    ASSUME NEW co, RowsTyped(co), NEW name, NEW today
    PROVE  /\ MatchLicenseCertByName(co, name, today) = "held" <=>
                /\ RowsNamed(co, name) # {}
                /\ Newest(co, name).status = "held"
                /\ ~Expired(Newest(co, name), today)
           /\ MatchLicenseCertByName(co, name, today) = "renew" <=>
                /\ RowsNamed(co, name) # {}
                /\ Newest(co, name).status = "held"
                /\ Expired(Newest(co, name), today)
           /\ MatchLicenseCertByName(co, name, today) = "none" <=>
                RowsNamed(co, name) = {}
           /\ LicenseCertGapState(co, name, today) = "company_gap" <=>
                RowsNamed(co, name) = {}
<1>1. CASE RowsNamed(co, name) = {}
  BY <1>1 DEF MatchLicenseCertByName, LicenseCertGapState
<1>2. CASE RowsNamed(co, name) # {}
  <2>1. Newest(co, name).status \in LicenceStatus
    BY <1>2, NewestRow DEF LicenceRow
  <2> QED BY <1>2, <2>1 DEF MatchLicenseCertByName, LicenseCertGapState, LicenceStatus
<1> QED BY <1>1, <1>2

-----------------------------------------------------------------------------
(* The scores.                                                               *)

Scored == {"met", "needs_confirmation", "not_met", "insufficient_data"}

ScoreTyped(s) ==
    /\ DOMAIN s \subseteq {"overall", "region", "industry", "budget"}
    /\ DOMAIN s # {}
    /\ \A k \in DOMAIN s : /\ s[k].result \in Scored
                           /\ s[k].gap = "company" => s[k].result = "insufficient_data"

\* A support program has one category, to be confirmed.
LEMMA SupportScore ==
    /\ DOMAIN SupportProgramScore = {"overall"}
    /\ SupportProgramScore["overall"].result = "needs_confirmation"
    /\ SupportProgramScore["overall"].gap = ""
    /\ Results(SupportProgramScore) = {"needs_confirmation"}
<1>1. /\ DOMAIN SupportProgramScore = {"overall"}
      /\ SupportProgramScore["overall"].result = "needs_confirmation"
      /\ SupportProgramScore["overall"].gap = ""
  BY DEF SupportProgramScore, Known
<1> QED BY <1>1 DEF Results

\* What the scores of any notice look like.
LEMMA ScoreType ==
    ASSUME NEW n, NEW co
    PROVE  ScoreTyped(ScoreNoticeForCompany(n, co))
<1> DEFINE OK(s) == s.result \in Scored /\ (s.gap = "company" => s.result = "insufficient_data")
<1>1. OK(ScoreRegion(n, co))
  <2>1. CASE n.official = {} \/ co.region = <<>>
    BY <2>1 DEF ScoreRegion, Known, Lacking, Scored
  <2>2. CASE n.official # {} /\ co.region # <<>>
    BY <2>2 DEF ScoreRegion, MatchCompanyRegion, Known, Scored
  <2> QED BY <2>1, <2>2
<1>2. OK(ScoreIndustry(n, co)) /\ OK(ScoreBudgetSize(n, co))
  BY DEF ScoreIndustry, ScoreBudgetSize, Known, Lacking, Scored
<1>3. CASE n.type = "support_program"
  BY <1>3, SupportScore DEF ScoreNoticeForCompany, ScoreTyped, Scored
<1>4. CASE n.type # "support_program"
  BY <1>1, <1>2, <1>4 DEF ScoreNoticeForCompany, ScoreTyped
<1> QED BY <1>3, <1>4

\* What it takes to meet all three.
LEMMA AllMet ==
    ASSUME NEW n \in Notice, NEW co \in Company,
           Results(ScoreNoticeForCompany(n, co)) = {"met"}
    PROVE  /\ \/ n.official = {} /\ RegionEnriched(n)
              \/ \E o \in n.official : IsPrefix(o, co.region)
           /\ n.industry \in ExpandCompanyIndustries(co.groups) \ {"other"}
           /\ co.size # "" /\ n.budget # -1
           /\ co.size = "small" => n.budget < SmallCap
<1>1. n.type # "support_program"
  BY SupportScore DEF ScoreNoticeForCompany
<1>2. /\ ScoreRegion(n, co).result = "met" /\ ScoreIndustry(n, co).result = "met"
      /\ ScoreBudgetSize(n, co).result = "met"
  BY <1>1 DEF ScoreNoticeForCompany, Results
<1>3. \/ n.official = {} /\ RegionEnriched(n)
      \/ \E o \in n.official : IsPrefix(o, co.region)
  BY <1>2 DEF ScoreRegion, MatchCompanyRegion, Known, Lacking
<1>4. n.industry \in ExpandCompanyIndustries(co.groups) \ {"other"}
  BY <1>2 DEF ScoreIndustry, Known, Lacking
<1>5. /\ co.size # "" /\ n.budget # -1
      /\ co.size = "small" => n.budget < SmallCap
  <2>1. co.size # "" /\ n.budget # -1
    BY <1>2 DEF ScoreBudgetSize, Known, Lacking
  <2>2. ~(co.size = "small" /\ n.budget >= SmallCap)
    BY <1>2, <2>1 DEF ScoreBudgetSize, Known
  <2>3. n.budget \in Int /\ SmallCap \in Int
    BY SmallCapAssumption DEF Notice
  <2>4. co.size = "small" => n.budget < SmallCap
    BY <2>2, <2>3
  <2> QED BY <2>1, <2>4
<1> QED BY <1>3, <1>4, <1>5

\* And to be turned down: only the region can.
LEMMA TurnedDown ==
    ASSUME NEW n \in Notice, NEW co \in Company,
           "not_met" \in Results(ScoreNoticeForCompany(n, co))
    PROVE  /\ n.official # {} /\ co.region # <<>>
           /\ \A o \in n.official : o[1] # co.region[1]
<1>1. n.type # "support_program"
  BY SupportScore DEF ScoreNoticeForCompany
<1>2. ScoreRegion(n, co).result = "not_met"
  <2>1. ScoreIndustry(n, co).result # "not_met" /\ ScoreBudgetSize(n, co).result # "not_met"
    BY DEF ScoreIndustry, ScoreBudgetSize, Known, Lacking
  <2> QED BY <1>1, <2>1 DEF ScoreNoticeForCompany, Results
<1>3. /\ n.official # {} /\ co.region # <<>>
      /\ \A o \in n.official : Head(o) # Head(co.region)
  BY <1>2 DEF ScoreRegion, MatchCompanyRegion, Known, Lacking
<1>4. co.region \in Seq(STRING) /\ \A o \in n.official : o \in Seq(STRING) /\ o # <<>>
  BY DEF Notice, Company, Region
<1>5. Head(co.region) = co.region[1] /\ \A o \in n.official : Head(o) = o[1]
  BY <1>3, <1>4
<1> QED BY <1>3, <1>5

-----------------------------------------------------------------------------
(* The requirements.  However names supersede one another, one of each       *)
(* requirement is left.                                                      *)

\* Everything the notice asks for, before one name of each is chosen.
AllAsked(n, versioned) ==
    FromDocuments(n)
      \union (IF versioned THEN FromLimits(n) \union FromConditions(n) ELSE {})

DocumentKey(name) ==
    IF DocumentType(name) \in {"DIRECT_PRODUCTION", "TRACK_RECORD"}
    THEN <<DocumentType(name), "">> ELSE NormalizeRequirementName(name)

\* The requirements of the documents, one by one.
LEMMA FromDocument ==
    ASSUME NEW n
    PROVE  \A r : r \in FromDocuments(n) <=>
              \E d \in n.docs : /\ DocumentType(d.name) # ""
                               /\ r = [type |-> DocumentType(d.name), key |-> DocumentKey(d.name),
                                       name |-> d.name, source |-> "required_documents",
                                       unit |-> "", threshold |-> 0]
  BY DEF FromDocuments, DocumentKey, Requirement

\* A document of a known kind is a requirement.
LEMMA DocumentAsked ==
    ASSUME NEW n, NEW d \in n.docs, DocumentType(d.name) # ""
    PROVE  \E r \in FromDocuments(n) :
              /\ r.type = DocumentType(d.name) /\ r.name = d.name
              /\ r.source = "required_documents"
<1> DEFINE r == [type |-> DocumentType(d.name), key |-> DocumentKey(d.name), name |-> d.name,
                 source |-> "required_documents", unit |-> "", threshold |-> 0]
<1>1. r \in FromDocuments(n)
  BY FromDocument
<1> QED BY <1>1

\* The requirements of the extracted conditions, one by one.
LEMMA FromCondition ==
    ASSUME NEW n
    PROVE  \A r : r \in FromConditions(n) <=>
              \E e \in n.conditions :
                  /\ CategoryType[e.category] # ""
                  /\ r = [type |-> CategoryType[e.category],
                          key |-> NormalizeRequirementName(e.name), name |-> e.name,
                          source |-> "eligibility_conditions", unit |-> e.unit,
                          threshold |-> e.threshold]
  BY DEF FromConditions, Requirement

\* A condition of a known kind is a requirement.
LEMMA ConditionAsked ==
    ASSUME NEW n, NEW e \in n.conditions, CategoryType[e.category] # ""
    PROVE  \E r \in FromConditions(n) :
              /\ r.type = CategoryType[e.category] /\ r.name = e.name
              /\ r.source = "eligibility_conditions"
<1> DEFINE r == [type |-> CategoryType[e.category], key |-> NormalizeRequirementName(e.name),
                 name |-> e.name, source |-> "eligibility_conditions", unit |-> e.unit,
                 threshold |-> e.threshold]
<1>1. r \in FromConditions(n)
  BY FromCondition
<1> QED BY <1>1

\* Where a requirement comes from.
LEMMA AskedBy ==
    ASSUME NEW n, NEW versioned \in BOOLEAN, NEW r \in AllAsked(n, versioned)
    PROVE  \/ /\ r.source = "required_documents" /\ r \in FromDocuments(n)
              /\ \E d \in n.docs : /\ r.name = d.name /\ r.type = DocumentType(d.name)
                                   /\ r.type # ""
           \/ /\ versioned /\ r.source = "license_limits"
              /\ r.type = "LICENSE" /\ r.name \in n.limits
           \/ /\ versioned /\ r.source = "eligibility_conditions"
              /\ \E e \in n.conditions : r.name = e.name /\ r.type = CategoryType[e.category]
<1>1. CASE r \in FromDocuments(n)
  <2>1. PICK d \in n.docs :
            /\ DocumentType(d.name) # ""
            /\ r = [type |-> DocumentType(d.name), key |-> DocumentKey(d.name), name |-> d.name,
                   source |-> "required_documents", unit |-> "", threshold |-> 0]
    BY <1>1, FromDocument
  <2> QED BY <1>1, <2>1
<1>2. CASE r \in FromLimits(n) /\ versioned
  <2>1. PICK l \in n.limits :
            r = [type |-> "LICENSE", key |-> NormalizeRequirementName(l), name |-> l,
                 source |-> "license_limits", unit |-> "", threshold |-> 0]
    BY <1>2 DEF FromLimits, Requirement
  <2> QED BY <1>2, <2>1
<1>3. CASE r \in FromConditions(n) /\ versioned
  <2>1. PICK e \in n.conditions :
            /\ CategoryType[e.category] # ""
            /\ r = [type |-> CategoryType[e.category], key |-> NormalizeRequirementName(e.name),
                   name |-> e.name, source |-> "eligibility_conditions", unit |-> e.unit,
                   threshold |-> e.threshold]
    BY <1>3, FromCondition
  <2> QED BY <1>3, <2>1
<1> QED BY <1>1, <1>2, <1>3 DEF AllAsked

\* The sources are strictly ordered.
LEMMA Priorities ==
    /\ DOMAIN SourcePriority =
          {"eligibility_conditions", "license_limits", "required_documents"}
    /\ \A x \in DOMAIN SourcePriority : SourcePriority[x] \in Nat
    /\ SourcePriority["eligibility_conditions"] < SourcePriority["license_limits"]
    /\ SourcePriority["license_limits"] < SourcePriority["required_documents"]
  BY DEF SourcePriority

\* Requirements compare by numbers.
LEMMA AskedTyped ==
    ASSUME NEW n \in Notice, NEW versioned \in BOOLEAN, NEW r \in AllAsked(n, versioned)
    PROVE  r.name.rank \in Nat /\ SourcePriority[r.source] \in Nat
<1>1. \A x \in Name : x.rank \in Nat
  BY DEF Name
<1>2. /\ \A d \in n.docs : d.name \in Name
      /\ \A l \in n.limits : l \in Name
      /\ \A e \in n.conditions : e.name \in Name
  BY DEF Notice, Document, ConditionRow
<1>3. r.name \in Name /\ r.source \in DOMAIN SourcePriority
  <2>1. r.source \in {"required_documents", "license_limits", "eligibility_conditions"}
    BY AskedBy
  <2>2. r.name \in Name
    BY <1>2, AskedBy
  <2> QED BY <2>1, <2>2, Priorities
<1> QED BY <1>1, <1>3, Priorities

\* Of the names of one requirement one stays: the least rank of the best source.
LEMMA OneIsLeft ==
    ASSUME NEW n \in Notice, NEW versioned \in BOOLEAN, NEW r \in AllAsked(n, versioned)
    PROVE  \E m \in ResolveNoticeRequirements(n, versioned) :
              m.type = r.type /\ m.key = r.key
<1> DEFINE T == {s \in AllAsked(n, versioned) : s.type = r.type /\ s.key = r.key}
           P == {SourcePriority[s.source] : s \in T}
<1>1. PICK p \in P : \A q \in P : p <= q
  <2>1. P \in SUBSET Nat /\ P # {}
    BY AskedTyped
  <2> QED BY <2>1, LeastNumber
<1> DEFINE R == {s.name.rank : s \in {t \in T : SourcePriority[t.source] = p}}
<1>2. PICK k \in R : \A q \in R : k <= q
  <2>1. R \in SUBSET Nat
    BY AskedTyped
  <2>2. R # {}
    BY <1>1
  <2> QED BY <2>1, <2>2, LeastNumber
<1>3. PICK m \in T : SourcePriority[m.source] = p /\ m.name.rank = k
  BY <1>2
<1>4. ASSUME NEW s \in AllAsked(n, versioned), Supersedes(s, m) PROVE FALSE
  <2>1. s \in T
    BY <1>4 DEF Supersedes
  <2>2. SourcePriority[s.source] \in Nat /\ s.name.rank \in Nat /\ p \in Nat /\ k \in Nat
    BY <2>1, <1>3, AskedTyped
  <2>3. p <= SourcePriority[s.source]
    BY <1>1, <2>1
  <2>4. s.source = m.source /\ s.name.rank < m.name.rank
    BY <1>3, <1>4, <2>2, <2>3 DEF Supersedes
  <2>5. k <= s.name.rank
    BY <1>2, <1>3, <2>1, <2>4
  <2> QED BY <1>3, <2>2, <2>4, <2>5
<1>5. m \in ResolveNoticeRequirements(n, versioned)
  BY <1>3, <1>4 DEF ResolveNoticeRequirements, AllAsked
<1> QED BY <1>3, <1>5

\* What the judgement looks at.
Asked(n, versioned, type) ==
    {r \in JudgmentConsumable(ResolveNoticeRequirements(n, versioned)) : r.type = type}
NamesAsked(n, versioned, type) == {r.name : r \in Asked(n, versioned, type)}

\* What is looked at is what was chosen, limits excepted.
LEMMA AskedIsResolved ==
    ASSUME NEW n, NEW versioned \in BOOLEAN, NEW type
    PROVE  \A r : r \in Asked(n, versioned, type) <=>
              /\ r \in ResolveNoticeRequirements(n, versioned) /\ r.type = type
              /\ r.source \in {"required_documents", "eligibility_conditions"}
  BY DEF Asked, JudgmentConsumable

\* What is chosen was asked for.
LEMMA ResolvedIsAsked ==
    ASSUME NEW n, NEW versioned \in BOOLEAN
    PROVE  ResolveNoticeRequirements(n, versioned) \subseteq AllAsked(n, versioned)
  BY DEF ResolveNoticeRequirements, AllAsked

\* A kind of requirement that no licence limit can stand for stays asked for.
LEMMA StaysAsked ==
    ASSUME NEW n \in Notice, NEW versioned \in BOOLEAN, NEW r \in AllAsked(n, versioned),
           r.type # "LICENSE"
    PROVE  Asked(n, versioned, r.type) # {}
<1>1. PICK m \in ResolveNoticeRequirements(n, versioned) : m.type = r.type
  BY OneIsLeft
<1>2. m.source \in {"required_documents", "eligibility_conditions"}
  BY <1>1, ResolvedIsAsked, AskedBy
<1> QED BY <1>1, <1>2, AskedIsResolved

-----------------------------------------------------------------------------
(* The conditions of a judgement.                                            *)

\* What a condition stands for.
ScoresCategory(c, k, result) ==
    c = [type |-> k, result |-> CategoryCondition[result], ask |-> {}, note |-> ""]
AsksNames(c, t, names, co, today) == c = NamesCondition(t, names, co, today)
AsksDirect(c, co) == c = DirectCondition(co)
AsksRecord(c, reqs, co, today) == c = TrackCondition(reqs, co, today)
Unread(c) == c = [type |-> "UNREAD", result |-> "UNKNOWN", ask |-> {}, note |-> ""]

\* What can be read from it.
ShowsScore(c, k, result) ==
    /\ c.type = k /\ c.ask = {} /\ c.note = ""
    /\ c.result \in {"PASS", "FAIL", "REVIEW", "UNKNOWN"}
    /\ c.result = "PASS" <=> result = "met"
    /\ c.result = "FAIL" <=> result = "not_met"
    /\ c.result = "UNKNOWN" <=> result = "insufficient_data"
ShowsNames(c, t, names, co, today) ==
    /\ c.type = t /\ c.note = "" /\ c.result \in {"PASS", "REVIEW"}
    /\ c.result = "PASS" <=>
          \A n \in names : MatchLicenseCertByName(co, n, today) = "held"
    /\ c.ask = {n \in names : RowsNamed(co, n) = {}}
ShowsDirect(c, co) ==
    /\ c.type = "DIRECT_PRODUCTION" /\ c.note = "" /\ c.result = "REVIEW"
    /\ c.ask # {} <=> CompanyDirectProductionStatus(co) = "unclear"
ShowsRecord(c, co) ==
    /\ c.type = "TRACK_RECORD" /\ c.result = "REVIEW" /\ c.ask = {}
    /\ c.note = "unregistered" <=> co.records = {}
ShowsUnread(c) ==
    c.type = "UNREAD" /\ c.result = "UNKNOWN" /\ c.ask = {} /\ c.note = ""

\* A condition on names says what their newest rows say.
LEMMA NamesFields ==
    ASSUME NEW t, NEW names, NEW co, RowsTyped(co), NEW today, NEW c,
           AsksNames(c, t, names, co, today)
    PROVE  ShowsNames(c, t, names, co, today)
<1> DEFINE noRow == {n \in names : MatchLicenseCertByName(co, n, today) = "none"}
<1>1. noRow = {n \in names : RowsNamed(co, n) = {}}
  BY MatchHeld
<1>2. c = [type |-> t, result |-> IF \A n \in names : MatchLicenseCertByName(co, n, today) = "held"
                                  THEN "PASS" ELSE "REVIEW", ask |-> noRow, note |-> ""]
  BY Zenon DEF AsksNames, NamesCondition, Condition
<1> HIDE DEF noRow
<1>3. CASE \A n \in names : MatchLicenseCertByName(co, n, today) = "held"
  <2>1. c.type = t /\ c.note = "" /\ c.result = "PASS" /\ c.ask = noRow
    BY <1>2, <1>3
  <2> QED BY <1>1, <1>3, <2>1 DEF ShowsNames
<1>4. CASE ~\A n \in names : MatchLicenseCertByName(co, n, today) = "held"
  <2>1. c.type = t /\ c.note = "" /\ c.result = "REVIEW" /\ c.ask = noRow
    BY <1>2, <1>4
  <2> QED BY <1>1, <1>4, <2>1 DEF ShowsNames
<1> QED BY <1>3, <1>4

\* So does the one on direct production,
LEMMA DirectFields ==
    ASSUME NEW co, NEW c, AsksDirect(c, co)
    PROVE  ShowsDirect(c, co)
  BY DEF ShowsDirect, AsksDirect, DirectCondition, Condition

\* the one of a notice without documents,
LEMMA UnreadFields ==
    ASSUME NEW c, Unread(c)
    PROVE  ShowsUnread(c)
  BY DEF ShowsUnread, Unread

\* the one on the track record,
LEMMA TrackFields ==
    ASSUME NEW reqs, NEW co, NEW today, NEW c, AsksRecord(c, reqs, co, today)
    PROVE  ShowsRecord(c, co)
<1> DEFINE note == TrackRecordReason(reqs, co, today)
<1>1. c = [[type |-> "TRACK_RECORD", result |-> "REVIEW", ask |-> {}, note |-> ""]
              EXCEPT !.note = note]
  BY DEF AsksRecord, TrackCondition, Condition
<1>2. note = "unregistered" <=> co.records = {}
  BY DEF TrackRecordReason
<1> HIDE DEF note
<1>3. c = [type |-> "TRACK_RECORD", result |-> "REVIEW", ask |-> {}, note |-> note]
  BY <1>1
<1> QED BY <1>2, <1>3 DEF ShowsRecord

\* and the one of a scored category.
LEMMA CategoryFields ==
    ASSUME NEW k, NEW result \in Scored, NEW c, ScoresCategory(c, k, result)
    PROVE  ShowsScore(c, k, result)
<1>1. /\ CategoryCondition["met"] = "PASS" /\ CategoryCondition["not_met"] = "FAIL"
      /\ CategoryCondition["needs_confirmation"] = "REVIEW"
      /\ CategoryCondition["insufficient_data"] = "UNKNOWN"
  BY DEF CategoryCondition
<1>2. /\ c.type = k /\ c.ask = {} /\ c.note = ""
      /\ c.result = CategoryCondition[result]
  BY DEF ScoresCategory
<1>3. \/ result = "met" \/ result = "not_met"
      \/ result = "needs_confirmation" \/ result = "insufficient_data"
  BY DEF Scored
<1> QED BY <1>1, <1>2, <1>3 DEF ShowsScore

\* The conditions of a judgement, one kind after another.
LEMMA ConditionsOf ==
    ASSUME NEW n, NEW co, NEW today, NEW versioned \in BOOLEAN
    PROVE  \A c : c \in JudgedConditions(n, co, today, versioned) <=>
              \/ \E k \in DOMAIN ScoreNoticeForCompany(n, co) :
                    ScoresCategory(c, k, ScoreNoticeForCompany(n, co)[k].result)
              \/ \E t \in {"LICENSE", "CERTIFICATION"} :
                    /\ Asked(n, versioned, t) # {}
                    /\ AsksNames(c, t, NamesAsked(n, versioned, t), co, today)
              \/ \E t \in {"DIRECT_PRODUCTION"} :
                    Asked(n, versioned, t) # {} /\ AsksDirect(c, co)
              \/ \E t \in {"TRACK_RECORD"} :
                    /\ Asked(n, versioned, t) # {}
                    /\ AsksRecord(c, Asked(n, versioned, t), co, today)
              \/ n.docs = {} /\ Unread(c)
<1> DEFINE score == ScoreNoticeForCompany(n, co)
           of(type) == Asked(n, versioned, type)
           S == {Condition(k, CategoryCondition[score[k].result], {}) : k \in DOMAIN score}
           N == {NamesCondition(type, NamesAsked(n, versioned, type), co, today) :
                    type \in {t \in {"LICENSE", "CERTIFICATION"} : of(t) # {}}}
           D == IF of("DIRECT_PRODUCTION") = {} THEN {} ELSE {DirectCondition(co)}
           T == IF of("TRACK_RECORD") = {} THEN {}
                ELSE {TrackCondition(of("TRACK_RECORD"), co, today)}
           U == IF n.docs # {} THEN {} ELSE {Condition("UNREAD", "UNKNOWN", {})}
<1>1. JudgedConditions(n, co, today, versioned) = S \union N \union D \union T \union U
  BY Zenon DEF JudgedConditions, Asked, NamesAsked
<1> SUFFICES ASSUME NEW c
             PROVE  c \in S \union N \union D \union T \union U <=>
              \/ \E k \in DOMAIN score : ScoresCategory(c, k, score[k].result)
              \/ \E t \in {"LICENSE", "CERTIFICATION"} :
                    /\ of(t) # {}
                    /\ AsksNames(c, t, NamesAsked(n, versioned, t), co, today)
              \/ \E t \in {"DIRECT_PRODUCTION"} : of(t) # {} /\ AsksDirect(c, co)
              \/ \E t \in {"TRACK_RECORD"} :
                    of(t) # {} /\ AsksRecord(c, of(t), co, today)
              \/ n.docs = {} /\ Unread(c)
  BY <1>1, Zenon
<1>2. c \in S <=> \E k \in DOMAIN score : ScoresCategory(c, k, score[k].result)
  BY Zenon DEF ScoresCategory, Condition
<1>3. c \in N <=> \E t \in {"LICENSE", "CERTIFICATION"} :
                    /\ of(t) # {}
                    /\ AsksNames(c, t, NamesAsked(n, versioned, t), co, today)
  BY Zenon DEF AsksNames
<1>4. c \in D <=> \E t \in {"DIRECT_PRODUCTION"} : of(t) # {} /\ AsksDirect(c, co)
  BY Zenon DEF AsksDirect
<1>5. c \in T <=> \E t \in {"TRACK_RECORD"} : of(t) # {} /\ AsksRecord(c, of(t), co, today)
  BY Zenon DEF AsksRecord
<1>6. c \in U <=> n.docs = {} /\ Unread(c)
  BY Zenon DEF Unread, Condition
<1> QED BY <1>2, <1>3, <1>4, <1>5, <1>6, Zenon

\* A condition of each kind, seen from the judgement ...
LEMMA ConditionKinds ==
    ASSUME NEW n, NEW co, RowsTyped(co), NEW today, NEW versioned \in BOOLEAN,
           NEW c \in JudgedConditions(n, co, today, versioned)
    PROVE  \/ \E k \in DOMAIN ScoreNoticeForCompany(n, co) :
                 ShowsScore(c, k, ScoreNoticeForCompany(n, co)[k].result)
           \/ \E t \in {"LICENSE", "CERTIFICATION"} :
                 /\ Asked(n, versioned, t) # {}
                 /\ ShowsNames(c, t, NamesAsked(n, versioned, t), co, today)
           \/ \E t \in {"DIRECT_PRODUCTION"} :
                 Asked(n, versioned, t) # {} /\ ShowsDirect(c, co)
           \/ \E t \in {"TRACK_RECORD"} :
                 Asked(n, versioned, t) # {} /\ ShowsRecord(c, co)
           \/ n.docs = {} /\ ShowsUnread(c)
<1> DEFINE score == ScoreNoticeForCompany(n, co)
<1>1. CASE \E k \in DOMAIN score : ScoresCategory(c, k, score[k].result)
  <2>1. PICK k \in DOMAIN score : ScoresCategory(c, k, score[k].result)
    BY <1>1
  <2>2. score[k].result \in Scored
    BY ScoreType DEF ScoreTyped
  <2>3. ShowsScore(c, k, score[k].result)
    BY <2>1, <2>2, CategoryFields, Zenon
  <2> QED BY <2>3, Zenon
<1>2. CASE \E t \in {"LICENSE", "CERTIFICATION"} :
              /\ Asked(n, versioned, t) # {}
              /\ AsksNames(c, t, NamesAsked(n, versioned, t), co, today)
  BY <1>2, NamesFields, Zenon
<1>3. CASE \E t \in {"DIRECT_PRODUCTION"} :
              Asked(n, versioned, t) # {} /\ AsksDirect(c, co)
  BY <1>3, DirectFields, Zenon
<1>4. CASE \E t \in {"TRACK_RECORD"} :
              /\ Asked(n, versioned, t) # {}
              /\ AsksRecord(c, Asked(n, versioned, t), co, today)
  BY <1>4, TrackFields, Zenon
<1>5. CASE n.docs = {} /\ Unread(c)
  BY <1>5, UnreadFields, Zenon
<1> QED BY ConditionsOf, <1>1, <1>2, <1>3, <1>4, <1>5, Zenon

\* ... and one of each kind there is.
LEMMA ConditionThere ==
    ASSUME NEW n, NEW co, RowsTyped(co), NEW today, NEW versioned \in BOOLEAN
    PROVE  /\ \A k \in DOMAIN ScoreNoticeForCompany(n, co) :
                 \E c \in JudgedConditions(n, co, today, versioned) :
                    ShowsScore(c, k, ScoreNoticeForCompany(n, co)[k].result)
           /\ \A t \in {"LICENSE", "CERTIFICATION"} : Asked(n, versioned, t) # {} =>
                 \E c \in JudgedConditions(n, co, today, versioned) :
                    ShowsNames(c, t, NamesAsked(n, versioned, t), co, today)
           /\ \A t \in {"DIRECT_PRODUCTION"} : Asked(n, versioned, t) # {} =>
                 \E c \in JudgedConditions(n, co, today, versioned) : ShowsDirect(c, co)
           /\ \A t \in {"TRACK_RECORD"} : Asked(n, versioned, t) # {} =>
                 \E c \in JudgedConditions(n, co, today, versioned) : ShowsRecord(c, co)
           /\ n.docs = {} =>
                 \E c \in JudgedConditions(n, co, today, versioned) : ShowsUnread(c)
<1> DEFINE J == JudgedConditions(n, co, today, versioned)
           score == ScoreNoticeForCompany(n, co)
<1>1. ASSUME NEW k \in DOMAIN score
      PROVE  \E c \in J : ShowsScore(c, k, score[k].result)
  <2>1. PICK c : ScoresCategory(c, k, score[k].result)
    BY Zenon DEF ScoresCategory
  <2>2. c \in J
    BY <2>1, ConditionsOf, Zenon
  <2>3. score[k].result \in Scored
    BY ScoreType DEF ScoreTyped
  <2> QED BY <2>1, <2>2, <2>3, CategoryFields, Zenon
<1>2. ASSUME NEW t \in {"LICENSE", "CERTIFICATION"}, Asked(n, versioned, t) # {}
      PROVE  \E c \in J : ShowsNames(c, t, NamesAsked(n, versioned, t), co, today)
  <2>1. PICK c : AsksNames(c, t, NamesAsked(n, versioned, t), co, today)
    BY Zenon DEF AsksNames
  <2>2. c \in J
    BY <1>2, <2>1, ConditionsOf, Zenon
  <2> QED BY <2>1, <2>2, NamesFields, Zenon
<1>3. ASSUME NEW t \in {"DIRECT_PRODUCTION"}, Asked(n, versioned, t) # {}
      PROVE  \E c \in J : ShowsDirect(c, co)
  <2>1. PICK c : AsksDirect(c, co)
    BY Zenon DEF AsksDirect
  <2>2. c \in J
    BY <1>3, <2>1, ConditionsOf, Zenon
  <2> QED BY <2>1, <2>2, DirectFields, Zenon
<1>4. ASSUME NEW t \in {"TRACK_RECORD"}, Asked(n, versioned, t) # {}
      PROVE  \E c \in J : ShowsRecord(c, co)
  <2>1. PICK c : AsksRecord(c, Asked(n, versioned, t), co, today)
    BY Zenon DEF AsksRecord
  <2>2. c \in J
    BY <1>4, <2>1, ConditionsOf, Zenon
  <2> QED BY <2>1, <2>2, TrackFields, Zenon
<1>5. ASSUME n.docs = {} PROVE \E c \in J : ShowsUnread(c)
  <2>1. PICK c : Unread(c)
    BY Zenon DEF Unread
  <2>2. c \in J
    BY <1>5, <2>1, ConditionsOf, Zenon
  <2> QED BY <2>1, <2>2, UnreadFields, Zenon
<1> QED BY <1>1, <1>2, <1>3, <1>4, <1>5, Zenon

\* What the two grades with a verdict stand for.
MetThroughout(n, co, today, versioned) ==
    /\ Results(ScoreNoticeForCompany(n, co)) = {"met"}
    /\ \A t \in {"LICENSE", "CERTIFICATION"} : \A m \in NamesAsked(n, versioned, t) :
          MatchLicenseCertByName(co, m, today) = "held"
    /\ \A t \in {"DIRECT_PRODUCTION", "TRACK_RECORD"} : Asked(n, versioned, t) = {}
    /\ n.docs # {}

\* Only a scored category fails, and no certificate does.
LEMMA Outcome ==
    ASSUME NEW n, NEW co, RowsTyped(co), NEW today, NEW versioned \in BOOLEAN,
           NEW c \in JudgedConditions(n, co, today, versioned)
    PROVE  /\ c.result \in {"PASS", "FAIL", "REVIEW", "UNKNOWN"}
           /\ c.result = "FAIL" => /\ c.type # "CERTIFICATION"
                                   /\ "not_met" \in Results(ScoreNoticeForCompany(n, co))
<1> DEFINE score == ScoreNoticeForCompany(n, co)
<1>1. DOMAIN score \subseteq {"overall", "region", "industry", "budget"}
  BY ScoreType DEF ScoreTyped
<1>2. CASE \E k \in DOMAIN score : ShowsScore(c, k, score[k].result)
  <2>1. PICK k \in DOMAIN score : ShowsScore(c, k, score[k].result)
    BY <1>2
  <2>2. k # "CERTIFICATION"
    BY <1>1
  <2>3. score[k].result = "not_met" => "not_met" \in Results(score)
    BY DEF Results
  <2> QED BY <2>1, <2>2, <2>3, Zenon DEF ShowsScore
<1>3. CASE ~\E k \in DOMAIN score : ShowsScore(c, k, score[k].result)
  <2>1. \A t, names : ShowsNames(c, t, names, co, today) => c.result \in {"PASS", "REVIEW"}
    BY Zenon DEF ShowsNames
  <2>2. /\ ShowsDirect(c, co) => c.result = "REVIEW"
        /\ ShowsRecord(c, co) => c.result = "REVIEW"
        /\ ShowsUnread(c) => c.result = "UNKNOWN"
    BY Zenon DEF ShowsDirect, ShowsRecord, ShowsUnread
  <2>3. \/ c.result \in {"PASS", "REVIEW"} \/ c.result = "REVIEW" \/ c.result = "UNKNOWN"
    BY <1>3, <2>1, <2>2, ConditionKinds, Zenon
  <2> QED BY <2>3
<1> QED BY <1>2, <1>3

\* A support programme is not judged, and scored "needs confirmation" whatever
\* the company.
LEMMA NotJudged ==
    ASSUME NEW n, n.type # "procurement", n.type \in Type, NEW co, NEW today,
           NEW versioned \in BOOLEAN
    PROVE  /\ Judgement(n, co, today, versioned).grade = "none"
           /\ Judgement(n, co, today, versioned).conditions = {}
           /\ ScoreNoticeForCompany(n, co) = SupportProgramScore
<1>1. n.type = "support_program"
  BY TypeAssumption
<1>2. Judgement(n, co, today, versioned) = NoJudgement
  BY DEF Judgement
<1> QED BY <1>1, <1>2 DEF NoJudgement, ScoreNoticeForCompany

\* Its one category is known.
LEMMA ProgramScore ==
    /\ DOMAIN SupportProgramScore = {"overall"}
    /\ SupportProgramScore["overall"].result = "needs_confirmation"
    /\ SupportProgramScore["overall"].gap = ""
  BY DEF SupportProgramScore, Known

\* A procurement notice is advised against exactly when a category is not met.
LEMMA TurnedDownGrade ==
    ASSUME NEW n, n.type = "procurement", NEW co, RowsTyped(co), NEW today,
           NEW versioned \in BOOLEAN
    PROVE  Judgement(n, co, today, versioned).grade = "notRecommended"
              <=> "not_met" \in Results(ScoreNoticeForCompany(n, co))
<1> DEFINE J == JudgedConditions(n, co, today, versioned)
           score == ScoreNoticeForCompany(n, co)
<1>1. Judgement(n, co, today, versioned).grade = FinalizeJudgment(J)
  BY DEF Judgement
<1>2. FinalizeJudgment(J) = "notRecommended"
         <=> \E c \in J : c.result = "FAIL" /\ c.type # "CERTIFICATION"
  BY DEF FinalizeJudgment
<1>3. ASSUME "not_met" \in Results(score)
      PROVE  \E c \in J : c.result = "FAIL" /\ c.type # "CERTIFICATION"
  <2>1. PICK k \in DOMAIN score : score[k].result = "not_met"
    BY <1>3 DEF Results
  <2>2. PICK c \in J : ShowsScore(c, k, score[k].result)
    BY ConditionThere, Zenon
  <2>3. c.result = "FAIL"
    BY <2>1, <2>2, Zenon DEF ShowsScore
  <2> QED BY <2>3, Outcome
<1> QED BY <1>1, <1>2, <1>3, Outcome

\* It is ready exactly when everything is met.
LEMMA ReadyGrade ==
    ASSUME NEW n, n.type = "procurement", NEW co, RowsTyped(co), NEW today,
           NEW versioned \in BOOLEAN
    PROVE  Judgement(n, co, today, versioned).grade = "ready"
              <=> MetThroughout(n, co, today, versioned)
<1> DEFINE J == JudgedConditions(n, co, today, versioned)
           score == ScoreNoticeForCompany(n, co)
<1>1. Judgement(n, co, today, versioned).grade = FinalizeJudgment(J)
  BY DEF Judgement
<1>2. FinalizeJudgment(J) = "ready" <=> \A c \in J : c.result = "PASS"
  <2>1. \A c \in J : /\ c.result \in {"PASS", "FAIL", "REVIEW", "UNKNOWN"}
                     /\ c.result = "FAIL" => c.type # "CERTIFICATION"
    BY Outcome
  <2> HIDE DEF J
  <2> QED BY <2>1 DEF FinalizeJudgment
<1>3. ASSUME \A c \in J : c.result = "PASS"
      PROVE  MetThroughout(n, co, today, versioned)
  <2>1. ASSUME NEW k \in DOMAIN score PROVE score[k].result = "met"
    <3>1. PICK c \in J : ShowsScore(c, k, score[k].result)
      BY ConditionThere, Zenon
    <3> QED BY <1>3, <3>1, Zenon DEF ShowsScore
  <2>2. Results(score) = {"met"}
    BY <2>1, ScoreType DEF Results, ScoreTyped
  <2>3. ASSUME NEW t \in {"LICENSE", "CERTIFICATION"}, NEW m \in NamesAsked(n, versioned, t)
        PROVE  MatchLicenseCertByName(co, m, today) = "held"
    <3>1. Asked(n, versioned, t) # {}
      BY DEF NamesAsked
    <3>2. PICK c \in J : ShowsNames(c, t, NamesAsked(n, versioned, t), co, today)
      BY <3>1, ConditionThere, Zenon
    <3> QED BY <1>3, <3>2, Zenon DEF ShowsNames
  <2>4. \A t \in {"DIRECT_PRODUCTION"} : Asked(n, versioned, t) = {}
    BY <1>3, ConditionThere, Zenon DEF ShowsDirect
  <2>5. \A t \in {"TRACK_RECORD"} : Asked(n, versioned, t) = {}
    BY <1>3, ConditionThere, Zenon DEF ShowsRecord
  <2>6. n.docs # {}
    BY <1>3, ConditionThere, Zenon DEF ShowsUnread
  <2> QED BY <2>2, <2>3, <2>4, <2>5, <2>6 DEF MetThroughout
<1>4. ASSUME MetThroughout(n, co, today, versioned), NEW c \in J
      PROVE  c.result = "PASS"
  <2>1. CASE \E k \in DOMAIN score : ShowsScore(c, k, score[k].result)
    <3>1. PICK k \in DOMAIN score : ShowsScore(c, k, score[k].result)
      BY <2>1
    <3>2. score[k].result = "met"
      BY <1>4 DEF MetThroughout, Results
    <3> QED BY <3>1, <3>2, Zenon DEF ShowsScore
  <2>2. CASE \E t \in {"LICENSE", "CERTIFICATION"} :
                ShowsNames(c, t, NamesAsked(n, versioned, t), co, today)
    BY <1>4, <2>2, Zenon DEF ShowsNames, MetThroughout
  <2>3. \A t \in {"DIRECT_PRODUCTION"} : Asked(n, versioned, t) = {}
    BY <1>4 DEF MetThroughout
  <2>4. \A t \in {"TRACK_RECORD"} : Asked(n, versioned, t) = {}
    BY <1>4 DEF MetThroughout
  <2>5. n.docs # {}
    BY <1>4 DEF MetThroughout
  <2> QED BY ConditionKinds, <2>1, <2>2, <2>3, <2>4, <2>5, Zenon
<1> QED BY <1>1, <1>2, <1>3, <1>4

\* A company has rows of the known form.
LEMMA CompanyRows ==
    ASSUME NEW co \in Company
    PROVE  RowsTyped(co)
  BY DEF Company, RowsTyped

\* What the words of a name say of its kind.
LEMMA DocumentTypes ==
    ASSUME NEW name
    PROVE  /\ DocumentType(name) \in {"DIRECT_PRODUCTION", "TRACK_RECORD", "LICENSE",
                                      "CERTIFICATION", ""}
           /\ {"direct", "record"} \intersect name.words # {} <=>
                  DocumentType(name) \in {"DIRECT_PRODUCTION", "TRACK_RECORD"}
           /\ /\ {"direct", "record"} \intersect name.words = {}
              /\ {"licence", "certified"} \intersect name.words # {}
              => DocumentType(name) \in {"LICENSE", "CERTIFICATION"}
<1>1. CASE "direct" \in name.words \/ "record" \in name.words
  BY <1>1 DEF DocumentType
<1>2. CASE ~("direct" \in name.words \/ "record" \in name.words)
  BY <1>2 DEF DocumentType
<1> QED BY <1>1, <1>2

\* A name that counts as held has a newest row that is held today.
LEMMA HeldIsHeldToday ==
    ASSUME company \in Company, day \in Nat, NEW name,
           MatchLicenseCertByName(company, name, day) = "held"
    PROVE  HeldToday(name)
<1>1. /\ RowsNamed(company, name) # {} /\ Newest(company, name).status = "held"
      /\ ~Expired(Newest(company, name), day)
  BY CompanyRows, MatchHeld
<1>2. PICK i \in RowsNamed(company, name) :
          /\ Newest(company, name) = company.rows[i] /\ company.rows[i] \in LicenceRow
          /\ \A j \in RowsNamed(company, name) : j <= i
  BY <1>1, CompanyRows, NewestRow
<1>3. i \in DOMAIN company.rows /\ company.rows[i].name = name
  BY DEF RowsNamed
<1>4. company.rows[i].until = 0 \/ company.rows[i].until > day
  <2>1. company.rows[i].until \in Nat
    BY <1>2 DEF LicenceRow
  <2> QED BY <1>1, <1>2, <2>1 DEF Expired
<1>5. ASSUME NEW j \in i + 1 .. Len(company.rows), company.rows[j].name = name PROVE FALSE
  <2>1. DOMAIN company.rows = 1..Len(company.rows) /\ Len(company.rows) \in Nat
    BY CompanyRows DEF RowsTyped
  <2>2. j \in DOMAIN company.rows /\ j > i
    BY <1>3, <2>1
  <2>3. j \in RowsNamed(company, name)
    BY <1>5, <2>2 DEF RowsNamed
  <2> QED BY <1>2, <1>3, <2>1, <2>2, <2>3
<1> QED BY <1>1, <1>2, <1>3, <1>4, <1>5 DEF HeldToday

\* A document that asks for direct production or a track record keeps a
\* notice from being ready, whatever else asks for the same.
LEMMA DocumentStays ==
    ASSUME NEW n \in Notice, NEW versioned \in BOOLEAN, NEW d \in n.docs,
           DocumentType(d.name) \in {"DIRECT_PRODUCTION", "TRACK_RECORD", "CERTIFICATION"}
    PROVE  Asked(n, versioned, DocumentType(d.name)) # {}
<1>1. PICK r \in FromDocuments(n) : r.type = DocumentType(d.name)
  BY DocumentAsked
<1>2. r \in AllAsked(n, versioned)
  BY DEF AllAsked
<1> QED BY <1>1, <1>2, StaysAsked

\* A document that the judgement looks at under its own name.
LEMMA OwnName ==
    ASSUME notice \in Notice, NEW d \in JudgedByName, DocumentType(d.name) # ""
    PROVE  d.name \in NamesAsked(notice, TRUE, DocumentType(d.name))
<1>1. PICK r \in ResolveNoticeRequirements(notice, TRUE) :
          r.source = "required_documents" /\ r.name = d.name
  BY DEF JudgedByName
<1>2. r.type = DocumentType(d.name)
  <2>1. r \in AllAsked(notice, TRUE)
    BY ResolvedIsAsked
  <2>2. PICK e \in notice.docs : r.name = e.name /\ r.type = DocumentType(e.name)
    BY <1>1, <2>1, AskedBy
  <2> QED BY <1>1, <2>2
<1>3. r \in Asked(notice, TRUE, DocumentType(d.name))
  BY <1>1, <1>2, AskedIsResolved
<1> QED BY <1>1, <1>3 DEF NamesAsked

\* What a notice that is ready asks for is there.
LEMMA ReadyNeeds ==
    ASSUME notice \in Notice, company \in Company, day \in Nat,
           MetThroughout(notice, company, day, TRUE)
    PROVE  /\ notice.docs # {}
           /\ \A d \in notice.docs :
                /\ {"direct", "record"} \intersect d.name.words = {}
                /\ d \in JudgedByName /\ {"licence", "certified"} \intersect d.name.words # {}
                        => HeldToday(d.name)
<1>1. ASSUME NEW d \in notice.docs
      PROVE  {"direct", "record"} \intersect d.name.words = {}
  <2>1. DocumentType(d.name) \notin {"DIRECT_PRODUCTION", "TRACK_RECORD"}
    BY DocumentStays DEF MetThroughout
  <2> QED BY <2>1, DocumentTypes
<1>2. ASSUME NEW d \in JudgedByName, {"licence", "certified"} \intersect d.name.words # {}
      PROVE  HeldToday(d.name)
  <2>1. d \in notice.docs
    BY DEF JudgedByName
  <2>2. DocumentType(d.name) \in {"LICENSE", "CERTIFICATION"}
    BY <1>1, <1>2, <2>1, DocumentTypes
  <2>3. d.name \in NamesAsked(notice, TRUE, DocumentType(d.name))
    BY <2>2, OwnName
  <2>4. MatchLicenseCertByName(company, d.name, day) = "held"
    BY <2>2, <2>3 DEF MetThroughout
  <2> QED BY <2>4, HeldIsHeldToday
<1>3. notice.docs # {}
  BY DEF MetThroughout
<1> QED BY <1>1, <1>2, <1>3

\* A notice is of a type that the program knows.
LEMMA NoticeType ==
    ASSUME NEW n \in Notice
    PROVE  n.type \in Type
  BY DEF Notice

\* Both grades are backed, whatever the company and the notice.
LEMMA Backed ==
    ASSUME notice \in Notice, company \in Company, day \in Nat
    PROVE  GradeIsBacked
<1> DEFINE grade == Judged(TRUE).grade
<1>0. grade \in {"ready", "notRecommended"} => notice.type = "procurement"
  BY NotJudged, NoticeType DEF Judged
<1>1. ASSUME grade = "ready"
      PROVE  /\ \/ notice.official = {} /\ RegionEnriched(notice)
                \/ \E o \in notice.official : IsPrefix(o, company.region)
             /\ notice.industry \in ExpandCompanyIndustries(company.groups) \ {"other"}
             /\ company.size # "" /\ notice.budget # -1
             /\ company.size = "small" => notice.budget < SmallCap
             /\ notice.docs # {}
             /\ \A d \in notice.docs :
                    /\ {"direct", "record"} \intersect d.name.words = {}
                    /\ /\ d \in JudgedByName
                       /\ {"licence", "certified"} \intersect d.name.words # {}
                       => HeldToday(d.name)
  <2>1. MetThroughout(notice, company, day, TRUE)
    BY <1>0, <1>1, CompanyRows, ReadyGrade DEF Judged
  <2>2. Results(ScoreNoticeForCompany(notice, company)) = {"met"}
    BY <2>1 DEF MetThroughout
  <2> QED BY <2>1, <2>2, ReadyNeeds, AllMet, Zenon
<1>2. ASSUME grade = "notRecommended"
      PROVE  /\ notice.official # {} /\ company.region # <<>>
             /\ \A o \in notice.official : o[1] # company.region[1]
  <2>1. "not_met" \in Results(ScoreNoticeForCompany(notice, company))
    BY <1>0, <1>2, CompanyRows, TurnedDownGrade DEF Judged
  <2> QED BY <2>1, TurnedDown, Zenon
<1> QED BY <1>1, <1>2, Zenon DEF GradeIsBacked

-----------------------------------------------------------------------------
(* The engines.                                                              *)

\* The grades of the page, the buckets, the pipeline and the evaluation.
LEMMA GradesMatch ==
    ASSUME notice \in Notice, company \in Company, day \in Nat
    PROVE  GradesMatchJudgement(Judged(TRUE).grade)
<1> DEFINE score == ScoreNoticeForCompany(notice, company)
           grade == Judged(TRUE).grade
<1>1. grade = "notRecommended" <=> "not_met" \in Results(score)
  <2>1. CASE notice.type = "procurement"
    BY <2>1, CompanyRows, TurnedDownGrade DEF Judged
  <2>2. CASE notice.type # "procurement"
    <3>1. grade = "none" /\ score = SupportProgramScore
      BY <2>2, NotJudged, NoticeType DEF Judged
    <3>2. "not_met" \notin Results(score)
      BY <3>1, ProgramScore DEF Results
    <3> QED BY <3>1, <3>2
  <2> QED BY <2>1, <2>2
<1>2. /\ SummaryBucket(notice, company) = "notRecommended" <=> "not_met" \in Results(score)
      /\ OverallResult(score) = "not_met" <=> "not_met" \in Results(score)
      /\ PipelineGrade(notice, company) = "not_recommended" <=> "not_met" \in Results(score)
  BY DEF SummaryBucket, OverallResult, PipelineGrade, GradeFromCategories
<1>3. ASSUME grade = "ready"
      PROVE  SummaryBucket(notice, company) = "ready" /\ OverallResult(score) = "met"
  <2>0. notice.type = "procurement"
    BY <1>3, NotJudged, NoticeType DEF Judged
  <2>1. MetThroughout(notice, company, day, TRUE)
    BY <1>3, <2>0, CompanyRows, ReadyGrade DEF Judged
  <2>2. Results(score) = {"met"}
    BY <2>1 DEF MetThroughout
  <2>3. ~\E k \in DOMAIN score : score[k].gap = "company"
    <3>1. \A k \in DOMAIN score : score[k].result = "met"
      BY <2>2 DEF Results
    <3> QED BY <3>1, ScoreType DEF ScoreTyped
  <2> QED BY <2>2, <2>3 DEF SummaryBucket, OverallResult, BucketFromCategories
<1>4. ASSUME notice.conditions = {}, RecommendationJudgment.grade = "ready"
      PROVE  grade = "ready"
  <2>0. notice.type = "procurement"
    BY <1>4, NotJudged, NoticeType DEF RecommendationJudgment, Judged
  <2>1. MetThroughout(notice, company, day, FALSE)
    BY <1>4, <2>0, CompanyRows, ReadyGrade DEF RecommendationJudgment, Judged
  <2>2. ASSUME NEW t PROVE Asked(notice, TRUE, t) \subseteq Asked(notice, FALSE, t)
    <3> SUFFICES ASSUME NEW r \in Asked(notice, TRUE, t) PROVE r \in Asked(notice, FALSE, t)
      OBVIOUS
    <3>1. /\ r \in ResolveNoticeRequirements(notice, TRUE) /\ r.type = t
          /\ r.source \in {"required_documents", "eligibility_conditions"}
      BY AskedIsResolved
    <3>2. r \in FromDocuments(notice)
      BY <1>4, <3>1, ResolvedIsAsked, AskedBy
    <3>3. AllAsked(notice, FALSE) \subseteq AllAsked(notice, TRUE)
      BY DEF AllAsked
    <3>4. r \in ResolveNoticeRequirements(notice, FALSE)
      BY <3>1, <3>2, <3>3 DEF ResolveNoticeRequirements, AllAsked
    <3> QED BY <3>1, <3>4, AskedIsResolved
  <2>3. MetThroughout(notice, company, day, TRUE)
    BY <2>1, <2>2 DEF MetThroughout, NamesAsked
  <2> QED BY <2>0, <2>3, CompanyRows, ReadyGrade DEF Judged
<1> QED BY <1>1, <1>2, <1>3, <1>4, Zenon DEF GradesMatchJudgement

\* The judgement of a licence, the list, the calendar and the checklist.
LEMMA LicencesMatch ==
    ASSUME notice \in Notice, company \in Company, day \in Nat \ {0}
    PROVE  LicencesMatchJudgement
<1>1. ASSUME NEW n \in {company.rows[i].name : i \in DOMAIN company.rows}
      PROVE  (MatchLicenseCertByName(company, n, day) = "renew")
                <=> \/ ListedExpired(Newest(company, n), day)
                    \/ \E i \in LicenseExpiring(company, day, 0) :
                          company.rows[i] = Newest(company, n)
  <2>1. RowsNamed(company, n) # {}
    BY DEF RowsNamed
  <2>2. PICK i \in DOMAIN company.rows :
            company.rows[i] = Newest(company, n) /\ company.rows[i] \in LicenceRow
    BY <2>1, CompanyRows, NewestRow DEF RowsNamed
  <2> DEFINE row == Newest(company, n)
  <2>3. row.until \in Nat
    BY <2>2 DEF LicenceRow
  <2>4. MatchLicenseCertByName(company, n, day) = "renew"
          <=> row.status = "held" /\ row.until # 0 /\ row.until <= day
    BY <2>1, CompanyRows, MatchHeld DEF Expired
  <2>5. (\E j \in LicenseExpiring(company, day, 0) : company.rows[j] = row)
          <=> row.status = "held" /\ row.until = day
    <3>1. \A x \in Nat : x \in day .. day + 0 <=> x = day
      OBVIOUS
    <3> HIDE DEF row
    <3> QED BY <2>2, <2>3, <3>1 DEF LicenseExpiring, row
  <2> QED BY <2>3, <2>4, <2>5 DEF ListedExpired
<1>2. ASSUME NEW d \in notice.docs, "licence paper" \in d.name.words,
             MatchLicenseCertByName(company, d.name, day) = "held"
      PROVE  d.name \in ShownAsHeld(notice, company)
  BY <1>2, CompanyRows, MatchHeld DEF ShownAsHeld
<1> QED BY <1>1, <1>2, Zenon DEF LicencesMatchJudgement

\* What the company is asked about.
LEMMA QuestionsAsked ==
    ASSUME NEW n, n.type = "procurement", NEW co, RowsTyped(co), NEW today,
           NEW versioned \in BOOLEAN
    PROVE  \A x : x \in Questions(Judgement(n, co, today, versioned)) <=>
              \/ /\ x \in {"LICENSE", "CERTIFICATION"}
                 /\ \E m \in NamesAsked(n, versioned, x) : RowsNamed(co, m) = {}
              \/ /\ x \in {"DIRECT_PRODUCTION"} /\ Asked(n, versioned, x) # {}
                 /\ CompanyDirectProductionStatus(co) = "unclear"
              \/ /\ x \in {"TRACK_RECORD"} /\ Asked(n, versioned, x) # {}
                 /\ co.records = {}
<1> DEFINE J == JudgedConditions(n, co, today, versioned)
           score == ScoreNoticeForCompany(n, co)
<1>1. \A x : x \in Questions(Judgement(n, co, today, versioned)) <=>
                \E c \in J : x = c.type /\ (c.ask # {} \/ c.note = "unregistered")
  <2>1. Judgement(n, co, today, versioned).conditions = J
    BY DEF Judgement
  <2> HIDE DEF J
  <2> QED BY <2>1, Zenon DEF Questions
<1> HIDE DEF J
<1> SUFFICES ASSUME NEW x
             PROVE  (\E c \in J : x = c.type /\ (c.ask # {} \/ c.note = "unregistered")) <=>
              \/ /\ x \in {"LICENSE", "CERTIFICATION"}
                 /\ \E m \in NamesAsked(n, versioned, x) : RowsNamed(co, m) = {}
              \/ /\ x \in {"DIRECT_PRODUCTION"} /\ Asked(n, versioned, x) # {}
                 /\ CompanyDirectProductionStatus(co) = "unclear"
              \/ /\ x \in {"TRACK_RECORD"} /\ Asked(n, versioned, x) # {}
                 /\ co.records = {}
  BY <1>1, Zenon
<1> USE DEF J
<1>2. ASSUME NEW c \in J, x = c.type, c.ask # {} \/ c.note = "unregistered"
      PROVE   \/ /\ x \in {"LICENSE", "CERTIFICATION"}
                 /\ \E m \in NamesAsked(n, versioned, x) : RowsNamed(co, m) = {}
              \/ /\ x \in {"DIRECT_PRODUCTION"} /\ Asked(n, versioned, x) # {}
                 /\ CompanyDirectProductionStatus(co) = "unclear"
              \/ /\ x \in {"TRACK_RECORD"} /\ Asked(n, versioned, x) # {}
                 /\ co.records = {}
  <2>1. ~\E k \in DOMAIN score : ShowsScore(c, k, score[k].result)
    BY <1>2 DEF ShowsScore
  <2>2. ~ShowsUnread(c)
    BY <1>2 DEF ShowsUnread
  <2>3. CASE \E t \in {"LICENSE", "CERTIFICATION"} :
                ShowsNames(c, t, NamesAsked(n, versioned, t), co, today)
    <3>1. PICK t \in {"LICENSE", "CERTIFICATION"} :
                ShowsNames(c, t, NamesAsked(n, versioned, t), co, today)
      BY <2>3
    <3>2. /\ x = t /\ c.note = ""
          /\ c.ask = {m \in NamesAsked(n, versioned, t) : RowsNamed(co, m) = {}}
      BY <1>2, <3>1, Zenon DEF ShowsNames
    <3> QED BY <1>2, <3>2
  <2>4. CASE \E t \in {"DIRECT_PRODUCTION"} : Asked(n, versioned, t) # {} /\ ShowsDirect(c, co)
    <3>1. x = "DIRECT_PRODUCTION" /\ CompanyDirectProductionStatus(co) = "unclear"
      BY <1>2, <2>4 DEF ShowsDirect
    <3> QED BY <2>4, <3>1
  <2>5. CASE \E t \in {"TRACK_RECORD"} : Asked(n, versioned, t) # {} /\ ShowsRecord(c, co)
    <3>1. x = "TRACK_RECORD" /\ co.records = {}
      BY <1>2, <2>5 DEF ShowsRecord
    <3> QED BY <2>5, <3>1
  <2> QED BY ConditionKinds, <2>1, <2>2, <2>3, <2>4, <2>5, Zenon
<1>3. ASSUME x \in {"LICENSE", "CERTIFICATION"},
             NEW m \in NamesAsked(n, versioned, x), RowsNamed(co, m) = {}
      PROVE  \E c \in J : x = c.type /\ c.ask # {}
  <2>1. Asked(n, versioned, x) # {}
    BY DEF NamesAsked
  <2>2. PICK c \in J : ShowsNames(c, x, NamesAsked(n, versioned, x), co, today)
    BY <1>3, <2>1, ConditionThere, Zenon
  <2>3. c.type = x /\ c.ask = {y \in NamesAsked(n, versioned, x) : RowsNamed(co, y) = {}}
    BY <2>2, Zenon DEF ShowsNames
  <2>4. m \in c.ask
    BY <1>3, <2>3
  <2> QED BY <2>3, <2>4
<1>4. ASSUME x \in {"DIRECT_PRODUCTION"}, Asked(n, versioned, x) # {},
             CompanyDirectProductionStatus(co) = "unclear"
      PROVE  \E c \in J : x = c.type /\ c.ask # {}
  <2>1. PICK c \in J : ShowsDirect(c, co)
    BY <1>4, ConditionThere, Zenon
  <2> QED BY <1>4, <2>1 DEF ShowsDirect
<1>5. ASSUME x \in {"TRACK_RECORD"}, Asked(n, versioned, x) # {}, co.records = {}
      PROVE  \E c \in J : x = c.type /\ c.note = "unregistered"
  <2>1. PICK c \in J : ShowsRecord(c, co)
    BY <1>5, ConditionThere, Zenon
  <2> QED BY <1>5, <2>1 DEF ShowsRecord
<1> QED BY <1>2, <1>3, <1>4, <1>5, Zenon

\* The documents of a kind.
LEMMA OfType ==
    ASSUME NEW n, NEW type
    PROVE  \A m : m \in DocumentsOfType(n, type) <=>
              \E d \in n.docs : m = d.name /\ DocumentType(d.name) = type
  BY DEF DocumentsOfType

\* A procurement notice all of whose documents are judged under their own
\* names, and which has no other conditions than a track record.
Plain ==
    /\ notice.type = "procurement"
    /\ {e.category : e \in notice.conditions} \subseteq {"record", "general"}
    /\ JudgedByName = notice.docs

\* Then the judgement asks for what the gaps look at.
LEMMA PlainAsks ==
    ASSUME notice \in Notice, Plain
    PROVE  /\ \A t \in {"LICENSE", "CERTIFICATION", "DIRECT_PRODUCTION"} :
                 NamesAsked(notice, TRUE, t) = DocumentsOfType(notice, t)
           /\ \A t \in {"TRACK_RECORD"} : NamesAsked(notice, TRUE, t) # {} <=>
                 \/ DocumentsOfType(notice, t) # {}
                 \/ \E e \in notice.conditions : e.category = "record"
<1>1. \A e \in notice.conditions : e.category \in {"record", "general"}
  BY DEF Plain
<1>2. CategoryType["record"] = "TRACK_RECORD" /\ CategoryType["general"] = ""
  BY DEF CategoryType
<1>3. ASSUME NEW t, NEW m \in NamesAsked(notice, TRUE, t)
      PROVE  \/ m \in DocumentsOfType(notice, t)
             \/ \E e \in notice.conditions : CategoryType[e.category] = t
  <2>1. PICK r \in Asked(notice, TRUE, t) : m = r.name
    BY DEF NamesAsked
  <2>2. /\ r \in AllAsked(notice, TRUE) /\ r.type = t
        /\ r.source \in {"required_documents", "eligibility_conditions"}
    BY AskedIsResolved, ResolvedIsAsked
  <2>3. CASE r.source = "required_documents"
    BY <2>1, <2>2, <2>3, AskedBy, OfType
  <2>4. CASE r.source = "eligibility_conditions"
    BY <2>2, <2>4, AskedBy
  <2> QED BY <2>2, <2>3, <2>4
<1>4. ASSUME NEW t, t # "", NEW m \in DocumentsOfType(notice, t)
      PROVE  m \in NamesAsked(notice, TRUE, t)
  <2>1. PICK d \in notice.docs : m = d.name /\ DocumentType(d.name) = t
    BY OfType
  <2>2. d \in JudgedByName
    BY DEF Plain
  <2> QED BY <1>4, <2>1, <2>2, OwnName
<1>5. ASSUME NEW e \in notice.conditions, e.category = "record",
             NEW t \in {"TRACK_RECORD"}
      PROVE  NamesAsked(notice, TRUE, t) # {}
  <2>1. CategoryType[e.category] = t
    BY <1>2, <1>5
  <2>2. PICK r \in FromConditions(notice) : r.type = t
    BY <2>1, ConditionAsked
  <2>3. r \in AllAsked(notice, TRUE)
    BY DEF AllAsked
  <2>4. Asked(notice, TRUE, t) # {}
    BY <2>2, <2>3, StaysAsked
  <2> QED BY <2>4 DEF NamesAsked
<1>6. \A t \in {"LICENSE", "CERTIFICATION", "DIRECT_PRODUCTION"} :
         NamesAsked(notice, TRUE, t) = DocumentsOfType(notice, t)
  <2> SUFFICES ASSUME NEW t \in {"LICENSE", "CERTIFICATION", "DIRECT_PRODUCTION"}
               PROVE  NamesAsked(notice, TRUE, t) = DocumentsOfType(notice, t)
    OBVIOUS
  <2>1. \A e \in notice.conditions : CategoryType[e.category] # t
    BY <1>1, <1>2
  <2> QED BY <1>3, <1>4, <2>1
<1>7. \A t \in {"TRACK_RECORD"} : NamesAsked(notice, TRUE, t) # {} <=>
         \/ DocumentsOfType(notice, t) # {}
         \/ \E e \in notice.conditions : e.category = "record"
  <2> SUFFICES ASSUME NEW t \in {"TRACK_RECORD"}
               PROVE  NamesAsked(notice, TRUE, t) # {} <=>
                         \/ DocumentsOfType(notice, t) # {}
                         \/ \E e \in notice.conditions : e.category = "record"
    OBVIOUS
  <2>1. \A e \in notice.conditions : CategoryType[e.category] = t => e.category = "record"
    BY <1>1, <1>2
  <2> QED BY <1>3, <1>4, <1>5, <2>1
<1> QED BY <1>6, <1>7

\* What the gaps count.
LEMMA GapsCounted ==
    ASSUME notice \in Notice, company \in Company
    PROVE  \A x : x \in ParticipationGaps(notice, company, day) <=>
              \/ /\ x \in DOMAIN ScoreNoticeForCompany(notice, company)
                 /\ ScoreNoticeForCompany(notice, company)[x].gap = "company"
              \/ /\ x \in {"LICENSE", "CERTIFICATION"}
                 /\ \E m \in DocumentsOfType(notice, x) : RowsNamed(company, m) = {}
              \/ /\ x \in {"DIRECT_PRODUCTION"} /\ DocumentsOfType(notice, x) # {}
                 /\ CompanyDirectProductionStatus(company) = "unclear"
              \/ /\ x \in {"TRACK_RECORD"} /\ company.records = {}
                 /\ \/ DocumentsOfType(notice, x) # {}
                    \/ \E e \in notice.conditions : e.category = "record"
<1> DEFINE score == ScoreNoticeForCompany(notice, company)
<1>1. \A t : AnyCompanyGap(company, DocumentsOfType(notice, t), day) <=>
         \E m \in DocumentsOfType(notice, t) : RowsNamed(company, m) = {}
  BY CompanyRows, MatchHeld, Zenon DEF AnyCompanyGap
<1>2. ParticipationGaps(notice, company, day) =
         {k \in DOMAIN score : score[k].gap = "company"}
         \union {t \in {"LICENSE", "CERTIFICATION"} :
                    AnyCompanyGap(company, DocumentsOfType(notice, t), day)}
         \union {t \in {"DIRECT_PRODUCTION"} :
                    /\ DocumentsOfType(notice, t) # {}
                    /\ CompanyDirectProductionStatus(company) = "unclear"}
         \union {t \in {"TRACK_RECORD"} :
                    /\ \/ DocumentsOfType(notice, "TRACK_RECORD") # {}
                       \/ \E e \in notice.conditions : e.category = "record"
                    /\ company.records = {}}
  BY Zenon DEF ParticipationGaps
<1> HIDE DEF score
<1> QED BY <1>1, <1>2, Zenon DEF score

\* The gaps and the questions of the judgement.
LEMMA GapsMatch ==
    ASSUME notice \in Notice, company \in Company, day \in Nat
    PROVE  GapsMatchJudgement(Judged(TRUE))
<1> DEFINE score == ScoreNoticeForCompany(notice, company)
           J == JudgedConditions(notice, company, day, TRUE)
           gaps == ParticipationGaps(notice, company, day)
<1>1. notice.type = "procurement" => Judged(TRUE).conditions = J
  BY DEF Judged, Judgement
<1>0. ASSUME notice.type # "procurement"
      PROVE  Judged(TRUE).conditions = {} /\ score = SupportProgramScore
  BY <1>0, NotJudged, NoticeType DEF Judged
<1>2. RowsTyped(company)
  BY CompanyRows
<1>3. DOMAIN score \subseteq {"overall", "region", "industry", "budget"}
  BY ScoreType DEF ScoreTyped
<1>4. ASSUME Plain PROVE gaps \ DOMAIN score = Questions(Judged(TRUE))
  <2> SUFFICES ASSUME NEW x
               PROVE  x \in gaps \ DOMAIN score <=> x \in Questions(Judged(TRUE))
    BY Zenon
  <2>1. x \in Questions(Judged(TRUE)) <=>
              \/ /\ x \in {"LICENSE", "CERTIFICATION"}
                 /\ \E m \in NamesAsked(notice, TRUE, x) : RowsNamed(company, m) = {}
              \/ /\ x \in {"DIRECT_PRODUCTION"} /\ Asked(notice, TRUE, x) # {}
                 /\ CompanyDirectProductionStatus(company) = "unclear"
              \/ /\ x \in {"TRACK_RECORD"} /\ Asked(notice, TRUE, x) # {}
                 /\ company.records = {}
    <3>1. notice.type = "procurement"
      BY <1>4 DEF Plain
    <3> QED BY <1>2, <3>1, QuestionsAsked, Zenon DEF Judged
  <2>2. x \in {"LICENSE", "CERTIFICATION", "DIRECT_PRODUCTION", "TRACK_RECORD"}
           => x \notin DOMAIN score
    BY <1>3
  <2>3. Asked(notice, TRUE, x) # {} <=> NamesAsked(notice, TRUE, x) # {}
    BY DEF NamesAsked
  <2>4. /\ x \in {"LICENSE", "CERTIFICATION", "DIRECT_PRODUCTION"} =>
              NamesAsked(notice, TRUE, x) = DocumentsOfType(notice, x)
        /\ x \in {"TRACK_RECORD"} =>
              (NamesAsked(notice, TRUE, x) # {} <=>
                 \/ DocumentsOfType(notice, x) # {}
                 \/ \E e \in notice.conditions : e.category = "record")
    BY <1>4, PlainAsks
  <2>5. x \in gaps <=>
              \/ x \in DOMAIN score /\ score[x].gap = "company"
              \/ /\ x \in {"LICENSE", "CERTIFICATION"}
                 /\ \E m \in DocumentsOfType(notice, x) : RowsNamed(company, m) = {}
              \/ /\ x \in {"DIRECT_PRODUCTION"} /\ DocumentsOfType(notice, x) # {}
                 /\ CompanyDirectProductionStatus(company) = "unclear"
              \/ /\ x \in {"TRACK_RECORD"} /\ company.records = {}
                 /\ \/ DocumentsOfType(notice, x) # {}
                    \/ \E e \in notice.conditions : e.category = "record"
    BY GapsCounted, Zenon
  <2> HIDE DEF gaps, score
  <2> QED BY <2>1, <2>2, <2>3, <2>4, <2>5
<1>5. ASSUME NEW x \in gaps \intersect DOMAIN score
      PROVE  \E c \in J : c.result = "UNKNOWN" /\ x = c.type
  <2>1. score[x].gap = "company"
    BY <1>3, GapsCounted
  <2>2. score[x].result = "insufficient_data"
    BY <2>1, ScoreType DEF ScoreTyped
  <2>3. PICK c \in J : ShowsScore(c, x, score[x].result)
    BY <1>2, ConditionThere, Zenon
  <2> QED BY <2>2, <2>3, Zenon DEF ShowsScore
<1>6. ASSUME {"licenses", "certifications"} \subseteq DocumentRequirementGaps(company),
             NEW c \in J, c.type \in {"LICENSE", "CERTIFICATION"}
      PROVE  c.ask # {}
  <2>1. \A m : RowsNamed(company, m) = {}
    <3>1. \A g \in Table : ~\E i \in DOMAIN company.rows : company.rows[i].table = g
      BY <1>6 DEF DocumentRequirementGaps, Table
    <3>2. \A i \in DOMAIN company.rows : company.rows[i] \in LicenceRow
      BY <1>2 DEF RowsTyped
    <3>3. \A row \in LicenceRow : row.table \in Table
      BY DEF LicenceRow
    <3> QED BY <3>1, <3>2, <3>3 DEF RowsNamed
  <2>2. ~\E k \in DOMAIN score : ShowsScore(c, k, score[k].result)
    BY <1>3, <1>6 DEF ShowsScore
  <2>3. ~ShowsDirect(c, company) /\ ~ShowsRecord(c, company) /\ ~ShowsUnread(c)
    BY <1>6 DEF ShowsDirect, ShowsRecord, ShowsUnread
  <2>4. PICK t \in {"LICENSE", "CERTIFICATION"} :
            /\ Asked(notice, TRUE, t) # {}
            /\ ShowsNames(c, t, NamesAsked(notice, TRUE, t), company, day)
    BY <1>2, <2>2, <2>3, ConditionKinds, Zenon
  <2>5. c.ask = {m \in NamesAsked(notice, TRUE, t) : RowsNamed(company, m) = {}}
    BY <2>4, Zenon DEF ShowsNames
  <2>6. NamesAsked(notice, TRUE, t) # {}
    BY <2>4 DEF NamesAsked
  <2> QED BY <2>1, <2>5, <2>6
<1>7. gaps \intersect DOMAIN score
         \subseteq {c.type : c \in {d \in J : d.result = "UNKNOWN"}}
  BY <1>5, Zenon
<1>8. notice.type # "procurement" => gaps \intersect DOMAIN score = {}
  <2> SUFFICES ASSUME notice.type # "procurement", NEW x \in gaps \intersect DOMAIN score
               PROVE  FALSE
    OBVIOUS
  <2>1. score[x].gap = "company"
    BY <1>3, GapsCounted
  <2> QED BY <1>0, <2>1, ProgramScore
<1> HIDE DEF J, gaps, score
<1>9. /\ gaps \intersect DOMAIN score
            \subseteq {c.type : c \in {d \in Judged(TRUE).conditions : d.result = "UNKNOWN"}}
      /\ {"licenses", "certifications"} \subseteq DocumentRequirementGaps(company) =>
            \A c \in Judged(TRUE).conditions :
                c.type \in {"LICENSE", "CERTIFICATION"} => c.ask # {}
  <2>1. CASE notice.type = "procurement"
    BY <1>1, <1>6, <1>7, <2>1
  <2>2. CASE notice.type # "procurement"
    BY <1>0, <1>8, <2>2
  <2> QED BY <2>1, <2>2
<1> QED BY <1>4, <1>9, Zenon DEF GapsMatchJudgement, Plain, gaps, score

\* All engines agree, whatever the company and the notice.
LEMMA Agree ==
    ASSUME notice \in Notice, company \in Company, day \in Nat \ {0}
    PROVE  EnginesAgree
  BY GapsMatch, GradesMatch, LicencesMatch DEF EnginesAgree

-----------------------------------------------------------------------------
(* Types.                                                                    *)

\* The five kinds of request.
LEMMA WorkOf ==
    /\ DOMAIN Work = {"idle", "save", "create", "view", "evaluate"}
    /\ Work["save"] = Table \X Name /\ Work["create"] = Document
    /\ Work["view"] = Document /\ Work["evaluate"] = Assessment
  BY DEF Work

\* A request put together from its parts.
LEMMA RequestFrom ==
    ASSUME NEW op \in DOMAIN Work, NEW todo \in SUBSET Work[op], NEW at,
           at # <<>> => at \in todo /\ op \in {"save", "evaluate"}, NEW fresh \in BOOLEAN,
           NEW q, q = [op |-> op, todo |-> todo, at |-> at, fresh |-> fresh]
    PROVE  RequestOK(q)
<1>1. q.op = op /\ q.todo = todo /\ q.at = at /\ q.fresh = fresh
  OBVIOUS
<1> QED BY <1>1 DEF RequestOK

\* The parts of a request.
LEMMA RequestParts ==
    ASSUME NEW q, RequestOK(q)
    PROVE  /\ q = [op |-> q.op, todo |-> q.todo, at |-> q.at, fresh |-> q.fresh]
           /\ q.op \in DOMAIN Work /\ q.todo \in SUBSET Work[q.op]
           /\ q.at # <<>> => q.at \in q.todo /\ q.op \in {"save", "evaluate"}
           /\ q.fresh \in BOOLEAN
  BY DEF RequestOK

\* No request is a request.
LEMMA EmptyRequest ==
    ASSUME NEW q, q = NoRequest
    PROVE  RequestOK(q)
<1>1. q = [op |-> "idle", todo |-> {}, at |-> <<>>, fresh |-> FALSE]
  BY DEF NoRequest
<1>2. q.op = "idle" /\ q.todo = {} /\ q.at = <<>> /\ q.fresh = FALSE
  BY <1>1
<1> QED BY <1>1, <1>2, WorkOf DEF RequestOK

\* A request with less to do,
LEMMA RestOfRequest ==
    ASSUME NEW q, RequestOK(q), NEW rest, rest \subseteq q.todo,
           NEW r, r = [q EXCEPT !.todo = rest, !.at = <<>>]
    PROVE  RequestOK(r)
<1>1. r = [op |-> q.op, todo |-> rest, at |-> <<>>, fresh |-> q.fresh]
  BY DEF RequestOK
<1>2. q.op \in DOMAIN Work /\ rest \in SUBSET Work[q.op] /\ q.fresh \in BOOLEAN
  BY RequestParts
<1> QED BY <1>1, <1>2, RequestFrom

\* at something that it has to do,
LEMMA RequestAt ==
    ASSUME NEW q, RequestOK(q), q.op \in {"save", "evaluate"}, NEW e \in q.todo,
           NEW r, r = [q EXCEPT !.at = e]
    PROVE  RequestOK(r)
<1>1. r = [op |-> q.op, todo |-> q.todo, at |-> e, fresh |-> q.fresh]
  BY DEF RequestOK
<1>2. q.op \in DOMAIN Work /\ q.todo \in SUBSET Work[q.op] /\ q.fresh \in BOOLEAN
  BY RequestParts
<1> QED BY <1>1, <1>2, RequestFrom

\* overtaken by a change of the documents,
LEMMA RequestDisturbed ==
    ASSUME NEW q, RequestOK(q), NEW r, r = [q EXCEPT !.fresh = FALSE]
    PROVE  RequestOK(r)
<1>1. r = [op |-> q.op, todo |-> q.todo, at |-> q.at, fresh |-> FALSE]
  BY DEF RequestOK
<1>2. q.op \in DOMAIN Work /\ q.todo \in SUBSET Work[q.op]
  BY RequestParts
<1>3. q.at # <<>> => q.at \in q.todo /\ q.op \in {"save", "evaluate"}
  BY RequestParts
<1> QED BY <1>1, <1>2, <1>3, RequestFrom

\* or with one document less to look at, is a request.
LEMMA RequestLess ==
    ASSUME NEW q, RequestOK(q), q.op = "view", NEW less, less \subseteq q.todo,
           NEW r, r = [q EXCEPT !.todo = less]
    PROVE  RequestOK(r)
<1>1. r = [op |-> q.op, todo |-> less, at |-> q.at, fresh |-> q.fresh]
  BY DEF RequestOK
<1>2. q.op \in DOMAIN Work /\ less \in SUBSET Work[q.op] /\ q.fresh \in BOOLEAN
  BY RequestParts
<1>3. q.at = <<>>
  BY RequestParts
<1> QED BY <1>1, <1>2, <1>3, RequestFrom

\* One request more, or another one.
LEMMA ClientsStay ==
    ASSUME ClientsOK, NEW c \in Client, NEW q, RequestOK(q),
           client' = [client EXCEPT ![c] = q]
    PROVE  ClientsOK'
<1>1. client' = [d \in Client |-> IF d = c THEN q ELSE client[d]]
  BY DEF ClientsOK
<1> QED BY <1>1 DEF ClientsOK, RequestOK

\* What the steps of a request do to it.
LEMMA Replaced ==
    ASSUME ClientsOK, NEW c \in Client, NEW q, client' = [client EXCEPT ![c] = q]
    PROVE  client'[c] = q /\ \A d \in Client : d # c => client'[d] = client[d]
  BY DEF ClientsOK

\* It is done with one thing,
LEMMA Proceeds ==
    ASSUME ClientsOK, NEW c \in Client, NEW e, Proceed(c, client[c].todo \ {e})
    PROVE  /\ ClientsOK'
           /\ \A d \in Client : d # c => client'[d] = client[d]
           /\ \/ client'[c].op = "idle"
              \/ /\ client'[c].op = client[c].op /\ client'[c].fresh = client[c].fresh
                 /\ client'[c].todo = client[c].todo \ {e} /\ client'[c].at = <<>>
           /\ client'[c].op # "idle" => client[c].todo # {e}
<1> DEFINE rest == client[c].todo \ {e}
<1>1. RequestOK(client[c]) /\ rest \subseteq client[c].todo
  BY DEF ClientsOK
<1>2. client' = [client EXCEPT ![c] =
            IF rest = {} THEN NoRequest ELSE [client[c] EXCEPT !.todo = rest, !.at = <<>>]]
  BY Zenon DEF Proceed
<1>3. rest # {} => client[c].todo # {e}
  OBVIOUS
<1> HIDE DEF rest
<1>4. CASE rest = {}
  <2>1. client' = [client EXCEPT ![c] = NoRequest]
    BY <1>2, <1>4
  <2>2. ClientsOK'
    BY <2>1, ClientsStay, EmptyRequest, Zenon
  <2>3. client'[c] = NoRequest /\ \A d \in Client : d # c => client'[d] = client[d]
    BY <2>1, Replaced, Zenon
  <2> QED BY <2>2, <2>3 DEF NoRequest
<1>5. CASE rest # {}
  <2> DEFINE q == [client[c] EXCEPT !.todo = rest, !.at = <<>>]
  <2>1. client' = [client EXCEPT ![c] = q]
    BY <1>2, <1>5
  <2> HIDE DEF q
  <2>2. \A p : /\ q = [p EXCEPT !.todo = rest, !.at = <<>>]
               /\ RequestOK(p) /\ rest \subseteq p.todo
               => /\ RequestOK(q)
                  /\ q = [op |-> p.op, todo |-> rest, at |-> <<>>, fresh |-> p.fresh]
    BY RestOfRequest DEF RequestOK
  <2>3. RequestOK(q) /\ q = [op |-> client[c].op, todo |-> rest, at |-> <<>>,
                             fresh |-> client[c].fresh]
    BY <1>1, <2>2, Zenon DEF q
  <2>4. q.op = client[c].op /\ q.todo = rest /\ q.at = <<>> /\ q.fresh = client[c].fresh
    BY <2>3
  <2>5. ClientsOK'
    BY <2>1, <2>3, ClientsStay, Zenon
  <2>6. client'[c] = q /\ \A d \in Client : d # c => client'[d] = client[d]
    BY <2>1, Replaced, Zenon
  <2> QED BY <1>3, <1>5, <2>4, <2>5, <2>6 DEF rest
<1> QED BY <1>4, <1>5

\* is about to do one,
LEMMA Points ==
    ASSUME ClientsOK, NEW c \in Client, client[c].op \in {"save", "evaluate"},
           NEW e \in client[c].todo, client' = [client EXCEPT ![c].at = e]
    PROVE  /\ ClientsOK'
           /\ \A d \in Client : d # c => client'[d] = client[d]
           /\ client'[c].op = client[c].op /\ client'[c].fresh = client[c].fresh
           /\ client'[c].todo = client[c].todo /\ client'[c].at = e
<1> DEFINE q == [client[c] EXCEPT !.at = e]
<1>1. RequestOK(client[c])
  BY DEF ClientsOK
<1>2. RequestOK(q)
  BY <1>1, RequestAt, Zenon
<1>3. client' = [client EXCEPT ![c] = q]
  OBVIOUS
<1>4. q = [op |-> client[c].op, todo |-> client[c].todo, at |-> e, fresh |-> client[c].fresh]
  BY <1>1 DEF RequestOK
<1>5. /\ q.op = client[c].op /\ q.todo = client[c].todo /\ q.at = e
      /\ q.fresh = client[c].fresh
  BY <1>4
<1> HIDE DEF q
<1>6. ClientsOK'
  BY <1>2, <1>3, ClientsStay, Zenon
<1>7. client'[c] = q /\ \A d \in Client : d # c => client'[d] = client[d]
  BY <1>3, Replaced, Zenon
<1> QED BY <1>5, <1>6, <1>7

\* has looked at one document,
LEMMA Lists ==
    ASSUME ClientsOK, NEW c \in Client, client[c].op = "view",
           NEW e, client' = [client EXCEPT ![c].todo = @ \ {e}]
    PROVE  /\ ClientsOK'
           /\ \A d \in Client : d # c => client'[d] = client[d]
           /\ client'[c].op = client[c].op /\ client'[c].fresh = client[c].fresh
           /\ client'[c].todo = client[c].todo \ {e}
<1> DEFINE less == client[c].todo \ {e}
<1>1. RequestOK(client[c]) /\ less \subseteq client[c].todo
  BY DEF ClientsOK
<1>2. client' = [client EXCEPT ![c] = [client[c] EXCEPT !.todo = less]]
  OBVIOUS
<1> HIDE DEF less
<1> DEFINE q == [client[c] EXCEPT !.todo = less]
<1>3. RequestOK(q)
  BY <1>1, RequestLess, Zenon
<1>4. q = [op |-> client[c].op, todo |-> less, at |-> client[c].at, fresh |-> client[c].fresh]
  BY <1>1 DEF RequestOK
<1>5. q.op = client[c].op /\ q.todo = less /\ q.fresh = client[c].fresh
  BY <1>4
<1> HIDE DEF q
<1>6. client' = [client EXCEPT ![c] = q]
  BY <1>2 DEF q
<1>7. ClientsOK'
  BY <1>3, <1>6, ClientsStay, Zenon
<1>8. client'[c] = q /\ \A d \in Client : d # c => client'[d] = client[d]
  BY <1>6, Replaced, Zenon
<1> QED BY <1>5, <1>7, <1>8 DEF less

\* is overtaken,
LEMMA Disturbs ==
    ASSUME ClientsOK, Disturb
    PROVE  /\ ClientsOK'
           /\ \A c \in Client :
                 /\ client'[c].op = client[c].op /\ client'[c].todo = client[c].todo
                 /\ client'[c].at = client[c].at /\ client'[c].fresh = FALSE
<1>1. client' = [c \in Client |-> [client[c] EXCEPT !.fresh = FALSE]]
  BY DEF Disturb
<1>2. \A c \in Client : RequestOK([client[c] EXCEPT !.fresh = FALSE])
  BY RequestDisturbed, Zenon DEF ClientsOK
<1>3. \A c \in Client : client'[c] = [client[c] EXCEPT !.fresh = FALSE]
  BY <1>1
<1>4. \A c \in Client : RequestOK(client'[c])
  BY <1>2, <1>3, Zenon
<1>5. client' = [c \in Client |-> client'[c]]
  BY <1>1
<1>6. ASSUME NEW c \in Client
      PROVE  /\ client'[c].op = client[c].op /\ client'[c].todo = client[c].todo
             /\ client'[c].at = client[c].at /\ client'[c].fresh = FALSE
  <2> DEFINE q == client[c] 
             r == client'[c]
  <2>1. RequestOK(q) /\ r = [q EXCEPT !.fresh = FALSE]
    BY <1>3 DEF ClientsOK
  <2> HIDE DEF q, r
  <2>2. r = [op |-> q.op, todo |-> q.todo, at |-> q.at, fresh |-> FALSE]
    BY <2>1 DEF RequestOK
  <2>3. r.op = q.op /\ r.todo = q.todo /\ r.at = q.at /\ r.fresh = FALSE
    BY <2>2
  <2> QED BY <2>3 DEF q, r
<1> QED BY <1>4, <1>5, <1>6 DEF ClientsOK, RequestOK

\* begins,
LEMMA Starts ==
    ASSUME ClientsOK, NEW c \in Client, NEW op \in DOMAIN Work, NEW todo \in SUBSET Work[op],
           client' = [client EXCEPT ![c] =
              [op |-> op, todo |-> todo, at |-> <<>>, fresh |-> TRUE]]
    PROVE  /\ ClientsOK'
           /\ \A d \in Client : d # c => client'[d] = client[d]
           /\ client'[c].op = op /\ client'[c].todo = todo
           /\ client'[c].at = <<>> /\ client'[c].fresh = TRUE
<1>1. RequestOK([op |-> op, todo |-> todo, at |-> <<>>, fresh |-> TRUE])
  BY RequestFrom
<1>2. ClientsOK'
  BY <1>1, ClientsStay, Zenon
<1>3. /\ client'[c] = [op |-> op, todo |-> todo, at |-> <<>>, fresh |-> TRUE]
      /\ \A d \in Client : d # c => client'[d] = client[d]
  BY Replaced, Zenon
<1>4. client'[c].op = op /\ client'[c].todo = todo
  BY <1>3
<1>5. client'[c].at = <<>> /\ client'[c].fresh = TRUE
  BY <1>3
<1> QED BY <1>2, <1>3, <1>4, <1>5

\* or is over.
LEMMA Ends ==
    ASSUME ClientsOK, NEW c \in Client, client' = [client EXCEPT ![c] = NoRequest]
    PROVE  /\ ClientsOK'
           /\ \A d \in Client : d # c => client'[d] = client[d]
           /\ client'[c].op = "idle"
<1>1. ClientsOK'
  BY EmptyRequest, ClientsStay, Zenon
<1>2. client'[c] = NoRequest /\ \A d \in Client : d # c => client'[d] = client[d]
  BY Replaced, Zenon
<1> QED BY <1>1, <1>2 DEF NoRequest

\* What a version publishes.
LEMMA PublishedTyped ==
    ASSUME NEW v \in DOMAIN Published
    PROVE  /\ Published[v].docs \subseteq Name /\ Published[v].limits \subseteq Name
           /\ Published[v].conditions \subseteq ConditionRow
           /\ Published[v].official \subseteq Region
           /\ Published[v].industry \in STRING /\ Published[v].budget \in Int
<1> DEFINE Version ==
              [docs : SUBSET Name, limits : SUBSET Name,
               conditions : SUBSET ConditionRow, official : SUBSET Region,
               industry : STRING, budget : Int]
<1>1. Published \in Seq(Version)
  BY PublishedAssumption
<1> HIDE DEF Version
<1>2. Published[v] \in Version
  BY <1>1
<1> QED BY <1>2 DEF Version

\* A new version has no documents yet.
LEMMA NewNoticeType ==
    ASSUME NEW t \in Type, NEW v \in DOMAIN Published
    PROVE  NewNotice(t, v) \in Notice /\ NewNotice(t, v).docs = {}
<1>1. Published[v].industry \in STRING /\ Published[v].budget \in Int
  BY PublishedTyped
<1>2. NewNotice(t, v) = [type |-> t, version |-> v, batch |-> 0,
         industry |-> Published[v].industry, budget |-> Published[v].budget,
         docs |-> {}, conditions |-> {}, enrichment |-> "", official |-> {},
         limits |-> {}]
  BY DEF NewNotice
<1> DEFINE n == NewNotice(t, v)
<1>10. n = [type |-> t, version |-> v, batch |-> 0,
         industry |-> Published[v].industry, budget |-> Published[v].budget,
         docs |-> {}, conditions |-> {}, enrichment |-> "", official |-> {},
         limits |-> {}]
  BY <1>2
<1> HIDE DEF n
<1>11. /\ n.type = t /\ n.version = v /\ n.batch = 0
      /\ n.industry = Published[v].industry /\ n.budget = Published[v].budget
  BY <1>10
<1>3. /\ n.docs = {} /\ n.conditions = {} /\ n.enrichment = ""
      /\ n.official = {} /\ n.limits = {}
  BY <1>10
<1>4. n = [type |-> n.type, version |-> n.version, batch |-> n.batch,
           industry |-> n.industry, budget |-> n.budget, docs |-> n.docs,
           conditions |-> n.conditions, enrichment |-> n.enrichment,
           official |-> n.official, limits |-> n.limits]
  BY <1>10
<1>5. /\ n.type \in Type /\ n.version \in DOMAIN Published /\ n.batch \in Nat
      /\ n.industry \in STRING /\ n.budget \in Int
  BY <1>1, <1>11
<1>12. n.enrichment \in EnrichmentStatus
  BY <1>3 DEF EnrichmentStatus
<1>6. /\ n.docs \in SUBSET Document /\ n.conditions \in SUBSET ConditionRow
      /\ n.official \in SUBSET Region /\ n.limits \in SUBSET Name
  BY <1>3
<1>7. n \in Notice
  BY <1>4, <1>5, <1>6, <1>12 DEF Notice
<1> QED BY <1>3, <1>7 DEF n

\* Extraction gives a version one document of each name.
LEMMA ExtractedType ==
    ASSUME NEW n \in Notice
    PROVE  /\ Extracted(n) \in Notice
           /\ \A d, e \in Extracted(n).docs : d.name = e.name => d = e
<1> DEFINE docs == {[version |-> n.version, batch |-> n.batch + 1, name |-> m] :
                        m \in Published[n.version].docs}
           conditions == Published[n.version].conditions
<1>1. n.version \in DOMAIN Published /\ n.version \in Nat /\ n.batch \in Nat
  <2>1. n.version \in DOMAIN Published /\ n.batch \in Nat
    BY DEF Notice
  <2>2. DOMAIN Published \subseteq Nat
    BY PublishedAssumption
  <2> QED BY <2>1, <2>2
<1>2. docs \in SUBSET Document
  BY <1>1, PublishedTyped DEF Document
<1>3. \A d, e \in docs : d.name = e.name => d = e
  OBVIOUS
<1>4. conditions \in SUBSET ConditionRow
  BY <1>1, PublishedTyped
<1>5. Extracted(n) = [n EXCEPT !.batch = n.batch + 1, !.conditions = conditions, !.docs = docs]
  BY DEF Extracted
<1> HIDE DEF docs, conditions
<1>6. Extracted(n) = [type |-> n.type, version |-> n.version, batch |-> n.batch + 1,
                      industry |-> n.industry, budget |-> n.budget, docs |-> docs,
                      conditions |-> conditions, enrichment |-> n.enrichment,
                      official |-> n.official, limits |-> n.limits]
  BY <1>5 DEF Notice
<1>7. /\ n.type \in Type /\ n.industry \in STRING /\ n.budget \in Int
      /\ n.enrichment \in EnrichmentStatus
      /\ n.official \in SUBSET Region /\ n.limits \in SUBSET Name
  BY DEF Notice
<1>8. Extracted(n) \in Notice
  BY <1>1, <1>2, <1>4, <1>6, <1>7 DEF Notice
<1> QED BY <1>3, <1>6, <1>8

\* An item starts with one of the statuses (resolveChecklistMatch).
LEMMA Resolved ==
    ASSUME company \in Company, NEW name
    PROVE  ResolveChecklistMatch(name) \in ItemStatus
<1>1. MatchLicenseCertByName(company, name, day) \in {"none", "renew", "held", "issue", "check"}
  <2>1. CASE RowsNamed(company, name) = {}
    BY <2>1 DEF MatchLicenseCertByName
  <2>2. CASE RowsNamed(company, name) # {}
    <3>1. Newest(company, name).status \in LicenceStatus
      BY <2>2, CompanyRows, NewestRow DEF LicenceRow
    <3> QED BY <2>2, <3>1 DEF MatchLicenseCertByName, LicenceStatus
  <2> QED BY <2>1, <2>2
<1> QED BY <1>1 DEF ResolveChecklistMatch, ItemStatus

\* One more item, at the end.
LEMMA AddItemType ==
    ASSUME company \in Company, items \in Seq(Item), NEW d \in Document, AddItem(d)
    PROVE  /\ items' \in Seq(Item) /\ Len(items') = Len(items) + 1
           /\ \A i \in DOMAIN items : items'[i] = items[i]
           /\ items'[Len(items) + 1].name = d.name /\ items'[Len(items) + 1].document = d
           /\ DOMAIN items' = DOMAIN items \union {Len(items) + 1}
<1> DEFINE status == ResolveChecklistMatch(d.name)
           item == [name |-> d.name, document |-> d, status |-> status]
<1>1. d.name \in Name
  BY DEF Document
<1>2. status \in ItemStatus
  BY Resolved
<1> HIDE DEF status
<1>3. item \in Item /\ item.name = d.name /\ item.document = d
  BY <1>1, <1>2 DEF Item
<1>4. items' = Append(items, item)
  BY DEF AddItem, status
<1> HIDE DEF item
<1> QED BY <1>3, <1>4

\* The parts of a company that its actions change.
LEMMA SavedType ==
    ASSUME company \in Company, NEW c, NEW p \in Profile, SaveProfile(c, p)
    PROVE  company' \in Company /\ company'.rows = company.rows
<1> DEFINE new == [region |-> p.region, groups |-> p.groups, size |-> p.size,
                   number |-> p.number, listed |-> p.listed, directCert |-> p.directCert,
                   direct |-> company.direct, rows |-> company.rows,
                   records |-> company.records, files |-> company.files]
<1>1. company' = [company EXCEPT !.region = p.region, !.groups = p.groups,
            !.size = p.size, !.number = p.number, !.directCert = p.directCert,
            !.listed = p.listed]
  BY DEF SaveProfile
<1>2. company' = new
  BY <1>1 DEF Company
<1>3. /\ p.region \in Seq(STRING) /\ p.groups \in SUBSET STRING /\ p.size \in Text
      /\ p.number \in Text /\ p.listed \in SUBSET (Table \X Name)
      /\ p.directCert \in BOOLEAN
  BY OwnerAssumption
<1>4. /\ company.direct \in LicenceStatus \union {""} /\ company.rows \in Seq(LicenceRow)
      /\ company.records \in SUBSET Record /\ company.files \in SUBSET Kind
  BY DEF Company
<1>5. new \in Company
  BY <1>3, <1>4 DEF Company
<1> QED BY <1>2, <1>5

\* One more row, at the end.
LEMMA RowAdded ==
    ASSUME company \in Company, NEW row \in LicenceRow,
           company' = [company EXCEPT !.rows = Append(@, row)]
    PROVE  /\ company' \in Company
           /\ company'.rows = Append(company.rows, row)
<1> DEFINE longer == Append(company.rows, row)
<1>1. longer \in Seq(LicenceRow)
  <2>1. company.rows \in Seq(LicenceRow)
    BY DEF Company
  <2> QED BY <2>1
<1>2. company' = [company EXCEPT !.rows = longer]
  OBVIOUS
<1> HIDE DEF longer
<1>3. company' \in Company /\ company'.rows = longer
  BY <1>1, <1>2 DEF Company
<1> QED BY <1>3 DEF longer

\* The counters stay in their bounds.
LEMMA EditBounds ==
    ASSUME edits \in 0..MaxEdits, events \in 0..MaxEvents
    PROVE  /\ Edit => edits' \in 0..MaxEdits /\ events' \in 0..MaxEvents
           /\ Event => edits' \in 0..MaxEdits /\ events' \in 0..MaxEvents
  BY DayAssumption DEF Edit, Event

\* The first state is of the type.
LEMMA InitType == ReadinessInit => ReadinessTypeOK
<1> SUFFICES ASSUME ReadinessInit PROVE ReadinessTypeOK
  OBVIOUS
<1>1. company \in Company
  <2>1. company = [region |-> <<>>, groups |-> {}, size |-> "", number |-> "", listed |-> {},
                   directCert |-> FALSE, direct |-> "", rows |-> <<>>, records |-> {},
                   files |-> {}]
    BY DEF ReadinessInit, NewCompany
  <2>2. company.size \in Text /\ company.number \in Text
    BY <2>1 DEF Text
  <2>3. company.direct \in LicenceStatus \union {""}
    BY <2>1
  <2>4. company.region \in Seq(STRING) /\ company.rows \in Seq(LicenceRow)
    <3>1. company.region = <<>> /\ company.rows = <<>>
      BY <2>1, Zenon
    <3>2. \A S : <<>> \in Seq(S)
      OBVIOUS
    <3> QED BY <3>1, <3>2, Zenon
  <2>5. /\ company.groups = {} /\ company.listed = {} /\ company.records = {}
        /\ company.files = {}
    BY <2>1
  <2>7. company.directCert \in BOOLEAN
    BY <2>1, Zenon
  <2>6. company = [region |-> company.region, groups |-> company.groups,
                   size |-> company.size, number |-> company.number,
                   listed |-> company.listed, directCert |-> company.directCert,
                   direct |-> company.direct, rows |-> company.rows,
                   records |-> company.records, files |-> company.files]
    BY <2>1
  <2> QED BY <2>2, <2>3, <2>4, <2>5, <2>6, <2>7 DEF Company
<1>2. notice \in Notice
  <2>1. 1 \in DOMAIN Published
    BY PublishedAssumption
  <2>2. PICK t \in Type : notice = Extracted(NewNotice(t, 1))
    BY DEF ReadinessInit
  <2> QED BY <2>1, <2>2, NewNoticeType, ExtractedType
<1>3. /\ day \in 1..MaxDay /\ edits \in 0..MaxEdits /\ events \in 0..MaxEvents
  BY DayAssumption DEF ReadinessInit
<1>4. /\ entered = FALSE /\ items = <<>> /\ auto = {} /\ answers = <<>>
  BY DEF ReadinessInit
<1>6. items \in Seq(Item) /\ DOMAIN answers \subseteq Name
  BY <1>4
<1>5. ClientsOK
  <2>1. /\ client = [c \in Client |-> client[c]] /\ \A c \in Client : client[c] = NoRequest
    BY DEF ReadinessInit
  <2> QED BY <2>1, EmptyRequest, Zenon DEF ClientsOK
<1>7. EntryFirst /\ IsFiniteSet(auto)
  <2>1. \A c \in Client : client[c].op = "idle"
    BY DEF ReadinessInit, NoRequest
  <2>2. IsFiniteSet(auto)
    BY <1>4, FS_EmptySet
  <2> QED BY <1>4, <2>1, <2>2 DEF EntryFirst
<1> QED BY <1>1, <1>2, <1>3, <1>4, <1>5, <1>6, <1>7 DEF ReadinessTypeOK

\* The parts of the type that the proofs use.
LEMMA Parts ==
    ASSUME ReadinessTypeOK
    PROVE  /\ company \in Company /\ notice \in Notice /\ day \in Nat \ {0}
           /\ items \in Seq(Item) /\ ClientsOK /\ EntryFirst /\ DOMAIN answers \subseteq Name
           /\ edits \in 0..MaxEdits /\ events \in 0..MaxEvents /\ IsFiniteSet(auto)
           /\ \A c \in Client : RequestOK(client[c])
  BY DayAssumption DEF ReadinessTypeOK, ClientsOK

\* An entry is never lost, so its checklist has one.
LEMMA EntryStays ==
    ASSUME EntryFirst, entered => entered', items' = items \/ entered,
           \A c \in Client : client'[c].op \in {"create", "view"}
                                => entered' \/ client[c].op \in {"create", "view"}
    PROVE  EntryFirst'
  BY DEF EntryFirst

\* Every step keeps the type.
LEMMA TypeStep ==
    ASSUME ReadinessTypeOK, [ReadinessNext]_readinessVars
    PROVE  ReadinessTypeOK'
<1> USE Parts
<1>1. ASSUME NEW c \in Client, NEW p \in Profile, SaveProfile(c, p)
      PROVE  ReadinessTypeOK'
  <2>1. company' \in Company
    BY <1>1, SavedType
  <2>2. p.listed \in SUBSET (Table \X Name)
    BY OwnerAssumption
  <2>3. ClientsOK' /\ EntryFirst'
    <3>1. CASE p.listed = {}
      <4>1. client' = [client EXCEPT ![c] = NoRequest]
        BY <1>1, <3>1 DEF SaveProfile
      <4>2. ClientsOK' /\ \A d \in Client : client'[d].op \in {client[d].op, "idle"}
        BY <4>1, Ends
      <4> QED BY <1>1, <4>2, EntryStays DEF SaveProfile
    <3>2. CASE p.listed # {}
      <4>1. client' = [client EXCEPT ![c] =
                [op |-> "save", todo |-> p.listed, at |-> <<>>, fresh |-> TRUE]]
        BY <1>1, <3>2 DEF SaveProfile, Busy
      <4>2. ClientsOK' /\ \A d \in Client : client'[d].op \in {client[d].op, "save"}
        <5>1. "save" \in DOMAIN Work /\ p.listed \in SUBSET Work["save"]
          BY <2>2, WorkOf
        <5>2. /\ ClientsOK' /\ client'[c].op = "save"
              /\ \A d \in Client : d # c => client'[d] = client[d]
          BY <4>1, <5>1, Starts
        <5> QED BY <5>2
      <4> QED BY <1>1, <4>2, EntryStays DEF SaveProfile
    <3> QED BY <3>1, <3>2
  <2> QED BY <1>1, <2>1, <2>3, EditBounds DEF SaveProfile, ReadinessTypeOK, history
<1>2. ASSUME NEW c \in Client, SyncCheck(c) PROVE ReadinessTypeOK'
  <2>1. PICK e \in client[c].todo :
            IF HasRow(e[1], e[2]) THEN Proceed(c, client[c].todo \ {e})
            ELSE client' = [client EXCEPT ![c].at = e]
    BY <1>2 DEF SyncCheck
  <2>2. client[c].op \in {"save", "evaluate"}
    BY <1>2 DEF SyncCheck
  <2>3. ClientsOK' /\ \A d \in Client : client'[d].op \in {client[d].op, "idle"}
    BY <2>1, <2>2, Proceeds, Points
  <2>4. EntryFirst'
    BY <1>2, <2>3, EntryStays DEF SyncCheck
  <2> QED BY <1>2, <2>3, <2>4 DEF SyncCheck, ReadinessTypeOK, counters, history
<1>3. ASSUME NEW c \in Client, SyncInsert(c) PROVE ReadinessTypeOK'
  <2> DEFINE e == client[c].at
             row == [table |-> e[1], name |-> e[2], status |-> "held", until |-> 0]
  <2>1. e \in Table \X Name
    BY <1>3, WorkOf DEF SyncInsert, RequestOK
  <2>2. row \in LicenceRow
    BY <2>1 DEF LicenceRow, LicenceStatus
  <2>3. company' = [company EXCEPT !.rows = Append(@, row)]
    BY <1>3 DEF SyncInsert
  <2>4. company' \in Company
    <3> HIDE DEF row
    <3> QED BY <2>2, <2>3, RowAdded
  <2>5. ClientsOK' /\ \A d \in Client : client'[d].op \in {client[d].op, "idle"}
    BY <1>3, Proceeds DEF SyncInsert
  <2>6. EntryFirst'
    BY <1>3, <2>5, EntryStays DEF SyncInsert
  <2> QED BY <1>3, <2>4, <2>5, <2>6 DEF SyncInsert, ReadinessTypeOK, counters, history
<1>4. ASSUME NEW c \in Client, CreateEntry(c) PROVE ReadinessTypeOK'
  <2>1. notice.docs \in SUBSET Document
    BY DEF Notice
  <2>2. ClientsOK'
    <3>1. CASE notice.docs = {}
      <4>1. client' = [client EXCEPT ![c] = NoRequest]
        BY <1>4, <3>1 DEF CreateEntry
      <4> QED BY <4>1, Ends
    <3>2. CASE notice.docs # {}
      <4>1. client' = [client EXCEPT ![c] =
                [op |-> "create", todo |-> notice.docs, at |-> <<>>, fresh |-> TRUE]]
        BY <1>4, <3>2 DEF CreateEntry, Busy
      <4> QED BY <4>1, <2>1, WorkOf, Starts
    <3> QED BY <3>1, <3>2
  <2>3. EntryFirst'
    BY <1>4 DEF CreateEntry, EntryFirst
  <2> QED BY <1>4, <2>2, <2>3, EditBounds DEF CreateEntry, ReadinessTypeOK, history
<1>5. ASSUME NEW c \in Client, GenerateItem(c) PROVE ReadinessTypeOK'
  <2>1. PICK d \in client[c].todo : AddItem(d) /\ Proceed(c, client[c].todo \ {d})
    BY <1>5 DEF GenerateItem
  <2>2. d \in Document
    <3>1. client[c].op = "create"
      BY <1>5 DEF GenerateItem
    <3>2. client[c].todo \in SUBSET Work[client[c].op]
      BY RequestParts
    <3>3. client[c].todo \in SUBSET Document
      BY <3>1, <3>2, WorkOf
    <3> QED BY <2>1, <3>3
  <2>3. items' \in Seq(Item)
    BY <2>1, <2>2, AddItemType
  <2>4. ClientsOK' 
    BY <2>1, Proceeds
  <2>5. entered /\ EntryFirst'
    BY <1>5 DEF GenerateItem, EntryFirst
  <2> QED BY <1>5, <2>3, <2>4, <2>5 DEF GenerateItem, ReadinessTypeOK, counters, history
<1>6. ASSUME NEW c \in Client, Interrupt(c) PROVE ReadinessTypeOK'
  <2>1. ClientsOK' /\ \A d \in Client : client'[d].op \in {client[d].op, "idle"}
    BY <1>6, Ends DEF Interrupt
  <2>2. EntryFirst'
    BY <1>6, <2>1, EntryStays DEF Interrupt
  <2> QED BY <1>6, <2>1, <2>2 DEF Interrupt, ReadinessTypeOK, counters, history
<1>7. ASSUME NEW c \in Client, ViewEntry(c) PROVE ReadinessTypeOK'
  <2> DEFINE missing == {d \in notice.docs : ~Listed(d)}
  <2>1. missing \in SUBSET Document
    BY DEF Notice
  <2>2. client' = [client EXCEPT ![c] =
            [op |-> "view", todo |-> missing, at |-> <<>>, fresh |-> TRUE]]
    BY <1>7, Zenon DEF ViewEntry, Busy
  <2> HIDE DEF missing
  <2>3. ClientsOK'
    BY <2>1, <2>2, WorkOf, Starts
  <2>4. /\ UNCHANGED <<company, notice, day, entered, items, auto, edits, events, answers>>
        /\ entered
    BY <1>7, Zenon DEF ViewEntry, counters
  <2> QED BY <2>3, <2>4 DEF ReadinessTypeOK, EntryFirst
<1>8. ASSUME NEW c \in Client, SyncItem(c) PROVE ReadinessTypeOK'
  <2>1. PICK d \in client[c].todo :
            /\ IF Listed(d) THEN UNCHANGED items ELSE AddItem(d)
            /\ client' = [client EXCEPT ![c].todo = @ \ {d}]
    BY <1>8 DEF SyncItem
  <2>2. d \in Document /\ client[c].op = "view"
    BY <1>8, <2>1, WorkOf DEF SyncItem, RequestOK
  <2>3. items' \in Seq(Item)
    BY <2>1, <2>2, AddItemType
  <2>4. entered /\ EntryFirst'
    BY <1>8 DEF SyncItem, EntryFirst
  <2>5. ClientsOK'
    BY <2>1, <2>2, Lists
  <2> QED BY <1>8, <2>3, <2>4, <2>5 DEF SyncItem, ReadinessTypeOK, counters, history
<1>9. ASSUME NEW c \in Client, FinishView(c) PROVE ReadinessTypeOK'
  <2>1. ClientsOK' /\ \A d \in Client : client'[d].op \in {client[d].op, "idle"}
    BY <1>9, Ends DEF FinishView
  <2>2. EntryFirst'
    BY <1>9, <2>1, EntryStays DEF FinishView
  <2> QED BY <1>9, <2>1, <2>2 DEF FinishView, ReadinessTypeOK, counters, history
<1>10. ASSUME NEW c \in Client, Evaluate(c) PROVE ReadinessTypeOK'
  <2> DEFINE todo == {<<notice.version, k>> :
                        k \in DOMAIN ScoreNoticeForCompany(notice, company)}
  <2>1. todo \in SUBSET Assessment
    <3>1. DOMAIN ScoreNoticeForCompany(notice, company)
             \subseteq {"overall", "region", "industry", "budget"}
      BY ScoreType DEF ScoreTyped
    <3>2. DOMAIN Turn = {"overall", "region", "industry", "budget"}
      BY DEF Turn
    <3>3. notice.version \in DOMAIN Published
      BY DEF Notice
    <3> QED BY <3>1, <3>2, <3>3 DEF Assessment
  <2>2. client' = [client EXCEPT ![c] =
            [op |-> "evaluate", todo |-> todo, at |-> <<>>, fresh |-> TRUE]]
    BY <1>10, Zenon DEF Evaluate, Busy
  <2> HIDE DEF todo
  <2>3. ClientsOK' /\ \A d \in Client : client'[d].op \in {client[d].op, "evaluate"}
    <3>1. "evaluate" \in DOMAIN Work /\ todo \in SUBSET Work["evaluate"]
      BY <2>1, WorkOf
    <3>2. /\ ClientsOK' /\ client'[c].op = "evaluate"
          /\ \A d \in Client : d # c => client'[d] = client[d]
      BY <2>2, <3>1, Starts
    <3> QED BY <3>2
  <2>4. UNCHANGED <<company, notice, day, entered, items, auto, answers>> /\ Edit
    BY <1>10, Zenon DEF Evaluate
  <2>5. EntryFirst'
    BY <2>3, <2>4, EntryStays
  <2> QED BY <2>3, <2>4, <2>5, EditBounds DEF ReadinessTypeOK
<1>11. ASSUME NEW c \in Client, FindAutoCondition(c) PROVE ReadinessTypeOK'
  <2>1. PICK k \in client[c].todo :
            IF \E a \in auto : a.of = k THEN Proceed(c, client[c].todo \ {k})
            ELSE client' = [client EXCEPT ![c].at = k]
    BY <1>11 DEF FindAutoCondition
  <2>2. client[c].op \in {"save", "evaluate"}
    BY <1>11 DEF FindAutoCondition
  <2>3. ClientsOK' /\ \A d \in Client : client'[d].op \in {client[d].op, "idle"}
    BY <2>1, <2>2, Proceeds, Points
  <2>4. EntryFirst'
    BY <1>11, <2>3, EntryStays DEF FindAutoCondition
  <2> QED BY <1>11, <2>3, <2>4 DEF FindAutoCondition, ReadinessTypeOK, counters, history
<1>12. ASSUME NEW c \in Client, CreateAutoCondition(c) PROVE ReadinessTypeOK'
  <2> DEFINE k == client[c].at
             nth == Cardinality({a \in auto : a.of = k}) + 1
  <2>1. k \in Assessment
    BY <1>12, WorkOf DEF CreateAutoCondition, RequestOK
  <2>2. nth \in Nat
    <3>1. {a \in auto : a.of = k} \subseteq auto
      OBVIOUS
    <3>2. Cardinality({a \in auto : a.of = k}) \in Nat
      BY <3>1, FS_Subset, FS_CardinalityType
    <3> QED BY <3>2
  <2>3. auto' = auto \union {[of |-> k, nth |-> nth]}
    BY <1>12 DEF CreateAutoCondition
  <2>4. ClientsOK' /\ \A d \in Client : client'[d].op \in {client[d].op, "idle"}
    BY <1>12, Proceeds DEF CreateAutoCondition
  <2>5. EntryFirst'
    BY <1>12, <2>4, EntryStays DEF CreateAutoCondition
  <2> HIDE DEF nth
  <2>6. auto' \subseteq [of : Assessment, nth : Nat]
    BY <2>1, <2>2, <2>3 DEF ReadinessTypeOK
  <2>7. IsFiniteSet(auto')
    BY <2>3, FS_AddElement
  <2> QED BY <1>12, <2>4, <2>5, <2>6, <2>7
          DEF CreateAutoCondition, ReadinessTypeOK, counters, history
<1>13. ASSUME NEW a \in Answer, Register(a) PROVE ReadinessTypeOK'
  <2>1. a \in LicenceRow /\ a.name \in Name
    BY OwnerAssumption DEF LicenceRow
  <2>2. company' \in Company
    BY <1>13, <2>1, RowAdded DEF Register
  <2>3. (DOMAIN answers)' \subseteq Name
    <3>1. DOMAIN answers' = DOMAIN answers \union {a.name}
      BY <1>13 DEF Register
    <3> QED BY <2>1, <3>1
  <2>4. UNCHANGED <<notice, day, entered, items, marks, auto, client>> /\ Edit
    BY <1>13, Zenon DEF Register
  <2> QED BY <2>2, <2>3, <2>4, EditBounds DEF ReadinessTypeOK, ClientsOK, EntryFirst
<1>14. ASSUME NEW s \in LicenceStatus, SetDirectProductionStatus(s) PROVE ReadinessTypeOK'
  <2>1. company' \in Company
    BY <1>14 DEF SetDirectProductionStatus, Company
  <2> QED BY <1>14, <2>1, EditBounds
          DEF SetDirectProductionStatus, ReadinessTypeOK, ClientsOK, EntryFirst, history
<1>15. ASSUME NEW r \in Record, CreateTrackRecord(r) PROVE ReadinessTypeOK'
  <2>1. company' \in Company
    <3>1. company' = [company EXCEPT !.records = company.records \union {r}]
      BY <1>15 DEF CreateTrackRecord
    <3>2. company.records \union {r} \in SUBSET Record
      BY DEF Company
    <3> QED BY <3>1, <3>2 DEF Company
  <2> QED BY <1>15, <2>1, EditBounds
          DEF CreateTrackRecord, ReadinessTypeOK, ClientsOK, EntryFirst, history
<1>16. ASSUME NEW k \in Kind, UploadDocument(k) PROVE ReadinessTypeOK'
  <2>1. company' \in Company
    <3>1. company' = [company EXCEPT !.files = company.files \union {k}]
      BY <1>16 DEF UploadDocument
    <3>2. company.files \union {k} \in SUBSET Kind
      BY DEF Company
    <3> QED BY <3>1, <3>2 DEF Company
  <2> QED BY <1>16, <2>1, EditBounds
          DEF UploadDocument, ReadinessTypeOK, ClientsOK, EntryFirst, history
<1>17. ASSUME Tick PROVE ReadinessTypeOK'
  <2>1. (day \in 1..MaxDay)'
    BY <1>17, DayAssumption DEF Tick, ReadinessTypeOK
  <2> QED BY <1>17, <2>1 DEF Tick, ReadinessTypeOK, ClientsOK, EntryFirst, counters, history
<1>18. ASSUME Correct PROVE ReadinessTypeOK'
  <2>1. notice' \in Notice
    <3>1. notice.version + 1 \in DOMAIN Published /\ notice.type \in Type
      <4>1. notice.version \in DOMAIN Published /\ notice.type \in Type
        BY DEF Notice
      <4> QED BY <1>18, <4>1, PublishedAssumption DEF Correct
    <3> QED BY <1>18, <3>1, NewNoticeType DEF Correct
  <2>2. ClientsOK' /\ \A d \in Client : client'[d].op = client[d].op
    BY <1>18, Disturbs DEF Correct
  <2>3. EntryFirst'
    BY <1>18, <2>2, EntryStays DEF Correct
  <2> QED BY <1>18, <2>1, <2>2, <2>3, EditBounds DEF Correct, ReadinessTypeOK, history
<1>19. ASSUME Extract PROVE ReadinessTypeOK'
  <2>1. notice' \in Notice
    BY <1>19, ExtractedType DEF Extract
  <2>2. ClientsOK' /\ \A d \in Client : client'[d].op = client[d].op
    BY <1>19, Disturbs DEF Extract
  <2>3. EntryFirst'
    BY <1>19, <2>2, EntryStays DEF Extract
  <2> QED BY <1>19, <2>1, <2>2, <2>3, EditBounds DEF Extract, ReadinessTypeOK, history
<1>20. ASSUME NEW d \in notice.docs, RejectDocument(d) PROVE ReadinessTypeOK'
  <2>1. notice' \in Notice
    <3>1. notice' = [notice EXCEPT !.docs = notice.docs \ {d}]
      BY <1>20 DEF RejectDocument
    <3>2. notice.docs \ {d} \in SUBSET Document
      BY DEF Notice
    <3> QED BY <3>1, <3>2 DEF Notice
  <2>2. ClientsOK' /\ \A c \in Client : client'[c].op = client[c].op
    BY <1>20, Disturbs DEF RejectDocument
  <2>3. EntryFirst'
    BY <1>20, <2>2, EntryStays DEF RejectDocument
  <2> QED BY <1>20, <2>1, <2>2, <2>3, EditBounds DEF RejectDocument, ReadinessTypeOK, history
<1>21. ASSUME NEW d \in notice.docs, ToggleChecklistItem(d) PROVE ReadinessTypeOK'
  BY <1>21, EditBounds DEF ToggleChecklistItem, ReadinessTypeOK, ClientsOK, EntryFirst, history
<1>22. ASSUME NEW s \in EnrichmentStatus, Enrich(s) PROVE ReadinessTypeOK'
  <2> DEFINE made == Published[notice.version]
             official == IF s # "error" THEN made.official ELSE notice.official
             limits == IF s # "error" THEN made.limits ELSE notice.limits
  <2>1. official \in SUBSET Region /\ limits \in SUBSET Name
    <3>1. notice.version \in DOMAIN Published
      BY DEF Notice
    <3>2. made.official \in SUBSET Region /\ made.limits \in SUBSET Name
      BY <3>1, PublishedTyped
    <3>3. notice.official \in SUBSET Region /\ notice.limits \in SUBSET Name
      BY DEF Notice
    <3> QED BY <3>2, <3>3, Zenon
  <2>2. notice' = [notice EXCEPT !.enrichment = s, !.official = official, !.limits = limits]
    BY <1>22 DEF Enrich
  <2> HIDE DEF official, limits
  <2>3. notice' \in Notice
    <3>1. notice' = [type |-> notice.type, version |-> notice.version, batch |-> notice.batch,
                     industry |-> notice.industry, budget |-> notice.budget,
                     docs |-> notice.docs, conditions |-> notice.conditions,
                     enrichment |-> s, official |-> official, limits |-> limits]
      BY <2>2 DEF Notice
    <3> QED BY <2>1, <3>1 DEF Notice
  <2>4. UNCHANGED <<company, day, entered, items, auto, client, answers>> /\ Event
    BY <1>22, Zenon DEF Enrich, history
  <2> QED BY <2>3, <2>4, EditBounds DEF ReadinessTypeOK, ClientsOK, EntryFirst
<1>23. ASSUME NEW i \in DOMAIN items, NEW s \in {"held"}, UpdateChecklistItem(i, s)
       PROVE  ReadinessTypeOK'
  <2>1. items' \in Seq(Item) /\ items # <<>>
    <3>1. items[i] \in Item /\ s \in ItemStatus
      BY DEF ItemStatus
    <3>2. [items[i] EXCEPT !.status = s] \in Item
      BY <3>1 DEF Item
    <3>3. items' = [items EXCEPT ![i] = [items[i] EXCEPT !.status = s]]
      BY <1>23 DEF UpdateChecklistItem
    <3> QED BY <3>2, <3>3
  <2>2. entered
    BY <2>1 DEF EntryFirst
  <2> QED BY <1>23, <2>1, <2>2, EditBounds
          DEF UpdateChecklistItem, ReadinessTypeOK, ClientsOK, EntryFirst, history
<1>24. CASE UNCHANGED readinessVars
  BY <1>24 DEF readinessVars, ReadinessTypeOK, ClientsOK, EntryFirst
<1> QED BY <1>1, <1>2, <1>3, <1>4, <1>5, <1>6, <1>7, <1>8, <1>9, <1>10, <1>11, <1>12, <1>13,
           <1>14, <1>15, <1>16, <1>17, <1>18, <1>19, <1>20, <1>21, <1>22, <1>23, <1>24, Zenon
        DEF ReadinessNext

-----------------------------------------------------------------------------
(* What the company answered.                                                *)

TwoTables(n) ==
    \E i, j \in RowsNamed(company, n) : company.rows[i].table # company.rows[j].table

\* A name that was answered has a row, its newest row says so, and a save that
\* is about to write a row of it in one table has it in the other already.
AnswersKept ==
    /\ \A n \in DOMAIN answers : RowsNamed(company, n) # {}
    /\ \A n \in DOMAIN answers \ raced :
          TwoTables(n) \/ Newest(company, n).status = answers[n]
    /\ \A c \in Client : client[c].op = "save" /\ client[c].at # <<>> =>
          \A n \in DOMAIN answers \ raced : n = client[c].at[2] =>
              \E i \in RowsNamed(company, n) : company.rows[i].table # client[c].at[1]

\* The rows of a name, before and after one more row.
LEMMA OneMoreRow ==
    ASSUME company \in Company, NEW row \in LicenceRow,
           company' \in Company, company'.rows = Append(company.rows, row), NEW n
    PROVE  /\ n # row.name => /\ RowsNamed(company', n) = RowsNamed(company, n)
                              /\ RowsNamed(company, n) # {} =>
                                    Newest(company', n) = Newest(company, n)
           /\ n = row.name => /\ RowsNamed(company', n) # {}
                              /\ Newest(company', n) = row
           /\ \A i \in RowsNamed(company, n) :
                i \in RowsNamed(company', n) /\ company'.rows[i] = company.rows[i]
           /\ n = row.name => \E i \in RowsNamed(company', n) : company'.rows[i] = row
<1> DEFINE less == company.rows
           more == company'.rows
           last == Len(less) + 1
<1>1. /\ less \in Seq(LicenceRow) /\ more \in Seq(LicenceRow)
  BY DEF Company
<1>2. /\ DOMAIN less = 1..Len(less) /\ DOMAIN more = 1..last /\ Len(less) \in Nat
      /\ \A i \in DOMAIN less : more[i] = less[i]
      /\ more[last] = row
  BY <1>1
<1> HIDE DEF less, more, last
<1>3. last \in Nat /\ last \notin DOMAIN less /\ DOMAIN more = DOMAIN less \union {last}
  BY <1>2 DEF last
<1>4. /\ RowsNamed(company, n) = {i \in DOMAIN less : less[i].name = n}
      /\ RowsNamed(company', n) = {i \in DOMAIN more : more[i].name = n}
  BY DEF RowsNamed, less, more
<1>5. \A i \in RowsNamed(company, n) : i \in RowsNamed(company', n) /\ more[i] = less[i]
  BY <1>2, <1>3, <1>4
<1>6. ASSUME n # row.name
      PROVE  /\ RowsNamed(company', n) = RowsNamed(company, n)
             /\ RowsNamed(company, n) # {} => Newest(company', n) = Newest(company, n)
  <2>1. RowsNamed(company', n) = RowsNamed(company, n)
    BY <1>2, <1>3, <1>4, <1>6
  <2>2. ASSUME RowsNamed(company, n) # {}
        PROVE  Newest(company', n) = Newest(company, n)
    <3>1. RowsNamed(company, n) \in SUBSET (1..Len(less))
      BY <1>2, <1>4
    <3>2. Max(RowsNamed(company, n)) \in RowsNamed(company, n)
      BY <1>2, <2>2, <3>1, GreatestIndex
    <3> QED BY <1>5, <2>1, <3>2 DEF Newest, less, more
  <2> QED BY <2>1, <2>2
<1>7. ASSUME n = row.name
      PROVE  last \in RowsNamed(company', n) /\ Newest(company', n) = row
  <2>1. last \in RowsNamed(company', n)
    BY <1>2, <1>3, <1>4, <1>7
  <2>2. RowsNamed(company', n) \in SUBSET (1..last)
    BY <1>2, <1>4
  <2>3. /\ Max(RowsNamed(company', n)) \in RowsNamed(company', n)
        /\ \A i \in RowsNamed(company', n) : i <= Max(RowsNamed(company', n))
    BY <1>3, <2>1, <2>2, GreatestIndex
  <2>4. Max(RowsNamed(company', n)) = last
    BY <1>3, <2>1, <2>2, <2>3
  <2> QED BY <1>2, <2>1, <2>4 DEF Newest, more
<1> QED BY <1>2, <1>5, <1>6, <1>7 DEF less, more

\* As long as the rows are the same, so are those of a name.
LEMMA NamesKeep ==
    ASSUME company'.rows = company.rows, NEW n
    PROVE  /\ RowsNamed(company', n) = RowsNamed(company, n)
           /\ Newest(company', n) = Newest(company, n)
<1>1. RowsNamed(company', n) = RowsNamed(company, n)
  BY DEF RowsNamed
<1> QED BY <1>1 DEF Newest

\* Nothing is answered and no row added: a save only has to be where it was.
LEMMA AnswersStay ==
    ASSUME AnswersKept, company'.rows = company.rows, UNCHANGED <<answers, raced>>,
           \A c \in Client : client'[c].op = "save" /\ client'[c].at # <<>> =>
                client[c].op = "save" /\ client'[c].at = client[c].at
    PROVE  AnswersKept'
<1>1. \A n : /\ RowsNamed(company', n) = RowsNamed(company, n)
             /\ Newest(company', n) = Newest(company, n)
  BY NamesKeep
<1>2. \A n : TwoTables(n) => TwoTables(n)'
  BY <1>1 DEF TwoTables
<1>3. \A n \in DOMAIN answers' : RowsNamed(company', n) # {}
  BY <1>1 DEF AnswersKept
<1>4. \A n \in DOMAIN answers' \ raced' :
          TwoTables(n)' \/ Newest(company', n).status = answers'[n]
  BY <1>1, <1>2 DEF AnswersKept
<1>5. ASSUME NEW c \in Client, client'[c].op = "save", client'[c].at # <<>>,
             NEW n \in DOMAIN answers' \ raced', n = client'[c].at[2]
      PROVE  \E i \in RowsNamed(company', n) : company'.rows[i].table # client'[c].at[1]
  BY <1>1, <1>5 DEF AnswersKept
<1> QED BY <1>3, <1>4, <1>5 DEF AnswersKept

\* A save looks for a row of a name: an answered name has one, so if there is
\* none in this table there is one in the other.
LEMMA AnswersChecked ==
    ASSUME AnswersKept, ReadinessTypeOK, NEW c \in Client, SyncCheck(c)
    PROVE  AnswersKept'
<1>1. PICK e \in client[c].todo :
          IF HasRow(e[1], e[2]) THEN Proceed(c, client[c].todo \ {e})
          ELSE client' = [client EXCEPT ![c].at = e]
  BY DEF SyncCheck
<1>2. client[c].op = "save" /\ UNCHANGED <<company, answers, raced>>
  BY DEF SyncCheck, history
<1>3. CASE HasRow(e[1], e[2])
  <2>1. /\ \A d \in Client : d # c => client'[d] = client[d]
        /\ client'[c].op = "idle" \/ client'[c].at = <<>>
    BY <1>1, <1>3, Proceeds, Parts
  <2> QED BY <1>2, <2>1, AnswersStay
<1>4. CASE ~HasRow(e[1], e[2])
  <2>1. /\ \A d \in Client : d # c => client'[d] = client[d]
        /\ client'[c].at = e
    BY <1>1, <1>2, <1>4, Points, Parts
  <2>2. ASSUME NEW d \in Client, client'[d].op = "save", client'[d].at # <<>>,
               NEW n \in DOMAIN answers \ raced, n = client'[d].at[2]
        PROVE  \E i \in RowsNamed(company, n) : company.rows[i].table # client'[d].at[1]
    <3>1. CASE d = c
      <4>1. PICK i \in RowsNamed(company, n) : TRUE
        BY DEF AnswersKept
      <4>2. i \in DOMAIN company.rows /\ company.rows[i].name = n
        BY <4>1 DEF RowsNamed
      <4>3. company.rows[i].table # e[1]
        BY <1>4, <2>1, <2>2, <3>1, <4>2 DEF HasRow
      <4> QED BY <2>1, <3>1, <4>1, <4>3
    <3>2. CASE d # c
      BY <2>1, <2>2, <3>2 DEF AnswersKept
    <3> QED BY <3>1, <3>2
  <2>3. \A n \in DOMAIN answers : RowsNamed(company, n) # {}
    BY DEF AnswersKept
  <2>4. \A n \in DOMAIN answers \ raced :
          TwoTables(n) \/ Newest(company, n).status = answers[n]
    BY DEF AnswersKept
  <2>5. \A n : TwoTables(n) => TwoTables(n)'
    BY <1>2 DEF TwoTables
  <2> QED BY <1>2, <2>2, <2>3, <2>4, <2>5 DEF AnswersKept
<1> QED BY <1>3, <1>4

\* A save writes its row: the name of an answer then has rows in both tables.
LEMMA AnswersInserted ==
    ASSUME AnswersKept, ReadinessTypeOK, NEW c \in Client, SyncInsert(c)
    PROVE  AnswersKept'
<1> DEFINE e == client[c].at
           row == [table |-> e[1], name |-> e[2], status |-> "held", until |-> 0]
<1>1. client[c].op = "save" /\ e # <<>> /\ UNCHANGED <<answers, raced>>
  BY DEF SyncInsert, history
<1>2. e \in Table \X Name
  <2>1. RequestOK(client[c])
    BY Parts
  <2>2. e \in client[c].todo /\ client[c].todo \in SUBSET Work["save"]
    BY <1>1, <2>1, RequestParts
  <2> QED BY <2>2, WorkOf
<1>3. row \in LicenceRow /\ row.name = e[2] /\ row.table = e[1]
  BY <1>2 DEF LicenceRow, LicenceStatus
<1>4. company' = [company EXCEPT !.rows = Append(@, row)]
  BY DEF SyncInsert
<1>5. /\ \A d \in Client : d # c => client'[d] = client[d]
      /\ client'[c].op = "idle" \/ client'[c].at = <<>>
  BY Parts, Proceeds DEF SyncInsert
<1> HIDE DEF row
<1>6. company \in Company /\ company' \in Company /\ company'.rows = Append(company.rows, row)
  BY <1>3, <1>4, Parts, RowAdded
<1>7. \A n : /\ n # row.name => /\ RowsNamed(company', n) = RowsNamed(company, n)
                                /\ RowsNamed(company, n) # {} =>
                                      Newest(company', n) = Newest(company, n)
             /\ n = row.name => RowsNamed(company', n) # {}
             /\ \A i \in RowsNamed(company, n) :
                    i \in RowsNamed(company', n) /\ company'.rows[i] = company.rows[i]
             /\ n = row.name => \E i \in RowsNamed(company', n) : company'.rows[i] = row
  BY <1>3, <1>6, OneMoreRow
<1>8. \A n \in DOMAIN answers' : RowsNamed(company', n) # {}
  BY <1>1, <1>7 DEF AnswersKept
<1>9. ASSUME NEW n \in DOMAIN answers' \ raced'
      PROVE  TwoTables(n)' \/ Newest(company', n).status = answers'[n]
  <2>1. n \in DOMAIN answers \ raced /\ RowsNamed(company, n) # {}
    BY <1>1 DEF AnswersKept
  <2>2. CASE n = row.name
    <3>1. PICK i \in RowsNamed(company, n) : company.rows[i].table # e[1]
      BY <1>1, <1>3, <2>1, <2>2 DEF AnswersKept
    <3>2. PICK j \in RowsNamed(company', n) : company'.rows[j] = row
      BY <1>7, <2>2
    <3>3. i \in RowsNamed(company', n) /\ company'.rows[i] = company.rows[i]
      BY <1>7, <3>1
    <3>4. company'.rows[i].table # company'.rows[j].table
      BY <1>3, <3>1, <3>2, <3>3
    <3> QED BY <3>2, <3>3, <3>4 DEF TwoTables
  <2>3. CASE n # row.name
    <3>1. TwoTables(n) => TwoTables(n)'
      BY <1>7 DEF TwoTables
    <3> QED BY <1>1, <1>7, <2>1, <2>3, <3>1 DEF AnswersKept
  <2> QED BY <2>2, <2>3
<1>10. ASSUME NEW d \in Client, client'[d].op = "save", client'[d].at # <<>>,
              NEW n \in DOMAIN answers' \ raced', n = client'[d].at[2]
       PROVE  \E i \in RowsNamed(company', n) : company'.rows[i].table # client'[d].at[1]
  <2>1. d # c /\ client'[d] = client[d]
    BY <1>5, <1>10
  <2>2. PICK i \in RowsNamed(company, n) : company.rows[i].table # client[d].at[1]
    BY <1>1, <1>10, <2>1 DEF AnswersKept
  <2> QED BY <1>7, <2>1, <2>2
<1> QED BY <1>8, <1>9, <1>10 DEF AnswersKept

\* An answer is the newest row of its name, and a save that is at it is raced.
LEMMA AnswersGiven ==
    ASSUME AnswersKept, ReadinessTypeOK, NEW a \in Answer, Register(a)
    PROVE  AnswersKept'
<1>1. a \in LicenceRow
  BY OwnerAssumption
<1>2. /\ company' = [company EXCEPT !.rows = Append(@, a)] /\ UNCHANGED client
      /\ answers' = [n \in DOMAIN answers \union {a.name} |->
                        IF n = a.name THEN a.status ELSE answers[n]]
  BY DEF Register
<1>3. raced' = raced \union {n \in {a.name} : \E c \in Client :
                    client[c].op = "save" /\ client[c].at = <<a.table, n>>}
  BY DEF Register
<1>4. /\ DOMAIN answers' = DOMAIN answers \union {a.name}
      /\ \A n \in DOMAIN answers : n # a.name => answers'[n] = answers[n]
      /\ answers'[a.name] = a.status
  BY <1>2
<1>5. company \in Company /\ company' \in Company /\ company'.rows = Append(company.rows, a)
  BY <1>1, <1>2, Parts, RowAdded
<1>6. \A n : /\ n # a.name => /\ RowsNamed(company', n) = RowsNamed(company, n)
                              /\ RowsNamed(company, n) # {} =>
                                    Newest(company', n) = Newest(company, n)
             /\ n = a.name => RowsNamed(company', n) # {} /\ Newest(company', n) = a
             /\ \A i \in RowsNamed(company, n) :
                    i \in RowsNamed(company', n) /\ company'.rows[i] = company.rows[i]
             /\ n = a.name => \E i \in RowsNamed(company', n) : company'.rows[i] = a
  BY <1>1, <1>5, OneMoreRow
<1>7. \A n \in DOMAIN answers' : RowsNamed(company', n) # {}
  BY <1>4, <1>6 DEF AnswersKept
<1>8. ASSUME NEW n \in DOMAIN answers' \ raced'
      PROVE  TwoTables(n)' \/ Newest(company', n).status = answers'[n]
  <2>1. CASE n = a.name
    BY <1>4, <1>6, <2>1
  <2>2. CASE n # a.name
    <3>1. n \in DOMAIN answers \ raced /\ RowsNamed(company, n) # {}
      BY <1>3, <1>4, <2>2 DEF AnswersKept
    <3>2. TwoTables(n) => TwoTables(n)'
      BY <1>6 DEF TwoTables
    <3> QED BY <1>4, <1>6, <2>2, <3>1, <3>2 DEF AnswersKept
  <2> QED BY <2>1, <2>2
<1>9. ASSUME NEW d \in Client, client'[d].op = "save", client'[d].at # <<>>,
             NEW n \in DOMAIN answers' \ raced', n = client'[d].at[2]
      PROVE  \E i \in RowsNamed(company', n) : company'.rows[i].table # client'[d].at[1]
  <2>1. client'[d] = client[d]
    BY <1>2
  <2>2. CASE n = a.name
    <3>1. RequestOK(client[d])
      BY Parts
    <3>2. client[d].at \in client[d].todo /\ client[d].todo \in SUBSET Work["save"]
      BY <1>9, <2>1, <3>1, RequestParts
    <3>3. client[d].at \in Table \X Name
      BY <3>2, WorkOf
    <3>4. client[d].at = <<client[d].at[1], n>>
      BY <1>9, <2>1, <3>3
    <3>5. client[d].at[1] # a.table
      <4>1. n \notin {m \in {a.name} : \E c \in Client :
                        client[c].op = "save" /\ client[c].at = <<a.table, m>>}
        BY <1>3
      <4> QED BY <1>9, <2>1, <2>2, <3>4, <4>1
    <3> QED BY <1>6, <2>1, <2>2, <3>5
  <2>3. CASE n # a.name
    <3>1. n \in DOMAIN answers \ raced
      BY <1>3, <1>4, <2>3
    <3>2. PICK i \in RowsNamed(company, n) : company.rows[i].table # client[d].at[1]
      BY <1>9, <2>1, <3>1 DEF AnswersKept
    <3> QED BY <1>6, <2>1, <3>2
  <2> QED BY <2>2, <2>3
<1> QED BY <1>7, <1>8, <1>9 DEF AnswersKept

\* Every step keeps the answers.
LEMMA AnswersStep ==
    ASSUME AnswersKept, ReadinessTypeOK, [ReadinessNext]_readinessVars
    PROVE  AnswersKept'
<1> USE Parts
<1>1. ASSUME NEW c \in Client, NEW p \in Profile, SaveProfile(c, p)
      PROVE  AnswersKept'
  <2>1. company'.rows = company.rows /\ UNCHANGED <<answers, raced>>
    BY <1>1, SavedType DEF SaveProfile, history
  <2>2. PICK q : client' = [client EXCEPT ![c] = q] /\ q.at = <<>>
    <3>1. \A todo : NoRequest.at = <<>> /\ Busy("save", todo).at = <<>>
      BY DEF NoRequest, Busy
    <3> QED BY <1>1, <3>1, Zenon DEF SaveProfile
  <2>3. client'[c] = q /\ \A d \in Client : d # c => client'[d] = client[d]
    BY <2>2, Replaced
  <2> QED BY <2>1, <2>2, <2>3, AnswersStay
<1>2. ASSUME NEW c \in Client,
             \/ GenerateItem(c) \/ Interrupt(c) \/ SyncItem(c) \/ FinishView(c)
             \/ FindAutoCondition(c) \/ CreateAutoCondition(c)
             \/ CreateEntry(c) \/ ViewEntry(c) \/ Evaluate(c)
      PROVE  AnswersKept'
  <2>1. UNCHANGED <<company, answers, raced>>
    BY <1>2, Zenon DEF GenerateItem, Interrupt, SyncItem, FinishView, FindAutoCondition,
         CreateAutoCondition, CreateEntry, ViewEntry, Evaluate, history
  <2>2. /\ \A d \in Client : d # c => client'[d] = client[d]
        /\ client'[c].op = "save" => client'[c].at = <<>>
    <3>1. CASE GenerateItem(c)
      BY <3>1, Proceeds DEF GenerateItem
    <3>2. CASE Interrupt(c) \/ FinishView(c)
      BY <3>2, Ends DEF Interrupt, FinishView
    <3>3. CASE SyncItem(c)
      BY <3>3, Lists DEF SyncItem
    <3>4. CASE FindAutoCondition(c)
      <4>1. PICK k \in client[c].todo :
                IF \E a \in auto : a.of = k THEN Proceed(c, client[c].todo \ {k})
                ELSE client' = [client EXCEPT ![c].at = k]
        BY <3>4 DEF FindAutoCondition
      <4>2. client[c].op = "evaluate"
        BY <3>4 DEF FindAutoCondition
      <4> QED BY <4>1, <4>2, Proceeds, Points
    <3>5. CASE CreateAutoCondition(c)
      BY <3>5, Proceeds DEF CreateAutoCondition
    <3>6. CASE CreateEntry(c) \/ ViewEntry(c) \/ Evaluate(c)
      <4>1. \A op, todo : NoRequest.at = <<>> /\ Busy(op, todo).at = <<>>
        BY DEF NoRequest, Busy
      <4>2. PICK q : client' = [client EXCEPT ![c] = q] /\ q.at = <<>>
        <5>1. CASE CreateEntry(c)
          BY <4>1, <5>1, Zenon DEF CreateEntry
        <5>2. CASE ViewEntry(c)
          BY <4>1, <5>2, Zenon DEF ViewEntry
        <5>3. CASE Evaluate(c)
          BY <4>1, <5>3, Zenon DEF Evaluate
        <5> QED BY <3>6, <5>1, <5>2, <5>3
      <4> QED BY <4>2, Replaced
    <3> QED BY <1>2, <3>1, <3>2, <3>3, <3>4, <3>5, <3>6
  <2> QED BY <2>1, <2>2, AnswersStay
<1>3. ASSUME NEW s \in LicenceStatus, SetDirectProductionStatus(s)
      PROVE  AnswersKept'
  <2>1. company'.rows = company.rows
    BY <1>3 DEF SetDirectProductionStatus, Company
  <2> QED BY <1>3, <2>1, AnswersStay DEF SetDirectProductionStatus, history
<1>4. ASSUME NEW r \in Record, CreateTrackRecord(r)
      PROVE  AnswersKept'
  <2>1. company'.rows = company.rows
    BY <1>4 DEF CreateTrackRecord, Company
  <2> QED BY <1>4, <2>1, AnswersStay DEF CreateTrackRecord, history
<1>5. ASSUME NEW k \in Kind, UploadDocument(k)
      PROVE  AnswersKept'
  <2>1. company'.rows = company.rows
    BY <1>5 DEF UploadDocument, Company
  <2> QED BY <1>5, <2>1, AnswersStay DEF UploadDocument, history
<1>6. ASSUME Correct \/ Extract \/ \E d \in notice.docs : RejectDocument(d)
      PROVE  AnswersKept'
  <2>1. UNCHANGED <<company, answers, raced>> /\ Disturb
    BY <1>6 DEF Correct, Extract, RejectDocument, history
  <2> QED BY <2>1, Disturbs, AnswersStay
<1>7. ASSUME \/ Tick
             \/ \E d \in notice.docs : ToggleChecklistItem(d)
             \/ \E s \in EnrichmentStatus : Enrich(s)
             \/ \E i \in DOMAIN items, s \in {"held"} : UpdateChecklistItem(i, s)
      PROVE  AnswersKept'
  <2>1. UNCHANGED <<company, answers, raced, client>>
    BY <1>7 DEF Tick, ToggleChecklistItem, Enrich, UpdateChecklistItem, history
  <2> QED BY <2>1, AnswersStay
<1>8. CASE UNCHANGED readinessVars
  BY <1>8, AnswersStay DEF readinessVars
<1> QED BY <1>1, <1>2, <1>3, <1>4, <1>5, <1>6, <1>7, <1>8,
           AnswersChecked, AnswersInserted, AnswersGiven, Zenon
        DEF ReadinessNext

-----------------------------------------------------------------------------
(* What each kind of request touches.                                        *)

\* Saving the profile,
LEMMA Saving ==
    ASSUME ReadinessTypeOK, NEW c \in Client,
           (\E p \in Profile : SaveProfile(c, p)) \/ SyncCheck(c) \/ SyncInsert(c)
    PROVE  /\ \A d \in Client : d # c => client'[d] = client[d]
           /\ client[c].op \in {"idle", "save"} /\ client'[c].op \in {"idle", "save"}
           /\ UNCHANGED <<notice, items, auto, lapped>>
<1>1. ASSUME NEW p \in Profile, SaveProfile(c, p)
      PROVE  /\ \A d \in Client : d # c => client'[d] = client[d]
             /\ client[c].op = "idle" /\ client'[c].op \in {"idle", "save"}
             /\ UNCHANGED <<notice, items, auto, lapped>>
  <2>1. \A todo : NoRequest.op = "idle" /\ Busy("save", todo).op = "save"
    BY DEF NoRequest, Busy
  <2>2. PICK q : client' = [client EXCEPT ![c] = q] /\ q.op \in {"idle", "save"}
    BY <1>1, <2>1, Zenon DEF SaveProfile
  <2>3. client'[c] = q /\ \A d \in Client : d # c => client'[d] = client[d]
    BY <2>2, Parts, Replaced
  <2>4. client[c].op = "idle" /\ UNCHANGED <<notice, items, auto, lapped>>
    BY <1>1, <2>1, Zenon DEF SaveProfile, history
  <2> QED BY <2>2, <2>3, <2>4
<1>2. ASSUME SyncCheck(c)
      PROVE  /\ \A d \in Client : d # c => client'[d] = client[d]
             /\ client[c].op = "save" /\ client'[c].op \in {"idle", "save"}
             /\ UNCHANGED <<notice, items, auto, lapped>>
  <2>1. PICK e \in client[c].todo :
            IF HasRow(e[1], e[2]) THEN Proceed(c, client[c].todo \ {e})
            ELSE client' = [client EXCEPT ![c].at = e]
    BY <1>2 DEF SyncCheck
  <2>2. client[c].op = "save" /\ UNCHANGED <<notice, items, auto, lapped>>
    BY <1>2 DEF SyncCheck, history
  <2> QED BY <2>1, <2>2, Parts, Proceeds, Points
<1>3. ASSUME SyncInsert(c)
      PROVE  /\ \A d \in Client : d # c => client'[d] = client[d]
             /\ client[c].op = "save" /\ client'[c].op \in {"idle", "save"}
             /\ UNCHANGED <<notice, items, auto, lapped>>
  <2>1. client[c].op = "save" /\ UNCHANGED <<notice, items, auto, lapped>>
    BY <1>3 DEF SyncInsert, history
  <2> QED BY <1>3, <2>1, Parts, Proceeds DEF SyncInsert
<1> QED BY <1>1, <1>2, <1>3

\* evaluating, ...
LEMMA Evaluating ==
    ASSUME ReadinessTypeOK, NEW c \in Client,
           Evaluate(c) \/ FindAutoCondition(c) \/ CreateAutoCondition(c)
    PROVE  /\ \A d \in Client : d # c => client'[d] = client[d]
           /\ client[c].op \in {"idle", "evaluate"} /\ client'[c].op \in {"idle", "evaluate"}
           /\ UNCHANGED <<notice, items>> /\ lapped \subseteq lapped'
<1>1. CASE Evaluate(c)
  <2>1. \A todo : NoRequest.op = "idle" /\ Busy("evaluate", todo).op = "evaluate"
    BY DEF NoRequest, Busy
  <2>2. PICK q : client' = [client EXCEPT ![c] = q] /\ q.op = "evaluate"
    BY <1>1, <2>1, Zenon DEF Evaluate
  <2>3. client'[c] = q /\ \A d \in Client : d # c => client'[d] = client[d]
    BY <2>2, Parts, Replaced
  <2>4. client[c].op = "idle" /\ UNCHANGED <<notice, items>> /\ lapped \subseteq lapped'
    BY <1>1, <2>1, Zenon DEF Evaluate
  <2> QED BY <2>2, <2>3, <2>4
<1>2. CASE FindAutoCondition(c)
  <2>1. PICK k \in client[c].todo :
            IF \E a \in auto : a.of = k THEN Proceed(c, client[c].todo \ {k})
            ELSE client' = [client EXCEPT ![c].at = k]
    BY <1>2 DEF FindAutoCondition
  <2>2. client[c].op = "evaluate" /\ UNCHANGED <<notice, items, lapped>>
    BY <1>2 DEF FindAutoCondition, history
  <2> QED BY <2>1, <2>2, Parts, Proceeds, Points
<1>3. CASE CreateAutoCondition(c)
  <2>1. client[c].op = "evaluate" /\ UNCHANGED <<notice, items, lapped>>
    BY <1>3 DEF CreateAutoCondition, history
  <2> QED BY <1>3, <2>1, Parts, Proceeds DEF CreateAutoCondition
<1> QED BY <1>1, <1>2, <1>3

\* and a request that is over.
LEMMA Ending ==
    ASSUME ReadinessTypeOK, NEW c \in Client, Interrupt(c) \/ FinishView(c)
    PROVE  /\ \A d \in Client : d # c => client'[d] = client[d]
           /\ client'[c].op = "idle"
           /\ UNCHANGED <<notice, items, auto, lapped>>
<1>1. client' = [client EXCEPT ![c] = NoRequest] /\ UNCHANGED <<notice, items, auto, lapped>>
  BY DEF Interrupt, FinishView, history
<1> QED BY <1>1, Parts, Ends

\* The steps of the two requests that write the checklist.
Listing ==
    \E c \in Client : CreateEntry(c) \/ GenerateItem(c) \/ ViewEntry(c) \/ SyncItem(c)

\* An entry is made,
LEMMA StartsEntry ==
    ASSUME ReadinessTypeOK, NEW c \in Client, CreateEntry(c)
    PROVE  /\ \A d \in Client : d # c => client'[d] = client[d]
           /\ \/ client'[c].op = "idle"
              \/ client'[c].op = "create" /\ client'[c].todo = notice.docs
           /\ client[c].op = "idle" /\ ~entered
           /\ UNCHANGED <<notice, items, auto, lapped>>
<1>1. \A todo : /\ NoRequest.op = "idle"
                /\ Busy("create", todo).op = "create" /\ Busy("create", todo).todo = todo
  BY DEF NoRequest, Busy
<1>2. PICK q : /\ client' = [client EXCEPT ![c] = q]
               /\ q.op = "idle" \/ (q.op = "create" /\ q.todo = notice.docs)
  BY <1>1, Zenon DEF CreateEntry
<1>3. client'[c] = q /\ \A d \in Client : d # c => client'[d] = client[d]
  BY <1>2, Parts, Replaced
<1>4. client[c].op = "idle" /\ ~entered /\ UNCHANGED <<notice, items, auto, lapped>>
  BY <1>1, Zenon DEF CreateEntry, history
<1> QED BY <1>2, <1>3, <1>4

\* viewed, with what is missing to be written,
LEMMA StartsView ==
    ASSUME ReadinessTypeOK, NEW c \in Client, ViewEntry(c)
    PROVE  /\ \A d \in Client : d # c => client'[d] = client[d]
           /\ client'[c].op = "view"
           /\ client'[c].todo = {d \in notice.docs : ~Listed(d)}
           /\ client[c].op = "idle"
           /\ UNCHANGED <<notice, items, auto>> /\ lapped \subseteq lapped'
           /\ "view" \notin lapped' => \A d \in Client : client[d].op # "create"
           /\ "evaluate" \in lapped' <=> "evaluate" \in lapped
<1> DEFINE missing == {d \in notice.docs : ~Listed(d)}
<1>1. NoRequest.op = "idle" /\ Busy("view", missing).op = "view"
  BY DEF NoRequest, Busy
<1>2. Busy("view", missing).todo = missing
  BY DEF Busy
<1> HIDE DEF missing
<1>3. PICK q : client' = [client EXCEPT ![c] = q] /\ q.op = "view" /\ q.todo = missing
  BY <1>1, <1>2, Zenon DEF ViewEntry, missing
<1>4. client'[c] = q /\ \A d \in Client : d # c => client'[d] = client[d]
  BY <1>3, Parts, Replaced
<1>5. client[c].op = "idle" /\ UNCHANGED <<notice, items, auto>>
  BY <1>1, Zenon DEF ViewEntry
<1>6. lapped' = lapped \union {k \in {"view"} : \E d \in Client : client[d].op = "create"}
  BY Zenon DEF ViewEntry, InFlight
<1>7. /\ lapped \subseteq lapped'
      /\ "view" \notin lapped' => \A d \in Client : client[d].op # "create"
      /\ "evaluate" \in lapped' <=> "evaluate" \in lapped
  BY <1>6
<1> QED BY <1>3, <1>4, <1>5, <1>7 DEF missing

\* filled,
LEMMA AddsItem ==
    ASSUME ReadinessTypeOK, NEW c \in Client, GenerateItem(c)
    PROVE  \E d \in client[c].todo :
             /\ d \in Document /\ AddItem(d)
             /\ \A e \in Client : e # c => client'[e] = client[e]
             /\ client[c].op = "create"
             /\ \/ client'[c].op = "idle"
                \/ client'[c].op = "create" /\ client'[c].todo = client[c].todo \ {d}
             /\ UNCHANGED <<notice, auto, lapped>>
<1>1. PICK d \in client[c].todo : AddItem(d) /\ Proceed(c, client[c].todo \ {d})
  BY DEF GenerateItem
<1>2. client[c].op = "create" /\ UNCHANGED <<notice, auto, lapped>>
  BY DEF GenerateItem, history
<1>3. client[c].todo \in SUBSET Document
  <2>1. RequestOK(client[c])
    BY Parts
  <2>2. client[c].todo \in SUBSET Work[client[c].op]
    BY <2>1, RequestParts
  <2> QED BY <1>2, <2>2, WorkOf
<1>4. /\ \A e \in Client : e # c => client'[e] = client[e]
      /\ \/ client'[c].op = "idle"
         \/ client'[c].op = "create" /\ client'[c].todo = client[c].todo \ {d}
  BY <1>1, <1>2, Parts, Proceeds
<1> QED BY <1>1, <1>2, <1>3, <1>4

\* and brought up to date.
LEMMA AddsMissing ==
    ASSUME ReadinessTypeOK, NEW c \in Client, SyncItem(c)
    PROVE  \E d \in client[c].todo :
             /\ d \in Document /\ IF Listed(d) THEN UNCHANGED items ELSE AddItem(d)
             /\ \A e \in Client : e # c => client'[e] = client[e]
             /\ client[c].op = "view" /\ client'[c].op = "view"
             /\ client'[c].todo = client[c].todo \ {d}
             /\ client'[c].fresh = client[c].fresh
             /\ UNCHANGED <<notice, auto, lapped>>
<1>1. PICK d \in client[c].todo :
          /\ IF Listed(d) THEN UNCHANGED items ELSE AddItem(d)
          /\ client' = [client EXCEPT ![c].todo = @ \ {d}]
  BY DEF SyncItem
<1>2. client[c].op = "view" /\ UNCHANGED <<notice, auto, lapped>>
  BY DEF SyncItem, history
<1>3. client[c].todo \in SUBSET Document
  <2>1. RequestOK(client[c])
    BY Parts
  <2>2. client[c].todo \in SUBSET Work[client[c].op]
    BY <2>1, RequestParts
  <2> QED BY <1>2, <2>2, WorkOf
<1>4. /\ \A e \in Client : e # c => client'[e] = client[e]
      /\ client'[c].op = client[c].op /\ client'[c].todo = client[c].todo \ {d}
      /\ client'[c].fresh = client[c].fresh
  BY <1>1, <1>2, Parts, Lists
<1> QED BY <1>1, <1>2, <1>3, <1>4

OneOfEachName(docs) == \A d, e \in docs : d.name = e.name => d = e

\* What every other step leaves of them.
ListsKeep ==
    /\ \A c \in Client : client'[c].op \in {"create", "view"} =>
          /\ client'[c].op = client[c].op /\ client'[c].todo = client[c].todo
          /\ client'[c].fresh => client[c].fresh /\ notice'.docs = notice.docs
    /\ \A c \in Client : client[c].op = "view" => client'[c].op = "view" \/ FinishView(c)
    /\ DOMAIN items' = DOMAIN items
    /\ \A i \in DOMAIN items :
          items'[i].name = items[i].name /\ items'[i].document = items[i].document
    /\ lapped \subseteq lapped'
    /\ OneOfEachName(notice'.docs)

\* Every step is one of these four or leaves the two requests alone.
LEMMA Keeps ==
    ASSUME ReadinessTypeOK, OneOfEachName(notice.docs), [ReadinessNext]_readinessVars
    PROVE  Listing \/ ListsKeep
<1>1. ASSUME NEW c \in Client,
             \/ \E p \in Profile : SaveProfile(c, p)
             \/ SyncCheck(c) \/ SyncInsert(c)
             \/ Evaluate(c) \/ FindAutoCondition(c) \/ CreateAutoCondition(c)
      PROVE  ListsKeep
  <2>1. /\ \A d \in Client : d # c => client'[d] = client[d]
        /\ client[c].op \in {"idle", "save", "evaluate"}
        /\ client'[c].op \in {"idle", "save", "evaluate"}
        /\ UNCHANGED <<notice, items>> /\ lapped \subseteq lapped'
    BY <1>1, Saving, Evaluating
  <2> QED BY <2>1 DEF ListsKeep
<1>2. ASSUME NEW c \in Client, Interrupt(c) \/ FinishView(c)
      PROVE  ListsKeep
  <2>1. client[c].op = "view" => FinishView(c)
    BY <1>2 DEF Interrupt
  <2> QED BY <1>2, <2>1, Ending DEF ListsKeep
<1>3. ASSUME Correct \/ Extract \/ \E d \in notice.docs : RejectDocument(d)
      PROVE  ListsKeep
  <2>1. UNCHANGED <<items, lapped>> /\ Disturb
    BY <1>3 DEF Correct, Extract, RejectDocument, history
  <2>2. OneOfEachName(notice'.docs)
    <3>1. CASE Correct
      <4>1. notice' = NewNotice(notice.type, notice.version + 1)
        BY <3>1 DEF Correct
      <4>2. notice'.docs = {}
        BY <4>1 DEF NewNotice
      <4> QED BY <4>2 DEF OneOfEachName
    <3>2. CASE Extract
      <4>1. notice \in Notice /\ notice' = Extracted(notice)
        BY <3>2, Parts DEF Extract
      <4> QED BY <4>1, ExtractedType DEF OneOfEachName
    <3>3. ASSUME NEW d \in notice.docs, RejectDocument(d)
          PROVE  OneOfEachName(notice'.docs)
      <4>1. notice'.docs = notice.docs \ {d}
        BY <3>3, Parts DEF RejectDocument, Notice
      <4> QED BY <4>1 DEF OneOfEachName
    <3> QED BY <1>3, <3>1, <3>2, <3>3
  <2> QED BY <2>1, <2>2, Parts, Disturbs DEF ListsKeep
<1>4. ASSUME \/ \E a \in Answer : Register(a)
             \/ \E s \in LicenceStatus : SetDirectProductionStatus(s)
             \/ \E r \in Record : CreateTrackRecord(r)
             \/ \E k \in Kind : UploadDocument(k)
             \/ Tick \/ \E d \in notice.docs : ToggleChecklistItem(d)
      PROVE  ListsKeep
  <2>1. UNCHANGED <<notice, items, client, lapped>>
    BY <1>4, Zenon DEF Register, SetDirectProductionStatus, CreateTrackRecord,
         UploadDocument, Tick, ToggleChecklistItem, history
  <2> QED BY <2>1 DEF ListsKeep
<1>5. ASSUME NEW s \in EnrichmentStatus, Enrich(s)
      PROVE  ListsKeep
  <2>1. UNCHANGED <<items, client, lapped>> /\ notice'.docs = notice.docs
    BY <1>5, Parts DEF Enrich, Notice, history
  <2> QED BY <2>1 DEF ListsKeep
<1>6. ASSUME NEW i \in DOMAIN items, NEW s, UpdateChecklistItem(i, s)
      PROVE  ListsKeep
  <2>1. UNCHANGED <<notice, client, lapped>> /\ items' = [items EXCEPT ![i].status = s]
    BY <1>6 DEF UpdateChecklistItem, history
  <2>2. \A j \in DOMAIN items : items[j] \in Item
    BY Parts
  <2>3. DOMAIN items' = DOMAIN items /\ \A j \in DOMAIN items :
            items'[j] = IF j = i THEN [items[j] EXCEPT !.status = s] ELSE items[j]
    BY <2>1
  <2>4. \A j \in DOMAIN items :
            items'[j].name = items[j].name /\ items'[j].document = items[j].document
    BY <2>2, <2>3 DEF Item
  <2> QED BY <2>1, <2>3, <2>4 DEF ListsKeep
<1>7. CASE UNCHANGED readinessVars
  BY <1>7 DEF readinessVars, ListsKeep
<1> QED BY <1>1, <1>2, <1>3, <1>4, <1>5, <1>6, <1>7, Zenon DEF ReadinessNext, Listing

-----------------------------------------------------------------------------
(* The checklist.                                                            *)

\* A version has one document of each name, and so has what is left of a new
\* entry's list; one request makes the entry; and unless a view began while it
\* was being made, nothing it still has to write is listed.
ChecklistKept ==
    /\ OneOfEachName(notice.docs)
    /\ \A i \in DOMAIN items : items[i].name = items[i].document.name
    /\ \A c \in Client : client[c].op = "create" => OneOfEachName(client[c].todo)
    /\ \A c, d \in Client : client[c].op = "create" /\ client[d].op = "create" => c = d
    /\ "view" \notin lapped => \A c \in Client : client[c].op = "create" =>
          /\ \A d \in Client : client[d].op # "view"
          /\ \A d \in client[c].todo, i \in DOMAIN items : items[i].name # d.name
    /\ ItemsOnce

\* What an undisturbed view does not find missing, the checklist has.
ViewKnows ==
    \A c \in Client : client[c].op = "view" /\ client[c].fresh =>
        \A d \in notice.docs :
            d \in client[c].todo \/ \E i \in DOMAIN items : items[i].name = d.name

\* A listed document is listed by its name.
LEMMA ListedByName ==
    ASSUME ReadinessTypeOK, ChecklistKept, NEW d, Listed(d)
    PROVE  \E i \in DOMAIN items : items[i].name = d.name
<1>1. PICK i \in DOMAIN items : items[i].document = d \/ items[i].name = d.name
  BY DEF Listed
<1>2. items[i].name = items[i].document.name
  BY DEF ChecklistKept
<1> QED BY <1>1, <1>2

\* One more item, of a name that no item has.
LEMMA NewItem ==
    ASSUME ReadinessTypeOK, ChecklistKept, NEW d \in Document, AddItem(d)
    PROVE  /\ \A i \in DOMAIN items' : items'[i].name = items'[i].document.name
           /\ \A i \in DOMAIN items :
                 i \in DOMAIN items' /\ items'[i].name = items[i].name
           /\ \E i \in DOMAIN items' : items'[i].name = d.name
           /\ \A i \in DOMAIN items' : i \in DOMAIN items \/ items'[i].name = d.name
           /\ (\A i \in DOMAIN items : items[i].name # d.name) /\ lapped' = lapped
                 => ItemsOnce'
<1>1. /\ Len(items) + 1 \notin DOMAIN items
      /\ \A i \in DOMAIN items : items'[i] = items[i]
      /\ items'[Len(items) + 1].name = d.name /\ items'[Len(items) + 1].document = d
      /\ DOMAIN items' = DOMAIN items \union {Len(items) + 1}
  <2>1. items \in Seq(Item)
    BY Parts
  <2>2. Len(items) + 1 \notin DOMAIN items
    BY <2>1
  <2> QED BY <2>2, Parts, AddItemType
<1>2. \A i \in DOMAIN items : items[i].name = items[i].document.name
  BY DEF ChecklistKept
<1>3. ASSUME \A i \in DOMAIN items : items[i].name # d.name, lapped' = lapped
      PROVE  ItemsOnce'
  BY <1>1, <1>3 DEF ChecklistKept, ItemsOnce
<1> QED BY <1>1, <1>2, <1>3

\* Every step keeps the checklist.
LEMMA ChecklistStep ==
    ASSUME ReadinessTypeOK, ChecklistKept, [ReadinessNext]_readinessVars
    PROVE  ChecklistKept'
<1>1. CASE ListsKeep
  <2>1. ItemsOnce'
    BY <1>1 DEF ListsKeep, ChecklistKept, ItemsOnce
  <2> QED BY <1>1, <2>1 DEF ListsKeep, ChecklistKept
<1>2. ASSUME NEW c \in Client, CreateEntry(c)
      PROVE  ChecklistKept'
  <2>1. items = <<>> /\ \A d \in Client : client[d].op \notin {"create", "view"}
    BY <1>2, StartsEntry, Parts DEF EntryFirst
  <2>2. /\ \A d \in Client : client'[d].op = "create" => d = c /\ client'[d].todo = notice.docs
        /\ \A d \in Client : client'[d].op # "view"
        /\ UNCHANGED <<notice, items, lapped>>
    BY <1>2, <2>1, StartsEntry
  <2>3. DOMAIN items = {}
    BY <2>1
  <2> QED BY <2>2, <2>3 DEF ChecklistKept, ItemsOnce
<1>3. ASSUME NEW c \in Client, GenerateItem(c)
      PROVE  ChecklistKept'
  <2>1. PICK d \in client[c].todo :
             /\ d \in Document /\ AddItem(d)
             /\ \A e \in Client : e # c => client'[e] = client[e]
             /\ client[c].op = "create"
             /\ \/ client'[c].op = "idle"
                \/ client'[c].op = "create" /\ client'[c].todo = client[c].todo \ {d}
             /\ UNCHANGED <<notice, auto, lapped>>
    BY <1>3, AddsItem
  <2>2. \A e \in Client : client'[e].op = "create" =>
            e = c /\ client'[e].todo = client[c].todo \ {d}
    BY <2>1 DEF ChecklistKept
  <2>3. OneOfEachName(client[c].todo)
    BY <2>1 DEF ChecklistKept
  <2>4. ASSUME "view" \notin lapped'
        PROVE  /\ ItemsOnce'
               /\ \A e \in Client : client'[e].op = "create" =>
                    /\ \A f \in Client : client'[f].op # "view"
                    /\ \A f \in client'[e].todo, i \in DOMAIN items' :
                            items'[i].name # f.name
    <3>1. /\ \A f \in Client : client[f].op # "view"
          /\ \A f \in client[c].todo, i \in DOMAIN items : items[i].name # f.name
      BY <2>1, <2>4 DEF ChecklistKept
    <3>2. ItemsOnce'
      BY <2>1, <3>1, NewItem
    <3>3. \A f \in Client : client'[f].op # "view"
      BY <2>1, <3>1
    <3>4. \A f \in client[c].todo \ {d}, i \in DOMAIN items' : items'[i].name # f.name
      <4>1. \A f \in client[c].todo \ {d} : f.name # d.name
        BY <2>1, <2>3 DEF OneOfEachName
      <4>2. \A i \in DOMAIN items' :
                \/ i \in DOMAIN items /\ items'[i].name = items[i].name
                \/ items'[i].name = d.name
        BY <2>1, NewItem
      <4> QED BY <3>1, <4>1, <4>2
    <3> QED BY <2>2, <3>2, <3>3, <3>4
  <2>5. ItemsOnce'
    BY <2>4 DEF ItemsOnce
  <2>6. \A e \in Client : client'[e].op = "create" => OneOfEachName(client'[e].todo)
    BY <2>2, <2>3 DEF OneOfEachName
  <2>7. \A i \in DOMAIN items' : items'[i].name = items'[i].document.name
    BY <2>1, NewItem
  <2>8. OneOfEachName(notice'.docs)
    BY <2>1 DEF ChecklistKept
  <2> QED BY <2>2, <2>4, <2>5, <2>6, <2>7, <2>8 DEF ChecklistKept
<1>4. ASSUME NEW c \in Client, ViewEntry(c)
      PROVE  ChecklistKept'
  <2>1. /\ \A d \in Client : client'[d].op = "create" => client'[d] = client[d]
        /\ UNCHANGED <<notice, items>> /\ lapped \subseteq lapped'
        /\ "view" \notin lapped' => \A d \in Client : client'[d].op # "create"
    BY <1>4, StartsView
  <2>2. ItemsOnce'
    BY <2>1 DEF ChecklistKept, ItemsOnce
  <2> QED BY <2>1, <2>2 DEF ChecklistKept
<1>5. ASSUME NEW c \in Client, SyncItem(c)
      PROVE  ChecklistKept'
  <2>1. PICK d \in client[c].todo :
             /\ d \in Document /\ IF Listed(d) THEN UNCHANGED items ELSE AddItem(d)
             /\ \A e \in Client : e # c => client'[e] = client[e]
             /\ client[c].op = "view" /\ client'[c].op = "view"
             /\ UNCHANGED <<notice, lapped>>
    BY <1>5, AddsMissing
  <2>2. \A e \in Client : client'[e].op = "create" => client'[e] = client[e]
    BY <2>1
  <2>3. "view" \notin lapped => \A e \in Client : client[e].op # "create"
    BY <2>1 DEF ChecklistKept
  <2>4. ItemsOnce' /\ \A i \in DOMAIN items' : items'[i].name = items'[i].document.name
    <3>1. CASE Listed(d)
      BY <2>1, <3>1 DEF ChecklistKept, ItemsOnce
    <3>2. CASE ~Listed(d)
      <4>1. \A i \in DOMAIN items : items[i].name # d.name
        BY <3>2 DEF Listed
      <4> QED BY <2>1, <3>2, <4>1, NewItem
    <3> QED BY <3>1, <3>2
  <2> QED BY <2>1, <2>2, <2>3, <2>4 DEF ChecklistKept
<1> QED BY <1>1, <1>2, <1>3, <1>4, <1>5, Keeps, Zenon DEF ChecklistKept, Listing

\* Every step keeps what a view knows.
LEMMA ViewStep ==
    ASSUME ReadinessTypeOK, ChecklistKept, ViewKnows, [ReadinessNext]_readinessVars
    PROVE  ViewKnows'
<1>1. CASE ListsKeep
  BY <1>1 DEF ListsKeep, ViewKnows
<1>2. ASSUME NEW c \in Client, CreateEntry(c)
      PROVE  ViewKnows'
  <2>1. /\ \A d \in Client : client'[d].op = "view" => client'[d] = client[d]
        /\ UNCHANGED <<notice, items>>
    BY <1>2, StartsEntry
  <2> QED BY <2>1 DEF ViewKnows
<1>3. ASSUME NEW c \in Client, GenerateItem(c)
      PROVE  ViewKnows'
  <2>1. PICK d \in Document :
             /\ AddItem(d)
             /\ \A e \in Client : client'[e].op = "view" => client'[e] = client[e]
             /\ UNCHANGED notice
    BY <1>3, AddsItem
  <2>2. \A i \in DOMAIN items : i \in DOMAIN items' /\ items'[i].name = items[i].name
    BY <2>1, NewItem
  <2> QED BY <2>1, <2>2 DEF ViewKnows
<1>4. ASSUME NEW c \in Client, ViewEntry(c)
      PROVE  ViewKnows'
  <2>1. /\ \A d \in Client : d # c => client'[d] = client[d]
        /\ client'[c].todo = {d \in notice.docs : ~Listed(d)}
        /\ UNCHANGED <<notice, items>>
    BY <1>4, StartsView
  <2>2. \A d \in notice.docs :
            d \in client'[c].todo \/ \E i \in DOMAIN items : items[i].name = d.name
    BY <2>1, ListedByName
  <2> QED BY <2>1, <2>2 DEF ViewKnows
<1>5. ASSUME NEW c \in Client, SyncItem(c)
      PROVE  ViewKnows'
  <2>1. PICK d \in client[c].todo :
             /\ d \in Document /\ IF Listed(d) THEN UNCHANGED items ELSE AddItem(d)
             /\ \A e \in Client : e # c => client'[e] = client[e]
             /\ client[c].op = "view" /\ client'[c].op = "view"
             /\ client'[c].todo = client[c].todo \ {d}
             /\ client'[c].fresh = client[c].fresh
             /\ UNCHANGED notice
    BY <1>5, AddsMissing
  <2>2. /\ \A i \in DOMAIN items : i \in DOMAIN items' /\ items'[i].name = items[i].name
        /\ \E i \in DOMAIN items' : items'[i].name = d.name
    <3>1. CASE Listed(d)
      BY <2>1, <3>1, ListedByName
    <3>2. CASE ~Listed(d)
      BY <2>1, <3>2, NewItem
    <3> QED BY <3>1, <3>2
  <2>3. ASSUME NEW e \in Client, client'[e].op = "view", client'[e].fresh,
               NEW f \in notice.docs
        PROVE  f \in client'[e].todo \/ \E i \in DOMAIN items' : items'[i].name = f.name
    <3>1. client[e].op = "view" /\ client[e].fresh
      BY <2>1, <2>3
    <3>2. f \in client[e].todo \/ \E i \in DOMAIN items : items[i].name = f.name
      BY <3>1 DEF ViewKnows
    <3>3. f \in client[e].todo => f \in client'[e].todo \/ f = d
      BY <2>1
    <3> QED BY <2>2, <3>2, <3>3
  <2> QED BY <2>1, <2>3 DEF ViewKnows
<1> QED BY <1>1, <1>2, <1>3, <1>4, <1>5, Keeps, Zenon DEF ChecklistKept, Listing

\* Only the end of a view ends one, and then every document is listed.
LEMMA ViewEnds ==
    ASSUME ReadinessTypeOK, ChecklistKept, ViewKnows, [ReadinessNext]_readinessVars,
           NEW c \in Client, client[c].op = "view", client'[c].op = "idle", client[c].fresh,
           NEW d \in notice.docs
    PROVE  \E i \in DOMAIN items \ StaleItems : items[i].name = d.name
<1>1. FinishView(c)
  <2>1. CASE ListsKeep
    BY <2>1 DEF ListsKeep
  <2>2. ASSUME NEW e \in Client,
               CreateEntry(e) \/ GenerateItem(e) \/ ViewEntry(e) \/ SyncItem(e)
        PROVE  client'[c].op = "view"
    BY <2>2, StartsEntry, AddsItem, StartsView, AddsMissing
  <2> QED BY <2>1, <2>2, Keeps DEF ChecklistKept, Listing
<1>2. client[c].todo = {}
  BY <1>1 DEF FinishView
<1>3. PICK i \in DOMAIN items : items[i].name = d.name
  BY <1>2 DEF ViewKnows
<1>4. i \notin StaleItems
  BY <1>3 DEF StaleItems
<1> QED BY <1>3, <1>4

-----------------------------------------------------------------------------
(* Evaluations.                                                              *)

\* Unless two overlapped, one is running, the category it is at has no
\* condition, and no category has two.
EvaluationKept ==
    "evaluate" \notin lapped =>
        /\ \A c, d \in Client : client[c].op = "evaluate" /\ client[d].op = "evaluate" => c = d
        /\ \A c \in Client : client[c].op = "evaluate" /\ client[c].at # <<>> =>
                \A a \in auto : a.of # client[c].at
        /\ \A a, b \in auto : a.of = b.of => a = b

\* A step that neither evaluates nor adds a condition.
LEMMA EvaluationStays ==
    ASSUME EvaluationKept, UNCHANGED auto, "evaluate" \in lapped => "evaluate" \in lapped',
           \A c \in Client : client'[c].op = "evaluate" =>
                client[c].op = "evaluate" /\ client'[c].at = client[c].at
    PROVE  EvaluationKept'
  BY DEF EvaluationKept

\* Every step keeps the evaluations.
LEMMA EvaluationStep ==
    ASSUME ReadinessTypeOK, EvaluationKept, [ReadinessNext]_readinessVars
    PROVE  EvaluationKept'
<1>1. ASSUME NEW c \in Client, Evaluate(c)
      PROVE  EvaluationKept'
  <2>1. lapped' = lapped \union
            {k \in {"evaluate"} : \E d \in Client : client[d].op = "evaluate"}
    BY <1>1, Zenon DEF Evaluate, InFlight
  <2>2. \A todo : Busy("evaluate", todo).at = <<>>
    BY DEF Busy
  <2>3. PICK q : client' = [client EXCEPT ![c] = q] /\ q.at = <<>>
    BY <1>1, <2>2, Zenon DEF Evaluate
  <2>4. client'[c] = q /\ \A d \in Client : d # c => client'[d] = client[d]
    BY <2>3, Parts, Replaced
  <2>5. UNCHANGED auto
    BY <1>1, Zenon DEF Evaluate
  <2> QED BY <2>1, <2>3, <2>4, <2>5 DEF EvaluationKept
<1>2. ASSUME NEW c \in Client, FindAutoCondition(c)
      PROVE  EvaluationKept'
  <2>1. PICK k \in client[c].todo :
            IF \E a \in auto : a.of = k THEN Proceed(c, client[c].todo \ {k})
            ELSE client' = [client EXCEPT ![c].at = k]
    BY <1>2 DEF FindAutoCondition
  <2>2. client[c].op = "evaluate" /\ UNCHANGED <<auto, lapped>>
    BY <1>2 DEF FindAutoCondition, history
  <2>3. /\ \A d \in Client : d # c => client'[d] = client[d]
        /\ client'[c].op = "evaluate" =>
              client'[c].at = <<>> \/ \A a \in auto : a.of # client'[c].at
    BY <2>1, <2>2, Parts, Proceeds, Points
  <2> QED BY <2>2, <2>3 DEF EvaluationKept
<1>3. ASSUME NEW c \in Client, CreateAutoCondition(c)
      PROVE  EvaluationKept'
  <2> DEFINE k == client[c].at
             nth == Cardinality({a \in auto : a.of = k}) + 1
  <2>1. client[c].op = "evaluate" /\ k # <<>> /\ UNCHANGED lapped
    BY <1>3 DEF CreateAutoCondition, history
  <2>2. auto' = auto \union {[of |-> k, nth |-> nth]}
    BY <1>3 DEF CreateAutoCondition
  <2>3. /\ \A d \in Client : d # c => client'[d] = client[d]
        /\ client'[c].op = "evaluate" => client'[c].at = <<>>
    BY <1>3, Parts, Proceeds DEF CreateAutoCondition
  <2> HIDE DEF nth
  <2>4. \A a \in auto' : a \in auto \/ (a = [of |-> k, nth |-> nth] /\ a.of = k)
    BY <2>2
  <2> QED BY <2>1, <2>3, <2>4 DEF EvaluationKept
<1>4. ASSUME NEW c \in Client,
             \/ \E p \in Profile : SaveProfile(c, p)
             \/ SyncCheck(c) \/ SyncInsert(c) \/ Interrupt(c) \/ FinishView(c)
             \/ CreateEntry(c) \/ GenerateItem(c) \/ ViewEntry(c) \/ SyncItem(c)
      PROVE  EvaluationKept'
  <2>1. /\ \A d \in Client : d # c => client'[d] = client[d]
        /\ client'[c].op # "evaluate" /\ UNCHANGED auto
        /\ "evaluate" \in lapped => "evaluate" \in lapped'
    <3>1. CASE (\E p \in Profile : SaveProfile(c, p)) \/ SyncCheck(c) \/ SyncInsert(c)
      BY <3>1, Saving
    <3>2. CASE Interrupt(c) \/ FinishView(c)
      BY <3>2, Ending
    <3>3. CASE CreateEntry(c) \/ GenerateItem(c) \/ ViewEntry(c) \/ SyncItem(c)
      BY <3>3, StartsEntry, AddsItem, StartsView, AddsMissing
    <3> QED BY <1>4, <3>1, <3>2, <3>3
  <2> QED BY <2>1, EvaluationStays
<1>5. ASSUME Correct \/ Extract \/ \E d \in notice.docs : RejectDocument(d)
      PROVE  EvaluationKept'
  <2>1. UNCHANGED <<auto, lapped>> /\ Disturb
    BY <1>5 DEF Correct, Extract, RejectDocument, history
  <2> QED BY <2>1, Parts, Disturbs, EvaluationStays
<1>6. ASSUME \/ \E a \in Answer : Register(a)
             \/ \E s \in LicenceStatus : SetDirectProductionStatus(s)
             \/ \E r \in Record : CreateTrackRecord(r)
             \/ \E k \in Kind : UploadDocument(k)
             \/ Tick \/ \E d \in notice.docs : ToggleChecklistItem(d)
             \/ \E s \in EnrichmentStatus : Enrich(s)
             \/ \E i \in DOMAIN items, s \in {"held"} : UpdateChecklistItem(i, s)
      PROVE  EvaluationKept'
  <2>1. UNCHANGED <<auto, client, lapped>>
    BY <1>6, Zenon DEF Register, SetDirectProductionStatus, CreateTrackRecord,
         UploadDocument, Tick, ToggleChecklistItem, Enrich, UpdateChecklistItem, history
  <2> QED BY <2>1, EvaluationStays
<1>7. CASE UNCHANGED readinessVars
  BY <1>7, EvaluationStays DEF readinessVars
<1> QED BY <1>1, <1>2, <1>3, <1>4, <1>5, <1>6, <1>7, Zenon DEF ReadinessNext

-----------------------------------------------------------------------------
(* The theorems.                                                             *)

\* Two tables with rows of a name are more than one.
LEMMA TwoInTable ==
    ASSUME ReadinessTypeOK, NEW n, TwoTables(n)
    PROVE  Cardinality({company.rows[i].table : i \in RowsNamed(company, n)}) > 1
<1> DEFINE tables == {company.rows[i].table : i \in RowsNamed(company, n)}
<1>1. PICK i, j \in RowsNamed(company, n) : company.rows[i].table # company.rows[j].table
  BY DEF TwoTables
<1>2. \E s, t \in tables : s # t
  BY <1>1
<1>3. tables \subseteq Table
  <2>1. \A k \in RowsNamed(company, n) : k \in DOMAIN company.rows
    BY DEF RowsNamed
  <2>2. company.rows \in Seq(LicenceRow)
    BY Parts DEF Company
  <2>3. \A k \in DOMAIN company.rows : company.rows[k] \in LicenceRow
    BY <2>2
  <2> QED BY <2>1, <2>3 DEF LicenceRow
<1> HIDE DEF tables
<1>4. IsFiniteSet(Table)
  <2>1. IsFiniteSet({"licenses"})
    BY FS_Singleton
  <2>2. Table = {"licenses"} \union {"certifications"}
    BY DEF Table
  <2> QED BY <2>1, <2>2, FS_AddElement
<1>5. IsFiniteSet(tables)
  BY <1>3, <1>4, FS_Subset
<1>6. Cardinality(tables) \in Nat /\ Cardinality(tables) # 0 /\ Cardinality(tables) # 1
  BY <1>2, <1>5, FS_CardinalityType, FS_EmptySet, FS_Singleton
<1>7. Cardinality(tables) > 1
  BY <1>6
<1> QED BY <1>7 DEF tables

\* What every state satisfies.
ReadinessInv ==
    ReadinessTypeOK /\ AnswersKept /\ ChecklistKept /\ ViewKnows /\ EvaluationKept

\* It holds at first,
LEMMA ReadinessInvInit == ReadinessInit => ReadinessInv
<1> SUFFICES ASSUME ReadinessInit PROVE ReadinessInv
  OBVIOUS
<1>1. ReadinessTypeOK
  BY InitType
<1>2. /\ items = <<>> /\ auto = {} /\ answers = <<>>
      /\ \A c \in Client : client[c].op = "idle"
  BY DEF ReadinessInit, NoRequest
<1>3. DOMAIN items = {} /\ DOMAIN answers = {}
  BY <1>2
<1>4. OneOfEachName(notice.docs)
  <2>1. PICK t \in Type : notice = Extracted(NewNotice(t, 1))
    BY DEF ReadinessInit
  <2>2. 1 \in DOMAIN Published
    BY PublishedAssumption
  <2> QED BY <2>1, <2>2, NewNoticeType, ExtractedType DEF OneOfEachName
<1>5. AnswersKept
  BY <1>2, <1>3 DEF AnswersKept
<1>6. ChecklistKept
  BY <1>2, <1>3, <1>4 DEF ChecklistKept, ItemsOnce
<1>7. ViewKnows /\ EvaluationKept
  BY <1>2 DEF ViewKnows, EvaluationKept
<1> QED BY <1>1, <1>5, <1>6, <1>7 DEF ReadinessInv

\* and every step keeps it.
LEMMA ReadinessInvNext ==
    ASSUME ReadinessInv, [ReadinessNext]_readinessVars
    PROVE  ReadinessInv'
  BY TypeStep, AnswersStep, ChecklistStep, ViewStep, EvaluationStep, Zenon DEF ReadinessInv

(* The invariant that the other theorems rest on: no request of one kind undoes   *)
(* what another one relies on.                                                    *)
THEOREM ReadinessInvariant == ReadinessSpec => []ReadinessInv
  BY ReadinessInvInit, ReadinessInvNext, PTL DEF ReadinessSpec

(* Whatever is saved, answered, corrected, extracted and written at the same     *)
(* time, company, notice, checklist and requests keep their form: what is still  *)
(* to be written is always of the request's own kind, and there is an entry      *)
(* before anything is written for it (entry.go, company_structured.go).          *)
THEOREM ReadinessTypeCorrect == ReadinessSpec => []ReadinessTypeOK
<1>1. ReadinessInv => ReadinessTypeOK
  BY DEF ReadinessInv
<1> QED BY <1>1, ReadinessInvariant, PTL

(* No judgement says "you can take part" or "you cannot" without the facts, for   *)
(* any company, any notice and any day: the licences a ready notice asks for are  *)
(* held that day, and a notice advised against is of another province             *)
(* (participation_judgment.go).                                                   *)
THEOREM GradeBacked == ReadinessSpec => []GradeIsBacked
<1>1. ReadinessTypeOK => GradeIsBacked
  BY Parts, Backed, Zenon
<1> QED BY <1>1, ReadinessTypeCorrect, PTL

(* The page's judgement, the dashboard's buckets and gaps, the pipeline's grade,  *)
(* the recorded evaluation, the card and the licence calendar, written in         *)
(* different files, never contradict each other (dashboard_gaps.go,               *)
(* participation_judgment.go, scoring.go).                                        *)
THEOREM EnginesAlwaysAgree == ReadinessSpec => []EnginesAgree
<1>1. ReadinessTypeOK => EnginesAgree
  BY Parts, Agree, Zenon
<1> QED BY <1>1, ReadinessTypeCorrect, PTL

(* Saving the profile, which copies its list of licences as held, never overrides *)
(* what the company answered later or earlier about one, unless the answer came   *)
(* between the save's check and its insert, or both tables have rows of the name  *)
(* (company_structured.go).                                                       *)
THEOREM AnswersStand == ReadinessSpec => []AnswerStands
<1>1. ReadinessInv => AnswerStands
  <2> SUFFICES ASSUME ReadinessInv, NEW n \in DOMAIN answers \ raced
               PROVE  \/ Cardinality({company.rows[i].table : i \in RowsNamed(company, n)}) > 1
                      \/ Newest(company, n).status = answers[n]
    BY DEF AnswerStands
  <2> QED BY TwoInTable DEF ReadinessInv, AnswersKept
<1> QED BY <1>1, ReadinessInvariant, PTL

(* However often an entry is viewed and a notice evaluated, and whatever came in  *)
(* between, no document is listed and no condition added twice, as long as the    *)
(* view did not begin while the entry was being made and no two evaluations       *)
(* overlapped (pipeline_checklist.go, evaluation.go).                             *)
THEOREM NothingAddedTwice == ReadinessSpec => []AddedOnce
<1>1. ReadinessInv => AddedOnce
  BY DEF ReadinessInv, ChecklistKept, EvaluationKept, EvaluatedOnce, AddedOnce
<1> QED BY <1>1, ReadinessInvariant, PTL

(* A view answers with an unmarked item for every document of the current         *)
(* version, whatever happened before, unless the documents changed while it was   *)
(* writing (pipeline_checklist.go).                                               *)
THEOREM ViewsAreCurrent == ReadinessSpec => ViewShowsCurrent
<1> DEFINE Shows == \A c \in Client :
        client[c].op = "view" /\ client'[c].op = "idle" /\ client[c].fresh =>
            \A d \in notice.docs :
                \E i \in DOMAIN items \ StaleItems : items[i].name = d.name
<1>1. ReadinessInv /\ [ReadinessNext]_readinessVars => [Shows]_readinessVars
  BY ViewEnds DEF ReadinessInv
<1> QED BY <1>1, ReadinessInvariant, PTL DEF ReadinessSpec, ViewShowsCurrent
=============================================================================
