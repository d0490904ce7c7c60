----------------------------- MODULE Collection -----------------------------
(***************************************************************************)
(* One notice of one source as the collectors store it                     *)
(* (internal/collector/runner, pgstore, changedetect) and as the           *)
(* enrichment completes it (api/notice_enrichment.go).                     *)
(*                                                                         *)
(* The API server, collector-daemon and, during a deployment, two servers  *)
(* run collectors on the same tables. A transaction is one step at its     *)
(* COMMIT; the rows its first statement works on are those committed       *)
(* before that statement began (READ COMMITTED), which is a step of its    *)
(* own.                                                                    *)
(***************************************************************************)
EXTENDS Integers, Sequences, FiniteSets

CONSTANTS
    Collector,   \* processes that run RunIncremental
    Announcing,  \* those whose Runner has an OnChangesRecorded callback: the servers
    Sweep,       \* the enrichment of the ticker
    View,        \* the enrichment started by opening the notice
    Content,     \* what the source may publish: records [main, rest]
    Limit,       \* participation regions and licenses the source may add
    MaxChanges,  \* bound on changes of the source
    MaxFaults    \* bound on failed calls and statements, and on restarts

ASSUME ContentAssumption == Content # {} /\ \A c \in Content : DOMAIN c = {"main", "rest"}
ASSUME BoundAssumption == MaxChanges \in Nat /\ MaxFaults \in Nat
ASSUME CollectorAssumption ==
    IsFiniteSet(Collector) /\ Collector # {} /\ Announcing \subseteq Collector

VARIABLES
    source,    \* what the source publishes: the notice and its limits
    changed,   \* how often that changed
    notice,    \* the row of notices
    versions,  \* notice_versions with the attachment of each
    changes,   \* notice_changes
    notified,  \* the versions NotifyNoticeChanged was called for
    mute,      \* history: the versions added by a collector without the callback
    disk,      \* the attachment's file
    col,       \* col[c]: local variables of a collector
    enr,       \* enr[e]: local variables of an enrichment
    faults

vars == <<source, changed, notice, versions, changes, notified, mute, disk, col, enr, faults>>

Enricher == Sweep \cup View
None == "none"

-----------------------------------------------------------------------------
(* Rows *)

(* raw: the content of the version's raw document; rows: its regions and      *)
(* licenses, each with the enrichment that inserted it                        *)
Version == [raw: Content, current: BOOLEAN,
            attachment: {None, "completed", "failed"},
            status: {None, "completed", "not_found", "error"},
            rows: SUBSET (Limit \X Enricher)]

NewVersion(content) ==
    [raw |-> content, current |-> TRUE, attachment |-> None, status |-> None, rows |-> {}]

Change == [from: Nat, to: Nat, old: Content, new: Content]

Phase == {"idle", "fetched", "create", "compared", "adding", "record",
          "notify", "attach", "writing", "saving"}

(* doc: the normalized document; seen: the row it was compared with;          *)
(* snap: how many versions the first statement of the transaction has seen;   *)
(* version: the one this item has stored                                      *)
Item == [phase: Phase, doc: Content, seen: [number: Nat, content: Content],
         snap: Nat, version: Nat]
Work == [phase: {"idle", "selected", "fetched", "saving"}, version: Nat,
         answer: SUBSET Limit, snap: SUBSET (Limit \X Enricher)]
NoWork == [phase |-> "idle", version |-> 0, answer |-> {}, snap |-> {}]

AnyContent == CHOOSE c \in Content : TRUE
NoItem == [phase |-> "idle", doc |-> AnyContent,
           seen |-> [number |-> 0, content |-> AnyContent], snap |-> 0, version |-> 0]

Count == Len(versions)

(* changedetect.Compare looks at the main fields only. *)
Compare(prev, next) == prev.main # next.main

-----------------------------------------------------------------------------
Init ==
    /\ source \in [content: Content, limits: {{}}]
    /\ changed = 0
    /\ notice = [number |-> 0, content |-> AnyContent]
    /\ versions = <<>>
    /\ changes = {}
    /\ notified = {}
    /\ mute = {}
    /\ disk = "absent"
    /\ col = [c \in Collector |-> NoItem]
    /\ enr = [e \in Enricher |-> NoWork]
    /\ faults = 0

(* The source publishes a correction, or registers the limits it was late with. *)
SourceChanges ==
    /\ changed < MaxChanges
    /\ changed' = changed + 1
    /\ source' \in [content: Content, limits: SUBSET Limit] \ {source}
    /\ UNCHANGED <<notice, versions, changes, notified, mute, disk, col, enr, faults>>

-----------------------------------------------------------------------------
(* One item of RunIncremental *)

(* FetchList and FetchDetail; SaveRawDocument only appends. *)
FetchDetail(c) ==
    /\ col[c].phase = "idle"
    /\ col' = [col EXCEPT ![c] = [NoItem EXCEPT !.phase = "fetched", !.doc = source.content]]
    /\ UNCHANGED <<source, changed, notice, versions, changes, notified, mute, disk, enr, faults>>

(* Mutant: a notice that is already stored gets a version whenever it is read. *)
AlwaysDiffers(c) ==
    /\ col[c].phase = "fetched"
    /\ col' = [col EXCEPT ![c].phase = IF notice.number = 0 THEN "create" ELSE "compared",
                          ![c].seen = notice]
    /\ UNCHANGED <<source, changed, notice, versions, changes, notified, mute, disk, enr, faults>>

(* Mutant: a notice that is already stored is skipped. *)
SkipsStored(c) ==
    /\ col[c].phase = "fetched"
    /\ col' = [col EXCEPT ![c] = IF notice.number = 0 THEN [@ EXCEPT !.phase = "create"]
                                                      ELSE NoItem]
    /\ UNCHANGED <<source, changed, notice, versions, changes, notified, mute, disk, enr, faults>>

(* FindNoticeBySourceAndExternalID, Compare *)
LookUp(c) ==
    /\ col[c].phase = "fetched"
    /\ col' = [col EXCEPT ![c] =
                 IF notice.number = 0 THEN [@ EXCEPT !.phase = "create"]
                 ELSE IF Compare(notice.content, @.doc)
                 THEN [@ EXCEPT !.phase = "compared", !.seen = notice]
                 ELSE NoItem]
    /\ UNCHANGED <<source, changed, notice, versions, changes, notified, mute, disk, enr, faults>>

(* CreateNotice: UNIQUE (source_id, external_notice_id) stops the second one. *)
CreateNotice(c) ==
    /\ col[c].phase = "create"
    /\ IF notice.number = 0
       THEN /\ notice' = [number |-> 1, content |-> col[c].doc]
            /\ versions' = <<NewVersion(col[c].doc)>>
            /\ col' = [col EXCEPT ![c].phase = "attach", ![c].version = 1]
       ELSE /\ col' = [col EXCEPT ![c] = NoItem]
            /\ UNCHANGED <<notice, versions>>
    /\ UNCHANGED <<source, changed, changes, notified, mute, disk, enr, faults>>

(* UPDATE notice_versions SET is_current = false: it waits for the locks of a *)
(* transaction in flight, but works on the versions it saw when it began.     *)
AddNewVersionBegin(c) ==
    /\ col[c].phase = "compared"
    /\ col' = [col EXCEPT ![c].phase = "adding", ![c].snap = Count]
    /\ UNCHANGED <<source, changed, notice, versions, changes, notified, mute, disk, enr, faults>>

(* Mutant: the number follows the row that was compared, not the locked one. *)
NumbersCompared(c) ==
    LET i == col[c]
        old == [v \in 1..Count |-> [versions[v] EXCEPT !.current = @ /\ v > i.snap]]
    IN  /\ i.phase = "adding"
        /\ versions' = Append(old, NewVersion(i.doc))
        /\ notice' = [number |-> i.seen.number + 1, content |-> i.doc]
        /\ col' = [col EXCEPT ![c].phase = "record", ![c].version = i.seen.number + 1]
        /\ mute' = IF c \in Announcing THEN mute ELSE mute \cup {i.seen.number + 1}
        /\ UNCHANGED <<source, changed, changes, notified, disk, enr, faults>>

(* The rest of the transaction: the number of the locked row plus one. *)
AddNewVersionCommit(c) ==
    LET i == col[c]
        old == [v \in 1..Count |-> [versions[v] EXCEPT !.current = @ /\ v > i.snap]]
    IN  /\ i.phase = "adding"
        /\ versions' = Append(old, NewVersion(i.doc))
        /\ notice' = [number |-> notice.number + 1, content |-> i.doc]
        /\ col' = [col EXCEPT ![c].phase = "record", ![c].version = notice.number + 1]
        /\ mute' = IF c \in Announcing THEN mute ELSE mute \cup {notice.number + 1}
        /\ UNCHANGED <<source, changed, changes, notified, disk, enr, faults>>

(* RecordChanges: the rows lead from the version compared to the one stored. *)
RecordChanges(c) ==
    LET i == col[c]
    IN  /\ i.phase = "record"
        /\ changes' = changes \cup {[from |-> i.seen.number, to |-> i.version,
                                     old |-> i.seen.content, new |-> i.doc]}
        /\ col' = [col EXCEPT ![c].phase = "notify"]
        /\ UNCHANGED <<source, changed, notice, versions, notified, mute, disk, enr, faults>>

(* Mutant: the version is taken to be the next after the one compared. *)
AnnouncesNext(c) ==
    /\ col[c].phase = "notify"
    /\ notified' = IF c \in Announcing THEN notified \cup {col[c].seen.number + 1}
                                       ELSE notified
    /\ col' = [col EXCEPT ![c].phase = "attach"]
    /\ UNCHANGED <<source, changed, notice, versions, changes, mute, disk, enr, faults>>

(* if r.OnChangesRecorded != nil: collector-daemon never sets it *)
OnChangesRecorded(c) ==
    /\ col[c].phase = "notify"
    /\ notified' = IF c \in Announcing THEN notified \cup {col[c].version} ELSE notified
    /\ col' = [col EXCEPT ![c].phase = "attach"]
    /\ UNCHANGED <<source, changed, notice, versions, changes, mute, disk, enr, faults>>

(* processAttachment: a file downloaded for another version is used again;    *)
(* else it is downloaded, and written unless a file has its name              *)
Attachment(c, result) ==
    /\ versions' = [versions EXCEPT ![col[c].version].attachment = result]
    /\ col' = [col EXCEPT ![c] = NoItem]

ReuseAttachment(c) ==
    /\ col[c].phase = "attach"
    /\ \E v \in 1..Count : versions[v].attachment = "completed"
    /\ Attachment(c, "completed")
    /\ UNCHANGED <<source, changed, notice, changes, notified, mute, disk, enr, faults>>

DownloadAttachment(c) ==
    /\ col[c].phase = "attach"
    /\ \A v \in 1..Count : versions[v].attachment # "completed"
    /\ IF disk = "absent"
       THEN /\ disk' = "partial"
            /\ col' = [col EXCEPT ![c].phase = "writing"]
       ELSE /\ col' = [col EXCEPT ![c].phase = "saving"]
            /\ UNCHANGED disk
    /\ UNCHANGED <<source, changed, notice, versions, changes, notified, mute, enr, faults>>

WriteAttachmentFile(c) ==
    /\ col[c].phase = "writing"
    /\ disk' = "intact"
    /\ col' = [col EXCEPT ![c].phase = "saving"]
    /\ UNCHANGED <<source, changed, notice, versions, changes, notified, mute, enr, faults>>

SaveAttachment(c) ==
    /\ col[c].phase = "saving"
    /\ Attachment(c, "completed")
    /\ UNCHANGED <<source, changed, notice, changes, notified, mute, disk, enr, faults>>

DownloadFails(c) ==
    /\ col[c].phase = "attach"
    /\ faults < MaxFaults
    /\ faults' = faults + 1
    /\ Attachment(c, "failed")
    /\ UNCHANGED <<source, changed, notice, changes, notified, mute, disk, enr>>

(* A call or statement fails, or the process ends: the item is given up and    *)
(* the next run starts again from the list.                                    *)
ItemFails(c) ==
    /\ col[c].phase # "idle"
    /\ faults < MaxFaults
    /\ faults' = faults + 1
    /\ col' = [col EXCEPT ![c] = NoItem]
    /\ UNCHANGED <<source, changed, notice, versions, changes, notified, mute, disk, enr>>

-----------------------------------------------------------------------------
(* Enrichment *)

(* The sweep selects a current version without a status, as does the view,    *)
(* whose in-flight map keeps it from running twice for the notice.            *)
EnrichSelect(e) ==
    /\ enr[e].phase = "idle"
    /\ e \in View => \A o \in View : enr[o].phase = "idle"
    /\ \E v \in 1..Count :
        /\ versions[v].current /\ versions[v].status = None
        /\ enr' = [enr EXCEPT ![e] = [NoWork EXCEPT !.phase = "selected", !.version = v]]
    /\ UNCHANGED <<source, changed, notice, versions, changes, notified, mute, disk, col, faults>>

EnrichFetch(e) ==
    /\ enr[e].phase = "selected"
    /\ enr' = [enr EXCEPT ![e].phase = "fetched", ![e].answer = source.limits]
    /\ UNCHANGED <<source, changed, notice, versions, changes, notified, mute, disk, col, faults>>

(* Mutant: the status of a failed version is not one of the column's values. *)
MarksFailed(e) ==
    /\ enr[e].phase = "selected"
    /\ faults < MaxFaults
    /\ faults' = faults + 1
    /\ versions' = IF e \in Sweep
                   THEN [versions EXCEPT ![enr[e].version].status = "failed"]
                   ELSE versions
    /\ enr' = [enr EXCEPT ![e] = NoWork]
    /\ UNCHANGED <<source, changed, notice, changes, notified, mute, disk, col>>

(* markEnrichmentStatus: the sweep gives up, the view leaves the status alone *)
EnrichFetchFails(e) ==
    /\ enr[e].phase = "selected"
    /\ faults < MaxFaults
    /\ faults' = faults + 1
    /\ versions' = IF e \in Sweep
                   THEN [versions EXCEPT ![enr[e].version].status = "error"]
                   ELSE versions
    /\ enr' = [enr EXCEPT ![e] = NoWork]
    /\ UNCHANGED <<source, changed, notice, changes, notified, mute, disk, col>>

(* saveEnrichment: the DELETE sees the committed rows *)
SaveEnrichmentBegin(e) ==
    /\ enr[e].phase = "fetched"
    /\ enr' = [enr EXCEPT ![e].phase = "saving", ![e].snap = versions[enr[e].version].rows]
    /\ UNCHANGED <<source, changed, notice, versions, changes, notified, mute, disk, col, faults>>

(* Its INSERTs, the status and the COMMIT *)
SaveEnrichmentCommit(e) ==
    LET w == enr[e]
    IN  /\ w.phase = "saving"
        /\ versions' = [versions EXCEPT
                          ![w.version].rows = (@ \ w.snap) \cup (w.answer \X {e}),
                          ![w.version].status = IF w.answer = {} THEN "not_found"
                                                                 ELSE "completed"]
        /\ enr' = [enr EXCEPT ![e] = NoWork]
        /\ UNCHANGED <<source, changed, notice, changes, notified, mute, disk, col, faults>>

EnrichFails(e) ==
    /\ enr[e].phase # "idle"
    /\ faults < MaxFaults
    /\ faults' = faults + 1
    /\ enr' = [enr EXCEPT ![e] = NoWork]
    /\ UNCHANGED <<source, changed, notice, versions, changes, notified, mute, disk, col>>

-----------------------------------------------------------------------------
CollectNext(c) ==
    \/ FetchDetail(c) \/ LookUp(c) \/ CreateNotice(c)
    \/ AddNewVersionBegin(c) \/ AddNewVersionCommit(c)
    \/ RecordChanges(c) \/ OnChangesRecorded(c)
    \/ ReuseAttachment(c) \/ DownloadAttachment(c)
    \/ WriteAttachmentFile(c) \/ SaveAttachment(c)

EnrichNext(e) ==
    EnrichSelect(e) \/ EnrichFetch(e) \/ SaveEnrichmentBegin(e) \/ SaveEnrichmentCommit(e)

Next ==
    \/ SourceChanges
    \/ \E c \in Collector : CollectNext(c) \/ DownloadFails(c) \/ ItemFails(c)
    \/ \E e \in Enricher : EnrichNext(e) \/ EnrichFetchFails(e) \/ EnrichFails(e)

Spec == Init /\ [][Next]_vars

(* The hourly and quarter-hourly tickers; nobody need ever open the notice. *)
Fairness ==
    /\ \A c \in Collector : WF_vars(CollectNext(c))
    /\ \A e \in Sweep : WF_vars(EnrichNext(e))

FairSpec == Spec /\ Fairness

-----------------------------------------------------------------------------
(* Properties *)

TypeOK ==
    /\ source \in [content: Content, limits: SUBSET Limit]
    /\ changed \in 0..MaxChanges
    /\ notice \in [number: Nat, content: Content]
    /\ versions \in Seq(Version)
    /\ changes \subseteq Change
    /\ notified \subseteq Nat /\ mute \subseteq Nat
    /\ disk \in {"absent", "partial", "intact"}
    /\ col \in [Collector -> Item]
    /\ enr \in [Enricher -> Work]
    /\ faults \in 0..MaxFaults

(* notices and notice_versions agree, whichever collectors overlap: numbers     *)
(* without gaps, the row shows the newest version, which is current.            *)
NoticeIsNewest ==
    /\ notice.number = Count
    /\ Count > 0 => versions[Count].current /\ versions[Count].raw = notice.content

(* AddNewVersion clears is_current before it locks the notice: one collector    *)
(* leaves one current version, overlapping ones at most one each.               *)
CurrentBounded ==
    Cardinality({v \in 1..Count : versions[v].current}) <= Cardinality(Collector)

(* A change row says truly what was stored before and after, and describes a    *)
(* difference, although the notice is read long before the version is added.    *)
ChangesAreTrue ==
    \A ch \in changes :
        /\ ch.from \in 1..Count /\ ch.to \in 1..Count /\ ch.from < ch.to
        /\ versions[ch.from].raw = ch.old /\ versions[ch.to].raw = ch.new
        /\ Compare(ch.old, ch.new)

(* A correction that a server's collector stores is recorded and announced, one *)
(* that collector-daemon stores is recorded and announced by nobody, also when   *)
(* the two overlap: there is an exception only where a fault hit the collector    *)
(* between the commit of the version and the call, once per fault.                *)
Busy == {col[c].version : c \in {d \in Collector : col[d].phase \in {"record", "notify"}}}
Recorded(v) == \E ch \in changes : ch.to = v
Lost == {v \in 2..Count : v \notin Busy /\ ~(Recorded(v) /\ v \in notified \cup mute)}
OnlyFaultsSilence ==
    /\ Cardinality(Lost) <= faults
    /\ \A v \in notified : Recorded(v) /\ v \notin mute

(* An attachment that is called completed has its file, and the whole file      *)
(* unless it is being written or a write was cut short.                         *)
CompletedHasFile ==
    (\E v \in 1..Count : versions[v].attachment = "completed") =>
        \/ disk = "intact"
        \/ disk = "partial" /\ (faults > 0 \/ \E c \in Collector : col[c].phase = "writing")

(* What is stored agrees with itself: the row with its versions, the versions    *)
(* with each other, the attachment with its file.                                *)
StoreConsistent == TypeOK /\ NoticeIsNewest /\ CurrentBounded /\ CompletedHasFile

(* Sweep and view may save one version at the same time: it is called completed *)
(* only with limits.                                                            *)
CompletedHasLimits ==
    \A v \in 1..Count : versions[v].status = "completed" => versions[v].rows # {}

(* What the source publishes is stored in the end, even when a collector with   *)
(* an older document overwrote a newer one: for the fields that Compare knows.  *)
CatchesUp == <>[](notice.number > 0 /\ ~Compare(notice.content, source.content))

(* Every current version is enriched, or marked as failed, in the end.          *)
EnrichmentEnds == <>[](\A v \in 1..Count : versions[v].current => versions[v].status # None)

(* The store follows the source: all of it in the end, its limits never by name  *)
(* only.                                                                         *)
SourceIsFollowed == []CompletedHasLimits /\ CatchesUp /\ EnrichmentEnds
=============================================================================
