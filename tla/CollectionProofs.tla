--------------------------- MODULE CollectionProofs ---------------------------
(* What the store keeps for any number of collectors, enrichments, versions *)
(* and faults.                                                              *)
EXTENDS Collection, FiniteSetTheorems, SequenceTheorems, TLAPS

-----------------------------------------------------------------------------
(* The invariants.                                                          *)

\* A collector that has compared knows a version that is really stored, and has
\* a document that differs from it.
ComparedIsStored ==
    \A c \in Collector : col[c].phase \in {"compared", "adding", "record", "notify"} =>
        /\ col[c].seen.number \in 1..Count
        /\ versions[col[c].seen.number].raw = col[c].seen.content
        /\ Compare(col[c].seen.content, col[c].doc)

\* What it has stored since is newer, and is its document.
OwnIsStored ==
    \A c \in Collector :
        /\ col[c].phase \in {"record", "notify", "attach", "writing", "saving"} =>
              col[c].version \in 1..Count
        /\ col[c].phase \in {"record", "notify"} =>
              /\ col[c].seen.number < col[c].version
              /\ versions[col[c].version].raw = col[c].doc

\* An enrichment works on a version that is stored.
WorkIsStored ==
    \A e \in Enricher : enr[e].phase # "idle" => enr[e].version \in 1..Count

\* Nobody announces what is not recorded.
RecordedFirst ==
    \A c \in Collector : col[c].phase = "notify" =>
        \E ch \in changes : ch.to = col[c].version

Current == {v \in 1..Count : versions[v].current}

\* Every current version has an owner, who has no other and would clear it.
Owns(owner) ==
    /\ owner \in [1..Count -> Collector]
    /\ \A v, w \in Current : owner[v] = owner[w] => v = w
    /\ \A v \in Current :
           col[owner[v]].phase = "adding" => v <= col[owner[v]].snap

CurrentOwned == \E owner \in [1..Count -> Collector] : Owns(owner)

\* The file is there before a version or a collector counts on it, and is cut
\* short only by a fault.
FileComesFirst ==
    /\ disk = "partial" => faults > 0 \/ \E c \in Collector : col[c].phase = "writing"
    /\ \A c \in Collector : col[c].phase = "saving" => disk # "absent"
    /\ \A v \in 1..Count : versions[v].attachment = "completed" => disk # "absent"

-----------------------------------------------------------------------------
(* The list of versions.                                                    *)

\* What is always kept of the versions that were there.
Kept(v) == /\ versions'[v].raw = versions[v].raw
           /\ versions'[v].current = versions[v].current

LEMMA CountType == TypeOK => Count \in Nat /\ versions \in [1..Count -> Version]
  BY LenProperties DEF TypeOK, Count

LEMMA NewVersionType == ASSUME NEW x \in Content PROVE NewVersion(x) \in Version
  BY DEF NewVersion, Version

LEMMA NewVersionFacts ==
    ASSUME NEW x
    PROVE  /\ NewVersion(x).raw = x /\ NewVersion(x).current
           /\ NewVersion(x).attachment = None
           /\ NewVersion(x).status = None /\ NewVersion(x).rows = {}
  BY DEF NewVersion

LEMMA AnyContentType == AnyContent \in Content
  BY ContentAssumption DEF AnyContent

LEMMA Replaced ==
    ASSUME TypeOK, NEW k \in 1..Count, NEW x \in Version,
           versions' = [versions EXCEPT ![k] = x]
    PROVE  /\ versions' \in Seq(Version)
           /\ Count' = Count
           /\ \A v \in 1..Count : versions'[v] = IF v = k THEN x ELSE versions[v]
  BY ExceptSeq DEF TypeOK, Count

LEMMA AttachmentFacts ==
    ASSUME TypeOK, NEW k \in 1..Count, NEW r \in {"completed", "failed"},
           versions' = [versions EXCEPT ![k].attachment = r]
    PROVE  /\ versions' \in Seq(Version) /\ Count' = Count
           /\ \A v \in 1..Count : /\ Kept(v)
                                  /\ versions'[v].status = versions[v].status
                                  /\ versions'[v].rows = versions[v].rows
                                  /\ versions'[v].attachment
                                        = IF v = k THEN r ELSE versions[v].attachment
<1> DEFINE x == [versions[k] EXCEPT !.attachment = r]
<1>1. versions[k] \in Version
  BY CountType
<1>2. x \in Version
  BY <1>1 DEF Version
<1>3. /\ x.raw = versions[k].raw /\ x.current = versions[k].current
      /\ x.status = versions[k].status /\ x.rows = versions[k].rows
      /\ x.attachment = r
  BY <1>1 DEF Version
<1>4. versions' = [versions EXCEPT ![k] = x]
  OBVIOUS
<1> HIDE DEF x
<1>5. /\ versions' \in Seq(Version) /\ Count' = Count
      /\ \A v \in 1..Count : versions'[v] = IF v = k THEN x ELSE versions[v]
  BY <1>2, <1>4, Replaced
<1>6. ASSUME NEW v \in 1..Count
      PROVE  /\ Kept(v)
             /\ versions'[v].status = versions[v].status
             /\ versions'[v].rows = versions[v].rows
             /\ versions'[v].attachment = IF v = k THEN r ELSE versions[v].attachment
  <2>1. CASE v = k
    BY <1>3, <1>5, <2>1 DEF Kept
  <2>2. CASE v # k
    BY <1>5, <2>2 DEF Kept
  <2>3. QED
    BY <2>1, <2>2
<1>7. QED
  BY <1>5, <1>6

Enriches(k, rows, st) ==
    versions' = [versions EXCEPT ![k] = [versions[k] EXCEPT !.rows = rows, !.status = st]]

LEMMA EnrichmentFacts ==
    ASSUME TypeOK, NEW k \in 1..Count,
           NEW st \in {"completed", "not_found", "error"},
           NEW rows \in SUBSET (Limit \X Enricher),
           Enriches(k, rows, st)
    PROVE  /\ versions' \in Seq(Version) /\ Count' = Count
           /\ \A v \in 1..Count : /\ Kept(v)
                                  /\ versions'[v].attachment = versions[v].attachment
                                  /\ v # k => versions'[v] = versions[v]
           /\ versions'[k].rows = rows /\ versions'[k].status = st
<1> DEFINE x == [versions[k] EXCEPT !.rows = rows, !.status = st]
<1>1. versions[k] \in Version
  BY CountType
<1>2. x \in Version
  BY <1>1 DEF Version
<1>3. /\ x.raw = versions[k].raw /\ x.current = versions[k].current
      /\ x.status = st /\ x.rows = rows
      /\ x.attachment = versions[k].attachment
  BY <1>1 DEF Version
<1> HIDE DEF x
<1>5. versions' = [versions EXCEPT ![k] = x]
  BY DEF x, Enriches
<1>6. /\ versions' \in Seq(Version) /\ Count' = Count
      /\ \A v \in 1..Count : versions'[v] = IF v = k THEN x ELSE versions[v]
  BY <1>2, <1>5, Replaced
<1>7. ASSUME NEW v \in 1..Count
      PROVE  /\ Kept(v)
             /\ versions'[v].attachment = versions[v].attachment
             /\ v # k => versions'[v] = versions[v]
  <2>1. CASE v = k
    BY <1>3, <1>6, <2>1 DEF Kept
  <2>2. CASE v # k
    BY <1>6, <2>2 DEF Kept
  <2>3. QED
    BY <2>1, <2>2
<1>8. versions'[k].rows = rows /\ versions'[k].status = st
  BY <1>3, <1>6
<1>9. QED
  BY <1>6, <1>7, <1>8

\* The step that gives a collector's document the next number.
LEMMA CommitFacts ==
    ASSUME TypeOK, NEW c \in Collector, AddNewVersionCommit(c)
    PROVE  /\ versions' \in Seq(Version) /\ Count' = Count + 1
           /\ versions'[Count + 1] = NewVersion(col[c].doc)
           /\ \A v \in 1..Count :
                  /\ versions'[v].raw = versions[v].raw
                  /\ versions'[v].current = (versions[v].current /\ v > col[c].snap)
                  /\ versions'[v].status = versions[v].status
                  /\ versions'[v].rows = versions[v].rows
                  /\ versions'[v].attachment = versions[v].attachment
<1> DEFINE i == col[c]
           old == [v \in 1..Count |-> [versions[v] EXCEPT !.current = @ /\ v > i.snap]]
<1>1. \A v \in 1..Count : versions[v] \in Version
  BY CountType
<1>2. i \in Item
  BY DEF TypeOK
<1>3. ASSUME NEW v \in 1..Count
      PROVE  /\ old[v] \in Version
             /\ old[v].raw = versions[v].raw
             /\ old[v].current = (versions[v].current /\ v > i.snap)
             /\ old[v].status = versions[v].status
             /\ old[v].rows = versions[v].rows
             /\ old[v].attachment = versions[v].attachment
  <2>1. versions[v] \in Version
    BY <1>1
  <2>2. (versions[v].current /\ v > i.snap) \in BOOLEAN
    OBVIOUS
  <2> DEFINE b == versions[v].current /\ v > i.snap
  <2>3. old[v] = [versions[v] EXCEPT !.current = b]
    OBVIOUS
  <2>4. b \in BOOLEAN
    BY <2>2
  <2> HIDE DEF b, old
  <2>5. old[v] \in Version /\ old[v].current = b
    BY <2>1, <2>3, <2>4 DEF Version
  <2>6. /\ old[v].raw = versions[v].raw
        /\ old[v].status = versions[v].status
        /\ old[v].rows = versions[v].rows
        /\ old[v].attachment = versions[v].attachment
    BY <2>1, <2>3 DEF Version
  <2>7. QED
    BY <2>5, <2>6 DEF b
<1>4. Count \in Nat
  BY CountType
<1>5. old \in Seq(Version) /\ Len(old) = Count
  BY <1>3, <1>4
<1>6. NewVersion(i.doc) \in Version
  BY <1>2, NewVersionType DEF Item
<1>7. versions' = Append(old, NewVersion(i.doc))
  BY DEF AddNewVersionCommit
<1> HIDE DEF old
<1>8. /\ versions' \in Seq(Version) /\ Len(versions') = Count + 1
      /\ versions'[Count + 1] = NewVersion(i.doc)
      /\ \A v \in 1..Count : versions'[v] = old[v]
  BY <1>4, <1>5, <1>6, <1>7, AppendProperties
<1>9. QED
  BY <1>3, <1>8 DEF Count

-----------------------------------------------------------------------------
(* What steps do to the versions.                                           *)

\* Only the attachments, the statuses and the limits change.
Retouched ==
    /\ versions' \in Seq(Version) /\ Count' = Count
    /\ \A v \in 1..Count : Kept(v)
    /\ UNCHANGED <<notice, notified, mute, changes>>

LEMMA RetouchedByCollector ==
    ASSUME TypeOK, OwnIsStored, NEW c \in Collector,
           ReuseAttachment(c) \/ SaveAttachment(c) \/ DownloadFails(c)
    PROVE  Retouched
<1>1. PICK r \in {"completed", "failed"} : Attachment(c, r)
  BY DEF ReuseAttachment, SaveAttachment, DownloadFails
<1>2. col[c].version \in 1..Count
  BY DEF OwnIsStored, ReuseAttachment, SaveAttachment, DownloadFails
<1>3. versions' = [versions EXCEPT ![col[c].version].attachment = r]
  BY <1>1 DEF Attachment
<1>4. QED
  BY <1>2, <1>3, AttachmentFacts DEF Retouched, ReuseAttachment, SaveAttachment,
     DownloadFails

LEMMA SavedLimits ==
    ASSUME TypeOK, WorkIsStored, NEW e \in Enricher, SaveEnrichmentCommit(e)
    PROVE  /\ Retouched
           /\ \A v \in 1..Count : versions'[v].attachment = versions[v].attachment
           /\ \A v \in 1..Count : v # enr[e].version => versions'[v] = versions[v]
           /\ versions'[enr[e].version].status = "completed"
                 => versions'[enr[e].version].rows # {}
<1> DEFINE w == enr[e]
           k == w.version
           rows == (versions[k].rows \ w.snap) \cup (w.answer \X {e})
           st == IF w.answer = {} THEN "not_found" ELSE "completed"
<1>1. k \in 1..Count /\ w \in Work
  BY DEF WorkIsStored, SaveEnrichmentCommit, TypeOK
<1>2. versions[k] \in Version
  BY <1>1, CountType
<1>3. rows \in SUBSET (Limit \X Enricher)
  BY <1>1, <1>2 DEF Version, Work
<1>4. Enriches(k, rows, st)
  BY DEF SaveEnrichmentCommit, Enriches
<1>5. st = "completed" => rows # {}
  <2>1. ASSUME NEW a \in w.answer PROVE <<a, e>> \in rows
    BY <2>1
  <2>2. CASE w.answer = {}
    BY <2>2
  <2>3. CASE w.answer # {}
    BY <2>1, <2>3
  <2>4. QED
    BY <2>2, <2>3
<1>6. UNCHANGED <<notice, notified, mute, changes>>
  BY DEF SaveEnrichmentCommit
<1>7. st \in {"completed", "not_found", "error"}
  OBVIOUS
<1> HIDE DEF rows, st
<1>8. QED
  BY <1>1, <1>3, <1>4, <1>5, <1>6, <1>7, EnrichmentFacts DEF Retouched

LEMMA GivenUp ==
    ASSUME TypeOK, WorkIsStored, NEW e \in Enricher, EnrichFetchFails(e)
    PROVE  /\ Retouched
           /\ \A v \in 1..Count : versions'[v].attachment = versions[v].attachment
           /\ \A v \in 1..Count : versions'[v] = versions[v] \/ versions'[v].status = "error"
<1>1. UNCHANGED <<notice, notified, mute, changes>>
  BY DEF EnrichFetchFails
<1>2. CASE versions' = versions
  BY <1>1, <1>2, CountType DEF Retouched, Kept, TypeOK, Count
<1>3. CASE versions' = [versions EXCEPT ![enr[e].version].status = "error"]
  <2> DEFINE k == enr[e].version
  <2>1. k \in 1..Count
    BY DEF WorkIsStored, EnrichFetchFails
  <2>2. versions[k] \in Version
    BY <2>1, CountType
  <2>3. versions[k].rows \in SUBSET (Limit \X Enricher)
    BY <2>2 DEF Version
  <2>4. [versions[k] EXCEPT !.status = "error"]
          = [versions[k] EXCEPT !.rows = versions[k].rows, !.status = "error"]
    BY <2>2 DEF Version
  <2>5. Enriches(k, versions[k].rows, "error")
    BY <1>3, <2>4 DEF Enriches
  <2>6. QED
    BY <1>1, <2>1, <2>3, <2>5, EnrichmentFacts DEF Retouched
<1>4. QED
  BY <1>2, <1>3 DEF EnrichFetchFails

LEMMA VersionsChange ==
    ASSUME TypeOK, OwnIsStored, WorkIsStored, [Next]_vars
    PROVE  \/ versions' = versions /\ notice' = notice
           \/ Retouched
           \/ \E c \in Collector : AddNewVersionCommit(c)
           \/ \E c \in Collector : CreateNotice(c) /\ notice.number = 0
<1>1. ASSUME NEW c \in Collector, CollectNext(c) \/ DownloadFails(c) \/ ItemFails(c)
      PROVE  \/ versions' = versions /\ notice' = notice
             \/ Retouched
             \/ AddNewVersionCommit(c)
             \/ CreateNotice(c) /\ notice.number = 0
  BY <1>1, RetouchedByCollector DEF CollectNext, FetchDetail, LookUp, CreateNotice,
     AddNewVersionBegin, RecordChanges, OnChangesRecorded, DownloadAttachment,
     WriteAttachmentFile, ItemFails
<1>2. ASSUME NEW e \in Enricher, EnrichNext(e) \/ EnrichFetchFails(e) \/ EnrichFails(e)
      PROVE  (versions' = versions /\ notice' = notice) \/ Retouched
  BY <1>2, SavedLimits, GivenUp DEF EnrichNext, EnrichSelect, EnrichFetch,
     SaveEnrichmentBegin, EnrichFails
<1>3. QED
  BY <1>1, <1>2 DEF Next, SourceChanges, vars

\* The second of two collectors that create the notice leaves it alone.
LEMMA CreateFacts ==
    ASSUME TypeOK, NEW c \in Collector, CreateNotice(c), notice.number = 0
    PROVE  /\ versions' \in Seq(Version) /\ Count' = 1
           /\ versions'[1] = NewVersion(col[c].doc)
           /\ notice' = [number |-> 1, content |-> col[c].doc]
<1>1. versions' = <<NewVersion(col[c].doc)>>
  BY DEF CreateNotice
<1>2. NewVersion(col[c].doc) \in Version
  BY NewVersionType DEF TypeOK, Item
<1>3. QED
  BY <1>1, <1>2 DEF Count, CreateNotice

\* No version is ever taken away, and the content of none changes.
LEMMA VersionsStay ==
    ASSUME TypeOK, OwnIsStored, WorkIsStored, NoticeIsNewest, [Next]_vars
    PROVE  /\ versions' \in Seq(Version)
           /\ Count' \in Nat /\ Count <= Count'
           /\ \A v \in 1..Count : versions'[v].raw = versions[v].raw
<1>1. CASE versions' = versions
  BY <1>1, CountType DEF TypeOK, Count
<1>2. CASE Retouched
  BY <1>2, CountType DEF Retouched, Kept
<1>3. ASSUME NEW c \in Collector, AddNewVersionCommit(c)
      PROVE  /\ versions' \in Seq(Version)
             /\ Count' \in Nat /\ Count <= Count'
             /\ \A v \in 1..Count : versions'[v].raw = versions[v].raw
  BY <1>3, CommitFacts, CountType
<1>4. ASSUME NEW c \in Collector, CreateNotice(c), notice.number = 0
      PROVE  /\ versions' \in Seq(Version)
             /\ Count' \in Nat /\ Count <= Count'
             /\ \A v \in 1..Count : versions'[v].raw = versions[v].raw
  BY <1>4, CreateFacts, CountType DEF NoticeIsNewest
<1>5. QED
  BY <1>1, <1>2, <1>3, <1>4, VersionsChange

-----------------------------------------------------------------------------
(* Types.                                                                   *)

LEMMA TypeInit == Init => TypeOK
<1> SUFFICES ASSUME Init PROVE TypeOK
  OBVIOUS
<1>1. NoItem \in Item /\ NoWork \in Work
  BY AnyContentType DEF NoItem, Item, Phase, NoWork, Work
<1>2. /\ col \in [Collector -> Item] /\ enr \in [Enricher -> Work]
      /\ notice \in [number: Nat, content: Content]
      /\ versions \in Seq(Version)
      /\ source \in [content: Content, limits: SUBSET Limit]
  BY <1>1, AnyContentType DEF Init
<1>3. QED
  BY <1>2, BoundAssumption DEF Init, TypeOK

LEMMA ItemType ==
    ASSUME TypeOK, [Next]_vars
    PROVE  col' \in [Collector -> Item]
<1> USE DEF TypeOK
<1>0. NoItem \in Item
  BY AnyContentType DEF NoItem, Item, Phase
<1>1. ASSUME NEW c \in Collector, CollectNext(c) \/ DownloadFails(c) \/ ItemFails(c)
      PROVE  col' \in [Collector -> Item]
  <2>0. col[c] \in Item /\ Count \in Nat /\ source.content \in Content
    BY CountType
  <2>1. SUFFICES ASSUME NEW i \in Item, col' = [col EXCEPT ![c] = i]
                 PROVE  col' \in [Collector -> Item]
    <3>1. CASE FetchDetail(c)
      BY <1>0, <2>0, <3>1 DEF FetchDetail, Item, Phase
    <3>2. CASE LookUp(c)
      BY <1>0, <2>0, <3>2 DEF LookUp, Item, Phase
    <3>3. CASE CreateNotice(c)
      BY <1>0, <2>0, <3>3 DEF CreateNotice, Item, Phase
    <3>4. CASE AddNewVersionBegin(c)
      BY <1>0, <2>0, <3>4 DEF AddNewVersionBegin, Item, Phase
    <3>5. CASE AddNewVersionCommit(c)
      <4>1. col' = [col EXCEPT ![c] = [col[c] EXCEPT !.phase = "record", !.version = notice.number + 1]]
        BY <3>5 DEF AddNewVersionCommit
      <4>0. notice.number + 1 \in Nat
        OBVIOUS
      <4>2. [col[c] EXCEPT !.phase = "record", !.version = notice.number + 1] \in Item
        BY <2>0, <4>0 DEF Item, Phase
      <4>3. QED
        BY <4>1, <4>2
    <3>6. CASE RecordChanges(c)
      BY <1>0, <2>0, <3>6 DEF RecordChanges, Item, Phase
    <3>7. CASE OnChangesRecorded(c)
      BY <1>0, <2>0, <3>7 DEF OnChangesRecorded, Item, Phase
    <3>8. CASE ReuseAttachment(c) \/ SaveAttachment(c) \/ DownloadFails(c) \/ ItemFails(c)
      BY <1>0, <2>0, <3>8 DEF ReuseAttachment, SaveAttachment, DownloadFails, ItemFails,
         Attachment
    <3>9. CASE DownloadAttachment(c)
      BY <1>0, <2>0, <3>9 DEF DownloadAttachment, Item, Phase
    <3>10. CASE WriteAttachmentFile(c)
      BY <1>0, <2>0, <3>10 DEF WriteAttachmentFile, Item, Phase
    <3>11. QED
      BY <1>1, <3>1, <3>2, <3>3, <3>4, <3>5, <3>6, <3>7, <3>8, <3>9, <3>10
         DEF CollectNext
  <2>2. col \in [Collector -> Item]
    OBVIOUS
  <2>3. QED
    BY <2>1, <2>2
<1>2. ASSUME NEW e \in Enricher, EnrichNext(e) \/ EnrichFetchFails(e) \/ EnrichFails(e)
      PROVE  col' = col
  BY <1>2 DEF EnrichNext, EnrichSelect, EnrichFetch, SaveEnrichmentBegin,
     SaveEnrichmentCommit, EnrichFetchFails, EnrichFails
<1>3. QED
  BY <1>1, <1>2 DEF Next, SourceChanges, vars

LEMMA WorkType ==
    ASSUME TypeOK, WorkIsStored, [Next]_vars
    PROVE  enr' \in [Enricher -> Work]
<1> USE DEF TypeOK
<1>0. NoWork \in Work
  BY DEF NoWork, Work
<1>1. ASSUME NEW e \in Enricher, EnrichNext(e) \/ EnrichFetchFails(e) \/ EnrichFails(e)
      PROVE  enr' \in [Enricher -> Work]
  <2>0. enr[e] \in Work /\ source.limits \in SUBSET Limit
    OBVIOUS
  <2>1. CASE EnrichSelect(e)
    <3>1. PICK v \in 1..Count :
            enr' = [enr EXCEPT ![e] = [NoWork EXCEPT !.phase = "selected", !.version = v]]
      BY <2>1 DEF EnrichSelect
    <3>2. v \in Nat
      BY CountType
    <3>3. [NoWork EXCEPT !.phase = "selected", !.version = v] \in Work
      BY <3>2 DEF NoWork, Work
    <3>4. QED
      BY <3>1, <3>3
  <2>2. CASE EnrichFetch(e)
    <3>1. [enr[e] EXCEPT !.phase = "fetched", !.answer = source.limits] \in Work
      BY <2>0 DEF Work
    <3>2. QED
      BY <2>2, <3>1 DEF EnrichFetch
  <2>3. CASE SaveEnrichmentBegin(e)
    <3>1. versions[enr[e].version].rows \in SUBSET (Limit \X Enricher)
      BY <2>3, CountType DEF SaveEnrichmentBegin, WorkIsStored, Version
    <3>2. [enr[e] EXCEPT !.phase = "saving", !.snap = versions[enr[e].version].rows] \in Work
      BY <2>0, <3>1 DEF Work
    <3>3. QED
      BY <2>3, <3>2 DEF SaveEnrichmentBegin
  <2>4. QED
    BY <1>0, <1>1, <2>1, <2>2, <2>3 DEF EnrichNext, SaveEnrichmentCommit,
       EnrichFetchFails, EnrichFails
<1>2. ASSUME NEW c \in Collector, CollectNext(c) \/ DownloadFails(c) \/ ItemFails(c)
      PROVE  enr' = enr
  BY <1>2 DEF CollectNext, FetchDetail, LookUp, CreateNotice, AddNewVersionBegin,
     AddNewVersionCommit, RecordChanges, OnChangesRecorded, ReuseAttachment,
     DownloadAttachment, WriteAttachmentFile, SaveAttachment, DownloadFails, ItemFails
<1>3. QED
  BY <1>1, <1>2 DEF Next, SourceChanges, vars

LEMMA TypeNext ==
    TypeOK /\ OwnIsStored /\ WorkIsStored /\ NoticeIsNewest /\ [Next]_vars => TypeOK'
<1> SUFFICES ASSUME TypeOK, OwnIsStored, WorkIsStored, NoticeIsNewest, [Next]_vars
             PROVE  TypeOK'
  OBVIOUS
<1>1. /\ versions' \in Seq(Version)
      /\ col' \in [Collector -> Item] /\ enr' \in [Enricher -> Work]
  BY VersionsStay, ItemType, WorkType
<1>2. /\ source' \in [content: Content, limits: SUBSET Limit] /\ changed' \in 0..MaxChanges
      /\ notice' \in [number: Nat, content: Content]
      /\ changes' \subseteq Change /\ notified' \subseteq Nat /\ mute' \subseteq Nat
      /\ disk' \in {"absent", "partial", "intact"} /\ faults' \in 0..MaxFaults
  <2> USE BoundAssumption DEF TypeOK
  <2>1. ASSUME NEW c \in Collector, CollectNext(c) \/ DownloadFails(c) \/ ItemFails(c)
        PROVE  /\ UNCHANGED <<source, changed>>
               /\ notice' \in [number: Nat, content: Content]
               /\ changes' \subseteq Change /\ notified' \subseteq Nat /\ mute' \subseteq Nat
               /\ disk' \in {"absent", "partial", "intact"} /\ faults' \in 0..MaxFaults
    <3>1. col[c] \in Item
      OBVIOUS
    <3>2. [from |-> col[c].seen.number, to |-> col[c].version,
           old |-> col[c].seen.content, new |-> col[c].doc] \in Change
      BY <3>1 DEF Item, Change
    <3>3. /\ col[c].version \in Nat /\ col[c].doc \in Content
          /\ notice.number + 1 \in Nat
      BY <3>1 DEF Item
    <3>4. QED
      BY <2>1, <3>2, <3>3 DEF CollectNext, FetchDetail, LookUp, CreateNotice,
         AddNewVersionBegin, AddNewVersionCommit, RecordChanges, OnChangesRecorded,
         ReuseAttachment, DownloadAttachment, WriteAttachmentFile, SaveAttachment,
         DownloadFails, ItemFails
  <2>2. ASSUME NEW e \in Enricher, EnrichNext(e) \/ EnrichFetchFails(e) \/ EnrichFails(e)
        PROVE  /\ UNCHANGED <<source, changed, notice, changes, notified, mute, disk>>
               /\ faults' \in 0..MaxFaults
    <3>1. /\ UNCHANGED <<source, changed, notice, changes, notified, mute, disk>>
          /\ faults' = faults \/ (faults < MaxFaults /\ faults' = faults + 1)
      BY <2>2 DEF EnrichNext, EnrichSelect, EnrichFetch, SaveEnrichmentBegin,
         SaveEnrichmentCommit, EnrichFetchFails, EnrichFails
    <3>2. QED
      BY <3>1
  <2>3. CASE SourceChanges
    BY <2>3 DEF SourceChanges
  <2>4. CASE UNCHANGED vars
    BY <2>4 DEF vars
  <2>5. QED
    BY <2>1, <2>2, <2>3, <2>4 DEF Next
<1>3. QED
  BY <1>1, <1>2 DEF TypeOK

-----------------------------------------------------------------------------
(* The items under way.                                                     *)

CollectorStep(c) == CollectNext(c) \/ DownloadFails(c) \/ ItemFails(c)

\* What the item of c is after its step.
LEMMA ItemStep ==
    ASSUME TypeOK, NEW c \in Collector, CollectorStep(c)
    PROVE  /\ \A d \in Collector : d # c => col'[d] = col[d]
           /\ \/ col'[c].phase \in {"idle", "fetched", "create"}
              \/ /\ LookUp(c) /\ col'[c].phase = "compared"
                 /\ notice.number # 0 /\ Compare(notice.content, col[c].doc)
                 /\ col'[c].seen = notice /\ col'[c].doc = col[c].doc
              \/ /\ CreateNotice(c) /\ notice.number = 0
                 /\ col'[c].phase = "attach" /\ col'[c].version = 1
              \/ /\ AddNewVersionCommit(c) /\ col'[c].phase = "record"
                 /\ col'[c].version = notice.number + 1
                 /\ col'[c].seen = col[c].seen /\ col'[c].doc = col[c].doc
              \/ /\ col'[c].seen = col[c].seen /\ col'[c].doc = col[c].doc
                 /\ col'[c].version = col[c].version
                 /\ \/ AddNewVersionBegin(c) /\ col'[c].phase = "adding"
                    \/ RecordChanges(c) /\ col'[c].phase = "notify"
                    \/ OnChangesRecorded(c) /\ col'[c].phase = "attach"
                    \/ DownloadAttachment(c) /\ col'[c].phase = "writing"
                    \/ /\ DownloadAttachment(c) \/ WriteAttachmentFile(c)
                       /\ col'[c].phase = "saving"
<1>0. col[c] \in Item /\ NoItem.phase = "idle" /\ col \in [Collector -> Item]
  BY DEF TypeOK, NoItem
<1>1. CASE FetchDetail(c)
  BY <1>0, <1>1, AnyContentType DEF FetchDetail, NoItem, Item
<1>2. CASE LookUp(c)
  BY <1>0, <1>2 DEF LookUp, Item
<1>3. CASE CreateNotice(c)
  BY <1>0, <1>3 DEF CreateNotice, Item
<1>4. CASE AddNewVersionBegin(c)
  BY <1>0, <1>4 DEF AddNewVersionBegin, Item
<1>5. CASE AddNewVersionCommit(c)
  <2>1. col' = [col EXCEPT ![c] = [col[c] EXCEPT !.phase = "record", !.version = notice.number + 1]]
    BY <1>5 DEF AddNewVersionCommit
  <2>2. col'[c] = [col[c] EXCEPT !.phase = "record", !.version = notice.number + 1]
    BY <1>0, <2>1
  <2>3. QED
    BY <1>0, <1>5, <2>1, <2>2 DEF Item
<1>6. CASE RecordChanges(c)
  BY <1>0, <1>6 DEF RecordChanges, Item
<1>7. CASE OnChangesRecorded(c)
  BY <1>0, <1>7 DEF OnChangesRecorded, Item
<1>8. CASE ReuseAttachment(c) \/ SaveAttachment(c) \/ DownloadFails(c) \/ ItemFails(c)
  BY <1>0, <1>8 DEF ReuseAttachment, SaveAttachment, DownloadFails, ItemFails, Attachment
<1>9. CASE DownloadAttachment(c)
  BY <1>0, <1>9 DEF DownloadAttachment, Item
<1>10. CASE WriteAttachmentFile(c)
  BY <1>0, <1>10 DEF WriteAttachmentFile, Item
<1>11. QED
  BY <1>1, <1>2, <1>3, <1>4, <1>5, <1>6, <1>7, <1>8, <1>9, <1>10
     DEF CollectorStep, CollectNext

\* Enrichments and the source leave collectors alone.
LEMMA OthersStep ==
    ASSUME [Next]_vars, \A c \in Collector : ~CollectorStep(c)
    PROVE  /\ UNCHANGED <<col, disk, changes, notified, mute>>
           /\ faults' = faults \/ faults' = faults + 1
           /\ \/ versions' = versions
              \/ \E e \in Enricher : SaveEnrichmentCommit(e) \/ EnrichFetchFails(e)
  BY DEF Next, CollectorStep, SourceChanges, EnrichNext, EnrichSelect, EnrichFetch,
     SaveEnrichmentBegin, SaveEnrichmentCommit, EnrichFetchFails, EnrichFails, vars

LEMMA NewestNext ==
    TypeOK /\ OwnIsStored /\ WorkIsStored /\ NoticeIsNewest /\ [Next]_vars
        => NoticeIsNewest'
<1> SUFFICES ASSUME TypeOK, OwnIsStored, WorkIsStored, NoticeIsNewest, [Next]_vars
             PROVE  NoticeIsNewest'
  OBVIOUS
<1>0. Count \in Nat
  BY CountType
<1>1. CASE versions' = versions /\ notice' = notice
  BY <1>1 DEF NoticeIsNewest, Count
<1>2. CASE Retouched
  BY <1>0, <1>2 DEF Retouched, Kept, NoticeIsNewest
<1>3. ASSUME NEW c \in Collector, AddNewVersionCommit(c)
      PROVE  NoticeIsNewest'
  <2>1. notice' = [number |-> notice.number + 1, content |-> col[c].doc]
    BY <1>3 DEF AddNewVersionCommit
  <2>2. Count' = Count + 1 /\ versions'[Count'] = NewVersion(col[c].doc)
    BY <1>3, CommitFacts
  <2>3. QED
    BY <1>0, <2>1, <2>2 DEF NewVersion, NoticeIsNewest
<1>4. ASSUME NEW c \in Collector, CreateNotice(c), notice.number = 0
      PROVE  NoticeIsNewest'
  <2>1. /\ Count' = 1 /\ versions'[1] = NewVersion(col[c].doc)
        /\ notice'.number = 1 /\ notice'.content = col[c].doc
    BY <1>4, CreateFacts
  <2>2. versions'[Count'].raw = col[c].doc /\ versions'[Count'].current
    BY <2>1, NewVersionFacts
  <2>3. QED
    BY <2>1, <2>2 DEF NoticeIsNewest
<1>5. QED
  BY <1>1, <1>2, <1>3, <1>4, VersionsChange

LEMMA ItemsNext ==
    TypeOK /\ OwnIsStored /\ WorkIsStored /\ NoticeIsNewest /\ ComparedIsStored /\ [Next]_vars
        => ComparedIsStored' /\ OwnIsStored'
<1> SUFFICES ASSUME TypeOK, OwnIsStored, WorkIsStored, NoticeIsNewest, ComparedIsStored,
                    [Next]_vars
             PROVE  ComparedIsStored' /\ OwnIsStored'
  OBVIOUS
<1>0. /\ Count \in Nat /\ Count' \in Nat /\ Count <= Count'
      /\ \A v \in 1..Count : versions'[v].raw = versions[v].raw
  BY CountType, VersionsStay
<1>1. ASSUME NEW d \in Collector, col'[d] = col[d]
      PROVE  /\ col'[d].phase \in {"compared", "adding", "record", "notify"} =>
                   /\ col'[d].seen.number \in 1..Count'
                   /\ versions'[col'[d].seen.number].raw = col'[d].seen.content
                   /\ Compare(col'[d].seen.content, col'[d].doc)
             /\ col'[d].phase \in {"record", "notify", "attach", "writing", "saving"} =>
                   col'[d].version \in 1..Count'
             /\ col'[d].phase \in {"record", "notify"} =>
                   /\ col'[d].seen.number < col'[d].version
                   /\ versions'[col'[d].version].raw = col'[d].doc
  BY <1>0, <1>1 DEF ComparedIsStored, OwnIsStored
<1>2. CASE \A c \in Collector : ~CollectorStep(c)
  BY <1>1, <1>2, OthersStep DEF ComparedIsStored, OwnIsStored
<1>3. ASSUME NEW c \in Collector, CollectorStep(c)
      PROVE  ComparedIsStored' /\ OwnIsStored'
  <2>1. /\ col'[c].phase \in {"compared", "adding", "record", "notify"} =>
              /\ col'[c].seen.number \in 1..Count'
              /\ versions'[col'[c].seen.number].raw = col'[c].seen.content
              /\ Compare(col'[c].seen.content, col'[c].doc)
        /\ col'[c].phase \in {"record", "notify", "attach", "writing", "saving"} =>
              col'[c].version \in 1..Count'
        /\ col'[c].phase \in {"record", "notify"} =>
              /\ col'[c].seen.number < col'[c].version
              /\ versions'[col'[c].version].raw = col'[c].doc
    <3>1. CASE col'[c].phase \in {"idle", "fetched", "create"}
      BY <3>1
    <3>2. CASE /\ LookUp(c) /\ col'[c].phase = "compared"
               /\ notice.number # 0 /\ Compare(notice.content, col[c].doc)
               /\ col'[c].seen = notice /\ col'[c].doc = col[c].doc
      <4>1. Count > 0 /\ notice.number = Count /\ versions[Count].raw = notice.content
        BY <1>0, <3>2 DEF NoticeIsNewest
      <4>2. QED
        BY <1>0, <3>2, <4>1
    <3>3. CASE /\ CreateNotice(c) /\ notice.number = 0
               /\ col'[c].phase = "attach" /\ col'[c].version = 1
      BY <3>3, CreateFacts
    <3>4. CASE /\ AddNewVersionCommit(c) /\ col'[c].phase = "record"
               /\ col'[c].version = notice.number + 1
               /\ col'[c].seen = col[c].seen /\ col'[c].doc = col[c].doc
      <4>1. /\ col[c].seen.number \in 1..Count
            /\ versions[col[c].seen.number].raw = col[c].seen.content
            /\ Compare(col[c].seen.content, col[c].doc)
        BY <3>4 DEF ComparedIsStored, AddNewVersionCommit
      <4>2. /\ Count' = Count + 1 /\ col'[c].version = Count + 1
            /\ versions'[Count + 1].raw = col[c].doc
        BY <3>4, CommitFacts, NewVersionFacts DEF NoticeIsNewest
      <4>3. QED
        BY <1>0, <3>4, <4>1, <4>2
    <3>5. CASE /\ col'[c].seen = col[c].seen /\ col'[c].doc = col[c].doc
               /\ col'[c].version = col[c].version
               /\ \/ AddNewVersionBegin(c) /\ col'[c].phase = "adding"
                  \/ RecordChanges(c) /\ col'[c].phase = "notify"
                  \/ OnChangesRecorded(c) /\ col'[c].phase = "attach"
                  \/ DownloadAttachment(c) /\ col'[c].phase = "writing"
                  \/ /\ DownloadAttachment(c) \/ WriteAttachmentFile(c)
                     /\ col'[c].phase = "saving"
      <4>1. /\ col'[c].phase = "adding" => col[c].phase = "compared"
            /\ col'[c].phase = "notify" => col[c].phase = "record"
            /\ col'[c].phase = "attach" => col[c].phase = "notify"
            /\ col'[c].phase = "writing" => col[c].phase = "attach"
            /\ col'[c].phase = "saving" => col[c].phase \in {"attach", "writing"}
            /\ col'[c].phase \in {"adding", "notify", "attach", "writing", "saving"}
        BY <3>5 DEF AddNewVersionBegin, RecordChanges, OnChangesRecorded,
           DownloadAttachment, WriteAttachmentFile
      <4>2. QED
        BY <1>0, <3>5, <4>1 DEF ComparedIsStored, OwnIsStored
    <3>6. QED
      BY <1>3, <3>1, <3>2, <3>3, <3>4, <3>5, ItemStep
  <2>2. \A d \in Collector : d # c => col'[d] = col[d]
    BY <1>3, ItemStep
  <2>3. QED
    BY <1>1, <2>1, <2>2 DEF ComparedIsStored, OwnIsStored
<1>4. QED
  BY <1>2, <1>3

LEMMA WorkNext ==
    TypeOK /\ OwnIsStored /\ WorkIsStored /\ NoticeIsNewest /\ [Next]_vars => WorkIsStored'
<1> SUFFICES ASSUME TypeOK, OwnIsStored, WorkIsStored, NoticeIsNewest, [Next]_vars
             PROVE  WorkIsStored'
  OBVIOUS
<1>0. Count \in Nat /\ Count' \in Nat /\ Count <= Count'
  BY CountType, VersionsStay
<1>1. CASE enr' = enr
  BY <1>0, <1>1 DEF WorkIsStored
<1>2. ASSUME NEW e \in Enricher, EnrichNext(e) \/ EnrichFetchFails(e) \/ EnrichFails(e)
      PROVE  WorkIsStored'
  <2>1. /\ \A o \in Enricher : o # e => enr'[o] = enr[o]
        /\ \/ enr'[e].phase = "idle"
           \/ enr[e].phase # "idle" /\ enr'[e].version = enr[e].version
           \/ enr'[e].version \in 1..Count
    <3>1. enr \in [Enricher -> Work] /\ enr[e] \in Work /\ NoWork.phase = "idle"
      BY DEF TypeOK, NoWork
    <3>2. CASE EnrichSelect(e)
      <4>1. PICK v \in 1..Count :
              enr' = [enr EXCEPT ![e] = [NoWork EXCEPT !.phase = "selected", !.version = v]]
        BY <3>2 DEF EnrichSelect
      <4>2. [NoWork EXCEPT !.phase = "selected", !.version = v].version = v
        BY DEF NoWork
      <4>3. QED
        BY <3>1, <4>1, <4>2
    <3>3. CASE EnrichFetch(e)
      BY <3>1, <3>3 DEF EnrichFetch, Work
    <3>4. CASE SaveEnrichmentBegin(e)
      BY <3>1, <3>4 DEF SaveEnrichmentBegin, Work
    <3>5. CASE SaveEnrichmentCommit(e) \/ EnrichFetchFails(e) \/ EnrichFails(e)
      BY <3>1, <3>5 DEF SaveEnrichmentCommit, EnrichFetchFails, EnrichFails
    <3>6. QED
      BY <1>2, <3>2, <3>3, <3>4, <3>5 DEF EnrichNext
  <2>2. QED
    BY <1>0, <2>1 DEF WorkIsStored
<1>3. ASSUME NEW c \in Collector, CollectorStep(c)
      PROVE  enr' = enr
  BY <1>3 DEF CollectorStep, CollectNext, FetchDetail, LookUp, CreateNotice,
     AddNewVersionBegin, AddNewVersionCommit, RecordChanges, OnChangesRecorded,
     ReuseAttachment, DownloadAttachment, WriteAttachmentFile, SaveAttachment,
     DownloadFails, ItemFails
<1>4. QED
  BY <1>1, <1>2, <1>3 DEF Next, CollectorStep, SourceChanges, vars

-----------------------------------------------------------------------------
(* The attachment and its file.                                             *)

LEMMA AttachmentsNext ==
    ASSUME TypeOK, OwnIsStored, WorkIsStored, NoticeIsNewest, FileComesFirst,
           [Next]_vars, NEW v \in 1..Count', versions'[v].attachment = "completed"
    PROVE  disk # "absent"
<1>0. Count \in Nat
  BY CountType
<1>1. CASE versions' = versions
  BY <1>1 DEF FileComesFirst, Count
<1>2. CASE \A c \in Collector : ~CollectorStep(c)
  <2>1. CASE versions' = versions
    BY <1>1, <2>1
  <2>2. ASSUME NEW e \in Enricher, SaveEnrichmentCommit(e) \/ EnrichFetchFails(e)
        PROVE  disk # "absent"
    <3>1. Count' = Count /\ \A w \in 1..Count : versions'[w].attachment = versions[w].attachment
      BY <2>2, SavedLimits, GivenUp DEF Retouched
    <3>2. QED
      BY <3>1 DEF FileComesFirst
  <2>3. QED
    BY <1>2, <2>1, <2>2, OthersStep
<1>3. ASSUME NEW c \in Collector, CollectorStep(c)
      PROVE  disk # "absent"
  <2>1. CASE ReuseAttachment(c) \/ SaveAttachment(c) \/ DownloadFails(c)
    <3>1. PICK r \in {"completed", "failed"} :
            /\ Attachment(c, r)
            /\ r = "completed" => disk # "absent"
      BY <2>1 DEF ReuseAttachment, SaveAttachment, DownloadFails, FileComesFirst
    <3>2. col[c].version \in 1..Count
      BY <2>1 DEF OwnIsStored, ReuseAttachment, SaveAttachment, DownloadFails
    <3>3. versions' = [versions EXCEPT ![col[c].version].attachment = r]
      BY <3>1 DEF Attachment
    <3>4. /\ Count' = Count
          /\ \A w \in 1..Count : versions'[w].attachment
                                   = IF w = col[c].version THEN r ELSE versions[w].attachment
      BY <3>2, <3>3, AttachmentFacts
    <3>5. versions'[v].attachment = IF v = col[c].version THEN r ELSE versions[v].attachment
      BY <3>4
    <3>6. QED
      BY <3>1, <3>4, <3>5 DEF FileComesFirst
  <2>2. CASE AddNewVersionCommit(c)
    <3>1. Count' = Count + 1 /\ versions'[Count + 1].attachment # "completed"
      BY <2>2, CommitFacts, NewVersionFacts DEF None
    <3>2. \A w \in 1..Count : versions'[w].attachment = versions[w].attachment
      BY <2>2, CommitFacts
    <3>3. v \in 1..Count
      BY <1>0, <3>1
    <3>4. QED
      BY <3>2, <3>3 DEF FileComesFirst
  <2>3. CASE CreateNotice(c) /\ notice.number = 0
    <3>1. Count' = 1 /\ versions'[1].attachment # "completed"
      BY <2>3, CreateFacts, NewVersionFacts DEF None
    <3>2. QED
      BY <3>1
  <2>4. QED
    BY <1>1, <1>3, <2>1, <2>2, <2>3 DEF CollectorStep, CollectNext, FetchDetail, LookUp,
       CreateNotice, AddNewVersionBegin, RecordChanges, OnChangesRecorded,
       DownloadAttachment, WriteAttachmentFile, ItemFails
<1>4. QED
  BY <1>2, <1>3

LEMMA FileNext ==
    TypeOK /\ OwnIsStored /\ WorkIsStored /\ NoticeIsNewest /\ FileComesFirst /\ [Next]_vars
        => FileComesFirst'
<1> SUFFICES ASSUME TypeOK, OwnIsStored, WorkIsStored, NoticeIsNewest, FileComesFirst,
                    [Next]_vars
             PROVE  FileComesFirst'
  OBVIOUS
<1>0. faults \in Nat /\ disk \in {"absent", "partial", "intact"}
  BY BoundAssumption DEF TypeOK
<1>1. CASE \A c \in Collector : ~CollectorStep(c)
  <2>1. UNCHANGED <<col, disk>> /\ (faults > 0 => faults' > 0)
    BY <1>0, <1>1, OthersStep
  <2>2. \A v \in 1..Count' : versions'[v].attachment = "completed" => disk # "absent"
    BY AttachmentsNext
  <2>3. QED
    BY <2>1, <2>2 DEF FileComesFirst
<1>2. ASSUME NEW c \in Collector, CollectorStep(c)
      PROVE  FileComesFirst'
  <2>1. disk # "absent" => disk' # "absent"
    BY <1>2 DEF CollectorStep, CollectNext, FetchDetail, LookUp,
       CreateNotice, AddNewVersionBegin, AddNewVersionCommit, RecordChanges,
       OnChangesRecorded, ReuseAttachment, DownloadAttachment, WriteAttachmentFile,
       SaveAttachment, DownloadFails, ItemFails
  <2>2. \A v \in 1..Count' : versions'[v].attachment = "completed" => disk' # "absent"
    BY <2>1, AttachmentsNext
  <2>3. \A d \in Collector : d # c => col'[d] = col[d]
    BY <1>2, ItemStep
  <2>4. CASE DownloadAttachment(c)
    <3>1. \/ disk' = "partial" /\ col' = [col EXCEPT ![c].phase = "writing"]
          \/ disk' = disk /\ disk # "absent" /\ col[c].phase = "attach"
             /\ col' = [col EXCEPT ![c].phase = "saving"] /\ faults' = faults
      BY <2>4 DEF DownloadAttachment
    <3>2. col \in [Collector -> Item] /\ col[c] \in Item
      BY DEF TypeOK
    <3>3. CASE disk' = "partial" /\ col' = [col EXCEPT ![c].phase = "writing"]
      <4>1. col'[c].phase = "writing"
        BY <3>2, <3>3 DEF Item
      <4>2. QED
        BY <2>2, <2>3, <3>3, <4>1 DEF FileComesFirst
    <3>4. CASE disk' = disk /\ disk # "absent" /\ col[c].phase = "attach"
               /\ col' = [col EXCEPT ![c].phase = "saving"] /\ faults' = faults
      BY <2>2, <2>3, <3>4 DEF FileComesFirst
    <3>5. QED
      BY <3>1, <3>3, <3>4
  <2>5. CASE WriteAttachmentFile(c)
    BY <2>2, <2>5 DEF FileComesFirst, WriteAttachmentFile
  <2>6. CASE ItemFails(c) \/ DownloadFails(c)
    <3>1. faults' > 0 /\ disk' = disk /\ col'[c].phase = "idle"
      BY <1>0, <2>6 DEF ItemFails, DownloadFails, Attachment, NoItem, TypeOK
    <3>2. QED
      BY <2>2, <2>3, <3>1 DEF FileComesFirst
  <2>7. CASE ~DownloadAttachment(c) /\ ~WriteAttachmentFile(c) /\ ~ItemFails(c)
             /\ ~DownloadFails(c)
    <3>1. disk' = disk /\ faults' = faults /\ col[c].phase # "writing"
      BY <1>2, <2>7 DEF CollectorStep, CollectNext, FetchDetail, LookUp,
         CreateNotice, AddNewVersionBegin, AddNewVersionCommit, RecordChanges,
         OnChangesRecorded, ReuseAttachment, SaveAttachment
    <3>2. col'[c].phase # "saving"
      BY <1>2, <2>7, ItemStep
    <3>3. QED
      BY <2>2, <2>3, <3>1, <3>2 DEF FileComesFirst
  <2>8. QED
    BY <2>4, <2>5, <2>6, <2>7
<1>3. QED
  BY <1>1, <1>2

-----------------------------------------------------------------------------
(* Owners of current versions.                                              *)

LEMMA OwnersBound ==
    ASSUME TypeOK, NEW owner, Owns(owner)
    PROVE  Cardinality(Current) <= Cardinality(Collector)
<1> DEFINE f == [v \in Current |-> owner[v]]
<1>1. Current \subseteq 1..Count
  BY DEF Current
<1>2. f \in Injection(Current, Collector)
  BY <1>1 DEF Owns, Injection, IsInjective
<1> HIDE DEF f
<1>3. QED
  BY <1>2, CollectorAssumption, FS_Injection

\* While nothing is added, owners stay; who begins to add has seen all.
LEMMA OwnersStay ==
    ASSUME TypeOK, NEW owner, Owns(owner), Count' = Count,
           \A v \in 1..Count : versions'[v].current = versions[v].current,
           \A d \in Collector :
               col'[d].phase = "adding" =>
                   \/ col[d].phase = "adding" /\ col'[d].snap = col[d].snap
                   \/ col'[d].snap = Count
    PROVE  CurrentOwned'
<1>1. Current' = Current /\ Current \subseteq 1..Count
  BY DEF Current
<1>2. Owns(owner)'
  BY <1>1, CountType DEF Owns
<1>3. QED
  BY <1>2 DEF CurrentOwned, Owns

LEMMA OwnedNext ==
    TypeOK /\ OwnIsStored /\ WorkIsStored /\ NoticeIsNewest /\ ComparedIsStored
        /\ CurrentOwned /\ [Next]_vars
        => CurrentOwned'
<1> SUFFICES ASSUME TypeOK, OwnIsStored, WorkIsStored, NoticeIsNewest, ComparedIsStored,
                    CurrentOwned, [Next]_vars
             PROVE  CurrentOwned'
  OBVIOUS
<1>0. Count \in Nat
  BY CountType
<1>1. PICK owner : Owns(owner)
  BY DEF CurrentOwned
<1>2. ASSUME NEW c \in Collector, AddNewVersionCommit(c)
      PROVE  CurrentOwned'
  <2>0. PICK new : new = [v \in 1..(Count + 1) |-> IF v <= Count THEN owner[v] ELSE c]
    OBVIOUS
  <2>1. /\ Count' = Count + 1
        /\ \A v \in 1..Count :
               versions'[v].current = (versions[v].current /\ v > col[c].snap)
    BY <1>2, CommitFacts
  <2>2. col[c].phase = "adding" /\ col[c].snap \in Nat
    BY <1>2 DEF AddNewVersionCommit, TypeOK, Item
  <2>3. ASSUME NEW v \in Current', v # Count + 1
        PROVE  v \in Current /\ new[v] = owner[v] /\ owner[v] \in Collector /\ owner[v] # c
    <3>1. v \in 1..Count /\ versions'[v].current
      BY <1>0, <2>1, <2>3 DEF Current
    <3>2. versions[v].current /\ v > col[c].snap
      BY <2>1, <3>1
    <3>3. v \in Current /\ new[v] = owner[v]
      BY <1>0, <2>0, <3>1, <3>2 DEF Current
    <3>4. owner[v] \in Collector
      BY <1>1, <3>1 DEF Owns
    <3>5. owner[v] # c
      BY <1>1, <2>2, <3>1, <3>2, <3>3 DEF Owns
    <3>6. QED
      BY <3>3, <3>4, <3>5
  <2>4. new[Count + 1] = c /\ Current' \subseteq 1..(Count + 1)
    BY <1>0, <2>0, <2>1 DEF Current
  <2>5. col'[c].phase # "adding" /\ \A d \in Collector : d # c => col'[d] = col[d]
    <3>1. col' = [col EXCEPT ![c] = [col[c] EXCEPT !.phase = "record", !.version = notice.number + 1]]
      BY <1>2 DEF AddNewVersionCommit
    <3>2. col \in [Collector -> Item] /\ col[c] \in Item
      BY DEF TypeOK
    <3>3. QED
      BY <3>1, <3>2 DEF Item
  <2>6. new \in [1..Count' -> Collector]
    BY <1>0, <1>1, <2>0, <2>1 DEF Owns
  <2>7. ASSUME NEW v \in Current', NEW w \in Current', new[v] = new[w]
        PROVE  v = w
    BY <1>1, <2>3, <2>4, <2>7 DEF Owns
  <2>8. ASSUME NEW v \in Current', col'[new[v]].phase = "adding"
        PROVE  v <= col'[new[v]].snap
    BY <1>1, <2>3, <2>4, <2>5, <2>8 DEF Owns
  <2>9. Owns(new)'
    BY <2>6, <2>7, <2>8 DEF Owns
  <2>10. QED
    BY <2>9 DEF CurrentOwned, Owns
<1>3. ASSUME NEW c \in Collector, CreateNotice(c), notice.number = 0
      PROVE  CurrentOwned'
  <2> DEFINE new == [v \in 1..1 |-> c]
  <2>1. Count' = 1 /\ Count = 0
    BY <1>3, CreateFacts DEF NoticeIsNewest
  <2>2. \A d \in Collector : col'[d].phase # "adding"
    <3>1. \A d \in Collector : col[d].phase # "adding"
      BY <2>1 DEF ComparedIsStored
    <3>2. col'[c].phase # "adding" /\ \A d \in Collector : d # c => col'[d] = col[d]
      BY <1>3 DEF CreateNotice, TypeOK, Item
    <3>3. QED
      BY <3>1, <3>2
  <2>3. new \in [1..1 -> Collector] /\ Current' \subseteq 1..1
    BY <2>1 DEF Current
  <2> HIDE DEF new
  <2>4. Owns(new)'
    BY <2>1, <2>2, <2>3 DEF Owns
  <2>5. QED
    BY <2>4 DEF CurrentOwned, Owns
<1>4. CASE /\ \A c \in Collector : ~AddNewVersionCommit(c)
           /\ \A c \in Collector : ~(CreateNotice(c) /\ notice.number = 0)
  <2>1. Count' = Count /\ \A v \in 1..Count : versions'[v].current = versions[v].current
    BY <1>4, VersionsChange DEF Retouched, Kept, Count
  <2>2. ASSUME NEW d \in Collector, col'[d].phase = "adding", col'[d] # col[d]
        PROVE  col'[d].snap = Count
    <3>1. PICK c \in Collector : CollectorStep(c)
      BY <2>2, OthersStep
    <3>2. c = d
      BY <2>2, <3>1, ItemStep
    <3>3. AddNewVersionBegin(d)
      BY <2>2, <3>1, <3>2, ItemStep
    <3>4. QED
      BY <3>3 DEF AddNewVersionBegin, TypeOK, Item
  <2>3. \A d \in Collector :
            col'[d].phase = "adding" =>
                \/ col[d].phase = "adding" /\ col'[d].snap = col[d].snap
                \/ col'[d].snap = Count
    BY <2>2
  <2>4. QED
    BY <1>1, <2>1, <2>3, OwnersStay
<1>5. QED
  BY <1>2, <1>3, <1>4

-----------------------------------------------------------------------------
(* Changes and what is announced.                                           *)

LEMMA ChangesNext ==
    TypeOK /\ OwnIsStored /\ WorkIsStored /\ NoticeIsNewest /\ ComparedIsStored
        /\ ChangesAreTrue /\ RecordedFirst /\ [Next]_vars
        => ChangesAreTrue' /\ RecordedFirst'
<1> SUFFICES ASSUME TypeOK, OwnIsStored, WorkIsStored, NoticeIsNewest, ComparedIsStored,
                    ChangesAreTrue, RecordedFirst, [Next]_vars
             PROVE  ChangesAreTrue' /\ RecordedFirst'
  OBVIOUS
<1>0. /\ Count \in Nat /\ Count' \in Nat /\ Count <= Count'
      /\ \A v \in 1..Count : versions'[v].raw = versions[v].raw
  BY CountType, VersionsStay
<1>1. ASSUME NEW ch \in changes
      PROVE  /\ ch.from \in 1..Count' /\ ch.to \in 1..Count' /\ ch.from < ch.to
             /\ versions'[ch.from].raw = ch.old /\ versions'[ch.to].raw = ch.new
             /\ Compare(ch.old, ch.new)
  BY <1>0 DEF ChangesAreTrue
<1>2. ASSUME NEW c \in Collector, RecordChanges(c)
      PROVE  ChangesAreTrue' /\ RecordedFirst'
  <2> DEFINE new == [from |-> col[c].seen.number, to |-> col[c].version,
                     old |-> col[c].seen.content, new |-> col[c].doc]
  <2>1. /\ col[c].phase = "record" /\ changes' = changes \cup {new}
        /\ versions' = versions
      BY <1>2 DEF RecordChanges
  <2>2. /\ new.from \in 1..Count /\ new.to \in 1..Count /\ new.from < new.to
        /\ versions[new.from].raw = new.old /\ versions[new.to].raw = new.new
        /\ Compare(new.old, new.new)
    BY <2>1 DEF ComparedIsStored, OwnIsStored
  <2>3. ChangesAreTrue'
    BY <1>1, <2>1, <2>2 DEF ChangesAreTrue, Count
  <2>4. /\ col'[c].version = col[c].version
        /\ \A d \in Collector : d # c => col'[d] = col[d]
    BY <1>2 DEF RecordChanges, TypeOK, Item
  <2>5. new.to = col[c].version /\ new \in changes'
    BY <2>1
  <2> HIDE DEF new
  <2>6. RecordedFirst'
    BY <2>1, <2>4, <2>5 DEF RecordedFirst
  <2>7. QED
    BY <2>3, <2>6
<1>3. CASE \A c \in Collector : ~RecordChanges(c)
  <2>1. changes' = changes
    <3>1. ASSUME NEW c \in Collector, CollectorStep(c)
          PROVE  changes' = changes
      BY <1>3, <3>1 DEF CollectorStep, CollectNext, FetchDetail, LookUp,
         CreateNotice, AddNewVersionBegin, AddNewVersionCommit, OnChangesRecorded,
         ReuseAttachment, DownloadAttachment, WriteAttachmentFile, SaveAttachment,
         DownloadFails, ItemFails
    <3>2. QED
      BY <3>1, OthersStep
  <2>2. ASSUME NEW d \in Collector, col'[d].phase = "notify"
        PROVE  col'[d] = col[d]
    <3>1. CASE \A c \in Collector : ~CollectorStep(c)
      BY <3>1, OthersStep
    <3>2. ASSUME NEW c \in Collector, CollectorStep(c)
          PROVE  col'[d] = col[d]
      BY <1>3, <2>2, <3>2, ItemStep
    <3>3. QED
      BY <3>1, <3>2
  <2>3. QED
    BY <1>1, <2>1, <2>2 DEF ChangesAreTrue, RecordedFirst
<1>4. QED
  BY <1>2, <1>3

\* Which of the versions under way are mute, and that there are no others.
MuteKnown ==
    /\ mute \subseteq 1..Count
    /\ \A c \in Collector : col[c].phase \in {"record", "notify"}
                              => (col[c].version \in mute <=> c \notin Announcing)

LEMMA MuteNext ==
    TypeOK /\ OwnIsStored /\ WorkIsStored /\ NoticeIsNewest /\ MuteKnown /\ [Next]_vars
        => MuteKnown'
<1> SUFFICES ASSUME TypeOK, OwnIsStored, WorkIsStored, NoticeIsNewest, MuteKnown, [Next]_vars
             PROVE  MuteKnown'
  OBVIOUS
<1>0. /\ Count \in Nat /\ Count' \in Nat /\ Count <= Count'
      /\ mute \subseteq 1..Count'
  <2>1. Count \in Nat /\ Count' \in Nat /\ Count <= Count'
    BY CountType, VersionsStay
  <2>2. mute \subseteq 1..Count
    BY DEF MuteKnown
  <2> HIDE DEF Count
  <2>3. ASSUME NEW v \in mute PROVE v \in 1..Count'
    BY <2>1, <2>2, <2>3
  <2>4. QED
    BY <2>1, <2>3
<1>1. CASE \A c \in Collector : ~CollectorStep(c)
  <2>1. UNCHANGED <<col, mute>>
    BY <1>1, OthersStep
  <2>2. QED
    BY <1>0, <2>1 DEF MuteKnown
<1>2. ASSUME NEW c \in Collector, AddNewVersionCommit(c)
      PROVE  MuteKnown'
  <2>1. CollectorStep(c) /\ Count = notice.number /\ Count' = Count + 1
    BY <1>2, CommitFacts DEF CollectorStep, CollectNext, NoticeIsNewest
  <2>2. mute' = IF c \in Announcing THEN mute ELSE mute \cup {Count + 1}
    BY <1>2, <2>1 DEF AddNewVersionCommit
  <2>3. /\ \A d \in Collector : d # c => col'[d] = col[d]
        /\ col'[c].phase = "record" /\ col'[c].version = Count + 1
    <3>1. col' = [col EXCEPT ![c] = [col[c] EXCEPT !.phase = "record",
                                                   !.version = notice.number + 1]]
      BY <1>2 DEF AddNewVersionCommit
    <3>2. col \in [Collector -> Item] /\ col[c] \in Item
      BY DEF TypeOK
    <3>3. col'[c] = [col[c] EXCEPT !.phase = "record", !.version = notice.number + 1]
      BY <3>1, <3>2
    <3>4. QED
      BY <2>1, <3>1, <3>2, <3>3 DEF Item
  <2>4. mute' \subseteq 1..Count'
    <3>1. Count + 1 \in 1..Count'
      BY <1>0, <2>1
    <3>2. QED
      BY <1>0, <2>2, <3>1
  <2>5. ASSUME NEW d \in Collector, d # c, col'[d].phase \in {"record", "notify"}
        PROVE  col'[d].version \in mute' <=> d \notin Announcing
    <3>1. col[d].version \in 1..Count
      BY <2>3, <2>5 DEF OwnIsStored
    <3>2. QED
      BY <1>0, <2>2, <2>3, <2>5, <3>1 DEF MuteKnown
  <2>6. col'[c].version \in mute' <=> c \notin Announcing
    BY <1>0, <2>2, <2>3 DEF MuteKnown
  <2>7. QED
    BY <2>4, <2>5, <2>6 DEF MuteKnown
<1>3. ASSUME NEW c \in Collector, CollectorStep(c), ~AddNewVersionCommit(c)
      PROVE  MuteKnown'
  <2>1. mute' = mute
    BY <1>3 DEF CollectorStep, CollectNext, FetchDetail, LookUp, CreateNotice,
       AddNewVersionBegin, RecordChanges, OnChangesRecorded, ReuseAttachment,
       DownloadAttachment, WriteAttachmentFile, SaveAttachment, DownloadFails, ItemFails
  <2>2. ASSUME NEW d \in Collector, col'[d].phase \in {"record", "notify"}
        PROVE  col[d].phase \in {"record", "notify"} /\ col'[d].version = col[d].version
    <3>1. CASE RecordChanges(c)
      BY <2>2, <3>1 DEF RecordChanges, TypeOK, Item
    <3>2. CASE ~RecordChanges(c)
      BY <1>3, <2>2, <3>2, ItemStep
    <3>3. QED
      BY <3>1, <3>2
  <2>3. QED
    BY <1>0, <2>1, <2>2 DEF MuteKnown
<1>4. QED
  BY <1>1, <1>2, <1>3

\* A version that is lost and not under way becomes so by a fault only.
LEMMA SilenceNext ==
    TypeOK /\ OwnIsStored /\ WorkIsStored /\ NoticeIsNewest /\ ComparedIsStored
        /\ RecordedFirst /\ ChangesAreTrue /\ MuteKnown /\ OnlyFaultsSilence /\ [Next]_vars
        => OnlyFaultsSilence'
<1> SUFFICES ASSUME TypeOK, OwnIsStored, WorkIsStored, NoticeIsNewest, ComparedIsStored,
                    RecordedFirst, ChangesAreTrue, MuteKnown, OnlyFaultsSilence,
                    [Next]_vars
             PROVE  OnlyFaultsSilence'
  OBVIOUS
<1>0. /\ Count \in Nat /\ Count' \in Nat /\ Count <= Count' /\ faults \in Nat
  BY BoundAssumption, CountType, VersionsStay DEF TypeOK
<1>1. IsFiniteSet(Lost) /\ Cardinality(Lost) \in Nat
  <2>1. Lost \subseteq 2..Count
    BY DEF Lost
  <2>2. IsFiniteSet(2..Count)
    BY <1>0, FS_Interval
  <2>3. IsFiniteSet(Lost)
    BY <2>1, <2>2, FS_Subset
  <2>4. QED
    BY <2>3, FS_CardinalityType
<1>2. /\ changes \subseteq changes' /\ notified \subseteq notified' /\ mute \subseteq mute'
      /\ (\A v \in notified : Recorded(v) /\ v \notin mute)'
  <2>1. CASE \A c \in Collector : ~CollectorStep(c)
    BY <2>1, OthersStep DEF OnlyFaultsSilence, Recorded
  <2>2. ASSUME NEW c \in Collector, CollectorStep(c)
        PROVE  /\ changes \subseteq changes' /\ notified \subseteq notified'
               /\ mute \subseteq mute'
               /\ \A v \in mute' : v \in mute \/ v = notice.number + 1
               /\ \A v \in notified' : v \in notified
                    \/ (OnChangesRecorded(c) /\ c \in Announcing /\ v = col[c].version
                        /\ mute' = mute)
    BY <2>2 DEF CollectorStep, CollectNext, FetchDetail, LookUp,
       CreateNotice, AddNewVersionBegin, AddNewVersionCommit, RecordChanges,
       OnChangesRecorded, ReuseAttachment, DownloadAttachment, WriteAttachmentFile,
       SaveAttachment, DownloadFails, ItemFails
  <2>3. ASSUME NEW c \in Collector, CollectorStep(c), NEW v \in notified'
        PROVE  Recorded(v)' /\ v \notin mute'
    <3>1. CASE v \in notified
      <4>1. PICK ch \in changes : ch.to = v
        BY <3>1 DEF OnlyFaultsSilence, Recorded
      <4>2. v \in 1..Count /\ v # notice.number + 1
        BY <1>0, <4>1 DEF ChangesAreTrue, NoticeIsNewest
      <4>3. QED
        BY <2>2, <2>3, <3>1, <4>1, <4>2 DEF OnlyFaultsSilence, Recorded
    <3>2. CASE v \notin notified
      <4>1. /\ OnChangesRecorded(c) /\ c \in Announcing /\ v = col[c].version
            /\ mute' = mute /\ col[c].phase = "notify"
        BY <2>2, <2>3, <3>2 DEF OnChangesRecorded
      <4>2. QED
        BY <2>2, <2>3, <4>1 DEF RecordedFirst, MuteKnown, Recorded
    <3>3. QED
      BY <3>1, <3>2
  <2>4. ASSUME NEW c \in Collector, CollectorStep(c)
        PROVE  (\A v \in notified : Recorded(v) /\ v \notin mute)'
    BY <2>3, <2>4
  <2>5. QED
    BY <2>1, <2>2, <2>4, OthersStep
<1>3. ASSUME Lost' \subseteq Lost, faults' >= faults, faults' \in Nat
      PROVE  (Cardinality(Lost) <= faults)'
  <2>1. Cardinality(Lost') \in Nat /\ Cardinality(Lost') <= Cardinality(Lost)
    BY <1>1, <1>3, FS_Subset, FS_CardinalityType
  <2>2. QED
    BY <1>0, <1>1, <1>3, <2>1 DEF OnlyFaultsSilence
<1>4. ASSUME NEW v \in Lost', v \in 2..Count PROVE v \in Lost \/ v \in Busy
  BY <1>2, <1>4 DEF Lost, Recorded
<1>5. CASE \A c \in Collector : ~CollectorStep(c)
  <2>1. UNCHANGED <<col, notified>> /\ (faults' = faults \/ faults' = faults + 1)
    BY <1>5, OthersStep
  <2>2. Count' = Count
    <3>1. ASSUME NEW e \in Enricher, SaveEnrichmentCommit(e) \/ EnrichFetchFails(e)
          PROVE  Count' = Count
      BY <3>1, SavedLimits, GivenUp DEF Retouched
    <3>2. QED
      BY <1>5, <3>1, OthersStep DEF Count
  <2>3. Lost' \subseteq Lost
    BY <1>4, <2>1, <2>2 DEF Lost, Busy
  <2>4. QED
    BY <1>0, <1>2, <1>3, <2>1, <2>3 DEF OnlyFaultsSilence
<1>6. ASSUME NEW c \in Collector, CollectorStep(c)
      PROVE  OnlyFaultsSilence'
  <2>0. col[c] \in Item /\ \A d \in Collector : d # c => col'[d] = col[d]
    BY <1>6, ItemStep DEF TypeOK
  <2>1. CASE ItemFails(c)
    <3>1. Count' = Count /\ faults' = faults + 1
      BY <2>1 DEF ItemFails, Count
    <3>2. Lost' \subseteq Lost \union {col[c].version}
      BY <1>4, <2>0, <3>1 DEF Lost, Busy
    <3>3. /\ IsFiniteSet(Lost \union {col[c].version})
          /\ Cardinality(Lost \union {col[c].version}) <= Cardinality(Lost) + 1
          /\ Cardinality(Lost \union {col[c].version}) \in Nat
      <4>1. /\ IsFiniteSet(Lost \union {col[c].version})
            /\ Cardinality(Lost \union {col[c].version})
                  = IF col[c].version \in Lost THEN Cardinality(Lost)
                    ELSE Cardinality(Lost) + 1
        BY <1>1, FS_AddElement
      <4>2. QED
        BY <1>1, <4>1
    <3>4. /\ Cardinality(Lost') <= Cardinality(Lost \union {col[c].version})
          /\ Cardinality(Lost') \in Nat
      BY <3>2, <3>3, FS_Subset, FS_CardinalityType
    <3>5. Cardinality(Lost) <= faults
      BY DEF OnlyFaultsSilence
    <3>6. Cardinality(Lost') <= faults'
      BY <1>0, <1>1, <3>1, <3>3, <3>4, <3>5
    <3>7. QED
      BY <1>2, <3>6 DEF OnlyFaultsSilence
  <2>2. CASE ~ItemFails(c)
    <3>1. faults' >= faults /\ faults' \in Nat
      BY <1>0, <1>6, <2>2 DEF CollectorStep, CollectNext, FetchDetail, LookUp,
         CreateNotice, AddNewVersionBegin, AddNewVersionCommit, RecordChanges,
         OnChangesRecorded, ReuseAttachment, DownloadAttachment, WriteAttachmentFile,
         SaveAttachment, DownloadFails
    <3>2. SUFFICES Lost' \subseteq Lost
      BY <1>2, <1>3, <3>1 DEF OnlyFaultsSilence
    <3>3. CASE AddNewVersionCommit(c)
      <4>1. /\ Count' = Count + 1
            /\ col'[c].phase = "record" /\ col'[c].version = Count + 1
            /\ col[c].phase = "adding"
        <5>1. col' = [col EXCEPT ![c] = [col[c] EXCEPT !.phase = "record", !.version = notice.number + 1]]
          BY <3>3 DEF AddNewVersionCommit
        <5>2. col \in [Collector -> Item]
          BY DEF TypeOK
        <5>3. col'[c] = [col[c] EXCEPT !.phase = "record", !.version = notice.number + 1]
          BY <5>1, <5>2
        <5>4. col'[c].phase = "record" /\ col'[c].version = notice.number + 1
          BY <2>0, <5>3 DEF Item
        <5>5. QED
          BY <3>3, <5>4, CommitFacts DEF NoticeIsNewest, AddNewVersionCommit
      <4>2. Busy \subseteq Busy' /\ Count + 1 \in Busy'
        BY <2>0, <4>1 DEF Busy
      <4>3. ASSUME NEW v \in Lost' PROVE v \in 2..Count /\ v \notin Busy
        BY <1>0, <4>1, <4>2, <4>3 DEF Lost
      <4>4. QED
        BY <1>4, <4>3
    <3>4. CASE CreateNotice(c) /\ notice.number = 0
      <4>1. Count' = 1
        BY <3>4, CreateFacts
      <4>2. QED
        BY <4>1 DEF Lost
    <3>5. CASE OnChangesRecorded(c)
      <4>1. /\ Count' = Count /\ changes' = changes /\ mute' = mute
            /\ col[c].phase = "notify"
            /\ notified' = IF c \in Announcing THEN notified \cup {col[c].version}
                           ELSE notified
        BY <3>5 DEF OnChangesRecorded, Count
      <4>2. /\ \E ch \in changes' : ch.to = col[c].version
            /\ col[c].version \in notified' \cup mute'
        BY <4>1 DEF RecordedFirst, MuteKnown
      <4>3. ASSUME NEW v \in Lost' PROVE v \in 2..Count /\ v \notin Busy
        <5>1. v \in 2..Count /\ v \notin Busy'
          BY <4>1, <4>3 DEF Lost
        <5>2. v # col[c].version
          BY <4>2, <4>3 DEF Lost, Recorded
        <5>3. QED
          BY <2>0, <5>1, <5>2 DEF Busy
      <4>4. QED
        BY <1>4, <4>3
    <3>6. CASE RecordChanges(c)
      <4>1. /\ Count' = Count
            /\ col'[c].phase = "notify" /\ col'[c].version = col[c].version
        BY <2>0, <3>6 DEF RecordChanges, Count, TypeOK, Item
      <4>2. Busy \subseteq Busy'
        BY <2>0, <4>1 DEF Busy
      <4>3. QED
        BY <1>4, <4>1, <4>2 DEF Lost
    <3>7. CASE /\ ~AddNewVersionCommit(c) /\ ~OnChangesRecorded(c) /\ ~RecordChanges(c)
               /\ ~(CreateNotice(c) /\ notice.number = 0)
      <4>1. ~(col[c].phase \in {"record", "notify"})
        BY <1>6, <2>2, <3>7 DEF CollectorStep, CollectNext, FetchDetail, LookUp,
           CreateNotice, AddNewVersionBegin, ReuseAttachment, DownloadAttachment,
           WriteAttachmentFile, SaveAttachment, DownloadFails
      <4>2. Busy \subseteq Busy'
        BY <2>0, <4>1 DEF Busy
      <4>3. Count' = Count
        <5>1. CASE ReuseAttachment(c) \/ SaveAttachment(c) \/ DownloadFails(c)
          BY <5>1, RetouchedByCollector DEF Retouched
        <5>2. CASE ~(ReuseAttachment(c) \/ SaveAttachment(c) \/ DownloadFails(c))
          BY <1>6, <2>2, <3>7, <5>2 DEF CollectorStep, CollectNext, FetchDetail, LookUp,
             CreateNotice, AddNewVersionBegin, DownloadAttachment, WriteAttachmentFile,
             Count
        <5>3. QED
          BY <5>1, <5>2
      <4>4. QED
        BY <1>4, <4>2, <4>3 DEF Lost
    <3>8. QED
      BY <3>3, <3>4, <3>5, <3>6, <3>7
  <2>3. QED
    BY <2>1, <2>2
<1>7. QED
  BY <1>5, <1>6

-----------------------------------------------------------------------------
(* The theorems.                                                            *)

StoreInv ==
    /\ TypeOK /\ NoticeIsNewest
    /\ ComparedIsStored /\ OwnIsStored /\ WorkIsStored
    /\ CurrentOwned /\ FileComesFirst
    /\ ChangesAreTrue /\ RecordedFirst /\ MuteKnown /\ OnlyFaultsSilence

LEMMA StoreInit == Init => StoreInv
<1> SUFFICES ASSUME Init PROVE StoreInv
  OBVIOUS
<1>1. TypeOK
  BY TypeInit
<1>2. Count = 0 /\ 1..Count = {} /\ 2..Count = {}
  BY DEF Init, Count
<1>3. /\ \A c \in Collector : col[c].phase = "idle"
      /\ \A e \in Enricher : enr[e].phase = "idle"
  BY DEF Init, NoItem, NoWork
<1>4. NoticeIsNewest /\ ComparedIsStored /\ OwnIsStored /\ WorkIsStored /\ FileComesFirst
  BY <1>2, <1>3 DEF Init, NoticeIsNewest, ComparedIsStored, OwnIsStored, WorkIsStored,
     FileComesFirst
<1>5. CurrentOwned
  <2> DEFINE none == [v \in {} |-> v]
  <2>1. Current = {} /\ none \in [{} -> Collector]
    BY <1>2 DEF Current
  <2> HIDE DEF none
  <2>2. Owns(none)
    BY <1>2, <2>1 DEF Owns
  <2>3. QED
    BY <2>2 DEF CurrentOwned, Owns
<1>6. ChangesAreTrue /\ RecordedFirst /\ MuteKnown
  BY <1>3 DEF Init, ChangesAreTrue, RecordedFirst, MuteKnown
<1>7. OnlyFaultsSilence
  <2>1. Lost = {}
    BY <1>2 DEF Lost
  <2>2. QED
    BY <2>1, FS_EmptySet DEF Init, OnlyFaultsSilence
<1>8. QED
  BY <1>1, <1>4, <1>5, <1>6, <1>7 DEF StoreInv

LEMMA Invariance == Spec => []StoreInv
<1>1. StoreInv /\ [Next]_vars => StoreInv'
  <2> SUFFICES ASSUME StoreInv, [Next]_vars PROVE StoreInv'
    OBVIOUS
  <2>1. TypeOK' /\ NoticeIsNewest' /\ ComparedIsStored' /\ OwnIsStored' /\ WorkIsStored'
    BY TypeNext, NewestNext, ItemsNext, WorkNext DEF StoreInv
  <2>2. CurrentOwned' /\ FileComesFirst'
    BY OwnedNext, FileNext DEF StoreInv
  <2>3. ChangesAreTrue' /\ RecordedFirst' /\ MuteKnown' /\ OnlyFaultsSilence'
    BY ChangesNext, MuteNext, SilenceNext DEF StoreInv
  <2>4. QED
    BY <2>1, <2>2, <2>3 DEF StoreInv
<1>2. QED
  BY <1>1, StoreInit, PTL DEF Spec

\* The notice's row, its versions and its file agree, and there are no more
\* current versions than collectors, whichever collectors overlap or fail.
THEOREM StoreAgrees == Spec => []StoreConsistent
<1>1. StoreInv => StoreConsistent
  <2> SUFFICES ASSUME StoreInv PROVE StoreConsistent
    OBVIOUS
  <2>1. PICK owner : Owns(owner)
    BY DEF StoreInv, CurrentOwned
  <2>2. CurrentBounded
    BY <2>1, OwnersBound DEF StoreInv, CurrentBounded, Current
  <2>3. CompletedHasFile
    BY DEF StoreInv, FileComesFirst, CompletedHasFile, TypeOK
  <2>4. QED
    BY <2>2, <2>3 DEF StoreInv, StoreConsistent
<1>2. QED
  BY <1>1, Invariance, PTL

\* Every change row leads from a stored version to a newer one and tells a
\* difference between them.
THEOREM ChangesTrue == Spec => []ChangesAreTrue
<1>1. StoreInv => ChangesAreTrue
  BY DEF StoreInv
<1>2. QED
  BY <1>1, Invariance, PTL

\* All corrections are recorded, and announced if a server's collector stored
\* them, but for one per fault; nothing is announced that is not recorded, nor
\* what a collector without the callback stored.
THEOREM SilenceNeedsFault == Spec => []OnlyFaultsSilence
<1>1. StoreInv => OnlyFaultsSilence
  BY DEF StoreInv
<1>2. QED
  BY <1>1, Invariance, PTL

=============================================================================
