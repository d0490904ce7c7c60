----------------------------- MODULE Readiness -----------------------------
(* What a company has told about itself, one notice as it is corrected,    *)
(* extracted and enriched, the checklist of the company's pipeline entry   *)
(* for it, and the judgement, cards and counts made from them.             *)
(*                                                                         *)
(* Two kinds of request are not one transaction: saving the profile copies *)
(* the licences named in it into rows, name by name, and the checklist of  *)
(* an entry is written row by row when the entry is made and again         *)
(* whenever it is viewed.  Each statement is a step here.  A judgement is  *)
(* taken of one state: the statements of one request that read the same    *)
(* company and notice are not interleaved.                                 *)
(*                                                                         *)
(* Left out: the pipeline entry's own status (module Pipeline), how rows   *)
(* get extracted and reviewed (Extraction) or enriched (Collection), the   *)
(* monthly allowance that a notice's page consumes (FeatureUsage), the     *)
(* quota and the retries of analysing an uploaded file, and                *)
(* reevaluateChecklistMatches, which waits for a document to be deleted:   *)
(* nothing in the program deletes one without its company.                 *)
EXTENDS Eligibility

CONSTANTS
    Client,         \* requests that can be in flight at once
    Type,           \* notice types to start from
    Published,      \* versions of the notice, as their sources publish them
    Profile,        \* what the owner may save as the profile
    Answer,         \* rows the owner may register
    Record,         \* contracts the owner may register
    Kind,           \* kinds of document the company may upload
    MaxDay,         \* bound: days that pass
    MaxEdits,       \* bound: what the company registers, saves or marks
    MaxEvents       \* bound: what happens to the notice

\* 001_init.sql: CHECK (notice_type IN (...)).
ASSUME TypeAssumption == Type \subseteq {"procurement", "support_program"}
ASSUME DayAssumption == MaxDay \in Nat \ {0} /\ {MaxEdits, MaxEvents} \subseteq Nat

\* Blank texts included.
Text == STRING \union {""}

Name == [stem : STRING, tail : STRING, words : SUBSET STRING,
         standard : STRING, years : Nat, rank : Nat]

ConditionRow ==
    [category : DOMAIN CategoryType, name : Name, unit : STRING, threshold : Nat]

\* company_licenses and company_certifications.
Table == {"licenses", "certifications"}
EnrichmentStatus == {"", "completed", "not_found", "error"}
LicenceStatus == {"held", "lacking", "unclear"}
LicenceRow == [table : Table, name : Name, status : LicenceStatus, until : Nat]

\* Every region has a province.
Region == Seq(STRING) \ {<<>>}

ASSUME PublishedAssumption ==
    /\ Published # <<>>
    /\ Published \in Seq([docs : SUBSET Name, limits : SUBSET Name,
                          conditions : SUBSET ConditionRow, official : SUBSET Region,
                          industry : STRING, budget : Int])
ASSUME OwnerAssumption ==
    /\ Answer \subseteq LicenceRow
    /\ Profile \subseteq [region : Seq(STRING), groups : SUBSET STRING, size : Text,
                          number : Text, directCert : BOOLEAN,
                          listed : SUBSET (Table \X Name)]

VARIABLES
    company,        \* company_profiles, licences, certificates, records, files
    notice,         \* notices, and the rows of its current version
    day,            \* today
    entered,        \* notice_pipeline_entries has a row for the two
    items,          \* pipeline_checklist_items, in the order of created_at
    marks,          \* document_checklist_items that are checked
    auto,           \* eligibility_conditions that evaluations added
    client,         \* what each request has read and still has to write
    edits, events,  \* counters, for the bounds
    answers,        \* history: the last answer given on each name
    raced,          \* history: names answered while a save was copying them
    lapped          \* history: kinds of request that overlapped another

readinessVars == <<company, notice, day, entered, items, marks, auto, client, edits,
          events, answers, raced, lapped>>
history == <<answers, raced, lapped>>
counters == <<edits, events>>

-----------------------------------------------------------------------------
InFlight(op) == \E c \in Client : client[c].op = op
NoRequest == [op |-> "idle", todo |-> {}, at |-> <<>>, fresh |-> FALSE]
Busy(op, todo) == [op |-> op, todo |-> todo, at |-> <<>>, fresh |-> TRUE]

NewCompany ==
    [region |-> <<>>, groups |-> {}, size |-> "", number |-> "", listed |-> {},
     directCert |-> FALSE, direct |-> "", rows |-> <<>>, records |-> {},
     files |-> {}]

\* A version starts without the rows that extraction and enrichment add.
NewNotice(type, v) ==
    [type |-> type, version |-> v, batch |-> 0,
     industry |-> Published[v].industry, budget |-> Published[v].budget,
     docs |-> {}, conditions |-> {}, enrichment |-> "", official |-> {},
     limits |-> {}]

\* With its attachments extracted, or extracted again: the rows get new ids,
\* which batch stands for.
Extracted(n) ==
    LET made == Published[n.version]
    IN  [n EXCEPT !.batch = @ + 1, !.conditions = made.conditions,
            !.docs = {[version |-> n.version, batch |-> n.batch + 1, name |-> m] :
                        m \in made.docs}]

\* A company that has told nothing yet, and a notice that has been read.
ReadinessInit ==
    /\ company = NewCompany
    /\ notice \in {Extracted(NewNotice(t, 1)) : t \in Type}
    /\ day = 1
    /\ entered = FALSE
    /\ items = <<>>
    /\ marks = {}
    /\ auto = {}
    /\ client = [c \in Client |-> NoRequest]
    /\ edits = 0 /\ events = 0
    /\ answers = <<>>
    /\ raced = {}
    /\ lapped = {}

Edit == edits < MaxEdits /\ edits' = edits + 1 /\ UNCHANGED events
Event == events < MaxEvents /\ events' = events + 1 /\ UNCHANGED edits

-----------------------------------------------------------------------------
(* The company                                                             *)

\* PUT /api/me/company-profile, for a profile that exists: one UPDATE, then
\* syncStructuredFromLegacyArray.  listed holds pairs <<table, name>>.
SaveProfile(c, p) ==
    /\ Edit
    /\ client[c] = NoRequest
    /\ company' = [company EXCEPT !.region = p.region, !.groups = p.groups,
            !.size = p.size, !.number = p.number, !.directCert = p.directCert,
            !.listed = p.listed]
    /\ client' = [client EXCEPT ![c] =
            IF p.listed = {} THEN NoRequest ELSE Busy("save", p.listed)]
    /\ UNCHANGED <<notice, day, entered, items, marks, auto, history>>

\* Mutant: looks for a held licence only.
HasHeldRow(table, name) ==
    \E i \in DOMAIN company.rows :
        /\ company.rows[i].table = table /\ company.rows[i].name = name
        /\ company.rows[i].status = "held"

HasRow(table, name) ==
    \E i \in DOMAIN company.rows :
        company.rows[i].table = table /\ company.rows[i].name = name

Proceed(c, rest) ==
    client' = [client EXCEPT ![c] =
        IF rest = {} THEN NoRequest ELSE [@ EXCEPT !.todo = rest, !.at = <<>>]]

\* Is there a row of that name in that table?
SyncCheck(c) ==
    /\ client[c].op = "save" /\ client[c].at = <<>>
    /\ \E e \in client[c].todo :
        IF HasRow(e[1], e[2]) THEN Proceed(c, client[c].todo \ {e})
        ELSE client' = [client EXCEPT ![c].at = e]
    /\ UNCHANGED <<company, notice, day, entered, items, marks, auto, counters,
                   history>>

\* There was none when it looked: the name becomes a held licence.
SyncInsert(c) ==
    LET e == client[c].at
    IN  /\ client[c].op = "save" /\ e # <<>>
        /\ company' = [company EXCEPT !.rows = Append(@,
                [table |-> e[1], name |-> e[2], status |-> "held", until |-> 0])]
        /\ Proceed(c, client[c].todo \ {e})
        /\ UNCHANGED <<notice, day, entered, items, marks, auto, counters,
                       history>>

\* POST /api/me/licenses and /api/me/certifications, also the answer to a
\* question of the judgement.  There is no check for an older row.
Register(a) ==
    /\ Edit
    /\ company' = [company EXCEPT !.rows = Append(@, a)]
    /\ answers' = [n \in DOMAIN answers \union {a.name} |->
                        IF n = a.name THEN a.status ELSE answers[n]]
    /\ raced' = raced \union {n \in {a.name} : \E c \in Client :
                    client[c].op = "save" /\ client[c].at = <<a.table, n>>}
    /\ UNCHANGED <<notice, day, entered, items, marks, auto, client, lapped>>

SetDirectProductionStatus(status) ==
    /\ Edit
    /\ company' = [company EXCEPT !.direct = status]
    /\ UNCHANGED <<notice, day, entered, items, marks, auto, client, history>>

CreateTrackRecord(r) ==
    /\ Edit
    /\ company' = [company EXCEPT !.records = @ \union {r}]
    /\ UNCHANGED <<notice, day, entered, items, marks, auto, client, history>>

UploadDocument(kind) ==
    /\ Edit
    /\ company' = [company EXCEPT !.files = @ \union {kind}]
    /\ UNCHANGED <<notice, day, entered, items, marks, auto, client, history>>

Tick ==
    /\ day < MaxDay
    /\ day' = day + 1
    /\ UNCHANGED <<company, notice, entered, items, marks, auto, client,
                   counters, history>>

-----------------------------------------------------------------------------
(* The notice                                                              *)

\* A view that is writing rows has read the documents before they change.
Disturb ==
    client' = [c \in Client |-> [client[c] EXCEPT !.fresh = FALSE]]

Correct ==
    /\ Event
    /\ notice.version < Len(Published)
    /\ notice' = NewNotice(notice.type, notice.version + 1)
    /\ Disturb
    /\ UNCHANGED <<company, day, entered, items, marks, auto, history>>

Extract ==
    /\ Event
    /\ notice' = Extracted(notice)
    /\ Disturb
    /\ UNCHANGED <<company, day, entered, items, marks, auto, history>>

\* An administrator rejects an extracted document.
RejectDocument(d) ==
    /\ Event
    /\ notice' = [notice EXCEPT !.docs = @ \ {d}]
    /\ Disturb
    /\ UNCHANGED <<company, day, entered, items, marks, auto, history>>

Enrich(status) ==
    /\ Event
    /\ LET made == Published[notice.version]
           found == status # "error"
       IN  /\ status = "not_found" => made.official = {} /\ made.limits = {}
           /\ status = "completed" => made.official # {} \/ made.limits # {}
           /\ notice' = [notice EXCEPT !.enrichment = status,
                !.official = IF found THEN made.official ELSE @,
                !.limits = IF found THEN made.limits ELSE @]
    /\ UNCHANGED <<company, day, entered, items, marks, auto, client, history>>

-----------------------------------------------------------------------------
(* The checklist of the entry                                              *)

\* docTypeEvidence: the registration number of the profile, or a file of
\* the standard document's kind.
DocTypeEvidence(standard) ==
    IF standard = "number" THEN company.number # "" ELSE standard \in company.files

\* resolveChecklistMatch: the status a new item starts with.
ResolveChecklistMatch(name) ==
    LET licence == MatchLicenseCertByName(company, name, day)
    IN  IF "form" \in name.words THEN "write"
        ELSE IF "vague" \in name.words THEN "check"
        ELSE IF licence # "none" THEN licence
        ELSE IF name.standard = "" THEN "check"
        ELSE IF DocTypeEvidence(name.standard) THEN "held" ELSE "issue"

AddItem(d) ==
    items' = Append(items, [name |-> d.name, document |-> d,
                            status |-> ResolveChecklistMatch(d.name)])

\* The part of POST /api/pipeline that makes the entry, and the list of the
\* documents of the version it found.  There is one entry per notice.
CreateEntry(c) ==
    /\ Edit
    /\ client[c] = NoRequest
    /\ ~entered
    /\ entered' = TRUE
    /\ client' = [client EXCEPT ![c] =
            IF notice.docs = {} THEN NoRequest ELSE Busy("create", notice.docs)]
    /\ UNCHANGED <<company, notice, day, items, marks, auto, history>>

\* One row for each, whatever rows there are.
GenerateItem(c) ==
    /\ client[c].op = "create"
    /\ \E d \in client[c].todo :
        AddItem(d) /\ Proceed(c, client[c].todo \ {d})
    /\ UNCHANGED <<company, notice, day, entered, marks, auto, counters, history>>

\* The process ends, or a statement fails: what was written stays, and the
\* request is over.
Interrupt(c) ==
    /\ client[c].op \in {"save", "create"}
    /\ client' = [client EXCEPT ![c] = NoRequest]
    /\ UNCHANGED <<company, notice, day, entered, items, marks, auto, counters,
                   history>>

\* Mutant: a document with a new id is a new document.
ListedById(d) == \E i \in DOMAIN items : items[i].document = d

Listed(d) ==
    \E i \in DOMAIN items : items[i].document = d \/ items[i].name = d.name

\* GET /api/pipeline/{id}: syncChecklistWithCurrentVersion looks for the
\* current documents that have no item.
ViewEntry(c) ==
    /\ client[c] = NoRequest
    /\ entered
    /\ client' = [client EXCEPT ![c] =
            Busy("view", {d \in notice.docs : ~Listed(d)})]
    /\ lapped' = lapped \union {k \in {"view"} : InFlight("create")}
    /\ UNCHANGED <<company, notice, day, entered, items, marks, auto, counters,
                   answers, raced>>

\* INSERT ... WHERE NOT EXISTS.
SyncItem(c) ==
    /\ client[c].op = "view"
    /\ \E d \in client[c].todo :
        /\ IF Listed(d) THEN UNCHANGED items ELSE AddItem(d)
        /\ client' = [client EXCEPT ![c].todo = @ \ {d}]
    /\ UNCHANGED <<company, notice, day, entered, marks, auto, counters, history>>

\* Mutant: only the id counts.
StaleById == {i \in DOMAIN items : items[i].document \notin notice.docs}

\* markStaleChecklistItems: items whose document the current version does
\* not have, by id or by name.
StaleItems ==
    {i \in DOMAIN items :
        \A d \in notice.docs : d # items[i].document /\ d.name # items[i].name}

\* The answer: the items, the stale ones marked, and the judgement.
FinishView(c) ==
    /\ client[c].op = "view" /\ client[c].todo = {}
    /\ client' = [client EXCEPT ![c] = NoRequest]
    /\ UNCHANGED <<company, notice, day, entered, items, marks, auto, counters,
                   history>>

\* PATCH of an item: the user's own word on it.
UpdateChecklistItem(i, status) ==
    /\ Edit
    /\ items' = [items EXCEPT ![i].status = status]
    /\ UNCHANGED <<company, notice, day, entered, marks, auto, client, history>>

\* The check mark beside a document on the notice's page, kept by its id.
ToggleChecklistItem(d) ==
    /\ Edit
    /\ marks' = IF d \in marks THEN marks \ {d} ELSE marks \union {d}
    /\ UNCHANGED <<company, notice, day, entered, items, auto, client, history>>

-----------------------------------------------------------------------------
(* POST /api/notices/{id}/evaluate                                         *)

\* One category after another; each looks for the condition that stands for
\* it in this version, adds it if there is none, and records a result.
Evaluate(c) ==
    /\ Edit
    /\ client[c] = NoRequest
    /\ client' = [client EXCEPT ![c] = Busy("evaluate",
            {<<notice.version, k>> :
                k \in DOMAIN ScoreNoticeForCompany(notice, company)})]
    /\ lapped' = lapped \union {k \in {"evaluate"} : InFlight("evaluate")}
    /\ UNCHANGED <<company, notice, day, entered, items, marks, auto, answers,
                   raced>>

Turn == [region |-> 1, industry |-> 2, budget |-> 3, overall |-> 1]

FindAutoCondition(c) ==
    /\ client[c].op = "evaluate" /\ client[c].at = <<>>
    /\ \E k \in client[c].todo :
        /\ \A l \in client[c].todo : Turn[k[2]] <= Turn[l[2]]
        /\ IF \E a \in auto : a.of = k THEN Proceed(c, client[c].todo \ {k})
           ELSE client' = [client EXCEPT ![c].at = k]
    /\ UNCHANGED <<company, notice, day, entered, items, marks, auto, counters,
                   history>>

CreateAutoCondition(c) ==
    LET k == client[c].at
    IN  /\ client[c].op = "evaluate" /\ k # <<>>
        /\ auto' = auto \union
                {[of |-> k, nth |-> Cardinality({a \in auto : a.of = k}) + 1]}
        /\ Proceed(c, client[c].todo \ {k})
        /\ UNCHANGED <<company, notice, day, entered, items, marks, counters,
                       history>>

-----------------------------------------------------------------------------
ReadinessNext ==
    \/ \E c \in Client, p \in Profile : SaveProfile(c, p)
    \/ \E c \in Client : \/ SyncCheck(c) \/ SyncInsert(c)
                         \/ CreateEntry(c) \/ GenerateItem(c) \/ Interrupt(c)
                         \/ ViewEntry(c) \/ SyncItem(c) \/ FinishView(c)
                         \/ Evaluate(c) \/ FindAutoCondition(c)
                         \/ CreateAutoCondition(c)
    \/ \E a \in Answer : Register(a)
    \/ \E s \in LicenceStatus : SetDirectProductionStatus(s)
    \/ \E r \in Record : CreateTrackRecord(r)
    \/ \E k \in Kind : UploadDocument(k)
    \/ Tick
    \/ Correct
    \/ Extract
    \/ \E d \in notice.docs : RejectDocument(d) \/ ToggleChecklistItem(d)
    \/ \E s \in EnrichmentStatus \ {""} : Enrich(s)
    \/ \E i \in DOMAIN items, s \in {"held"} : UpdateChecklistItem(i, s)

ReadinessSpec == ReadinessInit /\ [][ReadinessNext]_readinessVars

-----------------------------------------------------------------------------
(* Properties                                                              *)

Judged(versioned) == Judgement(notice, company, day, versioned)

\* The documents whose requirement the judgement looks at under their own
\* name: no earlier name of the same requirement, and no official licence limit.
JudgedByName ==
    LET names == {r.name : r \in {q \in ResolveNoticeRequirements(notice, TRUE) :
                                    q.source = "required_documents"}}
    IN  {d \in notice.docs : DocumentType(d.name) = "" \/ d.name \in names}

HeldToday(name) ==
    \E i \in DOMAIN company.rows :
        /\ company.rows[i].name = name /\ company.rows[i].status = "held"
        /\ company.rows[i].until = 0 \/ company.rows[i].until > day
        /\ \A j \in i + 1 .. Len(company.rows) : company.rows[j].name # name

\* "You can take part" and "you cannot" both need facts.  Ready: the region,
\* the industry and the budget are known and fit, the documents have been
\* read, ask for no direct production or track record, and every licence or
\* certificate judged under its own name is held today.  Not recommended:
\* the official regions are known and none is in the company's province
\* (participation_judgment.go: a wrong FAIL drops a notice that could be won).
GradeIsBacked ==
    LET grade == Judged(TRUE).grade
        byName == JudgedByName
    IN  /\ grade = "ready" =>
            /\ \/ notice.official = {} /\ RegionEnriched(notice)
               \/ \E o \in notice.official : IsPrefix(o, company.region)
            /\ notice.industry \in ExpandCompanyIndustries(company.groups) \ {"other"}
            /\ company.size # "" /\ notice.budget # -1
            /\ company.size = "small" => notice.budget < SmallCap
            /\ notice.docs # {}
            /\ \A d \in notice.docs :
                /\ {"direct", "record"} \intersect d.name.words = {}
                /\ d \in byName /\ {"licence", "certified"} \intersect d.name.words # {}
                        => HeldToday(d.name)
        /\ grade = "notRecommended" =>
            /\ notice.official # {} /\ company.region # <<>>
            /\ \A o \in notice.official : o[1] # company.region[1]

\* The notice is recommended on the dashboard; the judgement on its card.
Recommended ==
    /\ ~entered
    /\ GradeFromCategories(ScoreNoticeForCompany(notice, company)) = "recommended"
RecommendationJudgment == Judged(FALSE)

\* The dashboard's "what blocks a judgement" counts a notice under a fact
\* exactly when the notice's own page waits for the company to give it
\* (dashboard_gaps.go claims the same rules, written a second time), as far as
\* every document is judged under its own name and what else is asked for is
\* a track record: the gaps do not look at other conditions.  They count
\* support programmes too, which no page judges.
GapsMatchJudgement(judgement) ==
    LET gaps == ParticipationGaps(notice, company, day)
        scored == DOMAIN ScoreNoticeForCompany(notice, company)
        unknown == {c.type : c \in {d \in judgement.conditions : d.result = "UNKNOWN"}}
        conditions == {e.category : e \in notice.conditions}
    IN  /\ /\ notice.type = "procurement" /\ JudgedByName = notice.docs
           /\ conditions \subseteq {"record", "general"}
           => gaps \ scored = Questions(judgement)
        /\ gaps \intersect scored \subseteq unknown
        /\ {"licenses", "certifications"} \subseteq DocumentRequirementGaps(company) =>
                \A c \in judgement.conditions :
                    c.type \in {"LICENSE", "CERTIFICATION"} => c.ask # {}

\* Ready or advised against on the page is so in the dashboard's buckets, the
\* pipeline's grades and the recorded evaluation; the card of a recommended
\* notice, judged without the version's limits and conditions, does not
\* promise more than the page as long as there are no conditions.
GradesMatchJudgement(grade) ==
    LET score == ScoreNoticeForCompany(notice, company)
        against == grade = "notRecommended"
    IN  /\ against <=> SummaryBucket(notice, company) = "notRecommended"
        /\ against <=> OverallResult(score) = "not_met"
        /\ against <=> PipelineGrade(notice, company) = "not_recommended"
        /\ grade = "ready" =>
                /\ SummaryBucket(notice, company) = "ready"
                /\ OverallResult(score) = "met"
        /\ notice.conditions = {} /\ Recommended =>
                (RecommendationJudgment.grade = "ready" => grade = "ready")

\* A licence is to be renewed exactly when the list calls it expired or the
\* dashboard announces its last day, and a licence paper that is judged held
\* is shown as held beside the notice.
LicencesMatchJudgement ==
    /\ \A n \in {company.rows[i].name : i \in DOMAIN company.rows} :
        (MatchLicenseCertByName(company, n, day) = "renew")
            <=> \/ ListedExpired(Newest(company, n), day)
                \/ \E i \in LicenseExpiring(company, day, 0) :
                        company.rows[i] = Newest(company, n)
    /\ \A d \in notice.docs :
        /\ "licence paper" \in d.name.words
        /\ MatchLicenseCertByName(company, d.name, day) = "held"
        => d.name \in ShownAsHeld(notice, company)

\* The engines that judge one notice in different files do not contradict
\* each other.
EnginesAgree ==
    LET judgement == Judged(TRUE)
    IN  /\ GapsMatchJudgement(judgement)
        /\ GradesMatchJudgement(judgement.grade)
        /\ LicencesMatchJudgement

\* What the company answered last about a licence stands: saving the profile,
\* which copies an older list of names as held, never overrides it.  Two cases
\* are outside: the answer came between the save's check and its insert, and
\* the name has rows in both tables.
AnswerStands ==
    \A n \in DOMAIN answers \ raced :
        LET tables == {company.rows[i].table : i \in RowsNamed(company, n)}
        IN  \/ Cardinality(tables) > 1
            \/ Newest(company, n).status = answers[n]

\* A view of the entry answers with an unmarked item for every document of
\* the current version, whatever happened before: a checklist that was never
\* finished, corrections, extractions.  Only what changes the documents while
\* the view is writing may be missed.
ViewShowsCurrent ==
    [][\A c \in Client :
        client[c].op = "view" /\ client'[c].op = "idle" /\ client[c].fresh =>
            \A d \in notice.docs :
                \E i \in DOMAIN items \ StaleItems : items[i].name = d.name]_readinessVars

\* Views never list a document twice, however often the same name comes back
\* with new ids; only a view that began while the entry was being made may.
ItemsOnce ==
    "view" \notin lapped => \A i, j \in DOMAIN items : items[i].name = items[j].name => i = j

\* Evaluating again adds no conditions, before and after corrections: only
\* evaluations that overlap can add a second one for a category.
EvaluatedOnce ==
    "evaluate" \notin lapped => \A a, b \in auto : a.of = b.of => a = b

-----------------------------------------------------------------------------
(* Types                                                                   *)

Document == [version : Nat, batch : Nat, name : Name]

Notice ==
    [type : Type, version : DOMAIN Published, batch : Nat, industry : STRING,
     budget : Int, docs : SUBSET Document, conditions : SUBSET ConditionRow,
     enrichment : EnrichmentStatus, official : SUBSET Region, limits : SUBSET Name]

Company ==
    [region : Seq(STRING), groups : SUBSET STRING, size : Text, number : Text,
     listed : SUBSET (Table \X Name), directCert : BOOLEAN, direct : LicenceStatus \union {""},
     rows : Seq(LicenceRow), records : SUBSET Record, files : SUBSET Kind]

ItemStatus == {"held", "renew", "issue", "check", "write"}
Item == [name : Name, document : Document, status : ItemStatus]

\* What a request of each kind goes through.
Assessment == (DOMAIN Published) \X (DOMAIN Turn)
Work == [idle |-> {}, save |-> Table \X Name, create |-> Document,
         view |-> Document, evaluate |-> Assessment]

RequestOK(q) ==
    /\ q = [op |-> q.op, todo |-> q.todo, at |-> q.at, fresh |-> q.fresh]
    /\ q.op \in DOMAIN Work /\ q.todo \subseteq Work[q.op]
    /\ q.at # <<>> => q.at \in q.todo /\ q.op \in {"save", "evaluate"}
    /\ q.fresh \in BOOLEAN

ClientsOK ==
    /\ client = [c \in Client |-> client[c]]
    /\ \A c \in Client : RequestOK(client[c])

\* There is an entry before there is anything of its checklist.
EntryFirst ==
    entered \/ (items = <<>> /\ \A c \in Client : client[c].op \notin {"create", "view"})

ReadinessTypeOK ==
    /\ company \in Company /\ notice \in Notice
    /\ day \in 1..MaxDay
    /\ entered \in BOOLEAN
    /\ items \in Seq(Item)
    /\ auto \subseteq [of : Assessment, nth : Nat] /\ IsFiniteSet(auto)
    /\ ClientsOK /\ EntryFirst
    /\ edits \in 0..MaxEdits /\ events \in 0..MaxEvents
    /\ DOMAIN answers \subseteq Name

\* Overlaps aside, neither views nor evaluations add what is there already.
AddedOnce == ReadinessTypeOK /\ ItemsOnce /\ EvaluatedOnce
=============================================================================
