---------------------------- MODULE Eligibility ----------------------------
(* The rules by which a notice is judged for a company.                    *)
(*                                                                         *)
(* Two engines read the same facts: the score of region, industry and      *)
(* budget (scoring.go, eligibility.go), and the participation judgement    *)
(* (participation_judgment.go), which adds the licences, certificates,     *)
(* direct production and track record that the notice's documents and      *)
(* conditions ask for.  The dashboard counts, per notice, which facts the  *)
(* company has not given (dashboard_gaps.go).                              *)
(*                                                                         *)
(* A notice is its current version; a NULL or blank text is "" or <<>>, a  *)
(* NULL number -1.  A region is <<province>> or <<province, county>>.  A   *)
(* document, licence or condition name is a record of what the code looks  *)
(* at: the stem and the tail left by cutting a known suffix off, the       *)
(* keywords the text contains, the standard document it is listed under,   *)
(* the "recent N years" it mentions, and its place in ORDER BY             *)
(* document_name.  The regions that the resolver also lists are left out   *)
(* (the judgement takes them from the score), and so are the reasons       *)
(* written for the reader, except which of its outcomes a comparison of    *)
(* the track record has.                                                   *)
EXTENDS Integers, FiniteSets, Sequences, SequencesExt, FiniteSetsExt

CONSTANTS
    Class,          \* legacy industry group |-> the procurement classes in it
    SmallCap        \* smallBusinessBudgetCap

ASSUME SmallCapAssumption == SmallCap \in Int

\* A company's rows of company_licenses and company_certifications, in the
\* order of created_at: [table, name, status, until], until 0 for no date.
\* An expiry date is a DATE, midnight when it begins; day is today, some
\* time after midnight, so on its last day a licence counts as expired.
Expired(row, day) == row.until # 0 /\ row.until <= day

\* The list of licences compares dates instead, and calls it valid that day.
ListedExpired(row, day) ==
    row.status = "held" /\ row.until # 0 /\ row.until < day

-----------------------------------------------------------------------------
(* Region, industry and budget                                             *)

Known(result) == [result |-> result, gap |-> ""]
Lacking(side) == [result |-> "insufficient_data", gap |-> side]

MatchCompanyRegion(official, region) ==
    IF \E o \in official : IsPrefix(o, region) THEN "full"
    ELSE IF \E o \in official : Head(o) = Head(region) THEN "province"
    ELSE "none"

RegionEnriched(notice) == notice.enrichment \in {"completed", "not_found"}

ScoreRegion(notice, company) ==
    IF notice.official = {}
    THEN IF RegionEnriched(notice) THEN Known("met") ELSE Lacking("notice")
    ELSE IF company.region = <<>> THEN Lacking("company")
    ELSE Known([full |-> "met", province |-> "needs_confirmation", none |-> "not_met"]
                [MatchCompanyRegion(notice.official, company.region)])

\* A group chosen before the classes existed stands for its classes.
ExpandCompanyIndustries(chosen) ==
    UNION {IF g \in DOMAIN Class THEN Class[g] ELSE {g} : g \in chosen}

\* 'other' is the unclassified rest: meeting there proves nothing.
ScoreIndustry(notice, company) ==
    IF notice.industry = "" THEN Lacking("notice")
    ELSE IF company.groups = {} THEN Lacking("company")
    ELSE IF notice.industry \in ExpandCompanyIndustries(company.groups) \ {"other"}
    THEN Known("met")
    ELSE Known("needs_confirmation")

ScoreBudgetSize(notice, company) ==
    IF notice.budget = -1 THEN Lacking("notice")
    ELSE IF company.size = "" THEN Lacking("company")
    ELSE IF company.size = "small" /\ notice.budget >= SmallCap
    THEN Known("needs_confirmation")
    ELSE Known("met")

SupportProgramScore == [overall |-> Known("needs_confirmation")]

\* Function category |-> result and the side that lacks the fact.
ScoreNoticeForCompany(notice, company) ==
    IF notice.type = "support_program" THEN SupportProgramScore
    ELSE [region |-> ScoreRegion(notice, company),
          industry |-> ScoreIndustry(notice, company),
          budget |-> ScoreBudgetSize(notice, company)]

Results(score) == {score[k].result : k \in DOMAIN score}

BucketFromCategories(score) ==
    IF "not_met" \in Results(score) THEN "not_recommended"
    ELSE IF Results(score) = {"met"} THEN "ready"
    ELSE "needs_review"

GradeFromCategories(score) ==
    IF "not_met" \in Results(score) THEN "not_recommended"
    ELSE IF "insufficient_data" \in Results(score) THEN "needs_confirmation"
    ELSE IF "needs_confirmation" \in Results(score) THEN "conditional"
    ELSE "recommended"

\* The grade beside an entry of the pipeline list.
PipelineGrade(notice, company) ==
    GradeFromCategories(ScoreNoticeForCompany(notice, company))

\* What POST /api/notices/{id}/evaluate answers.
OverallResult(score) ==
    IF "not_met" \in Results(score) THEN "not_met"
    ELSE IF Results(score) = {"met"} THEN "met"
    ELSE "needs_confirmation"

-----------------------------------------------------------------------------
(* What a notice asks for                                                  *)

Suffix == {"certificate", "registration", "report", "licence paper",
           "certificate paper", "licence", "copy"}

NormalizeRequirementName(name) ==
    IF name.tail \in Suffix /\ name.stem # "" THEN <<name.stem, "">>
                                              ELSE <<name.stem, name.tail>>

DocumentType(name) ==
    IF "direct" \in name.words THEN "DIRECT_PRODUCTION"
    ELSE IF "record" \in name.words THEN "TRACK_RECORD"
    ELSE IF "licence" \in name.words THEN "LICENSE"
    ELSE IF "certified" \in name.words THEN "CERTIFICATION"
    ELSE ""

\* mapEligibilityCategoryToReqType.  What the analyzer files under 'general'
\* asks for nothing here; so does the budget row of an evaluation, whose
\* category is spelt differently.
CategoryType ==
    [region |-> "REGION", industry |-> "INDUSTRY", licence |-> "LICENSE",
     certificate |-> "CERTIFICATION", direct |-> "DIRECT_PRODUCTION",
     record |-> "TRACK_RECORD", size |-> "COMPANY_SIZE", budget |-> "",
     general |-> ""]

SourcePriority ==
    [eligibility_conditions |-> 0, license_limits |-> 1, required_documents |-> 2]

Requirement(type, key, name, source, unit, threshold) ==
    [type |-> type, key |-> key, name |-> name, source |-> source,
     unit |-> unit, threshold |-> threshold]

\* A document's name says nothing of amounts; direct production and track
\* record documents are one requirement each, whatever they are called.
FromDocuments(notice) ==
    {LET type == DocumentType(d.name)
     IN  Requirement(type,
                     IF type \in {"DIRECT_PRODUCTION", "TRACK_RECORD"}
                     THEN <<type, "">> ELSE NormalizeRequirementName(d.name),
                     d.name, "required_documents", "", 0)
        : d \in {e \in notice.docs : DocumentType(e.name) # ""}}

FromLimits(notice) ==
    {Requirement("LICENSE", NormalizeRequirementName(l), l, "license_limits", "", 0)
        : l \in notice.limits}

FromConditions(notice) ==
    {Requirement(CategoryType[e.category], NormalizeRequirementName(e.name), e.name,
                 "eligibility_conditions", e.unit, e.threshold)
        : e \in {f \in notice.conditions : CategoryType[f.category] # ""}}

\* r stands before s when both are names of one requirement.
Supersedes(r, s) ==
    /\ <<r.type, r.key>> = <<s.type, s.key>>
    /\ \/ SourcePriority[r.source] < SourcePriority[s.source]
       \/ r.source = s.source /\ r.name.rank < s.name.rank

\* Without a version the limits and conditions are not read.
ResolveNoticeRequirements(notice, versioned) ==
    LET all == FromDocuments(notice)
                 \union (IF versioned
                         THEN FromLimits(notice) \union FromConditions(notice)
                         ELSE {})
    IN  {r \in all : ~\E s \in all : Supersedes(s, r)}

JudgmentConsumable(requirements) ==
    {r \in requirements :
        r.source \in {"required_documents", "eligibility_conditions"}}

-----------------------------------------------------------------------------
(* The company's side                                                      *)

RowsNamed(company, name) ==
    {i \in DOMAIN company.rows : company.rows[i].name = name}

Newest(company, name) == company.rows[Max(RowsNamed(company, name))]

\* Mutant: expiry is the calendar's business only.
MatchIgnoringExpiry(company, name, day) ==
    IF RowsNamed(company, name) = {} THEN "none"
    ELSE [held |-> "held", lacking |-> "issue", unclear |-> "check"]
            [Newest(company, name).status]

\* Licences and certificates together, exact name, the newest row decides.
MatchLicenseCertByName(company, name, day) ==
    LET row == Newest(company, name)
    IN  IF RowsNamed(company, name) = {} THEN "none"
        ELSE IF row.status = "held" /\ Expired(row, day) THEN "renew"
        ELSE [held |-> "held", lacking |-> "issue", unclear |-> "check"][row.status]

\* The newer column first; the older flag's FALSE may also mean "not asked".
CompanyDirectProductionStatus(company) ==
    IF company.direct # "" THEN company.direct
    ELSE IF company.directCert THEN "held"
    ELSE "unclear"

\* ask: names the user is asked about; note: what a comparison came to.
Condition(type, result, ask) ==
    [type |-> type, result |-> result, ask |-> ask, note |-> ""]

CategoryCondition == [met |-> "PASS", not_met |-> "FAIL",
    needs_confirmation |-> "REVIEW", insufficient_data |-> "UNKNOWN"]

\* Never FAIL: the name of a document does not say that it is compulsory.
\* A name the company has no row of is one the user can be asked about.
NamesCondition(type, names, company, day) ==
    LET state(n) == MatchLicenseCertByName(company, n, day)
        held == \A n \in names : state(n) = "held"
    IN  Condition(type, IF held THEN "PASS" ELSE "REVIEW",
                  {n \in names : state(n) = "none"})

DirectCondition(company) ==
    Condition("DIRECT_PRODUCTION", "REVIEW",
        IF CompanyDirectProductionStatus(company) = "unclear"
        THEN {"direct production"} ELSE {})

\* The strictest amount and number of contracts asked for, 0 for none.
TrackRecordAmountThreshold(reqs) ==
    Max({0} \union {r.threshold : r \in {q \in reqs : q.unit # "contracts"}})
TrackRecordCountThreshold(reqs) ==
    Max({0} \union {r.threshold : r \in {q \in reqs : q.unit = "contracts"}})

\* The first requirement that mentions "recent N years".
TrackRecordRecentYears(reqs) ==
    LET dated == {r \in reqs : r.name.years > 0}
    IN  IF dated = {} THEN 0
        ELSE (CHOOSE r \in dated :
                \A s \in dated : r.name.rank <= s.name.rank).name.years

\* The amount may be met by one contract and the period by another.
TrackRecordReason(reqs, company, day) ==
    LET amount == TrackRecordAmountThreshold(reqs)
        count == TrackRecordCountThreshold(reqs)
        years == TrackRecordRecentYears(reqs)
        amounts == {r.amount : r \in company.records} \ {-1}
        periodOK == years = 0 \/ \E r \in company.records : r.on # 0 /\ r.on >= day - years
    IN  IF company.records = {} THEN "unregistered"
        ELSE IF amount > 0 /\ amounts # {} /\ Max(amounts) < amount THEN "amount short"
        ELSE IF ~periodOK THEN "period short"
        ELSE IF Cardinality(company.records) < count THEN "count short"
        ELSE IF amount > 0 /\ amounts = {} THEN "cannot tell"
        ELSE "seems met"

\* Never PASS or FAIL: both sides of the comparison are weak evidence.
TrackCondition(reqs, company, day) ==
    [Condition("TRACK_RECORD", "REVIEW", {})
        EXCEPT !.note = TrackRecordReason(reqs, company, day)]

-----------------------------------------------------------------------------
(* The judgement                                                           *)

\* buildParticipationJudgment: the three scores, then one condition for each
\* type of requirement, then "the documents are not analysed yet".
JudgedConditions(notice, company, day, versioned) ==
    LET score == ScoreNoticeForCompany(notice, company)
        reqs == JudgmentConsumable(ResolveNoticeRequirements(notice, versioned))
        of(type) == {r \in reqs : r.type = type}
        names(type) == {r.name : r \in of(type)}
    IN  {Condition(k, CategoryCondition[score[k].result], {}) : k \in DOMAIN score}
        \union {NamesCondition(type, names(type), company, day) :
                    type \in {t \in {"LICENSE", "CERTIFICATION"} : of(t) # {}}}
        \union (IF of("DIRECT_PRODUCTION") = {} THEN {}
                ELSE {DirectCondition(company)})
        \union (IF of("TRACK_RECORD") = {} THEN {}
                ELSE {TrackCondition(of("TRACK_RECORD"), company, day)})
        \union (IF notice.docs # {} THEN {}
                ELSE {Condition("UNREAD", "UNKNOWN", {})})

\* finalizeJudgment: certificates are the one SOFT condition.
FinalizeJudgment(conditions) ==
    IF \E c \in conditions : c.result = "FAIL" /\ c.type # "CERTIFICATION"
    THEN "notRecommended"
    ELSE IF \E c \in conditions : c.result \in {"REVIEW", "UNKNOWN"} THEN "needsReview"
    ELSE "ready"

\* buildJudgmentForNotice and its callers: support programmes are not judged.
NoJudgement == [grade |-> "none", conditions |-> {}]

Judgement(notice, company, day, versioned) ==
    LET conditions == JudgedConditions(notice, company, day, versioned)
    IN  IF notice.type # "procurement" THEN NoJudgement
        ELSE [grade |-> FinalizeJudgment(conditions), conditions |-> conditions]

\* The conditions that wait for something the company has not told: a
\* question to answer, or a track record to register.
Questions(judgement) ==
    {c.type : c \in {d \in judgement.conditions :
                        d.ask # {} \/ d.note = "unregistered"}}

-----------------------------------------------------------------------------
(* What the dashboard counts                                               *)

LicenseCertGapState(company, name, day) ==
    LET row == Newest(company, name)
    IN  IF RowsNamed(company, name) = {} THEN "company_gap"
        ELSE IF row.status = "held" /\ ~Expired(row, day) THEN "met"
        ELSE "not_met"

\* classifyNoticeDocRequirements: every name, not one for each requirement.
DocumentsOfType(notice, type) ==
    {d.name : d \in {e \in notice.docs : DocumentType(e.name) = type}}

AnyCompanyGap(company, names, day) ==
    \E n \in names : LicenseCertGapState(company, n, day) = "company_gap"

\* computeParticipationGapCounts, for one notice.
ParticipationGaps(notice, company, day) ==
    LET score == ScoreNoticeForCompany(notice, company)
        asksRecord ==
            \/ DocumentsOfType(notice, "TRACK_RECORD") # {}
            \/ \E e \in notice.conditions : e.category = "record"
    IN  {k \in DOMAIN score : score[k].gap = "company"}
        \union {type \in {"LICENSE", "CERTIFICATION"} :
                    AnyCompanyGap(company, DocumentsOfType(notice, type), day)}
        \union {type \in {"DIRECT_PRODUCTION"} :
                    /\ DocumentsOfType(notice, type) # {}
                    /\ CompanyDirectProductionStatus(company) = "unclear"}
        \union {type \in {"TRACK_RECORD"} : asksRecord /\ company.records = {}}

\* Mutant: what the company has not told comes first.
GapsFirst(notice, company) ==
    LET score == ScoreNoticeForCompany(notice, company)
    IN  IF \E k \in DOMAIN score : score[k].gap = "company" THEN "insufficientData"
        ELSE IF "not_met" \in Results(score) THEN "notRecommended"
        ELSE IF BucketFromCategories(score) = "ready" THEN "ready"
        ELSE "needsReview"

\* computeEligibilityBucketSummary: the bucket one notice is counted in.
SummaryBucket(notice, company) ==
    LET score == ScoreNoticeForCompany(notice, company)
    IN  IF "not_met" \in Results(score) THEN "notRecommended"
        ELSE IF \E k \in DOMAIN score : score[k].gap = "company" THEN "insufficientData"
        ELSE IF BucketFromCategories(score) = "ready" THEN "ready"
        ELSE "needsReview"

\* computeDocumentRequirementGaps: categories for which the company has not
\* a single row, whatever its name and status.
DocumentRequirementGaps(company) ==
    {g \in {"licenses", "certifications"} :
        ~\E i \in DOMAIN company.rows : company.rows[i].table = g}
    \union {g \in {"records"} : company.records = {}}
    \union {g \in {"direct"} : ~company.directCert}

\* fetchLicenseExpiringItems: held rows whose date is today or comes soon; a
\* row that a newer one replaced is still listed.
LicenseExpiring(company, day, window) ==
    {i \in DOMAIN company.rows :
        /\ company.rows[i].status = "held"
        /\ company.rows[i].until \in day .. day + window}

\* matchNoticeLicenseRequirements: names shown as held on a notice's page.
\* Unlike the judgement it does not look at the expiry date.
ShownAsHeld(notice, company) ==
    {n \in {d.name : d \in notice.docs} :
        /\ n.words \intersect {"licence paper", "certified"} # {}
        /\ RowsNamed(company, n) # {}
        /\ Newest(company, n).status = "held"}
=============================================================================
