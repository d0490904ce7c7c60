------------------------------- MODULE Schema -------------------------------
(* The steps of migrate.Apply: the embedded schema, then every ensure        *)
(* function in the order of the calls.                                      *)
(*                                                                          *)
(* A step is one Exec, which is one implicit transaction.  Of a table we    *)
(* keep that it exists, of a column that it exists if a later step or a     *)
(* property depends on it, of a CHECK the values it lists.  Values that all *)
(* lists treat alike are one value.  Left out: indexes, triggers, types,    *)
(* NOT NULL, and CHECKs that never change.                                  *)
EXTENDS Naturals, Sequences, SequencesExt

NoList == {}
NoMap == [v \in {} |-> v]

Step(op, needs, makes, on, list, map) ==
    <<[op |-> op, needs |-> needs, makes |-> makes, on |-> on, list |-> list,
       map |-> map]>>

\* CREATE TABLE and ADD COLUMN, IF NOT EXISTS.
Creates(needs, makes) == Step("create", needs, makes, "", NoList, NoMap)
Alters(tables) == Creates(tables, {})

\* CREATE TABLE IF NOT EXISTS with CHECKs.
CreatesChecked(needs, makes, lists) ==
    Step("checked", needs, makes, "", makes, lists)

\* DROP CONSTRAINT IF EXISTS and ADD CONSTRAINT in one Exec.
Widens(table, c, list) == Step("widen", {table}, {}, c, list, NoMap)

\* The same in Execs of their own, with UPDATEs between them.
Drops(table, c) == Step("drop", {table}, {}, c, NoList, NoMap)
Remaps(tables, c, map) == Step("remap", tables, {}, c, NoList, map)
Adds(table, c, list) == Step("add", {table}, {}, c, list, NoMap)

\* INSERT ... ON CONFLICT DO NOTHING, or WHERE NOT EXISTS.
Seeds(table, keys) == Step("seed", {table}, {}, "", keys, NoMap)

\* A column that is not there yet is added, and filled for every row.
Backfills(needs, column) ==
    Step("backfill", needs, {column}, column, NoList, NoMap)

-----------------------------------------------------------------------------
(* CHECKs.  "digest" stands for the event types of the embedded schema,     *)
(* "report" for the later ones that all seven lists have.                   *)

EventsCreated == {"digest"}
EventsNarrow == {"digest", "report"}
EventsFinal == {"digest", "report", "saved_search_deadline"}
DeliveryCreated == {"sent"}
DeliveryFinal == {"sent", "skipped_quota"}
PaymentsCreated == {"paid"}
PaymentsFinal == {"paid", "refunded"}
LookupsCreated == {"find_email"}
LookupsFinal == {"find_email", "contact_inquiry"}
NineStages == {"on_hold", "approval", "preparing"}
SixStages == {"considering", "preparing"}

\* The databases a deployment starts with: one created by sql/001_init.sql,
\* and one from before any of the tables that ensure functions create.
FirstTables ==
    {"data_sources", "raw_documents", "notices", "notice_versions",
     "attachments", "notice_changes", "eligibility_conditions",
     "required_documents", "users", "company_profiles"}

EmbeddedTables ==
    FirstTables \union
    {"users.notifications", "users.phone", "company_members",
     "company_invitations", "document_checklist_items", "company_documents",
     "company_licenses", "company_certifications", "company_financials",
     "company_track_records", "company_personnel",
     "company_intellectual_property", "notice_pipeline_entries",
     "pipeline_checklist_items", "notification_log", "notice_bookmarks",
     "subscriptions", "payment_log", "notice_award_history",
     "company_contacts", "reports"}

EmbeddedChecks ==
    [event |-> EventsCreated, delivery |-> DeliveryCreated,
     payment |-> PaymentsCreated, stage |-> NineStages]

InitSQL == Step("init", {}, EmbeddedTables, "", NoList, EmbeddedChecks)

-----------------------------------------------------------------------------
(* The ensure functions, in the order of migrate.go.                        *)

IntakeSchema ==
    [ContactInquiriesTable |-> Creates({"users"}, {"contact_inquiries"}),
     FeatureUsageTable |-> Creates({"company_profiles"}, {"feature_usage"}),
     AttachmentExtractionWorkerColumns |-> Alters({"attachments"}),
     ProposalDraftTables |->
        Creates({"notices", "notice_versions", "company_profiles", "users"},
                {"proposal_drafts"}),
     NoticeOpeningResultsTable |->
        Creates({"notices"}, {"notice_opening_results"})]

SavedSearchMatchEventType == Widens("notification_log", "event", EventsFinal)

SearchSchema ==
    [SavedSearchesTable |-> Creates({"users"}, {"saved_searches"}),
     SavedSearchMatchEventType |-> SavedSearchMatchEventType,
     NoticeRegionRestrictedColumn |-> Alters({"notices"}),
     NoticeProcurementClassColumns |->
        Creates({"notices"}, {"notices.procurement_class"})]

\* The early stages and on_hold become considering, approval becomes
\* preparing.  Every statement is an Exec of its own.
MigratePipelineStatusesToSixStage ==
    Drops("notice_pipeline_entries", "stage")
    \o Remaps({"notice_pipeline_entries"}, "stage",
              [on_hold |-> "considering"])
    \o Remaps({"notice_pipeline_entries"}, "stage", [approval |-> "preparing"])
    \o Adds("notice_pipeline_entries", "stage", SixStages)

StageSchema ==
    [MigratePipelineStatusesToSixStage |-> MigratePipelineStatusesToSixStage,
     NoticeDatetimeColumns |-> Alters({"notices"})]

SupportSchema ==
    [AttachmentRoleColumn |-> Alters({"attachments"}),
     SupportProgramConditionsTable |->
        Creates({}, {"support_program_conditions"}),
     SupportProgramDetailsTable |-> Creates({}, {"support_program_details"}),
     ChecklistMatchColumns |-> Alters({"pipeline_checklist_items"})]

PipelineSchema ==
    [ResultLookupSchema |->
        Alters({"notice_pipeline_entries", "notice_award_history"}),
     DeadlineSchedulerSchema |->
        Creates({"notice_pipeline_entries"}, {"pipeline_deadline_events"}),
     PipelineAutomationSchema |->
        Creates({"notice_pipeline_entries"}, {"pipeline_status_history"})]

\* The sets of mid names are copied from the notices; a company that named a
\* group gets the mids of that group.
IndustrySchema ==
    [IndustryTaxonomyTable |->
        Creates({"notices", "notices.procurement_class"},
                {"industry_taxonomy"}),
     CompanyIndustryGroupsToMids |->
        Remaps({"company_profiles", "company_profiles.arrays"}, "industry",
               [group |-> "mid"])]

AgreementSchema ==
    [OnboardingCompletedAtColumn |->
        Backfills({"company_profiles"}, "onboarding_completed_at"),
     TermsAgreementsTable |-> Creates({"users"}, {"terms_agreements"}),
     LegalDocumentsTable |-> Creates({}, {"legal_documents"}),
     LegalDocumentsSeed |-> Seeds("legal_documents", {"legal"}),
     InAppNotificationsTable |->
        Creates({"users", "company_profiles", "notices",
                 "notice_pipeline_entries"}, {"in_app_notifications"})]

ReminderSchema ==
    [DocumentExtractionAutomationColumns |->
        Alters({"attachments", "eligibility_conditions",
                "required_documents"}),
     PaymentMethodColumn |-> Alters({"payment_log"}),
     ContactNotificationColumns |-> Alters({"company_contacts"}),
     NotificationDaysBeforeColumn |-> Alters({"company_profiles"}),
     NotificationLogContactIDColumn |->
        Alters({"company_contacts", "notification_log"}),
     CompanyProfileSnapshotColumn |-> Alters({"notice_pipeline_entries"}),
     DeadlineD7EventType |-> Widens("notification_log", "event", EventsNarrow)]

EvidenceSchema ==
    [CompanyFinancialTables |->
        Creates({"company_profiles", "company_documents"},
                {"company_financials", "company_track_records",
                 "company_personnel"}),
     CompanyLicenseTables |->
        Creates({"company_profiles"},
                {"company_documents", "company_licenses",
                 "company_certifications"})]

NoticeSchema ==
    [AISummaryColumns |-> Alters({"notice_versions"}),
     NoticeEnrichmentTables |->
        Creates({"notice_versions"},
                {"notice_participation_regions", "notice_license_limits"}),
     NoticeBookmarksTable |->
        Creates({"notices", "users"}, {"notice_bookmarks"}),
     DocumentChecklistTable |->
        Creates({"company_profiles", "required_documents"},
                {"document_checklist_items"}),
     AIExtractionColumns |->
        Alters({"eligibility_conditions", "required_documents"}),
     StructuredExtractionColumns |->
        Alters({"eligibility_conditions", "required_documents",
                "attachments"}),
     AttachmentTextColumns |-> Alters({"attachments"})]

\* The log and the entries are created with the lists of their day.
ProfileSchema ==
    [CompanyProfileArrayColumns |->
        Creates({"company_profiles"}, {"company_profiles.arrays"}),
     EmployeeCountVerificationColumns |->
        Alters({"company_profiles", "company_documents"}),
     PipelineTables |->
        CreatesChecked({"company_profiles", "notices",
                        "required_documents"},
                       {"notice_pipeline_entries",
                        "pipeline_checklist_items"},
                       [stage |-> SixStages]),
     NotificationColumns |->
        Creates({"users", "notice_pipeline_entries"},
                {"users.notifications"}),
     NotificationLogTable |->
        CreatesChecked({"users", "notices", "notice_pipeline_entries"},
                       {"notification_log"},
                       [event |-> EventsCreated,
                        delivery |-> DeliveryCreated]),
     SMSNotificationColumns |->
        Creates({"users", "notification_log", "notice_pipeline_entries"},
                {"users.phone"})]

BillingSchema ==
    [DocumentCategoryExpansion |->
        Creates({"company_profiles", "company_documents",
                 "company_financials", "company_track_records"},
                {"company_intellectual_property"}),
     BillingTables |->
        CreatesChecked({"company_profiles"},
                       {"subscriptions", "payment_log"},
                       [payment |-> PaymentsCreated])]

\* The owners' seats are inserted for companies that have none.
TeamSchema ==
    [TeamTables |->
        Creates({"company_profiles", "users"},
                {"company_members", "company_invitations"})
        \o Alters({"users.notifications", "users.phone"}),
     AwardHistoryTable |-> Creates({"data_sources"}, {"notice_award_history"}),
     AwardHistoryParticipantCountColumn |-> Alters({"notice_award_history"}),
     SavedSearchesOriginColumn |-> Alters({"saved_searches"}),
     SavedSearchNotificationColumns |->
        Backfills({"saved_searches", "company_contacts", "company_members"},
                  "recipient_contact_ids")]

ReportSchema ==
    [CompanyContactsTable |->
        Creates({"company_profiles"}, {"company_contacts"}),
     ReportsTable |-> Creates({"company_profiles"}, {"reports"}),
     ReportEventTypes |-> Widens("notification_log", "event", EventsNarrow),
     DocumentKindColumn |-> Alters({"company_documents"}),
     CompanyDocumentsExtractionStatusColumns |-> Alters({"company_documents"}),
     AwardedAmountColumn |-> Alters({"notice_pipeline_entries"}),
     PendingPlanColumn |-> Alters({"subscriptions"}),
     LastLoginColumn |-> Alters({"users"}),
     RefundAndCancellationColumns |->
        Alters({"subscriptions"})
        \o Widens("payment_log", "payment", PaymentsFinal)]

SettingsSchema ==
    [TeamInviteEventTypes |-> Widens("notification_log", "event", EventsNarrow),
     PushSubscriptionsTable |-> Creates({"users"}, {"push_subscriptions"}),
     SystemSettingsTable |->
        Creates({}, {"system_settings"})
        \o Seeds("system_settings", {"email_limit"}),
     PlanSettingsSeed |-> Seeds("system_settings", {"plans"}),
     UserDeactivationColumn |-> Alters({"users"}),
     CompanyProfileCustomAILimitColumns |-> Alters({"company_profiles"}),
     NotificationLogSkippedStatus |->
        Widens("notification_log", "delivery", DeliveryFinal),
     OAuthIdentitiesTable |-> Creates({"users"}, {"user_oauth_identities"})]

\* The backfill of the banners only looks at brand_name: it changes a title
\* nobody has edited.
ContentSchema ==
    [BannersTable |-> Creates({}, {"banners"}) \o Seeds("banners", {"banners"}),
     BannersBrandNameTokenBackfill |->
        Alters({"banners", "company_info.brand_name"}),
     PopupsTable |-> Creates({}, {"popups"}),
     AnnouncementsTable |-> Creates({}, {"announcements"}),
     BroadcastMessagesTable |-> Creates({"users"}, {"broadcast_messages"})]

BrandSchema ==
    [AdminBroadcastEventType |->
        Widens("notification_log", "event", EventsNarrow),
     CompanyInfoTable |->
        Creates({}, {"company_info"})
        \o Seeds("company_info", {"company_info"}),
     CompanyInfoBrandNameColumn |->
        Creates({"company_info"}, {"company_info.brand_name"}),
     CompanyInfoMailOrderNumberColumn |-> Alters({"company_info"})]

AuthSchema ==
    [PhoneVerificationTables |-> Creates({"users"}, {"phone_verifications"}),
     AuthLookupAndPasswordResetTables |->
        CreatesChecked({"users"},
                       {"auth_lookup_attempts", "password_reset_tokens"},
                       [lookup |-> LookupsCreated]),
     PasswordResetEventType |->
        Widens("notification_log", "event", EventsNarrow),
     PhoneVerificationRequiredSetting |-> Seeds("system_settings", {"phone"}),
     EmailVerificationTables |->
        Backfills({"users"}, "email_verified_at")
        \o Creates({"users"}, {"email_verification_tokens"}),
     EmailVerificationEventType |->
        Widens("notification_log", "event", EventsNarrow)]

\* ensureAuthLookupKindEmailVerifyResend.
EmailVerifyResendKind ==
    Widens("auth_lookup_attempts", "lookup", LookupsFinal)

LaterColumns ==
    [AuthLookupKindEmailVerifyResend |-> EmailVerifyResendKind,
     BusinessRegistrationColumns |-> Alters({"company_profiles"}),
     CompanyProfileFoundingDateColumn |-> Alters({"company_profiles"}),
     SavedSearchIsActiveColumn |-> Alters({"saved_searches"}),
     AuthLookupKindBizRegExtract |->
        Widens("auth_lookup_attempts", "lookup", LookupsFinal),
     PipelineAssigneeUserIDColumn |->
        Alters({"users", "notice_pipeline_entries"}),
     SubscriptionsPreviousPlanColumns |-> Alters({"subscriptions"}),
     DirectProductionStatusColumn |-> Alters({"company_profiles"})]

-----------------------------------------------------------------------------
(* The order of the calls in Apply.                                         *)

ApplyFirst ==
    <<"CompanyProfileArrayColumns", "AttachmentTextColumns",
      "StructuredExtractionColumns", "AIExtractionColumns",
      "DocumentChecklistTable", "NoticeBookmarksTable", "AISummaryColumns",
      "CompanyLicenseTables", "CompanyFinancialTables",
      "EmployeeCountVerificationColumns", "PipelineTables",
      "NotificationColumns", "NotificationLogTable",
      "SMSNotificationColumns", "DocumentCategoryExpansion", "BillingTables",
      "TeamTables", "AwardHistoryTable", "CompanyContactsTable",
      "DocumentKindColumn", "CompanyDocumentsExtractionStatusColumns",
      "ReportsTable", "ReportEventTypes", "AwardedAmountColumn",
      "PendingPlanColumn", "LastLoginColumn", "CompanyProfileSnapshotColumn",
      "DeadlineD7EventType", "PaymentMethodColumn",
      "ContactNotificationColumns", "NotificationDaysBeforeColumn",
      "NotificationLogContactIDColumn", "InAppNotificationsTable",
      "DocumentExtractionAutomationColumns", "RefundAndCancellationColumns",
      "TeamInviteEventTypes", "PushSubscriptionsTable",
      "SystemSettingsTable", "PlanSettingsSeed",
      "NotificationLogSkippedStatus", "OAuthIdentitiesTable", "BannersTable",
      "PopupsTable", "AnnouncementsTable", "BroadcastMessagesTable",
      "AdminBroadcastEventType", "CompanyInfoTable",
      "CompanyInfoBrandNameColumn", "CompanyInfoMailOrderNumberColumn",
      "BannersBrandNameTokenBackfill">>

ApplyRest ==
    <<"UserDeactivationColumn", "CompanyProfileCustomAILimitColumns",
      "TermsAgreementsTable", "LegalDocumentsTable", "LegalDocumentsSeed",
      "PhoneVerificationTables", "AuthLookupAndPasswordResetTables",
      "PasswordResetEventType", "PhoneVerificationRequiredSetting",
      "EmailVerificationTables", "EmailVerificationEventType",
      "AuthLookupKindEmailVerifyResend", "BusinessRegistrationColumns",
      "AuthLookupKindBizRegExtract", "OnboardingCompletedAtColumn",
      "NoticeRegionRestrictedColumn", "NoticeProcurementClassColumns",
      "IndustryTaxonomyTable", "CompanyIndustryGroupsToMids",
      "MigratePipelineStatusesToSixStage", "PipelineAutomationSchema",
      "NoticeDatetimeColumns", "DeadlineSchedulerSchema",
      "ResultLookupSchema", "ChecklistMatchColumns",
      "SupportProgramDetailsTable", "AttachmentRoleColumn",
      "SupportProgramConditionsTable", "SavedSearchesTable",
      "SavedSearchMatchEventType", "AwardHistoryParticipantCountColumn",
      "SavedSearchesOriginColumn", "PipelineAssigneeUserIDColumn",
      "SubscriptionsPreviousPlanColumns", "SavedSearchNotificationColumns",
      "CompanyProfileFoundingDateColumn", "SavedSearchIsActiveColumn",
      "NoticeEnrichmentTables", "DirectProductionStatusColumn",
      "NoticeOpeningResultsTable", "ProposalDraftTables",
      "AttachmentExtractionWorkerColumns", "FeatureUsageTable",
      "ContactInquiriesTable">>

Ensure ==
    IntakeSchema @@ SearchSchema @@ StageSchema @@ SupportSchema
    @@ PipelineSchema @@ IndustrySchema @@ AgreementSchema @@ ReminderSchema
    @@ EvidenceSchema @@ NoticeSchema @@ ProfileSchema @@ BillingSchema
    @@ TeamSchema @@ ReportSchema @@ SettingsSchema @@ ContentSchema
    @@ BrandSchema @@ AuthSchema @@ LaterColumns

Apply ==
    LET calls == ApplyFirst \o ApplyRest
    IN InitSQL \o FlattenSeq([i \in 1..Len(calls) |-> Ensure[calls[i]]])

-----------------------------------------------------------------------------
(* Steps that only create something have no effect when repeated and never  *)
(* take anything away: they are run together with the step after them.      *)

\* The steps from i to j of Apply as one: what they make, and what must be
\* there before.
Merged(steps, i, j) ==
    [steps[j] EXCEPT
        !.makes = UNION {steps[k].makes : k \in i..j},
        !.needs = UNION {steps[k].needs
                         \ UNION {steps[l].makes : l \in i..(k - 1)} :
                         k \in i..j}]

ApplySteps ==
    LET steps == Apply
        Ends(j) == steps[j].op # "create" \/ j = Len(steps)
        ends == SelectSeq([j \in 1..Len(steps) |-> j], Ends)
    IN  [n \in 1..Len(ends) |->
            Merged(steps, IF n = 1 THEN 1 ELSE ends[n - 1] + 1, ends[n])]
=============================================================================
