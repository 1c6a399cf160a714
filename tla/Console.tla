------------------------------ MODULE Console ------------------------------
(***************************************************************************)
(* The pages of the console that keep their data in the query cache: what  *)
(* each reads, which mutations its controls send, whether a control is     *)
(* disabled while its mutation is pending, and what the mutation's         *)
(* onSuccess invalidates.  QueryCache gives them their behaviour.          *)
(*                                                                         *)
(* A resource is named by the query that lists it and stands for the rows  *)
(* behind the endpoints of services/dashboard.ts that act on it.           *)
(***************************************************************************)
EXTENDS QueryCache

accounts == "admin-accounts"
webhooks == "admin-webhooks"
templates == "admin-templates"
plans == "plans"
adminPlans == "admin-plans"             \* the same rows, under the key of PlansPage
breakers == "circuit-breakers"
deadLetters == "dead-letters"
fraudFlags == "fraud-flags"
smishingFlags == "smishing-flags"       \* the part of them that is about content
smishingCount == "smishing-flags-count"
paymentConfigs == "payment-configs"
enabledConfigs == "enabled-payment-configs"
paymentRequests == "my-payment-requests"
subscriptionRequests == "admin-subscription-requests"
mySubscriptions == "my-subscription-requests"
kyc == "admin-kyc"
features == "feature-catalog"
aiConfigs == "ai-configs"
aiRequests == "ai-change-requests"
releases == "admin-releases"
memberWebhooks == "member-webhooks"
memberTemplates == "member-templates"
memberDevices == "member-devices"
onlineDevices == "member-devices-online"
memberMessages == "member-messages"
dashboardStats == "dashboard-stats"
dashboardDays == "dashboard-analytics"
analytics == "admin-analytics"
bi == "admin-bi"
memberDashboard == "member-dashboard"
memberAnalytics == "member-analytics"

\* a mutation that changes rows of ws and invalidates is
Mutation(name, ws, is) == [name |-> name, writes |-> ws, invalidates |-> is]

\* Button and ConfirmDialog are disabled while loading; a bare button or a
\* key handler is not.
Waiting(m, ms) == [sends |-> m, waits |-> ms]
Once(m) == Waiting(m, {m})
Free(m) == Waiting(m, {})

Page(reads, controls) == [reads |-> reads, controls |-> controls]

-----------------------------------------------------------------------------
(* Webhooks of the administrator.                                          *)

WebhookCreate == Mutation("webhook create", {webhooks}, {webhooks})
WebhookDelete == Mutation("webhook delete", {webhooks}, {webhooks})
WebhookBulkDelete == Mutation("webhook bulk delete", {webhooks}, {webhooks})
WebhookRotate == Mutation("webhook rotate", {webhooks}, {webhooks})
WebhookToggle == Mutation("webhook toggle", {webhooks}, {webhooks})
WebhookRows == {Free(WebhookToggle)}
WebhookForm == {Once(WebhookCreate)}
WebhookSelection == {Once(WebhookBulkDelete)}
WebhookDialogs == {Once(WebhookDelete), Once(WebhookRotate)}
WebhooksPage ==
    Page({webhooks}, WebhookRows \cup WebhookForm \cup WebhookSelection \cup WebhookDialogs)

(* Templates of the administrator.                                         *)

TemplateSave == Mutation("template save", {templates}, {templates})
TemplateDelete == Mutation("template delete", {templates}, {templates})
TemplateApprove == Mutation("template approve", {templates}, {templates})
TemplateReject == Mutation("template reject", {templates}, {templates})
TemplateBulkDelete == Mutation("template bulk delete", {templates}, {templates})
TemplateBulkApprove == Mutation("template bulk approve", {templates}, {templates})
TemplateBulkReject == Mutation("template bulk reject", {templates}, {templates})
TemplateRows == {Once(TemplateApprove), Once(TemplateReject)}
TemplateForm == {Once(TemplateSave)}
TemplateSelection == {Once(TemplateBulkDelete), Once(TemplateBulkApprove), Once(TemplateBulkReject)}
TemplateDialogs == {Once(TemplateDelete)}
TemplatesPage ==
    Page({templates}, TemplateRows \cup TemplateForm \cup TemplateSelection \cup TemplateDialogs)

(* Flags.  The smishing page reads the constant filteredFlags before its   *)
(* declaration: every render throws, so it reads nothing and offers        *)
(* nothing; its mutations are not reachable.                               *)

FlagReview == Mutation("flag review", {fraudFlags, smishingFlags, smishingCount}, {fraudFlags})
FraudRows == {Once(FlagReview)}
FraudFlagsPage == Page({fraudFlags}, FraudRows)
SmishingFlagsPage == Page({}, {})

(* Plans, features, payment settings.                                      *)

PlanSave == Mutation("plan save", {adminPlans, plans}, {adminPlans})
PlanDelete == Mutation("plan delete", {adminPlans, plans}, {adminPlans})
PlanForm == {Once(PlanSave)}
PlanDialog == {Once(PlanDelete)}
\* the suggestions of its form are the active features, under the key of all
PlansPage == Page({adminPlans, features}, PlanForm \cup PlanDialog)

FeatureCreate == Mutation("feature create", {features}, {features})
FeatureToggle == Mutation("feature toggle", {features}, {features})
FeatureDelete == Mutation("feature delete", {features}, {features})
FeatureRows == {Free(FeatureToggle)}
FeatureModal == {Once(FeatureCreate), Free(FeatureCreate)}  \* the button; Enter
FeatureDialog == {Once(FeatureDelete)}
FeatureCatalogPage == Page({features}, FeatureRows \cup FeatureModal \cup FeatureDialog)

PaymentConfigSave ==
    Mutation("payment config save", {paymentConfigs, enabledConfigs}, {paymentConfigs})
PaymentConfigForm == {Once(PaymentConfigSave)}
BillingSettingsPage == Page({paymentConfigs}, PaymentConfigForm)

BillingPage == Page({plans}, {})

\* upgradeMutation has no control
PaymentRequest == Mutation("payment request", {paymentRequests}, {paymentRequests})
UpgradeForm == {Once(PaymentRequest)}
MemberUpgradePage == Page({plans, enabledConfigs}, UpgradeForm)
MemberPaymentRequestsPage == Page({paymentRequests}, {})
MemberSubscriptionRequestsPage == Page({mySubscriptions}, {})

(* Accounts and reviews.                                                   *)

AccountSuspend == Mutation("account suspend", {accounts}, {accounts})
AccountActivate == Mutation("account activate", {accounts}, {accounts})
AccountDelete == Mutation("account delete", {accounts}, {accounts})
AccountRows == {Once(AccountActivate)}
AccountDialogs == {Once(AccountSuspend), Once(AccountDelete)}
AccountsPage == Page({accounts}, AccountRows \cup AccountDialogs)

KycApprove == Mutation("kyc approve", {kyc}, {kyc})
KycReject == Mutation("kyc reject", {kyc}, {kyc})
KycModal == {Once(KycApprove), Once(KycReject)}
KycReviewPage == Page({kyc}, KycModal)

SubscriptionApprove ==
    Mutation("subscription approve", {subscriptionRequests}, {subscriptionRequests})
SubscriptionReject ==
    Mutation("subscription reject", {subscriptionRequests}, {subscriptionRequests})
SubscriptionModal == {Once(SubscriptionApprove), Once(SubscriptionReject)}
AdminSubscriptionsPage == Page({subscriptionRequests}, SubscriptionModal)

ReleaseCreate == Mutation("release create", {releases}, {releases})
ReleaseSubmit == Mutation("release submit", {releases}, {releases})
ReleaseApprove == Mutation("release approve", {releases}, {releases})
ReleaseReject == Mutation("release reject", {releases}, {releases})
ReleasePublish == Mutation("release publish", {releases}, {releases})
ReleaseDelete == Mutation("release delete", {releases}, {releases})
ApkUpload == Mutation("apk upload", {releases}, {releases})
ReleaseRows == {Once(ReleaseSubmit), Once(ReleaseApprove), Once(ReleaseReject),
                Once(ReleasePublish), Once(ReleaseDelete)}
ReleaseForms == {Once(ReleaseCreate), Once(ApkUpload)}
AppReleasesPage == Page({releases}, ReleaseRows \cup ReleaseForms)

\* a save or delete by staff makes a change request instead
AISave == Mutation("ai save", {aiConfigs, aiRequests}, {aiConfigs, aiRequests})
AIDelete == Mutation("ai delete", {aiConfigs, aiRequests}, {aiConfigs, aiRequests})
AIApprove == Mutation("ai approve", {aiConfigs, aiRequests}, {aiConfigs, aiRequests})
AIReject == Mutation("ai reject", {aiRequests}, {aiRequests})
AIRequestRows == {Once(AIApprove), Once(AIReject)}
AIForm == {Once(AISave)}
AIDialog == {Once(AIDelete)}
AIConfigPage == Page({aiConfigs, aiRequests}, AIRequestRows \cup AIForm \cup AIDialog)

(* Operations.                                                             *)

\* "loading" is that of the row that was clicked last
DeadLetterRetry == Mutation("dead letter retry", {deadLetters}, {deadLetters})
DeadLetterRows == {Free(DeadLetterRetry)}
DeadLettersPage == Page({deadLetters}, DeadLetterRows)

BreakerReset == Mutation("breaker reset", {breakers}, {breakers})
BreakerRows == {Once(BreakerReset)}
CircuitBreakersPage == Page({breakers}, BreakerRows)

(* The member portal.                                                      *)

MemberWebhookSave == Mutation("member webhook save", {memberWebhooks}, {memberWebhooks})
MemberWebhookDelete == Mutation("member webhook delete", {memberWebhooks}, {memberWebhooks})
MemberWebhookRotate == Mutation("member webhook rotate", {memberWebhooks}, {memberWebhooks})
MemberWebhookToggle == Mutation("member webhook toggle", {memberWebhooks}, {memberWebhooks})
MemberWebhookRows == {Free(MemberWebhookToggle)}
MemberWebhookForm == {Once(MemberWebhookSave)}
MemberWebhookDialogs == {Once(MemberWebhookRotate), Once(MemberWebhookDelete)}
MemberWebhooksPage ==
    Page({memberWebhooks}, MemberWebhookRows \cup MemberWebhookForm \cup MemberWebhookDialogs)

MemberTemplateSave == Mutation("member template save", {memberTemplates}, {memberTemplates})
MemberTemplateDelete == Mutation("member template delete", {memberTemplates}, {memberTemplates})
MemberTemplateForm == {Once(MemberTemplateSave)}
MemberTemplateDialog == {Once(MemberTemplateDelete)}
MemberTemplatesPage == Page({memberTemplates}, MemberTemplateForm \cup MemberTemplateDialog)

\* both also change the list that the send pages read
DeviceRename == Mutation("device rename", {memberDevices, onlineDevices}, {memberDevices})
DeviceDisconnect == Mutation("device disconnect", {memberDevices, onlineDevices}, {memberDevices})
DeviceDialogs == {Once(DeviceRename), Once(DeviceDisconnect)}
MemberDevicesPage == Page({memberDevices}, DeviceDialogs)

\* the messages they queue are not loaded again by the page that lists them
SmsSend == Mutation("sms send", {memberMessages}, {})
SmsForm == {Once(SmsSend)}
SendSmsPage == Page({onlineDevices}, SmsForm)

BulkSend == Mutation("bulk send", {memberMessages}, {})
ScheduleSend == Mutation("schedule send", {memberMessages}, {})
\* one button, two modes
BulkForm == {Waiting(m, {BulkSend, ScheduleSend}) : m \in {BulkSend, ScheduleSend}}
BulkSmsPage == Page({onlineDevices}, BulkForm)
MemberMessagesPage == Page({memberMessages}, {})
MemberDashboardPage == Page({memberDashboard}, {})
MemberAnalyticsPage == Page({memberAnalytics}, {})

\* keeps its data in its own state
SettingsPage == Page({}, {})

(* Reports.                                                                *)

DashboardPage == Page({dashboardStats, dashboardDays}, {})
AnalyticsPage == Page({analytics}, {})
BIDashboardPage == Page({bi}, {})

-----------------------------------------------------------------------------

ConsolePages == [
    webhooks |-> WebhooksPage, templates |-> TemplatesPage, fraud |-> FraudFlagsPage,
    smishing |-> SmishingFlagsPage, plans |-> PlansPage, features |-> FeatureCatalogPage,
    billingSettings |-> BillingSettingsPage, billing |-> BillingPage,
    upgrade |-> MemberUpgradePage, payments |-> MemberPaymentRequestsPage,
    subscriptions |-> MemberSubscriptionRequestsPage, accounts |-> AccountsPage,
    kyc |-> KycReviewPage, adminSubscriptions |-> AdminSubscriptionsPage,
    releases |-> AppReleasesPage, ai |-> AIConfigPage, deadLetters |-> DeadLettersPage,
    breakers |-> CircuitBreakersPage, memberWebhooks |-> MemberWebhooksPage,
    memberTemplates |-> MemberTemplatesPage, devices |-> MemberDevicesPage,
    send |-> SendSmsPage, bulk |-> BulkSmsPage, messages |-> MemberMessagesPage,
    memberHome |-> MemberDashboardPage, memberAnalytics |-> MemberAnalyticsPage,
    dashboard |-> DashboardPage, analytics |-> AnalyticsPage, bi |-> BIDashboardPage,
    settings |-> SettingsPage]

ConsoleQueries == UNION {ConsolePages[p].reads : p \in DOMAIN ConsolePages}
                  \cup {smishingFlags, smishingCount}

\* queries whose key holds a page number, a search or a filter
ConsoleTables == {webhooks, templates, accounts, kyc, subscriptionRequests,
                  paymentRequests, mySubscriptions, memberMessages}

\* Pages that share a query are visited together, the others in turn with a page
\* that keeps nothing in the cache.
ConsoleSites == {{p, "settings"} : p \in DOMAIN ConsolePages \ {"devices", "send", "bulk", "features"}}
                \cup {{"devices", "send"}, {"devices", "bulk"}, {"plans", "features"}}

\* The review of flags beside the sidebar, which polls their number.
FlagPages == [fraud |-> FraudFlagsPage, settings |-> SettingsPage]
FlagQueries == {fraudFlags, smishingFlags, smishingCount}
FlagSites == {{"fraud", "settings"}}
SidebarPolls == {smishingCount}

=============================================================================
