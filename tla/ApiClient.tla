----------------------------- MODULE ApiClient ------------------------------
(***************************************************************************)
(* The requests the clients of the backend make: the functions of the web   *)
(* app's lib/api.ts, the links its screens build from API_BASE, the calls   *)
(* of the Playwright reporter, and the MCP endpoint.  Each is a method and  *)
(* a path whose Id segments hold an identifier, never a word of a route;    *)
(* query strings play no part in routing and are left out.                  *)
(***************************************************************************)
EXTENDS Routes

AccountCalls == <<
  Get(<<"auth", "me">>, "authMe"),
  Get(<<"branding">>, "getBranding"),
  Get(<<"admin", "admins">>, "getAdminList"),
  Post(<<"admin", "admins">>, "addPlatformAdmin"),
  Delete(<<"admin", "admins", Id>>, "removePlatformAdmin"),
  Post(<<"auth", "otp", "request">>, "requestOtp"),
  Get(<<"setup", "status">>, "getSetupStatus"),
  Post(<<"setup", "first-admin">>, "createFirstAdmin"),
  Post(<<"auth", "password", "login">>, "loginWithPassword"),
  Post(<<"auth", "otp", "verify">>, "verifyOtp"),
  Post(<<"auth", "password", "forgot">>, "requestPasswordReset"),
  Get(<<"auth", "password", "reset", Id>>, "checkPasswordResetToken"),
  Post(<<"auth", "password", "reset">>, "resetPassword"),
  Post(<<"auth", "password", "change">>, "changePassword"),
  Post(<<"auth", "signup", "start">>, "startSignup"),
  Post(<<"auth", "signup", "verify">>, "verifySignup"),
  Post(<<"invitations", Id, "register", "start">>, "startInviteRegistration"),
  Post(<<"invitations", Id, "register", "verify">>, "verifyInviteRegistration"),
  Post(<<"invitations", Id, "register", "otp", "start">>, "startInviteOtpRegistration"),
  Post(<<"invitations", Id, "register", "otp", "verify">>, "verifyInviteOtpRegistration"),
  Post(<<"auth", "logout">>, "logout")>>

OnboardingCalls == <<
  Post(<<"onboarding", "workspace">>, "createWorkspace"),
  Post(<<"onboarding", "org-and-project">>, "createOrgAndProject"),
  Get(<<"workspace">>, "getWorkspace"),
  Patch(<<"workspace">>, "updateWorkspace")>>

BillingCalls == <<
  Get(<<"billing">>, "getBillingInfo"),
  Get(<<"billing", "pricing">>, "getBillingPricing"),
  Post(<<"billing", "reconcile">>, "reconcileBilling"),
  Get(<<"billing", "history">>, "getBillingHistory"),
  Get(<<"billing", "invoices">>, "getBillingInvoices"),
  Post(<<"billing", "checkout-session">>, "createCheckoutSession"),
  Post(<<"billing", "portal-session">>, "createPortalSession"),
  Get(<<"billing", "usage">>, "getBillingUsage")>>

WorkspaceCalls == <<
  Get(<<"workspaces">>, "listWorkspaces"),
  Post(<<"workspaces">>, "createAdditionalWorkspace"),
  Post(<<"workspaces", Id, "switch">>, "switchWorkspace"),
  Get(<<"workspace", "ai-keys">>, "listWorkspaceAiKeys"),
  Post(<<"workspace", "ai-keys">>, "createWorkspaceAiKey"),
  Delete(<<"workspace", "ai-keys", Id>>, "deleteWorkspaceAiKey")>>

AiKeyCalls == <<
  Get(<<"workspace", "ai-providers">>, "listAiProviders"),
  Post(<<"workspace", "ai-keys", "models">>, "listProviderModels"),
  Post(<<"workspace", "ai-keys", "allocations">>, "allocateWorkspaceAiKeyToProject")>>

MemberCalls == <<
  Get(<<"workspace", "members">>, "listWorkspaceMembers"),
  Post(<<"workspace", "members">>, "addWorkspaceMember"),
  Delete(<<"workspace", "members", Id>>, "removeWorkspaceMember"),
  Post(<<"workspace", "members", "role">>, "changeWorkspaceMemberRole"),
  Get(<<"workspace", "invitations">>, "listWorkspaceInvitations"),
  Post(<<"workspace", "invitations">>, "createWorkspaceInvitation"),
  Delete(<<"workspace", "invitations", Id>>, "cancelWorkspaceInvitation"),
  Post(<<"workspace", "invitations", Id, "resend">>, "resendWorkspaceInvitation"),
  Get(<<"invitations", Id>>, "getInvitationByToken"),
  Post(<<"invitations", Id, "accept">>, "acceptInvitation"),
  Post(<<"invitations", Id, "register">>, "registerFromInvitation"),
  Get(<<"workspace", "project-access">>, "getWorkspaceProjectAccess"),
  Put(<<"workspace", "project-access">>, "setWorkspaceProjectAccess"),
  Delete(<<"workspace", "project-access">>, "removeWorkspaceProjectAccess")>>

ProjectCalls == <<
  Get(<<"projects">>, "listProjects"),
  Get(<<"notifications">>, "listNotifications"),
  Post(<<"notifications", Id, "read">>, "markNotificationRead"),
  Get(<<"projects", "overview">>, "listProjectsOverview"),
  Post(<<"projects">>, "createProject"),
  Get(<<"projects", Id>>, "getProject"),
  Patch(<<"projects", Id>>, "updateProject"),
  Delete(<<"projects", Id>>, "deleteProject")>>

AiGenerationCalls == <<
  Post(<<"projects", Id, "ai", "generate-testcases">>, "generateAiTestCases"),
  Get(<<"projects", Id, "ai", "generation-history">>, "listAiGenerationHistory"),
  Post(<<"projects", Id, "ai", "generation-history", Id, "save">>, "trackAiGenerationSaved")>>

ZyraCalls == <<
  Get(<<"projects", Id, "agents", "zyra">>, "getZyraAgent"),
  Get(<<"projects", Id, "agents", "zyra", "test">>, "testZyraAiConnection"),
  Patch(<<"projects", Id, "agents", "zyra", "settings">>, "updateZyraSettings"),
  Get(<<"projects", Id, "agents", "zyra", "chat", "sessions">>, "listZyraChatSessions"),
  Post(<<"projects", Id, "agents", "zyra", "chat", "sessions">>, "createZyraChatSession"),
  Get(<<"projects", Id, "agents", "zyra", "chat", "sessions", Id>>, "getZyraChatSession"),
  Post(<<"projects", Id, "agents", "zyra", "chat", "sessions", Id, "messages">>, "sendZyraChatMessage"),
  Post(<<"projects", Id, "agents", "zyra", "chat", "sessions", Id, "stop-plan">>, "stopZyraChatPlan"),
  Post(<<"projects", Id, "agents", "zyra", "chat", "sessions", Id, "resume-plan">>, "resumeZyraChatPlan"),
  Post(<<"projects", Id, "agents", "zyra", "tasks">>, "createZyraTask"),
  Get(<<"projects", Id, "agents", "zyra", "tasks", Id>>, "getZyraTask"),
  Post(<<"projects", Id, "agents", "zyra", "tasks", Id, "feedback">>, "sendZyraFeedback"),
  Delete(<<"projects", Id, "agents", "zyra", "tasks", Id, "drafts", Id>>, "deleteZyraTaskDraft"),
  Post(<<"projects", Id, "agents", "zyra", "tasks", Id, "close">>, "closeZyraTask"),
  Post(<<"projects", Id, "agents", "zyra", "tasks", Id, "save">>, "saveZyraTask")>>

TokenCalls == <<
  Get(<<"projects", Id, "members">>, "listProjectMembers"),
  Post(<<"projects", Id, "members">>, "addProjectMember"),
  Delete(<<"projects", Id, "members", Id>>, "removeProjectMember"),
  Get(<<"projects", Id, "apikeys">>, "listApiKeys"),
  Post(<<"projects", Id, "apikeys">>, "createApiKey"),
  Delete(<<"projects", Id, "apikeys", Id>>, "revokeApiKey")>>

SuiteCalls == <<
  Get(<<"projects", Id, "suites">>, "listSuites"),
  Post(<<"projects", Id, "suites">>, "createSuite"),
  Patch(<<"suites", Id>>, "updateSuite"),
  Delete(<<"suites", Id>>, "deleteSuite")>>

TestCaseCalls == <<
  Get(<<"projects", Id, "testcases">>, "listTestCases"),
  Get(<<"projects", Id, "testcases", Id>>, "getTestCase"),
  Post(<<"projects", Id, "testcases">>, "createTestCase"),
  Post(<<"projects", Id, "testcases", "bulk-create">>, "bulkCreateTestCases"),
  Put(<<"projects", Id, "testcases", Id>>, "updateTestCase"),
  Delete(<<"projects", Id, "testcases", Id>>, "deleteTestCase"),
  Post(<<"projects", Id, "testcases", Id, "duplicate">>, "duplicateTestCase"),
  Post(<<"projects", Id, "testcases", "bulk-update">>, "bulkUpdateTestCases"),
  Post(<<"projects", Id, "testcases", "bulk-delete">>, "bulkDeleteTestCases")>>

CustomFieldCalls == <<
  Get(<<"projects", Id, "custom-fields", "definitions">>, "listCustomFieldDefinitions"),
  Get(<<"projects", Id, "custom-fields", "definitions", Id>>, "getCustomFieldDefinition"),
  Post(<<"projects", Id, "custom-fields", "definitions">>, "createCustomFieldDefinition"),
  Patch(<<"projects", Id, "custom-fields", "definitions", Id>>, "updateCustomFieldDefinition"),
  Post(<<"projects", Id, "custom-fields", "definitions", "reorder">>, "reorderCustomFieldDefinitions"),
  Patch(<<"projects", Id, "custom-fields", "definitions", Id, "status">>, "setCustomFieldDefinitionStatus"),
  Delete(<<"projects", Id, "custom-fields", "definitions", Id>>, "deleteCustomFieldDefinition"),
  Post(<<"projects", Id, "custom-fields", "definitions", Id, "options">>, "addCustomFieldOption"),
  Patch(<<"projects", Id, "custom-fields", "definitions", Id, "options", Id>>, "setCustomFieldOptionActive"),
  Get(<<"projects", Id, "testcases", Id, "custom-field-values">>, "getCustomFieldValues"),
  Get(<<"projects", Id, "testcases", "linked-jira-keys">>, "listLinkedJiraKeys"),
  Get(<<"projects", Id, "testcases", "linked-linear-keys">>, "listLinkedLinearKeys"),
  Get(<<"projects", Id, "testcases", "export", "csv">>, "getExportUrl"),
  Get(<<"projects", Id, "testcases", "export", "xlsx">>, "getExportUrl"),
  Get(<<"projects", Id, "testcases", "import", "template">>, "getTemplateUrl")>>

ImportCalls == <<
  Post(<<"projects", Id, "testcases", "import">>, "importTestCases")>>

RecordingCalls == <<
  Get(<<"projects", Id, "automation", "sessions", Id, "recording">>, "getAutomationRecording"),
  Post(<<"projects", Id, "automation", "sessions", Id, "recording", "compile">>, "compileAutomationRecording"),
  Get(<<"projects", Id, "testcases", Id, "automation", "recordings">>, "listRecordingsByTestcase"),
  Get(<<"projects", Id, "automation", "recordings">>, "listRecordingsByProject"),
  Get(<<"projects", Id, "automation", "recordings", Id>>, "getPersistedRecording"),
  Post(<<"projects", Id, "automation", "sessions", Id, "reset">>, "resetAutomationSession"),
  Post(<<"projects", Id, "automation", "sessions", Id, "finalize">>, "finalizeAutomationSession"),
  Post(<<"projects", Id, "automation", "sessions", Id, "cancel">>, "cancelAutomationSession"),
  Post(<<"projects", Id, "automation", "sessions", Id, "manual-actions">>, "sendAutomationManualAction"),
  Post(<<"projects", Id, "automation", "sessions", Id, "run-script">>, "runAutomationPlaywrightScript"),
  Get(<<"projects", Id, "automation", "sessions", Id, "trace">>, "getAutomationSessionTraceUrl")>>

SessionCalls == <<
  Post(<<"projects", Id, "testcases", Id, "automation", "sessions">>, "startAutomationSession"),
  Post(<<"projects", Id, "automation", "sessions", Id, "commands">>, "sendAutomationCommand"),
  Post(<<"projects", Id, "automation", "sessions", Id, "commands", "stop">>, "stopAutomationCommand"),
  Get(<<"projects", Id, "automation", "sessions", Id>>, "getAutomationSession"),
  Get(<<"projects", Id, "automation", "sessions", Id, "stream">>, "getAutomationStreamState")>>

AutomatedRunCalls == <<
  Get(<<"cycles", Id, "executions", Id, "automation-report">>, "getExecutionAutomationReport"),
  Get(<<"cycles", Id, "executions", Id, "automation-video">>, "getExecutionAutomationVideoUrl"),
  Get(<<"cycles", Id, "executions", Id, "automation-trace">>, "getExecutionAutomationTraceUrl"),
  Post(<<"cycles", Id, "execute-automated">>, "executeAutomatedTestRun"),
  Get(<<"cycles", Id, "execute-automated", Id, "status">>, "getAutomatedRunStatus"),
  Get(<<"cycles", Id, "execute-automated", "latest", "status">>, "getLatestAutomatedRunStatus")>>

PlanCalls == <<
  Get(<<"projects", Id, "plans">>, "listPlans"),
  Get(<<"plans", Id>>, "getPlan"),
  Post(<<"projects", Id, "plans">>, "createPlan"),
  Patch(<<"plans", Id>>, "updatePlan"),
  Delete(<<"plans", Id>>, "deletePlan"),
  Get(<<"plans", Id, "items">>, "listPlanItems"),
  Post(<<"plans", Id, "items">>, "addPlanItem"),
  Delete(<<"plans", Id, "items", Id>>, "removePlanItem"),
  Get(<<"plans", Id, "runs">>, "listPlanRuns"),
  Get(<<"plans", Id, "progress">>, "getPlanProgress"),
  Patch(<<"cycles", Id>>, "associateRunWithPlan"),
  Patch(<<"cycles", Id>>, "dissociateRunFromPlan")>>

CycleCalls == <<
  Get(<<"projects", Id, "cycles">>, "listTestRuns"),
  Get(<<"cycles", Id>>, "getTestRun"),
  Post(<<"projects", Id, "cycles">>, "createTestRun"),
  Patch(<<"cycles", Id>>, "updateTestRun"),
  Delete(<<"cycles", Id>>, "deleteTestRun"),
  Post(<<"cycles", Id, "testcases">>, "addTestCasesToRun"),
  Delete(<<"cycles", Id, "testcases", Id>>, "removeTestCaseFromRun"),
  Post(<<"cycles", Id, "testcases", "bulk-delete">>, "removeTestCasesFromRun"),
  Post(<<"projects", Id, "cycles", "from-plan">>, "createCycleFromPlan"),
  Get(<<"cycles", Id, "executions">>, "listCycleExecutions"),
  Patch(<<"cycles", Id, "executions", Id>>, "updateExecution"),
  Get(<<"projects", Id, "cycles", "schedules">>, "listTestRunSchedules"),
  Post(<<"projects", Id, "cycles", "schedules">>, "createTestRunSchedule"),
  Patch(<<"cycles", "schedules", Id>>, "updateTestRunSchedule"),
  Delete(<<"cycles", "schedules", Id>>, "deleteTestRunSchedule"),
  Post(<<"cycles", Id, "share">>, "toggleTestRunShare"),
  Get(<<"public", "shared-runs", Id>>, "getPublicSharedRun"),
  Get(<<"public", "shared-runs", Id, "executions">>, "getPublicSharedExecutions")>>

BugCalls == <<
  Get(<<"projects", Id, "bugs">>, "listBugs"),
  Get(<<"bugs", Id>>, "getBug"),
  Post(<<"projects", Id, "bugs">>, "createBug"),
  Patch(<<"bugs", Id>>, "updateBug"),
  Delete(<<"bugs", Id>>, "deleteBug"),
  Post(<<"bugs", Id, "links">>, "addBugLink"),
  Delete(<<"bugs", Id, "links", Id>>, "removeBugLink"),
  Post(<<"projects", Id, "bugs", Id, "attachments">>, "uploadBugAttachments"),
  Delete(<<"bugs", "attachments", Id>>, "deleteBugAttachment"),
  Get(<<"projects", Id, "bugs", "attachments", Id, "download">>, "getBugAttachmentDownloadUrl")>>

ReportCalls == <<
  Get(<<"workspace", "analytics">>, "getWorkspaceAnalytics"),
  Get(<<"projects", Id, "analytics">>, "getProjectAnalytics"),
  Get(<<"projects", Id, "reports", "execution">>, "getExecutionReport"),
  Get(<<"projects", Id, "reports", "requirement-matrix">>, "getRequirementMatrix"),
  Get(<<"projects", Id, "reports", "repository-summary">>, "getRepositorySummary")>>

InsightCalls == <<
  Get(<<"projects", Id, "reports", "overview">>, "getReportsOverview"),
  Get(<<"projects", Id, "reports", "insights">>, "getReportsInsights"),
  Get(<<"projects", Id, "reports", "trends">>, "getReportsTrends"),
  Get(<<"projects", Id, "reports", "export", Id>>, "getReportsExportUrl"),
  Get(<<"projects", Id, "dashboard">>, "getProjectDashboardSummary")>>

IntegrationCalls == <<
  Get(<<"workspace", "integrations", Id, "auth-url">>, "getIntegrationAuthUrl"),
  Get(<<"workspace", "integrations", Id, "config">>, "getIntegrationConfig"),
  Post(<<"workspace", "integrations", Id, "callback">>, "integrationCallback"),
  Delete(<<"workspace", "integrations", Id, "disconnect">>, "disconnectIntegration"),
  Get(<<"workspace", "integrations", Id, "status">>, "getIntegrationStatus")>>

JiraCalls == <<
  Get(<<"projects", Id, "jira", "status">>, "getJiraStatus"),
  Get(<<"projects", Id, "jira", "projects">>, "listJiraProjects"),
  Post(<<"projects", Id, "jira", "projects">>, "connectJiraProjects"),
  Post(<<"projects", Id, "jira", "sync">>, "syncJiraTickets"),
  Get(<<"projects", Id, "integrations", Id, "sync-status">>, "getIntegrationSyncStatus"),
  Get(<<"projects", Id, "integrations", "sync-history">>, "getIntegrationSyncHistory"),
  Post(<<"projects", Id, "jira", "comment">>, "addJiraComment"),
  Get(<<"projects", Id, "jira", "tickets">>, "listJiraTickets"),
  Get(<<"projects", Id, "jira", "search-issues">>, "searchJiraIssuesLive")>>

LinearCalls == <<
  Get(<<"projects", Id, "linear", "status">>, "getLinearStatus"),
  Get(<<"projects", Id, "linear", "teams">>, "listLinearTeams"),
  Post(<<"projects", Id, "linear", "teams">>, "connectLinearTeams"),
  Post(<<"projects", Id, "linear", "sync">>, "syncLinearTickets"),
  Post(<<"projects", Id, "linear", "comment">>, "addLinearComment"),
  Get(<<"projects", Id, "linear", "tickets">>, "listLinearTickets"),
  Get(<<"projects", Id, "linear", "search-issues">>, "searchLinearIssuesLive")>>

RequirementCalls == <<
  Get(<<"projects", Id, "tickets", "summary">>, "getRequirementsSummary"),
  Get(<<"projects", Id, "tickets">>, "listAllTickets")>>

KnowledgeFolderCalls == <<
  Get(<<"projects", Id, "knowledge-base", "folders", "tree">>, "getKnowledgeFolderTree"),
  Get(<<"projects", Id, "knowledge-base", "summary">>, "getKnowledgeBaseSummary"),
  Get(<<"projects", Id, "knowledge-base", "folders", Id, "export">>, "getKnowledgeFolderExportUrl"),
  Get(<<"projects", Id, "knowledge-base", "folders", Id>>, "getKnowledgeFolder"),
  Get(<<"projects", Id, "knowledge-base", "folders", Id, "items">>, "listKnowledgeFolderItems"),
  Post(<<"projects", Id, "knowledge-base", "folders">>, "createKnowledgeFolder"),
  Patch(<<"projects", Id, "knowledge-base", "folders", Id>>, "updateKnowledgeFolder"),
  Patch(<<"projects", Id, "knowledge-base", "folders", Id, "move">>, "moveKnowledgeFolder"),
  Delete(<<"projects", Id, "knowledge-base", "folders", Id>>, "deleteKnowledgeFolder"),
  Patch(<<"projects", Id, "knowledge-base", "folders", Id, "restore">>, "restoreKnowledgeFolder")>>

KnowledgeDocumentCalls == <<
  Get(<<"projects", Id, "knowledge-base", "documents">>, "listKnowledgeDocuments"),
  Post(<<"projects", Id, "knowledge-base", "documents">>, "createKnowledgeDocument"),
  Get(<<"projects", Id, "knowledge-base", "documents", Id>>, "getKnowledgeDocument"),
  Patch(<<"projects", Id, "knowledge-base", "documents", Id>>, "updateKnowledgeDocument"),
  Patch(<<"projects", Id, "knowledge-base", "documents", Id, "move">>, "moveKnowledgeDocument"),
  Post(<<"projects", Id, "knowledge-base", "documents", Id, "duplicate">>, "duplicateKnowledgeDocument"),
  Delete(<<"projects", Id, "knowledge-base", "documents", Id>>, "deleteKnowledgeDocument"),
  Patch(<<"projects", Id, "knowledge-base", "documents", Id, "restore">>, "restoreKnowledgeDocument"),
  Get(<<"projects", Id, "knowledge-base", "documents", Id, "versions">>, "listKnowledgeDocumentVersions"),
  Post(<<"projects", Id, "knowledge-base", "documents", Id, "restore-version">>, "restoreKnowledgeDocumentVersion"),
  Patch(<<"projects", Id, "knowledge-base", "documents", Id, "approve-ai-memory">>, "approveAiMemory"),
  Patch(<<"projects", Id, "knowledge-base", "documents", Id, "reject-ai-memory">>, "rejectAiMemory")>>

CommentCalls == <<
  Get(<<"projects", Id, "knowledge-base", "documents", Id, "comments">>, "listKnowledgeDocumentComments"),
  Post(<<"projects", Id, "knowledge-base", "documents", Id, "comments">>, "createKnowledgeDocumentComment"),
  Patch(<<"projects", Id, "knowledge-base", "comments", Id>>, "updateKnowledgeDocumentComment"),
  Delete(<<"projects", Id, "knowledge-base", "comments", Id>>, "deleteKnowledgeDocumentComment")>>

KnowledgeFileCalls == <<
  Post(<<"projects", Id, "knowledge-base", "files", "upload">>, "uploadKnowledgeFileBatch"),
  Get(<<"projects", Id, "knowledge-base", "files", Id>>, "getKnowledgeFile"),
  Patch(<<"projects", Id, "knowledge-base", "files", Id>>, "updateKnowledgeFile"),
  Patch(<<"projects", Id, "knowledge-base", "files", Id, "move">>, "moveKnowledgeFile"),
  Delete(<<"projects", Id, "knowledge-base", "files", Id>>, "deleteKnowledgeFile"),
  Patch(<<"projects", Id, "knowledge-base", "files", Id, "restore">>, "restoreKnowledgeFile"),
  Get(<<"projects", Id, "knowledge-base", "files", Id, "download">>, "getKnowledgeFileDownloadUrl"),
  Get(<<"projects", Id, "knowledge-base", "files", Id, "preview">>, "getKnowledgeFilePreviewUrl"),
  Get(<<"projects", Id, "knowledge-base", "search">>, "searchKnowledgeBase")>>

ActivityCalls == <<
  Get(<<"projects", Id, "activity">>, "listActivity"),
  Get(<<"projects", Id, "activity", "summary">>, "getActivitySummary"),
  Get(<<"workspace", "activity">>, "listWorkspaceActivity"),
  Get(<<"workspace", "activity", "summary">>, "getWorkspaceActivitySummary")>>

EvidenceCalls == <<
  Get(<<"projects", Id, "automation", "runs", Id>>, "getAutomationRun"),
  Get(<<"cycles", Id, "executions", Id, "attachments">>, "listExecutionEvidence"),
  Post(<<"cycles", Id, "executions", Id, "attachments">>, "uploadExecutionEvidence")>>

\* Links of the run screen and of the evidence panel.
RunExportLink == Get(<<"cycles", Id, "export", "csv">>, "exportCycle")
EvidenceLink  == Get(<<"cycles", Id, "executions", Id, "attachments", Id, "download">>, "attachmentUrl")

\* The reporter's client: every path under .../automation.
ReporterCalls == <<
  Post(<<"projects", Id, "automation", "cases", "resolve">>, "resolveCases"),
  Post(<<"projects", Id, "automation", "runs">>, "createRun"),
  Post(<<"projects", Id, "automation", "runs", Id, "results">>, "recordResult"),
  Patch(<<"projects", Id, "automation", "runs", Id, "close">>, "closeRun"),
  Post(<<"projects", Id, "automation", "runs", Id, "results", Id, "evidence">>, "uploadEvidence")>>

\* The URL the settings screen hands to MCP clients (getMcpUrl).
McpCall == Post(<<"projects", Id, "mcp">>, "mcp")

\* The functions of the recorder and of the run executor, which no screen calls any more.
RetiredCalls == ToSet(SessionCalls \o RecordingCalls \o AutomatedRunCalls)

BrowserCalls == ToSet(FlattenSeq(<<
  AccountCalls, OnboardingCalls, BillingCalls, WorkspaceCalls, AiKeyCalls, MemberCalls,
  ProjectCalls, AiGenerationCalls, ZyraCalls, TokenCalls, SuiteCalls, TestCaseCalls,
  CustomFieldCalls, ImportCalls, PlanCalls, CycleCalls, BugCalls, ReportCalls, InsightCalls,
  IntegrationCalls, JiraCalls, LinearCalls, RequirementCalls, KnowledgeFolderCalls,
  KnowledgeDocumentCalls, CommentCalls, KnowledgeFileCalls, ActivityCalls, EvidenceCalls>>)) \cup {RunExportLink, EvidenceLink}
=============================================================================
