------------------------------- MODULE Routes -------------------------------
(***************************************************************************)
(* The routes the backend's controllers declare, in the order they declare  *)
(* them.  Nest registers a controller's handlers on the Express router in   *)
(* that order, and the controllers in the order their modules are scanned   *)
(* from app.module.ts; the router takes the FIRST route that fits, so the   *)
(* order is part of what the code means.  A path is the sequence of its     *)
(* segments after /api; Id stands for a parameter (":projectId").           *)
(***************************************************************************)
EXTENDS Naturals, Sequences, SequencesExt

Id == ":"

Route(m, p, h) == [method |-> m, path |-> p, name |-> h]
Get(p, h)    == Route("GET", p, h)
Post(p, h)   == Route("POST", p, h)
Put(p, h)    == Route("PUT", p, h)
Patch(p, h)  == Route("PATCH", p, h)
Delete(p, h) == Route("DELETE", p, h)

AuthRoutes == <<
  Post(<<"auth", "otp", "request">>, "requestOtp"),
  Post(<<"auth", "otp", "verify">>, "verifyOtp"),
  Post(<<"auth", "password", "login">>, "loginWithPassword"),
  Post(<<"auth", "password", "forgot">>, "forgotPassword"),
  Get(<<"auth", "password", "reset", Id>>, "checkResetToken"),
  Post(<<"auth", "password", "reset">>, "resetPassword"),
  Post(<<"auth", "password", "change">>, "changePassword"),
  Post(<<"auth", "logout">>, "logout"),
  Get(<<"auth", "me">>, "me")>>

AdminRoutes == <<
  Get(<<"admin", "system", "health">>, "check")>>

SetupRoutes == <<
  Get(<<"setup", "status">>, "status"),
  Post(<<"setup", "first-admin">>, "createFirstAdmin")>>

HealthRoutes == <<
  Get(<<"/health">>, "health"),
  Get(<<"health">>, "apiHealth")>>

WorkspaceRoutes == <<
  Post(<<"onboarding", "workspace">>, "createWorkspace"),
  Post(<<"onboarding", "org-and-project">>, "createOrgAndProject"),
  Get(<<"workspace">>, "workspace"),
  Get(<<"workspaces">>, "listWorkspaces"),
  Post(<<"workspaces">>, "createAdditionalWorkspace"),
  Post(<<"workspaces", Id, "switch">>, "switchWorkspace"),
  Patch(<<"workspace">>, "updateWorkspace"),
  Get(<<"workspace", "analytics">>, "workspaceAnalytics"),
  Get(<<"workspace", "members">>, "workspaceMembers"),
  Post(<<"workspace", "members">>, "addWorkspaceMember"),
  Delete(<<"workspace", "members", Id>>, "removeWorkspaceMember"),
  Get(<<"workspace", "project-access">>, "projectAccess"),
  Put(<<"workspace", "project-access">>, "setProjectAccess"),
  Delete(<<"workspace", "project-access">>, "removeProjectAccess"),
  Get(<<"workspace", "ai-keys">>, "aiKeys"),
  Post(<<"workspace", "ai-keys">>, "createAiKey"),
  Get(<<"workspace", "ai-providers">>, "aiProviders"),
  Post(<<"workspace", "ai-keys", "models">>, "listProviderModels"),
  Delete(<<"workspace", "ai-keys", Id>>, "deleteAiKey"),
  Post(<<"workspace", "ai-keys", "allocations">>, "allocateAiKey"),
  Post(<<"workspace", "members", "role">>, "changeWorkspaceMemberRole"),
  Get(<<"workspace", "invitations">>, "listInvitations"),
  Post(<<"workspace", "invitations">>, "createInvitation"),
  Delete(<<"workspace", "invitations", Id>>, "cancelInvitation"),
  Post(<<"workspace", "invitations", Id, "resend">>, "resendInvitation"),
  Get(<<"invitations", Id>>, "getInvitation"),
  Post(<<"invitations", Id, "accept">>, "acceptInvitation"),
  Post(<<"invitations", Id, "register">>, "registerFromInvitation")>>

ProjectRoutes == <<
  Get(<<"projects">>, "listProjects"),
  Post(<<"projects">>, "createProject"),
  Get(<<"projects", "overview">>, "projectsOverview"),
  Get(<<"projects", Id>>, "getProject"),
  Patch(<<"projects", Id>>, "updateProject"),
  Delete(<<"projects", Id>>, "deleteProject"),
  Get(<<"projects", Id, "members">>, "projectMembers"),
  Post(<<"projects", Id, "members">>, "addProjectMember"),
  Delete(<<"projects", Id, "members", Id>>, "removeProjectMember"),
  Get(<<"projects", Id, "apikeys">>, "apiKeys"),
  Post(<<"projects", Id, "apikeys">>, "createApiKey"),
  Delete(<<"projects", Id, "apikeys", Id>>, "revokeApiKey"),
  Get(<<"projects", Id, "suites">>, "listSuites"),
  Post(<<"projects", Id, "suites">>, "createSuite"),
  Patch(<<"suites", Id>>, "updateSuite"),
  Delete(<<"suites", Id>>, "deleteSuite")>>

TestCaseRoutes == <<
  Get(<<"projects", Id, "testcases">>, "listTestCases"),
  Post(<<"projects", Id, "testcases">>, "createTestCase"),
  Get(<<"projects", Id, "testcases", "linked-jira-keys">>, "linkedJiraKeys"),
  Get(<<"projects", Id, "testcases", "linked-linear-keys">>, "linkedLinearKeys"),
  Get(<<"projects", Id, "testcases", Id>>, "getTestCase"),
  Put(<<"projects", Id, "testcases", Id>>, "updateTestCase"),
  Delete(<<"projects", Id, "testcases", Id>>, "deleteTestCase"),
  Post(<<"projects", Id, "testcases", Id, "duplicate">>, "duplicateTestCase"),
  Post(<<"projects", Id, "testcases", "bulk-create">>, "bulkCreate"),
  Post(<<"projects", Id, "testcases", "bulk-update">>, "bulkUpdate"),
  Post(<<"projects", Id, "testcases", "bulk-delete">>, "bulkDelete"),
  Post(<<"projects", Id, "testcases", "import">>, "importTestCases")>>

PlanRoutes == <<
  Get(<<"projects", Id, "plans">>, "listPlans"),
  Post(<<"projects", Id, "plans">>, "createPlan"),
  Get(<<"plans", Id>>, "getPlan"),
  Patch(<<"plans", Id>>, "updatePlan"),
  Delete(<<"plans", Id>>, "deletePlan"),
  Get(<<"plans", Id, "items">>, "planItems"),
  Post(<<"plans", Id, "items">>, "addPlanItem"),
  Delete(<<"plans", Id, "items", Id>>, "removePlanItem"),
  Get(<<"plans", Id, "runs">>, "planRuns"),
  Get(<<"plans", Id, "progress">>, "planProgress")>>

CycleRoutes == <<
  Get(<<"projects", Id, "cycles">>, "listCycles"),
  Post(<<"projects", Id, "cycles">>, "createCycle"),
  Post(<<"projects", Id, "cycles", "from-plan">>, "createCycleFromPlan"),
  Post(<<"projects", Id, "cycles", "from-cases">>, "createCycleFromCases"),
  Get(<<"cycles", Id>>, "getCycle"),
  Patch(<<"cycles", Id>>, "updateCycle"),
  Delete(<<"cycles", Id>>, "deleteCycle"),
  Post(<<"cycles", Id, "testcases">>, "addCycleCases"),
  Post(<<"cycles", Id, "testcases", "bulk-delete">>, "removeCycleCases"),
  Delete(<<"cycles", Id, "testcases", Id>>, "removeCycleCase"),
  Get(<<"cycles", Id, "executions">>, "executions"),
  Patch(<<"cycles", Id, "executions", Id>>, "updateExecution"),
  Post(<<"cycles", Id, "executions", Id, "attachments">>, "uploadExecutionAttachments"),
  Get(<<"cycles", Id, "executions", Id, "attachments">>, "listExecutionAttachments"),
  Get(<<"cycles", Id, "executions", Id, "attachments", Id, "download">>, "downloadExecutionAttachment"),
  Post(<<"cycles", Id, "executions", "bulk-assign">>, "bulkAssign"),
  Post(<<"cycles", Id, "executions", "bulk-status">>, "bulkStatus"),
  Post(<<"cycles", Id, "share">>, "shareCycle")>>

ScheduleRoutes == <<
  Get(<<"projects", Id, "cycles", "schedules">>, "schedules"),
  Post(<<"projects", Id, "cycles", "schedules">>, "createSchedule"),
  Patch(<<"cycles", "schedules", Id>>, "updateSchedule"),
  Delete(<<"cycles", "schedules", Id>>, "deleteSchedule"),
  Get(<<"public", "shared-runs", Id>>, "publicRun"),
  Get(<<"public", "shared-runs", Id, "executions">>, "publicExecutions")>>

BugRoutes == <<
  Get(<<"projects", Id, "bugs">>, "listBugs"),
  Post(<<"projects", Id, "bugs">>, "createBug"),
  Get(<<"bugs", Id>>, "getBug"),
  Patch(<<"bugs", Id>>, "updateBug"),
  Delete(<<"bugs", Id>>, "deleteBug"),
  Post(<<"bugs", Id, "links">>, "addBugLink"),
  Delete(<<"bugs", Id, "links", Id>>, "removeBugLink"),
  Post(<<"projects", Id, "bugs", Id, "attachments">>, "uploadBugAttachments"),
  Get(<<"projects", Id, "bugs", "attachments", Id, "download">>, "downloadBugAttachment"),
  Delete(<<"bugs", "attachments", Id>>, "deleteBugAttachment")>>

ExportRoutes == <<
  Get(<<"projects", Id, "testcases", "export", "csv">>, "exportCsv"),
  Get(<<"projects", Id, "testcases", "export", "xlsx">>, "exportXlsx"),
  Get(<<"projects", Id, "testcases", "import", "template">>, "template"),
  Get(<<"cycles", Id, "export", "csv">>, "exportCycle")>>

ReportRoutes == <<
  Get(<<"projects", Id, "analytics">>, "projectAnalytics"),
  Get(<<"projects", Id, "dashboard">>, "projectDashboard"),
  Get(<<"cycles", Id, "report", "summary">>, "cycleSummary"),
  Get(<<"projects", Id, "reports", "execution">>, "executionReport"),
  Get(<<"projects", Id, "reports", "requirement-matrix">>, "matrix"),
  Get(<<"projects", Id, "reports", "repository-summary">>, "repositorySummary"),
  Get(<<"projects", Id, "reports", "overview">>, "reportsOverview"),
  Get(<<"projects", Id, "reports", "insights">>, "reportsInsights"),
  Get(<<"projects", Id, "reports", "trends">>, "reportsTrends"),
  Get(<<"projects", Id, "reports", "export", Id>>, "exportReport")>>

ZyraRoutes == <<
  Post(<<"projects", Id, "ai", "generate-testcases">>, "generateAi"),
  Get(<<"projects", Id, "ai", "generation-history">>, "aiHistory"),
  Post(<<"projects", Id, "ai", "generation-history", Id, "save">>, "aiSave"),
  Get(<<"projects", Id, "agents", "zyra">>, "zyraAgent"),
  Get(<<"projects", Id, "agents", "zyra", "test">>, "testZyraConnection"),
  Patch(<<"projects", Id, "agents", "zyra", "settings">>, "updateZyraSettings"),
  Get(<<"projects", Id, "agents", "zyra", "chat", "sessions">>, "zyraChatSessions"),
  Post(<<"projects", Id, "agents", "zyra", "chat", "sessions">>, "createZyraChatSession"),
  Get(<<"projects", Id, "agents", "zyra", "chat", "sessions", Id>>, "zyraChatSession"),
  Post(<<"projects", Id, "agents", "zyra", "chat", "sessions", Id, "messages">>, "sendZyraChatMessage"),
  Post(<<"projects", Id, "agents", "zyra", "chat", "sessions", Id, "stop-plan">>, "stopZyraChatPlan"),
  Post(<<"projects", Id, "agents", "zyra", "chat", "sessions", Id, "resume-plan">>, "resumeZyraChatPlan"),
  Post(<<"projects", Id, "agents", "zyra", "tasks">>, "createZyraTask"),
  Get(<<"projects", Id, "agents", "zyra", "tasks", Id>>, "getZyraTask"),
  Post(<<"projects", Id, "agents", "zyra", "tasks", Id, "feedback">>, "feedbackZyraTask"),
  Delete(<<"projects", Id, "agents", "zyra", "tasks", Id, "drafts", Id>>, "deleteZyraDraft"),
  Post(<<"projects", Id, "agents", "zyra", "tasks", Id, "close">>, "closeZyraTask"),
  Post(<<"projects", Id, "agents", "zyra", "tasks", Id, "save">>, "saveZyraTask")>>

KnowledgeFolderRoutes == <<
  Post(<<"projects", Id, "knowledge-base", "folders">>, "createKnowledgeFolder"),
  Get(<<"projects", Id, "knowledge-base", "folders", "tree">>, "getKnowledgeFolderTree"),
  Get(<<"projects", Id, "knowledge-base", "summary">>, "getKnowledgeBaseSummary"),
  Get(<<"projects", Id, "knowledge-base", "folders", Id, "export">>, "exportKnowledgeFolder"),
  Get(<<"projects", Id, "knowledge-base", "folders", Id>>, "getKnowledgeFolder"),
  Get(<<"projects", Id, "knowledge-base", "folders", Id, "items">>, "listKnowledgeFolderItems"),
  Patch(<<"projects", Id, "knowledge-base", "folders", Id, "move">>, "moveKnowledgeFolder"),
  Patch(<<"projects", Id, "knowledge-base", "folders", Id, "restore">>, "restoreKnowledgeFolder"),
  Patch(<<"projects", Id, "knowledge-base", "folders", Id>>, "updateKnowledgeFolder"),
  Delete(<<"projects", Id, "knowledge-base", "folders", Id>>, "deleteKnowledgeFolder"),
  Get(<<"projects", Id, "knowledge-base", "search">>, "searchKnowledgeBase"),
  Get(<<"projects", Id, "knowledge-base", "documents">>, "listKnowledgeDocuments"),
  Post(<<"projects", Id, "knowledge-base", "documents">>, "createKnowledgeDocument"),
  Get(<<"projects", Id, "knowledge-base", "documents", Id, "versions">>, "listKnowledgeDocumentVersions"),
  Post(<<"projects", Id, "knowledge-base", "documents", Id, "restore-version">>, "restoreKnowledgeDocumentVersion"),
  Patch(<<"projects", Id, "knowledge-base", "documents", Id, "approve-ai-memory">>, "approveAiMemory"),
  Patch(<<"projects", Id, "knowledge-base", "documents", Id, "reject-ai-memory">>, "rejectAiMemory"),
  Get(<<"projects", Id, "knowledge-base", "documents", Id, "comments">>, "listKnowledgeDocumentComments"),
  Post(<<"projects", Id, "knowledge-base", "documents", Id, "comments">>, "createKnowledgeDocumentComment"),
  Patch(<<"projects", Id, "knowledge-base", "comments", Id>>, "updateKnowledgeDocumentComment"),
  Delete(<<"projects", Id, "knowledge-base", "comments", Id>>, "deleteKnowledgeDocumentComment")>>

KnowledgeDocumentRoutes == <<
  Get(<<"projects", Id, "knowledge-base", "documents", Id>>, "getKnowledgeDocument"),
  Patch(<<"projects", Id, "knowledge-base", "documents", Id, "move">>, "moveKnowledgeDocument"),
  Patch(<<"projects", Id, "knowledge-base", "documents", Id, "restore">>, "restoreKnowledgeDocument"),
  Post(<<"projects", Id, "knowledge-base", "documents", Id, "duplicate">>, "duplicateKnowledgeDocument"),
  Patch(<<"projects", Id, "knowledge-base", "documents", Id>>, "updateKnowledgeDocument"),
  Delete(<<"projects", Id, "knowledge-base", "documents", Id>>, "deleteKnowledgeDocument"),
  Post(<<"projects", Id, "knowledge-base", "files", "upload">>, "uploadKnowledgeFiles"),
  Get(<<"projects", Id, "knowledge-base", "files", Id, "download">>, "downloadKnowledgeFile"),
  Get(<<"projects", Id, "knowledge-base", "files", Id, "preview">>, "previewKnowledgeFile"),
  Get(<<"projects", Id, "knowledge-base", "files", Id>>, "getKnowledgeFile"),
  Patch(<<"projects", Id, "knowledge-base", "files", Id, "move">>, "moveKnowledgeFile"),
  Patch(<<"projects", Id, "knowledge-base", "files", Id, "restore">>, "restoreKnowledgeFile"),
  Patch(<<"projects", Id, "knowledge-base", "files", Id>>, "updateKnowledgeFile"),
  Delete(<<"projects", Id, "knowledge-base", "files", Id>>, "deleteKnowledgeFile")>>

KnowledgeItemRoutes == <<
  Get(<<"projects", Id, "knowledge-base">>, "knowledge"),
  Post(<<"projects", Id, "knowledge-base">>, "createKnowledge"),
  Post(<<"projects", Id, "knowledge-base", "upload">>, "uploadKnowledge"),
  Get(<<"projects", Id, "knowledge-base", Id>>, "getKnowledge"),
  Patch(<<"projects", Id, "knowledge-base", Id>>, "updateKnowledge"),
  Delete(<<"projects", Id, "knowledge-base", Id>>, "deleteKnowledge"),
  Get(<<"projects", Id, "knowledge-base", Id, "file">>, "knowledgeFile")>>

IntegrationRoutes == <<
  Get(<<"workspace", "integrations", Id, "auth-url">>, "integrationAuthUrl"),
  Get(<<"workspace", "integrations", Id, "config">>, "integrationConfig"),
  Post(<<"workspace", "integrations", Id, "callback">>, "integrationCallback"),
  Delete(<<"workspace", "integrations", Id, "disconnect">>, "integrationDisconnect"),
  Get(<<"workspace", "integrations", Id, "status">>, "integrationStatus"),
  Get(<<"projects", Id, "jira", "status">>, "jiraStatus"),
  Get(<<"projects", Id, "jira", "projects">>, "jiraProjects"),
  Post(<<"projects", Id, "jira", "projects">>, "connectJiraProjects"),
  Post(<<"projects", Id, "jira", "sync">>, "syncJira"),
  Get(<<"projects", Id, "jira", "tickets">>, "jiraTickets"),
  Post(<<"projects", Id, "jira", "comment">>, "jiraComment"),
  Get(<<"projects", Id, "jira", "search-issues">>, "jiraSearchIssues"),
  Get(<<"projects", Id, "linear", "status">>, "linearStatus"),
  Get(<<"projects", Id, "linear", "teams">>, "linearTeams"),
  Post(<<"projects", Id, "linear", "teams">>, "connectLinearTeams"),
  Post(<<"projects", Id, "linear", "sync">>, "syncLinear"),
  Get(<<"projects", Id, "integrations", Id, "sync-status">>, "integrationSyncStatus"),
  Get(<<"projects", Id, "integrations", "sync-history">>, "integrationSyncHistory"),
  Get(<<"projects", Id, "linear", "tickets">>, "linearTickets"),
  Post(<<"projects", Id, "linear", "comment">>, "linearComment"),
  Get(<<"projects", Id, "linear", "search-issues">>, "linearSearchIssues")>>

ActivityRoutes == <<
  Get(<<"projects", Id, "tickets", "summary">>, "requirementsSummary"),
  Get(<<"projects", Id, "tickets">>, "allTickets"),
  Get(<<"projects", Id, "activity">>, "activity"),
  Get(<<"projects", Id, "activity", "summary">>, "activitySummary"),
  Get(<<"workspace", "activity">>, "workspaceActivity"),
  Get(<<"workspace", "activity", "summary">>, "workspaceActivitySummary"),
  Get(<<"notifications">>, "notifications"),
  Post(<<"notifications", Id, "read">>, "readNotification"),
  Get(<<"admin", "customers">>, "customers"),
  Get(<<"admin", "admins">>, "admins"),
  Get(<<"branding">>, "branding"),
  Get(<<"admin", "branding">>, "adminBranding"),
  Patch(<<"admin", "branding">>, "updateAdminBranding"),
  Post(<<"admin", "admins">>, "addAdmin"),
  Delete(<<"admin", "admins", Id>>, "removeAdmin")>>

PlaceholderRoutes == <<
  Get(<<"projects", Id, "tesbo-reports", "runs">>, "tesboRuns"),
  Get(<<"projects", Id, "tesbo-reports", "specs">>, "tesboSpecs"),
  Get(<<"projects", Id, "tesbo-reports", "tests">>, "tesboTests"),
  Get(<<"projects", Id, "tesbo-reports", "analytics">>, "tesboAnalytics"),
  Get(<<"projects", Id, "tesbo-reports", "alerts">>, "tesboAlerts"),
  Get(<<"projects", Id, "tesbo-reports", "settings">>, "tesboSettings")>>

SignupRoutes == <<
  Post(<<"auth", "signup", "start">>, "startSelfServeSignup"),
  Post(<<"auth", "signup", "verify">>, "verifySelfServeSignup"),
  Post(<<"invitations", Id, "register", "start">>, "startInviteRegistration"),
  Post(<<"invitations", Id, "register", "verify">>, "verifyInviteRegistration"),
  Post(<<"invitations", Id, "register", "otp", "start">>, "startInviteOtpRegistration"),
  Post(<<"invitations", Id, "register", "otp", "verify">>, "verifyInviteOtpRegistration")>>

CustomFieldRoutes == <<
  Get(<<"projects", Id, "custom-fields", "definitions">>, "listDefinitions"),
  Get(<<"projects", Id, "custom-fields", "definitions", Id>>, "getDefinition"),
  Post(<<"projects", Id, "custom-fields", "definitions">>, "createDefinition"),
  Patch(<<"projects", Id, "custom-fields", "definitions", Id>>, "updateDefinition"),
  Post(<<"projects", Id, "custom-fields", "definitions", "reorder">>, "reorderDefinitions"),
  Patch(<<"projects", Id, "custom-fields", "definitions", Id, "status">>, "setStatus"),
  Post(<<"projects", Id, "custom-fields", "definitions", Id, "options">>, "addOption"),
  Patch(<<"projects", Id, "custom-fields", "definitions", Id, "options", Id>>, "setOptionActive"),
  Delete(<<"projects", Id, "custom-fields", "definitions", Id>>, "deleteDefinition"),
  Get(<<"projects", Id, "testcases", Id, "custom-field-values">>, "getValues"),
  Put(<<"projects", Id, "testcases", Id, "custom-field-values">>, "setValues")>>

McpRoutes == <<
  Post(<<"projects", Id, "mcp">>, "handle")>>

BillingRoutes == <<
  Get(<<"billing">>, "getBillingInfo"),
  Get(<<"billing", "usage">>, "getUsageSummary"),
  Get(<<"billing", "history">>, "getBillingHistory"),
  Get(<<"billing", "invoices">>, "getInvoices"),
  Get(<<"billing", "pricing">>, "getPricing"),
  Post(<<"billing", "checkout-session">>, "createCheckoutSession"),
  Post(<<"billing", "reconcile">>, "reconcile"),
  Post(<<"billing", "portal-session">>, "createPortalSession"),
  Post(<<"billing", "webhook">>, "handleWebhook")>>

AutomationRoutes == <<
  Post(<<"projects", Id, "automation", "cases", "resolve">>, "resolveCases"),
  Post(<<"projects", Id, "automation", "runs">>, "createRun"),
  Get(<<"projects", Id, "automation", "runs", Id>>, "getRun"),
  Post(<<"projects", Id, "automation", "runs", Id, "results">>, "recordResult"),
  Post(<<"projects", Id, "automation", "runs", Id, "results", Id, "evidence">>, "uploadEvidence"),
  Patch(<<"projects", Id, "automation", "runs", Id, "close">>, "closeRun")>>

\* Mutant: the routes with an open first segment come before the ones they would take.
RoutesItemsFirst == FlattenSeq(<<
  AuthRoutes, AdminRoutes, SetupRoutes, HealthRoutes, WorkspaceRoutes, ProjectRoutes, TestCaseRoutes,
  PlanRoutes, CycleRoutes, ScheduleRoutes, BugRoutes, ExportRoutes, ReportRoutes, ZyraRoutes,
  KnowledgeItemRoutes, KnowledgeFolderRoutes, KnowledgeDocumentRoutes, IntegrationRoutes,
  ActivityRoutes, PlaceholderRoutes, SignupRoutes, CustomFieldRoutes, McpRoutes, BillingRoutes,
  AutomationRoutes>>)

\* app.module.ts scans Auth (and the Admin module it imports), Setup, Health, Legacy (and
\* the CustomFields module it imports), Mcp, Billing and Automation.
Routes ==
  AuthRoutes \o AdminRoutes \o SetupRoutes \o HealthRoutes \o WorkspaceRoutes \o ProjectRoutes \o TestCaseRoutes
  \o PlanRoutes \o CycleRoutes \o ScheduleRoutes \o BugRoutes \o ExportRoutes \o ReportRoutes \o ZyraRoutes
  \o KnowledgeFolderRoutes \o KnowledgeDocumentRoutes \o KnowledgeItemRoutes \o IntegrationRoutes
  \o ActivityRoutes \o PlaceholderRoutes \o SignupRoutes \o CustomFieldRoutes \o McpRoutes \o BillingRoutes
  \o AutomationRoutes

\* The Express router: a route fits a request of its method and length whose literal
\* segments are its own; a parameter takes any one segment.
Fits(route, method, path) ==
  /\ route.method = method /\ Len(route.path) = Len(path)
  /\ \A i \in DOMAIN path : route.path[i] \in {Id, path[i]}
=============================================================================
