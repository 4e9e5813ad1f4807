---------------------------- MODULE AgentScreens ----------------------------
(***************************************************************************)
(* The screens of the agent: the chat with Zyra, the board of its tasks,    *)
(* one task with its drafts, and the agent's settings.                      *)
(***************************************************************************)
EXTENDS ScreenScript

----------------------------------------------------------------------------
(* agents/zyra/page.tsx *)

refreshSessions == {"sessions"}

\* The answer becomes the open chat, whichever was opened last.
openSession == Handler("openSession", {}, <<Load({"chat"})>>, {})

createSession == Handler("createSession", {"creatingSessionRef"},
  <<Up("creatingSessionRef"), Up("creatingSession"), Make(refreshSessions), Patch(refreshSessions)>>,
  {"creatingSessionRef", "creatingSession"})

\* While a plan runs, the chat is read again every three seconds.
pollChat == Handler("poll", {}, <<Load({"chat"})>>, {})

\* The message is shown before it is sent and taken back when it fails.
submitMessage == HandlerC("submitMessage", {"sending"},
  <<Up("sending"), Make({"chat", "sessions"}), Patch({"chat"}), Send(refreshSessions)>>, {"sending"}, <<Patch({"chat"})>>)

handleStopPlan   == Handler("handleStopPlan", {"stoppingPlan"}, <<Up("stoppingPlan"), Write({"chat"}), Patch({"chat"})>>, {"stoppingPlan"})
handleResumePlan == Handler("handleResumePlan", {"stoppingPlan"}, <<Up("stoppingPlan"), Write({"chat"}), Patch({"chat"})>>, {"stoppingPlan"})

SessionList == {Control(Page, createSession, {"creatingSession"}), RowControl(Page, openSession, {})}
ChatForm    == {Control(Page, submitMessage, {"sending"}), Control(Page, handleStopPlan, {"stoppingPlan"}),
                Control(Page, handleResumePlan, {"stoppingPlan"}), Timer(pollChat)}

ZyraScreen == Screen({}, SessionList \cup ChatForm)

----------------------------------------------------------------------------
(* agents/tasks/page.tsx and TaskQuickViewPanel.tsx *)

loadTasks == {"tasks"}

refreshTasks == Handler("refreshTasks", {"pollInFlightRef"}, <<Up("pollInFlightRef"), Load(loadTasks)>>, {"pollInFlightRef"})

handleCreateTask == Handler("handleCreateTask", {},
  <<Up("working"), Make(loadTasks), Hide("create"), Load(loadTasks)>>, {"working"})

\* The panel's own Close.
handleCloseFromPanel == Handler("handleCloseTask", {}, <<Up("closing"), Write(loadTasks), Patch(loadTasks)>>, {"closing"})

CreateTaskModal == Control("create", handleCreateTask, {"working"})
QuickViewPanel  == Control("quickView", handleCloseFromPanel, {"closing"})

TaskBoardScreen == Screen({Dialog("create", Page, {"working"}), Dialog("quickView", Page, {})},
                          {CreateTaskModal, QuickViewPanel, Timer(refreshTasks)})

----------------------------------------------------------------------------
(* agents/tasks/[taskId]/page.tsx *)

loadTask == {"task"}

refreshTask == Handler("refreshTask", {"pollInFlightRef"}, <<Up("pollInFlightRef"), Load(loadTask)>>, {"pollInFlightRef"})

handleFeedback    == Handler("handleFeedback", {}, <<Up("working"), Write(loadTask), Patch(loadTask), Load(loadTask)>>, {"working"})
handleDeleteDraft == Handler("handleDeleteDraft", {}, <<Up("working"), Write(loadTask), Patch(loadTask)>>, {"working"})
handleCloseTask   == Handler("handleCloseTask", {}, <<Up("working"), Write(loadTask), Patch(loadTask), Load(loadTask)>>, {"working"})

\* Two drafts, one request each, the page told after the last.
handleDeleteSelectedDrafts == Handler("handleDeleteSelectedDrafts", {},
  <<Up("working"), Write(loadTask), Write(loadTask), Patch(loadTask)>>, {"working"})

\* A new suite first, then the drafts in it.
handleSave == Handler("handleSave", {},
  <<Up("working"), Make({}), Write(loadTask), Hide("save"), Load(loadTask)>>, {"working"})

TaskHeader   == Control(Page, handleCloseTask, {"working"})
DraftTable   == {Control(Page, handleDeleteDraft, {"working"}), Control(Page, handleDeleteSelectedDrafts, {"working"})}
FeedbackForm == Control(Page, handleFeedback, {"working"})
SaveModal    == Control("save", handleSave, {"working"})

TaskScreen == Screen({Dialog("save", Page, {})}, {TaskHeader, FeedbackForm, SaveModal, Timer(refreshTask)} \cup DraftTable)

----------------------------------------------------------------------------
(* agents/zyra/settings/page.tsx *)

handleSaveSettings   == Handler("handleSaveSettings", {}, <<Up("saving"), Write({"settings"}), Load({"settings"})>>, {"saving"})
handleTestConnection == Handler("handleTestConnection", {}, <<Up("testing"), Write({})>>, {"testing"})

ZyraSettingsForm == {Control(Page, handleTestConnection, {"testing"}), Control(Page, handleSaveSettings, {"saving"})}

ZyraSettingsScreen == Screen({}, ZyraSettingsForm)
=============================================================================
