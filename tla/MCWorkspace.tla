----------------------------- MODULE MCWorkspace -----------------------------
(***************************************************************************)
(* The workspace's services on one small instance.  The modules share no    *)
(* state, so a behaviour of the whole is one of each: every run of this     *)
(* model plays out in one area, and its states are the sum of the areas'.   *)
(***************************************************************************)
EXTENDS Repository, CustomFields, Access, SignIn, KnowledgeBase, ZyraTasks, ZyraChat, ZyraTurn,
        HttpGate, Reporter, TestCasesPage, TableColumns, Screens, LoginRedirect

VARIABLE area   \* the service this behaviour is about

Area == {"repository", "fields", "access", "sign_in", "knowledge", "tasks", "chat", "turn",
         "http", "reporter", "page", "columns", "screens", "login"}

Row(t, s, k, v) == [title |-> t, suite |-> s, component |-> k, valid |-> v]
MCFile == {<<Row("a", "x", "", TRUE), Row("b", "", "x", TRUE)>>,
           <<Row("a", "", "", FALSE), Row("a", "x", "", TRUE)>>,
           <<Row("b", "", "", TRUE), Row("b", "x", "x", TRUE)>>}

Markers(tags, unread, notes) == [tags |-> tags, unread |-> unread, notes |-> notes]
MCSuites == {<<Markers({1}, FALSE, {}), Markers({}, TRUE, {})>>, <<Markers({}, FALSE, {2})>>}

MCPrefs == {Prefs(<<2, 2, 9>>, [c \in {1} |-> FALSE])}

\* An area's own behaviours take the choices its Init leaves.
MCInit ==
  /\ area \in Area
  /\ RepositoryInit /\ CustomFieldsInit /\ KnowledgeInit /\ ZyraTasksInit /\ ZyraChatInit
  /\ AccessInit /\ project[Min(Project)].state \in (IF area = "access" THEN {"none", "live"} ELSE {"none"})
  /\ SignInInit /\ \A e \in Email : user[e].has \in (IF area = "sign_in" THEN BOOLEAN ELSE {FALSE})
  /\ HttpInit /\ PageInit
  /\ ReporterInit
  /\ \/ area = "reporter"
     \/ area /= "reporter" /\ rp.suite = <<Markers({}, FALSE, {2})>> /\ rp.config = "ok" /\ rp.ci = "local" /\ ~rp.strict
  /\ ColumnsInit /\ (area = "columns" \/ disk = Prefs(<<>>, DEFAULT_VISIBLE))
  /\ LoginInit /\ tab.to \in (IF area = "login" THEN Target ELSE {Min(Target)})
  /\ outside \in (IF area = "login" THEN [session : BOOLEAN, edge : BOOLEAN, storage : BOOLEAN]
                  ELSE {[session |-> FALSE, edge |-> FALSE, storage |-> FALSE]})
  /\ ScreensInit /\ screen \in (IF area = "screens" THEN DOMAIN AllScreens ELSE {"run"})
  /\ ZyraTurnInit
  /\ \/ area = "turn"
     \/ area /= "turn" /\ zSuite /\ capable.storage /\ capable.suites /\ \A c \in ZCase : zCase[c] = "none"

\* The areas other than the one at work.
Still(a) ==
  /\ area = a /\ UNCHANGED area
  /\ IF a = "repository" THEN TRUE ELSE UNCHANGED repoVars
  /\ IF a = "fields"     THEN TRUE ELSE UNCHANGED cfVars
  /\ IF a = "access"     THEN TRUE ELSE UNCHANGED accessVars
  /\ IF a = "sign_in"    THEN TRUE ELSE UNCHANGED signInVars
  /\ IF a = "knowledge"  THEN TRUE ELSE UNCHANGED kbVars
  /\ IF a = "tasks"      THEN TRUE ELSE UNCHANGED ztVars
  /\ IF a = "chat"       THEN TRUE ELSE UNCHANGED zcVars
  /\ IF a = "turn"       THEN TRUE ELSE UNCHANGED ztnVars
  /\ IF a = "http"       THEN TRUE ELSE UNCHANGED httpVars
  /\ IF a = "reporter"   THEN TRUE ELSE UNCHANGED reporterVars
  /\ IF a = "page"       THEN TRUE ELSE UNCHANGED tcpVars
  /\ IF a = "columns"    THEN TRUE ELSE UNCHANGED tcVars
  /\ IF a = "screens"    THEN TRUE ELSE UNCHANGED screenVars
  /\ IF a = "login"      THEN TRUE ELSE UNCHANGED loginVars

MCNext ==
  \/ Still("repository") /\ RepositoryNext
  \/ Still("fields") /\ CustomFieldsNext
  \/ Still("access") /\ AccessNext
  \/ Still("sign_in") /\ SignInNext
  \/ Still("knowledge") /\ KnowledgeNext
  \/ Still("tasks") /\ ZyraTasksNext
  \/ Still("chat") /\ ZyraChatNext
  \/ Still("turn") /\ ZyraTurnNext
  \/ Still("http") /\ HttpNext
  \/ Still("reporter") /\ ReporterNext
  \/ Still("page") /\ PageNext
  \/ Still("columns") /\ ColumnsNext
  \/ Still("screens") /\ ScreensNext
  \/ Still("login") /\ LoginNext

MCSpec == MCInit /\ [][MCNext]_<<area, repoVars, cfVars, accessVars, signInVars, kbVars, ztVars, zcVars, ztnVars,
                             httpVars, reporterVars, tcpVars, tcVars, screenVars, loginVars>>

\* Only the variables of the area at work can differ between two states of its behaviours.
MCView ==
  <<area, CASE area = "repository" -> repoVars [] area = "fields" -> cfVars [] area = "access" -> accessVars
            [] area = "sign_in" -> signInVars [] area = "knowledge" -> kbVars [] area = "tasks" -> ztVars
            [] area = "chat" -> zcVars [] area = "turn" -> ztnVars
            [] area = "http" -> httpVars [] area = "reporter" -> reporterVars [] area = "page" -> tcpVars
            [] area = "columns" -> tcVars [] area = "screens" -> screenVars [] area = "login" -> loginVars>>

(***************************************************************************)
(* The properties, each of its area: elsewhere the area's state is initial. *)
(***************************************************************************)

\* Repository: an id drawn under the lock is free when it is inserted, an import reports
\* every row once and writes no title twice, and the suites' counts, the list and the
\* export show the same cases.
RepositoryAgrees == area = "repository" => LockedIdsFree /\ ImportAccounts /\ ImportNoTwins /\ RepositoryViewsAgree

\* CustomFields: the labels of a field are distinct, a required field of a saved case
\* stays filled, and a filter and its negation split the cases.
FieldsSound == area = "fields" => OptionLabelsDistinct /\ RequiredStaysFilled /\ FiltersSplit

\* Access: nobody holds a role that no one entitled to has granted, project members are
\* members of the project's workspace, and concurrent creations exceed the project limit
\* by at most their number.
AccessHolds == area = "access" => RolesAreGranted /\ WorkspaceBoundary /\ ProjectLimitSlack

\* SignIn: sessions and codes answer only for a credential that is still good.
SignInHolds == area = "sign_in" => CredentialsHold

\* KnowledgeBase: no sequence of moves, deletions and restorations loses what was kept.
KnowledgeHolds == area = "knowledge" => KnowledgeKept

\* ZyraTasks: a task that was settled stays settled, the review shows the latest drafts,
\* and every waiting task is answered by one generation, while its job, feedback, closing
\* and saving write the row at the same time (processZyraTask, zyraFeedback).
TasksHold == area = "tasks" => TasksSound

\* ZyraChat: no scenario of a plan is skipped or counted twice, and a plan that says it is
\* running has a loop at work on it, through stops, resumptions, failures and restarts
\* (continueZyraChatPlan, resumeInterruptedZyraChatPlans).
PlanHolds == area = "chat" => PlanSound

\* ZyraTurn: the agent's own words stand uncorrected only if all it said it did was done,
\* whatever was gated or deleted meanwhile (reconcileZyraReply).
ReplyHolds == area = "turn" => ReplyHonest

\* HttpGate: every call of the clients lands on the handler declared for its path, a token
\* acts in its own project only, and a locked project is changed by none of its routes
\* (the controllers' order, assertTokenScope, ProjectWriteLockGuard).
GateHolds == area = "http" => HttpSound

\* Reporter: a result that did not reach the server is owned up to in the summary, one CI
\* session opens one run, and only a project that asked for it has its suite stopped
\* (TesboReporter, TesboClient.request, createRun).
ReporterHolds == area = "reporter" => ReporterHonest

\* TestCasesPage: a busy flag is up exactly while one handler of its kind is on its way, so
\* nothing is sent twice and no button stays disabled (handlePanelSubmit, the bulk actions).
PageHolds == area = "page" => CasePageLocks

\* TableColumns: no column is lost or doubled, the locked ones are shown, and what the user
\* arranged survives every reload (normalizeDataOrder, the preferences' effects).
ColumnsHold == area = "columns" => ColumnsKept

\* Screens: nothing is created twice by a second click, no button stays disabled, a handler
\* that ends has shown what it wrote, an answer closes no dialog opened after it, and no
\* form is sent again after its row was made; the exceptions the code has are listed by name.
ScreensHold == area = "screens" => ScreensSound

\* LoginRedirect: the sign-in page sends a user onward once, and says that it could not open
\* the destination only to one who came back (isRedirectBounce, the deadline).
LoginHolds == area = "login" => LoginSettles
=============================================================================
