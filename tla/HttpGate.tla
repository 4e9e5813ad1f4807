------------------------------ MODULE HttpGate ------------------------------
(***************************************************************************)
(* One HTTP request on its way to a handler: the session and API-token      *)
(* middleware, the router, the plan's write lock, and the checks that the   *)
(* automation and MCP controllers make on a token; then the answer as the   *)
(* web app's api() and the reporter's client read it.  The requests are     *)
(* those the clients make (ApiClient), the routes those the controllers     *)
(* declare (Routes).                                                        *)
(***************************************************************************)
EXTENDS Naturals, FiniteSets, Sequences, SequencesExt

Api == INSTANCE ApiClient

CONSTANT HProject    \* projects

VARIABLES
  hreq,      \* the request in flight, or NoRequest
  hlocked    \* the projects beyond the plan's allowance once the grace window has closed

httpVars == <<hreq, hlocked>>

NoRequest == [at |-> "none"]
NoToken   == [project |-> 0, scopes |-> {}]

\* normalizeScopes keeps the known scopes and falls back to both: a token has at least one.
Token == [project : HProject, scopes : {{"read"}, {"write"}, {"read", "write"}}]

\* The MCP tools and the scope each requires; one of them takes an execution by its id.
McpTool == {[name |-> n, scope |-> "read"] : n \in {"list_projects", "list_testcases", "get_requirement_matrix"}}
           \cup {[name |-> n, scope |-> "write"] : n \in
                   {"create_testcase", "create_suite", "create_cycle_from_plan", "record_execution_result", "create_bug"}}
NoTool == [name |-> "", scope |-> "read"]

HttpInit == hreq = NoRequest /\ hlocked = {}

----------------------------------------------------------------------------
(* The plan: a downgrade's grace window closes, or the workspace upgrades   *)
(* or archives another project.                                             *)

PlanMoves ==
  /\ \E p \in HProject : hlocked' = (IF p \in hlocked THEN hlocked \ {p} ELSE hlocked \cup {p})
  /\ UNCHANGED hreq

----------------------------------------------------------------------------
(* The clients.  The browser always sends its cookie (credentials:          *)
(* "include"), good or expired; a machine client sends a bearer token.      *)

HttpRequest(c, cookie, bearer, p, tool, owner) ==
  [at |-> "middleware", call |-> c, cookie |-> cookie, bearer |-> bearer, project |-> p, tool |-> tool,
   owner |-> owner, user |-> FALSE, token |-> NoToken, route |-> 0, locked |-> FALSE]

BrowserSends ==
  /\ hreq.at = "none" /\ UNCHANGED hlocked
  /\ \E c \in Api!BrowserCalls \cup Api!RetiredCalls, cookie \in BOOLEAN, p \in HProject :
       hreq' = HttpRequest(c, cookie, NoToken, p, NoTool, p)

ReporterSends ==
  /\ hreq.at = "none" /\ UNCHANGED hlocked
  /\ \E c \in ToSet(Api!ReporterCalls), t \in Token \cup {NoToken}, p \in HProject :
       hreq' = HttpRequest(c, FALSE, t, p, NoTool, p)

\* owner: the project of the execution whose id the arguments name.
McpClientSends ==
  /\ hreq.at = "none" /\ UNCHANGED hlocked
  /\ \E tool \in McpTool, t \in Token \cup {NoToken}, p, owner \in HProject :
       hreq' = HttpRequest(Api!McpCall, FALSE, t, p, tool, owner)

----------------------------------------------------------------------------
(* The server.                                                              *)

\* AuthMiddleware.use: the session decides; a bearer token is looked up only without one.
\* It never refuses: next() is called whoever is asking.
use ==
  /\ hreq.at = "middleware" /\ UNCHANGED hlocked
  /\ hreq' = IF hreq.cookie \/ hreq.bearer = NoToken
               THEN [hreq EXCEPT !.at = "router", !.user = hreq.cookie]
               ELSE [hreq EXCEPT !.at = "router", !.user = TRUE, !.token = hreq.bearer]

Fitting(c) == {k \in DOMAIN Api!Routes : Api!Fits(Api!Routes[k], c.method, c.path)}

\* The router stops at the first route that fits.
dispatchRoute ==
  /\ hreq.at = "router" /\ UNCHANGED hlocked
  /\ LET fit == Fitting(hreq.call) IN
       hreq' = IF fit = {} THEN [hreq EXCEPT !.at = "not_found"]
               ELSE [hreq EXCEPT !.at = "guard", !.route = CHOOSE k \in fit : \A j \in fit : k <= j]

SafeMethods == {"GET", "HEAD", "OPTIONS"}
ProjectPath(path) == Len(path) >= 2 /\ path[1] = "projects" /\ path[2] = Api!Id
Archives(c) == c.method = "DELETE" /\ Len(c.path) = 2

\* What the write lock looks at: a write under a project's own path, unless it archives it.
LockApplies(c) == c.method \notin SafeMethods /\ ProjectPath(c.path) /\ ~Archives(c)

\* ProjectWriteLockGuard.canActivate (and assertProjectWritable behind it).
canActivate ==
  /\ hreq.at = "guard" /\ UNCHANGED hlocked
  /\ hreq' = [hreq EXCEPT !.locked = hreq.project \in hlocked,
                          !.at = IF LockApplies(hreq.call) /\ hreq.project \in hlocked THEN "refused" ELSE "handler"]

\* The scope each automation handler asks assertTokenScope for.
RequiredScope(name) == IF name \in {"resolveCases", "getRun"} THEN "read" ELSE "write"

\* AutomationController.assertTokenScope: a session passes to the service's own check.
assertTokenScope(name) ==
  IF hreq.token = NoToken THEN hreq.user
  ELSE hreq.token.project = hreq.project /\ RequiredScope(name) \in hreq.token.scopes

\* record_execution_result resolves the execution's project before it writes.
ownsExecution == hreq.tool.name = "record_execution_result" => hreq.owner = hreq.token.project

\* McpService.handleRequest and callTool: the token's project, the tool's scope, the tool.
mcpAllows ==
  /\ hreq.token /= NoToken
  /\ hreq.token.project = hreq.project
  /\ hreq.tool.scope \in hreq.token.scopes
  /\ ownsExecution

\* The handler runs, or its controller refuses the caller first.
handle ==
  /\ hreq.at = "handler" /\ UNCHANGED hlocked
  /\ LET name == Api!Routes[hreq.route].name
         may == CASE Api!Routes[hreq.route] \in ToSet(Api!AutomationRoutes) -> assertTokenScope(name)
                  [] Api!Routes[hreq.route] \in ToSet(Api!McpRoutes) -> mcpAllows
                  [] OTHER -> TRUE
     IN hreq' = [hreq EXCEPT !.at = IF may THEN "handled" ELSE "refused"]

----------------------------------------------------------------------------
(* The answer: api() throws on a status that is not ok, returns undefined   *)
(* for 204 or a blank body and the parsed JSON otherwise.  The three lead   *)
(* the client to the same place here: the request is over.                  *)

Answered ==
  /\ hreq.at \in {"handled", "refused", "not_found"}
  /\ hreq' = NoRequest /\ UNCHANGED hlocked

HttpNext == PlanMoves \/ BrowserSends \/ ReporterSends \/ McpClientSends
            \/ use \/ dispatchRoute \/ canActivate \/ handle \/ Answered

HttpSpec == HttpInit /\ [][HttpNext]_httpVars

----------------------------------------------------------------------------
\* A request lands on the handler declared for its own path: the route the router
\* stopped at has a parameter exactly where the client put an identifier, and only the
\* calls no screen makes find no route.
CallsLand ==
  /\ hreq.at \in {"guard", "handler", "handled"} => Api!Routes[hreq.route].path = hreq.call.path
  /\ hreq.at = "not_found" => hreq.call \in Api!RetiredCalls

\* A token never drives another project's data: what the automation and MCP handlers run
\* for a token is in its own project, the execution it names included.
TokensStayHome ==
  hreq.at = "handled" /\ hreq.token /= NoToken =>
    /\ hreq.project = hreq.token.project
    /\ hreq.tool.name = "record_execution_result" => hreq.owner = hreq.token.project

\* A project that was read-only when the guard looked is changed through none of its own
\* routes, except to archive it.
LockedStaysReadable ==
  hreq.at = "handled" /\ hreq.locked /\ ProjectPath(hreq.call.path) =>
    hreq.call.method \in SafeMethods \/ Archives(hreq.call)

HttpSound == CallsLand /\ TokensStayHome /\ LockedStaysReadable
=============================================================================
