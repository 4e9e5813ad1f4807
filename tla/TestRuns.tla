------------------------------ MODULE TestRuns ------------------------------
(***************************************************************************)
(* Plans, test runs ("cycles"), their executions, bugs and the automation   *)
(* ingest: the tables plans, plan_items, cycles, cycle_items, executions,   *)
(* bugs and bug_links of one project, and every handler that writes them    *)
(* (LegacyService and AutomationService).                                   *)
(*                                                                         *)
(* A statement of Postgres, or a transaction, is one step.  A handler of    *)
(* several statements whose first reads decide its later writes occupies a  *)
(* Slot between its steps, so that other handlers run in between.  Titles,  *)
(* descriptions and other texts, durations and stacks are left out: nothing *)
(* the handlers decide depends on them.  A cycle item and its execution are *)
(* inserted by one statement and deleted together, and are one row here.    *)
(***************************************************************************)
EXTENDS Naturals, FiniteSets

CONSTANTS
  Case, Plan, Cycle, Bug, Person,  \* ids the database may hand out
  None,                            \* SQL's NULL
  Chosen,                          \* the statuses testers and CI record
  Slot,                            \* requests that may be in flight at once
  MaxExecs,                        \* executions ever inserted
  MaxRequests                      \* requests ever made

\* EXECUTION_STATUSES
Status == {"Untested", "Passed", "Failed", "Blocked", "Skipped", "Retest"}
CycleStatus == {"Planning", "In Progress", "Completed"}

ASSUME RunsConstants ==
  /\ None \notin Case \cup Plan \cup Cycle \cup Bug \cup Person
  /\ IsFiniteSet(Case)
  /\ Chosen \subseteq Status
  /\ Slot \subseteq Nat /\ Cycle \subseteq Nat
  /\ MaxExecs \in Nat /\ MaxRequests \in Nat

Exec == 1 .. MaxExecs

VARIABLES
  caseRow,    \* testcases: "live", "deleted" (softly) or "gone"
  planItem,   \* plan_items: the cases of each plan; None for no such plan
  cycleRow,   \* cycles
  execRow,    \* cycle_items with their executions
  lastExec,   \* the execution inserted last
  bugRow,     \* bugs: the execution their first link named, if any
  bugLink,    \* bug_links
  slot,       \* the handlers between two of their statements
  requests,   \* the requests made so far
  owed        \* history: executions linked to a bug that have not been failed since

rows  == <<caseRow, planItem, cycleRow, execRow, lastExec, bugRow, bugLink>>
rvars == <<rows, slot, requests, owed>>

NoCycle == [source |-> "none", plan |-> None, status |-> "Planning", started |-> FALSE,
            ended |-> FALSE, closed |-> "no", external |-> FALSE, token |-> 0,
            shared |-> FALSE]
NoExec  == [cycle |-> None, case |-> None, status |-> "Untested", assignee |-> None,
            defect |-> FALSE]
NoBug   == [status |-> "none", exec |-> 0]
Idle    == [op |-> "idle", cycle |-> None, case |-> None, bug |-> None, ids |-> {},
            links |-> {}, cases |-> {}, status |-> "none", assignee |-> None,
            external |-> FALSE, token |-> 0]

RunsInit ==
  /\ caseRow = [c \in Case |-> "live"]
  /\ planItem = [p \in Plan |-> [state |-> "none", cases |-> {}]]
  /\ cycleRow = [k \in Cycle |-> NoCycle]
  /\ execRow = [e \in Exec |-> NoExec]
  /\ lastExec = 0
  /\ bugRow = [b \in Bug |-> NoBug]
  /\ bugLink = {}
  /\ slot = [s \in Slot |-> Idle]
  /\ requests = 0
  /\ owed = {}

Live   == {c \in Case : caseRow[c] = "live"}
Plans  == {p \in Plan : planItem[p].state = "live"}
Cycles == {k \in Cycle : cycleRow[k].source \in {"manual", "automation"}}
Bugs   == {b \in Bug : bugRow[b].status \in {"Open", "Closed"}}

\* executions: the rows of one run
executions(k) == {e \in Exec : execRow[e].cycle = k}
Executions    == {e \in Exec : execRow[e].cycle /= None}
InRun(k)      == {execRow[e].case : e \in executions(k)}

\* Every request passes requireUser and the access check of its project, plan,
\* cycle or bug first; the module has one project, whose members make them.
Request == requests < MaxRequests /\ requests' = requests + 1

\* Slots are alike; a request takes the first free one.
Open(s, r) ==
  /\ slot[s].op = "idle"
  /\ \A t \in Slot : t < s => slot[t].op /= "idle"
  /\ slot' = [slot EXCEPT ![s] = r]
Go(s, r)    == slot' = [slot EXCEPT ![s] = r]
Finish(s)   == slot' = [slot EXCEPT ![s] = Idle]

-----------------------------------------------------------------------------
(* Foreign keys: what Postgres does to the rows that name a deleted one *)

\* ON DELETE SET NULL of bugs.execution_id, and of cycle_id and execution_id in
\* bug_links, for the executions es and the runs ks that are deleted.
UnlinkBugs(es, ks, cs) ==
  /\ bugRow' = [b \in Bug |-> IF bugRow[b].exec \in es
                              THEN [bugRow[b] EXCEPT !.exec = 0] ELSE bugRow[b]]
  /\ bugLink' = {[l EXCEPT !.cycle = IF @ \in ks THEN None ELSE @,
                           !.exec = IF @ \in es THEN 0 ELSE @] :
                 l \in {x \in bugLink : x.case \notin cs}}

\* cycle_items and their executions go with their run or their case.
DeleteExecs(es) ==
  execRow' = [e \in Exec |-> IF e \in es THEN NoExec ELSE execRow[e]]

-----------------------------------------------------------------------------
(* The repository's part: test cases leave softly, or for good with a suite *)

deleteTestCase(c) ==
  /\ Request
  /\ caseRow[c] = "live"
  /\ caseRow' = [caseRow EXCEPT ![c] = "deleted"]
  /\ UNCHANGED <<planItem, cycleRow, execRow, lastExec, bugRow, bugLink, slot>>

\* deleteSuite with mode deleteTestcases: DELETE, with all its cascades.
deleteSuiteWithCases(c) ==
  /\ Request
  /\ caseRow[c] /= "gone"
  /\ caseRow' = [caseRow EXCEPT ![c] = "gone"]
  /\ planItem' = [p \in Plan |-> [planItem[p] EXCEPT !.cases = @ \ {c}]]
  /\ LET es == {e \in Exec : execRow[e].case = c}
     IN  DeleteExecs(es) /\ UnlinkBugs(es, {}, {c})
  /\ UNCHANGED <<cycleRow, lastExec, slot>>

-----------------------------------------------------------------------------
(* Plans *)

createPlan(p) ==
  /\ Request
  /\ planItem[p].state = "none"
  /\ planItem' = [planItem EXCEPT ![p].state = "live"]
  /\ UNCHANGED <<caseRow, cycleRow, execRow, lastExec, bugRow, bugLink, slot>>

addPlanItem(p, c) ==
  /\ Request
  /\ p \in Plans
  /\ caseRow[c] /= "gone"
  /\ c \notin planItem[p].cases
  /\ planItem' = [planItem EXCEPT ![p].cases = @ \cup {c}]
  /\ UNCHANGED <<caseRow, cycleRow, execRow, lastExec, bugRow, bugLink, slot>>

deletePlanItem(p, c) ==
  /\ Request
  /\ c \in planItem[p].cases
  /\ planItem' = [planItem EXCEPT ![p].cases = @ \ {c}]
  /\ UNCHANGED <<caseRow, cycleRow, execRow, lastExec, bugRow, bugLink, slot>>

\* Items cascade; cycles.plan_id is set to NULL.
deletePlan(p) ==
  /\ Request
  /\ p \in Plans
  /\ planItem' = [planItem EXCEPT ![p] = [state |-> "deleted", cases |-> {}]]
  /\ cycleRow' = [k \in Cycle |-> IF cycleRow[k].plan = p
                                  THEN [cycleRow[k] EXCEPT !.plan = None] ELSE cycleRow[k]]
  /\ UNCHANGED <<caseRow, execRow, lastExec, bugRow, bugLink, slot>>

-----------------------------------------------------------------------------
(* Test runs *)

\* Ids are fresh; which one is handed out does not matter.
FreshCycle(k) ==
  /\ cycleRow[k].source = "none"
  /\ \A j \in Cycle : j < k => cycleRow[j].source /= "none"

\* A plan that does not exist violates the foreign key.
createCycle(k, p) ==
  /\ Request
  /\ FreshCycle(k)
  /\ p \in Plans \cup {None}
  /\ cycleRow' = [cycleRow EXCEPT ![k] = [NoCycle EXCEPT !.source = "manual", !.plan = p]]
  /\ UNCHANGED <<caseRow, planItem, execRow, lastExec, bugRow, bugLink, slot>>

\* Mutant: going back to Planning keeps the end.
UpdatedCycleKeepsEnd(r, status, plan) ==
  [r EXCEPT !.status = status, !.plan = plan,
            !.started = @ \/ status \in {"In Progress", "Completed"},
            !.ended = \/ status = "Completed"
                      \/ status /= "In Progress" /\ @]

\* The UPDATE: the clock is driven by the status the request names.
UpdatedCycle(r, status, plan) ==
  [r EXCEPT !.status = status, !.plan = plan,
            !.started = @ \/ status \in {"In Progress", "Completed"},
            !.ended = status = "Completed"]

\* clearPlan, planId or neither; status or not.  A request that names neither only
\* changes texts.
updateCycle(k, status, plan) ==
  /\ Request
  /\ k \in Cycles
  /\ plan \in Plans \cup {None, cycleRow[k].plan}
  /\ <<status, plan>> /= <<"none", cycleRow[k].plan>>
  /\ cycleRow' = [cycleRow EXCEPT ![k] =
       IF status = "none" THEN [@ EXCEPT !.plan = plan] ELSE UpdatedCycle(@, status, plan)]
  /\ UNCHANGED <<caseRow, planItem, execRow, lastExec, bugRow, bugLink, slot>>

deleteCycle(k) ==
  /\ Request
  /\ k \in Cycles
  /\ cycleRow' = [cycleRow EXCEPT ![k] = [NoCycle EXCEPT !.source = "deleted"]]
  /\ DeleteExecs(executions(k))
  /\ UnlinkBugs(executions(k), {k}, {})
  /\ UNCHANGED <<caseRow, planItem, lastExec, slot>>

\* The first statement reads the token, the second writes it with share_enabled.
shareCycle(s, k) ==
  /\ Request
  /\ k \in Cycles
  /\ Open(s, [Idle EXCEPT !.op = "share", !.cycle = k,
                          !.token = IF cycleRow[k].token = 0 THEN requests + 1
                                    ELSE cycleRow[k].token])
  /\ UNCHANGED rows

ShareWrite(s, enabled) ==
  /\ slot[s].op = "share"
  /\ Finish(s)
  /\ cycleRow' = IF slot[s].cycle \in Cycles
                 THEN [cycleRow EXCEPT ![slot[s].cycle].token = slot[s].token,
                                       ![slot[s].cycle].shared = enabled]
                 ELSE cycleRow
  /\ UNCHANGED <<caseRow, planItem, execRow, lastExec, bugRow, bugLink, requests>>

\* publicCycle: the run that a share link shows.
publicCycle(token) == {k \in Cycles : cycleRow[k].shared /\ cycleRow[k].token = token}

\* publicCycleExecutions: what the link publishes of each of its rows.
publicCycleExecutions(token) ==
  {<<execRow[e].status, execRow[e].case>> : e \in UNION {executions(k) : k \in publicCycle(token)}}

Numbering(S, n) ==
  CHOOSE f \in [S -> (n + 1) .. (n + Cardinality(S))] : \A x, y \in S : f[x] = f[y] => x = y

\* Mutant: an item that is already in the run is inserted again.
AddCasesTwice(k, cs) ==
  LET new == cs \cap Live
      id  == Numbering(new, lastExec)
  IN  /\ lastExec + Cardinality(new) <= MaxExecs
      /\ execRow' = [e \in Exec |-> IF \E c \in new : id[c] = e
                       THEN [NoExec EXCEPT !.cycle = k, !.case = CHOOSE c \in new : id[c] = e]
                       ELSE execRow[e]]
      /\ lastExec' = lastExec + Cardinality(new)

\* INSERT INTO cycle_items ... ON CONFLICT DO NOTHING with its executions, for the
\* live cases among cs that the run does not hold yet.
AddCases(k, cs) ==
  LET new == (cs \cap Live) \ InRun(k)
      id  == Numbering(new, lastExec)
  IN  /\ lastExec + Cardinality(new) <= MaxExecs
      /\ execRow' = [e \in Exec |-> IF \E c \in new : id[c] = e
                       THEN [NoExec EXCEPT !.cycle = k, !.case = CHOOSE c \in new : id[c] = e]
                       ELSE execRow[e]]
      /\ lastExec' = lastExec + Cardinality(new)

addCycleTestCases(k, cs) ==
  /\ Request
  /\ k \in Cycles
  /\ AddCases(k, cs)
  /\ UNCHANGED <<caseRow, planItem, cycleRow, bugRow, bugLink, slot>>

\* removeCycleTestCases, and removeCycleTestCase for a single one
removeCycleTestCases(k, cs) ==
  /\ Request
  /\ k \in Cycles
  /\ LET es == {e \in executions(k) : execRow[e].case \in cs}
     IN  DeleteExecs(es) /\ UnlinkBugs(es, {}, {})
  /\ UNCHANGED <<caseRow, planItem, cycleRow, lastExec, slot>>

-----------------------------------------------------------------------------
(* Results recorded by hand *)

\* The UPDATE of updateExecution; "none" is a status the request does not name.
\* The assignee is written as sent, absent or not.
Patched(r, status, assignee, defect) ==
  [r EXCEPT !.status = IF status = "none" THEN @ ELSE status,
            !.assignee = assignee,
            !.defect = status \in {"none", "Failed"} /\ (defect \/ @)]

updateExecution(e, status, assignee, defect) ==
  /\ Request
  /\ e \in Executions
  /\ execRow' = [execRow EXCEPT ![e] = Patched(@, status, assignee, defect)]
  /\ UNCHANGED <<caseRow, planItem, cycleRow, lastExec, bugRow, bugLink, slot>>

\* bulkUpdateExecutionStatus and bulkAssignExecutions, up to and with
\* resolveBulkExecutions: all of the executions are in the run, or nothing happens.
\* A selection of one is updateExecution.
Bulk(s, k, es, status, assignee) ==
  /\ Request
  /\ es \subseteq executions(k)
  /\ Cardinality(es) > 1
  /\ Open(s, [Idle EXCEPT !.op = "bulk", !.ids = es, !.status = status,
                          !.assignee = assignee])
  /\ UNCHANGED rows

\* One updateExecution of the loop; a row that is gone ends it with an error.
BulkStep(s, e) ==
  /\ slot[s].op = "bulk"
  /\ e \in slot[s].ids
  /\ IF e \in Executions
     THEN /\ execRow' = [execRow EXCEPT ![e] =
                           Patched(@, slot[s].status, slot[s].assignee, FALSE)]
          /\ Go(s, IF slot[s].ids = {e} THEN Idle ELSE [slot[s] EXCEPT !.ids = @ \ {e}])
     ELSE Finish(s) /\ UNCHANGED execRow
  /\ UNCHANGED <<caseRow, planItem, cycleRow, lastExec, bugRow, bugLink, requests>>

-----------------------------------------------------------------------------
(* Bugs *)

LinkInput == [case : Case \cup {None}, cycle : Cycle \cup {None}, exec : {0} \cup Exec]

\* sanitizeBugLinks: targets that do not exist are dropped, empty links too.
sanitizeBugLinks(ls) ==
  {[case |-> IF l.case \in Live THEN l.case ELSE None,
    cycle |-> IF l.cycle \in Cycles THEN l.cycle ELSE None,
    exec |-> IF l.exec \in Executions THEN l.exec ELSE 0] : l \in ls}
  \ {[case |-> None, cycle |-> None, exec |-> 0]}

\* The foreign keys of a link hold; a softly deleted case still has its row.
Resolves(l) ==
  /\ l.case \in {None} \cup {c \in Case : caseRow[c] /= "gone"}
  /\ l.cycle \in Cycles \cup {None}
  /\ l.exec \in Executions \cup {0}

\* ON CONFLICT (bug_id, testcase_id, cycle_id) DO NOTHING, where NULLs differ.
Taken(links, b, l) ==
  l.case /= None /\ l.cycle /= None
    /\ \E x \in links : x.bug = b /\ x.case = l.case /\ x.cycle = l.cycle

ForBug(b, ls) ==
  {[bug |-> b, case |-> l.case, cycle |-> l.cycle, exec |-> l.exec] : l \in ls}

\* replaceBugLinks: of links with the same case and run the first inserted stays.
replaceBugLinks(b, ls) ==
  bugLink' = {x \in bugLink : x.bug /= b} \cup ForBug(b, ls)

\* createBug up to sanitizeBugLinks, whose links wait for the transaction.
createBug(s, b, ls) ==
  /\ Request
  /\ bugRow[b].status = "none"
  /\ \A t \in Slot : slot[t].bug /= b
  /\ Open(s, [Idle EXCEPT !.op = "report", !.bug = b, !.links = sanitizeBugLinks(ls)])
  /\ UNCHANGED rows

\* The executions that failLinkedExecutions has to look at.
Linked(ls) == {l.exec : l \in ls} \ {0}

\* links[0]?.executionId || null
First(ls) == IF ls = {} THEN {0} ELSE {l.exec : l \in ls}

\* The transaction.  A target that has gone since sanitizeBugLinks violates its
\* foreign key and nothing is written.  The bug's own columns name its first link's.
CreateBugCommit(s) ==
  /\ slot[s].op = "report"
  /\ IF \A l \in slot[s].links : Resolves(l)
     THEN /\ \E e \in First(slot[s].links) :
               bugRow' = [bugRow EXCEPT ![slot[s].bug] = [status |-> "Open", exec |-> e]]
          /\ replaceBugLinks(slot[s].bug, slot[s].links)
          /\ Go(s, [Idle EXCEPT !.op = "fail", !.ids = Linked(slot[s].links)])
     ELSE Finish(s) /\ UNCHANGED <<bugRow, bugLink>>
  /\ UNCHANGED <<caseRow, planItem, cycleRow, execRow, lastExec, requests>>

\* Mutant: a case somebody has passed is left alone.
FailReadUnlessPassed(s) ==
  /\ slot[s].op = "fail"
  /\ LET todo == {e \in slot[s].ids \cap Executions : execRow[e].status \notin {"Failed", "Passed"}}
     IN  Go(s, IF todo = {} THEN Idle ELSE [Idle EXCEPT !.op = "failing", !.ids = todo])
  /\ UNCHANGED <<rows, requests>>

\* failLinkedExecutions: the SELECT, of whose rows the failed ones are skipped
FailRead(s) ==
  /\ slot[s].op = "fail"
  /\ LET todo == {e \in slot[s].ids \cap Executions : execRow[e].status /= "Failed"}
     IN  Go(s, IF todo = {} THEN Idle ELSE [Idle EXCEPT !.op = "failing", !.ids = todo])
  /\ UNCHANGED <<rows, requests>>

\* ... and the UPDATE of each other one, whatever it is by then.
FailStep(s, e) ==
  /\ slot[s].op = "failing"
  /\ e \in slot[s].ids
  /\ execRow' = IF e \in Executions THEN [execRow EXCEPT ![e].status = "Failed"] ELSE execRow
  /\ Go(s, IF slot[s].ids = {e} THEN Idle ELSE [slot[s] EXCEPT !.ids = @ \ {e}])
  /\ UNCHANGED <<caseRow, planItem, cycleRow, lastExec, bugRow, bugLink, requests>>

\* updateBug with links: sanitised, then replaced in a transaction.  No execution
\* is failed by it.
updateBug(s, b, ls) ==
  /\ Request
  /\ b \in Bugs
  /\ Open(s, [Idle EXCEPT !.op = "relink", !.bug = b, !.links = sanitizeBugLinks(ls)])
  /\ UNCHANGED rows

\* The bug may have been deleted, and a target may be gone: both roll back.
UpdateBugCommit(s) ==
  /\ slot[s].op = "relink"
  /\ Finish(s)
  /\ IF \A l \in slot[s].links : slot[s].bug \in Bugs /\ Resolves(l)
     THEN replaceBugLinks(slot[s].bug, slot[s].links)
     ELSE UNCHANGED bugLink
  /\ UNCHANGED <<caseRow, planItem, cycleRow, execRow, lastExec, bugRow, requests>>

\* updateBug with a status
closeBug(b, status) ==
  /\ Request
  /\ b \in Bugs
  /\ bugRow' = [bugRow EXCEPT ![b].status = status]
  /\ UNCHANGED <<caseRow, planItem, cycleRow, execRow, lastExec, bugLink, slot>>

\* Nothing is sanitised: an unknown target is refused by its foreign key.
addBugLink(s, b, l) ==
  /\ Request
  /\ b \in Bugs
  /\ <<l.case, l.cycle>> /= <<None, None>>
  /\ Resolves(l)
  /\ bugLink' = IF Taken(bugLink, b, l) THEN bugLink ELSE bugLink \cup ForBug(b, {l})
  /\ Open(s, [Idle EXCEPT !.op = "fail", !.ids = Linked({l})])
  /\ UNCHANGED <<caseRow, planItem, cycleRow, execRow, lastExec, bugRow>>

removeBugLink(b, x) ==
  /\ Request
  /\ x \in bugLink
  /\ x.bug = b
  /\ bugLink' = bugLink \ {x}
  /\ UNCHANGED <<caseRow, planItem, cycleRow, execRow, lastExec, bugRow, slot>>

deleteBug(b) ==
  /\ Request
  /\ b \in Bugs
  /\ bugRow' = [bugRow EXCEPT ![b] = [NoBug EXCEPT !.status = "deleted"]]
  /\ bugLink' = {x \in bugLink : x.bug /= b}
  /\ UNCHANGED <<caseRow, planItem, cycleRow, execRow, lastExec, slot>>

-----------------------------------------------------------------------------
(* AutomationService *)

WithExternalId == {k \in Cycles : cycleRow[k].external}

\* createRun up to the SELECT by external id: an existing run is reused.
createRun(s, external, cs) ==
  /\ Request
  /\ \E k \in IF external /\ WithExternalId /= {} THEN WithExternalId ELSE {None} :
       Open(s, [Idle EXCEPT !.op = IF k = None THEN "insert" ELSE "attach", !.cycle = k,
                            !.cases = cs, !.external = external])
  /\ UNCHANGED rows

\* Mutant: the index on the external id is missing.
InsertRunAnyway(s, k) ==
  /\ slot[s].op = "insert"
  /\ FreshCycle(k)
  /\ cycleRow' = [cycleRow EXCEPT ![k] =
       [NoCycle EXCEPT !.source = "automation", !.status = "In Progress", !.started = TRUE,
                       !.external = slot[s].external]]
  /\ Go(s, [slot[s] EXCEPT !.op = "attach", !.cycle = k])
  /\ UNCHANGED <<caseRow, planItem, execRow, lastExec, bugRow, bugLink, requests>>

\* The INSERT, refused by the unique index while another run has the external id.
InsertRun(s, k) ==
  /\ slot[s].op = "insert"
  /\ ~(slot[s].external /\ WithExternalId /= {})
  /\ FreshCycle(k)
  /\ cycleRow' = [cycleRow EXCEPT ![k] =
       [NoCycle EXCEPT !.source = "automation", !.status = "In Progress", !.started = TRUE,
                       !.external = slot[s].external]]
  /\ Go(s, [slot[s] EXCEPT !.op = "attach", !.cycle = k])
  /\ UNCHANGED <<caseRow, planItem, execRow, lastExec, bugRow, bugLink, requests>>

\* The loser of the race ...
InsertRefused(s) ==
  /\ slot[s].op = "insert"
  /\ slot[s].external /\ WithExternalId /= {}
  /\ Go(s, [slot[s] EXCEPT !.op = "reselect"])
  /\ UNCHANGED <<rows, requests>>

\* ... takes the winner's run, or fails when that one is gone again.
Reselect(s) ==
  /\ slot[s].op = "reselect"
  /\ IF WithExternalId = {} THEN Finish(s)
     ELSE \E k \in WithExternalId : Go(s, [slot[s] EXCEPT !.op = "attach", !.cycle = k])
  /\ UNCHANGED <<rows, requests>>

\* attachCases at the end of createRun; a run that is gone violates the foreign key.
AttachCases(s) ==
  /\ slot[s].op = "attach"
  /\ Finish(s)
  /\ IF slot[s].cycle \in Cycles THEN AddCases(slot[s].cycle, slot[s].cases)
     ELSE UNCHANGED <<execRow, lastExec>>
  /\ UNCHANGED <<caseRow, planItem, cycleRow, bugRow, bugLink, requests>>

\* recordResult up to resolveCases: the run exists, the case is a live one.
recordResult(s, k, c, status) ==
  /\ Request
  /\ k \in Cycles
  /\ c \in Live
  /\ Open(s, [Idle EXCEPT !.op = "result", !.cycle = k, !.case = c, !.status = status])
  /\ UNCHANGED rows

AttachResult(s) ==
  /\ slot[s].op = "result"
  /\ IF slot[s].cycle \in Cycles
     THEN /\ AddCases(slot[s].cycle, {slot[s].case})
          /\ Go(s, [slot[s] EXCEPT !.op = "write"])
     ELSE Finish(s) /\ UNCHANGED <<execRow, lastExec>>
  /\ UNCHANGED <<caseRow, planItem, cycleRow, bugRow, bugLink, requests>>

\* The UPDATE by run and case: no row, no result.  Retry count, duration and error
\* are written too; a defect key stays as it is, whatever the status.
WriteResult(s) ==
  /\ slot[s].op = "write"
  /\ Finish(s)
  /\ execRow' = [e \in Exec |->
       IF execRow[e].cycle = slot[s].cycle /\ execRow[e].case = slot[s].case
       THEN [execRow[e] EXCEPT !.status = slot[s].status] ELSE execRow[e]]
  /\ UNCHANGED <<caseRow, planItem, cycleRow, lastExec, bugRow, bugLink, requests>>

\* closeRun up to resultCounts: a closed run is only reported.
closeRun(s, k, how) ==
  /\ Request
  /\ k \in Cycles
  /\ cycleRow[k].closed = "no"
  /\ Open(s, [Idle EXCEPT !.op = "close", !.cycle = k, !.status = how])
  /\ UNCHANGED rows

\* The UPDATE does not look at closed_at again, nor at started_at.
CloseWrite(s) ==
  /\ slot[s].op = "close"
  /\ Finish(s)
  /\ cycleRow' = IF slot[s].cycle \in Cycles
                 THEN [cycleRow EXCEPT ![slot[s].cycle].status = "Completed",
                                       ![slot[s].cycle].ended = TRUE,
                                       ![slot[s].cycle].closed = slot[s].status]
                 ELSE cycleRow
  /\ UNCHANGED <<caseRow, planItem, execRow, lastExec, bugRow, bugLink, requests>>

-----------------------------------------------------------------------------
(* The specification *)

PlanNext ==
  \/ \E p \in Plan : createPlan(p) \/ deletePlan(p)
  \/ \E p \in Plan, c \in Case : addPlanItem(p, c) \/ deletePlanItem(p, c)

CycleNext ==
  \/ \E k \in Cycle, p \in Plan \cup {None} : createCycle(k, p)
  \/ \E k \in Cycle, st \in CycleStatus \cup {"none"}, p \in Plan \cup {None} : updateCycle(k, st, p)
  \/ \E k \in Cycle : deleteCycle(k) \/ \E s \in Slot : shareCycle(s, k)
  \/ \E k \in Cycle, cs \in SUBSET Case \ {{}} : addCycleTestCases(k, cs) \/ removeCycleTestCases(k, cs)

ResultNext ==
  \/ \E e \in Exec, st \in Chosen \cup {"none"}, a \in Person \cup {None}, d \in BOOLEAN :
       updateExecution(e, st, a, d)
  \/ \E s \in Slot, k \in Cycle : \E es \in SUBSET executions(k) :
       \/ \E st \in Chosen : Bulk(s, k, es, st, None)
       \/ \E a \in Person \cup {None} : Bulk(s, k, es, "none", a)

\* Links that the screens offer: a case, or an execution with its case and run.
\* An id that is unknown already when it is sent is dropped, or refused.
LinkOffered ==
  {[case |-> c, cycle |-> None, exec |-> 0] : c \in Live} \cup
  {[case |-> execRow[e].case, cycle |-> execRow[e].cycle, exec |-> e] : e \in Executions}

BugNext ==
  \/ \E s \in Slot, b \in Bug, l \in LinkOffered :
       createBug(s, b, {l}) \/ updateBug(s, b, {l}) \/ addBugLink(s, b, l)
  \/ \E b \in Bug : deleteBug(b) \/ closeBug(b, "Closed")
  \/ \E b \in Bug, x \in bugLink : removeBugLink(b, x)

AutomationNext ==
  \/ \E s \in Slot, external \in BOOLEAN, cs \in {{}, Case} : createRun(s, external, cs)
  \/ \E s \in Slot, k \in Cycle, c \in Case, st \in Chosen : recordResult(s, k, c, st)
  \/ \E s \in Slot, k \in Cycle, how \in {"completed", "incomplete"} : closeRun(s, k, how)

\* The next statement of a handler in flight
Continue(s) ==
  \/ \E enabled \in BOOLEAN : ShareWrite(s, enabled)
  \/ CreateBugCommit(s) \/ UpdateBugCommit(s) \/ FailRead(s)
  \/ \E e \in Exec : BulkStep(s, e) \/ FailStep(s, e)
  \/ \E k \in Cycle : InsertRun(s, k)
  \/ InsertRefused(s) \/ Reselect(s) \/ AttachCases(s)
  \/ AttachResult(s) \/ WriteResult(s) \/ CloseWrite(s)

RunsStep ==
  \/ PlanNext \/ CycleNext \/ ResultNext \/ BugNext \/ AutomationNext
  \/ \E c \in Case : deleteTestCase(c) \/ deleteSuiteWithCases(c)
  \/ \E s \in Slot : Continue(s)

\* The executions that a bug has just been linked to
NewlyLinked ==
  UNION {slot'[s].ids : s \in {t \in Slot : slot'[t].op = "fail" /\ slot[t].op /= "fail"}}

RunsNext ==
  /\ RunsStep
  /\ owed' = {e \in owed \cup NewlyLinked : execRow'[e].status /= "Failed"}

RunsSpec == RunsInit /\ [][RunsNext]_rvars

-----------------------------------------------------------------------------
(* Properties *)

CycleRow == [source : {"none", "manual", "automation", "deleted"}, plan : Plan \cup {None},
             status : CycleStatus, started : BOOLEAN, ended : BOOLEAN,
             closed : {"no", "completed", "incomplete"}, external : BOOLEAN,
             token : 0 .. MaxRequests, shared : BOOLEAN]
ExecRow  == [cycle : Cycle \cup {None}, case : Case \cup {None}, status : Status,
             assignee : Person \cup {None}, defect : BOOLEAN]
SlotRow  == [op : {"idle", "share", "bulk", "report", "relink", "fail", "failing", "insert",
                   "reselect", "attach", "result", "write", "close"},
             cycle : Cycle \cup {None}, case : Case \cup {None}, bug : Bug \cup {None},
             ids : SUBSET Exec, links : SUBSET LinkInput, cases : SUBSET Case,
             status : Status \cup {"none", "completed", "incomplete"},
             assignee : Person \cup {None}, external : BOOLEAN, token : 0 .. MaxRequests]

\* Types of the tables, of the handlers in flight and of the counters.
RunsTypeOK ==
  /\ caseRow \in [Case -> {"live", "deleted", "gone"}]
  /\ planItem \in [Plan -> [state : {"none", "live", "deleted"}, cases : SUBSET Case]]
  /\ cycleRow \in [Cycle -> CycleRow]
  /\ execRow \in [Exec -> ExecRow]
  /\ lastExec \in 0 .. MaxExecs
  /\ bugRow \in [Bug -> [status : {"none", "Open", "Closed", "deleted"}, exec : {0} \cup Exec]]
  /\ bugLink \subseteq [bug : Bug, case : Case \cup {None}, cycle : Cycle \cup {None},
                       exec : {0} \cup Exec]
  /\ slot \in [Slot -> SlotRow]
  /\ requests \in 0 .. MaxRequests
  /\ owed \subseteq Exec

\* A case is in a run at most once, however many requests and CI results attach it
\* at the same time: the counters of the run screen count executions.
OneRowPerCase ==
  \A e, f \in Executions :
    execRow[e].cycle = execRow[f].cycle /\ execRow[e].case = execRow[f].case => e = f

\* The clock of the run screen (updateCycle, closeRun): a run has an end exactly
\* while it is Completed, and an automated run that has ended has a start, whoever
\* reopened or replanned it in between.
ClockSound ==
  \A k \in Cycles :
    /\ cycleRow[k].ended <=> cycleRow[k].status = "Completed"
    /\ cycleRow[k].ended /\ cycleRow[k].source = "automation" => cycleRow[k].started

\* Nothing a bug or a link names is missing: neither a delete in between
\* sanitizeBugLinks and the transaction nor any cascade leaves a dangling id.
LinksResolve ==
  /\ \A x \in bugLink : x.bug \in Bugs /\ Resolves(x)
  /\ \A b \in Bugs : bugRow[b].exec \in Executions \cup {0}

\* Shards that open a run under one external id report into one run: there is only
\* one, and whoever is about to attach its cases holds that one, unless somebody
\* has deleted it.
ShardsShareRun ==
  /\ \A j, k \in WithExternalId : j = k
  /\ \A s \in Slot : slot[s].op = "attach" /\ slot[s].external
       => slot[s].cycle \in WithExternalId \/ slot[s].cycle \notin Cycles

\* A bug that is linked to an execution fails it, "including over a result someone
\* already recorded" (failLinkedExecutions): an execution that has not been failed
\* since is gone, or the handler that linked it is still on its way to it.
BugFailsExecution ==
  \A e \in owed :
    \/ e \notin Executions
    \/ \E s \in Slot : slot[s].op \in {"fail", "failing"} /\ e \in slot[s].ids

\* Both promises about bugs: their links resolve (sanitizeBugLinks, the cascades) and
\* what they are linked to fails (failLinkedExecutions).
BugsConsistent == LinksResolve /\ BugFailsExecution
=============================================================================
