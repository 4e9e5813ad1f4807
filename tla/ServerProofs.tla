---------------------------- MODULE ServerProofs ----------------------------
(***************************************************************************)
(* Proofs about two parts of the server that share no state.               *)
(*                                                                         *)
(* TestRuns and its Reports, for any number of cases, plans, runs, bugs,   *)
(* people and requests in flight.  The inductive invariant RunsInv adds to *)
(* the properties                                                          *)
(*   HandlerSound  what a handler carries between its statements;          *)
(*   Numbered      executions have the numbers handed out so far, and no   *)
(*                 number of a deleted one is handed out again, so that a  *)
(*                 failure that is owed to it is owed to nobody else;      *)
(*   Started       an automated run has a start from its insertion on.     *)
(* The figures of Reports add up because of ScreensInv, which adds that an *)
(* execution is in a run that exists and that only finitely many runs were *)
(* ever made, and because of what a sum over the classes of a finite set   *)
(* is, whatever order its terms are added in (Sums).                       *)
(*                                                                         *)
(* RagEmbedding, for any sources, texts, concurrent requests and bounds.   *)
(***************************************************************************)
EXTENDS Reports, RagEmbedding, FiniteSetTheorems, WellFoundedInduction, TLAPS

HandlerSound(s) ==
  LET h == slot[s] IN
  /\ h.op \in {"share", "close", "result", "write", "attach"} => h.cycle \in Cycle
  /\ h.op = "attach" => cycleRow[h.cycle].source /= "none"
  /\ h.op \in {"report", "relink"} => h.bug \in Bug
  /\ h.op = "close" => h.status \in {"completed", "incomplete"}
  /\ h.op = "bulk" => h.status \in Status \cup {"none"}
  /\ h.op \in {"result", "write"} => h.status \in Status

ExecNumbered == \A e \in Executions : e <= lastExec
Numbered == ExecNumbered /\ \A e \in owed : e <= lastExec

Started == \A k \in Cycles : cycleRow[k].source = "automation" => cycleRow[k].started

RunsInv ==
  /\ RunsTypeOK
  /\ \A s \in Slot : HandlerSound(s)
  /\ Numbered /\ OneRowPerCase
  /\ Started /\ ClockSound
  /\ ShardsShareRun
  /\ BugsConsistent

-----------------------------------------------------------------------------
(* Lemmas about the operators *)

\* The database numbers a batch of new rows consecutively, one number each.
LEMMA NumberingFacts ==
  ASSUME NEW S, IsFiniteSet(S), NEW n \in Nat
  PROVE  /\ Cardinality(S) \in Nat
         /\ Numbering(S, n) \in [S -> (n + 1) .. (n + Cardinality(S))]
         /\ \A x, y \in S : Numbering(S, n)[x] = Numbering(S, n)[y] => x = y
<1> DEFINE m == Cardinality(S)
           T == (n + 1) .. (n + m)
<1>1. m \in Nat
  BY FS_CardinalityType
<1>2. IsFiniteSet(T) /\ Cardinality(T) = m
  <2> HIDE DEF m
  <2> QED BY <1>1, FS_Interval
<1>3. PICK f \in Bijection(S, T) : TRUE
  <2>1. ExistsBijection(S, T)
    BY <1>2, FS_SameCardinalityBij
  <2> QED BY <2>1 DEF ExistsBijection
<1>4. f \in [S -> T] /\ \A x, y \in S : f[x] = f[y] => x = y
  BY <1>3 DEF Bijection, Injection, IsInjective
<1> QED BY <1>1, <1>4 DEF Numbering

\* What AddCases inserts: rows N of numbers never used, for cases not in the run yet, one each.
LEMMA AddCasesFacts ==
  ASSUME RunsTypeOK, NEW k \in Cycle, NEW cs, cs \subseteq Case, AddCases(k, cs)
  PROVE  /\ execRow' \in [Exec -> ExecRow]
         /\ lastExec' \in 0 .. MaxExecs /\ lastExec <= lastExec'
         /\ \E N \in SUBSET Exec :
              /\ \A e \in Exec \ N : execRow'[e] = execRow[e]
              /\ \A e \in N : /\ lastExec < e /\ e <= lastExec'
                              /\ execRow'[e].cycle = k /\ execRow'[e].status = "Untested"
                              /\ execRow'[e].case \in Case \ InRun(k)
              /\ \A e, f \in N : execRow'[e].case = execRow'[f].case => e = f
<1> DEFINE new == (cs \cap Live) \ InRun(k)
           id  == Numbering(new, lastExec)
           n   == Cardinality(new)
           N   == {e \in Exec : \E c \in new : id[c] = e}
           Made(e) == [NoExec EXCEPT !.cycle = k, !.case = CHOOSE c \in new : id[c] = e]
<1>1. new \subseteq Case /\ IsFiniteSet(new) /\ lastExec \in Nat /\ MaxExecs \in Nat
  <2>1. new \subseteq Case
    BY DEF Live
  <2> QED BY <2>1, RunsConstants, FS_Subset DEF RunsTypeOK
<1>2. /\ n \in Nat /\ id \in [new -> (lastExec + 1) .. (lastExec + n)]
      /\ \A x, y \in new : id[x] = id[y] => x = y
  BY <1>1, NumberingFacts, ZenonT(60)
<1>3. /\ lastExec + n <= MaxExecs /\ lastExec' = lastExec + n
      /\ execRow' = [e \in Exec |-> IF \E c \in new : id[c] = e THEN Made(e) ELSE execRow[e]]
  BY DEF AddCases
<1>4. \A c \in new : c \in Case \ InRun(k)
  BY <1>1
<1> HIDE DEF new, id, n
<1>5. lastExec' \in 0 .. MaxExecs /\ lastExec <= lastExec'
  <2>1. lastExec + n <= MaxExecs /\ lastExec' = lastExec + n
    BY <1>3
  <2> QED BY <1>1, <1>2, <2>1
<1>6. ASSUME NEW e \in N
      PROVE  /\ execRow'[e] = Made(e) /\ Made(e) \in ExecRow
             /\ Made(e).case \in new /\ id[Made(e).case] = e
             /\ Made(e).cycle = k /\ Made(e).status = "Untested"
             /\ lastExec < e /\ e <= lastExec'
  <2>1. PICK c \in new : c = (CHOOSE x \in new : id[x] = e) /\ id[c] = e
    OBVIOUS
  <2>2. Made(e) = [NoExec EXCEPT !.cycle = k, !.case = c]
    BY <2>1
  <2>3. c \in Case
    BY <1>4
  <2>4. /\ Made(e) \in ExecRow /\ Made(e).case = c /\ Made(e).cycle = k /\ Made(e).status = "Untested"
    BY <2>2, <2>3 DEF NoExec, ExecRow, Status
  <2>5. id[c] \in (lastExec + 1) .. (lastExec + n)
    BY <1>2
  <2>6. lastExec < e /\ e <= lastExec'
    <3>1. lastExec' = lastExec + n
      BY <1>3
    <3> QED BY <1>1, <1>2, <2>1, <2>5, <3>1
  <2>7. execRow'[e] = Made(e)
    BY <1>3
  <2> QED BY <2>1, <2>4, <2>6, <2>7
<1>7. \A e \in Exec \ N : execRow'[e] = execRow[e]
  BY <1>3
<1>8. execRow' \in [Exec -> ExecRow]
  BY <1>3, <1>6, <1>7 DEF RunsTypeOK
<1> HIDE DEF Made, N
<1>9. \A e \in N : /\ lastExec < e /\ e <= lastExec'
                   /\ execRow'[e].cycle = k /\ execRow'[e].status = "Untested"
                   /\ execRow'[e].case \in Case \ InRun(k)
  BY <1>4, <1>6
<1>10. \A e, f \in N : execRow'[e].case = execRow'[f].case => e = f
  BY <1>6
<1>11. N \in SUBSET Exec
  BY DEF N
<1> QED BY <1>5, <1>7, <1>8, <1>9, <1>10, <1>11

\* What the screens offer to link, sanitised, are links that may be sent.
LEMMA LinkFacts ==
  ASSUME RunsTypeOK
  PROVE  /\ LinkOffered \subseteq LinkInput
         /\ \A ls \in SUBSET LinkInput : sanitizeBugLinks(ls) \subseteq LinkInput
         /\ \A ls \in SUBSET LinkInput : Linked(ls) \subseteq Exec
<1>1. LinkOffered \subseteq LinkInput
  <2>1. ASSUME NEW c \in Live PROVE [case |-> c, cycle |-> None, exec |-> 0] \in LinkInput
    BY DEF LinkInput, Live
  <2>2. ASSUME NEW e \in Executions
        PROVE  [case |-> execRow[e].case, cycle |-> execRow[e].cycle, exec |-> e] \in LinkInput
    BY DEF LinkInput, Executions, RunsTypeOK, ExecRow
  <2> QED BY <2>1, <2>2 DEF LinkOffered
<1>2. ASSUME NEW ls \in SUBSET LinkInput PROVE sanitizeBugLinks(ls) \subseteq LinkInput
  <2>1. ASSUME NEW l \in ls
        PROVE  [case |-> IF l.case \in Live THEN l.case ELSE None,
                cycle |-> IF l.cycle \in Cycles THEN l.cycle ELSE None,
                exec |-> IF l.exec \in Executions THEN l.exec ELSE 0] \in LinkInput
    BY DEF LinkInput, Live, Cycles, Executions
  <2> QED BY <2>1 DEF sanitizeBugLinks
<1>3. ASSUME NEW ls \in SUBSET LinkInput PROVE Linked(ls) \subseteq Exec
  BY DEF Linked, LinkInput
<1> QED BY <1>1, <1>2, <1>3

LEMMA IdleFacts == Idle \in SlotRow /\ Idle.op = "idle"
  BY RunsConstants DEF Idle, SlotRow

-----------------------------------------------------------------------------
(* Types, and what the handlers carry *)

Base == RunsTypeOK /\ \A s \in Slot : HandlerSound(s)

\* The step leaves the tables and the handlers well formed.
Lands ==
  /\ slot' \in [Slot -> SlotRow]
  /\ owed' \subseteq Exec => RunsTypeOK'
  /\ \A s \in Slot : HandlerSound(s)'

RunsStay == \A k \in Cycle : cycleRow[k].source /= "none" => cycleRow'[k].source /= "none"

LEMMA RowsLand ==
  ASSUME Base, slot' = slot, RunsStay,
         caseRow' \in [Case -> {"live", "deleted", "gone"}],
         planItem' \in [Plan -> [state : {"none", "live", "deleted"}, cases : SUBSET Case]],
         cycleRow' \in [Cycle -> CycleRow], execRow' \in [Exec -> ExecRow], lastExec' \in 0 .. MaxExecs,
         bugRow' \in [Bug -> [status : {"none", "Open", "Closed", "deleted"}, exec : {0} \cup Exec]],
         bugLink' \subseteq [bug : Bug, case : Case \cup {None}, cycle : Cycle \cup {None}, exec : {0} \cup Exec],
         requests' \in 0 .. MaxRequests
  PROVE  Lands
<1>1. slot' \in [Slot -> SlotRow]
  BY DEF Base, RunsTypeOK
<1>2. owed' \subseteq Exec => RunsTypeOK'
  BY <1>1 DEF RunsTypeOK
<1>3. \A s \in Slot : HandlerSound(s)'
  BY DEF Base, RunsTypeOK, HandlerSound, RunsStay
<1> QED BY <1>1, <1>2, <1>3 DEF Lands

LEMMA HandlerLands ==
  ASSUME Base, NEW s \in Slot, NEW r \in SlotRow, slot' = [slot EXCEPT ![s] = r], RunsStay,
         r.op \in {"share", "close", "result", "write", "attach"} => r.cycle \in Cycle,
         r.op = "attach" => cycleRow'[r.cycle].source /= "none",
         r.op \in {"report", "relink"} => r.bug \in Bug,
         r.op = "close" => r.status \in {"completed", "incomplete"},
         r.op = "bulk" => r.status \in Status \cup {"none"},
         r.op \in {"result", "write"} => r.status \in Status,
         caseRow' = caseRow, planItem' = planItem,
         cycleRow' \in [Cycle -> CycleRow], execRow' \in [Exec -> ExecRow], lastExec' \in 0 .. MaxExecs,
         bugRow' \in [Bug -> [status : {"none", "Open", "Closed", "deleted"}, exec : {0} \cup Exec]],
         bugLink' \subseteq [bug : Bug, case : Case \cup {None}, cycle : Cycle \cup {None}, exec : {0} \cup Exec],
         requests' \in 0 .. MaxRequests
  PROVE  Lands
<1>1. slot' \in [Slot -> SlotRow] /\ slot'[s] = r /\ \A t \in Slot \ {s} : slot'[t] = slot[t]
  BY DEF Base, RunsTypeOK
<1>2. owed' \subseteq Exec => RunsTypeOK'
  BY <1>1 DEF Base, RunsTypeOK
<1>3. HandlerSound(s)'
  BY <1>1 DEF HandlerSound
<1>4. ASSUME NEW t \in Slot, t /= s PROVE HandlerSound(t)'
  <2>1. slot'[t] = slot[t] /\ slot[t] \in SlotRow /\ HandlerSound(t)
    BY <1>1, <1>4 DEF Base, RunsTypeOK
  <2> QED BY <2>1 DEF HandlerSound, RunsStay
<1> QED BY <1>1, <1>2, <1>3, <1>4 DEF Lands

\* A handler that only reads, or writes nothing any more: its slot is all that changes.
LEMMA SlotLands ==
  ASSUME Base, NEW s \in Slot, NEW r \in SlotRow, slot' = [slot EXCEPT ![s] = r], UNCHANGED rows,
         requests' \in 0 .. MaxRequests,
         r.op \in {"share", "close", "result", "write", "attach"} => r.cycle \in Cycle,
         r.op = "attach" => cycleRow[r.cycle].source /= "none",
         r.op \in {"report", "relink"} => r.bug \in Bug,
         r.op = "close" => r.status \in {"completed", "incomplete"},
         r.op = "bulk" => r.status \in Status \cup {"none"},
         r.op \in {"result", "write"} => r.status \in Status
  PROVE  Lands
<1>1. RunsStay
  BY DEF RunsStay, rows
<1> QED BY <1>1, HandlerLands DEF Base, RunsTypeOK, rows

LEMMA RequestFacts == ASSUME RunsTypeOK, Request PROVE requests' \in 0 .. MaxRequests
  BY RunsConstants DEF RunsTypeOK, Request

\* The cascades leave rows.
LEMMA CascadeFacts ==
  ASSUME RunsTypeOK, NEW es, NEW ks, NEW cs
  PROVE  /\ DeleteExecs(es) => execRow' \in [Exec -> ExecRow]
         /\ UnlinkBugs(es, ks, cs) =>
              /\ bugRow' \in [Bug -> [status : {"none", "Open", "Closed", "deleted"}, exec : {0} \cup Exec]]
              /\ bugLink' \subseteq [bug : Bug, case : Case \cup {None}, cycle : Cycle \cup {None}, exec : {0} \cup Exec]
<1>1. NoExec \in ExecRow
  BY DEF NoExec, ExecRow, Status
<1>2. DeleteExecs(es) => execRow' \in [Exec -> ExecRow]
  BY <1>1 DEF DeleteExecs, RunsTypeOK
<1>3. ASSUME UnlinkBugs(es, ks, cs)
      PROVE  bugRow' \in [Bug -> [status : {"none", "Open", "Closed", "deleted"}, exec : {0} \cup Exec]]
  BY <1>3, ZenonT(60) DEF UnlinkBugs, RunsTypeOK
<1>4. ASSUME UnlinkBugs(es, ks, cs)
      PROVE  bugLink' \subseteq [bug : Bug, case : Case \cup {None}, cycle : Cycle \cup {None}, exec : {0} \cup Exec]
  <2>1. ASSUME NEW l \in bugLink
        PROVE  [l EXCEPT !.cycle = IF @ \in ks THEN None ELSE @, !.exec = IF @ \in es THEN 0 ELSE @]
                 \in [bug : Bug, case : Case \cup {None}, cycle : Cycle \cup {None}, exec : {0} \cup Exec]
    <3>1. l \in [bug : Bug, case : Case \cup {None}, cycle : Cycle \cup {None}, exec : {0} \cup Exec]
      BY DEF RunsTypeOK
    <3> QED BY <3>1
  <2> QED BY <1>4, <2>1, ZenonT(60) DEF UnlinkBugs
<1> QED BY <1>2, <1>3, <1>4

LEMMA PlansLand ==
  ASSUME Base, PlanNext \/ \E c \in Case : deleteTestCase(c) \/ deleteSuiteWithCases(c)
  PROVE  Lands
<1>0. RunsTypeOK
  BY DEF Base
<1>1. ASSUME NEW p \in Plan, createPlan(p) \/ deletePlan(p) PROVE Lands
  <2>1. planItem' \in [Plan -> [state : {"none", "live", "deleted"}, cases : SUBSET Case]]
    BY <1>0, <1>1, SMTT(60) DEF RunsTypeOK, createPlan, deletePlan
  <2>2. cycleRow' \in [Cycle -> CycleRow] /\ RunsStay
    <3>1. ASSUME NEW k \in Cycle
          PROVE  /\ cycleRow[k] \in CycleRow /\ [cycleRow[k] EXCEPT !.plan = None] \in CycleRow
                 /\ [cycleRow[k] EXCEPT !.plan = None].source = cycleRow[k].source
      <4>1. cycleRow[k] \in CycleRow
        BY <1>0 DEF RunsTypeOK
      <4> QED BY <4>1 DEF CycleRow
    <3>2. cycleRow' = cycleRow \/ cycleRow' = [k \in Cycle |-> IF cycleRow[k].plan = p
                                  THEN [cycleRow[k] EXCEPT !.plan = None] ELSE cycleRow[k]]
      BY <1>1 DEF createPlan, deletePlan
    <3> QED BY <1>0, <3>1, <3>2, ZenonT(60) DEF RunsTypeOK, RunsStay
  <2> QED BY <1>0, <1>1, <2>1, <2>2, RequestFacts, RowsLand DEF createPlan, deletePlan, RunsTypeOK
<1>2. ASSUME NEW p \in Plan, NEW c \in Case, addPlanItem(p, c) \/ deletePlanItem(p, c) PROVE Lands
  <2>1. planItem' \in [Plan -> [state : {"none", "live", "deleted"}, cases : SUBSET Case]]
    BY <1>0, <1>2, SMTT(60) DEF RunsTypeOK, addPlanItem, deletePlanItem
  <2>2. RunsStay
    BY <1>2 DEF addPlanItem, deletePlanItem, RunsStay
  <2> QED BY <1>0, <1>2, <2>1, <2>2, RequestFacts, RowsLand DEF addPlanItem, deletePlanItem, RunsTypeOK
<1>3. ASSUME NEW c \in Case, deleteTestCase(c) PROVE Lands
  <2>1. caseRow' \in [Case -> {"live", "deleted", "gone"}] /\ RunsStay
    BY <1>0, <1>3 DEF deleteTestCase, RunsTypeOK, RunsStay
  <2> QED BY <1>0, <1>3, <2>1, RequestFacts, RowsLand DEF deleteTestCase, RunsTypeOK
<1>4. ASSUME NEW c \in Case, deleteSuiteWithCases(c) PROVE Lands
  <2>1. caseRow' \in [Case -> {"live", "deleted", "gone"}] /\ RunsStay
    BY <1>0, <1>4 DEF deleteSuiteWithCases, RunsTypeOK, RunsStay
  <2>2. planItem' \in [Plan -> [state : {"none", "live", "deleted"}, cases : SUBSET Case]]
    BY <1>0, <1>4, SMTT(60) DEF deleteSuiteWithCases, RunsTypeOK
  <2>3. PICK es : DeleteExecs(es) /\ UnlinkBugs(es, {}, {c})
    BY <1>4 DEF deleteSuiteWithCases
  <2> QED BY <1>0, <1>4, <2>1, <2>2, <2>3, CascadeFacts, RequestFacts, RowsLand DEF deleteSuiteWithCases, RunsTypeOK
<1> QED BY <1>1, <1>2, <1>3, <1>4 DEF PlanNext

LEMMA CycleFacts ==
  ASSUME RunsTypeOK
  PROVE  /\ NoCycle \in CycleRow /\ [NoCycle EXCEPT !.source = "deleted"] \in CycleRow
         /\ \A p \in Plan \cup {None} : [NoCycle EXCEPT !.source = "manual", !.plan = p] \in CycleRow
         /\ \A external \in BOOLEAN :
              [NoCycle EXCEPT !.source = "automation", !.status = "In Progress", !.started = TRUE,
                              !.external = external] \in CycleRow
<1>1. 0 \in 0 .. MaxRequests
  BY RunsConstants
<1>2. NoCycle \in CycleRow
  BY <1>1 DEF NoCycle, CycleRow, CycleStatus
<1> QED BY <1>2 DEF CycleRow, CycleStatus

LEMMA CyclesLand ==
  ASSUME Base, CycleNext
  PROVE  Lands
<1>0. RunsTypeOK
  BY DEF Base
<1>1. ASSUME NEW k \in Cycle, NEW p \in Plan \cup {None}, createCycle(k, p) PROVE Lands
  <2>1. cycleRow' \in [Cycle -> CycleRow] /\ RunsStay
    BY <1>0, <1>1, CycleFacts DEF RunsTypeOK, createCycle, RunsStay, NoCycle
  <2> QED BY <1>0, <1>1, <2>1, RequestFacts, RowsLand DEF createCycle, RunsTypeOK
<1>2. ASSUME NEW k \in Cycle, NEW st \in CycleStatus \cup {"none"}, NEW p \in Plan \cup {None}, updateCycle(k, st, p)
      PROVE  Lands
  <2> DEFINE r == IF st = "none" THEN [cycleRow[k] EXCEPT !.plan = p] ELSE UpdatedCycle(cycleRow[k], st, p)
  <2>1. cycleRow[k] \in CycleRow
    BY <1>0 DEF RunsTypeOK
  <2>2. r \in CycleRow /\ r.source = cycleRow[k].source
    BY <2>1, ZenonT(60) DEF CycleRow, UpdatedCycle, CycleStatus
  <2>3. cycleRow' = [cycleRow EXCEPT ![k] = r]
    BY <1>2 DEF updateCycle
  <2> HIDE DEF r
  <2>4. cycleRow' \in [Cycle -> CycleRow] /\ RunsStay
    BY <1>0, <2>2, <2>3 DEF RunsTypeOK, RunsStay
  <2> QED BY <1>0, <1>2, <2>4, RequestFacts, RowsLand DEF updateCycle, RunsTypeOK
<1>3. ASSUME NEW k \in Cycle, deleteCycle(k) PROVE Lands
  <2>1. cycleRow' \in [Cycle -> CycleRow] /\ RunsStay
    BY <1>0, <1>3, CycleFacts DEF RunsTypeOK, deleteCycle, RunsStay, NoCycle
  <2>2. DeleteExecs(executions(k)) /\ UnlinkBugs(executions(k), {k}, {})
    BY <1>3 DEF deleteCycle
  <2> QED BY <1>0, <1>3, <2>1, <2>2, CascadeFacts, RequestFacts, RowsLand DEF deleteCycle, RunsTypeOK
<1>4. ASSUME NEW k \in Cycle, NEW s \in Slot, shareCycle(s, k) PROVE Lands
  <2> DEFINE tok == IF cycleRow[k].token = 0 THEN requests + 1 ELSE cycleRow[k].token
             r == [Idle EXCEPT !.op = "share", !.cycle = k, !.token = tok]
  <2>1. tok \in 0 .. MaxRequests
    BY <1>0, <1>4, RunsConstants DEF shareCycle, Request, RunsTypeOK, CycleRow
  <2> HIDE DEF tok
  <2>2. r \in SlotRow /\ r.op = "share" /\ r.cycle = k
    BY <2>1, IdleFacts DEF SlotRow
  <2>3. slot' = [slot EXCEPT ![s] = r] /\ UNCHANGED rows /\ Request
    BY <1>4 DEF shareCycle, Open, tok
  <2> HIDE DEF r
  <2> QED BY <1>0, <2>2, <2>3, RequestFacts, SlotLands
<1>5. ASSUME NEW k \in Cycle, NEW cs \in SUBSET Case, addCycleTestCases(k, cs) PROVE Lands
  <2>1. execRow' \in [Exec -> ExecRow] /\ lastExec' \in 0 .. MaxExecs
    BY <1>0, <1>5, AddCasesFacts DEF addCycleTestCases
  <2>2. RunsStay
    BY <1>5 DEF addCycleTestCases, RunsStay
  <2> QED BY <1>0, <1>5, <2>1, <2>2, RequestFacts, RowsLand DEF addCycleTestCases, RunsTypeOK
<1>6. ASSUME NEW k \in Cycle, NEW cs \in SUBSET Case, removeCycleTestCases(k, cs) PROVE Lands
  <2>1. PICK es : DeleteExecs(es) /\ UnlinkBugs(es, {}, {})
    BY <1>6 DEF removeCycleTestCases
  <2>2. RunsStay
    BY <1>6 DEF removeCycleTestCases, RunsStay
  <2> QED BY <1>0, <1>6, <2>1, <2>2, CascadeFacts, RequestFacts, RowsLand DEF removeCycleTestCases, RunsTypeOK
<1> QED BY <1>1, <1>2, <1>3, <1>4, <1>5, <1>6 DEF CycleNext

LEMMA PatchedFacts ==
  ASSUME NEW r \in ExecRow, NEW st \in Status \cup {"none"}, NEW a \in Person \cup {None}, NEW d \in BOOLEAN
  PROVE  LET x == Patched(r, st, a, d)
         IN  x \in ExecRow /\ x.cycle = r.cycle /\ x.case = r.case
  BY DEF Patched, ExecRow

LEMMA ResultsLand ==
  ASSUME Base, ResultNext
  PROVE  Lands
<1>0. RunsTypeOK /\ Chosen \subseteq Status
  BY RunsConstants DEF Base
<1>1. ASSUME NEW e \in Exec, NEW st \in Chosen \cup {"none"}, NEW a \in Person \cup {None}, NEW d \in BOOLEAN,
             updateExecution(e, st, a, d)
      PROVE  Lands
  <2>1. execRow' = [execRow EXCEPT ![e] = Patched(execRow[e], st, a, d)] /\ execRow[e] \in ExecRow
    BY <1>0, <1>1 DEF updateExecution, RunsTypeOK
  <2>2. execRow' \in [Exec -> ExecRow]
    BY <1>0, <2>1, PatchedFacts DEF RunsTypeOK
  <2>3. RunsStay
    BY <1>1 DEF updateExecution, RunsStay
  <2> QED BY <1>0, <1>1, <2>2, <2>3, RequestFacts, RowsLand DEF updateExecution, RunsTypeOK
<1>2. ASSUME NEW s \in Slot, NEW k \in Cycle, NEW es \in SUBSET executions(k), NEW st \in Status \cup {"none"},
             NEW a \in Person \cup {None}, Bulk(s, k, es, st, a)
      PROVE  Lands
  <2> DEFINE r == [Idle EXCEPT !.op = "bulk", !.ids = es, !.status = st, !.assignee = a]
  <2>1. es \subseteq Exec
    BY DEF executions
  <2>2. r \in SlotRow /\ r.op = "bulk" /\ r.status = st
    BY <2>1, IdleFacts, ZenonT(60) DEF SlotRow
  <2>3. slot' = [slot EXCEPT ![s] = r] /\ UNCHANGED rows /\ Request
    BY <1>2 DEF Bulk, Open
  <2> HIDE DEF r
  <2> QED BY <1>0, <2>2, <2>3, RequestFacts, SlotLands
<1> QED BY <1>0, <1>1, <1>2 DEF ResultNext

LEMMA BugsLand ==
  ASSUME Base, BugNext
  PROVE  Lands
<1>0. RunsTypeOK
  BY DEF Base
<1>1. ASSUME NEW s \in Slot, NEW b \in Bug, NEW l \in LinkOffered, NEW op \in {"report", "relink"}, Request, UNCHANGED rows,
             Open(s, [Idle EXCEPT !.op = op, !.bug = b, !.links = sanitizeBugLinks({l})])
      PROVE  Lands
  <2> DEFINE r == [Idle EXCEPT !.op = op, !.bug = b, !.links = sanitizeBugLinks({l})]
  <2>1. sanitizeBugLinks({l}) \subseteq LinkInput
    <3>1. {l} \in SUBSET LinkInput
      BY <1>0, LinkFacts
    <3> QED BY <1>0, <3>1, LinkFacts
  <2>2. r \in SlotRow /\ r.op = op /\ r.bug = b
    BY <2>1, IdleFacts, ZenonT(60) DEF SlotRow
  <2>3. slot' = [slot EXCEPT ![s] = r]
    BY <1>1 DEF Open
  <2> HIDE DEF r
  <2> QED BY <1>0, <1>1, <2>2, <2>3, RequestFacts, SlotLands
<1>2. ASSUME NEW s \in Slot, NEW b \in Bug, NEW l \in LinkOffered, addBugLink(s, b, l) PROVE Lands
  <2> DEFINE r == [Idle EXCEPT !.op = "fail", !.ids = Linked({l})]
  <2>0. l \in LinkInput /\ {l} \in SUBSET LinkInput
    BY <1>0, LinkFacts
  <2>1. Linked({l}) \subseteq Exec
    BY <1>0, <2>0, LinkFacts
  <2>2. r \in SlotRow /\ r.op = "fail"
    BY <2>1, IdleFacts DEF SlotRow
  <2>3. slot' = [slot EXCEPT ![s] = r] /\ RunsStay
    BY <1>2 DEF addBugLink, Open, RunsStay
  <2>4. bugLink' \subseteq [bug : Bug, case : Case \cup {None}, cycle : Cycle \cup {None}, exec : {0} \cup Exec]
    <3>1. [bug |-> b, case |-> l.case, cycle |-> l.cycle, exec |-> l.exec]
             \in [bug : Bug, case : Case \cup {None}, cycle : Cycle \cup {None}, exec : {0} \cup Exec]
      BY <2>0 DEF LinkInput
    <3>2. ForBug(b, {l}) = {[bug |-> b, case |-> l.case, cycle |-> l.cycle, exec |-> l.exec]}
      BY DEF ForBug
    <3> QED BY <1>0, <1>2, <3>1, <3>2 DEF addBugLink, RunsTypeOK
  <2> HIDE DEF r
  <2> QED BY <1>0, <1>2, <2>2, <2>3, <2>4, RequestFacts, HandlerLands DEF addBugLink, RunsTypeOK
<1>3. ASSUME NEW b \in Bug, deleteBug(b) \/ closeBug(b, "Closed") PROVE Lands
  <2>1. bugRow' \in [Bug -> [status : {"none", "Open", "Closed", "deleted"}, exec : {0} \cup Exec]]
    <3>1. [NoBug EXCEPT !.status = "deleted"] \in [status : {"none", "Open", "Closed", "deleted"}, exec : {0} \cup Exec]
      BY DEF NoBug
    <3> QED BY <1>0, <1>3, <3>1 DEF deleteBug, closeBug, RunsTypeOK
  <2>2. bugLink' \subseteq bugLink /\ RunsStay
    BY <1>3 DEF deleteBug, closeBug, RunsStay
  <2> QED BY <1>0, <1>3, <2>1, <2>2, RequestFacts, RowsLand DEF deleteBug, closeBug, RunsTypeOK
<1>4. ASSUME NEW b \in Bug, NEW x \in bugLink, removeBugLink(b, x) PROVE Lands
  <2>1. bugLink' \subseteq bugLink /\ RunsStay
    BY <1>4, SMTT(60) DEF removeBugLink, RunsStay
  <2> QED BY <1>0, <1>4, <2>1, RequestFacts, RowsLand DEF removeBugLink, RunsTypeOK
<1>5. ASSUME NEW s \in Slot, NEW b \in Bug, NEW l \in LinkOffered, createBug(s, b, {l}) \/ updateBug(s, b, {l})
      PROVE  Lands
  BY <1>1, <1>5 DEF createBug, updateBug
<1> QED BY <1>2, <1>3, <1>4, <1>5 DEF BugNext

LEMMA AutomationLands ==
  ASSUME Base, AutomationNext
  PROVE  Lands
<1>0. RunsTypeOK /\ Chosen \subseteq Status
  BY RunsConstants DEF Base
<1>1. ASSUME NEW s \in Slot, NEW external \in BOOLEAN, NEW cs \in {{}, Case}, createRun(s, external, cs) PROVE Lands
  <2>1. PICK k \in IF external /\ WithExternalId /= {} THEN WithExternalId ELSE {None} :
          Open(s, [Idle EXCEPT !.op = IF k = None THEN "insert" ELSE "attach", !.cycle = k,
                               !.cases = cs, !.external = external])
    BY <1>1 DEF createRun
  <2> DEFINE r == [Idle EXCEPT !.op = IF k = None THEN "insert" ELSE "attach", !.cycle = k,
                               !.cases = cs, !.external = external]
  <2>2. k = None \/ (k \in Cycle /\ cycleRow[k].source /= "none")
    BY DEF WithExternalId, Cycles
  <2>3. /\ r \in SlotRow /\ r.op \in {"insert", "attach"} /\ r.cycle = k /\ (r.op = "attach" => k /= None)
    BY <2>2, IdleFacts, ZenonT(60) DEF SlotRow
  <2>4. slot' = [slot EXCEPT ![s] = r] /\ UNCHANGED rows /\ Request
    BY <1>1, <2>1 DEF createRun, Open
  <2> HIDE DEF r
  <2> QED BY <1>0, <2>2, <2>3, <2>4, RequestFacts, SlotLands
<1>2. ASSUME NEW s \in Slot, NEW k \in Cycle, NEW c \in Case, NEW st \in Chosen, recordResult(s, k, c, st) PROVE Lands
  <2> DEFINE r == [Idle EXCEPT !.op = "result", !.cycle = k, !.case = c, !.status = st]
  <2>1. r \in SlotRow /\ r.op = "result" /\ r.cycle = k /\ r.status = st /\ st \in Status
    BY <1>0, IdleFacts DEF SlotRow
  <2>2. slot' = [slot EXCEPT ![s] = r] /\ UNCHANGED rows /\ Request
    BY <1>2 DEF recordResult, Open
  <2> HIDE DEF r
  <2> QED BY <1>0, <2>1, <2>2, RequestFacts, SlotLands
<1>3. ASSUME NEW s \in Slot, NEW k \in Cycle, NEW how \in {"completed", "incomplete"}, closeRun(s, k, how) PROVE Lands
  <2> DEFINE r == [Idle EXCEPT !.op = "close", !.cycle = k, !.status = how]
  <2>1. r \in SlotRow /\ r.op = "close" /\ r.cycle = k /\ r.status = how
    BY IdleFacts DEF SlotRow
  <2>2. slot' = [slot EXCEPT ![s] = r] /\ UNCHANGED rows /\ Request
    BY <1>3 DEF closeRun, Open
  <2> HIDE DEF r
  <2> QED BY <1>0, <2>1, <2>2, RequestFacts, SlotLands
<1> QED BY <1>1, <1>2, <1>3 DEF AutomationNext

\* What a handler in flight does next.
LEMMA LoopFacts ==
  ASSUME RunsTypeOK, NEW s \in Slot, NEW e
  PROVE  LET r == IF slot[s].ids = {e} THEN Idle ELSE [slot[s] EXCEPT !.ids = @ \ {e}]
         IN  /\ r \in SlotRow /\ (r.op = "idle" \/ r.op = slot[s].op)
             /\ r.status = slot[s].status \/ r.op = "idle"
<1>1. slot[s] \in SlotRow
  BY DEF RunsTypeOK
<1> QED BY <1>1, IdleFacts DEF SlotRow

LEMMA ShareLands ==
  ASSUME Base, NEW s \in Slot, (\E enabled \in BOOLEAN : ShareWrite(s, enabled)) \/ CloseWrite(s)
  PROVE  Lands
<1>0. RunsTypeOK /\ slot[s] \in SlotRow /\ Idle \in SlotRow /\ Idle.op = "idle"
  BY IdleFacts DEF Base, RunsTypeOK
<1>1. slot' = [slot EXCEPT ![s] = Idle]
      /\ UNCHANGED <<caseRow, planItem, execRow, lastExec, bugRow, bugLink, requests>>
  BY DEF ShareWrite, CloseWrite, Finish
<1>2. ASSUME NEW enabled \in BOOLEAN, ShareWrite(s, enabled) PROVE cycleRow' \in [Cycle -> CycleRow] /\ RunsStay
  <2> DEFINE k == slot[s].cycle
  <2>1. CASE k \in Cycles
    <3>1. cycleRow[k] \in CycleRow /\ k \in Cycle /\ slot[s].token \in 0 .. MaxRequests
      BY <1>0, <2>1 DEF RunsTypeOK, Cycles, SlotRow
    <3>2. [cycleRow[k] EXCEPT !.token = slot[s].token, !.shared = enabled] \in CycleRow
          /\ [cycleRow[k] EXCEPT !.token = slot[s].token, !.shared = enabled].source = cycleRow[k].source
      BY <3>1 DEF CycleRow
    <3>3. cycleRow' = [cycleRow EXCEPT ![k].token = slot[s].token, ![k].shared = enabled]
      BY <1>2, <2>1 DEF ShareWrite
    <3>4. cycleRow' = [cycleRow EXCEPT ![k] = [cycleRow[k] EXCEPT !.token = slot[s].token, !.shared = enabled]]
      BY <1>0, <3>1, <3>3 DEF RunsTypeOK
    <3> QED BY <1>0, <3>1, <3>2, <3>4 DEF RunsTypeOK, RunsStay
  <2>2. CASE k \notin Cycles
    BY <1>0, <1>2, <2>2 DEF ShareWrite, RunsTypeOK, RunsStay
  <2> QED BY <2>1, <2>2
<1>3. ASSUME CloseWrite(s) PROVE cycleRow' \in [Cycle -> CycleRow] /\ RunsStay
  <2> DEFINE k == slot[s].cycle
             r == [cycleRow[k] EXCEPT !.status = "Completed", !.ended = TRUE, !.closed = slot[s].status]
  <2>1. CASE k \in Cycles
    <3>1. cycleRow[k] \in CycleRow /\ k \in Cycle /\ slot[s].status \in {"completed", "incomplete"}
      BY <1>0, <1>3, <2>1 DEF RunsTypeOK, Cycles, Base, HandlerSound, CloseWrite
    <3>2. r \in CycleRow /\ r.source = cycleRow[k].source
      BY <3>1 DEF CycleRow, CycleStatus
    <3>3. cycleRow' = [cycleRow EXCEPT ![k].status = "Completed", ![k].ended = TRUE, ![k].closed = slot[s].status]
      BY <1>3, <2>1 DEF CloseWrite
    <3>4. cycleRow' = [cycleRow EXCEPT ![k] = r]
      BY <1>0, <3>1, <3>3 DEF RunsTypeOK
    <3> HIDE DEF r
    <3> QED BY <1>0, <3>1, <3>2, <3>4 DEF RunsTypeOK, RunsStay
  <2>2. CASE k \notin Cycles
    BY <1>0, <1>3, <2>2 DEF CloseWrite, RunsTypeOK, RunsStay
  <2> QED BY <2>1, <2>2
<1>4. cycleRow' \in [Cycle -> CycleRow] /\ RunsStay
  BY <1>2, <1>3
<1> QED BY <1>0, <1>1, <1>4, HandlerLands DEF RunsTypeOK

LEMMA BugHandlersLand ==
  ASSUME Base, NEW s \in Slot,
         CreateBugCommit(s) \/ UpdateBugCommit(s) \/ FailRead(s) \/ \E e \in Exec : FailStep(s, e) \/ BulkStep(s, e)
  PROVE  Lands
<1>0. RunsTypeOK /\ slot[s] \in SlotRow /\ Idle \in SlotRow /\ Idle.op = "idle"
  BY IdleFacts DEF Base, RunsTypeOK
<1>1. ASSUME NEW b \in Bug, NEW ls \in SUBSET LinkInput, replaceBugLinks(b, ls)
      PROVE  bugLink' \subseteq [bug : Bug, case : Case \cup {None}, cycle : Cycle \cup {None}, exec : {0} \cup Exec]
  <2>1. ForBug(b, ls) \subseteq [bug : Bug, case : Case \cup {None}, cycle : Cycle \cup {None}, exec : {0} \cup Exec]
    BY DEF ForBug, LinkInput
  <2> QED BY <1>0, <1>1, <2>1 DEF replaceBugLinks, RunsTypeOK
<1>2. slot[s].links \subseteq LinkInput /\ slot[s].ids \subseteq Exec
  BY <1>0 DEF SlotRow
<1>3. CASE CreateBugCommit(s)
  <2>0. slot[s].bug \in Bug /\ RunsStay
    BY <1>3 DEF CreateBugCommit, Base, HandlerSound, RunsStay
  <2>1. CASE \A l \in slot[s].links : Resolves(l)
    <3> DEFINE r == [Idle EXCEPT !.op = "fail", !.ids = Linked(slot[s].links)]
    <3>1. PICK e \in First(slot[s].links) : bugRow' = [bugRow EXCEPT ![slot[s].bug] = [status |-> "Open", exec |-> e]]
      BY <1>3, <2>1 DEF CreateBugCommit
    <3>2. e \in {0} \cup Exec
      BY <1>2 DEF First, LinkInput
    <3>3. bugRow' \in [Bug -> [status : {"none", "Open", "Closed", "deleted"}, exec : {0} \cup Exec]]
      BY <1>0, <2>0, <3>1, <3>2 DEF RunsTypeOK
    <3>4. replaceBugLinks(slot[s].bug, slot[s].links) /\ slot' = [slot EXCEPT ![s] = r]
          /\ UNCHANGED <<caseRow, planItem, cycleRow, execRow, lastExec, requests>>
      BY <1>3, <2>1 DEF CreateBugCommit, Go
    <3>5. r \in SlotRow /\ r.op = "fail"
      <4>1. Linked(slot[s].links) \subseteq Exec
        BY <1>0, <1>2, LinkFacts
      <4> QED BY <4>1, IdleFacts DEF SlotRow
    <3> HIDE DEF r
    <3> QED BY <1>0, <1>1, <1>2, <2>0, <3>3, <3>4, <3>5, HandlerLands DEF RunsTypeOK
  <2>2. CASE ~\A l \in slot[s].links : Resolves(l)
    BY <1>0, <1>3, <2>0, <2>2, SlotLands DEF CreateBugCommit, Finish, RunsTypeOK, rows
  <2> QED BY <2>1, <2>2
<1>4. CASE UpdateBugCommit(s)
  <2>1. slot[s].bug \in Bug /\ RunsStay
    BY <1>4 DEF UpdateBugCommit, Base, HandlerSound, RunsStay
  <2>2. bugLink' \subseteq [bug : Bug, case : Case \cup {None}, cycle : Cycle \cup {None}, exec : {0} \cup Exec]
    BY <1>0, <1>1, <1>2, <1>4, <2>1 DEF UpdateBugCommit, RunsTypeOK
  <2> QED BY <1>0, <1>4, <2>1, <2>2, HandlerLands DEF UpdateBugCommit, Finish, RunsTypeOK
<1>5. CASE FailRead(s)
  <2> DEFINE todo == {e \in slot[s].ids \cap Executions : execRow[e].status /= "Failed"}
             r == IF todo = {} THEN Idle ELSE [Idle EXCEPT !.op = "failing", !.ids = todo]
  <2>1. r \in SlotRow /\ r.op \in {"idle", "failing"}
    <3>1. todo \subseteq Exec
      BY <1>2
    <3> HIDE DEF todo
    <3> QED BY <3>1, IdleFacts DEF SlotRow
  <2>2. slot' = [slot EXCEPT ![s] = r] /\ UNCHANGED rows /\ requests' = requests
    BY <1>5 DEF FailRead, Go
  <2> HIDE DEF r
  <2> QED BY <1>0, <2>1, <2>2, SlotLands DEF RunsTypeOK
<1>6. ASSUME NEW e \in Exec, FailStep(s, e) \/ BulkStep(s, e) PROVE Lands
  <2> DEFINE r == IF slot[s].ids = {e} THEN Idle ELSE [slot[s] EXCEPT !.ids = @ \ {e}]
  <2>1. r \in SlotRow /\ (r.op = "idle" \/ r.op = slot[s].op) /\ (r.status = slot[s].status \/ r.op = "idle")
    BY <1>0, LoopFacts
  <2> HIDE DEF r
  <2>2. slot[s].op \in {"failing", "bulk"} /\ (slot[s].op = "bulk" => slot[s].status \in Status \cup {"none"})
        /\ UNCHANGED <<caseRow, planItem, cycleRow, lastExec, bugRow, bugLink, requests>>
    BY <1>6 DEF FailStep, BulkStep, Base, HandlerSound
  <2>3. slot' = [slot EXCEPT ![s] = r] \/ slot' = [slot EXCEPT ![s] = Idle]
    BY <1>6 DEF FailStep, BulkStep, Go, Finish, r
  <2>4. execRow' \in [Exec -> ExecRow]
    <3>1. CASE FailStep(s, e)
      BY <1>0, <3>1, ZenonT(60) DEF FailStep, RunsTypeOK, ExecRow, Status
    <3>2. CASE BulkStep(s, e)
      <4>1. \/ execRow' = execRow
            \/ execRow' = [execRow EXCEPT ![e] = Patched(execRow[e], slot[s].status, slot[s].assignee, FALSE)]
        BY <3>2 DEF BulkStep
      <4>2. execRow[e] \in ExecRow /\ slot[s].assignee \in Person \cup {None} /\ slot[s].status \in Status \cup {"none"}
        BY <1>0, <2>2, <3>2 DEF BulkStep, RunsTypeOK, SlotRow
      <4>3. Patched(execRow[e], slot[s].status, slot[s].assignee, FALSE) \in ExecRow
        BY <4>2, PatchedFacts
      <4> QED BY <1>0, <4>1, <4>3 DEF RunsTypeOK
    <3> QED BY <1>6, <3>1, <3>2
  <2>5. RunsStay
    BY <2>2 DEF RunsStay
  <2> QED BY <1>0, <2>1, <2>2, <2>3, <2>4, <2>5, HandlerLands DEF RunsTypeOK
<1> QED BY <1>3, <1>4, <1>5, <1>6

LEMMA RunHandlersLand ==
  ASSUME Base, NEW s \in Slot,
         \/ \E k \in Cycle : InsertRun(s, k)
         \/ InsertRefused(s) \/ Reselect(s) \/ AttachCases(s) \/ AttachResult(s) \/ WriteResult(s)
  PROVE  Lands
<1>0. RunsTypeOK /\ slot[s] \in SlotRow /\ Idle \in SlotRow /\ Idle.op = "idle"
  BY IdleFacts DEF Base, RunsTypeOK
<1>1. ASSUME NEW k \in Cycle, InsertRun(s, k) PROVE Lands
  <2> DEFINE x == [NoCycle EXCEPT !.source = "automation", !.status = "In Progress", !.started = TRUE,
                                  !.external = slot[s].external]
             r == [slot[s] EXCEPT !.op = "attach", !.cycle = k]
  <2>1. x \in CycleRow /\ x.source = "automation"
    BY <1>0, CycleFacts DEF SlotRow, NoCycle
  <2>2. r \in SlotRow /\ r.op = "attach" /\ r.cycle = k
    BY <1>0 DEF SlotRow
  <2>3. cycleRow' = [cycleRow EXCEPT ![k] = x] /\ slot' = [slot EXCEPT ![s] = r]
        /\ UNCHANGED <<caseRow, planItem, execRow, lastExec, bugRow, bugLink, requests>>
    BY <1>1 DEF InsertRun, Go
  <2> HIDE DEF x, r
  <2>4. cycleRow' \in [Cycle -> CycleRow] /\ RunsStay /\ cycleRow'[k].source /= "none"
    BY <1>0, <2>1, <2>3 DEF RunsTypeOK, RunsStay
  <2> QED BY <1>0, <2>2, <2>3, <2>4, HandlerLands DEF RunsTypeOK
<1>2. CASE InsertRefused(s)
  <2> DEFINE r == [slot[s] EXCEPT !.op = "reselect"]
  <2>1. r \in SlotRow /\ r.op = "reselect"
    BY <1>0 DEF SlotRow
  <2>2. slot' = [slot EXCEPT ![s] = r] /\ UNCHANGED rows /\ requests' = requests
    BY <1>2 DEF InsertRefused, Go
  <2> HIDE DEF r
  <2> QED BY <1>0, <2>1, <2>2, SlotLands DEF RunsTypeOK
<1>3. CASE Reselect(s)
  <2>1. CASE WithExternalId = {}
    BY <1>0, <1>3, <2>1, SlotLands DEF Reselect, Finish, RunsTypeOK
  <2>2. CASE WithExternalId /= {}
    <3>1. PICK k \in WithExternalId : slot' = [slot EXCEPT ![s] = [slot[s] EXCEPT !.op = "attach", !.cycle = k]]
      BY <1>3, <2>2 DEF Reselect, Go
    <3> DEFINE r == [slot[s] EXCEPT !.op = "attach", !.cycle = k]
    <3>2. k \in Cycle /\ cycleRow[k].source /= "none"
      BY DEF WithExternalId, Cycles
    <3>3. r \in SlotRow /\ r.op = "attach" /\ r.cycle = k
      BY <1>0, <3>2, ZenonT(60) DEF SlotRow
    <3>4. UNCHANGED rows /\ requests' = requests
      BY <1>3 DEF Reselect
    <3> HIDE DEF r
    <3>5. slot' = [slot EXCEPT ![s] = r]
      BY <3>1 DEF r
    <3> QED BY <1>0, <3>2, <3>3, <3>4, <3>5, SlotLands DEF RunsTypeOK
  <2> QED BY <2>1, <2>2
<1>4. CASE AttachCases(s)
  <2>1. execRow' \in [Exec -> ExecRow] /\ lastExec' \in 0 .. MaxExecs
    <3>1. slot[s].cases \subseteq Case /\ \A k \in Cycles : k \in Cycle
      BY <1>0 DEF SlotRow, Cycles
    <3>2. CASE slot[s].cycle \in Cycles
      <4>1. AddCases(slot[s].cycle, slot[s].cases)
        BY <1>4, <3>2 DEF AttachCases
      <4> QED BY <1>0, <3>1, <3>2, <4>1, AddCasesFacts
    <3>3. CASE slot[s].cycle \notin Cycles
      BY <1>0, <1>4, <3>3 DEF AttachCases, RunsTypeOK
    <3> QED BY <3>2, <3>3
  <2>2. RunsStay
    BY <1>4 DEF AttachCases, RunsStay
  <2> QED BY <1>0, <1>4, <2>1, <2>2, HandlerLands DEF AttachCases, Finish, RunsTypeOK
<1>5. CASE AttachResult(s)
  <2> DEFINE r == [slot[s] EXCEPT !.op = "write"]
  <2>0. RunsStay /\ slot[s].cycle \in Cycle /\ slot[s].status \in Status
        /\ UNCHANGED <<caseRow, planItem, cycleRow, bugRow, bugLink, requests>>
    BY <1>5 DEF AttachResult, RunsStay, Base, HandlerSound
  <2>1. r \in SlotRow /\ r.op = "write" /\ r.cycle = slot[s].cycle /\ r.status = slot[s].status
    BY <1>0 DEF SlotRow
  <2> HIDE DEF r
  <2>2. CASE slot[s].cycle \in Cycles
    <3>1. AddCases(slot[s].cycle, {slot[s].case}) /\ slot' = [slot EXCEPT ![s] = r]
      BY <1>5, <2>2 DEF AttachResult, Go, r
    <3>2. execRow' \in [Exec -> ExecRow] /\ lastExec' \in 0 .. MaxExecs
      <4>1. CASE slot[s].case \in Case
        <5>1. {slot[s].case} \subseteq Case
          BY <4>1
        <5> QED BY <1>0, <2>0, <3>1, <5>1, AddCasesFacts
      <4>2. CASE slot[s].case \notin Case
        <5>1. slot[s].case \notin Live
          BY <4>2 DEF Live
        <5>2. ({slot[s].case} \cap Live) \ InRun(slot[s].cycle) = ({} \cap Live) \ InRun(slot[s].cycle)
          BY <5>1
        <5>3. AddCases(slot[s].cycle, {})
          BY <3>1, <5>2 DEF AddCases
        <5> QED BY <1>0, <2>0, <5>3, AddCasesFacts
      <4> QED BY <4>1, <4>2
    <3> QED BY <1>0, <2>0, <2>1, <3>1, <3>2, HandlerLands DEF RunsTypeOK
  <2>3. CASE slot[s].cycle \notin Cycles
    BY <1>0, <1>5, <2>0, <2>3, HandlerLands DEF AttachResult, Finish, RunsTypeOK
  <2> QED BY <2>2, <2>3
<1>6. CASE WriteResult(s)
  <2>1. slot[s].status \in Status /\ RunsStay
    BY <1>6 DEF WriteResult, Base, HandlerSound, RunsStay
  <2>2. execRow' \in [Exec -> ExecRow]
    BY <1>0, <1>6, <2>1, ZenonT(60) DEF WriteResult, RunsTypeOK, ExecRow
  <2> QED BY <1>0, <1>6, <2>1, <2>2, HandlerLands DEF WriteResult, Finish, RunsTypeOK
<1> QED BY <1>1, <1>2, <1>3, <1>4, <1>5, <1>6

LEMMA StepLands == ASSUME Base, RunsStep PROVE Lands
<1>1. ASSUME NEW s \in Slot, Continue(s) PROVE Lands
  BY <1>1, ShareLands, BugHandlersLand, RunHandlersLand DEF Continue
<1> QED BY <1>1, PlansLand, CyclesLand, ResultsLand, BugsLand, AutomationLands DEF RunsStep

LEMMA NextBase == Base /\ [RunsNext]_rvars => Base'
<1> SUFFICES ASSUME Base, [RunsNext]_rvars PROVE Base'
  OBVIOUS
<1>1. CASE UNCHANGED rvars
  BY <1>1 DEF Base, RunsTypeOK, HandlerSound, rvars, rows
<1>2. CASE RunsNext
  <2>1. Lands
    BY <1>2, StepLands DEF RunsNext
  <2>2. NewlyLinked \subseteq Exec
    BY <2>1 DEF NewlyLinked, Lands, SlotRow
  <2>3. owed' \subseteq Exec
    BY <1>2, <2>2 DEF RunsNext, Base, RunsTypeOK
  <2> QED BY <2>1, <2>3 DEF Lands, Base
<1> QED BY <1>1, <1>2

-----------------------------------------------------------------------------
(* What a step does to the executions *)

ExecKeeps ==
  lastExec' = lastExec
    /\ \A e \in Exec : execRow'[e].cycle = execRow[e].cycle /\ execRow'[e].case = execRow[e].case
ExecDrops ==
  lastExec' = lastExec /\ \A e \in Exec : execRow'[e] = execRow[e] \/ execRow'[e] = NoExec
ExecAdds  == \E k \in Cycles, cs \in SUBSET Case : AddCases(k, cs)

LEMMA AddCasesWithin ==
  ASSUME NEW k, NEW cs, AddCases(k, cs)
  PROVE  AddCases(k, cs \cap Case)
<1>1. ((cs \cap Case) \cap Live) \ InRun(k) = (cs \cap Live) \ InRun(k)
  BY DEF Live
<1> QED BY <1>1 DEF AddCases

LEMMA DeleteDrops == ASSUME RunsTypeOK, NEW es, DeleteExecs(es), lastExec' = lastExec PROVE ExecDrops
  BY DEF DeleteExecs, ExecDrops

\* The three deletes take executions away; nothing else does.
Deletes ==
  \/ \E c \in Case : deleteSuiteWithCases(c)
  \/ \E k \in Cycle : deleteCycle(k)
  \/ \E k \in Cycle, cs \in SUBSET Case : removeCycleTestCases(k, cs)

LEMMA StepRows ==
  ASSUME Base, RunsStep
  PROVE  ExecKeeps \/ ExecAdds \/ (Deletes /\ ExecDrops)
<1>0. RunsTypeOK /\ Chosen \subseteq Status
  BY RunsConstants DEF Base
<1>1. CASE PlanNext \/ \E c \in Case : deleteTestCase(c) \/ deleteSuiteWithCases(c)
  <2>1. ASSUME NEW c \in Case, deleteSuiteWithCases(c) PROVE Deletes /\ ExecDrops
    BY <1>0, <2>1, DeleteDrops DEF deleteSuiteWithCases, Deletes
  <2>2. CASE PlanNext \/ \E c \in Case : deleteTestCase(c)
    BY <2>2 DEF PlanNext, createPlan, deletePlan, addPlanItem, deletePlanItem, deleteTestCase, ExecKeeps
  <2> QED BY <1>1, <2>1, <2>2
<1>2. CASE CycleNext
  <2>1. ASSUME NEW k \in Cycle, NEW cs \in SUBSET Case, addCycleTestCases(k, cs) PROVE ExecAdds
    BY <2>1 DEF addCycleTestCases, ExecAdds
  <2>2. ASSUME NEW k \in Cycle, NEW cs \in SUBSET Case, removeCycleTestCases(k, cs) PROVE Deletes /\ ExecDrops
    BY <1>0, <2>2, DeleteDrops DEF removeCycleTestCases, Deletes
  <2>3. ASSUME NEW k \in Cycle, deleteCycle(k) PROVE Deletes /\ ExecDrops
    BY <1>0, <2>3, DeleteDrops DEF deleteCycle, Deletes
  <2>4. CASE \/ \E k \in Cycle, p \in Plan \cup {None} : createCycle(k, p)
             \/ \E k \in Cycle, st \in CycleStatus \cup {"none"}, p \in Plan \cup {None} : updateCycle(k, st, p)
             \/ \E k \in Cycle, s \in Slot : shareCycle(s, k)
    BY <2>4 DEF createCycle, updateCycle, shareCycle, rows, ExecKeeps
  <2> QED BY <1>2, <2>1, <2>2, <2>3, <2>4 DEF CycleNext
<1>3. CASE ResultNext
  <2>1. ASSUME NEW e \in Exec, NEW st \in Chosen \cup {"none"}, NEW a \in Person \cup {None}, NEW d \in BOOLEAN,
               updateExecution(e, st, a, d)
        PROVE  ExecKeeps
    <3> DEFINE r == Patched(execRow[e], st, a, d)
    <3>1. execRow[e] \in ExecRow
      BY <1>0 DEF RunsTypeOK
    <3>2. r.cycle = execRow[e].cycle /\ r.case = execRow[e].case
      BY <1>0, <3>1, PatchedFacts, SMTT(60)
    <3>3. execRow' = [execRow EXCEPT ![e] = r] /\ lastExec' = lastExec
      BY <2>1 DEF updateExecution
    <3> HIDE DEF r
    <3> QED BY <1>0, <3>2, <3>3 DEF RunsTypeOK, ExecKeeps
  <2>2. ASSUME NEW s \in Slot, NEW k \in Cycle, NEW es, NEW st, NEW a, Bulk(s, k, es, st, a) PROVE ExecKeeps
    BY <2>2 DEF Bulk, rows, ExecKeeps
  <2> QED BY <1>3, <2>1, <2>2 DEF ResultNext
<1>4. CASE BugNext
  BY <1>4, ZenonT(60) DEF BugNext, createBug, updateBug, addBugLink, deleteBug, closeBug, removeBugLink, rows, ExecKeeps
<1>5. CASE AutomationNext
  BY <1>5 DEF AutomationNext, createRun, recordResult, closeRun, rows, ExecKeeps
<1>6. ASSUME NEW s \in Slot, Continue(s) PROVE ExecKeeps \/ ExecAdds
  <2>0. slot[s] \in SlotRow
    BY <1>0 DEF RunsTypeOK
  <2>1. CASE (\E enabled \in BOOLEAN : ShareWrite(s, enabled)) \/ CloseWrite(s)
    BY <2>1 DEF ShareWrite, CloseWrite, ExecKeeps
  <2>2. CASE CreateBugCommit(s) \/ UpdateBugCommit(s) \/ FailRead(s)
    BY <2>2 DEF CreateBugCommit, UpdateBugCommit, FailRead, rows, ExecKeeps
  <2>3. ASSUME NEW e \in Exec, BulkStep(s, e) PROVE ExecKeeps
    <3> DEFINE r == Patched(execRow[e], slot[s].status, slot[s].assignee, FALSE)
    <3>1. execRow[e] \in ExecRow /\ slot[s].status \in Status \cup {"none"} /\ slot[s].assignee \in Person \cup {None}
      BY <1>0, <2>0, <2>3 DEF RunsTypeOK, BulkStep, Base, HandlerSound, SlotRow
    <3>2. r.cycle = execRow[e].cycle /\ r.case = execRow[e].case
      BY <3>1, PatchedFacts
    <3>3. (execRow' = [execRow EXCEPT ![e] = r] \/ execRow' = execRow) /\ lastExec' = lastExec
      BY <2>3 DEF BulkStep
    <3> HIDE DEF r
    <3> QED BY <1>0, <3>2, <3>3 DEF RunsTypeOK, ExecKeeps
  <2>4. ASSUME NEW e \in Exec, FailStep(s, e) PROVE ExecKeeps
    <3>1. execRow[e] \in ExecRow
      BY <1>0 DEF RunsTypeOK
    <3> QED BY <1>0, <2>4, <3>1 DEF FailStep, RunsTypeOK, ExecKeeps, ExecRow
  <2>5. CASE (\E k \in Cycle : InsertRun(s, k)) \/ InsertRefused(s) \/ Reselect(s)
    BY <2>5 DEF InsertRun, InsertRefused, Reselect, rows, ExecKeeps
  <2>6. CASE AttachCases(s) \/ AttachResult(s)
    <3>1. CASE slot[s].cycle \in Cycles
      <4>1. PICK cs : AddCases(slot[s].cycle, cs)
        BY <2>6, <3>1 DEF AttachCases, AttachResult
      <4>2. AddCases(slot[s].cycle, cs \cap Case)
        BY <4>1, AddCasesWithin
      <4> QED BY <3>1, <4>2 DEF ExecAdds
    <3>2. CASE slot[s].cycle \notin Cycles
      BY <2>6, <3>2 DEF AttachCases, AttachResult, ExecKeeps
    <3> QED BY <3>1, <3>2
  <2>7. CASE WriteResult(s)
    <3>1. \A e \in Exec : execRow[e] \in ExecRow
      BY <1>0 DEF RunsTypeOK
    <3> QED BY <2>7, <3>1 DEF WriteResult, ExecKeeps, ExecRow
  <2> QED BY <1>6, <2>1, <2>2, <2>3, <2>4, <2>5, <2>6, <2>7 DEF Continue
<1> QED BY <1>1, <1>2, <1>3, <1>4, <1>5, <1>6 DEF RunsStep

LEMMA StepOnce ==
  ASSUME RunsTypeOK, ExecNumbered, OneRowPerCase, ExecKeeps \/ ExecAdds \/ ExecDrops
  PROVE  /\ OneRowPerCase' /\ ExecNumbered' /\ lastExec <= lastExec'
         /\ \A e \in Executions' : e \in Executions \/ lastExec < e
         /\ ExecKeeps \/ ExecAdds => Executions \subseteq Executions'
<1>0. lastExec \in Nat /\ Exec \subseteq Nat /\ \A e \in Exec : execRow[e].cycle \in Cycle \cup {None}
  BY RunsConstants DEF RunsTypeOK, ExecRow, Exec
<1> DEFINE Goal == /\ OneRowPerCase' /\ ExecNumbered' /\ lastExec <= lastExec'
                   /\ \A e \in Executions' : e \in Executions \/ lastExec < e
<1>1. ASSUME ExecKeeps PROVE Goal /\ Executions \subseteq Executions'
  <2>1. Executions' = Executions /\ lastExec' = lastExec
    BY <1>1 DEF ExecKeeps, Executions
  <2>2. OneRowPerCase'
    BY <1>1, <2>1 DEF ExecKeeps, OneRowPerCase, Executions
  <2> QED BY <1>0, <2>1, <2>2 DEF ExecNumbered
<1>2. ASSUME ExecDrops PROVE Goal
  <2>1. Executions' \subseteq Executions /\ lastExec' = lastExec
    BY <1>2 DEF ExecDrops, Executions, NoExec
  <2>2. \A e \in Executions' : execRow'[e] = execRow[e]
    BY <1>2 DEF ExecDrops, Executions, NoExec
  <2>3. OneRowPerCase'
    BY <2>1, <2>2 DEF OneRowPerCase
  <2> QED BY <1>0, <1>2, <2>1, <2>3 DEF ExecNumbered
<1>3. ASSUME NEW k \in Cycles, NEW cs \in SUBSET Case, AddCases(k, cs)
      PROVE  Goal /\ Executions \subseteq Executions'
  <2>0. k \in Cycle /\ k /= None
    BY RunsConstants DEF Cycles
  <2>1. lastExec' \in Nat /\ lastExec <= lastExec'
    BY <1>0, <1>3, <2>0, AddCasesFacts, RunsConstants
  <2>2. PICK N \in SUBSET Exec :
              /\ \A e \in Exec \ N : execRow'[e] = execRow[e]
              /\ \A e \in N : /\ lastExec < e /\ e <= lastExec'
                              /\ execRow'[e].cycle = k /\ execRow'[e].status = "Untested"
                              /\ execRow'[e].case \in Case \ InRun(k)
              /\ \A e, f \in N : execRow'[e].case = execRow'[f].case => e = f
    BY <1>3, <2>0, AddCasesFacts
  <2>3. \A e \in Executions : e \notin N /\ e \in Executions'
    BY <1>0, <2>2 DEF ExecNumbered, Executions
  <2>4. \A e \in Executions' : e \in N \/ (e \in Executions /\ e \notin N /\ execRow'[e] = execRow[e])
    BY <2>2 DEF Executions
  <2>5. ExecNumbered' /\ \A e \in Executions' : e \in Executions \/ lastExec < e
    BY <1>0, <2>1, <2>2, <2>4 DEF ExecNumbered, Executions
  <2>6. ASSUME NEW e \in N, NEW f \in Executions, f \notin N, execRow'[f] = execRow[f]
        PROVE  ~(execRow'[e].cycle = execRow'[f].cycle /\ execRow'[e].case = execRow'[f].case)
    BY <2>2, <2>6 DEF InRun, executions, Executions
  <2>7. OneRowPerCase'
    <3> SUFFICES ASSUME NEW e \in Executions', NEW f \in Executions',
                        execRow'[e].cycle = execRow'[f].cycle, execRow'[e].case = execRow'[f].case
                 PROVE  e = f
      BY DEF OneRowPerCase
    <3>1. CASE e \in N /\ f \in N
      BY <2>2, <3>1
    <3>2. CASE e \notin N /\ f \notin N
      BY <2>4, <3>2 DEF OneRowPerCase
    <3> QED BY <2>4, <2>6, <3>1, <3>2
  <2> QED BY <2>1, <2>3, <2>5, <2>7
<1> HIDE DEF Goal
<1>4. Goal /\ (ExecKeeps \/ ExecAdds => Executions \subseteq Executions')
  BY <1>1, <1>2, <1>3 DEF ExecAdds
<1> QED BY <1>4 DEF Goal

-----------------------------------------------------------------------------
(* What a step does to the runs *)

\* The clock of one run.
ClockOf(k) ==
  k \in Cycles => /\ cycleRow[k].ended <=> cycleRow[k].status = "Completed"
                  /\ cycleRow[k].source = "automation" => cycleRow[k].started

Ticks == (\A k \in Cycle : ClockOf(k)) => \A k \in Cycle : ClockOf(k)'

\* Whether a run exists and has the external id.
CycleMoves(k) ==
  \/ cycleRow'[k].source = cycleRow[k].source /\ cycleRow'[k].external = cycleRow[k].external
  \/ cycleRow'[k].source = "deleted" /\ deleteCycle(k)
  \/ /\ cycleRow[k].source = "none" /\ FreshCycle(k)
     /\ cycleRow'[k].source = "manual" /\ ~cycleRow'[k].external
  \/ cycleRow[k].source = "none" /\ \E s \in Slot : InsertRun(s, k)

\* One row is written.
LEMMA OneTick ==
  ASSUME RunsTypeOK, NEW k \in Cycle, NEW r, cycleRow' = [cycleRow EXCEPT ![k] = r],
         r.source \in {"manual", "automation"} /\ ClockOf(k) =>
           /\ r.ended <=> r.status = "Completed"
           /\ r.source = "automation" => r.started,
         \/ r.source = cycleRow[k].source /\ r.external = cycleRow[k].external
         \/ r.source = "deleted" /\ deleteCycle(k)
         \/ cycleRow[k].source = "none" /\ FreshCycle(k) /\ r.source = "manual" /\ ~r.external
         \/ cycleRow[k].source = "none" /\ \E s \in Slot : InsertRun(s, k)
  PROVE  Ticks /\ \A j \in Cycle : CycleMoves(j)
<1>1. cycleRow'[k] = r /\ \A j \in Cycle : j /= k => cycleRow'[j] = cycleRow[j]
  BY DEF RunsTypeOK
<1>2. Ticks
  BY <1>1 DEF Ticks, ClockOf, Cycles
<1>3. \A j \in Cycle : CycleMoves(j)
  BY <1>1 DEF CycleMoves
<1> QED BY <1>2, <1>3

LEMMA NoTick == ASSUME UNCHANGED cycleRow PROVE Ticks /\ \A j \in Cycle : CycleMoves(j)
  BY DEF Ticks, ClockOf, Cycles, CycleMoves

LEMMA StepTicks ==
  ASSUME Base, RunsStep
  PROVE  Ticks /\ \A j \in Cycle : CycleMoves(j)
<1>0. RunsTypeOK
  BY DEF Base
<1>1. ASSUME NEW p \in Plan, deletePlan(p) PROVE Ticks /\ \A j \in Cycle : CycleMoves(j)
  <2>1. cycleRow' = [k \in Cycle |-> IF cycleRow[k].plan = p
                                     THEN [cycleRow[k] EXCEPT !.plan = None] ELSE cycleRow[k]]
    BY <1>1 DEF deletePlan
  <2>2. ASSUME NEW k \in Cycle
        PROVE  /\ cycleRow'[k].source = cycleRow[k].source /\ cycleRow'[k].external = cycleRow[k].external
               /\ cycleRow'[k].status = cycleRow[k].status /\ cycleRow'[k].ended = cycleRow[k].ended
               /\ cycleRow'[k].started = cycleRow[k].started
    <3>1. cycleRow[k] \in CycleRow
      BY <1>0 DEF RunsTypeOK
    <3> QED BY <2>1, <3>1 DEF CycleRow
  <2>3. Ticks
    BY <2>2 DEF Ticks, ClockOf, Cycles
  <2> QED BY <2>2, <2>3 DEF CycleMoves
<1>2. ASSUME NEW k \in Cycle, NEW p \in Plan \cup {None}, createCycle(k, p) PROVE Ticks /\ \A j \in Cycle : CycleMoves(j)
  <2> DEFINE r == [NoCycle EXCEPT !.source = "manual", !.plan = p]
  <2>1. r.source = "manual" /\ r.ended = FALSE /\ r.status = "Planning" /\ r.external = FALSE
    BY DEF NoCycle
  <2>2. cycleRow' = [cycleRow EXCEPT ![k] = r] /\ cycleRow[k].source = "none" /\ FreshCycle(k)
    BY <1>2 DEF createCycle, FreshCycle
  <2> HIDE DEF r
  <2> QED BY <1>0, <2>1, <2>2, OneTick
<1>3. ASSUME NEW k \in Cycle, NEW st \in CycleStatus \cup {"none"}, NEW p \in Plan \cup {None}, updateCycle(k, st, p)
      PROVE  Ticks /\ \A j \in Cycle : CycleMoves(j)
  <2> DEFINE r == IF st = "none" THEN [cycleRow[k] EXCEPT !.plan = p] ELSE UpdatedCycle(cycleRow[k], st, p)
  <2>1. cycleRow[k] \in CycleRow
    BY <1>0 DEF RunsTypeOK
  <2>2. /\ r.source = cycleRow[k].source /\ r.external = cycleRow[k].external
        /\ cycleRow[k].started => r.started
        /\ (r.status = cycleRow[k].status /\ r.ended = cycleRow[k].ended) \/ (r.ended <=> r.status = "Completed")
    BY <2>1 DEF CycleRow, UpdatedCycle
  <2>3. cycleRow' = [cycleRow EXCEPT ![k] = r] /\ k \in Cycles
    BY <1>3 DEF updateCycle
  <2> HIDE DEF r
  <2> QED BY <1>0, <2>2, <2>3, OneTick DEF ClockOf
<1>4. ASSUME NEW k \in Cycle, deleteCycle(k) PROVE Ticks /\ \A j \in Cycle : CycleMoves(j)
  <2> DEFINE r == [NoCycle EXCEPT !.source = "deleted"]
  <2>1. r.source = "deleted"
    BY DEF NoCycle
  <2>2. cycleRow' = [cycleRow EXCEPT ![k] = r]
    BY <1>4 DEF deleteCycle
  <2> HIDE DEF r
  <2> QED BY <1>0, <1>4, <2>1, <2>2, OneTick
<1>5. ASSUME NEW s \in Slot, NEW enabled \in BOOLEAN, ShareWrite(s, enabled) PROVE Ticks /\ \A j \in Cycle : CycleMoves(j)
  <2> DEFINE k == slot[s].cycle
             r == [cycleRow[k] EXCEPT !.token = slot[s].token, !.shared = enabled]
  <2>1. CASE k \in Cycles
    <3>1. k \in Cycle /\ cycleRow[k] \in CycleRow
      BY <1>0, <2>1 DEF Cycles, RunsTypeOK
    <3>2. /\ r.source = cycleRow[k].source /\ r.external = cycleRow[k].external
          /\ r.started = cycleRow[k].started /\ r.status = cycleRow[k].status /\ r.ended = cycleRow[k].ended
      BY <3>1 DEF CycleRow
    <3>3. cycleRow' = [cycleRow EXCEPT ![k].token = slot[s].token, ![k].shared = enabled]
      BY <1>5, <2>1 DEF ShareWrite
    <3>4. cycleRow' = [cycleRow EXCEPT ![k] = r]
      BY <1>0, <3>1, <3>3 DEF RunsTypeOK
    <3> HIDE DEF r, k
    <3> QED BY <1>0, <2>1, <3>1, <3>2, <3>4, OneTick DEF ClockOf
  <2>2. CASE k \notin Cycles
    BY <1>5, <2>2, NoTick DEF ShareWrite
  <2> QED BY <2>1, <2>2
<1>6. ASSUME NEW s \in Slot, CloseWrite(s) PROVE Ticks /\ \A j \in Cycle : CycleMoves(j)
  <2> DEFINE k == slot[s].cycle
             r == [cycleRow[k] EXCEPT !.status = "Completed", !.ended = TRUE, !.closed = slot[s].status]
  <2>1. CASE k \in Cycles
    <3>1. k \in Cycle /\ cycleRow[k] \in CycleRow
      BY <1>0, <2>1 DEF Cycles, RunsTypeOK
    <3>2. /\ r.source = cycleRow[k].source /\ r.external = cycleRow[k].external
          /\ r.started = cycleRow[k].started /\ r.status = "Completed" /\ r.ended = TRUE
      BY <3>1 DEF CycleRow
    <3>3. cycleRow' = [cycleRow EXCEPT ![k].status = "Completed", ![k].ended = TRUE, ![k].closed = slot[s].status]
      BY <1>6, <2>1 DEF CloseWrite
    <3>4. cycleRow' = [cycleRow EXCEPT ![k] = r]
      BY <1>0, <3>1, <3>3 DEF RunsTypeOK
    <3> HIDE DEF r, k
    <3> QED BY <1>0, <2>1, <3>1, <3>2, <3>4, OneTick DEF ClockOf
  <2>2. CASE k \notin Cycles
    BY <1>6, <2>2, NoTick DEF CloseWrite
  <2> QED BY <2>1, <2>2
<1>7. ASSUME NEW s \in Slot, NEW k \in Cycle, InsertRun(s, k) PROVE Ticks /\ \A j \in Cycle : CycleMoves(j)
  <2> DEFINE r == [NoCycle EXCEPT !.source = "automation", !.status = "In Progress", !.started = TRUE,
                                  !.external = slot[s].external]
  <2>1. r.source = "automation" /\ r.ended = FALSE /\ r.status = "In Progress" /\ r.started = TRUE
    BY DEF NoCycle
  <2>2. cycleRow' = [cycleRow EXCEPT ![k] = r] /\ cycleRow[k].source = "none"
    BY <1>7 DEF InsertRun, FreshCycle
  <2> HIDE DEF r
  <2> QED BY <1>0, <1>7, <2>1, <2>2, OneTick
<1>8. ASSUME UNCHANGED cycleRow PROVE Ticks /\ \A j \in Cycle : CycleMoves(j)
  BY <1>8, NoTick
<1>9. CASE PlanNext \/ \E c \in Case : deleteTestCase(c) \/ deleteSuiteWithCases(c)
  BY <1>1, <1>8, <1>9, ZenonT(60) DEF PlanNext, createPlan, addPlanItem, deletePlanItem, deleteTestCase, deleteSuiteWithCases
<1>10. CASE CycleNext
  <2>1. ASSUME NEW k \in Cycle, NEW s \in Slot, shareCycle(s, k) PROVE UNCHANGED cycleRow
    BY <2>1 DEF shareCycle, rows
  <2>2. ASSUME NEW k \in Cycle, NEW cs \in SUBSET Case, addCycleTestCases(k, cs) \/ removeCycleTestCases(k, cs)
        PROVE  UNCHANGED cycleRow
    BY <2>2 DEF addCycleTestCases, removeCycleTestCases
  <2> QED BY <1>2, <1>3, <1>4, <1>8, <1>10, <2>1, <2>2 DEF CycleNext
<1>11. CASE ResultNext \/ BugNext \/ AutomationNext
  <2>1. UNCHANGED cycleRow
    BY <1>11, ZenonT(60) DEF ResultNext, BugNext, AutomationNext, updateExecution, Bulk, createBug, updateBug, addBugLink,
                 deleteBug, closeBug, removeBugLink, createRun, recordResult, closeRun, rows
  <2> QED BY <1>8, <2>1
<1>12. ASSUME NEW s \in Slot, Continue(s) PROVE Ticks /\ \A j \in Cycle : CycleMoves(j)
  <2>1. CASE \/ CreateBugCommit(s) \/ UpdateBugCommit(s) \/ FailRead(s)
             \/ \E e \in Exec : BulkStep(s, e) \/ FailStep(s, e)
             \/ InsertRefused(s) \/ Reselect(s) \/ AttachCases(s) \/ AttachResult(s) \/ WriteResult(s)
    <3>1. UNCHANGED cycleRow
      BY <2>1 DEF CreateBugCommit, UpdateBugCommit, FailRead, BulkStep, FailStep, InsertRefused, Reselect,
                  AttachCases, AttachResult, WriteResult, rows
    <3> QED BY <1>8, <3>1
  <2> QED BY <1>5, <1>6, <1>7, <1>12, <2>1 DEF Continue
<1> QED BY <1>9, <1>10, <1>11, <1>12 DEF RunsStep

-----------------------------------------------------------------------------
(* What a step does to the handlers *)

\* A handler that has executions to fail goes on with just that; one that has new
\* ones has seen them exist; one that is about to attach cases to the run of an
\* external id holds a run that has it.
Moves(s) ==
  /\ slot[s].op \in {"fail", "failing"} =>
       slot'[s] = slot[s] \/ FailRead(s) \/ \E e \in Exec : FailStep(s, e)
  /\ slot'[s].op = "fail" /\ slot[s].op /= "fail" => slot'[s].ids \subseteq Executions
  /\ slot'[s].op = "attach" /\ slot'[s].external =>
       \/ slot'[s] = slot[s]
       \/ slot'[s].cycle \in WithExternalId /\ UNCHANGED cycleRow
       \/ InsertRun(s, slot'[s].cycle) /\ slot'[s].cycle \in Cycle

LEMMA OneMoves ==
  ASSUME RunsTypeOK, NEW s \in Slot, NEW r, slot' = [slot EXCEPT ![s] = r],
         slot[s].op \notin {"fail", "failing"},
         r.op = "fail" => r.ids \subseteq Executions,
         r.op = "attach" /\ r.external =>
           \/ r.cycle \in WithExternalId /\ UNCHANGED cycleRow
           \/ InsertRun(s, r.cycle) /\ r.cycle \in Cycle
  PROVE  \A t \in Slot : Moves(t)
<1>1. slot'[s] = r /\ \A t \in Slot : t /= s => slot'[t] = slot[t]
  BY DEF RunsTypeOK
<1> QED BY <1>1 DEF Moves

LEMMA OpenMoves ==
  ASSUME RunsTypeOK, NEW s \in Slot, NEW r, Open(s, r),
         r.op = "fail" => r.ids \subseteq Executions,
         r.op = "attach" /\ r.external => r.cycle \in WithExternalId /\ UNCHANGED cycleRow
  PROVE  \A t \in Slot : Moves(t)
<1>1. slot' = [slot EXCEPT ![s] = r] /\ slot[s].op \notin {"fail", "failing"}
  BY DEF Open
<1> QED BY <1>1, OneMoves

LEMMA FinishMoves ==
  ASSUME RunsTypeOK, NEW s \in Slot, Finish(s), slot[s].op \notin {"fail", "failing"}
  PROVE  \A t \in Slot : Moves(t)
<1>1. slot' = [slot EXCEPT ![s] = Idle] /\ Idle.op = "idle"
  BY IdleFacts DEF Finish
<1> QED BY <1>1, OneMoves

\* What a request puts in a slot it opens.
LEMMA OpenedFacts ==
  /\ [Idle EXCEPT !.op = "fail"].op = "fail"
  /\ \A op, x, y, z : [Idle EXCEPT !.op = op, !.cycle = x, !.token = y].op = op
  /\ \A op, x, y, z : [Idle EXCEPT !.op = op, !.ids = x, !.status = y, !.assignee = z].op = op
  /\ \A op, x, y : [Idle EXCEPT !.op = op, !.bug = x, !.links = y].op = op
  /\ \A op, x : [Idle EXCEPT !.op = op, !.ids = x].op = op /\ [Idle EXCEPT !.op = op, !.ids = x].ids = x
  /\ \A op, x, y, z : [Idle EXCEPT !.op = op, !.cycle = x, !.case = y, !.status = z].op = op
  /\ \A op, x, y : [Idle EXCEPT !.op = op, !.cycle = x, !.status = y].op = op
  /\ \A op, x, y, z : LET r == [Idle EXCEPT !.op = op, !.cycle = x, !.cases = y, !.external = z]
                      IN  r.op = op /\ r.cycle = x /\ r.external = z
  BY DEF Idle

LEMMA RequestMoves ==
  ASSUME Base, PlanNext \/ CycleNext \/ ResultNext \/ BugNext \/ AutomationNext
                 \/ \E c \in Case : deleteTestCase(c) \/ deleteSuiteWithCases(c)
  PROVE  \A t \in Slot : Moves(t)
<1>0. RunsTypeOK
  BY DEF Base
<1>1. ASSUME UNCHANGED slot PROVE \A t \in Slot : Moves(t)
  BY <1>1 DEF Moves
<1>2. ASSUME NEW s \in Slot, NEW k \in Cycle, shareCycle(s, k) PROVE \A t \in Slot : Moves(t)
  <2> DEFINE r == [Idle EXCEPT !.op = "share", !.cycle = k,
                               !.token = IF cycleRow[k].token = 0 THEN requests + 1 ELSE cycleRow[k].token]
  <2>1. Open(s, r) /\ r.op \notin {"fail", "attach"}
    BY <1>2, OpenedFacts DEF shareCycle
  <2> HIDE DEF r
  <2> QED BY <1>0, <2>1, OpenMoves
<1>3. ASSUME NEW s \in Slot, NEW k, NEW es, NEW st, NEW a, Bulk(s, k, es, st, a) PROVE \A t \in Slot : Moves(t)
  <2> DEFINE r == [Idle EXCEPT !.op = "bulk", !.ids = es, !.status = st, !.assignee = a]
  <2>1. Open(s, r) /\ r.op \notin {"fail", "attach"}
    BY <1>3, OpenedFacts DEF Bulk
  <2> HIDE DEF r
  <2> QED BY <1>0, <2>1, OpenMoves
<1>4. ASSUME NEW s \in Slot, NEW b, NEW ls, createBug(s, b, ls) \/ updateBug(s, b, ls) PROVE \A t \in Slot : Moves(t)
  <2>1. PICK op \in {"report", "relink"} : Open(s, [Idle EXCEPT !.op = op, !.bug = b, !.links = sanitizeBugLinks(ls)])
    BY <1>4 DEF createBug, updateBug
  <2> DEFINE r == [Idle EXCEPT !.op = op, !.bug = b, !.links = sanitizeBugLinks(ls)]
  <2>2. Open(s, r) /\ r.op \notin {"fail", "attach"}
    BY <2>1, OpenedFacts
  <2> HIDE DEF r
  <2> QED BY <1>0, <2>2, OpenMoves
<1>5. ASSUME NEW s \in Slot, NEW b, NEW l, addBugLink(s, b, l) PROVE \A t \in Slot : Moves(t)
  <2> DEFINE r == [Idle EXCEPT !.op = "fail", !.ids = Linked({l})]
  <2>1. r.ids = Linked({l})
    BY OpenedFacts
  <2>2. Linked({l}) \subseteq Executions
    BY <1>5 DEF addBugLink, Resolves, Linked
  <2>3. Open(s, r) /\ r.op = "fail"
    BY <1>5, OpenedFacts DEF addBugLink
  <2> HIDE DEF r
  <2> QED BY <1>0, <2>1, <2>2, <2>3, OpenMoves
<1>6. ASSUME NEW s \in Slot, NEW external \in BOOLEAN, NEW cs, createRun(s, external, cs) PROVE \A t \in Slot : Moves(t)
  <2>1. PICK k \in IF external /\ WithExternalId /= {} THEN WithExternalId ELSE {None} :
          Open(s, [Idle EXCEPT !.op = IF k = None THEN "insert" ELSE "attach", !.cycle = k,
                               !.cases = cs, !.external = external])
    BY <1>6 DEF createRun
  <2> DEFINE r == [Idle EXCEPT !.op = IF k = None THEN "insert" ELSE "attach", !.cycle = k,
                               !.cases = cs, !.external = external]
  <2>2. r.op = (IF k = None THEN "insert" ELSE "attach") /\ r.cycle = k
    BY OpenedFacts
  <2>3. Open(s, r) /\ UNCHANGED cycleRow
    BY <1>6, <2>1 DEF createRun, rows
  <2> HIDE DEF r
  <2> QED BY <1>0, <2>2, <2>3, OpenMoves
<1>7. ASSUME NEW s \in Slot, NEW k, NEW c, NEW st, recordResult(s, k, c, st) PROVE \A t \in Slot : Moves(t)
  <2> DEFINE r == [Idle EXCEPT !.op = "result", !.cycle = k, !.case = c, !.status = st]
  <2>1. Open(s, r) /\ r.op \notin {"fail", "attach"}
    BY <1>7, OpenedFacts DEF recordResult
  <2> HIDE DEF r
  <2> QED BY <1>0, <2>1, OpenMoves
<1>8. ASSUME NEW s \in Slot, NEW k, NEW how, closeRun(s, k, how) PROVE \A t \in Slot : Moves(t)
  <2> DEFINE r == [Idle EXCEPT !.op = "close", !.cycle = k, !.status = how]
  <2>1. Open(s, r) /\ r.op \notin {"fail", "attach"}
    BY <1>8, OpenedFacts DEF closeRun
  <2> HIDE DEF r
  <2> QED BY <1>0, <2>1, OpenMoves
<1>9. CASE PlanNext \/ \E c \in Case : deleteTestCase(c) \/ deleteSuiteWithCases(c)
  BY <1>1, <1>9 DEF PlanNext, createPlan, deletePlan, addPlanItem, deletePlanItem, deleteTestCase, deleteSuiteWithCases
<1>10. CASE CycleNext
  BY <1>1, <1>2, <1>10 DEF CycleNext, createCycle, updateCycle, deleteCycle, addCycleTestCases, removeCycleTestCases
<1>11. CASE ResultNext
  BY <1>1, <1>3, <1>11 DEF ResultNext, updateExecution
<1>12. CASE BugNext
  BY <1>1, <1>4, <1>5, <1>12 DEF BugNext, deleteBug, closeBug, removeBugLink
<1>13. CASE AutomationNext
  BY <1>6, <1>7, <1>8, <1>13 DEF AutomationNext
<1> QED BY <1>9, <1>10, <1>11, <1>12, <1>13

LEMMA HandlerMoves ==
  ASSUME Base, NEW s \in Slot, Continue(s)
  PROVE  \A t \in Slot : Moves(t)
<1>0. RunsTypeOK /\ slot[s] \in SlotRow
  BY DEF Base, RunsTypeOK
<1>1. CASE (\E enabled \in BOOLEAN : ShareWrite(s, enabled)) \/ UpdateBugCommit(s) \/ AttachCases(s)
             \/ WriteResult(s) \/ CloseWrite(s)
  <2>1. Finish(s) /\ slot[s].op \notin {"fail", "failing"}
    BY <1>1 DEF ShareWrite, UpdateBugCommit, AttachCases, WriteResult, CloseWrite
  <2> QED BY <1>0, <2>1, FinishMoves, SMTT(60)
<1>2. CASE CreateBugCommit(s)
  <2>1. CASE \A l \in slot[s].links : Resolves(l)
    <3> DEFINE r == [Idle EXCEPT !.op = "fail", !.ids = Linked(slot[s].links)]
    <3>1. r.ids \subseteq Executions /\ r.op = "fail"
      <4>1. Linked(slot[s].links) \subseteq Executions
        BY <2>1 DEF Linked, Resolves
      <4> QED BY <4>1, OpenedFacts
    <3>2. slot' = [slot EXCEPT ![s] = r] /\ slot[s].op = "report"
      BY <1>2, <2>1 DEF CreateBugCommit, Go
    <3> HIDE DEF r
    <3> QED BY <1>0, <3>1, <3>2, OneMoves
  <2>2. CASE ~\A l \in slot[s].links : Resolves(l)
    BY <1>0, <1>2, <2>2, FinishMoves DEF CreateBugCommit
  <2> QED BY <2>1, <2>2
<1>3. CASE FailRead(s) \/ \E e \in Exec : FailStep(s, e)
  <2>1. \A t \in Slot : t /= s => slot'[t] = slot[t]
    BY <1>0, <1>3 DEF FailRead, FailStep, Go, RunsTypeOK
  <2>2. slot'[s].op \in {"idle", "failing"}
    <3>1. CASE FailRead(s)
      <4> DEFINE todo == {e \in slot[s].ids \cap Executions : execRow[e].status /= "Failed"}
      <4>1. slot'[s] = IF todo = {} THEN Idle ELSE [Idle EXCEPT !.op = "failing", !.ids = todo]
        BY <1>0, <3>1 DEF FailRead, Go, RunsTypeOK
      <4> HIDE DEF todo
      <4> QED BY <4>1, OpenedFacts, IdleFacts
    <3>2. ASSUME NEW e \in Exec, FailStep(s, e) PROVE slot'[s].op \in {"idle", "failing"}
      <4>1. slot'[s] = IF slot[s].ids = {e} THEN Idle ELSE [slot[s] EXCEPT !.ids = @ \ {e}]
        BY <1>0, <3>2 DEF FailStep, Go, RunsTypeOK
      <4>2. slot[s].op = "failing"
        BY <3>2 DEF FailStep
      <4> QED BY <1>0, <4>1, <4>2, IdleFacts DEF SlotRow
    <3> QED BY <1>3, <3>1, <3>2
  <2> QED BY <1>3, <2>1, <2>2 DEF Moves
<1>4. ASSUME NEW e \in Exec, BulkStep(s, e) PROVE \A t \in Slot : Moves(t)
  <2> DEFINE r == IF slot[s].ids = {e} THEN Idle ELSE [slot[s] EXCEPT !.ids = @ \ {e}]
  <2>1. slot[s].op = "bulk"
    BY <1>4 DEF BulkStep
  <2>2. r.op \in {"idle", "bulk"}
    BY <1>0, <2>1, LoopFacts, IdleFacts
  <2>3. Finish(s) \/ slot' = [slot EXCEPT ![s] = r]
    BY <1>4 DEF BulkStep, Go
  <2> HIDE DEF r
  <2> QED BY <1>0, <2>1, <2>2, <2>3, FinishMoves, OneMoves
<1>5. ASSUME NEW k \in Cycle, InsertRun(s, k) PROVE \A t \in Slot : Moves(t)
  <2> DEFINE r == [slot[s] EXCEPT !.op = "attach", !.cycle = k]
  <2>1. r.cycle = k /\ r.op = "attach"
    BY <1>0 DEF SlotRow
  <2>2. slot' = [slot EXCEPT ![s] = r] /\ slot[s].op = "insert"
    BY <1>5 DEF InsertRun, Go
  <2> HIDE DEF r
  <2> QED BY <1>0, <1>5, <2>1, <2>2, OneMoves
<1>6. CASE InsertRefused(s)
  <2> DEFINE r == [slot[s] EXCEPT !.op = "reselect"]
  <2>1. r.op = "reselect"
    BY <1>0 DEF SlotRow
  <2>2. slot' = [slot EXCEPT ![s] = r] /\ slot[s].op = "insert"
    BY <1>6 DEF InsertRefused, Go
  <2> HIDE DEF r
  <2> QED BY <1>0, <2>1, <2>2, OneMoves
<1>7. CASE Reselect(s)
  <2>1. CASE WithExternalId = {}
    BY <1>0, <1>7, <2>1, FinishMoves DEF Reselect
  <2>2. CASE WithExternalId /= {}
    <3>1. PICK k \in WithExternalId : slot' = [slot EXCEPT ![s] = [slot[s] EXCEPT !.op = "attach", !.cycle = k]]
      BY <1>7, <2>2 DEF Reselect, Go
    <3> DEFINE r == [slot[s] EXCEPT !.op = "attach", !.cycle = k]
    <3>2. r.cycle = k /\ r.op = "attach"
      BY <1>0 DEF SlotRow
    <3>3. slot' = [slot EXCEPT ![s] = r] /\ UNCHANGED cycleRow /\ slot[s].op = "reselect"
      BY <1>7, <3>1 DEF Reselect, rows
    <3> HIDE DEF r
    <3> QED BY <1>0, <3>2, <3>3, OneMoves
  <2> QED BY <2>1, <2>2
<1>8. CASE AttachResult(s)
  <2> DEFINE r == [slot[s] EXCEPT !.op = "write"]
  <2>1. r.op = "write" /\ slot[s].op = "result"
    BY <1>0, <1>8 DEF SlotRow, AttachResult
  <2>2. Finish(s) \/ slot' = [slot EXCEPT ![s] = r]
    BY <1>8 DEF AttachResult, Go
  <2> HIDE DEF r
  <2> QED BY <1>0, <2>1, <2>2, FinishMoves, OneMoves
<1> QED BY <1>1, <1>2, <1>3, <1>4, <1>5, <1>6, <1>7, <1>8 DEF Continue

LEMMA StepMoves == ASSUME Base, RunsStep PROVE \A t \in Slot : Moves(t)
  BY RequestMoves, HandlerMoves DEF RunsStep

-----------------------------------------------------------------------------
(* Shards, links and failures *)

LEMMA InsertFacts ==
  ASSUME RunsTypeOK, NEW s \in Slot, NEW k \in Cycle, InsertRun(s, k)
  PROVE  /\ cycleRow'[k].source = "automation" /\ cycleRow'[k].external = slot[s].external
         /\ slot'[s].external = slot[s].external
         /\ \A j \in Cycle : j /= k => cycleRow'[j] = cycleRow[j]
<1> DEFINE x == [NoCycle EXCEPT !.source = "automation", !.status = "In Progress", !.started = TRUE,
                                !.external = slot[s].external]
           r == [slot[s] EXCEPT !.op = "attach", !.cycle = k]
<1>1. slot[s] \in SlotRow
  BY DEF RunsTypeOK
<1>2. x.source = "automation" /\ x.external = slot[s].external
  BY DEF NoCycle
<1>3. r.external = slot[s].external
  BY <1>1 DEF SlotRow
<1>4. cycleRow' = [cycleRow EXCEPT ![k] = x] /\ slot' = [slot EXCEPT ![s] = r]
  BY DEF InsertRun, Go
<1> HIDE DEF x, r
<1> QED BY <1>2, <1>3, <1>4 DEF RunsTypeOK

LEMMA NextShards ==
  ASSUME Base, RunsStep, ShardsShareRun
  PROVE  ShardsShareRun'
<1>0. RunsTypeOK /\ (\A j \in Cycle : CycleMoves(j)) /\ \A t \in Slot : Moves(t)
  BY StepTicks, StepMoves DEF Base
<1>1. \A j, k \in WithExternalId' : j = k
  <2>1. ASSUME NEW s \in Slot, NEW k \in Cycle, InsertRun(s, k)
        PROVE  \A i, j \in WithExternalId' : i = j
    <3>1. WithExternalId' \subseteq WithExternalId \cup {k}
      BY <1>0, <2>1, InsertFacts DEF WithExternalId, Cycles
    <3>2. CASE slot[s].external
      BY <2>1, <3>1, <3>2 DEF InsertRun
    <3>3. CASE ~slot[s].external
      <4>1. k \notin WithExternalId'
        BY <1>0, <2>1, <3>3, InsertFacts DEF WithExternalId
      <4> QED BY <3>1, <4>1 DEF ShardsShareRun
    <3> QED BY <3>2, <3>3
  <2>2. CASE ~\E s \in Slot, k \in Cycle : InsertRun(s, k)
    <3>1. ASSUME NEW k \in WithExternalId' PROVE k \in WithExternalId
      <4>1. k \in Cycle /\ cycleRow'[k].source \in {"manual", "automation"} /\ cycleRow'[k].external
        BY DEF WithExternalId, Cycles
      <4>2. CycleMoves(k)
        BY <1>0, <4>1
      <4> QED BY <2>2, <4>1, <4>2 DEF CycleMoves, WithExternalId, Cycles
    <3> QED BY <3>1 DEF ShardsShareRun
  <2> QED BY <2>1, <2>2
<1>2. ASSUME NEW s \in Slot, slot'[s].op = "attach", slot'[s].external
      PROVE  slot'[s].cycle \in WithExternalId' \/ slot'[s].cycle \notin Cycles'
  <2> DEFINE k == slot'[s].cycle
  <2>1. Moves(s)
    BY <1>0
  <2>2. CASE slot'[s] = slot[s]
    <3>1. k \in Cycle /\ cycleRow[k].source /= "none" /\ (k \in WithExternalId \/ k \notin Cycles)
      BY <1>2, <2>2 DEF Base, HandlerSound, ShardsShareRun
    <3>2. CycleMoves(k)
      BY <1>0, <3>1
    <3> HIDE DEF k
    <3>3. k \in WithExternalId' \/ k \notin Cycles'
      BY <3>1, <3>2 DEF CycleMoves, WithExternalId, Cycles
    <3> QED BY <3>3 DEF k
  <2>3. CASE k \in WithExternalId /\ UNCHANGED cycleRow
    BY <2>3 DEF WithExternalId, Cycles
  <2>4. CASE InsertRun(s, k) /\ k \in Cycle
    <3>1. cycleRow'[k].source = "automation" /\ cycleRow'[k].external
      BY <1>0, <1>2, <2>4, InsertFacts
    <3> QED BY <2>4, <3>1 DEF WithExternalId, Cycles
  <2> QED BY <1>2, <2>1, <2>2, <2>3, <2>4 DEF Moves
<1> QED BY <1>1, <1>2 DEF ShardsShareRun

\* Nothing a link or a bug names is taken away.
LEMMA LinksKeep ==
  ASSUME LinksResolve, bugLink' \subseteq bugLink, \A x \in bugLink' : x.bug \in Bugs',
         Executions \subseteq Executions', Cycles \subseteq Cycles',
         \A c \in Case : caseRow[c] /= "gone" => caseRow'[c] /= "gone",
         \A b \in Bugs' : bugRow'[b].exec \in Executions' \cup {0}
  PROVE  LinksResolve'
  BY DEF LinksResolve, Resolves

\* The foreign keys clear what names a deleted row.
LEMMA UnlinkKeeps ==
  ASSUME RunsTypeOK, LinksResolve, NEW es, NEW ks, NEW cs, UnlinkBugs(es, ks, cs),
         Executions \ es \subseteq Executions', Cycles \ ks \subseteq Cycles',
         \A c \in Case \ cs : caseRow[c] /= "gone" => caseRow'[c] /= "gone"
  PROVE  LinksResolve'
<1>1. ASSUME NEW b \in Bug
      PROVE  /\ bugRow'[b].status = bugRow[b].status
             /\ bugRow'[b].exec = IF bugRow[b].exec \in es THEN 0 ELSE bugRow[b].exec
  <2>1. bugRow[b] \in [status : {"none", "Open", "Closed", "deleted"}, exec : {0} \cup Exec]
    BY DEF RunsTypeOK
  <2> QED BY <2>1 DEF UnlinkBugs
<1>2. Bugs' = Bugs
  BY <1>1 DEF Bugs
<1>3. ASSUME NEW x \in bugLink' PROVE x.bug \in Bugs' /\ Resolves(x)'
  <2>1. PICK l \in bugLink : /\ l.case \notin cs
                             /\ x = [l EXCEPT !.cycle = IF @ \in ks THEN None ELSE @, !.exec = IF @ \in es THEN 0 ELSE @]
    BY DEF UnlinkBugs
  <2>2. l \in [bug : Bug, case : Case \cup {None}, cycle : Cycle \cup {None}, exec : {0} \cup Exec]
    BY DEF RunsTypeOK
  <2>3. /\ x.bug = l.bug /\ x.case = l.case
        /\ x.cycle = IF l.cycle \in ks THEN None ELSE l.cycle
        /\ x.exec = IF l.exec \in es THEN 0 ELSE l.exec
    BY <2>1, <2>2
  <2>4. l.bug \in Bugs /\ Resolves(l)
    BY DEF LinksResolve
  <2> QED BY <1>2, <2>1, <2>3, <2>4 DEF Resolves
<1>4. ASSUME NEW b \in Bugs' PROVE bugRow'[b].exec \in Executions' \cup {0}
  BY <1>1, <1>2 DEF LinksResolve, Bugs
<1> QED BY <1>3, <1>4 DEF LinksResolve

\* The links of a bug are replaced by ones that resolve.
LEMMA ReplaceKeeps ==
  ASSUME LinksResolve, NEW b \in Bugs', NEW ls, \A l \in ls : Resolves(l), replaceBugLinks(b, ls),
         Bugs \subseteq Bugs', UNCHANGED <<caseRow, cycleRow, execRow>>,
         \A x \in Bugs' : bugRow'[x].exec \in Executions' \cup {0}
  PROVE  LinksResolve'
<1>1. Executions' = Executions /\ Cycles' = Cycles
  BY DEF Executions, Cycles
<1>2. ASSUME NEW x \in bugLink' PROVE x.bug \in Bugs' /\ Resolves(x)'
  <2>1. CASE x \in bugLink
    BY <1>1, <2>1 DEF LinksResolve, Resolves
  <2>2. CASE x \in ForBug(b, ls)
    <3>1. PICK l \in ls : x = [bug |-> b, case |-> l.case, cycle |-> l.cycle, exec |-> l.exec]
      BY <2>2 DEF ForBug
    <3> QED BY <1>1, <3>1 DEF Resolves
  <2> QED BY <2>1, <2>2 DEF replaceBugLinks
<1> QED BY <1>2 DEF LinksResolve

\* A step either takes nothing away that a link could name, or is a delete.
LEMMA StepKeeps ==
  ASSUME Base, RunsStep, ExecNumbered, OneRowPerCase, ~Deletes
  PROVE  /\ Executions \subseteq Executions' /\ Cycles \subseteq Cycles'
         /\ \A c \in Case : caseRow[c] /= "gone" => caseRow'[c] /= "gone"
<1>0. RunsTypeOK
  BY DEF Base
<1>1. Executions \subseteq Executions'
  BY <1>0, StepRows, StepOnce
<1>2. Cycles \subseteq Cycles'
  BY StepTicks DEF Deletes, CycleMoves, Cycles
<1>3. \A c \in Case : caseRow[c] /= "gone" => caseRow'[c] /= "gone"
  <2>1. caseRow' = caseRow \/ \E c \in Case : deleteTestCase(c)
    <3>1. CASE PlanNext \/ \E c \in Case : deleteTestCase(c) \/ deleteSuiteWithCases(c)
      BY <3>1 DEF Deletes, PlanNext, createPlan, deletePlan, addPlanItem, deletePlanItem
    <3>2. CASE CycleNext
      BY <3>2, ZenonT(60) DEF CycleNext, createCycle, updateCycle, deleteCycle, shareCycle, addCycleTestCases, removeCycleTestCases, rows
    <3>3. CASE ResultNext \/ BugNext \/ AutomationNext
      BY <3>3, ZenonT(60) DEF ResultNext, BugNext, AutomationNext, updateExecution, Bulk, createBug, updateBug, addBugLink,
                  deleteBug, closeBug, removeBugLink, createRun, recordResult, closeRun, rows
    <3>4. ASSUME NEW s \in Slot, Continue(s) PROVE caseRow' = caseRow
      BY <3>4 DEF Continue, ShareWrite, CloseWrite, CreateBugCommit, UpdateBugCommit, FailRead, BulkStep, FailStep,
                  InsertRun, InsertRefused, Reselect, AttachCases, AttachResult, WriteResult, rows
    <3> QED BY <3>1, <3>2, <3>3, <3>4 DEF RunsStep
  <2> QED BY <1>0, <2>1 DEF deleteTestCase, RunsTypeOK
<1> QED BY <1>1, <1>2, <1>3

LEMMA DeleteLinks ==
  ASSUME Base, LinksResolve, Deletes
  PROVE  LinksResolve'
<1>0. RunsTypeOK
  BY DEF Base
<1>1. ASSUME NEW es, DeleteExecs(es) PROVE Executions \ es \subseteq Executions'
  BY <1>1 DEF DeleteExecs, Executions
<1>2. ASSUME NEW c \in Case, deleteSuiteWithCases(c) PROVE LinksResolve'
  <2>1. PICK es : DeleteExecs(es) /\ UnlinkBugs(es, {}, {c})
    BY <1>2 DEF deleteSuiteWithCases
  <2>2. Cycles' = Cycles /\ \A x \in Case \ {c} : caseRow'[x] = caseRow[x]
    BY <1>0, <1>2 DEF deleteSuiteWithCases, Cycles, RunsTypeOK
  <2>3. Executions \ es \subseteq Executions'
    BY <1>1, <2>1
  <2>4. Cycles \ {} \subseteq Cycles' /\ \A x \in Case \ {c} : caseRow[x] /= "gone" => caseRow'[x] /= "gone"
    BY <2>2
  <2> QED BY <1>0, <2>1, <2>3, <2>4, UnlinkKeeps
<1>3. ASSUME NEW k \in Cycle, deleteCycle(k) PROVE LinksResolve'
  <2> DEFINE es == executions(k)
  <2>1. DeleteExecs(es) /\ UnlinkBugs(es, {k}, {}) /\ caseRow' = caseRow
    BY <1>3 DEF deleteCycle
  <2>2. Cycles \ {k} \subseteq Cycles'
    BY <1>0, <1>3 DEF deleteCycle, Cycles, RunsTypeOK
  <2> HIDE DEF es
  <2>3. Executions \ es \subseteq Executions'
    BY <1>1, <2>1
  <2>4. \A x \in Case \ {} : caseRow[x] /= "gone" => caseRow'[x] /= "gone"
    BY <2>1
  <2> QED BY <1>0, <2>1, <2>2, <2>3, <2>4, UnlinkKeeps
<1>4. ASSUME NEW k \in Cycle, NEW cs \in SUBSET Case, removeCycleTestCases(k, cs) PROVE LinksResolve'
  <2>1. PICK es : DeleteExecs(es) /\ UnlinkBugs(es, {}, {})
    BY <1>4 DEF removeCycleTestCases
  <2>2. Cycles \ {} \subseteq Cycles' /\ \A x \in Case \ {} : caseRow[x] /= "gone" => caseRow'[x] /= "gone"
    BY <1>4 DEF removeCycleTestCases, Cycles
  <2>3. Executions \ es \subseteq Executions'
    BY <1>1, <2>1
  <2> QED BY <1>0, <2>1, <2>2, <2>3, UnlinkKeeps
<1> QED BY <1>2, <1>3, <1>4 DEF Deletes

LEMMA StepLinks ==
  ASSUME Base, RunsStep, ExecNumbered, OneRowPerCase, LinksResolve
  PROVE  LinksResolve'
<1>0. RunsTypeOK
  BY DEF Base
<1> DEFINE Kept == /\ Executions \subseteq Executions' /\ Cycles \subseteq Cycles'
                   /\ \A c \in Case : caseRow[c] /= "gone" => caseRow'[c] /= "gone"
<1>1. ASSUME ~Deletes PROVE Kept
  BY <1>1, StepKeeps
<1>2. ASSUME Kept, UNCHANGED <<bugRow, bugLink>> PROVE LinksResolve'
  <2>1. Bugs' = Bugs /\ bugLink' \subseteq bugLink
    BY <1>2 DEF Bugs
  <2> QED BY <1>2, <2>1, LinksKeep DEF LinksResolve
<1>3. ASSUME Kept, NEW b \in Bug, deleteBug(b) PROVE LinksResolve'
  <2>1. /\ \A x \in Bug : x /= b => bugRow'[x] = bugRow[x]
        /\ bugRow'[b].status = "deleted" /\ bugLink' = {x \in bugLink : x.bug /= b}
    BY <1>0, <1>3 DEF deleteBug, RunsTypeOK, NoBug
  <2>2. Bugs' = Bugs \ {b}
    BY <2>1 DEF Bugs
  <2>3. bugLink' \subseteq bugLink /\ \A x \in bugLink' : x.bug \in Bugs'
    BY <2>1, <2>2 DEF LinksResolve
  <2>4. \A x \in Bugs' : bugRow'[x].exec \in Executions' \cup {0}
    BY <1>3, <2>1, <2>2 DEF LinksResolve, Bugs
  <2> QED BY <1>3, <2>3, <2>4, LinksKeep
<1>4. ASSUME Kept, NEW b \in Bug, closeBug(b, "Closed") PROVE LinksResolve'
  <2>1. \A x \in Bug : /\ bugRow[x].exec = bugRow'[x].exec
                       /\ x /= b => bugRow'[x].status = bugRow[x].status
                       /\ x = b => bugRow'[x].status = "Closed"
    BY <1>0, <1>4 DEF closeBug, RunsTypeOK
  <2>2. Bugs' = Bugs /\ bugLink' \subseteq bugLink
    BY <1>4, <2>1 DEF closeBug, Bugs
  <2>3. \A x \in Bugs' : bugRow'[x].exec \in Executions' \cup {0}
    BY <1>4, <2>1, <2>2 DEF LinksResolve, Bugs
  <2> QED BY <1>4, <2>2, <2>3, LinksKeep DEF LinksResolve
<1>5. ASSUME Kept, NEW b \in Bug, NEW x \in bugLink, removeBugLink(b, x) PROVE LinksResolve'
  <2>1. Bugs' = Bugs /\ bugRow' = bugRow /\ bugLink' \subseteq bugLink
    BY <1>5 DEF removeBugLink, Bugs
  <2> QED BY <1>5, <2>1, LinksKeep DEF LinksResolve
<1>6. ASSUME NEW s \in Slot, NEW b \in Bug, NEW l \in LinkOffered, addBugLink(s, b, l) PROVE LinksResolve'
  <2>1. b \in Bugs /\ Resolves(l) /\ (bugLink' = bugLink \/ bugLink' = bugLink \cup ForBug(b, {l}))
        /\ Bugs' = Bugs /\ Executions' = Executions /\ Cycles' = Cycles /\ bugRow' = bugRow /\ caseRow' = caseRow
    BY <1>6 DEF addBugLink, Bugs, Executions, Cycles
  <2>2. ForBug(b, {l}) = {[bug |-> b, case |-> l.case, cycle |-> l.cycle, exec |-> l.exec]}
    BY DEF ForBug
  <2>3. ASSUME NEW x \in bugLink' PROVE x.bug \in Bugs' /\ Resolves(x)'
    <3>1. CASE x \in bugLink
      BY <2>1, <3>1 DEF LinksResolve, Resolves
    <3>2. CASE x = [bug |-> b, case |-> l.case, cycle |-> l.cycle, exec |-> l.exec]
      <4>1. x.bug = b /\ x.case = l.case /\ x.cycle = l.cycle /\ x.exec = l.exec
        BY <3>2
      <4> QED BY <2>1, <4>1 DEF Resolves
    <3> QED BY <2>1, <2>2, <3>1, <3>2
  <2> QED BY <2>1, <2>3 DEF LinksResolve
<1>7. ASSUME NEW s \in Slot, CreateBugCommit(s) PROVE LinksResolve'
  <2>1. slot[s].bug \in Bug
    BY <1>7 DEF CreateBugCommit, Base, HandlerSound
  <2>2. CASE \A l \in slot[s].links : Resolves(l)
    <3>1. PICK e \in First(slot[s].links) : bugRow' = [bugRow EXCEPT ![slot[s].bug] = [status |-> "Open", exec |-> e]]
      BY <1>7, <2>2 DEF CreateBugCommit
    <3>2. e \in Executions \cup {0}
      BY <2>2 DEF First, Resolves
    <3>3. replaceBugLinks(slot[s].bug, slot[s].links) /\ UNCHANGED <<caseRow, cycleRow, execRow>> /\ Executions' = Executions
      BY <1>7, <2>2 DEF CreateBugCommit, Executions
    <3>4. /\ bugRow'[slot[s].bug] = [status |-> "Open", exec |-> e]
          /\ \A x \in Bug : x /= slot[s].bug => bugRow'[x] = bugRow[x]
      BY <1>0, <2>1, <3>1 DEF RunsTypeOK
    <3>5. slot[s].bug \in Bugs' /\ Bugs \subseteq Bugs'
      BY <2>1, <3>4 DEF Bugs
    <3>6. \A x \in Bugs' : bugRow'[x].exec \in Executions' \cup {0}
      BY <3>2, <3>3, <3>4 DEF LinksResolve, Bugs
    <3> QED BY <2>2, <3>3, <3>5, <3>6, ReplaceKeeps
  <2>3. CASE ~\A l \in slot[s].links : Resolves(l)
    <3>1. UNCHANGED <<caseRow, cycleRow, execRow, bugRow, bugLink>>
      BY <1>7, <2>3 DEF CreateBugCommit
    <3> QED BY <3>1 DEF LinksResolve, Resolves, Bugs, Executions, Cycles
  <2> QED BY <2>2, <2>3
<1>8. ASSUME NEW s \in Slot, UpdateBugCommit(s) PROVE LinksResolve'
  <2>1. UNCHANGED <<caseRow, cycleRow, execRow, bugRow>> /\ Bugs' = Bugs /\ Executions' = Executions /\ Cycles' = Cycles
    BY <1>8 DEF UpdateBugCommit, Bugs, Executions, Cycles
  <2>2. CASE slot[s].links /= {} /\ \A l \in slot[s].links : slot[s].bug \in Bugs /\ Resolves(l)
    <3>1. replaceBugLinks(slot[s].bug, slot[s].links) /\ slot[s].bug \in Bugs' /\ Bugs \subseteq Bugs'
      BY <1>8, <2>1, <2>2 DEF UpdateBugCommit
    <3>2. \A x \in Bugs' : bugRow'[x].exec \in Executions' \cup {0}
      BY <2>1 DEF LinksResolve
    <3> QED BY <2>1, <2>2, <3>1, <3>2, ReplaceKeeps
  <2>3. CASE ~(slot[s].links /= {} /\ \A l \in slot[s].links : slot[s].bug \in Bugs /\ Resolves(l))
    <3>1. bugLink' \subseteq bugLink
      BY <1>8, <2>3 DEF UpdateBugCommit, replaceBugLinks, ForBug
    <3> QED BY <2>1, <3>1 DEF LinksResolve, Resolves
  <2> QED BY <2>2, <2>3
<1> HIDE DEF Kept
<1>9. CASE Deletes
  BY <1>9, DeleteLinks
<1>10. CASE ~Deletes
  <2>0. Kept
    BY <1>1, <1>10
  <2>1. CASE PlanNext \/ \E c \in Case : deleteTestCase(c) \/ deleteSuiteWithCases(c)
    <3>1. UNCHANGED <<bugRow, bugLink>>
      BY <1>10, <2>1, SMTT(60) DEF Deletes, PlanNext, createPlan, deletePlan, addPlanItem, deletePlanItem, deleteTestCase
    <3> QED BY <1>2, <2>0, <3>1
  <2>2. CASE CycleNext \/ ResultNext \/ AutomationNext
    <3>1. UNCHANGED <<bugRow, bugLink>>
      BY <1>10, <2>2, ZenonT(60) DEF Deletes, CycleNext, ResultNext, AutomationNext, createCycle, updateCycle, shareCycle,
                  addCycleTestCases, updateExecution, Bulk, createRun, recordResult, closeRun, rows
    <3> QED BY <1>2, <2>0, <3>1
  <2>3. CASE BugNext
    <3>1. ASSUME NEW s \in Slot, NEW b \in Bug, NEW l \in LinkOffered, createBug(s, b, {l}) \/ updateBug(s, b, {l})
          PROVE  UNCHANGED <<bugRow, bugLink>>
      BY <3>1 DEF createBug, updateBug, rows
    <3> QED BY <1>2, <1>3, <1>4, <1>5, <1>6, <2>0, <2>3, <3>1 DEF BugNext
  <2>4. ASSUME NEW s \in Slot, Continue(s) PROVE LinksResolve'
    <3>1. \/ CreateBugCommit(s) \/ UpdateBugCommit(s)
          \/ UNCHANGED <<bugRow, bugLink>>
      BY <2>4 DEF Continue, ShareWrite, CloseWrite, FailRead, BulkStep, FailStep,
                  InsertRun, InsertRefused, Reselect, AttachCases, AttachResult, WriteResult, rows
    <3> QED BY <1>2, <1>7, <1>8, <2>0, <3>1, SMTT(60)
  <2> QED BY <2>1, <2>2, <2>3, <2>4 DEF RunsStep
<1> QED BY <1>9, <1>10

LEMMA NextFails ==
  ASSUME Base, RunsNext, Numbered, OneRowPerCase, BugFailsExecution
  PROVE  BugFailsExecution' /\ \A e \in owed' : e <= lastExec'
<1>0. RunsTypeOK /\ RunsStep /\ lastExec \in Nat /\ lastExec' \in Nat /\ owed \subseteq Exec /\ Exec \subseteq Nat
  <2>1. RunsTypeOK /\ RunsStep /\ RunsTypeOK'
    BY NextBase DEF Base, RunsNext
  <2> QED BY <2>1, RunsConstants DEF RunsTypeOK, Exec
<1>1. lastExec <= lastExec' /\ \A e \in Executions' : e \in Executions \/ lastExec < e
  BY <1>0, StepRows, StepOnce DEF Numbered
<1>2. \A t \in Slot : Moves(t)
  BY <1>0, StepMoves
<1> SUFFICES ASSUME NEW e \in owed'
             PROVE  /\ e <= lastExec'
                    /\ e \notin Executions' \/ \E s \in Slot : slot'[s].op \in {"fail", "failing"} /\ e \in slot'[s].ids
  BY DEF BugFailsExecution
<1>3. e \in owed \cup NewlyLinked /\ execRow'[e].status /= "Failed"
  BY DEF RunsNext
<1>4. CASE e \in NewlyLinked
  <2>1. PICK s \in Slot : slot'[s].op = "fail" /\ slot[s].op /= "fail" /\ e \in slot'[s].ids
    BY <1>4 DEF NewlyLinked
  <2>2. e \in Executions
    BY <1>2, <2>1 DEF Moves
  <2>3. e <= lastExec /\ e \in Nat
    BY <1>0, <2>2 DEF Numbered, ExecNumbered, Executions
  <2> QED BY <1>0, <1>1, <2>1, <2>3
<1>5. CASE e \in owed
  <2>1. e <= lastExec /\ e \in Exec /\ e <= lastExec'
    BY <1>0, <1>1, <1>5 DEF Numbered
  <2>2. CASE e \notin Executions
    BY <1>0, <1>1, <2>1, <2>2
  <2>3. ASSUME NEW s \in Slot, slot[s].op \in {"fail", "failing"}, e \in slot[s].ids, e \in Executions
        PROVE  e \notin Executions' \/ \E t \in Slot : slot'[t].op \in {"fail", "failing"} /\ e \in slot'[t].ids
    <3>1. CASE slot'[s] = slot[s]
      BY <2>3, <3>1
    <3>2. CASE FailRead(s)
      <4> DEFINE todo == {x \in slot[s].ids \cap Executions : execRow[x].status /= "Failed"}
      <4>1. e \in todo
        BY <1>3, <2>3, <3>2 DEF FailRead, rows
      <4>2. slot'[s] = [Idle EXCEPT !.op = "failing", !.ids = todo]
        BY <1>0, <3>2, <4>1 DEF FailRead, Go, RunsTypeOK
      <4>3. slot'[s].op = "failing" /\ slot'[s].ids = todo
        BY <4>2 DEF Idle
      <4> QED BY <4>1, <4>3
    <3>3. ASSUME NEW f \in Exec, FailStep(s, f) PROVE slot'[s].op \in {"fail", "failing"} /\ e \in slot'[s].ids
      <4>1. e /= f
        BY <1>0, <1>3, <2>3, <3>3 DEF FailStep, RunsTypeOK, ExecRow
      <4>2. slot'[s] = [slot[s] EXCEPT !.ids = @ \ {f}] /\ slot[s] \in SlotRow
        BY <1>0, <2>3, <3>3, <4>1 DEF FailStep, Go, RunsTypeOK
      <4>3. slot'[s].op = slot[s].op /\ slot'[s].ids = slot[s].ids \ {f}
        BY <4>2 DEF SlotRow
      <4> QED BY <2>3, <4>1, <4>3
    <3> QED BY <1>2, <2>3, <3>1, <3>2, <3>3 DEF Moves
  <2> QED BY <1>5, <2>1, <2>2, <2>3 DEF BugFailsExecution
<1> QED BY <1>3, <1>4, <1>5

-----------------------------------------------------------------------------
(* The theorems *)

LEMMA InitRunsInv == RunsInit => RunsInv
<1> SUFFICES ASSUME RunsInit PROVE RunsInv
  OBVIOUS
<1>1. NoCycle \in CycleRow /\ NoExec \in ExecRow /\ Idle \in SlotRow
      /\ NoBug \in [status : {"none", "Open", "Closed", "deleted"}, exec : {0} \cup Exec]
  <2>1. 0 \in 0 .. MaxRequests
    BY RunsConstants
  <2> QED BY <2>1, IdleFacts DEF NoCycle, CycleRow, CycleStatus, NoExec, ExecRow, Status, NoBug
<1>2. RunsTypeOK
  BY <1>1, RunsConstants DEF RunsInit, RunsTypeOK
<1>3. Executions = {} /\ Cycles = {} /\ Bugs = {}
  BY DEF RunsInit, Executions, Cycles, Bugs, NoExec, NoCycle, NoBug
<1>4. \A s \in Slot : HandlerSound(s)
  BY IdleFacts DEF RunsInit, HandlerSound
<1>5. Numbered /\ OneRowPerCase /\ Started /\ ClockSound
  BY <1>3 DEF RunsInit, Numbered, ExecNumbered, OneRowPerCase, Started, ClockSound
<1>6. ShardsShareRun /\ BugsConsistent
  BY <1>3, IdleFacts DEF RunsInit, ShardsShareRun, WithExternalId, BugsConsistent, LinksResolve, BugFailsExecution
<1> QED BY <1>2, <1>4, <1>5, <1>6 DEF RunsInv

LEMMA NextRunsInv == RunsInv /\ [RunsNext]_rvars => RunsInv'
<1> SUFFICES ASSUME RunsInv, [RunsNext]_rvars PROVE RunsInv'
  OBVIOUS
<1>1. CASE UNCHANGED rvars
  BY <1>1 DEF RunsInv, RunsTypeOK, HandlerSound, Numbered, ExecNumbered, OneRowPerCase, Started, ClockSound,
              ShardsShareRun, WithExternalId, BugsConsistent, LinksResolve, Resolves, BugFailsExecution,
              Executions, Cycles, Bugs, rvars, rows
<1>2. CASE RunsNext
  <2>0. Base /\ Base' /\ RunsStep /\ RunsTypeOK
    BY <1>2, NextBase DEF Base, RunsInv, RunsNext
  <2>1. OneRowPerCase' /\ ExecNumbered'
    BY <2>0, StepRows, StepOnce DEF RunsInv, Numbered
  <2>2. Started' /\ ClockSound'
    <3>1. \A k \in Cycle : ClockOf(k)
      BY DEF RunsInv, Started, ClockSound, ClockOf
    <3>2. \A k \in Cycle : ClockOf(k)'
      BY <2>0, <3>1, StepTicks DEF Ticks
    <3> QED BY <3>2 DEF Started, ClockSound, ClockOf, Cycles
  <2>3. ShardsShareRun'
    BY <2>0, NextShards DEF RunsInv
  <2>4. LinksResolve'
    BY <2>0, StepLinks DEF RunsInv, Numbered, BugsConsistent
  <2>5. BugFailsExecution' /\ \A e \in owed' : e <= lastExec'
    BY <1>2, <2>0, NextFails DEF RunsInv, BugsConsistent
  <2> QED BY <2>0, <2>1, <2>2, <2>3, <2>4, <2>5 DEF RunsInv, Base, Numbered, BugsConsistent
<1> QED BY <1>1, <1>2

\* The inductive invariant the four properties below follow from.
THEOREM RunsInvariant == RunsSpec => []RunsInv
<1> QED BY InitRunsInv, NextRunsInv, PTL DEF RunsSpec

\* A case is in a run at most once, however many requests and CI results attach it at
\* the same time (addCycleTestCases, attachCases).
THEOREM CasesOnce == RunsSpec => []OneRowPerCase
<1>1. RunsInv => OneRowPerCase
  BY DEF RunsInv
<1> QED BY <1>1, RunsInvariant, PTL

\* The clock of a run agrees with its status, whoever closes, reopens or replans it
\* (updateCycle, closeRun).
THEOREM ClockRight == RunsSpec => []ClockSound
<1>1. RunsInv => ClockSound
  BY DEF RunsInv
<1> QED BY <1>1, RunsInvariant, PTL

\* The shards of one CI job never open two runs under its external id, and attach
\* their cases to the one there is (createRun).
THEOREM ShardsMeet == RunsSpec => []ShardsShareRun
<1>1. RunsInv => ShardsShareRun
  BY DEF RunsInv
<1> QED BY <1>1, RunsInvariant, PTL

\* What a bug names exists (sanitizeBugLinks and the cascades), and what it is linked
\* to has been failed or is about to be (failLinkedExecutions).
THEOREM BugsRight == RunsSpec => []BugsConsistent
<1>1. RunsInv => BugsConsistent
  BY DEF RunsInv
<1> QED BY <1>1, RunsInvariant, PTL

-----------------------------------------------------------------------------
(* Sums *)

\* What an accumulation over the subsets of S does, whatever order it takes.
Pick(s) == CHOOSE x \in s : TRUE
Accumulates(it, f, S) ==
  it = [s \in SUBSET S |-> IF s = {} THEN 0 ELSE f[Pick(s)] + it[s \ {Pick(s)}]]

\* A sum is the one accumulation over the subsets of its domain, read at the domain.
LEMMA SumUnfolds ==
  ASSUME NEW f
  PROVE SumOf(f) = (CHOOSE it : Accumulates(it, f, DOMAIN f))[DOMAIN f]
BY DEF SumOf, FoldFunction, FoldFunctionOnSet, MapThenFoldSet, Accumulates, Pick

\* A non-empty set of finite sets has a smallest one.
LEMMA SmallestIn ==
  ASSUME NEW S, IsFiniteSet(S), NEW D, D \subseteq SUBSET S, D /= {}
  PROVE  \E s \in D : \A r \in D : Cardinality(s) <= Cardinality(r)
<1> DEFINE N == {Cardinality(s) : s \in D}
<1>1. N \subseteq Nat /\ N /= {}
  <2>1. \A s \in D : Cardinality(s) \in Nat
    BY FS_Subset, FS_CardinalityType
  <2> QED BY <2>1
<1>2. PICK n \in N : \A m \in N : ~(<<m, n>> \in OpToRel(<, Nat))
  <2> HIDE DEF N
  <2> QED BY <1>1, NatLessThanWellFounded, WFMin
<1>3. ASSUME NEW m \in N PROVE n <= m
  <2>1. <<m, n>> \in Nat \X Nat /\ <<m, n>>[1] = m /\ <<m, n>>[2] = n
    BY <1>1
  <2>2. ~(m < n)
    BY <1>2, <2>1 DEF OpToRel
  <2> QED BY <1>1, <2>2
<1> QED BY <1>3

\* Picking an element of a set leaves a smaller one.
LEMMA SmallerLeft ==
  ASSUME NEW S, IsFiniteSet(S), NEW s \in SUBSET S, s /= {}
  PROVE  /\ Pick(s) \in s
         /\ s \ {Pick(s)} \in SUBSET S
         /\ Cardinality(s) \in Nat
         /\ Cardinality(s \ {Pick(s)}) \in Nat
         /\ Cardinality(s \ {Pick(s)}) = Cardinality(s) - 1
<1>1. Pick(s) \in s
  BY DEF Pick
<1>2. IsFiniteSet(s)
  BY FS_Subset
<1>3. Cardinality(s \ {Pick(s)}) = Cardinality(s) - 1 /\ IsFiniteSet(s \ {Pick(s)})
  BY <1>1, <1>2, FS_RemoveElement
<1>4. Cardinality(s) \in Nat /\ Cardinality(s \ {Pick(s)}) \in Nat
  BY <1>2, <1>3, FS_CardinalityType
<1> QED BY <1>1, <1>3, <1>4

\* An accumulation term by term.
LEMMA AccumulatesAt ==
  ASSUME NEW S, NEW f, NEW it, Accumulates(it, f, S)
  PROVE  /\ it[{}] = 0
         /\ \A s \in SUBSET S : s /= {} => it[s] = f[Pick(s)] + it[s \ {Pick(s)}]
<1>1. \A s \in SUBSET S : it[s] = IF s = {} THEN 0 ELSE f[Pick(s)] + it[s \ {Pick(s)}]
  BY DEF Accumulates
<1> QED BY <1>1

\* Two accumulations are the same: they agree on the smallest set where they could differ.
LEMMA OneAccumulation ==
  ASSUME NEW S, IsFiniteSet(S), NEW f, NEW a, NEW b, Accumulates(a, f, S), Accumulates(b, f, S)
  PROVE  a = b
<1> DEFINE D == {s \in SUBSET S : a[s] /= b[s]}
<1>1. D = {}
  <2> SUFFICES ASSUME D /= {} PROVE FALSE
    OBVIOUS
  <2>1. PICK s \in D : \A r \in D : Cardinality(s) <= Cardinality(r)
    BY SmallestIn
  <2>2. s \in SUBSET S /\ a[s] /= b[s]
    OBVIOUS
  <2>3. s /= {}
    BY <2>2, AccumulatesAt
  <2>4. s \ {Pick(s)} \notin D
    <3> HIDE DEF D
    <3> QED BY <2>1, <2>2, <2>3, SmallerLeft
  <2>5. a[s \ {Pick(s)}] = b[s \ {Pick(s)}]
    BY <2>2, <2>3, <2>4, SmallerLeft
  <2>6. a[s] = f[Pick(s)] + a[s \ {Pick(s)}] /\ b[s] = f[Pick(s)] + b[s \ {Pick(s)}]
    BY <2>2, <2>3, AccumulatesAt
  <2> QED BY <2>2, <2>5, <2>6
<1>2. a = [s \in SUBSET S |-> a[s]] /\ b = [s \in SUBSET S |-> b[s]]
  BY DEF Accumulates
<1> QED BY <1>1, <1>2

\* The sum of f is its accumulation.
LEMMA SumIs ==
  ASSUME NEW f, IsFiniteSet(DOMAIN f), NEW it, Accumulates(it, f, DOMAIN f)
  PROVE  SumOf(f) = it[DOMAIN f]
<1> DEFINE c == CHOOSE x : Accumulates(x, f, DOMAIN f)
<1>1. Accumulates(c, f, DOMAIN f)
  OBVIOUS
<1>2. c = it
  <2> HIDE DEF c
  <2> QED BY <1>1, OneAccumulation
<1> QED BY <1>2, SumUnfolds

\* Counting by classes: the sizes of the classes add up to the size of the whole.
LEMMA SumOfClasses ==
  ASSUME NEW S, IsFiniteSet(S), NEW U, IsFiniteSet(U), NEW cls \in [U -> S], NEW f,
         f = [x \in S |-> Cardinality({u \in U : cls[u] = x})]
  PROVE  SumOf(f) = Cardinality(U)
<1> DEFINE it == [s \in SUBSET S |-> Cardinality({u \in U : cls[u] \in s})]
<1>1. Accumulates(it, f, S)
  <2>1. ASSUME NEW s \in SUBSET S, s /= {}
        PROVE  it[s] = f[Pick(s)] + it[s \ {Pick(s)}]
    <3> DEFINE x == Pick(s)
               A == {u \in U : cls[u] = x}
               B == {u \in U : cls[u] \in s \ {x}}
    <3>1. x \in s /\ s \ {x} \in SUBSET S
      BY <2>1, SmallerLeft
    <3>2. {u \in U : cls[u] \in s} = A \cup B /\ A \cap B = {}
      BY <3>1
    <3>3. IsFiniteSet(A) /\ IsFiniteSet(B)
      BY FS_Subset
    <3>4. Cardinality(A \cup B) = Cardinality(A) + Cardinality(B) - Cardinality(A \cap B)
      <4> HIDE DEF A, B
      <4> QED BY <3>3, FS_Union
    <3>5. Cardinality(A) \in Nat /\ Cardinality(B) \in Nat /\ Cardinality(A \cap B) = 0
      BY <3>2, <3>3, FS_CardinalityType, FS_EmptySet
    <3>6. f[x] = Cardinality(A) /\ it[s \ {x}] = Cardinality(B) /\ it[s] = Cardinality(A \cup B)
      BY <3>1, <3>2
    <3> HIDE DEF A, B, it
    <3> QED BY <3>4, <3>5, <3>6
  <2>2. it[{}] = 0
    BY FS_EmptySet
  <2>3. it = [s \in SUBSET S |-> it[s]]
    OBVIOUS
  <2> HIDE DEF it
  <2> QED BY <2>1, <2>2, <2>3 DEF Accumulates
<1>2. it[S] = Cardinality(U)
  <2>1. {u \in U : cls[u] \in S} = U
    OBVIOUS
  <2> QED BY <2>1
<1>3. DOMAIN f = S
  OBVIOUS
<1> HIDE DEF it
<1> QED BY <1>1, <1>2, <1>3, SumIs

Small(S, n) == {s \in SUBSET S : Cardinality(s) <= n}
Partial(it, f, S, n) ==
  /\ it \in [Small(S, n) -> Int]
  /\ it[{}] = 0
  /\ \A s \in Small(S, n) : s /= {} => it[s] = f[Pick(s)] + it[s \ {Pick(s)}]

\* A sum can be carried from the sets of n elements to those of n + 1.
LEMMA PartialStep ==
  ASSUME NEW S, IsFiniteSet(S), NEW f \in [S -> Int], NEW n \in Nat, NEW it, Partial(it, f, S, n)
  PROVE  \E on : Partial(on, f, S, n + 1)
<1> DEFINE on == [s \in Small(S, n + 1) |-> IF Cardinality(s) <= n THEN it[s]
                                             ELSE f[Pick(s)] + it[s \ {Pick(s)}]]
<1>1. {} \in Small(S, n) /\ {} \in Small(S, n + 1) /\ Cardinality({}) = 0
  BY FS_EmptySet DEF Small
<1>2. \A s \in Small(S, n + 1) : Cardinality(s) <= n => s \in Small(S, n)
  BY DEF Small
<1>3. ASSUME NEW s \in Small(S, n + 1), s /= {}
      PROVE  s \ {Pick(s)} \in Small(S, n) /\ Cardinality(s \ {Pick(s)}) <= n /\ Pick(s) \in S
             /\ s \ {Pick(s)} \in Small(S, n + 1)
  BY <1>3, SmallerLeft DEF Small
<1>4. ASSUME NEW s \in Small(S, n + 1) PROVE on[s] \in Int
  <2>1. CASE Cardinality(s) <= n
    <3>1. it[s] \in Int
      BY <1>2, <2>1 DEF Partial
    <3> QED BY <2>1, <3>1
  <2>2. CASE ~(Cardinality(s) <= n)
    <3>1. s /= {}
      BY <1>1, <2>2
    <3>2. it[s \ {Pick(s)}] \in Int /\ f[Pick(s)] \in Int
      BY <1>3, <3>1 DEF Partial
    <3> QED BY <2>2, <3>2
  <2> QED BY <2>1, <2>2
<1>5. ASSUME NEW s \in Small(S, n + 1), s /= {}
      PROVE  on[s] = f[Pick(s)] + on[s \ {Pick(s)}]
  <2>1. on[s \ {Pick(s)}] = it[s \ {Pick(s)}]
    BY <1>3, <1>5
  <2>2. CASE Cardinality(s) <= n
    <3>1. it[s] = f[Pick(s)] + it[s \ {Pick(s)}]
      BY <1>2, <1>5, <2>2 DEF Partial
    <3> QED BY <2>1, <2>2, <3>1
  <2>3. CASE ~(Cardinality(s) <= n)
    BY <2>1, <2>3
  <2> QED BY <2>2, <2>3
<1>6. on[{}] = 0
  BY <1>1 DEF Partial
<1>7. on \in [Small(S, n + 1) -> Int]
  BY <1>4
<1> HIDE DEF on
<1> QED BY <1>5, <1>6, <1>7 DEF Partial

\* Partial accumulations reach every size.
LEMMA PartialAll ==
  ASSUME NEW S, IsFiniteSet(S), NEW f \in [S -> Int], NEW n \in Nat
  PROVE  \E it : Partial(it, f, S, n)
<1> DEFINE Bad == {k \in Nat : ~ \E it : Partial(it, f, S, k)}
<1> SUFFICES ASSUME Bad /= {} PROVE FALSE
  OBVIOUS
<1>1. PICK k \in Bad : \A m \in Bad : ~(<<m, k>> \in OpToRel(<, Nat))
  <2> HIDE DEF Bad
  <2>1. Bad \subseteq Nat
    BY DEF Bad
  <2> QED BY <2>1, NatLessThanWellFounded, WFMin
<1>2. k /= 0
  <2>1. Partial([s \in Small(S, 0) |-> 0], f, S, 0)
    <3>1. Small(S, 0) = {{}}
      <4>1. ASSUME NEW s \in SUBSET S, Cardinality(s) <= 0 PROVE s = {}
        BY <4>1, FS_Subset, FS_CardinalityType, FS_EmptySet
      <4> QED BY <4>1, FS_EmptySet DEF Small
    <3> QED BY <3>1 DEF Partial
  <2> QED BY <2>1
<1>3. k - 1 \in Nat /\ k - 1 < k /\ (k - 1) + 1 = k
  BY <1>2
<1>4. k - 1 \notin Bad
  <2>1. <<k - 1, k>> \in OpToRel(<, Nat)
    BY <1>3 DEF OpToRel
  <2> HIDE DEF Bad
  <2> QED BY <1>1, <2>1
<1>5. PICK it : Partial(it, f, S, k - 1)
  BY <1>3, <1>4
<1>6. \E on : Partial(on, f, S, (k - 1) + 1)
  BY <1>3, <1>5, PartialStep
<1> QED BY <1>3, <1>6

\* A sum of integers is an integer.
LEMMA SumType ==
  ASSUME NEW S, IsFiniteSet(S), NEW f \in [S -> Int]
  PROVE  SumOf(f) \in Int
<1>1. Cardinality(S) \in Nat
  BY FS_CardinalityType
<1>2. PICK it : Partial(it, f, S, Cardinality(S))
  BY <1>1, PartialAll
<1>3. Small(S, Cardinality(S)) = SUBSET S
  BY FS_Subset DEF Small
<1>4. it \in [SUBSET S -> Int]
  BY <1>2, <1>3 DEF Partial
<1>5. it = [s \in SUBSET S |-> it[s]]
  BY <1>4
<1>6. \A s \in SUBSET S : it[s] = IF s = {} THEN 0 ELSE f[Pick(s)] + it[s \ {Pick(s)}]
  BY <1>2, <1>3 DEF Partial
<1>7. Accumulates(it, f, S)
  BY <1>5, <1>6 DEF Accumulates
<1>8. DOMAIN f = S
  OBVIOUS
<1> QED BY <1>4, <1>7, <1>8, SumIs

-----------------------------------------------------------------------------
(* Where the executions are *)

\* An execution is in a run that exists, and only finitely many runs were ever made.
Housed  == \A e \in Executions : execRow[e].cycle \in Cycles
FewRuns == IsFiniteSet({k \in Cycle : cycleRow[k].source /= "none"})

ScreensInv == RunsInv /\ Housed /\ FewRuns

\* No operation leaves an execution behind in a run that is gone (deleteCycle takes its own).
LEMMA NextHoused ==
  ASSUME RunsInv, RunsStep, Housed
  PROVE  Housed'
<1>0. Base /\ RunsTypeOK /\ ExecNumbered /\ OneRowPerCase
  BY DEF RunsInv, Base, Numbered
<1>1. CASE ~Deletes
  <2>1. Cycles \subseteq Cycles'
    BY <1>0, <1>1, StepKeeps
  <2>2. CASE ExecKeeps
    BY <2>1, <2>2 DEF ExecKeeps, Housed, Executions
  <2>3. ASSUME NEW k \in Cycles, NEW cs \in SUBSET Case, AddCases(k, cs) PROVE Housed'
    <3>0. k \in Cycle
      BY DEF Cycles
    <3>1. PICK N \in SUBSET Exec : /\ \A e \in Exec \ N : execRow'[e] = execRow[e]
                                   /\ \A e \in N : execRow'[e].cycle = k
      BY <1>0, <2>3, <3>0, AddCasesFacts
    <3> QED BY <2>1, <3>1 DEF Housed, Executions
  <2> QED BY <1>0, <1>1, <2>2, <2>3, StepRows DEF ExecAdds
<1>2. ASSUME NEW c \in Case, deleteSuiteWithCases(c) PROVE Housed'
  <2>1. PICK es : DeleteExecs(es) /\ cycleRow' = cycleRow
    BY <1>2 DEF deleteSuiteWithCases
  <2> QED BY <2>1 DEF DeleteExecs, Housed, Executions, Cycles, NoExec
<1>3. ASSUME NEW k \in Cycle, NEW cs \in SUBSET Case, removeCycleTestCases(k, cs) PROVE Housed'
  <2>1. PICK es : DeleteExecs(es) /\ cycleRow' = cycleRow
    BY <1>3 DEF removeCycleTestCases
  <2> QED BY <2>1 DEF DeleteExecs, Housed, Executions, Cycles, NoExec
<1>4. ASSUME NEW k \in Cycle, deleteCycle(k) PROVE Housed'
  <2>1. DeleteExecs(executions(k)) /\ \A j \in Cycle : j /= k => cycleRow'[j] = cycleRow[j]
    BY <1>0, <1>4 DEF deleteCycle, RunsTypeOK
  <2>2. \A e \in Executions' : e \in Executions /\ execRow'[e] = execRow[e] /\ execRow[e].cycle /= k
    BY <2>1 DEF DeleteExecs, Executions, NoExec, executions
  <2> QED BY <2>1, <2>2 DEF Housed, Cycles
<1> QED BY <1>1, <1>2, <1>3, <1>4 DEF Deletes

\* A step creates one run at most.
LEMMA NextFewRuns ==
  ASSUME RunsInv, RunsStep, FewRuns
  PROVE  FewRuns'
<1> DEFINE Old == {k \in Cycle : cycleRow[k].source /= "none"}
           New == {k \in Cycle : cycleRow'[k].source /= "none"}
<1>1. \A k \in New : k \in Old \/ FreshCycle(k)
  <2>1. \A k \in Cycle : CycleMoves(k)
    BY StepTicks DEF RunsInv, Base
  <2> QED BY <2>1 DEF CycleMoves, InsertRun, deleteCycle, Cycles
<1>2. \A j, k \in Cycle : FreshCycle(j) /\ FreshCycle(k) => j = k
  <2>1. Cycle \subseteq Nat
    BY RunsConstants
  <2>2. ASSUME NEW j \in Cycle, NEW k \in Cycle, FreshCycle(j), FreshCycle(k) PROVE j = k
    <3>1. ~(j < k) /\ ~(k < j)
      BY <2>2 DEF FreshCycle
    <3> QED BY <2>1, <3>1
  <2> QED BY <2>2
<1> HIDE DEF Old, New
<1>3. \E x : New \subseteq Old \cup {x}
  <2>1. CASE New \subseteq Old
    BY <2>1
  <2>2. CASE ~(New \subseteq Old)
    <3>1. PICK x \in New : x \notin Old
      BY <2>2
    <3>2. New \subseteq Cycle
      BY DEF New
    <3> QED BY <1>1, <1>2, <3>1, <3>2
  <2> QED BY <2>1, <2>2
<1>4. PICK x : New \subseteq Old \cup {x}
  BY <1>3
<1>5. IsFiniteSet(Old \cup {x})
  BY FS_AddElement DEF FewRuns, Old
<1>6. IsFiniteSet(New)
  BY <1>4, <1>5, FS_Subset
<1> QED BY <1>6 DEF FewRuns, New

\* ScreensInv is inductive.
LEMMA ScreensInvKept == /\ RunsInit => ScreensInv
                        /\ ScreensInv /\ [RunsNext]_rvars => ScreensInv'
<1>1. ASSUME RunsInit PROVE ScreensInv
  <2>1. Executions = {} /\ {k \in Cycle : cycleRow[k].source /= "none"} = {}
    BY <1>1 DEF RunsInit, Executions, NoExec, NoCycle
  <2> QED BY <1>1, <2>1, InitRunsInv, FS_EmptySet DEF ScreensInv, Housed, FewRuns
<1>2. ASSUME ScreensInv, [RunsNext]_rvars PROVE ScreensInv'
  <2>1. RunsInv'
    BY <1>2, NextRunsInv DEF ScreensInv
  <2>2. CASE UNCHANGED rvars
    <3>1. Housed' /\ FewRuns'
      BY <1>2, <2>2 DEF ScreensInv, Housed, FewRuns, Executions, Cycles, rvars, rows
    <3> QED BY <2>1, <3>1 DEF ScreensInv
  <2>3. CASE RunsNext
    BY <1>2, <2>1, <2>3, NextHoused, NextFewRuns DEF ScreensInv, RunsNext
  <2> QED BY <1>2, <2>2, <2>3
<1> QED BY <1>1, <1>2

-----------------------------------------------------------------------------
(* What the screens count *)

\* Counts of rows are natural numbers within the number of rows.
LEMMA WithFacts ==
  ASSUME NEW es, es \subseteq Exec
  PROVE  /\ IsFiniteSet(es) /\ Cardinality(es) \in Nat
         /\ \A sts : With(es, sts) \in Nat /\ With(es, sts) <= Cardinality(es)
<1>1. IsFiniteSet(Exec)
  BY FS_Interval, RunsConstants DEF Exec
<1>2. IsFiniteSet(es)
  BY <1>1, FS_Subset
<1>3. Cardinality(es) \in Nat
  BY <1>2, FS_CardinalityType
<1>4. ASSUME NEW sts PROVE With(es, sts) \in Nat /\ With(es, sts) <= Cardinality(es)
  <2>1. {e \in es : execRow[e].status \in sts} \in SUBSET es
    OBVIOUS
  <2> QED BY <1>2, <2>1, FS_Subset, FS_CardinalityType DEF With
<1> QED BY <1>2, <1>3, <1>4

\* Statuses split a count.
LEMMA WithSplit ==
  ASSUME NEW es, es \subseteq Exec, NEW A, NEW B, A \cap B = {}
  PROVE  With(es, A \cup B) = With(es, A) + With(es, B)
<1> DEFINE EA == {e \in es : execRow[e].status \in A}
           EB == {e \in es : execRow[e].status \in B}
<1>1. EA \cap EB = {} /\ {e \in es : execRow[e].status \in A \cup B} = EA \cup EB
  OBVIOUS
<1>2. IsFiniteSet(EA) /\ IsFiniteSet(EB)
  BY WithFacts, FS_Subset
<1> HIDE DEF EA, EB
<1>3. Cardinality(EA \cup EB) = Cardinality(EA) + Cardinality(EB) - Cardinality(EA \cap EB)
  BY <1>2, FS_Union
<1>4. Cardinality(EA) \in Nat /\ Cardinality(EB) \in Nat /\ Cardinality(EA \cap EB) = 0
  BY <1>1, <1>2, FS_CardinalityType, FS_EmptySet
<1>5. With(es, A \cup B) = Cardinality(EA \cup EB) /\ With(es, A) = Cardinality(EA) /\ With(es, B) = Cardinality(EB)
  BY <1>1 DEF With, EA, EB
<1> QED BY <1>3, <1>4, <1>5

Settled == {"Passed", "Failed", "Blocked", "Skipped"}

\* The tiles of a set of executions.
LEMMA BucketsAddUp ==
  ASSUME RunsTypeOK, NEW es, es \subseteq Exec
  PROVE  /\ Buckets(es).total = Cardinality(es) /\ Buckets(es).untested = With(es, {"Untested", "Retest"})
         /\ Buckets(es).passed + Buckets(es).failed + Buckets(es).blocked + Buckets(es).skipped = With(es, Settled)
         /\ Cardinality(es) = With(es, Settled) + With(es, {"Untested", "Retest"})
         /\ BucketSum(Buckets(es)) = Cardinality(es)
<1>1. Settled = (({"Passed"} \cup {"Failed"}) \cup {"Blocked"}) \cup {"Skipped"}
  BY DEF Settled
<1>2. With(es, {"Passed"} \cup {"Failed"}) = With(es, {"Passed"}) + With(es, {"Failed"})
  BY WithSplit
<1>3. With(es, ({"Passed"} \cup {"Failed"}) \cup {"Blocked"})
        = With(es, {"Passed"} \cup {"Failed"}) + With(es, {"Blocked"})
  BY WithSplit
<1>4. With(es, Settled) = With(es, ({"Passed"} \cup {"Failed"}) \cup {"Blocked"}) + With(es, {"Skipped"})
  BY <1>1, WithSplit
<1>5. With(es, Settled \cup {"Untested", "Retest"}) = With(es, Settled) + With(es, {"Untested", "Retest"})
  BY WithSplit DEF Settled
<1>6. With(es, Settled \cup {"Untested", "Retest"}) = Cardinality(es)
  <2>1. {e \in es : execRow[e].status \in Settled \cup {"Untested", "Retest"}} = es
    BY DEF RunsTypeOK, ExecRow, Status, Settled
  <2> QED BY <2>1 DEF With
<1>7. \A sts : With(es, sts) \in Nat
  BY WithFacts
<1>8. /\ Buckets(es).total = Cardinality(es) /\ Buckets(es).untested = With(es, {"Untested", "Retest"})
      /\ Buckets(es).passed = With(es, {"Passed"}) /\ Buckets(es).failed = With(es, {"Failed"})
      /\ Buckets(es).blocked = With(es, {"Blocked"}) /\ Buckets(es).skipped = With(es, {"Skipped"})
  BY DEF Buckets
<1> QED BY <1>2, <1>3, <1>4, <1>5, <1>6, <1>7, <1>8 DEF BucketSum

\* Rounding down.
LEMMA DivFacts ==
  ASSUME NEW x \in Int, NEW y \in Int, y > 0
  PROVE  x \div y \in Int /\ y * (x \div y) <= x /\ x < y * (x \div y) + y
  OBVIOUS

\* A share of a whole is a percentage.
LEMMA PercentFacts ==
  ASSUME NEW a \in Nat, NEW b \in Nat, a <= b, b > 0
  PROVE  Percent(a, b) \in 0 .. 100
<1> DEFINE x == 200 * a + b
           y == 2 * b
           q == x \div y
<1>1. x \in Int /\ y \in Int /\ y > 0 /\ x >= 0 /\ x <= 201 * b
  OBVIOUS
<1>2. q \in Int /\ y * q <= x /\ x < y * q + y
  BY <1>1, DivFacts
<1> HIDE DEF q
<1>3. q >= 0
  <2> SUFFICES ASSUME q <= -1 PROVE FALSE
    BY <1>2
  <2>1. b * (q + 1) <= 0
    BY <1>2
  <2>2. y * q + y = 2 * (b * (q + 1))
    BY <1>2
  <2> QED BY <1>1, <1>2, <2>1, <2>2
<1>4. q <= 100
  <2> SUFFICES ASSUME q >= 101 PROVE FALSE
    BY <1>2
  <2>1. b * (q - 101) >= 0
    BY <1>2
  <2>2. y * q = 2 * (b * (q - 101)) + 202 * b
    BY <1>2
  <2> QED BY <1>1, <1>2, <2>1, <2>2
<1> QED BY <1>2, <1>3, <1>4 DEF Percent, q

-----------------------------------------------------------------------------
(* Screens that add up *)

\* The image of a finite set is finite.
LEMMA ImageFinite ==
  ASSUME NEW U, IsFiniteSet(U), NEW T, NEW f \in [U -> T]
  PROVE  IsFiniteSet({f[x] : x \in U})
<1>1. f \in Surjection(U, {f[x] : x \in U})
  BY DEF Surjection
<1> QED BY <1>1, FS_Surjection

\* The rows that the reports count are finitely many.
LEMMA FiniteRows ==
  ASSUME ScreensInv
  PROVE  /\ RunsTypeOK /\ IsFiniteSet(Executions) /\ Executions \subseteq Exec
         /\ IsFiniteSet(Cycles) /\ \A k : executions(k) \subseteq Exec
<1>1. RunsTypeOK /\ Executions \subseteq Exec /\ \A k : executions(k) \subseteq Exec
  BY DEF ScreensInv, RunsInv, Executions, executions
<1>2. IsFiniteSet(Executions)
  BY <1>1, WithFacts
<1>3. Cycles \in SUBSET {k \in Cycle : cycleRow[k].source /= "none"}
  BY DEF Cycles
<1>4. IsFiniteSet(Cycles)
  BY <1>3, FS_Subset DEF ScreensInv, FewRuns
<1> QED BY <1>1, <1>2, <1>4

\* The rows of several runs are the rows of each, counted once.
LEMMA CountByRun ==
  ASSUME ScreensInv, NEW R, R \subseteq Cycles, NEW sts, NEW f,
         f = [k \in R |-> With(executions(k), sts)]
  PROVE  SumOf(f) = With(UNION {executions(k) : k \in R}, sts)
<1> DEFINE U   == {e \in UNION {executions(k) : k \in R} : execRow[e].status \in sts}
           cls == [e \in U |-> execRow[e].cycle]
<1>1. IsFiniteSet(R)
  BY FiniteRows, FS_Subset
<1>2. U \subseteq Exec
  BY DEF executions
<1>3. IsFiniteSet(U)
  BY <1>2, WithFacts
<1>4. cls \in [U -> R]
  BY DEF executions
<1>5. ASSUME NEW k \in R PROVE {u \in U : cls[u] = k} = {e \in executions(k) : execRow[e].status \in sts}
  BY DEF executions
<1>6. f = [k \in R |-> Cardinality({u \in U : cls[u] = k})]
  BY <1>5 DEF With
<1> HIDE DEF U, cls
<1>7. SumOf(f) = Cardinality(U)
  BY <1>1, <1>3, <1>4, <1>6, SumOfClasses
<1> QED BY <1>7 DEF U, With

\* Every execution has one of the statuses.
LEMMA WithAll ==
  ASSUME RunsTypeOK, NEW es, es \subseteq Exec
  PROVE  With(es, Status) = Cardinality(es)
<1>1. {e \in es : execRow[e].status \in Status} = es
  BY DEF RunsTypeOK, ExecRow
<1> QED BY <1>1 DEF With

\* The plan's header is the sum of the runs beneath it.
LEMMA PlanHeader ==
  ASSUME ScreensInv, NEW p \in Plans
  PROVE  /\ planProgressRollup(p).counts.total = SumOf([k \in RunsOf(p) |-> planRunRows(p)[k].total])
         /\ planProgressRollup(p).executed = listPlans(p).settled
         /\ planProgressRollup(p).percent \in 0 .. 100
<1> DEFINE es == UNION {executions(k) : k \in RunsOf(p)}
           b  == Buckets(es)
           executed == b.passed + b.failed + b.blocked + b.skipped
<1>1. RunsOf(p) \subseteq Cycles /\ RunsTypeOK /\ es \subseteq Exec
  BY FiniteRows DEF RunsOf, executions
<1>2. b.total = Cardinality(es) /\ executed = With(es, Settled)
  <2> HIDE DEF es
  <2> QED BY <1>1, BucketsAddUp
<1>3. /\ planProgressRollup(p).counts = b /\ planProgressRollup(p).executed = executed
      /\ planProgressRollup(p).percent = IF b.total > 0 THEN Percent(executed, b.total) ELSE 0
      /\ listPlans(p).settled = With(es, Settled)
  BY DEF planProgressRollup, listPlans, Settled
<1>4. SumOf([k \in RunsOf(p) |-> planRunRows(p)[k].total]) = Cardinality(es)
  <2>1. \A k \in RunsOf(p) : planRunRows(p)[k].total = With(executions(k), Status)
    <3>1. \A k \in RunsOf(p) : planRunRows(p)[k].total = Cardinality(executions(k))
      BY DEF planRunRows, Buckets
    <3> QED BY <3>1, FiniteRows, WithAll
  <2>2. [k \in RunsOf(p) |-> planRunRows(p)[k].total] = [k \in RunsOf(p) |-> With(executions(k), Status)]
    BY <2>1
  <2>3. SumOf([k \in RunsOf(p) |-> planRunRows(p)[k].total]) = With(es, Status)
    BY <1>1, <2>2, CountByRun
  <2> QED BY <1>1, <2>3, WithAll
<1>5. With(es, Settled) \in Nat /\ Cardinality(es) \in Nat /\ With(es, Settled) <= Cardinality(es)
  <2> HIDE DEF es
  <2> QED BY <1>1, WithFacts
<1> HIDE DEF b, executed, es
<1>6. planProgressRollup(p).percent \in 0 .. 100
  <2>1. CASE b.total > 0
    BY <1>2, <1>3, <1>5, <2>1, PercentFacts
  <2>2. CASE ~(b.total > 0)
    BY <1>3, <2>2
  <2> QED BY <2>1, <2>2
<1> QED BY <1>2, <1>3, <1>4, <1>6

\* However the report groups them, every execution is in one group, under one status.
LEMMA ReportCounts ==
  ASSUME ScreensInv, NEW by
  PROVE  SumOf([g \in DOMAIN executionReport(by) |-> SumOf(executionReport(by)[g])]) = Cardinality(Executions)
<1> DEFINE G == {Group(by, e) : e \in Executions}
           of == [e \in Executions |-> Group(by, e)]
           In(g) == {e \in Executions : Group(by, e) = g}
<1>0. RunsTypeOK /\ IsFiniteSet(Executions) /\ Executions \subseteq Exec
  BY FiniteRows
<1>1. G = {of[e] : e \in Executions} /\ of \in [Executions -> G]
  OBVIOUS
<1>2. IsFiniteSet(G)
  <2> HIDE DEF G, of
  <2> QED BY <1>0, <1>1, ImageFinite
<1>3. DOMAIN executionReport(by) = G
      /\ \A g \in G : executionReport(by)[g] = [st \in Status |-> With(In(g), {st})]
  BY DEF executionReport
<1>4. ASSUME NEW g \in G PROVE SumOf(executionReport(by)[g]) = Cardinality({e \in Executions : of[e] = g})
  <2> DEFINE U   == In(g)
             cls == [e \in U |-> execRow[e].status]
  <2>1. U \subseteq Executions /\ U = {e \in Executions : of[e] = g}
    OBVIOUS
  <2>2. IsFiniteSet(U)
    BY <1>0, <2>1, FS_Subset
  <2>3. cls \in [U -> Status]
    BY <1>0, <2>1 DEF RunsTypeOK, ExecRow
  <2>4. IsFiniteSet(Status)
    <3>1. \A S, x : IsFiniteSet(S) => IsFiniteSet(S \cup {x})
      BY FS_AddElement
    <3>2. IsFiniteSet({} \cup {"Untested"} \cup {"Passed"} \cup {"Failed"})
      BY <3>1, FS_EmptySet
    <3>3. IsFiniteSet({} \cup {"Untested"} \cup {"Passed"} \cup {"Failed"} \cup {"Blocked"} \cup {"Skipped"} \cup {"Retest"})
      BY <3>1, <3>2
    <3>4. Status = {} \cup {"Untested"} \cup {"Passed"} \cup {"Failed"} \cup {"Blocked"} \cup {"Skipped"} \cup {"Retest"}
      BY DEF Status
    <3> QED BY <3>3, <3>4
  <2>5. \A st \in Status : With(U, {st}) = Cardinality({u \in U : cls[u] = st})
    <3>1. ASSUME NEW st \in Status PROVE {e \in U : execRow[e].status \in {st}} = {u \in U : cls[u] = st}
      OBVIOUS
    <3> QED BY <3>1 DEF With
  <2>6. [st \in Status |-> With(U, {st})] = [st \in Status |-> Cardinality({u \in U : cls[u] = st})]
    BY <2>5
  <2>7. executionReport(by)[g] = [st \in Status |-> With(U, {st})]
    BY <1>3
  <2> DEFINE f == executionReport(by)[g]
  <2>8. f = [st \in Status |-> Cardinality({u \in U : cls[u] = st})]
    BY <2>6, <2>7
  <2> HIDE DEF U, cls, f
  <2>9. SumOf(f) = Cardinality(U)
    BY <2>2, <2>3, <2>4, <2>8, SumOfClasses
  <2> QED BY <2>1, <2>9 DEF f
<1>5. [g \in DOMAIN executionReport(by) |-> SumOf(executionReport(by)[g])]
        = [g \in G |-> Cardinality({e \in Executions : of[e] = g})]
  BY <1>3, <1>4
<1> HIDE DEF G, of
<1> QED BY <1>0, <1>1, <1>2, <1>5, SumOfClasses

\* The dashboard's executed cases are those of the runs.
LEMMA DashboardCounts ==
  ASSUME ScreensInv
  PROVE  projectDashboardSummary.executed = SumOf([k \in Cycles |-> listCycles(k).total - listCycles(k).untested])
<1>0. RunsTypeOK /\ Executions \subseteq Exec /\ \A k : executions(k) \subseteq Exec
  BY FiniteRows
<1>1. \A k \in Cycles : listCycles(k).total - listCycles(k).untested = With(executions(k), Settled)
  <2>1. ASSUME NEW k \in Cycles PROVE listCycles(k).total - listCycles(k).untested = With(executions(k), Settled)
    <3>1. /\ listCycles(k).total = With(executions(k), Settled) + With(executions(k), {"Untested", "Retest"})
          /\ listCycles(k).untested = With(executions(k), {"Untested", "Retest"})
      BY <1>0, BucketsAddUp DEF listCycles
    <3>2. With(executions(k), Settled) \in Nat /\ With(executions(k), {"Untested", "Retest"}) \in Nat
      BY <1>0, WithFacts
    <3> QED BY <3>1, <3>2
  <2> QED BY <2>1
<1>2. [k \in Cycles |-> listCycles(k).total - listCycles(k).untested] = [k \in Cycles |-> With(executions(k), Settled)]
  BY <1>1
<1>3. UNION {executions(k) : k \in Cycles} = Executions
  <2>1. \A k \in Cycles : k /= None
    BY RunsConstants DEF Cycles
  <2> QED BY <2>1 DEF executions, Executions, ScreensInv, Housed
<1>4. SumOf([k \in Cycles |-> listCycles(k).total - listCycles(k).untested]) = With(Executions, Settled)
  BY <1>2, <1>3, CountByRun
<1>5. projectDashboardSummary.executed
        = Cardinality(Executions) - With(Executions, {"Untested"}) - With(Executions, {"Retest"})
  BY DEF projectDashboardSummary, analytics, Status
<1>6. With(Executions, {"Untested", "Retest"}) = With(Executions, {"Untested"}) + With(Executions, {"Retest"})
  <2>1. {"Untested", "Retest"} = {"Untested"} \cup {"Retest"}
    OBVIOUS
  <2> QED BY <1>0, <2>1, WithSplit
<1>7. Cardinality(Executions) = With(Executions, Settled) + With(Executions, {"Untested", "Retest"})
  BY <1>0, BucketsAddUp
<1>8. \A sts : With(Executions, sts) \in Nat
  BY <1>0, WithFacts
<1> QED BY <1>4, <1>5, <1>6, <1>7, <1>8

\* Runs, plans, reports and dashboard count the same rows.
LEMMA RunsAgreeAlways == ScreensInv => RunsAgree
<1> SUFFICES ASSUME ScreensInv PROVE RunsAgree
  OBVIOUS
<1>1. \A k \in Cycles : BucketSum(listCycles(k)) = listCycles(k).total
  BY FiniteRows, BucketsAddUp DEF listCycles
<1> QED BY <1>1, PlanHeader, ReportCounts, DashboardCounts DEF RunsAgree

-----------------------------------------------------------------------------
(* Coverage, insights and the matrix *)

\* Sets that share nothing are counted apart.
LEMMA SplitCount ==
  ASSUME NEW A, NEW B, IsFiniteSet(A), IsFiniteSet(B), A \cap B = {}
  PROVE  /\ Cardinality(A \cup B) = Cardinality(A) + Cardinality(B)
         /\ Cardinality(A) \in Nat /\ Cardinality(B) \in Nat
<1>1. Cardinality(A \cup B) = Cardinality(A) + Cardinality(B) - Cardinality(A \cap B)
  BY FS_Union
<1>2. Cardinality(A) \in Nat /\ Cardinality(B) \in Nat /\ Cardinality(A \cap B) = 0
  BY FS_CardinalityType, FS_EmptySet
<1> QED BY <1>1, <1>2

\* Something is there exactly when it is counted.
LEMMA PositiveCount ==
  ASSUME NEW S, IsFiniteSet(S)
  PROVE  Cardinality(S) \in Nat /\ (Cardinality(S) > 0 <=> S /= {})
  BY FS_CardinalityType, FS_EmptySet

\* There are finitely many cases, and as many suites at most.
LEMMA CaseFacts ==
  ASSUME RunsTypeOK
  PROVE  /\ IsFiniteSet(Live) /\ Live \subseteq Case
         /\ IsFiniteSet(Suites) /\ \A c \in Case : SuiteOf[c] \in Suites
<1>1. Live \in SUBSET Case
  BY DEF Live
<1>2. IsFiniteSet(Live)
  BY <1>1, RunsConstants, FS_Subset
<1>3. IsFiniteSet(Suites)
  BY RunsConstants, ReportsConstants, ImageFinite DEF Suites
<1> QED BY <1>1, <1>2, <1>3 DEF Suites

\* What a suite's coverage leaves out is its cases that nobody has run.
LEMMA CoverageFacts ==
  ASSUME RunsTypeOK, NEW g
  PROVE  LET v == coverageBySuite(g) IN
         /\ v.total \in Nat /\ v.covered \in Nat /\ v.pct \in 0 .. 100
         /\ v.total - v.covered = Cardinality({c \in Live : SuiteOf[c] = g /\ ~Covered(c)})
         /\ v.covered > 0 <=> \E c \in Live : SuiteOf[c] = g /\ Covered(c)
<1> DEFINE A == {c \in Live : SuiteOf[c] = g /\ Covered(c)}
           B == {c \in Live : SuiteOf[c] = g /\ ~Covered(c)}
           T == {c \in Live : SuiteOf[c] = g}
           v == coverageBySuite(g)
<1>1. T = A \cup B /\ A \cap B = {}
  OBVIOUS
<1>2. IsFiniteSet(A) /\ IsFiniteSet(B) /\ IsFiniteSet(T)
  BY CaseFacts, FS_Subset
<1>3. {c \in T : Covered(c)} = A
  OBVIOUS
<1>4. /\ v.total = Cardinality(T) /\ v.covered = Cardinality({c \in T : Covered(c)})
      /\ v.pct = IF T = {} THEN 0 ELSE Percent(Cardinality({c \in T : Covered(c)}), Cardinality(T))
  BY DEF coverageBySuite
<1> HIDE DEF A, B, T, v
<1>5. Cardinality(T) = Cardinality(A) + Cardinality(B) /\ Cardinality(A) \in Nat /\ Cardinality(B) \in Nat
  BY <1>1, <1>2, SplitCount
<1>6. Cardinality(T) > 0 <=> T /= {}
  BY <1>2, PositiveCount
<1>7. v.pct \in 0 .. 100
  <2>1. CASE T = {}
    BY <1>4, <2>1
  <2>2. CASE T /= {}
    <3>1. Cardinality(A) <= Cardinality(T) /\ Cardinality(T) \in Nat /\ Cardinality(T) > 0
      BY <1>5, <1>6, <2>2
    <3>2. Percent(Cardinality(A), Cardinality(T)) \in 0 .. 100
      BY <1>5, <3>1, PercentFacts
    <3> QED BY <1>3, <1>4, <2>2, <3>2
  <2> QED BY <2>1, <2>2
<1>8. v.covered > 0 <=> A /= {}
  BY <1>2, <1>3, <1>4, PositiveCount
<1>9. v.total \in Nat /\ v.covered \in Nat /\ v.total - v.covered = Cardinality(B)
  <2>1. Cardinality(T) \in Nat /\ Cardinality(T) - Cardinality(A) = Cardinality(B)
    BY <1>5
  <2>2. v.total = Cardinality(T) /\ v.covered = Cardinality(A)
    BY <1>3, <1>4
  <2> QED BY <1>5, <2>1, <2>2
<1> QED BY <1>7, <1>8, <1>9 DEF v, A, B

\* A P1 case without a result is missing from the coverage of its suite.
LEMMA MissingIsUntested ==
  ASSUME RunsTypeOK
  PROVE  SumOf([g \in Suites |-> coverageBySuite(g).total - coverageBySuite(g).covered]) >= untestedP1Count
<1> DEFINE U   == {c \in Live : ~Covered(c)}
           cls == [c \in U |-> SuiteOf[c]]
           f   == [g \in Suites |-> coverageBySuite(g).total - coverageBySuite(g).covered]
           V   == {c \in Live \cap P1 : ~Covered(c)}
<1>1. IsFiniteSet(U) /\ IsFiniteSet(Suites)
  BY CaseFacts, FS_Subset
<1>2. cls \in [U -> Suites]
  BY CaseFacts
<1>3. f = [g \in Suites |-> Cardinality({c \in U : cls[c] = g})]
  <2>1. ASSUME NEW g \in Suites
        PROVE  coverageBySuite(g).total - coverageBySuite(g).covered = Cardinality({c \in U : cls[c] = g})
    <3>1. {c \in U : cls[c] = g} = {c \in Live : SuiteOf[c] = g /\ ~Covered(c)}
      OBVIOUS
    <3> QED BY <3>1, CoverageFacts
  <2> QED BY <2>1
<1>4. V \in SUBSET U
  OBVIOUS
<1> HIDE DEF U, cls, f, V
<1>5. SumOf(f) = Cardinality(U)
  BY <1>1, <1>2, <1>3, SumOfClasses
<1>6. Cardinality(V) <= Cardinality(U) /\ Cardinality(V) \in Nat /\ Cardinality(U) \in Nat
  BY <1>1, <1>4, FS_Subset, FS_CardinalityType
<1> QED BY <1>5, <1>6 DEF V, f, untestedP1Count

\* The pass rate of a run is a number.
LEMMA RateFacts ==
  ASSUME ScreensInv, NEW k
  PROVE  cyclePassRateSeries(k).rate \in Int
<1> DEFINE es == executions(k)
           n == With(es, Executed)
           p == With(es, {"Passed"})
<1>1. es \subseteq Exec
  BY FiniteRows
<1>2. n \in Nat /\ p \in Nat /\ p <= n
  <2>1. IsFiniteSet({e \in es : execRow[e].status \in Executed})
    BY <1>1, WithFacts, FS_Subset
  <2>2. {e \in es : execRow[e].status \in {"Passed"}} \in SUBSET {e \in es : execRow[e].status \in Executed}
    BY DEF Executed, Status
  <2>3. p <= n
    BY <2>1, <2>2, FS_Subset DEF With
  <2> QED BY <1>1, <2>3, WithFacts
<1>3. cyclePassRateSeries(k).rate = IF n > 0 THEN Percent(p, n) ELSE -1
  BY DEF cyclePassRateSeries
<1> HIDE DEF n, p
<1>4. n > 0 => Percent(p, n) \in 0 .. 100
  BY <1>2, PercentFacts
<1> QED BY <1>2, <1>3, <1>4

\* The insights' score is a percentage.
LEMMA InsightsBounded ==
  ASSUME ScreensInv
  PROVE  reportsInsights \in 0 .. 100
<1> DEFINE listed == {g \in Suites : coverageBySuite(g).total > 0}
           rates == [k \in Rated |-> cyclePassRateSeries(k).rate]
           pcts  == [g \in listed |-> coverageBySuite(g).pct]
           avgRate == IF Rated = {} THEN 0 ELSE (100 * SumOf(rates)) \div Cardinality(Rated)
           avgCoverage == IF listed = {} THEN 0 ELSE (100 * SumOf(pcts)) \div Cardinality(listed)
           bonus == IF untestedP1Count >= 10 THEN 0 ELSE 10 - untestedP1Count
           flaky == Cardinality(detectFlakyTests)
<1>0. RunsTypeOK
  BY FiniteRows
<1>1. avgRate \in Int
  <2>1. IsFiniteSet(Rated)
    BY FiniteRows, FS_Subset DEF Rated
  <2>2. rates \in [Rated -> Int]
    BY RateFacts
  <2> HIDE DEF rates
  <2>3. SumOf(rates) \in Int
    BY <2>1, <2>2, SumType
  <2>4. Cardinality(Rated) \in Nat /\ (Rated /= {} => Cardinality(Rated) > 0)
    BY <2>1, PositiveCount
  <2> QED BY <2>3, <2>4, DivFacts
<1>2. avgCoverage \in Int
  <2>1. IsFiniteSet(listed)
    BY <1>0, CaseFacts, FS_Subset
  <2>2. pcts \in [listed -> Int]
    <3>1. ASSUME NEW g \in listed PROVE coverageBySuite(g).pct \in Int
      <4>1. coverageBySuite(g).pct \in 0 .. 100
        BY <1>0, CoverageFacts
      <4> QED BY <4>1
    <3> HIDE DEF listed
    <3> QED BY <3>1
  <2> HIDE DEF pcts, listed
  <2>3. SumOf(pcts) \in Int
    BY <2>1, <2>2, SumType
  <2>4. Cardinality(listed) \in Nat /\ (listed /= {} => Cardinality(listed) > 0)
    BY <2>1, PositiveCount
  <2> QED BY <2>3, <2>4, DivFacts
<1>3. bonus \in Int
  <2>1. {c \in Live \cap P1 : ~Covered(c)} \in SUBSET Live
    OBVIOUS
  <2>2. untestedP1Count \in Nat
    BY <1>0, <2>1, CaseFacts, FS_Subset, FS_CardinalityType DEF untestedP1Count
  <2> QED BY <2>2
<1>4. flaky \in Nat
  <2>1. detectFlakyTests \in SUBSET Case
    BY DEF detectFlakyTests
  <2> QED BY <2>1, RunsConstants, FS_Subset, FS_CardinalityType
<1>5. reportsInsights = Clamp((6 * avgRate + 3 * avgCoverage + 1000 * bonus - 5000 * flaky) \div 1000)
  BY DEF reportsInsights
<1> HIDE DEF avgRate, avgCoverage, bonus, flaky
<1>6. (6 * avgRate + 3 * avgCoverage + 1000 * bonus - 5000 * flaky) \div 1000 \in Int
  <2>1. 6 * avgRate + 3 * avgCoverage + 1000 * bonus - 5000 * flaky \in Int
    BY <1>1, <1>2, <1>3, <1>4
  <2> QED BY <2>1, DivFacts
<1> QED BY <1>5, <1>6 DEF Clamp

\* Of two results that differ, some two that follow each other do.
LEMMA FlakyFlips ==
  ASSUME ScreensInv, NEW c \in detectFlakyTests
  PROVE  FlipsOf(c) /= {}
<1> DEFINE R == ResultsOf(c)
           St(e) == execRow[e].status
           Cy(e) == execRow[e].cycle
           Dist(d, e) == Cy(e) - Cy(d)
           Pairs == {r \in R \X R : Cy(r[1]) < Cy(r[2]) /\ St(r[1]) /= St(r[2])}
           N == {Dist(r[1], r[2]) : r \in Pairs}
<1>0. RunsTypeOK /\ R \subseteq Executions /\ IsFiniteSet(R)
  <2>1. R \in SUBSET Executions
    BY DEF ResultsOf
  <2> QED BY <2>1, FiniteRows, FS_Subset
<1>1. \A e \in R : Cy(e) \in Nat /\ execRow[e].case = c
  <2>1. \A e \in R : Cy(e) \in Cycle
    BY <1>0 DEF ScreensInv, Housed, Cycles
  <2> QED BY <2>1, RunsConstants DEF ResultsOf
<1>2. \A d, e \in R : Cy(d) = Cy(e) => d = e
  BY <1>0, <1>1 DEF ScreensInv, RunsInv, OneRowPerCase
<1>3. \E d, e \in R : St(d) /= St(e)
  <2> SUFFICES ASSUME \A d, e \in R : St(d) = St(e) PROVE FALSE
    OBVIOUS
  <2> DEFINE S == {St(e) : e \in R}
  <2>1. S = {} \/ \E x : S = {x}
    OBVIOUS
  <2>2. Cardinality(S) >= 2
    BY DEF detectFlakyTests
  <2>3. Cardinality({}) = 0 /\ \A x : Cardinality({x}) = 1
    BY FS_EmptySet, FS_Singleton
  <2> HIDE DEF S
  <2>4. Cardinality(S) = 0 \/ Cardinality(S) = 1
    BY <2>1, <2>3
  <2> QED BY <2>2, <2>4
<1>4. Pairs /= {}
  <2>1. PICK d \in R, e \in R : St(d) /= St(e)
    BY <1>3
  <2>2. Cy(d) < Cy(e) \/ Cy(e) < Cy(d)
    <3>1. Cy(d) /= Cy(e)
      BY <1>2, <2>1
    <3>2. Cy(d) \in Nat /\ Cy(e) \in Nat
      BY <1>1
    <3> HIDE DEF Cy
    <3> QED BY <3>1, <3>2
  <2>3. <<d, e>> \in Pairs \/ <<e, d>> \in Pairs
    BY <2>1, <2>2
  <2> QED BY <2>3
<1>5. N \subseteq Nat /\ N /= {}
  <2>1. ASSUME NEW r \in Pairs PROVE Dist(r[1], r[2]) \in Nat
    <3>1. Cy(r[1]) \in Nat /\ Cy(r[2]) \in Nat /\ Cy(r[1]) < Cy(r[2])
      BY <1>1
    <3> HIDE DEF Cy
    <3> QED BY <3>1
  <2> HIDE DEF Pairs, Dist
  <2> QED BY <1>4, <2>1
<1>6. PICK r \in Pairs : \A q \in Pairs : Dist(r[1], r[2]) <= Dist(q[1], q[2])
  <2>1. PICK n \in N : \A m \in N : ~(<<m, n>> \in OpToRel(<, Nat))
    <3> HIDE DEF N
    <3> QED BY <1>5, NatLessThanWellFounded, WFMin
  <2>2. ASSUME NEW m \in N PROVE n <= m
    <3> HIDE DEF N
    <3>1. <<m, n>> \in Nat \X Nat /\ <<m, n>>[1] = m /\ <<m, n>>[2] = n
      BY <1>5
    <3>2. ~(m < n)
      BY <2>1, <3>1 DEF OpToRel
    <3> QED BY <1>5, <3>2
  <2> HIDE DEF Pairs, Dist
  <2> QED BY <2>2
<1>7. PICK d \in R, e \in R : r = <<d, e>> /\ Cy(d) < Cy(e) /\ St(d) /= St(e)
  BY <1>6
<1>8. ASSUME NEW x \in R, Cy(d) < Cy(x), Cy(x) < Cy(e) PROVE FALSE
  <2>1. Cy(d) \in Nat /\ Cy(e) \in Nat /\ Cy(x) \in Nat
    BY <1>1
  <2>2. CASE St(x) /= St(e)
    <3>1. <<x, e>> \in Pairs
      BY <1>8, <2>2
    <3>2. Dist(d, e) <= Dist(x, e)
      BY <1>6, <1>7, <3>1
    <3> HIDE DEF Cy
    <3> QED BY <1>8, <2>1, <3>2
  <2>3. CASE St(x) = St(e)
    <3>1. <<d, x>> \in Pairs
      BY <1>7, <1>8, <2>3
    <3>2. Dist(d, e) <= Dist(d, x)
      BY <1>6, <1>7, <3>1
    <3> HIDE DEF Cy
    <3> QED BY <1>8, <2>1, <3>2
  <2> QED BY <2>2, <2>3
<1>9. e \in FlipsOf(c)
  BY <1>7, <1>8 DEF FlipsOf
<1> QED BY <1>9

\* A suite with a result has a case that counts as covered.
LEMMA HealthIsCovered ==
  ASSUME ScreensInv, NEW g \in Suites, suiteHealth(g).executed > 0
  PROVE  coverageBySuite(g).covered > 0
<1> DEFINE es == OfSuite(g)
           E  == {e \in es : execRow[e].status \in Executed}
<1>0. RunsTypeOK /\ IsFiniteSet(Executions)
  BY FiniteRows
<1>1. IsFiniteSet(E)
  BY <1>0, FS_Subset DEF OfSuite
<1>2. suiteHealth(g).executed = Cardinality(E)
  BY DEF suiteHealth, With
<1>3. E /= {}
  BY <1>1, <1>2, PositiveCount
<1>4. PICK e \in E : TRUE
  BY <1>3
<1>5. execRow[e].case \in Live /\ SuiteOf[execRow[e].case] = g /\ Covered(execRow[e].case)
  BY <1>4 DEF OfSuite, Covered
<1> QED BY <1>0, <1>5, CoverageFacts

\* A live case has a row in the matrix.
LEMMA MatrixHasRows == requirementMatrix /= {} <=> Live /= {}
<1>1. ASSUME NEW c PROVE MatrixRows(c) /= {}
  <2> DEFINE mine == {e \in Executions : execRow[e].case = c}
             bugs(e) == {b \in Bugs : e /= 0 /\ bugRow[b].exec = e}
  <2>1. PICK e : e \in IF mine = {} THEN {0} ELSE mine
    OBVIOUS
  <2>2. PICK b : b \in IF bugs(e) = {} THEN {None} ELSE bugs(e)
    OBVIOUS
  <2>3. <<c, e, b>> \in MatrixRows(c)
    BY <2>1, <2>2 DEF MatrixRows
  <2> QED BY <2>3
<1> QED BY <1>1 DEF requirementMatrix

\* Coverage, insights, flakiness and matrix tell the same story.
LEMMA CoverageAgreesAlways == ScreensInv => CoverageAgrees
<1> SUFFICES ASSUME ScreensInv PROVE CoverageAgrees
  OBVIOUS
<1>1. RunsTypeOK
  BY FiniteRows
<1> QED BY <1>1, MissingIsUntested, InsightsBounded, FlakyFlips, HealthIsCovered, MatrixHasRows DEF CoverageAgrees

\* The inductive invariant of the figures below.
THEOREM ScreensInvariant == RunsSpec => []ScreensInv
<1> QED BY ScreensInvKept, PTL DEF RunsSpec

\* The figures of two screens about the same rows agree, whatever has been added, moved,
\* deleted or recorded: tiles, plan header, report and dashboard add up to the same
\* executions, and nothing untested is missing from the coverage (listCycles,
\* planProgressRollup, executionReport, projectDashboardSummary, coverageBySuite).
THEOREM ScreensMatch == RunsSpec => []ScreensAgree
<1>1. ScreensInv => ScreensAgree
  BY RunsAgreeAlways, CoverageAgreesAlways DEF ScreensAgree
<1> QED BY <1>1, ScreensInvariant, PTL

-----------------------------------------------------------------------------
(* The embedding worker *)

USE DEF InProgress, RagStatus, Extraction, Retained, bounds

-----------------------------------------------------------------------------
(* Type correctness *)

\* The types of a job and of the worker's state.
Job == [state : {"absent", "waiting", "active"} \cup Retained,
        attempts : 0 .. MaxAttempts]
Work == [pc : {"idle", "gone", "unsupported", "allocate", "pending", "mark",
               "embed", "store", "finish", "onFailed"},
         text : Content]

\* A job that may still run has an attempt left.
AttemptsLeft ==
  \A s \in Source :
    job[s].state \in {"waiting", "active"} => job[s].attempts < MaxAttempts

\* The worker is inside process() only for the active job.
WorkerHasJob ==
  \A s \in Source : work[s].pc \notin {"idle", "onFailed"} => job[s].state = "active"

\* What process() has found out about the text at each of its steps: only a text
\* with chunks is embedded, so only such a text's hash is recorded.
TextFits ==
  \A s \in Source :
    /\ work[s].pc \in {"allocate", "pending", "mark"} => work[s].text /= "blank"
    /\ work[s].pc \in {"embed", "store", "finish"} => work[s].text \in Text

IType == TypeOK /\ AttemptsLeft /\ WorkerHasJob /\ TextFits

\* An enqueue call, and its steps, keep the counts of calls in flight.
LEMMA EnqueueCalls ==
  ASSUME NEW s \in Source, calls \in [Source -> [status : Nat, add : Nat]],
         \/ enqueueEmbedding(s)
         \/ CallAdd(s)
         \/ CallAddFails(s)
  PROVE  calls' \in [Source -> [status : Nat, add : Nat]]
  <1> DEFINE C == [status : Nat, add : Nat]
  <1>1. calls[s] \in C
    OBVIOUS
  <1>2. calls[s].status + 1 \in Nat /\ (calls[s].add > 0 => calls[s].add - 1 \in Nat)
    BY <1>1
  <1>3. \A n \in Nat : [calls[s] EXCEPT !.status = n] \in C /\ [calls[s] EXCEPT !.add = n] \in C
    BY <1>1
  <1>4. CASE enqueueEmbedding(s)
    BY <1>2, <1>3, <1>4 DEF enqueueEmbedding
  <1>5. CASE CallAdd(s) \/ CallAddFails(s)
    <2>1. /\ calls[s].add > 0
          /\ calls' = [calls EXCEPT ![s] = [@ EXCEPT !.add = calls[s].add - 1]]
      BY <1>5 DEF CallAdd, CallAddFails
    <2> QED BY <1>2, <1>3, <2>1
  <1> QED BY <1>4, <1>5

\* The requests keep the types.
LEMMA RequestTypes ==
  ASSUME IType, NEW s \in Source, Requests(s) \/ Transcription(s)
  PROVE  IType'
  <1> USE RagAssumption DEF IType, TypeOK, AttemptsLeft, WorkerHasJob, TextFits
  <1> doc[s] \in Row /\ calls[s] \in [status : Nat, add : Nat]
    OBVIOUS
  <1>e. ASSUME enqueueEmbedding(s)
        PROVE  calls' \in [Source -> [status : Nat, add : Nat]]
    BY <1>e, EnqueueCalls
  <1>n. ASSUME NEW c \in Content, NEW x \in Extraction PROVE NewRow(c, x) \in Row
    BY DEF NewRow, Row
  <1>1. ASSUME NEW c \in Content, Create(s, c) PROVE IType'
    BY <1>1, <1>e, <1>n DEF Create
  <1>2. CASE Upload(s)
    <2>1. "blank" \in Content
      BY DEF Content
    <2> QED BY <1>2, <1>n, <2>1 DEF Upload
  <1>3. ASSUME NEW c \in Content, Transcribed(s, c) PROVE IType'
    <2>1. [doc[s] EXCEPT !.content = c, !.extraction = "ready"] \in Row
      BY DEF Row
    <2> QED BY <1>3, <1>e, <2>1 DEF Transcribed
  <1>4. CASE TranscriptionFails(s)
    <2>1. PICK x \in {"unsupported", "failed"} :
            doc' = [doc EXCEPT ![s] = [@ EXCEPT !.extraction = x]]
      BY <1>4 DEF TranscriptionFails
    <2>2. [doc[s] EXCEPT !.extraction = x] \in Row
      BY DEF Row
    <2>3. doc' \in [Source -> Row]
      BY <2>1, <2>2
    <2> QED BY <1>4, <2>3 DEF TranscriptionFails
  <1>5. ASSUME NEW u \in User, EditRead(u, s) PROVE IType'
    <2>1. doc[s].content \in Content
      BY DEF Row
    <2>2. \A c \in Content, ch \in BOOLEAN :
            {[src |-> s, old |-> doc[s].content, new |-> c, changed |-> ch]}
              \in SUBSET EditRequest
      BY <2>1 DEF EditRequest
    <2>3. edit' \in [User -> SUBSET EditRequest]
      BY <1>5, <2>2 DEF EditRead
    <2> QED BY <1>5, <2>3 DEF EditRead, Change
  <1>6. ASSUME NEW c \in Content, RestoreVersion(s, c) PROVE IType'
    <2>1. [doc[s] EXCEPT !.content = c,
                         !.versions = doc[s].versions \cup {doc[s].content}] \in Row
      BY ZenonT(60) DEF Row
    <2>2. doc' \in [Source -> Row]
      BY <1>6, <2>1 DEF RestoreVersion
    <2> QED BY <1>6, <2>2 DEF RestoreVersion, Change
  <1>7. CASE Delete(s)
    <2>1. [doc[s] EXCEPT !.life = "deleted"] \in Row
      BY DEF Row
    <2> QED BY <1>7, <2>1 DEF Delete, Change
  <1>8. CASE Restore(s)
    <2>1. [doc[s] EXCEPT !.life = "live"] \in Row
      BY DEF Row
    <2> QED BY <1>8, <2>1 DEF Restore, Change
  <1> QED BY <1>1, <1>2, <1>3, <1>4, <1>5, <1>6, <1>7, <1>8 DEF Requests, Transcription

\* enqueueEmbedding and the boot sweep keep the types.
LEMMA EnqueueTypes ==
  ASSUME IType, NEW s \in Source, Enqueue(s) \/ SweepStatus(s) \/ SweepAdd(s)
  PROVE  IType'
  <1> USE RagAssumption DEF IType, TypeOK, AttemptsLeft, WorkerHasJob, TextFits
  <1> doc[s] \in Row /\ calls[s] \in [status : Nat, add : Nat] /\ job[s] \in Job
    BY DEF Job
  <1>q. ASSUME setStatus(s, "queued") PROVE doc' \in [Source -> Row]
    <2>1. [doc[s] EXCEPT !.status = "queued"] \in Row
      BY DEF Row
    <2> QED BY <1>q, <2>1 DEF setStatus
  <1>a. ASSUME job' = [job EXCEPT ![s] = Add(@)], UNCHANGED work
        PROVE  job' \in [Source -> Job] /\ AttemptsLeft' /\ WorkerHasJob'
    <2>1. /\ Add(job[s]) \in Job
          /\ Add(job[s]).state \in {"waiting", "active"} => Add(job[s]).attempts < MaxAttempts
          /\ job[s].state = "active" => Add(job[s]).state = "active"
      BY DEF Add, Job
    <2> QED BY <1>a, <2>1 DEF Job
  <1>1. CASE CallStatus(s)
    <2>1. calls' \in [Source -> [status : Nat, add : Nat]]
      BY <1>1 DEF CallStatus
    <2> QED BY <1>1, <1>q, <2>1 DEF CallStatus
  <1>2. CASE CallStatusFails(s)
    BY <1>2 DEF CallStatusFails, Fault
  <1>3. CASE CallAdd(s)
    <2>1. calls' \in [Source -> [status : Nat, add : Nat]]
      BY <1>3, EnqueueCalls
    <2> QED BY <1>3, <1>a, <2>1 DEF CallAdd, Job
  <1>4. CASE CallAddFails(s)
    <2>1. calls' \in [Source -> [status : Nat, add : Nat]]
      BY <1>4, EnqueueCalls
    <2> QED BY <1>4, <2>1 DEF CallAddFails, Fault
  <1>5. CASE SweepStatus(s)
    BY <1>5, <1>q DEF SweepStatus, Fault
  <1>6. CASE SweepAdd(s)
    <2>1. CASE UNCHANGED job
      BY <1>6, <2>1 DEF SweepAdd, Fault
    <2>2. CASE job' = [job EXCEPT ![s] = Add(@)]
      BY <1>6, <2>2, <1>a DEF SweepAdd, Fault, Job
    <2> QED BY <1>6, <2>1, <2>2 DEF SweepAdd
  <1> QED BY <1>1, <1>2, <1>3, <1>4, <1>5, <1>6 DEF Enqueue

\* The worker keeps the types.
LEMMA WorkerTypes ==
  ASSUME IType, NEW s \in Source, JobStart(s) \/ Process(s) \/ Evict(s)
  PROVE  IType'
  <1> USE RagAssumption DEF IType, TypeOK, AttemptsLeft, WorkerHasJob, TextFits
  <1>0. doc[s] \in Row /\ job[s] \in Job /\ work[s] \in Work
    BY DEF Job, Work
  <1>s. ASSUME NEW st \in RagStatus, setStatus(s, st) PROVE doc' \in [Source -> Row]
    <2>1. [doc[s] EXCEPT !.status = st] \in Row
      BY <1>0 DEF Row
    <2> QED BY <1>s, <2>1 DEF setStatus
  <1>p. ASSUME NEW j \in Job, NEW w \in Work,
               job' = [job EXCEPT ![s] = j], work' = [work EXCEPT ![s] = w],
               j.state \in {"waiting", "active"} => j.attempts < MaxAttempts,
               w.pc \notin {"idle", "onFailed"} => j.state = "active",
               w.pc \in {"allocate", "pending", "mark"} => w.text /= "blank",
               w.pc \in {"embed", "store", "finish"} => w.text \in Text
        PROVE  /\ job' \in [Source -> Job] /\ work' \in [Source -> Work]
               /\ AttemptsLeft' /\ WorkerHasJob' /\ TextFits'
    BY <1>p DEF Job, Work
  <1>r. ASSUME Return(s)
        PROVE  /\ job' \in [Source -> Job] /\ work' \in [Source -> Work]
               /\ AttemptsLeft' /\ WorkerHasJob' /\ TextFits'
    <2> DEFINE j == [job[s] EXCEPT !.state = "completed"]
               w == [work[s] EXCEPT !.pc = "idle"]
    <2>1. j \in Job /\ j.state = "completed" /\ w \in Work /\ w.pc = "idle"
      BY <1>0 DEF Job, Work
    <2>2. job' = [job EXCEPT ![s] = j] /\ work' = [work EXCEPT ![s] = w]
      BY <1>r DEF Return
    <2> HIDE DEF j, w
    <2> QED BY <2>1, <2>2, <1>p
  <1>t. ASSUME Throw(s), job[s].state = "active"
        PROVE  /\ job' \in [Source -> Job] /\ work' \in [Source -> Work]
               /\ AttemptsLeft' /\ WorkerHasJob' /\ TextFits'
    <2> DEFINE n == job[s].attempts + 1
               j == [state |-> IF n < MaxAttempts THEN "waiting" ELSE "failed",
                     attempts |-> n]
               w == [work[s] EXCEPT !.pc = IF n < MaxAttempts THEN "idle" ELSE "onFailed"]
    <2>1. /\ j \in Job
          /\ j.state \in {"waiting", "active"} => j.attempts < MaxAttempts
          /\ w \in Work /\ w.pc \in {"idle", "onFailed"}
      BY <1>0, <1>t DEF Job, Work
    <2>2. job' = [job EXCEPT ![s] = j] /\ work' = [work EXCEPT ![s] = w]
      BY <1>t DEF Throw
    <2> HIDE DEF j, w
    <2> QED BY <2>1, <2>2, <1>p
  <1>w. ASSUME NEW w \in Work, work' = [work EXCEPT ![s] = w], UNCHANGED job,
               w.pc \notin {"idle", "onFailed"} => job[s].state = "active",
               w.pc \in {"allocate", "pending", "mark"} => w.text /= "blank",
               w.pc \in {"embed", "store", "finish"} => w.text \in Text
        PROVE  /\ job' \in [Source -> Job] /\ work' \in [Source -> Work]
               /\ AttemptsLeft' /\ WorkerHasJob' /\ TextFits'
    <2>1. job' = [job EXCEPT ![s] = job[s]]
      BY <1>w
    <2>2. job[s].state \in {"waiting", "active"} => job[s].attempts < MaxAttempts
      OBVIOUS
    <2> QED BY <1>0, <1>w, <1>p, <2>1, <2>2
  <1>1. CASE JobStart(s)
    <2> DEFINE j == [job[s] EXCEPT !.state = "active"]
               w == [text |-> doc[s].content,
                     pc |-> IF doc[s].life /= "live" THEN "gone"
                            ELSE IF doc[s].content = "blank" THEN "unsupported"
                            ELSE "allocate"]
    <2>1. j \in Job /\ j.state = "active" /\ j.attempts < MaxAttempts
      BY <1>0, <1>1 DEF JobStart, Job
    <2>2. /\ w \in Work /\ w.pc \in {"gone", "unsupported", "allocate"}
          /\ w.pc = "allocate" => w.text /= "blank"
      BY <1>0 DEF Row, Work
    <2>3. job' = [job EXCEPT ![s] = j] /\ work' = [work EXCEPT ![s] = w]
      BY <1>1 DEF JobStart
    <2> HIDE DEF j, w
    <2>4. /\ job' \in [Source -> Job] /\ work' \in [Source -> Work]
          /\ AttemptsLeft' /\ WorkerHasJob' /\ TextFits'
      BY <2>1, <2>2, <2>3, <1>p
    <2> QED BY <1>1, <2>4 DEF JobStart, Job, Work
  <1>2. CASE Unsupported(s)
    BY <1>2, <1>s, <1>r DEF Unsupported, Job, Work
  <1>3. CASE UnsupportedIgnored(s)
    BY <1>3, <1>r DEF UnsupportedIgnored, Fault, Job, Work
  <1>4. CASE Allocate(s)
    <2>1. CASE key /\ doc[s].hash = work[s].text
      BY <1>4, <2>1, <1>r DEF Allocate, Job, Work
    <2>2. CASE ~(key /\ doc[s].hash = work[s].text)
      <3> DEFINE w == [work[s] EXCEPT !.pc = IF key THEN "mark" ELSE "pending"]
      <3>1. w \in Work /\ w.pc \in {"mark", "pending"} /\ w.text = work[s].text
        BY <1>0 DEF Work
      <3>2. work' = [work EXCEPT ![s] = w] /\ UNCHANGED job
        BY <1>4, <2>2 DEF Allocate
      <3>3. work[s].text /= "blank" /\ job[s].state = "active"
        BY <1>4 DEF Allocate
      <3> HIDE DEF w
      <3> QED BY <1>4, <3>1, <3>2, <3>3, <1>w DEF Allocate, Job, Work
    <2> QED BY <2>1, <2>2
  <1>5. CASE SetPending(s)
    BY <1>5, <1>s, <1>r DEF SetPending, Job, Work
  <1>6. CASE MarkProcessing(s)
    <2> DEFINE w == [work[s] EXCEPT !.pc = IF work[s].text = "short" THEN "unsupported"
                                           ELSE "embed"]
    <2>1. /\ w \in Work /\ w.pc \in {"unsupported", "embed"}
          /\ w.pc = "embed" => w.text \in Text
      BY <1>0, <1>6 DEF MarkProcessing, Work, Content
    <2>2. work' = [work EXCEPT ![s] = w] /\ UNCHANGED job /\ job[s].state = "active"
      BY <1>6 DEF MarkProcessing
    <2> HIDE DEF w
    <2> QED BY <1>6, <2>1, <2>2, <1>w, <1>s DEF MarkProcessing, Job, Work
  <1>7. ASSUME NEW p \in {"store", "finish"}, work' = [work EXCEPT ![s] = [@ EXCEPT !.pc = p]],
               UNCHANGED job, work[s].pc \in {"embed", "store"}
        PROVE  /\ job' \in [Source -> Job] /\ work' \in [Source -> Work]
               /\ AttemptsLeft' /\ WorkerHasJob' /\ TextFits'
    <2> DEFINE w == [work[s] EXCEPT !.pc = p]
    <2>1. w \in Work /\ w.pc = p /\ w.text = work[s].text
      BY <1>0 DEF Work
    <2>2. work[s].text \in Text /\ job[s].state = "active"
      BY <1>7
    <2>3. work' = [work EXCEPT ![s] = w]
      BY <1>7
    <2> HIDE DEF w
    <2> QED BY <1>7, <2>1, <2>2, <2>3, <1>w
  <1>8. CASE Embed(s)
    BY <1>8, <1>7 DEF Embed, Job, Work
  <1>9. CASE EmbedFails(s)
    BY <1>9, <1>t DEF EmbedFails, Job, Work
  <1>10. CASE Store(s)
    <2>1. chunks' \in [Source -> Text \cup {"none"}]
      BY <1>10 DEF Store
    <2> QED BY <1>10, <2>1, <1>7 DEF Store, Job, Work
  <1>11. CASE StoreNothing(s)
    BY <1>11, <1>7 DEF StoreNothing, Fault, Job, Work
  <1>12. CASE FinishJob(s)
    <2>1. [doc[s] EXCEPT !.status = "ready", !.hash = work[s].text] \in Row
      BY <1>0, <1>12 DEF FinishJob, Row
    <2>2. doc' \in [Source -> Row]
      BY <1>12, <2>1 DEF FinishJob
    <2> QED BY <1>12, <2>2, <1>r DEF FinishJob, Job, Work
  <1>13. CASE WorkerFault(s)
    BY <1>13, <1>t DEF WorkerFault, Fault, Job, Work
  <1>14. CASE OnFailed(s)
    <2> DEFINE w == [work[s] EXCEPT !.pc = "idle"]
    <2>1. w \in Work /\ w.pc = "idle"
      BY <1>0 DEF Work
    <2>2. work' = [work EXCEPT ![s] = w] /\ UNCHANGED job
      BY <1>14 DEF OnFailed
    <2> HIDE DEF w
    <2>3. doc' \in [Source -> Row]
      BY <1>14, <1>s DEF OnFailed
    <2>4. /\ job' \in [Source -> Job] /\ work' \in [Source -> Work]
          /\ AttemptsLeft' /\ WorkerHasJob' /\ TextFits'
      BY <2>1, <2>2, <1>w
    <2>5. faults' \in 0 .. MaxFaults
      BY <1>14 DEF OnFailed, Fault
    <2> QED BY <1>14, <2>3, <2>4, <2>5 DEF OnFailed, Job, Work
  <1>15. CASE Evict(s)
    BY <1>15 DEF Evict
  <1> QED BY <1>1, <1>2, <1>3, <1>4, <1>5, <1>6, <1>8, <1>9, <1>10, <1>11, <1>12,
             <1>13, <1>14, <1>15 DEF Process

\* Every step keeps the types.
LEMMA TypeStep == IType /\ [Next]_vars => IType'
  <1> SUFFICES ASSUME IType, [Next]_vars PROVE IType'
    OBVIOUS
  <1> USE RagAssumption DEF IType, TypeOK, AttemptsLeft, WorkerHasJob, TextFits
  <1>1. ASSUME NEW u \in User, EditWrite(u) PROVE IType'
    <2>1. PICK e \in edit[u] : EditWrite(u)!1!(e)
      BY <1>1 DEF EditWrite
    <2>2. e.src \in Source /\ e.old \in Content /\ e.new \in Content
      BY DEF EditRequest
    <2>3. PICK vs \in {doc[e.src].versions, doc[e.src].versions \cup {e.old}} :
            doc' = [doc EXCEPT ![e.src] = [@ EXCEPT !.content = e.new, !.versions = vs]]
      BY <2>1
    <2>a. doc[e.src] \in Row
      BY <2>2
    <2>b. vs \in SUBSET Content
      BY <2>2, <2>a DEF Row
    <2>4. [doc[e.src] EXCEPT !.content = e.new, !.versions = vs] \in Row
      BY <2>2, <2>a, <2>b DEF Row
    <2>5. doc' \in [Source -> Row]
      BY <2>2, <2>3, <2>4
    <2>6. calls' \in [Source -> [status : Nat, add : Nat]]
      BY <2>1, <2>2, EnqueueCalls
    <2>7. edit' \in [User -> SUBSET EditRequest]
      BY <1>1 DEF EditWrite
    <2> QED BY <1>1, <2>5, <2>6, <2>7 DEF EditWrite
  <1>2. CASE ChangeKey
    BY <1>2 DEF ChangeKey, Change
  <1>3. CASE Crash
    <2>1. ASSUME NEW s \in Source
          PROVE  /\ job'[s] \in Job /\ job'[s].attempts = job[s].attempts
                 /\ job'[s].state \in {"waiting", "active"} =>
                      job[s].state \in {"waiting", "active"}
                 /\ work'[s] \in Work /\ work'[s].pc = "idle"
      <3>1. job[s] \in Job /\ work[s] \in Work
        BY DEF Job, Work
      <3> QED BY <1>3, <3>1 DEF Crash, Job, Work
    <2>2. job' \in [Source -> Job] /\ work' \in [Source -> Work]
      BY <1>3, <2>1 DEF Crash
    <2>3. AttemptsLeft' /\ WorkerHasJob' /\ TextFits'
      BY <2>1
    <2>4. /\ calls' \in [Source -> [status : Nat, add : Nat]]
          /\ edit' \in [User -> SUBSET EditRequest]
          /\ sweep' \in [Source -> {"none", "selected", "add"}]
      BY <1>3 DEF Crash
    <2> QED BY <1>3, <2>2, <2>3, <2>4 DEF Crash, Job, Work
  <1>4. CASE SweepSelect
    BY <1>4 DEF SweepSelect
  <1>5. CASE SweepSelectFails
    <2>1. faults' \in 0 .. MaxFaults
      BY <1>5 DEF SweepSelectFails, Fault
    <2> QED BY <1>5, <2>1 DEF SweepSelectFails
  <1>6. CASE UNCHANGED vars
    BY <1>6 DEF vars
  <1> QED BY <1>1, <1>2, <1>3, <1>4, <1>5, <1>6, RequestTypes, EnqueueTypes, WorkerTypes
          DEF Next, Sweep

\* The initial states are well-typed.
LEMMA TypeInit == Init => IType
  <1> SUFFICES ASSUME Init PROVE IType
    OBVIOUS
  <1>1. "blank" \in Content
    BY DEF Content
  <1>2. [NewRow("blank", "none") EXCEPT !.life = "absent"] \in Row
    BY <1>1 DEF NewRow, Row
  <1>3. doc \in [Source -> Row]
    BY <1>2 DEF Init
  <1>4. /\ chunks \in [Source -> Text \cup {"none"}]
        /\ job \in [Source -> Job] /\ work \in [Source -> Work]
        /\ calls \in [Source -> [status : Nat, add : Nat]]
        /\ edit \in [User -> SUBSET EditRequest]
        /\ transcribing \subseteq Source
        /\ sweep \in [Source -> {"none", "selected", "add"}]
    BY <1>1, RagAssumption DEF Init, Job, Work
  <1>b. booting \in BOOLEAN /\ key \in BOOLEAN
    BY Zenon DEF Init
  <1>5. /\ changes \in 0 .. MaxChanges /\ evictions \in 0 .. MaxEvictions
        /\ crashes \in 0 .. MaxCrashes /\ faults \in 0 .. MaxFaults
    BY RagAssumption DEF Init
  <1>6. AttemptsLeft /\ WorkerHasJob /\ TextFits
    BY DEF Init, AttemptsLeft, WorkerHasJob, TextFits
  <1> QED BY <1>3, <1>4, <1>b, <1>5, <1>6 DEF IType, TypeOK, Job, Work

\* embedding_status stays within the CHECK of V56, no job gets more than
\* MaxAttempts attempts, and only the hash of a text with chunks is recorded.
THEOREM RagTypeCorrect == Spec => []TypeOK
  <1>1. IType => TypeOK
    BY DEF IType
  <1> QED BY <1>1, TypeInit, TypeStep, PTL DEF Spec

-----------------------------------------------------------------------------
(* Sources that do not exist yet *)

\* Nothing of the pipeline knows a source before its INSERT.
Untouched(s) ==
  /\ doc[s].hash = "none"
  /\ chunks[s] = "none"
  /\ job[s].state = "absent"
  /\ work[s].pc = "idle"
  /\ calls[s].status = 0
  /\ calls[s].add = 0
  /\ sweep[s] = "none"
  /\ s \notin transcribing

AbsentInv ==
  /\ \A s \in Source : doc[s].life = "absent" => Untouched(s)
  /\ \A u \in User : \A e \in edit[u] : doc[e.src].life /= "absent"

\* A step on an existing source leaves the others alone.
LEMMA AbsentFrame ==
  ASSUME AbsentInv, NEW s \in Source, doc'[s].life /= "absent", UNCHANGED edit,
         \A u \in Source : u /= s =>
           /\ doc'[u] = doc[u] /\ chunks'[u] = chunks[u] /\ job'[u] = job[u]
           /\ work'[u] = work[u] /\ calls'[u] = calls[u] /\ sweep'[u] = sweep[u]
           /\ u \in transcribing' => u \in transcribing,
         edit \in [User -> SUBSET EditRequest]
  PROVE  AbsentInv'
  <1>1. ASSUME NEW u \in Source, doc'[u].life = "absent" PROVE Untouched(u)'
    BY <1>1 DEF AbsentInv, Untouched
  <1>2. ASSUME NEW u \in User, NEW e \in edit'[u] PROVE doc'[e.src].life /= "absent"
    <2>1. e \in edit[u] /\ e.src \in Source
      BY <1>2 DEF EditRequest
    <2> QED BY <2>1 DEF AbsentInv
  <1> QED BY <1>1, <1>2 DEF AbsentInv

\* A transcript, a restored version, a deletion and a restoration rewrite the
\* source's row and leave its status and hash alone.
LEMMA RowKept ==
  ASSUME IType, NEW s \in Source,
         \/ Transcription(s) \/ Delete(s) \/ Restore(s)
         \/ \E c \in Content : RestoreVersion(s, c)
  PROVE  /\ doc'[s].hash = doc[s].hash
         /\ doc'[s].status = doc[s].status
         /\ Transcription(s) => doc'[s].life = doc[s].life
         /\ \A u \in Source : u /= s => doc'[u] = doc[u]
  <1>0. doc \in [Source -> Row] /\ doc[s] \in Row
    BY DEF IType, TypeOK
  <1>1. ASSUME NEW rw, doc' = [doc EXCEPT ![s] = rw]
        PROVE  doc'[s] = rw /\ \A u \in Source : u /= s => doc'[u] = doc[u]
    BY <1>0, <1>1
  <1>2. CASE \E c \in Content : Transcribed(s, c)
    <2>1. PICK c \in Content : Transcribed(s, c)
      BY <1>2
    <2>2. doc'[s] = [doc[s] EXCEPT !.content = c, !.extraction = "ready"]
          /\ \A u \in Source : u /= s => doc'[u] = doc[u]
      BY <2>1, <1>1 DEF Transcribed
    <2> QED BY <1>0, <2>2 DEF Row
  <1>3. CASE TranscriptionFails(s)
    <2>1. PICK x \in {"unsupported", "failed"} :
            doc' = [doc EXCEPT ![s] = [@ EXCEPT !.extraction = x]]
      BY <1>3 DEF TranscriptionFails
    <2>2. doc'[s] = [doc[s] EXCEPT !.extraction = x]
          /\ \A u \in Source : u /= s => doc'[u] = doc[u]
      BY <2>1, <1>1
    <2> QED BY <1>0, <2>2 DEF Row
  <1>4. ASSUME NEW l \in {"deleted", "live"},
               doc' = [doc EXCEPT ![s] = [@ EXCEPT !.life = l]], ~Transcription(s)
        PROVE  /\ doc'[s].hash = doc[s].hash
               /\ doc'[s].status = doc[s].status
               /\ \A u \in Source : u /= s => doc'[u] = doc[u]
    <2>1. doc'[s] = [doc[s] EXCEPT !.life = l]
          /\ \A u \in Source : u /= s => doc'[u] = doc[u]
      BY <1>4, <1>1
    <2> QED BY <1>0, <2>1 DEF Row
  <1>5. CASE (Delete(s) \/ Restore(s)) /\ ~Transcription(s)
    BY <1>5, <1>4 DEF Delete, Restore
  <1>6. CASE (\E c \in Content : RestoreVersion(s, c)) /\ ~Transcription(s)
    <2>1. PICK c \in Content : RestoreVersion(s, c)
      BY <1>6
    <2>2. doc'[s] = [doc[s] EXCEPT !.content = c,
                                   !.versions = doc[s].versions \cup {doc[s].content}]
          /\ \A u \in Source : u /= s => doc'[u] = doc[u]
      BY <2>1, <1>1 DEF RestoreVersion
    <2> QED BY <1>0, <1>6, <2>2 DEF Row
  <1> QED BY <1>2, <1>3, <1>5, <1>6 DEF Transcription

\* Every step keeps AbsentInv.
LEMMA AbsentStep == IType /\ AbsentInv /\ [Next]_vars => AbsentInv'
  <1> SUFFICES ASSUME IType, AbsentInv, [Next]_vars PROVE AbsentInv'
    OBVIOUS
  <1> USE DEF IType, TypeOK
  <1>1. ASSUME NEW s \in Source, Requests(s), UNCHANGED edit PROVE AbsentInv'
    <2>1. doc[s] \in Row
      OBVIOUS
    <2>2. doc'[s].life /= "absent"
      <3>1. CASE (\E c \in Content : Create(s, c)) \/ Upload(s)
        BY <3>1 DEF Create, Upload, NewRow
      <3>2. CASE \E c \in Content : RestoreVersion(s, c)
        <4>1. doc[s].life = "live" /\ doc'[s].life = doc[s].life
          BY <3>2, <2>1 DEF RestoreVersion, Row
        <4> QED BY <4>1
      <3>3. CASE Delete(s) \/ Restore(s)
        BY <3>3, <2>1 DEF Delete, Restore, Row
      <3>4. CASE \E u \in User : EditRead(u, s)
        BY <3>4 DEF EditRead
      <3> QED BY <1>1, <3>1, <3>2, <3>3, <3>4 DEF Requests
    <2>3. \A u \in Source : u /= s =>
            /\ doc'[u] = doc[u] /\ chunks'[u] = chunks[u] /\ job'[u] = job[u]
            /\ work'[u] = work[u] /\ calls'[u] = calls[u] /\ sweep'[u] = sweep[u]
            /\ u \in transcribing' => u \in transcribing
      BY <1>1, ZenonT(60) DEF Requests, Create, Upload, EditRead, RestoreVersion, Delete,
         Restore, enqueueEmbedding
    <2> QED BY <1>1, <2>2, <2>3, AbsentFrame
  <1>2. ASSUME NEW s \in Source, NEW u \in User, EditRead(u, s) PROVE AbsentInv'
    <2>1. \A v \in User : \A e \in edit'[v] : e \in edit[v] \/ e.src = s
      BY <1>2 DEF EditRead
    <2>2. UNCHANGED <<doc, chunks, job, work, calls, sweep, transcribing>>
      BY <1>2 DEF EditRead
    <2>3. doc[s].life /= "absent"
      BY <1>2 DEF EditRead
    <2> QED BY <2>1, <2>2, <2>3 DEF AbsentInv, Untouched
  <1>3. ASSUME NEW s \in Source,
               Transcription(s) \/ Enqueue(s) \/ JobStart(s) \/ Process(s) \/ Evict(s)
                 \/ SweepStatus(s) \/ SweepAdd(s)
        PROVE  AbsentInv'
    <2>0. doc[s] \in Row /\ job[s] \in Job /\ calls[s] \in [status : Nat, add : Nat]
      BY DEF Job
    <2>1. doc[s].life /= "absent"
      <3> SUFFICES ASSUME Untouched(s) PROVE FALSE
        BY DEF AbsentInv
      <3>1. ~Transcription(s)
        BY DEF Untouched, Transcription, Transcribed, TranscriptionFails
      <3>2. ~Enqueue(s)
        BY <2>0 DEF Untouched, Enqueue, CallStatus, CallStatusFails, CallAdd, CallAddFails
      <3>3. ~JobStart(s) /\ ~Evict(s) /\ ~SweepStatus(s) /\ ~SweepAdd(s)
        BY DEF Untouched, JobStart, Evict, SweepStatus, SweepAdd
      <3>4. ~Process(s)
        BY DEF Untouched, Process, Unsupported, UnsupportedIgnored, Allocate, SetPending,
           MarkProcessing, Embed, EmbedFails, Store, StoreNothing, FinishJob, WorkerFault,
           OnFailed
      <3> QED BY <1>3, <3>1, <3>2, <3>3, <3>4
    <2>2. /\ doc'[s].life = doc[s].life
          /\ \A u \in Source : u /= s => doc'[u] = doc[u]
      <3>1. ASSUME NEW st \in RagStatus, setStatus(s, st)
            PROVE  /\ doc'[s].life = doc[s].life
                   /\ \A u \in Source : u /= s => doc'[u] = doc[u]
        BY <3>1, <2>0 DEF setStatus, Row
      <3>2. CASE UNCHANGED doc
        BY <3>2
      <3>3. CASE Transcription(s)
        BY <3>3, RowKept
      <3>4. CASE Enqueue(s)
        BY <3>4, <3>1, <3>2 DEF Enqueue, CallStatus, CallStatusFails, CallAdd, CallAddFails
      <3>5. CASE JobStart(s) \/ Evict(s) \/ SweepStatus(s) \/ SweepAdd(s)
        BY <3>5, <3>1, <3>2 DEF JobStart, Evict, SweepStatus, SweepAdd
      <3>6. CASE FinishJob(s)
        BY <3>6, <2>0 DEF FinishJob, Row
      <3>7. CASE Process(s) /\ ~FinishJob(s)
        BY <3>7, <3>1, <3>2 DEF Process, Unsupported, UnsupportedIgnored, Allocate,
           SetPending, MarkProcessing, Embed, EmbedFails, Store, StoreNothing,
           WorkerFault, OnFailed
      <3> QED BY <1>3, <3>3, <3>4, <3>5, <3>6, <3>7
    <2>3. \A u \in Source : u /= s =>
            chunks'[u] = chunks[u] /\ job'[u] = job[u] /\ work'[u] = work[u]
      BY <1>3 DEF Return, Throw, Transcription, Transcribed, TranscriptionFails,
         Enqueue, CallStatus, CallStatusFails, CallAdd, CallAddFails, JobStart, Process,
         Unsupported, UnsupportedIgnored, Allocate, SetPending, MarkProcessing, Embed,
         EmbedFails, Store, StoreNothing, FinishJob, WorkerFault, OnFailed, Evict,
         SweepStatus, SweepAdd
    <2>4. /\ UNCHANGED edit
          /\ \A u \in Source : u /= s =>
               /\ calls'[u] = calls[u] /\ sweep'[u] = sweep[u]
               /\ u \in transcribing' => u \in transcribing
      BY <1>3, ZenonT(60) DEF enqueueEmbedding, Transcription, Transcribed, TranscriptionFails,
         Enqueue, CallStatus, CallStatusFails, CallAdd, CallAddFails, JobStart, Process,
         Unsupported, UnsupportedIgnored, Allocate, SetPending, MarkProcessing, Embed,
         EmbedFails, Store, StoreNothing, FinishJob, WorkerFault, OnFailed, Evict,
         SweepStatus, SweepAdd
    <2> QED BY <2>1, <2>2, <2>3, <2>4, AbsentFrame
  <1>4. ASSUME NEW u \in User, EditWrite(u) PROVE AbsentInv'
    <2>1. PICK e \in edit[u] : EditWrite(u)!1!(e)
      BY <1>4 DEF EditWrite
    <2>2. e.src \in Source /\ doc[e.src].life /= "absent" /\ doc[e.src] \in Row
      BY DEF EditRequest, AbsentInv
    <2>3. /\ \A s \in Source : doc'[s].life = doc[s].life
          /\ \A s \in Source : s /= e.src => doc'[s] = doc[s] /\ calls'[s] = calls[s]
      BY <2>1, <2>2 DEF enqueueEmbedding, Row
    <2>4. UNCHANGED <<chunks, job, work, sweep, transcribing>>
      BY <1>4 DEF EditWrite
    <2>5. \A v \in User : edit'[v] \subseteq edit[v]
      BY <1>4 DEF EditWrite
    <2>6. ASSUME NEW s \in Source, doc'[s].life = "absent" PROVE Untouched(s)'
      BY <2>2, <2>3, <2>4, <2>6, SMTT(60) DEF AbsentInv, Untouched
    <2>7. ASSUME NEW v \in User, NEW x \in edit'[v] PROVE doc'[x.src].life /= "absent"
      <3>1. x \in edit[v] /\ x.src \in Source
        BY <2>5 DEF EditRequest
      <3> QED BY <3>1, <2>3 DEF AbsentInv
    <2> QED BY <2>6, <2>7 DEF AbsentInv
  <1>5. CASE Crash
    <2>1. \A s \in Source :
            /\ job[s].state = "absent" => job'[s].state = "absent"
            /\ work'[s].pc = "idle" /\ calls'[s].status = 0 /\ calls'[s].add = 0
            /\ sweep'[s] = "none" /\ s \notin transcribing'
      <3>1. \A s \in Source : job[s] \in Job /\ work[s] \in Work
        BY DEF Job, Work
      <3> QED BY <1>5, <3>1 DEF Crash, Job, Work
    <2>2. /\ UNCHANGED <<doc, chunks>>
          /\ \A u \in User : edit'[u] = {}
      BY <1>5 DEF Crash
    <2> QED BY <2>1, <2>2 DEF AbsentInv, Untouched
  <1>6. CASE SweepSelect
    <2>1. /\ UNCHANGED <<doc, chunks, job, work, calls, edit, transcribing>>
          /\ \A s \in Source : doc[s].life = "absent" => sweep'[s] = "none"
      BY <1>6 DEF SweepSelect, Interrupted
    <2> QED BY <2>1 DEF AbsentInv, Untouched
  <1>7. CASE ChangeKey \/ SweepSelectFails \/ UNCHANGED vars
    <2>1. UNCHANGED <<doc, chunks, job, work, calls, edit, transcribing, sweep>>
      BY <1>7 DEF ChangeKey, SweepSelectFails, vars
    <2> QED BY <2>1 DEF AbsentInv, Untouched
  <1>8. ASSUME NEW s \in Source, Requests(s) PROVE AbsentInv'
    <2>1. CASE UNCHANGED edit
      BY <1>1, <1>8, <2>1
    <2>2. CASE \E u \in User : EditRead(u, s)
      BY <1>2, <2>2
    <2> QED BY <1>8, <2>1, <2>2 DEF Requests, Create, Upload, RestoreVersion, Delete, Restore
  <1> QED BY <1>3, <1>4, <1>5, <1>6, <1>7, <1>8 DEF Next, Sweep

-----------------------------------------------------------------------------
(* What the chunks hold *)

\* While the worker is past 'processing' the source is not 'ready', and past the
\* transaction the chunks are those of the text it read, if there are any.
WorkerAhead ==
  \A s \in Source :
    /\ work[s].pc \in {"embed", "store", "finish"} => doc[s].status /= "ready"
    /\ work[s].pc = "finish" => chunks[s] \in {work[s].text, "none"}

\* With nothing discarded, exactly those.
WorkerExact ==
  faults = 0 /\ crashes = 0 =>
    \A s \in Source : work[s].pc = "finish" => chunks[s] = work[s].text

IndexInv == ReadyMeansIndexed /\ ChunksMatchHash /\ WorkerAhead /\ WorkerExact

\* A step that leaves the chunks, the hashes and the worker alone, and makes no
\* source 'ready', keeps IndexInv.
LEMMA IndexFrame ==
  ASSUME IndexInv, UNCHANGED <<chunks, work>>, faults' = 0 => faults = 0,
         crashes' = 0 => crashes = 0,
         \A s \in Source : /\ doc'[s].hash = doc[s].hash
                           /\ doc'[s].status = "ready" => doc[s].status = "ready"
  PROVE  IndexInv'
  BY DEF IndexInv, ReadyMeansIndexed, ChunksMatchHash, WorkerAhead, WorkerExact

\* The steps of process() before 'processing', and those outside of process().
Early == {"idle", "gone", "unsupported", "allocate", "pending", "mark", "onFailed"}

\* The worker's steps that touch neither chunks nor hash, and do not move it past
\* 'processing', keep IndexInv.
LEMMA IndexLeave ==
  ASSUME IndexInv, NEW s \in Source, UNCHANGED <<chunks, crashes>>,
         faults' = 0 => faults = 0,
         work'[s].pc \in Early,
         \A t \in Source : t /= s => work'[t] = work[t],
         work[s].pc = "finish" => faults' /= 0,
         \A t \in Source : /\ doc'[t].hash = doc[t].hash
                           /\ doc'[t].status = "ready" => doc[t].status = "ready"
  PROVE  IndexInv'
  <1>1. ReadyMeansIndexed'
    BY DEF IndexInv, ReadyMeansIndexed
  <1>2. ChunksMatchHash'
    BY DEF IndexInv, ChunksMatchHash, Early
  <1>3. WorkerAhead' /\ WorkerExact'
    BY DEF IndexInv, WorkerAhead, WorkerExact, Early
  <1> QED BY <1>1, <1>2, <1>3 DEF IndexInv

\* What enqueueEmbedding and setStatus do to a row.
LEMMA RowFrame ==
  ASSUME IType, NEW s \in Source, NEW st \in RagStatus \ {"ready"}, setStatus(s, st)
  PROVE  \A t \in Source : /\ doc'[t].hash = doc[t].hash
                           /\ doc'[t].status = "ready" => doc[t].status = "ready"
  <1>1. doc[s] \in Row
    BY DEF IType, TypeOK
  <1> QED BY <1>1 DEF IType, TypeOK, setStatus, Row

\* Every step of the worker keeps IndexInv.
LEMMA IndexWorker ==
  ASSUME IType, IndexInv, NEW s \in Source, JobStart(s) \/ Process(s)
  PROVE  IndexInv'
  <1> DEFINE Frame == \A t \in Source : /\ doc'[t].hash = doc[t].hash
                                        /\ doc'[t].status = "ready" => doc[t].status = "ready"
  <1>0. doc[s] \in Row /\ work[s] \in Work /\ job[s] \in Job
    BY DEF IType, TypeOK, Job, Work
  <1>f. faults \in Nat
    BY RagAssumption DEF IType, TypeOK
  <1>d. ASSUME UNCHANGED doc PROVE Frame
    BY <1>d
  <1>m. ASSUME NEW p, work' = [work EXCEPT ![s] = [@ EXCEPT !.pc = p]]
        PROVE  /\ work'[s].pc = p /\ work'[s].text = work[s].text
               /\ \A t \in Source : t /= s => work'[t] = work[t]
    BY <1>m, <1>0 DEF IType, TypeOK, Work
  <1>r. ASSUME Return(s), UNCHANGED <<chunks, crashes>>, Frame,
               faults' = faults \/ faults' = faults + 1, work[s].pc /= "finish"
        PROVE  IndexInv'
    <2>1. /\ work'[s].pc \in Early
          /\ \A t \in Source : t /= s => work'[t] = work[t]
      BY <1>r, <1>m DEF Return, Early
    <2> QED BY <1>r, <1>f, <2>1, IndexLeave
  <1>t. ASSUME Throw(s), UNCHANGED <<chunks, doc, crashes>>,
               \/ faults' = faults /\ work[s].pc /= "finish"
               \/ faults' = faults + 1
        PROVE  IndexInv'
    <2>1. /\ work'[s].pc \in Early
          /\ \A t \in Source : t /= s => work'[t] = work[t]
      BY <1>t, <1>m DEF Throw, Early
    <2> QED BY <1>t, <1>f, <1>d, <2>1, IndexLeave
  <1>1. CASE JobStart(s)
    <2>1. /\ work'[s].pc \in Early
          /\ \A t \in Source : t /= s => work'[t] = work[t]
      BY <1>1 DEF JobStart, Early, IType, TypeOK
    <2>2. work[s].pc /= "finish"
      BY <1>1 DEF JobStart, IType, WorkerHasJob
    <2> QED BY <1>1, <1>d, <2>1, <2>2, IndexLeave DEF JobStart
  <1>2. CASE Unsupported(s)
    BY <1>2, <1>r, RowFrame DEF Unsupported
  <1>3. CASE UnsupportedIgnored(s)
    BY <1>3, <1>r, <1>d DEF UnsupportedIgnored, Fault
  <1>4. CASE Allocate(s)
    <2>1. CASE Return(s)
      BY <1>4, <2>1, <1>r, <1>d DEF Allocate
    <2>2. CASE ~Return(s)
      <3>1. /\ work'[s].pc \in Early
            /\ \A t \in Source : t /= s => work'[t] = work[t]
        BY <1>4, <2>2, <1>m DEF Allocate, Early
      <3> QED BY <1>4, <1>d, <3>1, IndexLeave DEF Allocate
    <2> QED BY <2>1, <2>2
  <1>5. CASE SetPending(s)
    BY <1>5, <1>r, RowFrame DEF SetPending
  <1>6. CASE MarkProcessing(s)
    <2>2. Frame /\ doc'[s].status = "processing"
      BY <1>6, <1>0, RowFrame DEF MarkProcessing, setStatus, IType, TypeOK, Row
    <2>3. /\ work'[s].pc \in {"unsupported", "embed"}
          /\ \A t \in Source : t /= s => work'[t] = work[t]
      BY <1>6, <1>m DEF MarkProcessing
    <2>4. /\ UNCHANGED <<chunks, faults, crashes>> /\ work[s].pc = "mark"
      BY <1>6 DEF MarkProcessing
    <2>5. ReadyMeansIndexed' /\ ChunksMatchHash'
      BY <2>2, <2>3, <2>4 DEF IndexInv, ReadyMeansIndexed, ChunksMatchHash
    <2>6. WorkerAhead' /\ WorkerExact'
      BY <2>2, <2>3, <2>4 DEF IndexInv, WorkerAhead, WorkerExact
    <2> QED BY <2>5, <2>6 DEF IndexInv
  <1>7. CASE Embed(s)
    <2>1. /\ work'[s].pc = "store" /\ work[s].pc = "embed"
          /\ \A t \in Source : t /= s => work'[t] = work[t]
          /\ UNCHANGED <<chunks, doc, faults, crashes>>
      BY <1>7, <1>0 DEF Embed, IType, TypeOK, Work
    <2> QED BY <2>1 DEF IndexInv, ReadyMeansIndexed, ChunksMatchHash, WorkerAhead, WorkerExact
  <1>8. CASE EmbedFails(s)
    BY <1>8, <1>t DEF EmbedFails
  <1>9. CASE Store(s) \/ StoreNothing(s)
    <2>1. /\ work'[s].pc = "finish" /\ work'[s].text = work[s].text
          /\ work[s].pc = "store"
          /\ \A t \in Source : t /= s => work'[t] = work[t] /\ chunks'[t] = chunks[t]
          /\ UNCHANGED <<doc, crashes>>
      BY <1>9, <1>0 DEF Store, StoreNothing, IType, TypeOK, Work
    <2>2. \/ chunks'[s] = work[s].text /\ faults' = faults
          \/ chunks'[s] = "none" /\ faults' = faults + 1
      BY <1>9 DEF Store, StoreNothing, Fault, IType, TypeOK
    <2>3. doc[s].status /= "ready"
      BY <2>1 DEF IndexInv, WorkerAhead
    <2>4. ReadyMeansIndexed'
      BY <2>1, <2>3 DEF IndexInv, ReadyMeansIndexed
    <2>5. WorkerAhead'
      BY <2>1, <2>2, <2>3 DEF IndexInv, WorkerAhead
    <2>6. ChunksMatchHash' /\ WorkerExact'
      BY <2>1, <2>2, <1>f DEF IndexInv, ChunksMatchHash, WorkerExact
    <2> QED BY <2>4, <2>5, <2>6 DEF IndexInv
  <1>10. CASE FinishJob(s)
    <2>1. /\ work'[s].pc = "idle" /\ work[s].pc = "finish"
          /\ doc'[s].hash = work[s].text
          /\ \A t \in Source : t /= s => work'[t] = work[t] /\ doc'[t] = doc[t]
          /\ UNCHANGED <<chunks, faults, crashes>>
      BY <1>10, <1>0 DEF FinishJob, Return, IType, TypeOK, Work, Row
    <2>2. work[s].text \in Text /\ work[s].text /= "none"
      BY <2>1, RagAssumption DEF IType, TextFits
    <2>3. ReadyMeansIndexed'
      BY <2>1, <2>2 DEF IndexInv, ReadyMeansIndexed, WorkerAhead
    <2>4. ChunksMatchHash'
      BY <2>1 DEF IndexInv, ChunksMatchHash, WorkerExact
    <2>5. WorkerAhead' /\ WorkerExact'
      BY <2>1 DEF IndexInv, WorkerAhead, WorkerExact
    <2> QED BY <2>3, <2>4, <2>5 DEF IndexInv
  <1>11. CASE WorkerFault(s)
    BY <1>11, <1>t DEF WorkerFault, Fault
  <1>12. CASE OnFailed(s)
    <2>1. Frame
      BY <1>12, <1>d, RowFrame DEF OnFailed
    <2>3. /\ work'[s].pc \in Early
          /\ \A t \in Source : t /= s => work'[t] = work[t]
      BY <1>12, <1>m DEF OnFailed, Early
    <2>4. /\ UNCHANGED <<chunks, crashes>> /\ work[s].pc = "onFailed"
          /\ faults' = faults \/ faults' = faults + 1
      BY <1>12 DEF OnFailed, Fault
    <2> QED BY <1>f, <2>1, <2>3, <2>4, IndexLeave
  <1> QED BY <1>1, <1>2, <1>3, <1>4, <1>5, <1>6, <1>7, <1>8, <1>9, <1>10, <1>11, <1>12
          DEF Process

\* Every step keeps IndexInv.
LEMMA IndexStep == IType /\ AbsentInv /\ IndexInv /\ [Next]_vars => IndexInv'
  <1> SUFFICES ASSUME IType, AbsentInv, IndexInv, [Next]_vars PROVE IndexInv'
    OBVIOUS
  <1> DEFINE Frame == \A t \in Source : /\ doc'[t].hash = doc[t].hash
                                        /\ doc'[t].status = "ready" => doc[t].status = "ready"
  <1>f. faults \in Nat /\ crashes \in Nat
    BY RagAssumption DEF IType, TypeOK
  <1>1. ASSUME NEW s \in Source, Requests(s) \/ Transcription(s) PROVE IndexInv'
    <2>0. doc[s] \in Row /\ (doc[s].life = "absent" => doc[s].hash = "none")
      BY DEF IType, TypeOK, AbsentInv, Untouched
    <2>1. UNCHANGED <<chunks, work, faults, crashes>>
      BY <1>1 DEF Requests, Transcription, Create, Upload, EditRead, RestoreVersion,
         Delete, Restore, Transcribed, TranscriptionFails
    <2>2. Frame
      <3> USE <2>0 DEF IType, TypeOK
      <3>1. CASE (\E c \in Content : Create(s, c)) \/ Upload(s)
        BY <3>1 DEF Create, Upload, NewRow
      <3>2. CASE \/ Transcription(s) \/ Delete(s) \/ Restore(s)
                 \/ \E c \in Content : RestoreVersion(s, c)
        BY <3>2, RowKept
      <3>3. CASE \E u \in User : EditRead(u, s)
        BY <3>3 DEF EditRead
      <3> QED BY <1>1, <3>1, <3>2, <3>3 DEF Requests
    <2> QED BY <2>1, <2>2, IndexFrame
  <1>2. ASSUME NEW s \in Source, Enqueue(s) \/ SweepStatus(s) \/ SweepAdd(s) \/ Evict(s)
        PROVE  IndexInv'
    <2>1. /\ UNCHANGED <<chunks, work, crashes>>
          /\ faults' = faults \/ faults' = faults + 1
          /\ UNCHANGED doc \/ setStatus(s, "queued")
      BY <1>2 DEF Enqueue, CallStatus, CallStatusFails, CallAdd, CallAddFails, SweepStatus,
         SweepAdd, Evict, Fault
    <2>2. Frame
      BY <2>1, RowFrame
    <2> QED BY <1>f, <2>1, <2>2, IndexFrame
  <1>3. ASSUME NEW u \in User, EditWrite(u) PROVE IndexInv'
    <2>1. PICK e \in edit[u] : EditWrite(u)!1!(e)
      BY <1>3 DEF EditWrite
    <2>2. e.src \in Source /\ doc[e.src] \in Row
      BY DEF IType, TypeOK, EditRequest
    <2>3. Frame
      BY <2>1, <2>2 DEF IType, TypeOK, Row
    <2>4. UNCHANGED <<chunks, work, faults, crashes>>
      BY <1>3 DEF EditWrite
    <2> QED BY <2>3, <2>4, IndexFrame
  <1>4. CASE Crash
    <2>1. \A s \in Source : work'[s].pc = "idle"
      BY <1>4 DEF Crash, IType, TypeOK
    <2>2. UNCHANGED <<doc, chunks>> /\ crashes' /= 0
      BY <1>4, <1>f DEF Crash
    <2> QED BY <2>1, <2>2 DEF IndexInv, ReadyMeansIndexed, ChunksMatchHash, WorkerAhead,
                              WorkerExact
  <1>5. CASE ChangeKey \/ SweepSelect \/ SweepSelectFails \/ UNCHANGED vars
    <2>1. /\ UNCHANGED <<doc, chunks, work, crashes>>
          /\ faults' = faults \/ faults' = faults + 1
      BY <1>5 DEF ChangeKey, SweepSelect, SweepSelectFails, Fault, vars
    <2> QED BY <1>f, <2>1, IndexFrame
  <1> QED BY <1>1, <1>2, <1>3, <1>4, <1>5, IndexWorker DEF Next, Sweep

\* Nothing exists and nothing is indexed at first.
LEMMA IndexInit == Init => AbsentInv /\ IndexInv
  BY DEF Init, NewRow, AbsentInv, Untouched, IndexInv, ReadyMeansIndexed, ChunksMatchHash,
     WorkerAhead, WorkerExact

\* 'ready' is never claimed over the chunks of another text than the one whose
\* hash is recorded, for any number of sources, failures, edits and evictions.
THEOREM ReadyIsIndexed == Spec => []ReadyMeansIndexed
  <1>1. IndexInv => ReadyMeansIndexed
    BY DEF IndexInv
  <1> QED BY <1>1, TypeInit, TypeStep, AbsentStep, IndexInit, IndexStep, PTL DEF Spec

\* Until a call fails or the backend restarts, the recorded hash is that of the
\* text in the chunks.
THEOREM HashIsExact == Spec => []ChunksMatchHash
  <1>1. IndexInv => ChunksMatchHash
    BY DEF IndexInv
  <1> QED BY <1>1, TypeInit, TypeStep, AbsentStep, IndexInit, IndexStep, PTL DEF Spec

-----------------------------------------------------------------------------
(* Recordings whose transcript has not landed *)

\* Nothing of the pipeline is about the source.
Quiet(s) ==
  /\ chunks[s] = "none"
  /\ job[s].state = "absent"
  /\ work[s].pc = "idle"
  /\ calls[s].status = 0
  /\ calls[s].add = 0
  /\ sweep[s] = "none"

\* A recording is out of the pipeline and of the editors' hands until then.
PendingInv ==
  /\ \A s \in Source : doc[s].extraction = "pending" => Quiet(s)
  /\ \A u \in User : \A e \in edit[u] : doc[e.src].extraction /= "pending"

\* A step on a source that is not waiting for its transcript leaves the others alone.
LEMMA PendingFrame ==
  ASSUME IType, PendingInv, NEW s \in Source, doc'[s].extraction /= "pending", UNCHANGED edit,
         \A u \in Source : u /= s =>
           /\ doc'[u].extraction = doc[u].extraction /\ chunks'[u] = chunks[u] /\ job'[u] = job[u]
           /\ work'[u] = work[u] /\ calls'[u] = calls[u] /\ sweep'[u] = sweep[u]
  PROVE  PendingInv'
  <1>1. ASSUME NEW u \in Source, doc'[u].extraction = "pending" PROVE Quiet(u)'
    BY <1>1 DEF PendingInv, Quiet
  <1>2. ASSUME NEW u \in User, NEW e \in edit'[u] PROVE doc'[e.src].extraction /= "pending"
    <2>1. e \in edit[u] /\ e.src \in Source
      BY <1>2 DEF IType, TypeOK, EditRequest
    <2> QED BY <2>1 DEF PendingInv
  <1> QED BY <1>1, <1>2 DEF PendingInv

\* A step that leaves every source's extraction and the pipeline alone.
LEMMA PendingStays ==
  ASSUME IType, PendingInv, UNCHANGED <<chunks, job, work, calls, edit, sweep>>,
         \A s \in Source : doc'[s].extraction = doc[s].extraction
  PROVE  PendingInv'
  <1>1. ASSUME NEW u \in User, NEW e \in edit'[u] PROVE doc'[e.src].extraction /= "pending"
    <2>1. e \in edit[u] /\ e.src \in Source
      BY <1>1 DEF IType, TypeOK, EditRequest
    <2> QED BY <2>1 DEF PendingInv
  <1> QED BY <1>1 DEF PendingInv, Quiet

\* A step of the pipeline on a source: it was not waiting, and still is not.
LEMMA PendingPipeline ==
  ASSUME IType, PendingInv, NEW s \in Source,
         Enqueue(s) \/ JobStart(s) \/ Process(s) \/ Evict(s) \/ SweepStatus(s) \/ SweepAdd(s)
  PROVE  PendingInv'
  <1> USE DEF IType, TypeOK
  <1>0. doc[s] \in Row /\ job[s] \in Job /\ calls[s] \in [status : Nat, add : Nat]
    BY DEF Job
  <1>1. doc[s].extraction /= "pending"
    <2> SUFFICES ASSUME Quiet(s) PROVE FALSE
      BY DEF PendingInv
    <2>1. ~Enqueue(s)
      BY <1>0 DEF Quiet, Enqueue, CallStatus, CallStatusFails, CallAdd, CallAddFails
    <2>2. ~JobStart(s) /\ ~Evict(s) /\ ~SweepStatus(s) /\ ~SweepAdd(s)
      BY DEF Quiet, JobStart, Evict, SweepStatus, SweepAdd
    <2>3. ~Process(s)
      BY DEF Quiet, Process, Unsupported, UnsupportedIgnored, Allocate, SetPending,
         MarkProcessing, Embed, EmbedFails, Store, StoreNothing, FinishJob, WorkerFault,
         OnFailed
    <2> QED BY <2>1, <2>2, <2>3
  <1>2. /\ doc'[s].extraction = doc[s].extraction
        /\ \A u \in Source : u /= s => doc'[u] = doc[u]
    <2>1. ASSUME NEW st \in RagStatus, setStatus(s, st)
          PROVE  /\ doc'[s].extraction = doc[s].extraction
                 /\ \A u \in Source : u /= s => doc'[u] = doc[u]
      BY <2>1, <1>0 DEF setStatus, Row
    <2>2. CASE UNCHANGED doc
      BY <2>2
    <2>3. CASE Enqueue(s)
      BY <2>3, <2>1, <2>2 DEF Enqueue, CallStatus, CallStatusFails, CallAdd, CallAddFails
    <2>4. CASE JobStart(s) \/ Evict(s) \/ SweepStatus(s) \/ SweepAdd(s)
      BY <2>4, <2>1, <2>2 DEF JobStart, Evict, SweepStatus, SweepAdd
    <2>5. CASE FinishJob(s)
      BY <2>5, <1>0 DEF FinishJob, Row
    <2>6. CASE Process(s) /\ ~FinishJob(s)
      BY <2>6, <2>1, <2>2 DEF Process, Unsupported, UnsupportedIgnored, Allocate,
         SetPending, MarkProcessing, Embed, EmbedFails, Store, StoreNothing,
         WorkerFault, OnFailed
    <2> QED BY <2>3, <2>4, <2>5, <2>6
  <1>3. \A u \in Source : u /= s =>
          chunks'[u] = chunks[u] /\ job'[u] = job[u] /\ work'[u] = work[u]
    BY DEF Return, Throw, Enqueue, CallStatus, CallStatusFails, CallAdd, CallAddFails, JobStart,
       Process, Unsupported, UnsupportedIgnored, Allocate, SetPending, MarkProcessing, Embed,
       EmbedFails, Store, StoreNothing, FinishJob, WorkerFault, OnFailed, Evict,
       SweepStatus, SweepAdd
  <1>4. /\ UNCHANGED edit
        /\ \A u \in Source : u /= s => calls'[u] = calls[u] /\ sweep'[u] = sweep[u]
    BY DEF Enqueue, CallStatus, CallStatusFails, CallAdd, CallAddFails, JobStart, Process,
       Unsupported, UnsupportedIgnored, Allocate, SetPending, MarkProcessing, Embed,
       EmbedFails, Store, StoreNothing, FinishJob, WorkerFault, OnFailed, Evict,
       SweepStatus, SweepAdd
  <1> QED BY <1>1, <1>2, <1>3, <1>4, PendingFrame, SMTT(60)

\* Every step keeps PendingInv.
LEMMA PendingStep == IType /\ AbsentInv /\ PendingInv /\ [Next]_vars => PendingInv'
  <1> SUFFICES ASSUME IType, AbsentInv, PendingInv, [Next]_vars PROVE PendingInv'
    OBVIOUS
  <1>0. doc \in [Source -> Row] /\ \A u \in User : \A e \in edit[u] : e.src \in Source
    BY DEF IType, TypeOK, EditRequest
  <1>1. ASSUME NEW s \in Source, NEW c \in Content, Create(s, c) PROVE PendingInv'
    <2>1. doc'[s].extraction = "none" /\ \A u \in Source : u /= s => doc'[u] = doc[u]
      BY <1>0, <1>1 DEF Create, NewRow
    <2>2. /\ UNCHANGED <<chunks, job, work, edit, sweep>>
          /\ \A u \in Source : u /= s => calls'[u] = calls[u]
      BY <1>1 DEF Create, enqueueEmbedding, IType, TypeOK
    <2> QED BY <2>1, <2>2, PendingFrame
  <1>2. ASSUME NEW s \in Source, Upload(s) PROVE PendingInv'
    <2>1. Quiet(s) /\ doc[s].life = "absent"
      BY <1>2 DEF Upload, AbsentInv, Untouched, Quiet
    <2>2. UNCHANGED <<chunks, job, work, calls, edit, sweep>> /\ \A u \in Source : u /= s => doc'[u] = doc[u]
      BY <1>2 DEF Upload
    <2>3. \A u \in User : \A e \in edit[u] : e.src /= s
      BY <2>1 DEF AbsentInv
    <2>4. \A u \in User : \A e \in edit'[u] : doc'[e.src].extraction /= "pending"
      BY <1>0, <2>2, <2>3 DEF PendingInv
    <2>5. \A u \in Source : doc'[u].extraction = "pending" => Quiet(u)'
      BY <2>1, <2>2 DEF PendingInv, Quiet
    <2> QED BY <2>4, <2>5 DEF PendingInv
  <1>3. ASSUME NEW s \in Source, NEW u \in User, EditRead(u, s) PROVE PendingInv'
    <2>1. UNCHANGED <<doc, chunks, job, work, calls, sweep>> /\ doc[s].extraction = "none"
      BY <1>3 DEF EditRead
    <2>2. \A v \in User : \A e \in edit'[v] : e \in edit[v] \/ e.src = s
      BY <1>3 DEF EditRead, IType, TypeOK
    <2>3. \A v \in User : \A e \in edit'[v] : doc'[e.src].extraction /= "pending"
      BY <2>1, <2>2 DEF PendingInv
    <2> QED BY <2>1, <2>3 DEF PendingInv, Quiet
  <1>4. ASSUME NEW s \in Source, Delete(s) \/ Restore(s) \/ \E c \in Content : RestoreVersion(s, c) PROVE PendingInv'
    <2>0. doc[s] \in Row
      BY <1>0
    <2>a. \/ doc' = [doc EXCEPT ![s] = [@ EXCEPT !.life = "deleted"]]
          \/ doc' = [doc EXCEPT ![s] = [@ EXCEPT !.life = "live"]]
          \/ \E c \in Content : doc' = [doc EXCEPT ![s] =
               [@ EXCEPT !.content = c, !.versions = doc[s].versions \cup {doc[s].content}]]
      BY <1>4 DEF Delete, Restore, RestoreVersion
    <2>b. \E row : row.extraction = doc[s].extraction /\ doc' = [doc EXCEPT ![s] = row]
      <3>1. CASE doc' = [doc EXCEPT ![s] = [@ EXCEPT !.life = "deleted"]]
        <4>1. [doc[s] EXCEPT !.life = "deleted"].extraction = doc[s].extraction
          BY <2>0 DEF Row
        <4> QED BY <3>1, <4>1
      <3>2. CASE doc' = [doc EXCEPT ![s] = [@ EXCEPT !.life = "live"]]
        <4>1. [doc[s] EXCEPT !.life = "live"].extraction = doc[s].extraction
          BY <2>0 DEF Row
        <4> QED BY <3>2, <4>1
      <3>3. ASSUME NEW c \in Content,
                   doc' = [doc EXCEPT ![s] = [@ EXCEPT !.content = c,
                             !.versions = doc[s].versions \cup {doc[s].content}]]
            PROVE  \E row : row.extraction = doc[s].extraction /\ doc' = [doc EXCEPT ![s] = row]
        <4>1. [doc[s] EXCEPT !.content = c, !.versions = doc[s].versions \cup {doc[s].content}].extraction
                = doc[s].extraction
          BY <2>0 DEF Row
        <4> QED BY <3>3, <4>1
      <3> QED BY <2>a, <3>1, <3>2, <3>3
    <2>1. doc'[s].extraction = doc[s].extraction /\ \A u \in Source : u /= s => doc'[u] = doc[u]
      BY <1>0, <2>b
    <2>2. UNCHANGED <<chunks, job, work, calls, edit, sweep>>
      BY <1>4 DEF Delete, Restore, RestoreVersion
    <2> QED BY <2>1, <2>2, PendingStays
  <1>5. ASSUME NEW s \in Source, Transcription(s) PROVE PendingInv'
    <2>0. doc[s] \in Row
      BY <1>0
    <2>a. \/ \E c \in Content :
               doc' = [doc EXCEPT ![s] = [@ EXCEPT !.content = c, !.extraction = "ready"]]
          \/ \E x \in {"unsupported", "failed"} :
               doc' = [doc EXCEPT ![s] = [@ EXCEPT !.extraction = x]]
      BY <1>5 DEF Transcription, Transcribed, TranscriptionFails
    <2>b. \E row : row.extraction /= "pending" /\ doc' = [doc EXCEPT ![s] = row]
      <3>1. ASSUME NEW c \in Content,
                   doc' = [doc EXCEPT ![s] = [@ EXCEPT !.content = c, !.extraction = "ready"]]
            PROVE  \E row : row.extraction /= "pending" /\ doc' = [doc EXCEPT ![s] = row]
        <4>1. [doc[s] EXCEPT !.content = c, !.extraction = "ready"].extraction = "ready"
          BY <2>0 DEF Row
        <4> QED BY <3>1, <4>1
      <3>2. ASSUME NEW x \in {"unsupported", "failed"},
                   doc' = [doc EXCEPT ![s] = [@ EXCEPT !.extraction = x]]
            PROVE  \E row : row.extraction /= "pending" /\ doc' = [doc EXCEPT ![s] = row]
        <4>1. [doc[s] EXCEPT !.extraction = x].extraction = x
          BY <2>0 DEF Row
        <4> QED BY <3>2, <4>1
      <3> QED BY <2>a, <3>1, <3>2
    <2>1. doc'[s].extraction /= "pending" /\ \A u \in Source : u /= s => doc'[u] = doc[u]
      BY <1>0, <2>b
    <2>2. /\ UNCHANGED <<chunks, job, work, edit, sweep>>
          /\ \A u \in Source : u /= s => calls'[u] = calls[u]
      BY <1>5 DEF Transcription, Transcribed, TranscriptionFails, enqueueEmbedding, IType, TypeOK
    <2> QED BY <2>1, <2>2, PendingFrame
  <1>6. ASSUME NEW u \in User, EditWrite(u) PROVE PendingInv'
    <2>1. PICK e \in edit[u] : EditWrite(u)!1!(e)
      BY <1>6 DEF EditWrite
    <2>2. e.src \in Source /\ doc[e.src].extraction /= "pending" /\ doc[e.src] \in Row
      BY <1>0 DEF PendingInv
    <2>3. /\ \A s \in Source : doc'[s].extraction = doc[s].extraction
          /\ \A s \in Source : s /= e.src => calls'[s] = calls[s]
      BY <1>0, <2>1, <2>2 DEF enqueueEmbedding, Row, IType, TypeOK
    <2>4. UNCHANGED <<chunks, job, work, sweep>> /\ \A v \in User : edit'[v] \subseteq edit[v]
      BY <1>6 DEF EditWrite, IType, TypeOK
    <2>5. \A s \in Source : doc'[s].extraction = "pending" => Quiet(s)'
      BY <2>2, <2>3, <2>4 DEF PendingInv, Quiet
    <2>6. \A v \in User : \A x \in edit'[v] : doc'[x.src].extraction /= "pending"
      BY <1>0, <2>3, <2>4 DEF PendingInv
    <2> QED BY <2>5, <2>6 DEF PendingInv
  <1>7. CASE Crash
    <2>1. \A s \in Source :
            /\ job[s].state = "absent" => job'[s].state = "absent"
            /\ work'[s].pc = "idle" /\ calls'[s].status = 0 /\ calls'[s].add = 0
            /\ sweep'[s] = "none"
      <3>1. \A s \in Source : job[s] \in Job /\ work[s] \in Work
        BY DEF Job, Work, IType, TypeOK
      <3> QED BY <1>7, <3>1 DEF Crash, Job, Work
    <2>2. UNCHANGED <<doc, chunks>> /\ \A u \in User : edit'[u] = {}
      BY <1>7 DEF Crash
    <2> QED BY <2>1, <2>2 DEF PendingInv, Quiet
  <1>8. CASE SweepSelect
    <2>1. /\ UNCHANGED <<doc, chunks, job, work, calls, edit>>
          /\ \A s \in Source : doc[s].extraction = "pending" => sweep'[s] = "none"
      BY <1>8 DEF SweepSelect, Interrupted
    <2> QED BY <2>1 DEF PendingInv, Quiet
  <1>9. CASE ChangeKey \/ SweepSelectFails \/ UNCHANGED vars
    <2>1. UNCHANGED <<doc, chunks, job, work, calls, edit, sweep>>
      BY <1>9 DEF ChangeKey, SweepSelectFails, vars
    <2> QED BY <2>1, PendingStays
  <1>10. ASSUME NEW s \in Source, Requests(s) PROVE PendingInv'
    BY <1>1, <1>2, <1>3, <1>4, <1>10 DEF Requests
  <1> QED BY <1>5, <1>6, <1>7, <1>8, <1>9, <1>10, PendingPipeline DEF Next, Sweep

LEMMA PendingInit == Init => PendingInv
  BY DEF Init, NewRow, PendingInv, Quiet

\* No recording is embedded before its transcript has landed: neither the upload, nor
\* an edit, nor the boot sweep, nor a retry after a restart starts a job for it.
THEOREM TranscriptFirst == Spec => []NoJobBeforeTranscript
  <1>1. PendingInv => NoJobBeforeTranscript
    BY DEF PendingInv, Quiet, NoJobBeforeTranscript
  <1> QED BY <1>1, TypeInit, TypeStep, IndexInit, AbsentStep, PendingInit, PendingStep, PTL DEF Spec

=============================================================================
