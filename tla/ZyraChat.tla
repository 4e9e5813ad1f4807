------------------------------ MODULE ZyraChat ------------------------------
(***************************************************************************)
(* A Zyra chat session and its batched "all possible cases" plan            *)
(* (LegacyService, zyra_chat_sessions.active_plan).  A message plans the    *)
(* scenarios, generates the first batch itself and leaves the rest to a     *)
(* fire-and-forget loop; the user may stop, resume or supersede the plan,   *)
(* and the process may die and resume it at boot.                           *)
(*                                                                         *)
(* One session.  A scenario is known by its message and its number in the   *)
(* message's plan.  A query is one step; a provider call lies between two.  *)
(* How many of a batch's operations reach the repository is ZyraTurn's      *)
(* subject; last_completed_plan, which only a later "move those" reads, is  *)
(* left out.                                                                *)
(***************************************************************************)
EXTENDS Naturals, Sequences, FiniteSets

CONSTANTS
  Loop,          \* continueZyraChatPlan loops alive at once
  Turn,          \* chat requests in flight at once
  MaxScenarios,  \* ZYRA_PLAN_MAX_SCENARIOS
  BatchSize,     \* ZYRA_PLAN_BATCH_SIZE
  MaxTurns       \* requests ever made

ASSUME ZyraChatConstants ==
  /\ Loop \subseteq Nat \ {0} /\ Turn \subseteq Nat \ {0}
  /\ MaxScenarios \in Nat \ {0} /\ BatchSize \in Nat \ {0} /\ MaxTurns \in Nat

VARIABLES
  plan,      \* active_plan
  loop,      \* the loops, each with the plan it read at the top
  turn,      \* the chat requests in flight
  grant,     \* the project's AI key and Zyra capabilities
  turns,     \* requests made so far
  planIds,   \* randomUUID: plan ids handed out
  handled,   \* history: the scenarios whose batch was carried out
  lost,      \* history: the scenarios of a first batch whose request died before writing it
  stopped    \* history: the user was told "Stopped at your request", and has not resumed

zcVars == <<plan, loop, turn, grant, turns, planIds, handled, lost, stopped>>

NoPlan == [id |-> 0, status |-> "none", msg |-> 0, rest |-> <<>>, done |-> 0, total |-> 0]
NoLoop == [op |-> "idle", id |-> 0, read |-> NoPlan]
NoTurn == [op |-> "idle", msg |-> 0, read |-> NoPlan]

ZyraChatInit ==
  /\ plan = NoPlan
  /\ loop = [l \in Loop |-> NoLoop] /\ turn = [k \in Turn |-> NoTurn]
  /\ grant = [key |-> TRUE, generation |-> TRUE]
  /\ turns = 0 /\ planIds = 0
  /\ handled = {} /\ lost = {} /\ stopped = FALSE

IdleLoop == {l \in Loop : loop[l].op = "idle" /\ \A j \in Loop : j < l => loop[j].op /= "idle"}
IdleTurn == {k \in Turn : turn[k].op = "idle" /\ \A j \in Turn : j < k => turn[j].op /= "idle"}
Take == turns < MaxTurns /\ turns' = turns + 1
Opens(k, op) == turn' = [turn EXCEPT ![k] = [op |-> op, msg |-> turns + 1, read |-> plan]]
Ends(k) == turn' = [turn EXCEPT ![k] = NoTurn]
Quits(l) == loop' = [loop EXCEPT ![l] = NoLoop]
At(l, op) == loop' = [loop EXCEPT ![l].op = op]
\* void this.continueZyraChatPlan(...): a loop for the plan, in a free slot.
Spawn(id) == \E l \in IdleLoop : loop' = [loop EXCEPT ![l] = [NoLoop EXCEPT !.op = "top", !.id = id]]

Upto(p) == IF Len(p.rest) < BatchSize THEN Len(p.rest) ELSE BatchSize
Batch(p) == {<<p.msg, p.rest[i]>> : i \in 1..Upto(p)}
\* The plan a batch further on.
Advanced(p) == [p EXCEPT !.rest = SubSeq(p.rest, Upto(p) + 1, Len(p.rest)), !.done = @ + Upto(p)]

\* Settings: the key is withdrawn or allocated, a capability switched.
updateZyraGrant(what) ==
  /\ Take /\ grant' = [grant EXCEPT ![what] = ~@]
  /\ UNCHANGED <<plan, loop, turn, planIds, handled, lost, stopped>>

-----------------------------------------------------------------------------
(* Messages *)

\* The session is read; a paused plan met by "continue" is resumed, any other plan superseded.
sendZyraChatMessage ==
  /\ Take
  /\ \E k \in IdleTurn, resumeIntent \in BOOLEAN :
       Opens(k, IF plan.status = "paused" /\ resumeIntent THEN "resume"
                ELSE IF plan /= NoPlan THEN "supersede" ELSE "decide")
  /\ UNCHANGED <<plan, loop, grant, planIds, handled, lost, stopped>>

supersedePlan(k) ==
  /\ turn[k].op = "supersede"
  /\ plan' = NoPlan
  /\ turn' = [turn EXCEPT ![k].op = "decide"]
  /\ UNCHANGED <<loop, grant, turns, planIds, handled, lost, stopped>>

\* An answer, or a failed provider call: nothing is generated.
buildZyraChatDecision(k) ==
  /\ turn[k].op = "decide"
  /\ Ends(k)
  /\ UNCHANGED <<plan, loop, grant, turns, planIds, handled, lost, stopped>>

\* The scenarios are planned and the first batch generated; what is left of them becomes the
\* active plan and a loop's work, before this request has written its own batch.
startZyraChatPlan(k) ==
  /\ turn[k].op = "decide" /\ grant.key /\ grant.generation
  /\ \E n \in 1..MaxScenarios :
       LET whole == [NoPlan EXCEPT !.id = planIds + 1, !.status = "running", !.msg = turn[k].msg,
                                   !.rest = [i \in 1..n |-> i], !.total = n]
           left  == Advanced(whole)
       IN /\ turn' = [turn EXCEPT ![k].op = "first_batch", ![k].read = whole]
          /\ IF left.rest = <<>> THEN UNCHANGED <<plan, planIds, loop, stopped>>
             ELSE plan' = left /\ planIds' = planIds + 1 /\ Spawn(left.id) /\ stopped' = FALSE
  /\ UNCHANGED <<grant, turns, handled, lost>>

\* The message's own batch is carried out.
writeFirstBatch(k) ==
  LET batch == Batch(turn[k].read) IN
  /\ turn[k].op = "first_batch"
  /\ handled' = handled \cup batch
  /\ Ends(k)
  /\ UNCHANGED <<plan, loop, grant, turns, planIds, lost, stopped>>

\* A write of the first batch throws: the request fails, the plan goes on.
failFirstBatch(k) ==
  /\ turn[k].op = "first_batch"
  /\ lost' = lost \cup Batch(turn[k].read)
  /\ Ends(k)
  /\ UNCHANGED <<plan, loop, grant, turns, planIds, handled, stopped>>

\* Stop: the plan is read, and written back as paused.
stopZyraChatPlan ==
  /\ Take /\ plan.status = "running"
  /\ \E k \in IdleTurn : Opens(k, "stop")
  /\ UNCHANGED <<plan, loop, grant, planIds, handled, lost, stopped>>
pausePlan(k) ==
  /\ turn[k].op = "stop"
  /\ plan' = [turn[k].read EXCEPT !.status = "paused"]
  /\ stopped' = TRUE
  /\ Ends(k)
  /\ UNCHANGED <<loop, grant, turns, planIds, handled, lost>>

\* Resume, by its button or by "continue": the plan is read again; a paused one runs under a
\* fresh id in a loop of its own.
askResume ==
  /\ Take /\ plan.status = "paused"
  /\ \E k \in IdleTurn : Opens(k, "resume")
  /\ UNCHANGED <<plan, loop, grant, planIds, handled, lost, stopped>>
resumeZyraChatPlan(k) ==
  /\ turn[k].op = "resume"
  /\ turn' = [turn EXCEPT ![k].op = IF plan.status = "paused" THEN "restart" ELSE "idle", ![k].read = plan]
  /\ UNCHANGED <<plan, loop, grant, turns, planIds, handled, lost, stopped>>
restartPlan(k) ==
  /\ turn[k].op = "restart"
  /\ planIds' = planIds + 1
  /\ plan' = [turn[k].read EXCEPT !.id = planIds', !.status = "running"]
  /\ Spawn(planIds')
  /\ stopped' = FALSE
  /\ Ends(k)
  /\ UNCHANGED <<grant, turns, handled, lost>>

-----------------------------------------------------------------------------
(* continueZyraChatPlan *)

\* The top of the loop: the plan is read, and left alone if it is no longer this loop's.
readPlan(l) ==
  /\ loop[l].op = "top"
  /\ IF plan.id /= loop[l].id THEN Quits(l)
     ELSE loop' = [loop EXCEPT ![l].op = "generate", ![l].read = plan]
  /\ UNCHANGED <<plan, turn, grant, turns, planIds, handled, lost, stopped>>

\* Without a key, or with generation switched off, the plan is dropped, whosever it is now.
clearZyraChatPlan(l) ==
  /\ loop[l].op = "generate" /\ ~(grant.key /\ grant.generation)
  /\ plan' = NoPlan
  /\ Quits(l)
  /\ UNCHANGED <<turn, grant, turns, planIds, handled, lost, stopped>>

\* The provider answers and the batch is carried out and posted.
generateBatch(l) ==
  /\ loop[l].op = "generate" /\ grant.key /\ grant.generation
  /\ handled' = handled \cup Batch(loop[l].read)
  /\ At(l, "posted")
  /\ UNCHANGED <<plan, turn, grant, turns, planIds, lost, stopped>>

\* The last batch drops the plan, whosever it is now; any other one checks again whose it is.
recheckPlan(l) ==
  /\ loop[l].op = "posted"
  /\ LET finished == Advanced(loop[l].read).rest = <<>>
     IN /\ plan' = IF finished THEN NoPlan ELSE plan
        /\ IF finished \/ plan.id /= loop[l].id THEN Quits(l) ELSE At(l, "progress")
  /\ UNCHANGED <<turn, grant, turns, planIds, handled, lost, stopped>>

\* The plan read at the top, a batch further on, replaces the stored one.
writeProgress(l) ==
  /\ loop[l].op = "progress"
  /\ plan' = Advanced(loop[l].read)
  /\ At(l, "top")
  /\ UNCHANGED <<turn, grant, turns, planIds, handled, lost, stopped>>

\* Mutant: the failed batch is counted as done.
pauseAfterFailureAdvanced(l) ==
  /\ loop[l].op \in {"generate", "posted", "progress"}
  /\ plan' = [Advanced(loop[l].read) EXCEPT !.status = "paused"]
  /\ Quits(l)
  /\ UNCHANGED <<turn, grant, turns, planIds, handled, lost, stopped>>

\* Anything thrown after the top: the plan read there is written back as paused.
pauseAfterFailure(l) ==
  /\ loop[l].op \in {"generate", "posted", "progress"}
  /\ plan' = [loop[l].read EXCEPT !.status = "paused"]
  /\ Quits(l)
  /\ UNCHANGED <<turn, grant, turns, planIds, handled, lost, stopped>>

-----------------------------------------------------------------------------
(* Restart *)

\* The process dies with its loops and requests; at boot a running plan is taken up again
\* under its own id.
resumeInterruptedZyraChatPlans ==
  /\ Take
  /\ lost' = lost \cup UNION {Batch(turn[k].read) : k \in {j \in Turn : turn[j].op = "first_batch"}}
  /\ turn' = [k \in Turn |-> NoTurn]
  /\ loop' = [l \in Loop |-> IF plan.status = "running" /\ \A j \in Loop : l <= j
                             THEN [NoLoop EXCEPT !.op = "top", !.id = plan.id] ELSE NoLoop]
  /\ UNCHANGED <<plan, grant, planIds, handled, stopped>>

ZyraChatNext ==
  \/ sendZyraChatMessage \/ stopZyraChatPlan \/ askResume \/ resumeInterruptedZyraChatPlans
  \/ \E what \in {"key", "generation"} : updateZyraGrant(what)
  \/ \E k \in Turn : supersedePlan(k) \/ buildZyraChatDecision(k) \/ startZyraChatPlan(k)
                     \/ writeFirstBatch(k) \/ failFirstBatch(k) \/ pausePlan(k)
                     \/ resumeZyraChatPlan(k) \/ restartPlan(k)
  \/ \E l \in Loop : readPlan(l) \/ clearZyraChatPlan(l) \/ generateBatch(l) \/ recheckPlan(l)
                     \/ writeProgress(l) \/ pauseAfterFailure(l)

ZyraChatSpec == ZyraChatInit /\ [][ZyraChatNext]_zcVars

-----------------------------------------------------------------------------
(* Properties *)

\* Whatever stops, resumptions, failures, new messages and restarts overtook the loop, a
\* scenario the stored plan no longer lists was carried out: by a loop, or by the message that
\* planned it, which may still be at it or have failed at it.
NothingSkipped ==
  \A i \in 1..plan.total :
    \/ \E j \in DOMAIN plan.rest : plan.rest[j] = i
    \/ <<plan.msg, i>> \in handled \cup lost
    \/ \E k \in Turn : turn[k].op = "first_batch" /\ <<plan.msg, i>> \in Batch(turn[k].read)

\* The counts the user is told add up.
CountsAgree == plan.done + Len(plan.rest) = plan.total

\* A plan that says it is running has a loop at work on it: it cannot stall silently.
RunningPlanIsWorkedOn ==
  plan.status = "running" => \E l \in Loop : loop[l].op /= "idle" /\ loop[l].id = plan.id

\* What resumeInterruptedZyraChatPlans, the pause on failure and the fresh plan ids are for.
PlanSound == NothingSkipped /\ CountsAgree /\ RunningPlanIsWorkedOn

\* stopZyraChatPlan's comment: a batch in flight finishes, but the loop checks active_plan
\* before starting the next one, so a stopped plan starts no batch until it is resumed.
StopHolds == [][\A l \in Loop : (loop[l].op = "top" /\ loop'[l].op = "generate") => ~stopped]_zcVars
=============================================================================
