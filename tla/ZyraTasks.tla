------------------------------ MODULE ZyraTasks ------------------------------
(***************************************************************************)
(* Zyra's generation tasks (LegacyService, ai_generation_requests): a task  *)
(* is queued, picked up by a fire-and-forget job, reviewed, regenerated on  *)
(* feedback, saved as test cases or closed.                                 *)
(*                                                                         *)
(* A draft is known by the claim (the n-th queueing of its task) it was     *)
(* generated for.  The provider may fail; the process may die with all its  *)
(* jobs and requests.  A query is one step; a provider call is a gap.       *)
(***************************************************************************)
EXTENDS Naturals, Sequences, FiniteSets, SequencesExt

CONSTANTS
  Task,        \* ids of ai_generation_requests rows
  Worker,      \* jobs and requests that may be in flight at once
  MaxDrafts,   \* drafts a generation returns at most
  MaxClicks    \* requests ever made

ASSUME ZyraTasksConstants ==
  /\ Task \subseteq Nat \ {0} /\ Worker \subseteq Nat \ {0}
  /\ MaxDrafts \in Nat \ {0} /\ MaxClicks \in Nat

VARIABLES
  task,       \* ai_generation_requests, with the number of its claims
  worker,     \* the jobs and the requests in flight
  keyOn,      \* an active AI key is allocated to the project
  generateOn, \* the project's generation capability
  clicks,     \* requests made so far
  settledBy,  \* history: the tasks a person has closed or saved
  orphaned,   \* history: the tasks whose job died with the process
  rewritten   \* history: the tasks whose drafts a deletion wrote back from an old reading

ztVars == <<task, worker, keyOn, generateOn, clicks, settledBy, orphaned, rewritten>>

NoTask == [status |-> "none", claim |-> 0, drafts |-> <<>>, ticket |-> FALSE, linked |-> 0, saved |-> 0]
Resting == [op |-> "idle", t |-> 0, status |-> "none", claim |-> 0, drafts |-> <<>>, linked |-> 0]

ZyraTasksInit ==
  /\ task = [t \in Task |-> NoTask]
  /\ worker = [w \in Worker |-> Resting]
  /\ keyOn = TRUE /\ generateOn = TRUE /\ clicks = 0
  /\ settledBy = {} /\ orphaned = {} /\ rewritten = {}

NextTask == {t \in Task : task[t].status = "none" /\ \A k \in Task : k < t => task[k].status /= "none"}
IdleWorker == {w \in Worker : worker[w].op = "idle" /\ \A v \in Worker : v < w => worker[v].op /= "idle"}
Click == clicks < MaxClicks /\ clicks' = clicks + 1
Employ(w, op, t) ==
  worker' = [worker EXCEPT ![w] = [op |-> op, t |-> t, status |-> task[t].status, claim |-> task[t].claim,
                                   drafts |-> task[t].drafts, linked |-> task[t].linked]]
Release(w) == worker' = [worker EXCEPT ![w] = Resting]

\* What the provider returns for a claim: at least one usable draft, or the call throws.
generateZyraWithProvider(claim) == {[i \in 1..n |-> claim] : n \in 1..MaxDrafts}

\* The project's key is allocated or withdrawn, its generation capability switched.
allocateAiKey ==
  /\ Click /\ keyOn' = ~keyOn
  /\ UNCHANGED <<task, worker, generateOn, settledBy, orphaned, rewritten>>
updateZyraSettings ==
  /\ Click /\ generateOn' = ~generateOn
  /\ UNCHANGED <<task, worker, keyOn, settledBy, orphaned, rewritten>>

-----------------------------------------------------------------------------
(* The first generation *)

\* The row is queued and its job started, without waiting for it.
aiGenerate ==
  /\ Click /\ keyOn /\ generateOn
  /\ \E t \in NextTask, w \in IdleWorker, ticket \in BOOLEAN :
       /\ task' = [task EXCEPT ![t] = [NoTask EXCEPT !.status = "todo", !.claim = 1, !.ticket = ticket]]
       /\ worker' = [worker EXCEPT ![w] = [Resting EXCEPT !.op = "pick_up", !.t = t, !.claim = 1]]
  /\ UNCHANGED <<keyOn, generateOn, settledBy, orphaned, rewritten>>

\* A failure is recorded only where the task is still queued or running.
markZyraTaskFailed(t) ==
  IF task[t].status \in {"todo", "in_progress"} THEN [task EXCEPT ![t].status = "failed"] ELSE task

\* The job's first part: no key fails the task; otherwise it is taken from 'todo', if still there.
pickUpZyraTask(w) ==
  LET t == worker[w].t IN
  /\ worker[w].op = "pick_up"
  /\ IF ~keyOn THEN task' = markZyraTaskFailed(t) /\ Release(w)
     ELSE IF task[t].status /= "todo" THEN task' = task /\ Release(w)
     ELSE /\ task' = [task EXCEPT ![t].status = "in_progress"]
          /\ worker' = [worker EXCEPT ![w].op = "generate"]
  /\ UNCHANGED <<keyOn, generateOn, clicks, settledBy, orphaned, rewritten>>

\* The provider's drafts go to review if the task still waits in the state that this
\* generation left it in, and are dropped otherwise.
Delivers(t, from, drafts) ==
  IF task[t].status = from THEN [task EXCEPT ![t].status = "in_review", ![t].drafts = drafts] ELSE task
processZyraTask(w) ==
  LET t == worker[w].t IN
  /\ worker[w].op = "generate"
  /\ \/ \E drafts \in generateZyraWithProvider(worker[w].claim) : task' = Delivers(t, "in_progress", drafts)
     \/ task' = markZyraTaskFailed(t)
  /\ rewritten' = IF task'[t].status = "in_review" THEN rewritten \ {t} ELSE rewritten
  /\ Release(w)
  /\ UNCHANGED <<keyOn, generateOn, clicks, settledBy, orphaned>>

-----------------------------------------------------------------------------
(* Review *)

\* Mutant: feedback is taken whatever the task is doing.
zyraFeedbackAnyTime(t) ==
  /\ Click /\ task[t].status /= "none" /\ keyOn
  /\ \E w \in IdleWorker : Employ(w, "claim", t)
  /\ UNCHANGED <<task, keyOn, generateOn, settledBy, orphaned, rewritten>>

\* Feedback is taken where there is something to review or to retry.
zyraFeedback(t) ==
  /\ Click /\ task[t].status \in {"in_review", "failed"} /\ keyOn
  /\ \E w \in IdleWorker : Employ(w, "claim", t)
  /\ UNCHANGED <<task, keyOn, generateOn, settledBy, orphaned, rewritten>>

\* The claim: back to 'todo', if the status is still the one read.
claimZyraFeedback(w) ==
  LET t == worker[w].t IN
  /\ worker[w].op = "claim"
  /\ IF task[t].status /= worker[w].status THEN task' = task /\ Release(w)
     ELSE /\ task' = [task EXCEPT ![t].status = "todo", ![t].claim = @ + 1]
          /\ worker' = [worker EXCEPT ![w].op = "regenerate", ![w].claim = task[t].claim + 1]
  /\ UNCHANGED <<keyOn, generateOn, clicks, settledBy, orphaned, rewritten>>

regenerateZyraTask(w) ==
  LET t == worker[w].t IN
  /\ worker[w].op = "regenerate"
  /\ \/ \E drafts \in generateZyraWithProvider(worker[w].claim) : task' = Delivers(t, "todo", drafts)
     \/ task' = markZyraTaskFailed(t)
  /\ rewritten' = IF task'[t].status = "in_review" THEN rewritten \ {t} ELSE rewritten
  /\ Release(w)
  /\ UNCHANGED <<keyOn, generateOn, clicks, settledBy, orphaned>>

\* A draft is removed from the list that was read, and the list written back, whatever the
\* task has become.
zyraDeleteDraft(t) ==
  /\ Click /\ task[t].drafts /= <<>>
  /\ \E w \in IdleWorker : Employ(w, "delete_draft", t)
  /\ UNCHANGED <<task, keyOn, generateOn, settledBy, orphaned, rewritten>>
WriteDrafts(w) ==
  LET t == worker[w].t IN
  /\ worker[w].op = "delete_draft"
  /\ \E i \in DOMAIN worker[w].drafts : task' = [task EXCEPT ![t].drafts = RemoveAt(worker[w].drafts, i)]
  /\ rewritten' = IF task[t].drafts /= worker[w].drafts THEN rewritten \cup {t} ELSE rewritten
  /\ Release(w)
  /\ UNCHANGED <<keyOn, generateOn, clicks, settledBy, orphaned>>

\* One guarded update, from any status.
zyraCloseTask(t) ==
  /\ Click /\ task[t].status \notin {"none", "done"}
  /\ task' = [task EXCEPT ![t].status = "done"]
  /\ settledBy' = settledBy \cup {t}
  /\ UNCHANGED <<worker, keyOn, generateOn, orphaned, rewritten>>

\* Saving is refused only while the first generation runs; drafts and linked test cases are
\* read here.
zyraSave(t) ==
  /\ Click /\ task[t].status \notin {"none", "in_progress"}
  /\ \E w \in IdleWorker : Employ(w, "save", t)
  /\ UNCHANGED <<task, keyOn, generateOn, settledBy, orphaned, rewritten>>

\* The drafts selected, in order, update the test cases already linked to the ticket and
\* create the rest; then aiSave settles the task, whatever its status.
Linked(t, seen, n) ==
  IF task[t].ticket /\ n > seen THEN task[t].linked + (n - seen) ELSE task[t].linked
aiSave(w) ==
  LET t == worker[w].t IN
  /\ worker[w].op = "save"
  /\ \E n \in 0..Len(worker[w].drafts) :
       task' = [task EXCEPT ![t].linked = Linked(t, worker[w].linked, n), ![t].saved = @ + n,
                            ![t].status = "done"]
  /\ settledBy' = settledBy \cup {t}
  /\ Release(w)
  /\ UNCHANGED <<keyOn, generateOn, clicks, orphaned, rewritten>>

-----------------------------------------------------------------------------
(* The process dies *)

\* Nothing picks a task up again at boot.
ZyraProcessDies ==
  /\ \E w \in Worker : worker[w].op /= "idle"
  /\ orphaned' = orphaned \cup
       {worker[w].t : w \in {v \in Worker : worker[v].op \in {"pick_up", "generate", "regenerate"}}}
  /\ worker' = [w \in Worker |-> Resting]
  /\ UNCHANGED <<task, keyOn, generateOn, clicks, settledBy, rewritten>>

ZyraTasksNext ==
  \/ allocateAiKey \/ updateZyraSettings \/ aiGenerate \/ ZyraProcessDies
  \/ \E w \in Worker : pickUpZyraTask(w) \/ processZyraTask(w) \/ claimZyraFeedback(w)
                       \/ regenerateZyraTask(w) \/ WriteDrafts(w) \/ aiSave(w)
  \/ \E t \in Task : zyraFeedback(t) \/ zyraDeleteDraft(t) \/ zyraCloseTask(t) \/ zyraSave(t)

ZyraTasksSpec == ZyraTasksInit /\ [][ZyraTasksNext]_ztVars

-----------------------------------------------------------------------------
(* Properties *)

\* What a person settled stays settled: no late generation, failure or claim reopens it.
SettledStaysDone == \A t \in settledBy : task[t].status = "done"

\* A task under review shows the drafts of its latest claim, never those of a generation that
\* was overtaken; only the deletion of a draft that straddles a regeneration undoes that.
ReviewShowsLatest ==
  \A t \in Task \ rewritten :
    task[t].status = "in_review" => \A i \in DOMAIN task[t].drafts : task[t].drafts[i] = task[t].claim

\* A task that is queued or running has exactly one generation that will answer for it, unless
\* that one died with the process.
OneGenerationAnswers ==
  \A t \in Task \ orphaned :
    task[t].status \in {"todo", "in_progress"} =>
      Cardinality({w \in Worker : worker[w].t = t /\ worker[w].claim = task[t].claim
                                  /\ worker[w].op \in {"pick_up", "generate", "regenerate"}}) = 1

\* The promises the comments of processZyraTask, markZyraTaskFailed and zyraFeedback make
\* about a task that a job and its reviewers write at the same time.
TasksSound == SettledStaysDone /\ ReviewShowsLatest /\ OneGenerationAnswers
=============================================================================
