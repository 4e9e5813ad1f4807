----------------------------- MODULE AgentProofs ----------------------------
(***************************************************************************)
(* Proofs about ZyraTasks, ZyraChat, ZyraTurn and the KnowledgeBase, for   *)
(* any number of tasks, workers, requests, loops, scenarios, drafts,       *)
(* operations, folders, documents, files and comments.                     *)
(*   TasksInv  the properties of the tasks, with who is at work on which   *)
(*             claim and in which status the task waits for it;            *)
(*   PlanInv   the properties of the stored plan, kept also by every       *)
(*             reading of it that may yet be written back.                 *)
(*   TurnInv   every operation of a chat turn that was to write a row is    *)
(*             done, missed or still to do, until its count is blurred;    *)
(*   KnowledgeInv  what hangs where in the Knowledge Base, and what each   *)
(*             request in flight may still rely on.                        *)
(***************************************************************************)
EXTENDS ZyraTasks, ZyraChat, ZyraTurn, KnowledgeBase, FiniteSetTheorems, SequenceTheorems, WellFoundedInduction, TLAPS

Status    == {"none", "todo", "in_progress", "in_review", "failed", "done"}
Answering == {"pick_up", "generate", "regenerate"}

TaskRow   == [status : Status, claim : Nat, drafts : Seq(Nat), ticket : BOOLEAN, linked : Nat, saved : Nat]
WorkerRow == [op : {"idle", "claim", "delete_draft", "save"} \cup Answering, t : Task \cup {0},
              status : Status, claim : Nat, drafts : Seq(Nat), linked : Nat]

TasksType ==
  /\ task \in [Task -> TaskRow]
  /\ worker \in [Worker -> WorkerRow]
  /\ keyOn \in BOOLEAN /\ generateOn \in BOOLEAN /\ clicks \in Nat
  /\ settledBy \subseteq Task

\* Whoever is at work is so on a task that exists; feedback was asked for a task to review or
\* to retry.
AtWorkOnTasks ==
  \A w \in Worker :
    /\ worker[w].op /= "idle" => worker[w].t \in Task /\ task[worker[w].t].status /= "none"
    /\ worker[w].op = "claim" => worker[w].status \in {"in_review", "failed"}

\* A generation at work is for the task's latest claim, and finds the task in the status that it
\* waits in, or settled meanwhile.
AnswersLatestClaim ==
  \A w \in Worker : worker[w].op \in Answering =>
    /\ worker[w].claim = task[worker[w].t].claim
    /\ \/ task[worker[w].t].status = "done"
       \/ worker[w].op \in {"pick_up", "regenerate"} /\ task[worker[w].t].status = "todo"
       \/ worker[w].op = "generate" /\ task[worker[w].t].status = "in_progress"

OneAnswerer ==
  \A v, w \in Worker :
    worker[v].op \in Answering /\ worker[w].op \in Answering /\ worker[v].t = worker[w].t => v = w

SomeAnswerer ==
  \A t \in Task \ orphaned : task[t].status \in {"todo", "in_progress"} =>
    \E w \in Worker : worker[w].op \in Answering /\ worker[w].t = t

\* A task that was never queued has no drafts.
Undrafted == \A t \in Task : task[t].status = "none" => task[t].drafts = <<>>

TasksInv == /\ TasksType /\ AtWorkOnTasks /\ AnswersLatestClaim /\ OneAnswerer /\ SomeAnswerer
            /\ SettledStaysDone /\ ReviewShowsLatest /\ Undrafted

-----------------------------------------------------------------------------
(* ZyraTasks *)

LEMMA PositionAfter ==
  \A m, n, i, j \in Nat : n = i - 1 /\ j <= n + (m - i) /\ ~(j <= n) => j - n \in 1..(m - i) /\ i + (j - n) \in 1..m
  OBVIOUS

\* Removing one draft of a list leaves drafts of that list.
LEMMA RemoveAtKeeps ==
  ASSUME NEW s \in Seq(Nat), NEW i \in DOMAIN s
  PROVE  /\ RemoveAt(s, i) \in Seq(Nat)
         /\ \A j \in DOMAIN RemoveAt(s, i) : \E k \in DOMAIN s : RemoveAt(s, i)[j] = s[k]
<1> DEFINE a == SubSeq(s, 1, i - 1)
           b == SubSeq(s, i + 1, Len(s))
<1>1. i \in 1..Len(s) /\ Len(s) \in Nat
  OBVIOUS
<1>2. a \in Seq(Nat) /\ Len(a) = i - 1 /\ \A j \in 1..(i - 1) : a[j] = s[j]
  BY <1>1
<1>3. b \in Seq(Nat) /\ Len(b) = Len(s) - i /\ \A j \in 1..(Len(s) - i) : b[j] = s[i + j]
  BY <1>1, SMTT(60)
<1> DEFINE c == a \o b
<1>4. RemoveAt(s, i) = c
  BY DEF RemoveAt
<1> HIDE DEF a, b
<1>5. /\ c \in Seq(Nat) /\ Len(c) = Len(a) + Len(b)
      /\ \A j \in 1..(Len(a) + Len(b)) : c[j] = IF j <= Len(a) THEN a[j] ELSE b[j - Len(a)]
  BY <1>2, <1>3, ConcatProperties
<1> HIDE DEF c
<1>6. DOMAIN c = 1..Len(c) /\ DOMAIN s = 1..Len(s)
  BY <1>5
<1>7. ASSUME NEW j \in 1..Len(c) PROVE \E k \in 1..Len(s) : c[j] = s[k]
  <2> DEFINE m == Len(s)
             n == Len(a)
  <2>0. m \in Nat /\ n \in Nat /\ i \in 1..m /\ n = i - 1 /\ Len(b) = m - i
    BY <1>1, <1>2, <1>3
  <2>1. j \in 1..(n + Len(b)) /\ c[j] = IF j <= n THEN a[j] ELSE b[j - n]
    BY <1>5
  <2>2. \A k \in 1..n : a[k] = s[k]
    BY <1>2, <2>0
  <2>3. \A k \in 1..(m - i) : b[k] = s[i + k]
    BY <1>3
  <2> HIDE DEF m, n
  <2>4. CASE j <= n
    <3>1. j \in 1..n /\ j \in 1..m
      BY <2>0, <2>1, <2>4, SMTT(60)
    <3> QED
      BY <2>1, <2>2, <2>4, <3>1 DEF m
  <2>5. CASE ~(j <= n)
    <3>1. j - n \in 1..(m - i) /\ i + (j - n) \in 1..m
      <4>1. j \in Nat /\ j <= n + (m - i) /\ i \in Nat
        <5>1. j \in 1..(n + (m - i))
          BY <2>0, <2>1
        <5>2. i \in Nat
          BY <2>0
        <5>3. j \in Nat /\ j <= n + (m - i)
          <6>1. (n + (m - i)) \in Int
            BY <2>0
          <6> QED
            BY <5>1, <6>1
        <5> QED
          BY <5>2, <5>3
      <4>2. m \in Nat /\ n \in Nat /\ n = i - 1
        BY <2>0
      <4> QED
        BY <2>5, <4>1, <4>2, PositionAfter, Zenon
    <3>2. c[j] = s[i + (j - n)]
      BY <2>1, <2>3, <2>5, <3>1
    <3> QED
      BY <3>1, <3>2 DEF m
  <2> QED
    BY <2>4, <2>5
<1> QED
  BY <1>4, <1>5, <1>6, <1>7

LEMMA InitTasks == ZyraTasksInit => TasksInv
<1> SUFFICES ASSUME ZyraTasksInit PROVE TasksInv
  OBVIOUS
<1> USE DEF ZyraTasksInit
<1>1. NoTask \in TaskRow /\ NoTask.status = "none"
  BY DEF NoTask, TaskRow, Status
<1>0. NoTask.drafts = <<>>
  BY DEF NoTask
<1>2. Resting \in WorkerRow /\ Resting.op = "idle"
  BY DEF Resting, WorkerRow, Status
<1> QED
  BY <1>0, <1>1, <1>2 DEF TasksInv, TasksType, AtWorkOnTasks, AnswersLatestClaim, OneAnswerer, SomeAnswerer,
       SettledStaysDone, ReviewShowsLatest, Undrafted, Answering

\* The shapes that the steps have: a row of the task and a row of a worker change.

\* A request is taken up: the task stays as it is.
LEMMA EmployKeeps ==
  ASSUME TasksInv, NEW w \in IdleWorker, NEW t \in Task, NEW op \in {"claim", "delete_draft", "save"},
         Employ(w, op, t), task[t].status /= "none", op = "claim" => task[t].status \in {"in_review", "failed"},
         Click, UNCHANGED <<task, keyOn, generateOn, settledBy, orphaned, rewritten>>
  PROVE  TasksInv'
<1> DEFINE q == [op |-> op, t |-> t, status |-> task[t].status, claim |-> task[t].claim,
                 drafts |-> task[t].drafts, linked |-> task[t].linked]
<1>1. w \in Worker /\ worker[w].op = "idle"
  BY DEF IdleWorker
<1>2. worker' = [worker EXCEPT ![w] = q]
  BY DEF Employ
<1>3. q \in WorkerRow /\ q.op = op /\ q.t = t /\ q.status = task[t].status
  <2>1. task[t] \in TaskRow
    BY DEF TasksInv, TasksType
  <2> QED
    BY <2>1 DEF TaskRow, WorkerRow, Status
<1> HIDE DEF q
<1>4. TasksType'
  BY <1>1, <1>2, <1>3 DEF TasksInv, TasksType, Click
<1>5. \A v \in Worker : v /= w => worker'[v] = worker[v]
  BY <1>2
<1>6. worker'[w] = q
  BY <1>1, <1>2 DEF TasksInv, TasksType
<1>7. \A v \in Worker : worker'[v].op \in Answering => v /= w
  BY <1>3, <1>6 DEF Answering
<1>8. AtWorkOnTasks'
  BY <1>3, <1>5, <1>6 DEF TasksInv, AtWorkOnTasks
<1>9. AnswersLatestClaim' /\ OneAnswerer' 
  BY <1>5, <1>7 DEF TasksInv, AnswersLatestClaim, OneAnswerer
<1>10. SomeAnswerer'
  <2>1. \A v \in Worker : worker[v].op \in Answering => v /= w
    BY <1>1 DEF Answering
  <2> QED
    BY <1>5, <2>1 DEF TasksInv, SomeAnswerer
<1>11. SettledStaysDone' /\ ReviewShowsLatest' /\ Undrafted'
  BY DEF TasksInv, SettledStaysDone, ReviewShowsLatest, Undrafted
<1> QED
  BY <1>4, <1>8, <1>9, <1>10, <1>11 DEF TasksInv

\* A worker leaves, and its task's row is r from now on.
Leaves(w, t, r) ==
  /\ worker[w].op /= "idle" /\ t = worker[w].t
  /\ task' = [task EXCEPT ![t] = r] /\ Release(w)
  /\ r.claim = task[t].claim /\ r.status /= "none"
  /\ worker[w].op \in Answering => r.status \notin {"todo", "in_progress"}
  /\ r.status = task[t].status \/ r.status = "done" \/ worker[w].op \in Answering
  /\ task[t].status = "done" => r.status = "done"
  /\ settledBy' = settledBy \/ (settledBy' = settledBy \cup {t} /\ r.status = "done")
  /\ \A k \in Task : k /= t /\ k \notin rewritten' => k \notin rewritten
  /\ t \notin rewritten' /\ r.status = "in_review" => \A i \in DOMAIN r.drafts : r.drafts[i] = r.claim
  /\ UNCHANGED <<keyOn, generateOn, clicks, orphaned>>

LEMMA ReleaseKeeps ==
  ASSUME TasksInv, NEW w \in Worker, NEW t \in Task, NEW r \in TaskRow, Leaves(w, t, r)
  PROVE  TasksInv'
<1> USE DEF Leaves
<1>1. Resting \in WorkerRow /\ Resting.op = "idle"
  BY DEF Resting, WorkerRow, Status
<1>2. worker' = [worker EXCEPT ![w] = Resting]
  BY DEF Release
<1>3. TasksType'
  BY <1>1, <1>2 DEF TasksInv, TasksType
<1>4. \A v \in Worker : v /= w => worker'[v] = worker[v]
  BY <1>2
<1>5. worker'[w].op = "idle"
  BY <1>1, <1>2 DEF TasksInv, TasksType
<1>6. task'[t] = r /\ \A k \in Task : k /= t => task'[k] = task[k]
  BY DEF TasksInv, TasksType
<1>7. AtWorkOnTasks'
  BY <1>4, <1>5, <1>6 DEF TasksInv, AtWorkOnTasks
<1>8. OneAnswerer'
  BY <1>4, <1>5 DEF TasksInv, OneAnswerer, Answering
<1>9. \A v \in Worker : worker'[v].op \in Answering /\ worker'[v].t = t => worker[w].op \notin Answering
  BY <1>4, <1>5 DEF TasksInv, OneAnswerer, Answering
<1>10. AnswersLatestClaim'
  <2> SUFFICES ASSUME NEW v \in Worker, worker'[v].op \in Answering
               PROVE  /\ worker'[v].claim = task'[worker'[v].t].claim
                      /\ \/ task'[worker'[v].t].status = "done"
                         \/ worker'[v].op \in {"pick_up", "regenerate"} /\ task'[worker'[v].t].status = "todo"
                         \/ worker'[v].op = "generate" /\ task'[worker'[v].t].status = "in_progress"
    BY DEF AnswersLatestClaim
  <2>1. v /= w /\ worker'[v] = worker[v] /\ worker[v].t \in Task
    BY <1>4, <1>5 DEF TasksInv, AtWorkOnTasks, Answering
  <2>2. CASE worker[v].t /= t
    BY <1>6, <2>1, <2>2 DEF TasksInv, AnswersLatestClaim
  <2>3. CASE worker[v].t = t
    BY <1>6, <1>9, <2>1, <2>3 DEF TasksInv, AnswersLatestClaim
  <2> QED
    BY <2>2, <2>3
<1>11. SomeAnswerer'
  <2> SUFFICES ASSUME NEW k \in Task \ orphaned, task'[k].status \in {"todo", "in_progress"}
               PROVE  \E v \in Worker : worker'[v].op \in Answering /\ worker'[v].t = k
    BY DEF SomeAnswerer
  <2>1. task[k].status = task'[k].status /\ (worker[w].op \in Answering => k /= t)
    BY <1>6
  <2>2. PICK v \in Worker : worker[v].op \in Answering /\ worker[v].t = k
    BY <2>1 DEF TasksInv, SomeAnswerer
  <2> QED
    BY <1>4, <2>1, <2>2
<1>12. SettledStaysDone'
  BY <1>6 DEF TasksInv, TasksType, SettledStaysDone
<1>13. ReviewShowsLatest'
  BY <1>6 DEF TasksInv, ReviewShowsLatest
<1>14. Undrafted'
  BY <1>6 DEF TasksInv, Undrafted
<1> QED
  BY <1>3, <1>7, <1>8, <1>10, <1>11, <1>12, <1>13, <1>14 DEF TasksInv

\* Changing the status of a task, or its status and drafts.
LEMMA StatusRow ==
  ASSUME NEW t \in Task, task[t] \in TaskRow, NEW s \in Status
  PROVE  LET r == [task[t] EXCEPT !.status = s]
         IN r \in TaskRow /\ r.status = s /\ r.claim = task[t].claim /\ r.drafts = task[t].drafts
  BY DEF TaskRow

LEMMA DraftsRow ==
  ASSUME NEW t \in Task, task[t] \in TaskRow, NEW s \in Status, NEW d \in Seq(Nat)
  PROVE  LET r == [task[t] EXCEPT !.status = s, !.drafts = d]
         IN r \in TaskRow /\ r.status = s /\ r.claim = task[t].claim /\ r.drafts = d
  BY DEF TaskRow

\* A generation's last step: its drafts go to review, or its failure is recorded, where the task
\* waits for it.
LEMMA AnswerKeeps ==
  ASSUME TasksInv, NEW w \in Worker, NEW t \in Task, t = worker[w].t, NEW from,
         \/ worker[w].op = "generate" /\ from = "in_progress"
         \/ worker[w].op = "regenerate" /\ from = "todo",
         \/ \E drafts \in generateZyraWithProvider(worker[w].claim) : task' = Delivers(t, from, drafts)
         \/ task' = markZyraTaskFailed(t),
         rewritten' = (IF task'[t].status = "in_review" THEN rewritten \ {t} ELSE rewritten), Release(w),
         UNCHANGED <<keyOn, generateOn, clicks, settledBy, orphaned>>
  PROVE  TasksInv'
<1>1. task[t] \in TaskRow /\ task = [task EXCEPT ![t] = task[t]]
  BY DEF TasksInv, TasksType
<1>2. worker[w].claim = task[t].claim /\ task[t].status \in {from, "done"} /\ worker[w].claim \in Nat
  BY DEF TasksInv, TasksType, AnswersLatestClaim, Answering, WorkerRow
<1>3. CASE task[t].status = "done"
  <2>1. task' = task
    BY <1>3 DEF Delivers, markZyraTaskFailed
  <2> DEFINE r == task[t]
  <2>2. r \in TaskRow /\ r.status = "done" /\ r.claim = task[t].claim /\ task' = [task EXCEPT ![t] = r]
    BY <1>1, <1>3, <2>1
  <2> HIDE DEF r
  <2>3. Leaves(w, t, r)
    BY <1>3, <2>2 DEF Leaves, Answering
  <2> QED
    BY <1>3, <2>2, <2>3, ReleaseKeeps
<1>4. CASE task[t].status = from /\ task' = markZyraTaskFailed(t)
  <2> DEFINE r == [task[t] EXCEPT !.status = "failed"]
  <2>1. r \in TaskRow /\ r.status = "failed" /\ r.claim = task[t].claim
    BY <1>1, StatusRow DEF Status
  <2>2. task' = [task EXCEPT ![t] = r]
    BY <1>4 DEF markZyraTaskFailed
  <2> HIDE DEF r
  <2>3. Leaves(w, t, r)
    BY <1>4, <2>1, <2>2 DEF Leaves, Answering
  <2> QED
    BY <1>4, <2>1, <2>2, <2>3, ReleaseKeeps
<1>5. CASE task[t].status = from /\ \E drafts \in generateZyraWithProvider(worker[w].claim) : task' = Delivers(t, from, drafts)
  <2>1. PICK n \in 1..MaxDrafts : task' = Delivers(t, from, [i \in 1..n |-> worker[w].claim])
    BY <1>5 DEF generateZyraWithProvider
  <2> DEFINE d == [i \in 1..n |-> worker[w].claim]
             r == [task[t] EXCEPT !.status = "in_review", !.drafts = d]
  <2>2. d \in Seq(Nat) /\ \A i \in DOMAIN d : d[i] = task[t].claim
    BY <1>2, ZyraTasksConstants, SMTT(60)
  <2>3. task' = [task EXCEPT ![t] = r]
    BY <1>5, <2>1 DEF Delivers
  <2> HIDE DEF d
  <2>4. r \in TaskRow /\ r.status = "in_review" /\ r.claim = task[t].claim /\ r.drafts = d
    BY <1>1, <2>2, DraftsRow, ZenonT(60) DEF Status
  <2> HIDE DEF r
  <2>5. Leaves(w, t, r)
    BY <1>5, <2>2, <2>3, <2>4 DEF Leaves, Answering
  <2> QED
    BY <1>5, <2>2, <2>3, <2>4, <2>5, ReleaseKeeps
<1> QED
  BY <1>2, <1>3, <1>4, <1>5

\* The steps.
LEMMA AskingKeeps ==
  ASSUME TasksInv, NEW t \in Task, zyraFeedback(t) \/ zyraDeleteDraft(t) \/ zyraSave(t)
  PROVE  TasksInv'
<1>1. CASE zyraFeedback(t)
  BY <1>1, EmployKeeps DEF zyraFeedback
<1>2. CASE zyraDeleteDraft(t)
  BY <1>2, EmployKeeps DEF zyraDeleteDraft, TasksInv, Undrafted
<1>3. CASE zyraSave(t)
  BY <1>3, EmployKeeps DEF zyraSave
<1> QED
  BY <1>1, <1>2, <1>3

\* A worker goes on to a provider call: it answers for its task's claim from here on.
TakesUp(w, t, r, q) ==
  /\ task' = [task EXCEPT ![t] = r] /\ worker' = [worker EXCEPT ![w] = q]
  /\ q.t = t /\ q.claim = r.claim
  /\ \/ q.op = "generate" /\ r.status = "in_progress"
     \/ q.op \in {"pick_up", "regenerate"} /\ r.status = "todo"
  /\ \A v \in Worker \ {w} : worker[v].op \in Answering => worker[v].t /= t
  /\ worker[w].op \in Answering => worker[w].t = t
  /\ t \notin settledBy
  /\ clicks' \in Nat /\ UNCHANGED <<keyOn, generateOn, settledBy, orphaned, rewritten>>

LEMMA GenerateKeeps ==
  ASSUME TasksInv, NEW w \in Worker, NEW t \in Task, NEW r \in TaskRow, NEW q \in WorkerRow, TakesUp(w, t, r, q)
  PROVE  TasksInv'
<1> USE DEF TakesUp
<1>1. TasksType'
  BY DEF TasksInv, TasksType
<1>2. \A v \in Worker : v /= w => worker'[v] = worker[v]
  OBVIOUS
<1>3. worker'[w] = q /\ q.op \in Answering
  BY DEF TasksInv, TasksType, Answering
<1>4. task'[t] = r /\ \A k \in Task : k /= t => task'[k] = task[k]
  BY DEF TasksInv, TasksType
<1>5. AtWorkOnTasks'
  BY <1>2, <1>3, <1>4 DEF TasksInv, AtWorkOnTasks
<1>6. OneAnswerer'
  BY <1>2, <1>3 DEF TasksInv, OneAnswerer
<1>7. AnswersLatestClaim'
  <2> SUFFICES ASSUME NEW v \in Worker, worker'[v].op \in Answering
               PROVE  /\ worker'[v].claim = task'[worker'[v].t].claim
                      /\ \/ task'[worker'[v].t].status = "done"
                         \/ worker'[v].op \in {"pick_up", "regenerate"} /\ task'[worker'[v].t].status = "todo"
                         \/ worker'[v].op = "generate" /\ task'[worker'[v].t].status = "in_progress"
    BY DEF AnswersLatestClaim
  <2>1. CASE v = w
    BY <1>3, <1>4, <2>1
  <2>2. CASE v /= w
    <3>1. worker'[v] = worker[v] /\ worker[v].t \in Task /\ worker[v].t /= t
      BY <1>2, <2>2 DEF TasksInv, AtWorkOnTasks, Answering
    <3> QED
      BY <1>4, <3>1 DEF TasksInv, AnswersLatestClaim
  <2> QED
    BY <2>1, <2>2
<1>8. SomeAnswerer'
  <2> SUFFICES ASSUME NEW k \in Task \ orphaned, task'[k].status \in {"todo", "in_progress"}
               PROVE  \E v \in Worker : worker'[v].op \in Answering /\ worker'[v].t = k
    BY DEF SomeAnswerer
  <2>1. CASE k = t
    BY <1>3, <2>1
  <2>2. CASE k /= t
    <3>1. PICK v \in Worker : worker[v].op \in Answering /\ worker[v].t = k
      BY <1>4, <2>2 DEF TasksInv, SomeAnswerer
    <3> QED
      BY <1>2, <2>2, <3>1
  <2> QED
    BY <2>1, <2>2
<1>9. SettledStaysDone'
  BY <1>4 DEF TasksInv, TasksType, SettledStaysDone
<1>10. ReviewShowsLatest'
  BY <1>4 DEF TasksInv, ReviewShowsLatest
<1>11. Undrafted'
  BY <1>4 DEF TasksInv, Undrafted
<1> QED
  BY <1>1, <1>5, <1>6, <1>7, <1>8, <1>9, <1>10, <1>11 DEF TasksInv

LEMMA aiGenerateKeeps ==
  ASSUME TasksInv, aiGenerate
  PROVE  TasksInv'
<1>1. PICK t \in NextTask, w \in IdleWorker, ticket \in BOOLEAN :
           /\ task' = [task EXCEPT ![t] = [NoTask EXCEPT !.status = "todo", !.claim = 1, !.ticket = ticket]]
           /\ worker' = [worker EXCEPT ![w] = [Resting EXCEPT !.op = "pick_up", !.t = t, !.claim = 1]]
  BY DEF aiGenerate
<1>2. t \in Task /\ task[t].status = "none" /\ w \in Worker /\ worker[w].op = "idle"
  BY DEF NextTask, IdleWorker
<1> DEFINE r == [NoTask EXCEPT !.status = "todo", !.claim = 1, !.ticket = ticket]
           q == [Resting EXCEPT !.op = "pick_up", !.t = t, !.claim = 1]
<1>3. r \in TaskRow /\ r.status = "todo" /\ r.claim = 1
  <2>1. NoTask \in TaskRow
    BY DEF NoTask, TaskRow, Status
  <2> QED
    BY <2>1 DEF TaskRow, Status
<1>4. q \in WorkerRow /\ q.op = "pick_up" /\ q.t = t /\ q.claim = 1
  <2>1. Resting \in WorkerRow
    BY DEF Resting, WorkerRow, Status
  <2> QED
    BY <1>2, <2>1 DEF WorkerRow, Answering
<1>5. task' = [task EXCEPT ![t] = r] /\ worker' = [worker EXCEPT ![w] = q]
  BY <1>1
<1> HIDE DEF r, q
<1>6. t \notin settledBy
  BY <1>2 DEF TasksInv, SettledStaysDone
<1>7. \A v \in Worker : worker[v].op \in Answering => worker[v].t /= t
  BY <1>2 DEF TasksInv, AtWorkOnTasks, Answering
<1>8. worker[w].op \notin Answering
  BY <1>2 DEF Answering
<1>9. clicks' \in Nat /\ UNCHANGED <<keyOn, generateOn, settledBy, orphaned, rewritten>>
  BY DEF aiGenerate, Click, TasksInv, TasksType
<1>10. TakesUp(w, t, r, q)
  BY <1>2, <1>3, <1>4, <1>5, <1>6, <1>7, <1>8, <1>9 DEF TakesUp
<1> QED
  BY <1>2, <1>3, <1>4, <1>5, <1>6, <1>7, <1>8, <1>9, <1>10, GenerateKeeps

LEMMA pickUpZyraTaskKeeps ==
  ASSUME TasksInv, NEW w \in Worker, pickUpZyraTask(w)
  PROVE  TasksInv'
<1> DEFINE t == worker[w].t
<1>1. worker[w].op = "pick_up" /\ t \in Task /\ task[t] \in TaskRow /\ worker[w] \in WorkerRow
  BY DEF pickUpZyraTask, TasksInv, TasksType, AtWorkOnTasks
<1>2. worker[w].claim = task[t].claim /\ task[t].status \in {"todo", "done"}
  BY <1>1 DEF TasksInv, AnswersLatestClaim, Answering
<1>3. UNCHANGED <<keyOn, generateOn, clicks, settledBy, orphaned, rewritten>>
  BY DEF pickUpZyraTask
<1>4. CASE task' = markZyraTaskFailed(t) /\ Release(w) /\ task[t].status = "todo"
  <2> DEFINE r == [task[t] EXCEPT !.status = "failed"]
  <2>1. r \in TaskRow /\ r.status = "failed" /\ r.claim = task[t].claim
    BY <1>1, StatusRow DEF Status
  <2>2. task' = [task EXCEPT ![t] = r]
    BY <1>4 DEF markZyraTaskFailed
  <2> HIDE DEF r
  <2>3. Leaves(w, t, r)
    BY <1>1, <1>3, <1>4, <2>1, <2>2 DEF Leaves, Answering
  <2> QED
    BY <1>1, <1>3, <1>4, <2>1, <2>2, <2>3, ReleaseKeeps
<1>5. CASE task' = task /\ Release(w) /\ task[t].status = "done"
  <2> DEFINE r == task[t]
  <2>1. r \in TaskRow /\ r.status = "done" /\ r.claim = task[t].claim /\ task' = [task EXCEPT ![t] = r]
    BY <1>1, <1>5 DEF TasksInv, TasksType
  <2> HIDE DEF r
  <2>2. Leaves(w, t, r)
    BY <1>1, <1>3, <1>5, <2>1 DEF Leaves, Answering
  <2> QED
    BY <1>1, <1>3, <1>5, <2>1, <2>2, ReleaseKeeps
<1>6. CASE /\ task[t].status = "todo" /\ task' = [task EXCEPT ![t].status = "in_progress"]
           /\ worker' = [worker EXCEPT ![w].op = "generate"]
  <2> DEFINE r == [task[t] EXCEPT !.status = "in_progress"]
             q == [worker[w] EXCEPT !.op = "generate"]
  <2>1. r \in TaskRow /\ r.status = "in_progress" /\ r.claim = task[t].claim
    BY <1>1, StatusRow DEF Status
  <2>2. q \in WorkerRow /\ q.op = "generate" /\ q.t = t /\ q.claim = worker[w].claim
    BY <1>1 DEF WorkerRow, Answering
  <2>3. task' = [task EXCEPT ![t] = r] /\ worker' = [worker EXCEPT ![w] = q]
    BY <1>6
  <2> HIDE DEF r, q
  <2>4. \A v \in Worker \ {w} : worker[v].op \in Answering => worker[v].t /= t
    BY <1>1 DEF TasksInv, OneAnswerer, Answering
  <2>5. t \notin settledBy
    BY <1>6 DEF TasksInv, SettledStaysDone
  <2>6. clicks' \in Nat
    BY <1>3 DEF TasksInv, TasksType
  <2> HIDE DEF t
  <2>7. worker[w].t = t
    BY DEF t
  <2>8. TakesUp(w, t, r, q)
    BY <1>1, <1>2, <1>3, <2>1, <2>2, <2>3, <2>4, <2>5, <2>6, <2>7 DEF TakesUp
  <2> QED
    BY <1>1, <1>2, <1>3, <2>1, <2>2, <2>3, <2>4, <2>5, <2>6, <2>7, <2>8, GenerateKeeps
<1>7. task[t].status = "done" => markZyraTaskFailed(t) = task
  BY DEF markZyraTaskFailed
<1> QED
  BY <1>2, <1>4, <1>5, <1>6, <1>7 DEF pickUpZyraTask

LEMMA claimZyraFeedbackKeeps ==
  ASSUME TasksInv, NEW w \in Worker, claimZyraFeedback(w)
  PROVE  TasksInv'
<1> DEFINE t == worker[w].t
<1>1. /\ worker[w].op = "claim" /\ t \in Task /\ task[t] \in TaskRow /\ worker[w] \in WorkerRow
      /\ worker[w].status \in {"in_review", "failed"} /\ task[t].status /= "none"
  BY DEF claimZyraFeedback, TasksInv, TasksType, AtWorkOnTasks
<1>2. UNCHANGED <<keyOn, generateOn, clicks, settledBy, orphaned, rewritten>>
  BY DEF claimZyraFeedback
<1>3. CASE task' = task /\ Release(w)
  <2> DEFINE r == task[t]
  <2>1. r \in TaskRow /\ r = task[t] /\ task' = [task EXCEPT ![t] = r]
    BY <1>1, <1>3 DEF TasksInv, TasksType
  <2>2. t \notin rewritten' /\ r.status = "in_review" => \A i \in DOMAIN r.drafts : r.drafts[i] = r.claim
    BY <1>1, <1>2 DEF TasksInv, ReviewShowsLatest
  <2> HIDE DEF r
  <2>3. Leaves(w, t, r)
    BY <1>1, <1>2, <1>3, <2>1, <2>2 DEF Leaves, Answering
  <2> QED
    BY <1>1, <1>2, <1>3, <2>1, <2>2, <2>3, ReleaseKeeps
<1>4. CASE /\ task[t].status = worker[w].status
           /\ task' = [task EXCEPT ![t].status = "todo", ![t].claim = @ + 1]
           /\ worker' = [worker EXCEPT ![w].op = "regenerate", ![w].claim = task[t].claim + 1]
  <2> DEFINE n == task[t].claim + 1
             r == [task[t] EXCEPT !.status = "todo", !.claim = n]
             q == [worker[w] EXCEPT !.op = "regenerate", !.claim = n]
  <2>1. n \in Nat
    BY <1>1 DEF TaskRow
  <2>2. task' = [task EXCEPT ![t] = r] /\ worker' = [worker EXCEPT ![w] = q]
    BY <1>1, <1>4 DEF TasksInv, TasksType, TaskRow, WorkerRow
  <2> HIDE DEF n
  <2>3. r \in TaskRow /\ r.status = "todo" /\ r.claim = n
    BY <1>1, <2>1 DEF TaskRow, Status
  <2>4. q \in WorkerRow /\ q.op = "regenerate" /\ q.t = t /\ q.claim = n
    BY <1>1, <2>1 DEF WorkerRow, Answering
  <2> HIDE DEF r, q
  <2>5. \A v \in Worker : worker[v].op \in Answering => worker[v].t /= t
    BY <1>1, <1>4 DEF TasksInv, AnswersLatestClaim
  <2>6. t \notin settledBy
    BY <1>1, <1>4 DEF TasksInv, SettledStaysDone
  <2>7. clicks' \in Nat
    BY <1>2 DEF TasksInv, TasksType
  <2>8. worker[w].op \notin Answering
    BY <1>1 DEF Answering
  <2> HIDE DEF t
  <2>9. TakesUp(w, t, r, q)
    BY <1>1, <1>2, <2>2, <2>3, <2>4, <2>5, <2>6, <2>7, <2>8 DEF TakesUp
  <2> QED
    BY <1>1, <1>2, <2>2, <2>3, <2>4, <2>5, <2>6, <2>7, <2>8, <2>9, GenerateKeeps
<1> QED
  BY <1>3, <1>4 DEF claimZyraFeedback

LEMMA WriteDraftsKeeps ==
  ASSUME TasksInv, NEW w \in Worker, WriteDrafts(w)
  PROVE  TasksInv'
<1> DEFINE t == worker[w].t
           s == worker[w].drafts
<1>1. /\ worker[w].op = "delete_draft" /\ t \in Task /\ task[t] \in TaskRow /\ worker[w] \in WorkerRow
      /\ task[t].status /= "none" /\ s \in Seq(Nat)
  BY DEF WriteDrafts, TasksInv, TasksType, AtWorkOnTasks, WorkerRow
<1>2. PICK i \in DOMAIN s : task' = [task EXCEPT ![t].drafts = RemoveAt(s, i)]
  BY DEF WriteDrafts
<1> DEFINE d == RemoveAt(s, i)
           r == [task[t] EXCEPT !.drafts = d]
<1>3. d \in Seq(Nat) /\ \A j \in DOMAIN d : \E k \in DOMAIN s : d[j] = s[k]
  BY <1>1, RemoveAtKeeps
<1>4. task' = [task EXCEPT ![t] = r]
  BY <1>2
<1>5. Release(w) /\ UNCHANGED <<keyOn, generateOn, clicks, settledBy, orphaned>>
  BY DEF WriteDrafts
<1> HIDE DEF d
<1>6. r \in TaskRow /\ r.status = task[t].status /\ r.claim = task[t].claim /\ r.drafts = d
  BY <1>1, <1>3 DEF TaskRow
<1> HIDE DEF r
<1>7. \A k \in Task : k /= t /\ k \notin rewritten' => k \notin rewritten
  BY DEF WriteDrafts
<1>8. ASSUME t \notin rewritten', r.status = "in_review" PROVE \A j \in DOMAIN r.drafts : r.drafts[j] = r.claim
  <2>1. task[t].drafts = s /\ t \notin rewritten
    BY <1>8 DEF WriteDrafts
  <2>2. \A k \in DOMAIN s : s[k] = task[t].claim
    BY <1>1, <1>6, <1>8, <2>1 DEF TasksInv, ReviewShowsLatest
  <2> QED
    BY <1>3, <1>6, <2>2
<1> HIDE DEF s
<1>9. Leaves(w, t, r)
  BY <1>1, <1>4, <1>5, <1>6, <1>7, <1>8 DEF Leaves, Answering
<1> QED
  BY <1>1, <1>4, <1>5, <1>6, <1>7, <1>8, <1>9, ReleaseKeeps

LEMMA aiSaveKeeps ==
  ASSUME TasksInv, NEW w \in Worker, aiSave(w)
  PROVE  TasksInv'
<1> DEFINE t == worker[w].t
<1>1. /\ worker[w].op = "save" /\ t \in Task /\ task[t] \in TaskRow /\ worker[w] \in WorkerRow
      /\ worker[w].drafts \in Seq(Nat) /\ worker[w].linked \in Nat
  BY SMTT(60) DEF aiSave, TasksInv, TasksType, AtWorkOnTasks, WorkerRow
<1>2. PICK n \in 0..Len(worker[w].drafts) :
           task' = [task EXCEPT ![t].linked = Linked(t, worker[w].linked, n), ![t].saved = @ + n, ![t].status = "done"]
  BY DEF aiSave
<1> DEFINE linked == Linked(t, worker[w].linked, n)
           saved  == task[t].saved + n
           r == [task[t] EXCEPT !.linked = linked, !.saved = saved, !.status = "done"]
<1>3. linked \in Nat /\ saved \in Nat
  <2>1. task[t].linked \in Nat /\ task[t].saved \in Nat /\ n \in Nat
    BY <1>1 DEF TaskRow
  <2>2. \/ linked = task[t].linked
        \/ n > worker[w].linked /\ linked = task[t].linked + (n - worker[w].linked)
    BY ZenonT(60) DEF Linked
  <2>3. \A a, b, c \in Nat : b > c => a + (b - c) \in Nat /\ a + b \in Nat
    OBVIOUS
  <2>4. saved \in Nat
    BY <1>1, <2>1, SMTT(60) DEF TaskRow
  <2> QED
    BY <1>1, <2>1, <2>2, <2>3, <2>4, SMTT(60)
<1>4. task' = [task EXCEPT ![t] = r]
  BY <1>1, <1>2 DEF TasksInv, TasksType, TaskRow
<1> HIDE DEF linked, saved
<1>5. r \in TaskRow /\ r.status = "done" /\ r.claim = task[t].claim
  BY <1>1, <1>3 DEF TaskRow, Status
<1> HIDE DEF r
<1>6. settledBy' = settledBy \cup {t} /\ Release(w) /\ UNCHANGED <<keyOn, generateOn, clicks, orphaned, rewritten>>
  BY DEF aiSave
<1>7. Leaves(w, t, r)
  BY <1>1, <1>4, <1>5, <1>6 DEF Leaves, Answering
<1> QED
  BY <1>1, <1>4, <1>5, <1>6, <1>7, ReleaseKeeps

LEMMA zyraCloseTaskKeeps ==
  ASSUME TasksInv, NEW t \in Task, zyraCloseTask(t)
  PROVE  TasksInv'
<1> DEFINE r == [task[t] EXCEPT !.status = "done"]
<1>1. r \in TaskRow /\ r.status = "done" /\ r.claim = task[t].claim
  <2>1. task[t] \in TaskRow
    BY DEF TasksInv, TasksType
  <2> QED
    BY <2>1, StatusRow DEF Status
<1>2. task' = [task EXCEPT ![t] = r]
  BY DEF zyraCloseTask
<1> HIDE DEF r
<1>3. task'[t] = r /\ \A k \in Task : k /= t => task'[k] = task[k]
  BY <1>2 DEF TasksInv, TasksType
<1>4. TasksType'
  BY <1>1, <1>2 DEF TasksInv, TasksType, zyraCloseTask, Click
<1>5. AtWorkOnTasks' /\ AnswersLatestClaim' /\ OneAnswerer' /\ SomeAnswerer'
  <2>1. AtWorkOnTasks' /\ OneAnswerer'
    BY <1>1, <1>3 DEF zyraCloseTask, TasksInv, AtWorkOnTasks, OneAnswerer
  <2>2. AnswersLatestClaim'
    <3>1. \A v \in Worker : worker[v].op \in Answering => worker[v].t \in Task
      BY DEF TasksInv, AtWorkOnTasks, Answering
    <3> QED
      BY <1>1, <1>3, <3>1 DEF zyraCloseTask, TasksInv, AnswersLatestClaim
  <2>3. SomeAnswerer'
    BY <1>1, <1>3 DEF zyraCloseTask, TasksInv, SomeAnswerer
  <2> QED
    BY <2>1, <2>2, <2>3
<1>6. SettledStaysDone' /\ ReviewShowsLatest' /\ Undrafted'
  BY <1>1, <1>3 DEF zyraCloseTask, TasksInv, TasksType, SettledStaysDone, ReviewShowsLatest, Undrafted
<1> QED
  BY <1>4, <1>5, <1>6 DEF TasksInv

LEMMA ZyraProcessDiesKeeps ==
  ASSUME TasksInv, ZyraProcessDies
  PROVE  TasksInv'
<1>1. worker' = [w \in Worker |-> Resting] /\ UNCHANGED <<task, keyOn, generateOn, clicks, settledBy, rewritten>>
  BY DEF ZyraProcessDies
<1>2. Resting \in WorkerRow /\ Resting.op = "idle"
  BY DEF Resting, WorkerRow, Status
<1>3. TasksType' /\ AtWorkOnTasks' /\ AnswersLatestClaim' /\ OneAnswerer'
  BY <1>1, <1>2 DEF TasksInv, TasksType, AtWorkOnTasks, AnswersLatestClaim, OneAnswerer, Answering
<1>4. SomeAnswerer'
  <2>1. \A w \in Worker : worker[w].op \in Answering => worker[w].t \in orphaned'
    BY DEF ZyraProcessDies, Answering
  <2>2. orphaned \subseteq orphaned'
    BY DEF ZyraProcessDies
  <2> QED
    BY <1>1, <2>1, <2>2 DEF TasksInv, SomeAnswerer
<1>5. SettledStaysDone' /\ ReviewShowsLatest' /\ Undrafted'
  BY <1>1 DEF TasksInv, SettledStaysDone, ReviewShowsLatest, Undrafted
<1> QED
  BY <1>3, <1>4, <1>5 DEF TasksInv

LEMMA SettingsKeep ==
  ASSUME TasksInv, allocateAiKey \/ updateZyraSettings
  PROVE  TasksInv'
<1>1. UNCHANGED <<task, worker, settledBy, orphaned, rewritten>>
  BY DEF allocateAiKey, updateZyraSettings
<1>2. TasksType'
  <2>1. keyOn' \in BOOLEAN /\ generateOn' \in BOOLEAN /\ clicks' \in Nat
    <3>1. CASE allocateAiKey
      BY <3>1 DEF TasksInv, TasksType, allocateAiKey, Click
    <3>2. CASE updateZyraSettings
      BY <3>2 DEF TasksInv, TasksType, updateZyraSettings, Click
    <3> QED
      BY <3>1, <3>2
  <2> QED
    BY <1>1, <2>1 DEF TasksInv, TasksType
<1> QED
  BY <1>1, <1>2 DEF TasksInv, AtWorkOnTasks, AnswersLatestClaim, OneAnswerer, SomeAnswerer,
       SettledStaysDone, ReviewShowsLatest, Undrafted

LEMMA NextTasks == TasksInv /\ [ZyraTasksNext]_ztVars => TasksInv'
<1> SUFFICES ASSUME TasksInv, [ZyraTasksNext]_ztVars PROVE TasksInv'
  OBVIOUS
<1>1. CASE UNCHANGED ztVars
  BY <1>1 DEF ztVars, TasksInv, TasksType, AtWorkOnTasks, AnswersLatestClaim, OneAnswerer, SomeAnswerer,
       SettledStaysDone, ReviewShowsLatest, Undrafted
<1>2. CASE ZyraTasksNext
  <2>1. CASE allocateAiKey \/ updateZyraSettings \/ aiGenerate \/ ZyraProcessDies
    BY <2>1, SettingsKeep, aiGenerateKeeps, ZyraProcessDiesKeeps
  <2>2. ASSUME NEW w \in Worker, pickUpZyraTask(w) \/ claimZyraFeedback(w) \/ WriteDrafts(w) \/ aiSave(w)
        PROVE  TasksInv'
    BY <2>2, pickUpZyraTaskKeeps, claimZyraFeedbackKeeps, WriteDraftsKeeps, aiSaveKeeps
  <2>3. ASSUME NEW w \in Worker, processZyraTask(w) PROVE TasksInv'
    <3>1. worker[w].op = "generate" /\ worker[w].t \in Task
      BY <2>3 DEF processZyraTask, TasksInv, AtWorkOnTasks
    <3> QED
      BY <2>3, <3>1, AnswerKeeps DEF processZyraTask
  <2>4. ASSUME NEW w \in Worker, regenerateZyraTask(w) PROVE TasksInv'
    <3>1. worker[w].op = "regenerate" /\ worker[w].t \in Task
      BY <2>4 DEF regenerateZyraTask, TasksInv, AtWorkOnTasks
    <3> QED
      BY <2>4, <3>1, AnswerKeeps DEF regenerateZyraTask
  <2>5. ASSUME NEW t \in Task, zyraFeedback(t) \/ zyraDeleteDraft(t) \/ zyraCloseTask(t) \/ zyraSave(t)
        PROVE  TasksInv'
    BY <2>5, AskingKeeps, zyraCloseTaskKeeps
  <2> QED
    BY <1>2, <2>1, <2>2, <2>3, <2>4, <2>5 DEF ZyraTasksNext
<1> QED
  BY <1>1, <1>2

LEMMA TasksInvSound == TasksInv => TasksSound
<1> SUFFICES ASSUME TasksInv PROVE OneGenerationAnswers
  BY DEF TasksInv, TasksSound
<1> SUFFICES ASSUME NEW t \in Task \ orphaned, task[t].status \in {"todo", "in_progress"}
             PROVE  Cardinality({w \in Worker : worker[w].t = t /\ worker[w].claim = task[t].claim
                                                /\ worker[w].op \in {"pick_up", "generate", "regenerate"}}) = 1
  BY DEF OneGenerationAnswers
<1>1. PICK w \in Worker : worker[w].op \in Answering /\ worker[w].t = t
  BY DEF TasksInv, SomeAnswerer
<1> DEFINE answering == {v \in Worker : worker[v].t = t /\ worker[v].claim = task[t].claim
                                        /\ worker[v].op \in {"pick_up", "generate", "regenerate"}}
<1>2. answering = {w}
  BY <1>1 DEF TasksInv, AnswersLatestClaim, OneAnswerer, Answering
<1> HIDE DEF answering
<1>3. Cardinality(answering) = 1
  BY <1>2, FS_Singleton
<1> QED
  BY <1>3 DEF answering

\* A task that a person closed or saved stays settled, one under review shows the drafts of its
\* latest claim unless a deletion of a draft straddled a regeneration, and one that is queued or
\* running has exactly one generation that will answer for it unless that one died with the
\* process (processZyraTask, zyraFeedback, zyraSave, markZyraTaskFailed): for any number of
\* tasks, workers, drafts and requests.
THEOREM TasksAreSound == ZyraTasksSpec => []TasksSound
  BY InitTasks, NextTasks, TasksInvSound, PTL DEF ZyraTasksSpec

-----------------------------------------------------------------------------
(* ZyraChat: what the plans that are read and written back promise *)

PlanRow == [id : Nat, status : {"none", "running", "paused"}, msg : Nat, rest : Seq(Nat), done : Nat, total : Nat]
LoopRow == [op : {"idle", "top", "generate", "posted", "progress"}, id : Nat, read : PlanRow]
TurnRow == [op : {"idle", "resume", "supersede", "decide", "first_batch", "stop", "restart"}, msg : Nat, read : PlanRow]

PlanType ==
  /\ plan \in PlanRow
  /\ loop \in [Loop -> LoopRow]
  /\ turn \in [Turn -> TurnRow]
  /\ turns \in Nat /\ planIds \in Nat

\* The scenarios that need no loop any more: carried out, lost with their message, or the
\* message's own.
Covered == handled \cup lost \cup UNION {Batch(turn[k].read) : k \in {j \in Turn : turn[j].op = "first_batch"}}

\* A plan that may be stored: it counts right and skips only scenarios of c.
Storable(p, c) ==
  /\ p.done + Len(p.rest) = p.total
  /\ \A i \in 1..p.total : (\E j \in DOMAIN p.rest : p.rest[j] = i) \/ <<p.msg, i>> \in c

ReadingsStorable == \A k \in Turn : turn[k].op /= "first_batch" => Storable(turn[k].read, Covered)

\* What a loop has read it may write back as it is, and one batch further on once that is posted.
LoopsStorable ==
  \A l \in Loop :
    /\ loop[l].op \in {"generate", "posted", "progress"} =>
         Storable(loop[l].read, Covered) /\ loop[l].read.id = loop[l].id
    /\ loop[l].op \in {"posted", "progress"} => Storable(Advanced(loop[l].read), Covered)

PlanInv == PlanType /\ Storable(plan, Covered) /\ ReadingsStorable /\ LoopsStorable /\ RunningPlanIsWorkedOn

LEMMA StorableGrows ==
  ASSUME NEW p, NEW c, NEW d, Storable(p, c), c \subseteq d
  PROVE  Storable(p, d)
  BY DEF Storable

LEMMA StorableAgain ==
  ASSUME NEW p \in PlanRow, NEW c, Storable(p, c), NEW i \in Nat, NEW s \in {"running", "paused"}
  PROVE  /\ [p EXCEPT !.status = s] \in PlanRow /\ Storable([p EXCEPT !.status = s], c)
         /\ [p EXCEPT !.status = s].status = s
         /\ [p EXCEPT !.id = i, !.status = s] \in PlanRow /\ Storable([p EXCEPT !.id = i, !.status = s], c)
         /\ [p EXCEPT !.id = i, !.status = s].id = i
<1>1. /\ [p EXCEPT !.status = s] \in PlanRow /\ [p EXCEPT !.status = s].status = s
      /\ [p EXCEPT !.status = s].rest = p.rest /\ [p EXCEPT !.status = s].done = p.done
      /\ [p EXCEPT !.status = s].total = p.total /\ [p EXCEPT !.status = s].msg = p.msg
  BY DEF PlanRow
<1>2. /\ [p EXCEPT !.id = i, !.status = s] \in PlanRow /\ [p EXCEPT !.id = i, !.status = s].id = i
      /\ [p EXCEPT !.id = i, !.status = s].rest = p.rest /\ [p EXCEPT !.id = i, !.status = s].done = p.done
      /\ [p EXCEPT !.id = i, !.status = s].total = p.total /\ [p EXCEPT !.id = i, !.status = s].msg = p.msg
  BY DEF PlanRow
<1> DEFINE q == [p EXCEPT !.status = s]
           r == [p EXCEPT !.id = i, !.status = s]
<1> HIDE DEF q, r
<1>3. Storable(q, c) /\ Storable(r, c)
  BY <1>1, <1>2 DEF Storable, q, r
<1> QED
  BY <1>1, <1>2, <1>3 DEF q, r

LEMMA NoPlanStorable == NoPlan \in PlanRow /\ NoPlan.status = "none" /\ \A c : Storable(NoPlan, c)
  BY DEF NoPlan, PlanRow, Storable

LEMMA UptoBounds ==
  ASSUME NEW p \in PlanRow
  PROVE  Upto(p) \in Nat /\ Upto(p) <= Len(p.rest) /\ Len(p.rest) \in Nat
  BY ZyraChatConstants DEF Upto, PlanRow

\* The rest of a plan a batch further on is what follows the batch.
LEMMA RestAfterBatch ==
  ASSUME NEW p \in PlanRow
  PROVE  LET u == Upto(p)
             s == SubSeq(p.rest, u + 1, Len(p.rest))
         IN /\ s \in Seq(Nat) /\ Len(s) = Len(p.rest) - u
            /\ \A j \in 1..(Len(p.rest) - u) : s[j] = p.rest[u + j]
<1> DEFINE m == Len(p.rest)
           u == Upto(p)
           r == p.rest
           s == SubSeq(r, u + 1, m)
<1>1. m \in Nat /\ u \in Nat /\ u <= m /\ r \in Seq(Nat) /\ \A j \in 1..m : r[j] \in Nat
  <2>1. r \in Seq(Nat)
    BY DEF PlanRow
  <2> QED
    BY <2>1, UptoBounds, ElementOfSeq
<1>2. m = Len(r)
  OBVIOUS
<1> HIDE DEF m, u, r
<1>3. \A j \in (u + 1)..m : r[j] \in Nat
  BY <1>1
<1>4. /\ s \in Seq(Nat) /\ Len(s) = IF u + 1 <= m THEN m - (u + 1) + 1 ELSE 0
      /\ \A j \in 1..(m - (u + 1) + 1) : s[j] = r[(u + 1) + j - 1]
  BY <1>1, <1>3, SubSeqProperties
<1> HIDE DEF s
<1>5. Len(s) = m - u /\ m - (u + 1) + 1 = m - u
  BY <1>1, <1>4
<1>6. \A j \in 1..(m - u) : (u + 1) + j - 1 = u + j
  BY <1>1
<1>7. \A j \in 1..(m - u) : s[j] = r[u + j]
  BY <1>4, <1>5, <1>6
<1> QED
  BY <1>4, <1>5, <1>7 DEF s, m, u, r

LEMMA AdvancedStorable ==
  ASSUME NEW p \in PlanRow, NEW c, Storable(p, c), Batch(p) \subseteq c
  PROVE  Advanced(p) \in PlanRow /\ Storable(Advanced(p), c) /\ Advanced(p).id = p.id /\ Advanced(p).status = p.status
<1> DEFINE u == Upto(p)
           m == Len(p.rest)
           s == SubSeq(p.rest, u + 1, m)
           d == p.done + u
           q == [p EXCEPT !.rest = s, !.done = d]
<1>1. u \in Nat /\ u <= m /\ m \in Nat
  BY UptoBounds
<1>2. s \in Seq(Nat) /\ Len(s) = m - u /\ \A j \in 1..(m - u) : s[j] = p.rest[u + j]
  BY RestAfterBatch
<1>3. d \in Nat /\ d + (m - u) = p.done + m
  <2>1. p.done \in Nat
    BY DEF PlanRow
  <2> QED
    BY <1>1, <2>1
<1>4. Advanced(p) = q
  BY DEF Advanced
<1>5. DOMAIN p.rest = 1..m
  BY DEF PlanRow
<1>6. \A j \in 1..u : <<p.msg, p.rest[j]>> \in c
  BY DEF Batch
<1> HIDE DEF u, s, d, m
<1>7. /\ q \in PlanRow /\ q.rest = s /\ q.done = d /\ q.msg = p.msg /\ q.total = p.total
      /\ q.id = p.id /\ q.status = p.status
  BY <1>2, <1>3 DEF PlanRow
<1> HIDE DEF q
<1>8. q.done + Len(q.rest) = q.total
  BY <1>2, <1>3, <1>7 DEF Storable, m
<1>9. ASSUME NEW i \in 1..p.total PROVE (\E j \in DOMAIN s : s[j] = i) \/ <<p.msg, i>> \in c
  <2>1. CASE <<p.msg, i>> \in c
    BY <2>1
  <2>2. ASSUME NEW j \in 1..m, p.rest[j] = i PROVE (\E k \in DOMAIN s : s[k] = i) \/ <<p.msg, i>> \in c
    <3>1. CASE j <= u
      BY <1>1, <1>6, <2>2, <3>1
    <3>2. CASE ~(j <= u)
      <4>1. j - u \in 1..(m - u) /\ u + (j - u) = j
        BY <1>1, <3>2
      <4>2. DOMAIN s = 1..(m - u)
        BY <1>2
      <4> QED
        BY <1>2, <2>2, <4>1, <4>2
    <3> QED
      BY <3>1, <3>2
  <2> QED
    BY <1>5, <2>1, <2>2 DEF Storable
<1> QED
  BY <1>4, <1>7, <1>8, <1>9 DEF Storable

\* While a request's own batch stays its own, or is carried out or lost, nothing is uncovered.
LEMMA StillCovered ==
  ASSUME PlanType, NEW k \in Turn, NEW r, turn' = [turn EXCEPT ![k] = r],
         turn[k].op /= "first_batch" \/ Batch(turn[k].read) \subseteq handled' \cup lost',
         handled \subseteq handled', lost \subseteq lost'
  PROVE  Covered \subseteq Covered'
<1> SUFFICES ASSUME NEW x \in Covered PROVE x \in Covered'
  OBVIOUS
<1>1. CASE x \in handled \cup lost
  BY <1>1 DEF Covered
<1>2. CASE \E j \in Turn : turn[j].op = "first_batch" /\ x \in Batch(turn[j].read)
  <2>1. PICK j \in Turn : turn[j].op = "first_batch" /\ x \in Batch(turn[j].read)
    BY <1>2
  <2>2. CASE j = k
    BY <2>1, <2>2 DEF Covered
  <2>3. CASE j /= k
    <3>1. turn'[j] = turn[j]
      BY <2>3 DEF PlanType
    <3>2. x \in Batch(turn'[j].read) /\ turn'[j].op = "first_batch"
      BY <2>1, <3>1 DEF Batch, Upto
    <3> QED
      BY <3>2 DEF Covered, Batch, Upto
  <2> QED
    BY <2>2, <2>3
<1> QED
  BY <1>1, <1>2 DEF Covered

LEMMA SameCover ==
  ASSUME UNCHANGED turn, handled \subseteq handled', lost \subseteq lost'
  PROVE  Covered \subseteq Covered'
  BY DEF Covered, Batch, Upto

\* The plan's properties follow.
LEMMA PlanInvSound == PlanInv => PlanSound
<1> SUFFICES ASSUME PlanInv PROVE NothingSkipped /\ CountsAgree
  BY DEF PlanInv, PlanSound
<1>1. CountsAgree
  BY DEF PlanInv, Storable, CountsAgree
<1>2. NothingSkipped
  <2> SUFFICES ASSUME NEW i \in 1..plan.total
               PROVE  \/ \E j \in DOMAIN plan.rest : plan.rest[j] = i
                      \/ <<plan.msg, i>> \in handled \cup lost
                      \/ \E k \in Turn : turn[k].op = "first_batch" /\ <<plan.msg, i>> \in Batch(turn[k].read)
    BY DEF NothingSkipped
  <2> QED
    BY DEF PlanInv, Storable, Covered
<1> QED
  BY <1>1, <1>2

LEMMA InitPlan == ZyraChatInit => PlanInv
<1> SUFFICES ASSUME ZyraChatInit PROVE PlanInv
  OBVIOUS
<1> USE DEF ZyraChatInit
<1>1. NoLoop \in LoopRow /\ NoLoop.op = "idle"
  BY NoPlanStorable DEF NoLoop, LoopRow
<1>2. NoTurn \in TurnRow /\ NoTurn.op = "idle" /\ NoTurn.read = NoPlan
  BY NoPlanStorable DEF NoTurn, TurnRow
<1>3. PlanType
  BY <1>1, <1>2, NoPlanStorable DEF PlanType
<1>4. ReadingsStorable
  BY <1>2, NoPlanStorable DEF ReadingsStorable
<1>5. LoopsStorable
  BY <1>1 DEF LoopsStorable
<1>6. RunningPlanIsWorkedOn
  BY NoPlanStorable DEF RunningPlanIsWorkedOn
<1> QED
  BY <1>3, <1>4, <1>5, <1>6, NoPlanStorable DEF PlanInv

-----------------------------------------------------------------------------
(* ZyraChat: the steps *)

\* A request's step: its row is r from now on, and a loop may start.
LoopAsks(k, r) ==
  /\ turn' = [turn EXCEPT ![k] = r]
  /\ turn[k].op /= "first_batch" \/ Batch(turn[k].read) \subseteq handled' \cup lost'
  /\ handled \subseteq handled' /\ lost \subseteq lost'
  /\ r.op = "first_batch" \/ Storable(r.read, Covered')
  /\ plan' \in PlanRow /\ Storable(plan', Covered')
  /\ loop' \in [Loop -> LoopRow] /\ \A l \in Loop : loop'[l] = loop[l] \/ loop'[l].op = "top"
  /\ turns' \in Nat /\ planIds' \in Nat
  /\ RunningPlanIsWorkedOn'

LEMMA RequestKeeps ==
  ASSUME PlanInv, NEW k \in Turn, NEW r \in TurnRow, LoopAsks(k, r)
  PROVE  PlanInv'
<1>1. PlanType'
  BY DEF PlanInv, PlanType, LoopAsks
<1>2. Covered \subseteq Covered'
  BY StillCovered DEF PlanInv, LoopAsks
<1>3. ReadingsStorable'
  <2> SUFFICES ASSUME NEW j \in Turn, turn'[j].op /= "first_batch" PROVE Storable(turn'[j].read, Covered')
    BY DEF ReadingsStorable
  <2>1. CASE j = k
    BY <2>1 DEF LoopAsks, PlanInv, PlanType
  <2>2. CASE j /= k
    <3>1. turn'[j] = turn[j]
      BY <2>2 DEF LoopAsks
    <3>2. Storable(turn[j].read, Covered)
      BY <3>1 DEF PlanInv, ReadingsStorable
    <3> QED
      BY <1>2, <3>1, <3>2, StorableGrows
  <2> QED
    BY <2>1, <2>2
<1>4. LoopsStorable'
  <2> SUFFICES ASSUME NEW l \in Loop
               PROVE  /\ loop'[l].op \in {"generate", "posted", "progress"} =>
                           Storable(loop'[l].read, Covered') /\ loop'[l].read.id = loop'[l].id
                      /\ loop'[l].op \in {"posted", "progress"} => Storable(Advanced(loop'[l].read), Covered')
    BY DEF LoopsStorable, Advanced, Upto
  <2>1. CASE loop'[l].op = "top"
    BY <2>1
  <2>2. CASE loop'[l] = loop[l]
    BY <1>2, <2>2, StorableGrows DEF PlanInv, LoopsStorable
  <2> QED
    BY <2>1, <2>2, SMTT(60) DEF LoopAsks
<1> QED
  BY <1>1, <1>3, <1>4 DEF PlanInv, LoopAsks

\* A loop's step: its row is q from now on.
Loops(l, q) ==
  /\ loop' = [loop EXCEPT ![l] = q] /\ turn' = turn
  /\ handled \subseteq handled' /\ lost \subseteq lost'
  /\ q.op \in {"generate", "posted", "progress"} => Storable(q.read, Covered') /\ q.read.id = q.id
  /\ q.op \in {"posted", "progress"} => Storable(Advanced(q.read), Covered')
  /\ plan' \in PlanRow /\ Storable(plan', Covered')
  /\ turns' = turns /\ planIds' = planIds
  /\ RunningPlanIsWorkedOn'

LEMMA LoopKeeps ==
  ASSUME PlanInv, NEW l \in Loop, NEW q \in LoopRow, Loops(l, q)
  PROVE  PlanInv'
<1>1. PlanType'
  BY DEF PlanInv, PlanType, Loops
<1>2. Covered \subseteq Covered'
  BY SameCover DEF Loops
<1>3. ReadingsStorable'
  <2> SUFFICES ASSUME NEW j \in Turn, turn'[j].op /= "first_batch" PROVE Storable(turn'[j].read, Covered')
    BY DEF ReadingsStorable
  <2>1. turn'[j] = turn[j]
    BY DEF Loops
  <2>2. Storable(turn[j].read, Covered)
    BY <2>1 DEF PlanInv, ReadingsStorable
  <2> QED
    BY <1>2, <2>1, <2>2, StorableGrows
<1>4. LoopsStorable'
  <2> SUFFICES ASSUME NEW j \in Loop
               PROVE  /\ loop'[j].op \in {"generate", "posted", "progress"} =>
                           Storable(loop'[j].read, Covered') /\ loop'[j].read.id = loop'[j].id
                      /\ loop'[j].op \in {"posted", "progress"} => Storable(Advanced(loop'[j].read), Covered')
    BY DEF LoopsStorable, Advanced, Upto
  <2>1. CASE j = l
    <3>1. loop'[j] = q
      BY <2>1 DEF Loops, PlanInv, PlanType
    <3> QED
      BY <3>1 DEF Loops
  <2>2. CASE j /= l
    <3>1. loop'[j] = loop[j]
      BY <2>2 DEF Loops
    <3> QED
      BY <1>2, <3>1, StorableGrows DEF PlanInv, LoopsStorable
  <2> QED
    BY <2>1, <2>2, SMTT(60)
<1> QED
  BY <1>1, <1>3, <1>4 DEF PlanInv, Loops

\* What does not touch the stored plan leaves it storable and worked on.
LEMMA PlanStays ==
  ASSUME PlanInv, UNCHANGED <<plan, loop>>, Covered \subseteq Covered'
  PROVE  plan' \in PlanRow /\ Storable(plan', Covered') /\ loop' \in [Loop -> LoopRow] /\ RunningPlanIsWorkedOn'
  BY StorableGrows DEF PlanInv, PlanType, RunningPlanIsWorkedOn

\* The requests that only read the plan, or end.
LEMMA ReadingKeeps ==
  ASSUME PlanInv, NEW k \in Turn, NEW r \in TurnRow, turn[k].op /= "first_batch",
         turn' = [turn EXCEPT ![k] = r], r.read \in {plan, NoPlan, turn[k].read}, r.op /= "first_batch",
         turns' \in Nat, UNCHANGED <<plan, loop, planIds, handled, lost>>
  PROVE  PlanInv'
<1>1. Covered \subseteq Covered'
  BY StillCovered DEF PlanInv
<1>2. Storable(r.read, Covered')
  <2>1. Storable(plan, Covered) /\ Storable(NoPlan, Covered) /\ Storable(turn[k].read, Covered)
    BY NoPlanStorable DEF PlanInv, ReadingsStorable
  <2>2. Storable(r.read, Covered)
    BY <2>1
  <2> QED
    BY <1>1, <2>2, StorableGrows
<1>3. LoopAsks(k, r)
  <2>1. planIds' \in Nat
    BY DEF PlanInv, PlanType
  <2> QED
    BY <1>1, <1>2, <2>1, PlanStays DEF LoopAsks
<1> QED
  BY <1>3, RequestKeeps

LEMMA NoTurnRow == NoTurn \in TurnRow /\ NoTurn.op = "idle" /\ NoTurn.read = NoPlan
  BY NoPlanStorable DEF NoTurn, TurnRow

LEMMA NoLoopRow == NoLoop \in LoopRow /\ NoLoop.op = "idle"
  BY NoPlanStorable DEF NoLoop, LoopRow

LEMMA OpensKeeps ==
  ASSUME PlanInv, NEW k \in IdleTurn, NEW op \in {"resume", "supersede", "decide", "stop"}, Take, Opens(k, op),
         UNCHANGED <<plan, loop, planIds, handled, lost>>
  PROVE  PlanInv'
<1> DEFINE r == [op |-> op, msg |-> turns + 1, read |-> plan]
<1>1. k \in Turn /\ turn[k].op = "idle"
  BY DEF IdleTurn
<1>2. r \in TurnRow /\ r.read = plan /\ r.op = op
  <2>1. turns + 1 \in Nat
    BY DEF PlanInv, PlanType
  <2> QED
    BY <2>1 DEF PlanInv, PlanType, TurnRow
<1>3. turn' = [turn EXCEPT ![k] = r]
  BY DEF Opens
<1>4. turns' \in Nat
  BY DEF Take, PlanInv, PlanType
<1> HIDE DEF r
<1> QED
  BY <1>1, <1>2, <1>3, <1>4, ReadingKeeps

LEMMA AskKeeps ==
  ASSUME PlanInv, sendZyraChatMessage \/ stopZyraChatPlan \/ askResume
  PROVE  PlanInv'
<1>1. CASE sendZyraChatMessage
  <2>1. PICK k \in IdleTurn, resumeIntent \in BOOLEAN :
             Opens(k, IF plan.status = "paused" /\ resumeIntent THEN "resume"
                      ELSE IF plan /= NoPlan THEN "supersede" ELSE "decide")
    BY <1>1 DEF sendZyraChatMessage
  <2>2. PICK op \in {"resume", "supersede", "decide", "stop"} : Opens(k, op)
    BY <2>1
  <2> QED
    BY <1>1, <2>2, OpensKeeps DEF sendZyraChatMessage
<1>2. CASE stopZyraChatPlan
  BY <1>2, OpensKeeps DEF stopZyraChatPlan
<1>3. CASE askResume
  BY <1>3, OpensKeeps DEF askResume
<1> QED
  BY <1>1, <1>2, <1>3

LEMMA supersedePlanKeeps ==
  ASSUME PlanInv, NEW k \in Turn, supersedePlan(k)
  PROVE  PlanInv'
<1> DEFINE r == [turn[k] EXCEPT !.op = "decide"]
<1>1. turn[k] \in TurnRow /\ turn[k].op = "supersede"
  BY DEF PlanInv, PlanType, supersedePlan
<1>2. r \in TurnRow /\ r.read = turn[k].read /\ r.op = "decide"
  BY <1>1 DEF TurnRow
<1>3. turn' = [turn EXCEPT ![k] = r] /\ plan' = NoPlan /\ UNCHANGED <<loop, turns, planIds, handled, lost>>
  BY DEF supersedePlan
<1> HIDE DEF r
<1>4. Covered \subseteq Covered'
  BY <1>1, <1>3, StillCovered DEF PlanInv
<1>5. Storable(r.read, Covered')
  BY <1>1, <1>2, <1>4, StorableGrows DEF PlanInv, ReadingsStorable
<1>6. plan' \in PlanRow /\ Storable(plan', Covered') /\ RunningPlanIsWorkedOn'
  BY <1>3, NoPlanStorable DEF RunningPlanIsWorkedOn
<1>7. LoopAsks(k, r)
  BY <1>1, <1>3, <1>5, <1>6 DEF LoopAsks, PlanInv, PlanType
<1> QED
  BY <1>2, <1>7, RequestKeeps

LEMMA buildZyraChatDecisionKeeps ==
  ASSUME PlanInv, NEW k \in Turn, buildZyraChatDecision(k)
  PROVE  PlanInv'
<1>1. turn[k].op = "decide" /\ turn' = [turn EXCEPT ![k] = NoTurn] /\ UNCHANGED <<plan, loop, turns, planIds, handled, lost>>
  BY DEF buildZyraChatDecision, Ends
<1>2. turns' \in Nat
  BY <1>1 DEF PlanInv, PlanType
<1> QED
  BY <1>1, <1>2, NoTurnRow, ReadingKeeps

LEMMA resumeZyraChatPlanKeeps ==
  ASSUME PlanInv, NEW k \in Turn, resumeZyraChatPlan(k)
  PROVE  PlanInv'
<1> DEFINE op == IF plan.status = "paused" THEN "restart" ELSE "idle"
           r == [turn[k] EXCEPT !.op = op, !.read = plan]
<1>1. turn[k] \in TurnRow /\ turn[k].op = "resume" /\ plan \in PlanRow
  BY DEF PlanInv, PlanType, resumeZyraChatPlan
<1>2. r \in TurnRow /\ r.read = plan /\ r.op /= "first_batch"
  BY <1>1 DEF TurnRow
<1>3. turn' = [turn EXCEPT ![k] = r] /\ UNCHANGED <<plan, loop, turns, planIds, handled, lost>>
  BY DEF resumeZyraChatPlan
<1> HIDE DEF r
<1>4. turns' \in Nat
  BY <1>3 DEF PlanInv, PlanType
<1> QED
  BY <1>1, <1>2, <1>3, <1>4, ReadingKeeps

\* A loop that starts is at work on the plan it was started for.
LEMMA SpawnWorks ==
  ASSUME PlanInv, NEW id \in Nat, Spawn(id), plan'.id = id
  PROVE  /\ loop' \in [Loop -> LoopRow] /\ \A l \in Loop : loop'[l] = loop[l] \/ loop'[l].op = "top"
         /\ RunningPlanIsWorkedOn'
<1> DEFINE q == [NoLoop EXCEPT !.op = "top", !.id = id]
<1>1. q \in LoopRow /\ q.op = "top" /\ q.id = id
  BY NoLoopRow DEF LoopRow
<1>2. PICK l \in IdleLoop : loop' = [loop EXCEPT ![l] = q]
  BY DEF Spawn
<1> HIDE DEF q
<1>3. l \in Loop
  BY DEF IdleLoop
<1> QED
  BY <1>1, <1>2, <1>3 DEF PlanInv, PlanType, RunningPlanIsWorkedOn

LEMMA pausePlanKeeps ==
  ASSUME PlanInv, NEW k \in Turn, pausePlan(k)
  PROVE  PlanInv'
<1> DEFINE p == [turn[k].read EXCEPT !.status = "paused"]
<1>1. turn[k].op = "stop" /\ turn[k].read \in PlanRow /\ Storable(turn[k].read, Covered)
  BY DEF pausePlan, PlanInv, PlanType, ReadingsStorable, TurnRow
<1>2. /\ turn' = [turn EXCEPT ![k] = NoTurn] /\ plan' = p /\ UNCHANGED <<loop, turns, planIds, handled, lost>>
  BY SMTT(60) DEF pausePlan, Ends
<1>3. p \in PlanRow /\ p.status = "paused" /\ Storable(p, Covered)
  BY <1>1, StorableAgain
<1> HIDE DEF p
<1>4. Covered \subseteq Covered'
  BY <1>1, <1>2, StillCovered DEF PlanInv
<1>5. Storable(p, Covered') /\ RunningPlanIsWorkedOn'
  BY <1>2, <1>3, <1>4, StorableGrows DEF RunningPlanIsWorkedOn
<1>6. LoopAsks(k, NoTurn)
  BY <1>1, <1>2, <1>3, <1>5, NoTurnRow, NoPlanStorable DEF LoopAsks, PlanInv, PlanType
<1> QED
  BY <1>6, NoTurnRow, RequestKeeps

LEMMA restartPlanKeeps ==
  ASSUME PlanInv, NEW k \in Turn, restartPlan(k)
  PROVE  PlanInv'
<1> DEFINE n == planIds + 1
           p == [turn[k].read EXCEPT !.id = n, !.status = "running"]
<1>1. turn[k].op = "restart" /\ turn[k].read \in PlanRow /\ Storable(turn[k].read, Covered)
  BY DEF restartPlan, PlanInv, PlanType, ReadingsStorable, TurnRow
<1>2. /\ turn' = [turn EXCEPT ![k] = NoTurn] /\ plan' = p /\ planIds' = n /\ Spawn(n)
      /\ UNCHANGED <<turns, handled, lost>>
  BY DEF restartPlan, Ends
<1>3. n \in Nat
  BY SMTT(60) DEF PlanInv, PlanType
<1> HIDE DEF n
<1>4. p \in PlanRow /\ p.id = n /\ Storable(p, Covered)
  BY <1>1, <1>3, StorableAgain
<1> HIDE DEF p
<1>5. Covered \subseteq Covered'
  BY <1>1, <1>2, StillCovered DEF PlanInv
<1>6. Storable(p, Covered')
  BY <1>4, <1>5, StorableGrows
<1>7. LoopAsks(k, NoTurn)
  <2>1. /\ loop' \in [Loop -> LoopRow] /\ \A l \in Loop : loop'[l] = loop[l] \/ loop'[l].op = "top"
        /\ RunningPlanIsWorkedOn'
    BY <1>2, <1>3, <1>4, SpawnWorks
  <2> QED
    BY <1>1, <1>2, <1>3, <1>4, <1>6, <2>1, NoTurnRow, NoPlanStorable DEF LoopAsks, PlanInv, PlanType
<1> QED
  BY <1>7, NoTurnRow, RequestKeeps

\* The request's own batch is carried out, or lost with it.
LEMMA FirstBatchKeeps ==
  ASSUME PlanInv, NEW k \in Turn, writeFirstBatch(k) \/ failFirstBatch(k)
  PROVE  PlanInv'
<1>1. /\ turn[k].op = "first_batch" /\ turn' = [turn EXCEPT ![k] = NoTurn]
      /\ Batch(turn[k].read) \subseteq handled' \cup lost' /\ handled \subseteq handled' /\ lost \subseteq lost'
      /\ UNCHANGED <<plan, loop, turns, planIds>>
  BY DEF writeFirstBatch, failFirstBatch, Ends
<1>2. Covered \subseteq Covered'
  BY <1>1, StillCovered DEF PlanInv
<1>3. turns' \in Nat /\ planIds' \in Nat
  BY <1>1 DEF PlanInv, PlanType
<1>4. LoopAsks(k, NoTurn)
  BY <1>1, <1>2, <1>3, PlanStays, NoTurnRow, NoPlanStorable DEF LoopAsks
<1> QED
  BY <1>4, NoTurnRow, RequestKeeps

LEMMA startZyraChatPlanKeeps ==
  ASSUME PlanInv, NEW k \in Turn, startZyraChatPlan(k)
  PROVE  PlanInv'
<1>1. PICK n \in 1..MaxScenarios :
        LET whole == [NoPlan EXCEPT !.id = planIds + 1, !.status = "running", !.msg = turn[k].msg,
                                    !.rest = [i \in 1..n |-> i], !.total = n]
            left  == Advanced(whole)
        IN /\ turn' = [turn EXCEPT ![k].op = "first_batch", ![k].read = whole]
           /\ IF left.rest = <<>> THEN UNCHANGED <<plan, planIds, loop, stopped>>
              ELSE plan' = left /\ planIds' = planIds + 1 /\ Spawn(left.id) /\ stopped' = FALSE
  BY DEF startZyraChatPlan
<1> DEFINE id == planIds + 1
           rest == [i \in 1..n |-> i]
           whole == [NoPlan EXCEPT !.id = id, !.status = "running", !.msg = turn[k].msg, !.rest = rest, !.total = n]
           r == [turn[k] EXCEPT !.op = "first_batch", !.read = whole]
<1>2. turn[k].op = "decide" /\ turn[k] \in TurnRow /\ turn[k].msg \in Nat /\ id \in Nat
  BY DEF startZyraChatPlan, PlanInv, PlanType, TurnRow
<1>3. /\ turn' = [turn EXCEPT ![k] = r] /\ UNCHANGED <<turns, handled, lost>>
      /\ UNCHANGED <<plan, planIds, loop>> \/ (plan' = Advanced(whole) /\ planIds' = id /\ Spawn(Advanced(whole).id))
  BY <1>1, ZenonT(60) DEF startZyraChatPlan
<1>4. n \in Nat /\ rest \in Seq(Nat) /\ Len(rest) = n /\ \A i \in 1..n : rest[i] = i
  BY ZyraChatConstants
<1> HIDE DEF id, rest
<1>5. /\ whole \in PlanRow /\ whole.id = id /\ whole.rest = rest /\ whole.total = n /\ whole.done = 0
  BY <1>2, <1>4, NoPlanStorable DEF PlanRow, NoPlan
<1>6. Storable(whole, {})
  BY <1>4, <1>5 DEF Storable
<1> HIDE DEF whole
<1>7. r \in TurnRow /\ r.op = "first_batch" /\ r.read = whole
  BY <1>2, <1>5 DEF TurnRow
<1> HIDE DEF r
<1>8. Batch(whole) \subseteq Covered'
  <2>1. turn'[k] = r
    BY <1>3 DEF PlanInv, PlanType
  <2>2. turn'[k].op = "first_batch" /\ turn'[k].read = whole
    BY <1>7, <2>1
  <2> QED
    BY <2>2 DEF Covered, Batch, Upto
<1>9. Covered \subseteq Covered'
  BY <1>2, <1>3, StillCovered DEF PlanInv
<1>10. Storable(whole, Covered')
  BY <1>6, StorableGrows
<1>11. Advanced(whole) \in PlanRow /\ Storable(Advanced(whole), Covered') /\ Advanced(whole).id = id
  BY <1>5, <1>8, <1>10, AdvancedStorable
<1>12. CASE UNCHANGED <<plan, planIds, loop>>
  <2>1. LoopAsks(k, r)
    BY <1>2, <1>3, <1>7, <1>9, <1>12, PlanStays DEF LoopAsks, PlanInv, PlanType
  <2> QED
    BY <1>7, <2>1, RequestKeeps
<1>13. CASE plan' = Advanced(whole) /\ planIds' = id /\ Spawn(Advanced(whole).id)
  <2>1. Spawn(id) /\ plan'.id = id
    BY <1>11, <1>13
  <2>2. /\ loop' \in [Loop -> LoopRow] /\ \A l \in Loop : loop'[l] = loop[l] \/ loop'[l].op = "top"
        /\ RunningPlanIsWorkedOn'
    BY <1>2, <2>1, SpawnWorks
  <2>3. LoopAsks(k, r)
    BY <1>2, <1>3, <1>7, <1>11, <1>13, <2>2 DEF LoopAsks, PlanInv, PlanType
  <2> QED
    BY <1>7, <2>3, RequestKeeps
<1> QED
  BY <1>3, <1>12, <1>13

\* A loop that quits, or goes back to the top, has nothing to write back.
LEMMA readPlanKeeps ==
  ASSUME PlanInv, NEW l \in Loop, readPlan(l)
  PROVE  PlanInv'
<1> DEFINE r == [loop[l] EXCEPT !.op = "generate", !.read = plan]
<1>1. loop[l].op = "top" /\ UNCHANGED <<plan, turn, turns, planIds, handled, lost>>
  BY DEF readPlan
<1>2. Covered \subseteq Covered'
  BY <1>1, SameCover
<1>3. plan' \in PlanRow /\ Storable(plan, Covered') /\ Storable(plan', Covered')
  BY <1>1, <1>2, StorableGrows DEF PlanInv, PlanType
<1>4. CASE plan.id /= loop[l].id /\ loop' = [loop EXCEPT ![l] = NoLoop]
  <2>1. RunningPlanIsWorkedOn'
    BY <1>1, <1>4 DEF PlanInv, RunningPlanIsWorkedOn
  <2>2. Loops(l, NoLoop)
    BY <1>1, <1>3, <1>4, <2>1, NoLoopRow DEF Loops
  <2> QED
    BY <2>2, NoLoopRow, LoopKeeps
<1>5. CASE plan.id = loop[l].id /\ loop' = [loop EXCEPT ![l] = r]
  <2>1. r \in LoopRow /\ r.op = "generate" /\ r.read = plan /\ r.id = loop[l].id
    BY DEF PlanInv, PlanType, LoopRow
  <2> HIDE DEF r
  <2>2. RunningPlanIsWorkedOn'
    <3>1. loop'[l].op /= "idle" /\ loop'[l].id = plan'.id
      BY <1>1, <1>5, <2>1 DEF PlanInv, PlanType
    <3> QED
      BY <3>1 DEF RunningPlanIsWorkedOn
  <2>3. Loops(l, r)
    BY <1>1, <1>3, <1>5, <2>1, <2>2 DEF Loops
  <2> QED
    BY <2>1, <2>3, LoopKeeps
<1> QED
  BY <1>4, <1>5 DEF readPlan, Quits

LEMMA clearZyraChatPlanKeeps ==
  ASSUME PlanInv, NEW l \in Loop, clearZyraChatPlan(l)
  PROVE  PlanInv'
<1>1. loop' = [loop EXCEPT ![l] = NoLoop] /\ plan' = NoPlan /\ UNCHANGED <<turn, turns, planIds, handled, lost>>
  BY DEF clearZyraChatPlan, Quits
<1>2. Loops(l, NoLoop)
  BY <1>1, NoLoopRow, NoPlanStorable DEF Loops, RunningPlanIsWorkedOn
<1> QED
  BY <1>2, NoLoopRow, LoopKeeps

LEMMA generateBatchKeeps ==
  ASSUME PlanInv, NEW l \in Loop, generateBatch(l)
  PROVE  PlanInv'
<1> DEFINE r == [loop[l] EXCEPT !.op = "posted"]
           p == loop[l].read
<1>1. /\ loop[l].op = "generate" /\ loop' = [loop EXCEPT ![l] = r] /\ handled' = handled \cup Batch(p)
      /\ UNCHANGED <<plan, turn, turns, planIds, lost>>
  BY DEF generateBatch, At
<1>2. r \in LoopRow /\ r.op = "posted" /\ r.read = p /\ r.id = loop[l].id
  BY DEF PlanInv, PlanType, LoopRow
<1>3. p \in PlanRow /\ Storable(p, Covered) /\ p.id = loop[l].id
  BY <1>1 DEF PlanInv, PlanType, LoopRow, LoopsStorable
<1> HIDE DEF r, p
<1>4. Covered \subseteq Covered' /\ Batch(p) \subseteq Covered'
  <2>1. Covered \subseteq Covered'
    BY <1>1, SameCover
  <2>2. handled' \subseteq Covered'
    BY DEF Covered
  <2> QED
    BY <1>1, <2>1, <2>2
<1>5. Storable(p, Covered')
  BY <1>3, <1>4, StorableGrows
<1>6. Storable(Advanced(p), Covered')
  BY <1>3, <1>4, <1>5, AdvancedStorable
<1>7. plan' \in PlanRow /\ Storable(plan', Covered')
  BY <1>1, <1>4, StorableGrows DEF PlanInv, PlanType
<1>8. RunningPlanIsWorkedOn'
  BY <1>1, <1>2 DEF PlanInv, PlanType, RunningPlanIsWorkedOn
<1>9. Loops(l, r)
  BY <1>1, <1>2, <1>3, <1>5, <1>6, <1>7, <1>8 DEF Loops
<1> QED
  BY <1>2, <1>9, LoopKeeps

LEMMA recheckPlanKeeps ==
  ASSUME PlanInv, NEW l \in Loop, recheckPlan(l)
  PROVE  PlanInv'
<1> DEFINE r == [loop[l] EXCEPT !.op = "progress"]
<1>1. loop[l].op = "posted" /\ UNCHANGED <<turn, turns, planIds, handled, lost>>
  BY DEF recheckPlan
<1>2. Covered \subseteq Covered'
  BY <1>1, SameCover
<1>3. Storable(plan, Covered') /\ plan \in PlanRow
  BY <1>2, StorableGrows DEF PlanInv, PlanType
<1>4. CASE plan' = NoPlan /\ loop' = [loop EXCEPT ![l] = NoLoop]
  <2>1. Loops(l, NoLoop)
    BY <1>1, <1>4, NoLoopRow, NoPlanStorable DEF Loops, RunningPlanIsWorkedOn
  <2> QED
    BY <2>1, NoLoopRow, LoopKeeps
<1>5. CASE plan' = plan /\ plan.id /= loop[l].id /\ loop' = [loop EXCEPT ![l] = NoLoop]
  <2>1. RunningPlanIsWorkedOn'
    BY <1>5 DEF PlanInv, RunningPlanIsWorkedOn
  <2>2. Loops(l, NoLoop)
    BY <1>1, <1>3, <1>5, <2>1, NoLoopRow DEF Loops
  <2> QED
    BY <2>2, NoLoopRow, LoopKeeps
<1>6. CASE plan' = plan /\ loop' = [loop EXCEPT ![l] = r]
  <2>1. r \in LoopRow /\ r.op = "progress" /\ r.read = loop[l].read /\ r.id = loop[l].id
    BY DEF PlanInv, PlanType, LoopRow
  <2> HIDE DEF r
  <2>2. Storable(r.read, Covered) /\ r.read.id = r.id /\ Storable(Advanced(r.read), Covered)
    BY <1>1, <2>1 DEF PlanInv, LoopsStorable
  <2>3. Storable(r.read, Covered') /\ Storable(Advanced(r.read), Covered')
    BY <1>2, <2>2, StorableGrows
  <2>4. RunningPlanIsWorkedOn'
    BY <1>6, <2>1 DEF PlanInv, PlanType, RunningPlanIsWorkedOn
  <2>5. Loops(l, r)
    BY <1>1, <1>3, <1>6, <2>2, <2>3, <2>4 DEF Loops
  <2> QED
    BY <2>1, <2>5, LoopKeeps
<1> QED
  BY <1>4, <1>5, <1>6 DEF recheckPlan, Quits, At

LEMMA writeProgressKeeps ==
  ASSUME PlanInv, NEW l \in Loop, writeProgress(l)
  PROVE  PlanInv'
<1> DEFINE r == [loop[l] EXCEPT !.op = "top"]
           p == loop[l].read
<1>1. /\ loop[l].op = "progress" /\ plan' = Advanced(p) /\ loop' = [loop EXCEPT ![l] = r]
      /\ UNCHANGED <<turn, turns, planIds, handled, lost>>
  BY DEF writeProgress, At
<1>2. r \in LoopRow /\ r.op = "top" /\ r.id = loop[l].id
  BY DEF PlanInv, PlanType, LoopRow
<1>3. p \in PlanRow /\ p.id = loop[l].id /\ Storable(Advanced(p), Covered)
  BY <1>1 DEF PlanInv, PlanType, LoopRow, LoopsStorable
<1>4. Advanced(p) \in PlanRow /\ Advanced(p).id = p.id
  <2>1. [p EXCEPT !.rest = SubSeq(p.rest, Upto(p) + 1, Len(p.rest)), !.done = @ + Upto(p)].id = p.id
    BY <1>3 DEF PlanRow
  <2>2. SubSeq(p.rest, Upto(p) + 1, Len(p.rest)) \in Seq(Nat)
    BY <1>3, RestAfterBatch
  <2>3. p.done + Upto(p) \in Nat
    <3>1. p.done \in Nat /\ Upto(p) \in Nat
      BY <1>3, UptoBounds DEF PlanRow
    <3> QED
      BY <3>1
  <2> QED
    BY <1>3, <2>1, <2>2, <2>3 DEF Advanced, PlanRow
<1> HIDE DEF r, p
<1>5. Covered \subseteq Covered'
  BY <1>1, SameCover
<1>6. plan' \in PlanRow /\ Storable(plan', Covered')
  BY <1>1, <1>3, <1>4, <1>5, StorableGrows
<1>7. RunningPlanIsWorkedOn'
  <2>1. loop'[l].op /= "idle" /\ loop'[l].id = plan'.id
    BY <1>1, <1>2, <1>3, <1>4 DEF PlanInv, PlanType
  <2> QED
    BY <2>1 DEF RunningPlanIsWorkedOn
<1>8. Loops(l, r)
  BY <1>1, <1>2, <1>6, <1>7 DEF Loops
<1> QED
  BY <1>2, <1>8, LoopKeeps

LEMMA pauseAfterFailureKeeps ==
  ASSUME PlanInv, NEW l \in Loop, pauseAfterFailure(l)
  PROVE  PlanInv'
<1> DEFINE p == [loop[l].read EXCEPT !.status = "paused"]
<1>1. /\ loop[l].op \in {"generate", "posted", "progress"} /\ plan' = p /\ loop' = [loop EXCEPT ![l] = NoLoop]
      /\ UNCHANGED <<turn, turns, planIds, handled, lost>>
  BY DEF pauseAfterFailure, Quits
<1>2. loop[l].read \in PlanRow /\ Storable(loop[l].read, Covered)
  BY <1>1, SMTT(60) DEF PlanInv, PlanType, LoopRow, LoopsStorable
<1>3. p \in PlanRow /\ p.status = "paused" /\ Storable(p, Covered)
  BY <1>2, StorableAgain
<1> HIDE DEF p
<1>4. Covered \subseteq Covered'
  BY <1>1, SameCover
<1>5. Storable(p, Covered') /\ RunningPlanIsWorkedOn'
  BY <1>1, <1>3, <1>4, StorableGrows DEF RunningPlanIsWorkedOn
<1>6. Loops(l, NoLoop)
  BY <1>1, <1>3, <1>5, NoLoopRow DEF Loops
<1> QED
  BY <1>6, NoLoopRow, LoopKeeps

\* One loop comes first.
LEMMA FirstLoop == Loop /= {} => \E l \in Loop : \A j \in Loop : l <= j
<1> SUFFICES ASSUME Loop /= {} PROVE \E l \in Loop : \A j \in Loop : l <= j
  OBVIOUS
<1>1. Loop \subseteq Nat
  BY ZyraChatConstants
<1>2. PICK l \in Loop : \A j \in Loop : ~(<<j, l>> \in OpToRel(<, Nat))
  BY <1>1, NatLessThanWellFounded, WFMin
<1>3. ASSUME NEW j \in Loop PROVE l <= j
  <2>1. <<j, l>> \in Nat \X Nat /\ <<j, l>>[1] = j /\ <<j, l>>[2] = l
    BY <1>1
  <2>2. ~(j < l)
    BY <1>2, <2>1 DEF OpToRel
  <2> QED
    BY <1>1, <2>2
<1> QED
  BY <1>3

LEMMA resumeInterruptedKeeps ==
  ASSUME PlanInv, resumeInterruptedZyraChatPlans
  PROVE  PlanInv'
<1> DEFINE top == [NoLoop EXCEPT !.op = "top", !.id = plan.id]
<1>1. /\ lost' = lost \cup UNION {Batch(turn[k].read) : k \in {j \in Turn : turn[j].op = "first_batch"}}
      /\ turn' = [k \in Turn |-> NoTurn] /\ UNCHANGED <<plan, planIds, handled>>
      /\ loop' = [l \in Loop |-> IF plan.status = "running" /\ \A j \in Loop : l <= j THEN top ELSE NoLoop]
  BY DEF resumeInterruptedZyraChatPlans
<1>2. turns' \in Nat
  BY DEF resumeInterruptedZyraChatPlans, Take, PlanInv, PlanType
<1>3. top \in LoopRow /\ top.op = "top" /\ top.id = plan.id
  BY NoLoopRow DEF LoopRow, PlanInv, PlanType, PlanRow
<1> HIDE DEF top
<1>4. PlanType'
  BY <1>1, <1>2, <1>3, NoLoopRow, NoTurnRow DEF PlanInv, PlanType
<1>5. Covered \subseteq Covered'
  BY <1>1 DEF Covered
<1>6. plan' = plan /\ Storable(plan', Covered')
  BY <1>1, <1>5, StorableGrows DEF PlanInv
<1>7. ReadingsStorable'
  BY <1>1, NoTurnRow, NoPlanStorable DEF ReadingsStorable
<1>8. LoopsStorable'
  BY <1>1, <1>3, NoLoopRow DEF LoopsStorable
<1>9. RunningPlanIsWorkedOn'
  <2> SUFFICES ASSUME plan.status = "running" PROVE \E l \in Loop : loop'[l].op /= "idle" /\ loop'[l].id = plan.id
    BY <1>6 DEF RunningPlanIsWorkedOn
  <2>1. PICK l \in Loop : \A j \in Loop : l <= j
    BY FirstLoop DEF PlanInv, RunningPlanIsWorkedOn
  <2>2. loop'[l] = top
    BY <1>1, <2>1
  <2> QED
    BY <1>3, <2>2
<1> QED
  BY <1>4, <1>6, <1>7, <1>8, <1>9 DEF PlanInv

\* What concerns neither the plan nor anyone at work on it.
LEMMA PlanUntouched ==
  ASSUME PlanInv, UNCHANGED <<plan, loop, turn, planIds, handled, lost>>, turns' \in Nat
  PROVE  PlanInv'
<1>1. Covered' = Covered
  BY DEF Covered, Batch, Upto
<1>2. PlanType' /\ RunningPlanIsWorkedOn'
  BY DEF PlanInv, PlanType, RunningPlanIsWorkedOn
<1>3. Storable(plan', Covered') /\ ReadingsStorable'
  BY <1>1, SMTT(60) DEF PlanInv, ReadingsStorable
<1>4. LoopsStorable'
  BY <1>1 DEF PlanInv, LoopsStorable, Advanced, Upto
<1> QED
  BY <1>2, <1>3, <1>4 DEF PlanInv

LEMMA NextPlan == PlanInv /\ [ZyraChatNext]_zcVars => PlanInv'
<1> SUFFICES ASSUME PlanInv, [ZyraChatNext]_zcVars PROVE PlanInv'
  OBVIOUS
<1>1. CASE UNCHANGED zcVars
  <2>1. turns' \in Nat
    BY <1>1 DEF zcVars, PlanInv, PlanType
  <2> QED
    BY <1>1, <2>1, PlanUntouched DEF zcVars
<1>2. CASE ZyraChatNext
  <2>1. CASE sendZyraChatMessage \/ stopZyraChatPlan \/ askResume \/ resumeInterruptedZyraChatPlans
    BY <2>1, AskKeeps, resumeInterruptedKeeps
  <2>2. ASSUME NEW what \in {"key", "generation"}, updateZyraGrant(what) PROVE PlanInv'
    <3>1. turns' \in Nat
      BY <2>2 DEF updateZyraGrant, Take, PlanInv, PlanType
    <3> QED
      BY <2>2, <3>1, PlanUntouched DEF updateZyraGrant
  <2>3. ASSUME NEW k \in Turn,
               \/ supersedePlan(k) \/ buildZyraChatDecision(k) \/ startZyraChatPlan(k)
               \/ writeFirstBatch(k) \/ failFirstBatch(k) \/ pausePlan(k)
               \/ resumeZyraChatPlan(k) \/ restartPlan(k)
        PROVE  PlanInv'
    BY <2>3, supersedePlanKeeps, buildZyraChatDecisionKeeps, startZyraChatPlanKeeps, FirstBatchKeeps, pausePlanKeeps,
       resumeZyraChatPlanKeeps, restartPlanKeeps
  <2>4. ASSUME NEW l \in Loop,
               \/ readPlan(l) \/ clearZyraChatPlan(l) \/ generateBatch(l) \/ recheckPlan(l)
               \/ writeProgress(l) \/ pauseAfterFailure(l)
        PROVE  PlanInv'
    BY <2>4, readPlanKeeps, clearZyraChatPlanKeeps, generateBatchKeeps, recheckPlanKeeps, writeProgressKeeps,
       pauseAfterFailureKeeps
  <2> QED
    BY <1>2, <2>1, <2>2, <2>3, <2>4 DEF ZyraChatNext
<1> QED
  BY <1>1, <1>2

\* Whatever stops, resumptions, failures, new messages and restarts overtake the loops, a
\* scenario that the stored plan no longer lists was carried out or lost with its message, the
\* counts add up, and a plan that says it is running has a loop at work on it
\* (continueZyraChatPlan, stopZyraChatPlan, resumeZyraChatPlan, resumeInterruptedZyraChatPlans):
\* for any number of loops, requests, scenarios and any size of a batch.
THEOREM PlanIsSound == ZyraChatSpec => []PlanSound
  BY InitPlan, NextPlan, PlanInvSound, PTL DEF ZyraChatSpec

-----------------------------------------------------------------------------
(* The Knowledge Base.  What is below a folder is the least set that is closed under the   *)
(* parents' column; a request in flight still finds its folder apart from its target, its  *)
(* files among those the deletion takes, and its upload's bytes where it put them.         *)

Existence == {"none", "live", "deleted"}
FolderRow == [state : Existence, parent : Folder \cup {0}, owner : Member \cup {0}]
DocRow    == [state : Existence, folder : Folder \cup {0}, owner : Member \cup {0}, memory : BOOLEAN, text : Nat,
              kind : {"general", "ai_memory"}, status : {"draft", "published", "approved", "rejected"},
              readOnly : BOOLEAN, versions : SUBSET (BOOLEAN \X Nat)]
FileRow   == [state : Existence, folder : Folder \cup {0}, owner : Member \cup {0}]
NoteRow   == [state : Existence, doc : Doc \cup {0}, parent : Comment \cup {0}, author : Member \cup {0},
              resolved : BOOLEAN]
TrayRow   == [op : {"idle", "newFolder", "moveFolder", "dropFolder", "purge", "newDoc", "save", "moveDoc", "dropDoc",
                    "revert", "remember", "comment", "upload", "moveFile"},
              who : Member \cup {0}, id : Nat, to : Nat, read : DocRow, list : SUBSET KbFile]

KnowledgeType ==
  /\ folder \in [Folder -> FolderRow] /\ doc \in [Doc -> DocRow] /\ kbFile \in [KbFile -> FileRow]
  /\ comment \in [Comment -> NoteRow] /\ blob \subseteq KbFile /\ tray \in [Tray -> TrayRow] /\ crossed \in BOOLEAN

\* The folders, as rows: the root stays, and parents are rows.
RootStays(rows) ==
  /\ rows[1].state = "live" /\ rows[1].parent = 0
  /\ \A f \in Folder : rows[f].state = "none" => rows[f].parent = 0
  /\ \A f \in Folder : rows[f].parent = 0 \/ rows[rows[f].parent].state /= "none"
HangTogether(rows) == \A f \in Folder : rows[f].state /= "none" => f \in Beneath(Folder, rows, 1)
ParentsLive(rows, gone) ==
  \A f \in Folder : rows[f].state = "live" /\ <<"folder", f>> \notin gone
                      => f = 1 \/ (rows[f].parent \in Folder /\ rows[rows[f].parent].state = "live")

\* A document or a file that no stale write put there is in a live folder; a memory is live.
DocsPlaced(docs, rows, gone) ==
  \A d \in Doc : <<"doc", d>> \notin gone =>
    /\ docs[d].memory => docs[d].state = "live"
    /\ docs[d].state = "live" => docs[d].folder \in Folder /\ rows[docs[d].folder].state = "live"
FilesPlaced(files, rows, bytes, gone) ==
  \A x \in KbFile : files[x].state = "live" /\ <<"file", x>> \notin gone =>
    x \in bytes /\ files[x].folder \in Folder /\ rows[files[x].folder].state = "live"
RepliesPlaced(notes, gone) ==
  \A c \in Comment :
    /\ notes[c].parent /= 0 => notes[notes[c].parent].state /= "none" /\ notes[notes[c].parent].parent = 0
    /\ notes[c].state = "live" /\ <<"comment", c>> \notin gone
         => notes[c].parent = 0 \/ notes[notes[c].parent].state = "live"

\* What holds of a request in flight.
RowFits(r, rows, files, notes, bytes, gone, x) ==
  /\ r.op \in {"newFolder", "moveFolder"} => r.to \in Folder /\ rows[r.to].state /= "none"
  /\ r.op \in {"moveFolder", "dropFolder"} => r.id \in Folder \ {1} /\ rows[r.id].state /= "none"
  /\ r.op = "moveFolder" /\ ~x => r.to \notin Beneath(Folder, rows, r.id)
  /\ r.op \in {"newDoc", "moveDoc", "remember", "upload", "moveFile"} => r.to \in Folder
  /\ r.op \in {"save", "moveDoc", "dropDoc", "revert", "comment"} => r.id \in Doc
  /\ r.op = "remember" => r.id \in Doc \cup {0}
  /\ r.op = "comment" /\ r.to /= 0 => r.to \in Comment /\ notes[r.to].state /= "none" /\ notes[r.to].parent = 0
  /\ r.op \in {"upload", "moveFile"} => r.id \in KbFile
  /\ r.op = "upload" => files[r.id].state = "none" /\ r.id \in bytes
  /\ r.op \notin {"dropFolder", "purge"} => r.list = {}
  /\ \A y \in r.list : /\ files[y].state /= "none"
                       /\ \/ <<"file", y>> \in gone
                          \/ files[y].state /= "live"
                          \/ r.op = "dropFolder" /\ files[y].folder \in Beneath(Folder, rows, r.id)
TrayFits == \A t \in Tray : RowFits(tray[t], folder, kbFile, comment, blob, stray, crossed)
UploadsApart ==
  \A t, u \in Tray : t /= u /\ tray[t].op = "upload" /\ tray[u].op = "upload" => tray[t].id /= tray[u].id

KnowledgeInv ==
  /\ KnowledgeType /\ RootStays(folder) /\ (~crossed => HangTogether(folder)) /\ ParentsLive(folder, stray)
  /\ DocsPlaced(doc, folder, stray) /\ FilesPlaced(kbFile, folder, blob, stray) /\ RepliesPlaced(comment, stray)
  /\ TrayFits /\ UploadsApart

LEMMA BeneathFacts ==
  ASSUME NEW A, NEW f \in Folder
  PROVE  /\ f \in Beneath(Folder, A, f) /\ Beneath(Folder, A, f) \subseteq Folder
         /\ Closed(Folder, A, Beneath(Folder, A, f))
         /\ \A F \in SUBSET Folder : f \in F /\ Closed(Folder, A, F) => Beneath(Folder, A, f) \subseteq F
BY DEF Beneath, Closed

\* Only the parents matter.
LEMMA SameParents ==
  ASSUME NEW A, NEW Z, \A h \in Folder : Z[h].parent = A[h].parent, NEW f \in Folder
  PROVE  Beneath(Folder, Z, f) = Beneath(Folder, A, f)
<1>1. \A F \in SUBSET Folder : Closed(Folder, Z, F) <=> Closed(Folder, A, F)
  BY DEF Closed
<1> QED
  BY <1>1 DEF Beneath

\* The root is below no other folder.
LEMMA RootApart ==
  ASSUME NEW A, A[1].parent = 0, NEW f \in Folder \ {1}
  PROVE  1 \notin Beneath(Folder, A, f)
<1> DEFINE F == Folder \ {1}
<1>1. Closed(Folder, A, F)
  BY KnowledgeConstants DEF Closed
<1> QED
  BY <1>1, BeneathFacts

\* A new folder n hangs below another one.
LEMMA Grown ==
  ASSUME NEW A, NEW Z, NEW n \in Folder, A[n].parent = 0,
         \A h \in Folder \ {n} : Z[h].parent = A[h].parent, NEW f \in Folder
  PROVE  Beneath(Folder, A, f) \subseteq Beneath(Folder, Z, f)
<1>1. ASSUME NEW F \in SUBSET Folder, Closed(Folder, Z, F) PROVE Closed(Folder, A, F)
  BY <1>1, KnowledgeConstants DEF Closed
<1> QED
  BY <1>1 DEF Beneath

LEMMA GrownApart ==
  ASSUME NEW A, NEW Z, NEW n \in Folder, \A h \in Folder : A[h].parent /= n,
         \A h \in Folder \ {n} : Z[h].parent = A[h].parent, NEW f \in Folder,
         NEW g \in Folder, g /= n, g \notin Beneath(Folder, A, f)
  PROVE  g \notin Beneath(Folder, Z, f)
<1>1. PICK F \in SUBSET Folder : f \in F /\ Closed(Folder, A, F) /\ g \notin F
  BY DEF Beneath
<1> DEFINE G == F \cup {n}
<1>2. G \in SUBSET Folder /\ f \in G /\ g \notin G /\ Closed(Folder, Z, G)
  BY <1>1 DEF Closed
<1> HIDE DEF G
<1> QED
  BY <1>2 DEF Beneath

\* Folder i moves below another: what was below f and not below i is still below f.
LEMMA MovedPast ==
  ASSUME NEW A, NEW Z, NEW i \in Folder, \A h \in Folder \ {i} : Z[h].parent = A[h].parent,
         NEW f \in Folder, NEW y \in Beneath(Folder, A, f), y \notin Beneath(Folder, A, i)
  PROVE  y \in Beneath(Folder, Z, f)
<1>1. SUFFICES ASSUME NEW F \in SUBSET Folder, f \in F, Closed(Folder, Z, F) PROVE y \in F
  BY DEF Beneath
<1> DEFINE G == F \cup Beneath(Folder, A, i)
<1>2. G \in SUBSET Folder /\ f \in G /\ Closed(Folder, A, G)
  BY <1>1, BeneathFacts DEF Closed
<1>3. y \in G
  BY <1>2, BeneathFacts
<1> QED
  BY <1>3

\* It moves to a folder p that is not below it: whatever the root had stays below the root.
LEMMA MovedWithin ==
  ASSUME NEW A, NEW Z, NEW i \in Folder, \A h \in Folder \ {i} : Z[h].parent = A[h].parent,
         Z[i].parent \in Beneath(Folder, A, 1), Z[i].parent \notin Beneath(Folder, A, i)
  PROVE  Beneath(Folder, A, 1) \subseteq Beneath(Folder, Z, 1)
<1> DEFINE p == Z[i].parent
<1>0. 1 \in Folder /\ p \in Beneath(Folder, A, 1) /\ p \notin Beneath(Folder, A, i)
  BY KnowledgeConstants
<1>1. p \in Beneath(Folder, Z, 1)
  BY <1>0, MovedPast
<1>2. SUFFICES ASSUME NEW y \in Beneath(Folder, A, 1), NEW F \in SUBSET Folder, 1 \in F, Closed(Folder, Z, F)
               PROVE  y \in F
  BY <1>0 DEF Beneath
<1>3. p \in F
  BY <1>0, <1>1, <1>2, BeneathFacts
<1>4. i \in F
  BY <1>2, <1>3 DEF Closed
<1>5. Closed(Folder, A, F \cup Beneath(Folder, A, i)) /\ F \cup Beneath(Folder, A, i) \in SUBSET Folder
  BY <1>2, BeneathFacts DEF Closed
<1>6. Beneath(Folder, A, i) \subseteq F \/ y \in F
  <2> DEFINE G == Beneath(Folder, A, i) \cap F
  <2>1. Closed(Folder, A, G)
    <3> SUFFICES ASSUME NEW h \in Folder, A[h].parent \in G PROVE h \in G
      BY DEF Closed
    <3>1. h \in Beneath(Folder, A, i)
      BY BeneathFacts DEF Closed
    <3>2. CASE h = i
      BY <1>4, <3>1, <3>2
    <3>3. CASE h /= i
      BY <1>2, <3>1, <3>3 DEF Closed
    <3> QED
      BY <3>2, <3>3
  <2>2. i \in G
    BY <1>4, BeneathFacts
  <2> QED
    BY <2>1, <2>2, BeneathFacts
<1> QED
  BY <1>0, <1>2, <1>5, <1>6, BeneathFacts

\* Where every live folder hangs from a live one, the live part of the root's tree is all of it.
LEMMA AllBeneath ==
  ASSUME NEW A, A[1].state = "live",
         \A f \in Folder : A[f].state /= "none" => f \in Beneath(Folder, A, 1),
         \A f \in Folder : A[f].state = "live" => f = 1 \/ (A[A[f].parent].state = "live" /\ A[f].parent \in Folder)
  PROVE  Beneath({f \in Folder : A[f].state = "live"}, A, 1) = {f \in Folder : A[f].state = "live"}
<1> DEFINE L == {f \in Folder : A[f].state = "live"}
<1>0. 1 \in Folder
  BY KnowledgeConstants
<1> SUFFICES ASSUME NEW g \in L, NEW F \in SUBSET L, 1 \in F, Closed(L, A, F) PROVE g \in F
  BY <1>0 DEF Beneath
<1> DEFINE G == F \cup (Folder \ L)
<1>1. G \in SUBSET Folder /\ 1 \in G
  OBVIOUS
<1>2. Closed(Folder, A, G)
  <2> SUFFICES ASSUME NEW h \in Folder, h \in L, A[h].parent \in G PROVE h \in F
    BY DEF Closed
  <2>1. CASE h = 1
    BY <2>1
  <2>2. CASE h /= 1
    BY <2>2 DEF Closed
  <2> QED
    BY <2>1, <2>2
<1>3. g \in G
  BY <1>0, <1>1, <1>2, BeneathFacts
<1> QED
  BY <1>3

LEMMA IdsAreNumbers == /\ Folder \subseteq Nat /\ Doc \subseteq Nat /\ KbFile \subseteq Nat /\ Comment \subseteq Nat
                       /\ 0 \notin Folder /\ 0 \notin Doc /\ 0 \notin Comment /\ 1 \in Folder
BY KnowledgeConstants

LEMMA NoDocRow == /\ NoDoc \in DocRow /\ NoDoc.state = "none" /\ NoDoc.memory = FALSE
                  /\ NoDoc.text = 0 /\ NoDoc.folder = 0
BY DEF NoDoc, DocRow, Existence

LEMMA EmptyRow ==
  /\ Empty \in TrayRow /\ Empty.op = "idle" /\ Empty.list = {} /\ Empty.read = NoDoc
  /\ \A rows, files, notes, bytes, gone, x : RowFits(Empty, rows, files, notes, bytes, gone, x)
<1>1. Empty \in TrayRow /\ Empty.op = "idle" /\ Empty.list = {} /\ Empty.read = NoDoc
  BY NoDocRow DEF Empty, TrayRow
<1> QED
  BY <1>1 DEF RowFits

LEMMA RequestRow ==
  ASSUME NEW op \in {"newFolder", "moveFolder", "dropFolder", "purge", "newDoc", "save", "moveDoc", "dropDoc",
                     "revert", "remember", "comment", "upload", "moveFile"},
         NEW u \in Member \cup {0}, NEW id \in Nat, NEW to \in Nat
  PROVE  LET r == Request(op, u, id, to)
         IN  r \in TrayRow /\ r.op = op /\ r.who = u /\ r.id = id /\ r.to = to /\ r.list = {} /\ r.read = NoDoc
BY EmptyRow DEF Request, TrayRow

LEMMA FitsStrayed ==
  ASSUME NEW r, NEW rows, NEW files, NEW notes, NEW bytes, NEW gone, NEW x,
         RowFits(r, rows, files, notes, bytes, gone, x), NEW more, gone \subseteq more
  PROVE  RowFits(r, rows, files, notes, bytes, more, x)
BY DEF RowFits

LEMMA InitKnowledge == KnowledgeInit => KnowledgeInv
<1> SUFFICES ASSUME KnowledgeInit PROVE KnowledgeInv
  OBVIOUS
<1>1. folder \in [Folder -> FolderRow] /\ RootStays(folder) /\ ParentsLive(folder, stray)
  BY IdsAreNumbers DEF KnowledgeInit, FolderRow, NoFolder, Existence, RootStays, ParentsLive
<1>2. HangTogether(folder)
  BY IdsAreNumbers, BeneathFacts DEF KnowledgeInit, NoFolder, HangTogether
<1>3. doc \in [Doc -> DocRow] /\ DocsPlaced(doc, folder, stray)
  <2>1. LET m == [NoDoc EXCEPT !.state = "live", !.folder = 1, !.readOnly = TRUE]
        IN  m \in DocRow /\ m.memory = FALSE /\ m.folder = 1
    BY NoDocRow, IdsAreNumbers DEF DocRow, Existence
  <2> DEFINE m == [NoDoc EXCEPT !.state = "live", !.folder = 1, !.readOnly = TRUE]
  <2>2. m \in DocRow /\ m.memory = FALSE /\ m.folder = 1 /\ \A d \in Doc : doc[d] = IF d \in Mirror THEN m ELSE NoDoc
    BY <2>1 DEF KnowledgeInit
  <2>3. doc = [d \in Doc |-> IF d \in Mirror THEN m ELSE NoDoc]
    BY DEF KnowledgeInit
  <2> HIDE DEF m
  <2>4. doc \in [Doc -> DocRow]
    BY <2>2, <2>3, NoDocRow
  <2> QED
    BY <1>1, <2>2, <2>4, NoDocRow, IdsAreNumbers DEF DocsPlaced, RootStays
<1>4. /\ kbFile \in [KbFile -> FileRow] /\ FilesPlaced(kbFile, folder, blob, stray)
      /\ comment \in [Comment -> NoteRow] /\ RepliesPlaced(comment, stray)
  BY DEF KnowledgeInit, NoKbFile, NoComment, FileRow, NoteRow, Existence, FilesPlaced, RepliesPlaced
<1>5. tray \in [Tray -> TrayRow] /\ TrayFits /\ UploadsApart
  BY EmptyRow DEF KnowledgeInit, TrayFits, UploadsApart
<1> QED
  BY <1>1, <1>2, <1>3, <1>4, <1>5 DEF KnowledgeInit, KnowledgeInv, KnowledgeType

-----------------------------------------------------------------------------
(* What a step does to the requests in flight *)

LEMMA TrayMoves ==
  ASSUME KnowledgeInv, NEW t \in Tray, NEW r \in TrayRow, tray' = [tray EXCEPT ![t] = r],
         RowFits(r, folder', kbFile', comment', blob', stray', crossed'),
         r.op = "upload" => \A u \in Tray : u /= t /\ tray[u].op = "upload" => tray[u].id /= r.id,
         \A u \in Tray : u /= t /\ RowFits(tray[u], folder, kbFile, comment, blob, stray, crossed)
                          => RowFits(tray[u], folder', kbFile', comment', blob', stray', crossed')
  PROVE  tray' \in [Tray -> TrayRow] /\ TrayFits' /\ UploadsApart'
<1>1. tray \in [Tray -> TrayRow]
  BY DEF KnowledgeInv, KnowledgeType
<1>2. \A u \in Tray : tray'[u] = IF u = t THEN r ELSE tray[u]
  BY <1>1
<1>3. TrayFits'
  BY <1>2 DEF KnowledgeInv, TrayFits
<1>4. UploadsApart'
  BY <1>2 DEF KnowledgeInv, UploadsApart
<1> QED
  BY <1>1, <1>3, <1>4

\* Requests leave, and the rest makes none of the others unfit.
LEMMA TrayRests ==
  ASSUME KnowledgeInv, tray' = tray \/ \E t \in Tray : tray' = [tray EXCEPT ![t] = Empty],
         \A u \in Tray : RowFits(tray[u], folder, kbFile, comment, blob, stray, crossed)
                          => RowFits(tray[u], folder', kbFile', comment', blob', stray', crossed')
  PROVE  tray' \in [Tray -> TrayRow] /\ TrayFits' /\ UploadsApart'
<1>1. CASE tray' = tray
  BY <1>1 DEF KnowledgeInv, KnowledgeType, TrayFits, UploadsApart
<1>2. ASSUME NEW t \in Tray, tray' = [tray EXCEPT ![t] = Empty]
      PROVE  tray' \in [Tray -> TrayRow] /\ TrayFits' /\ UploadsApart'
  BY <1>2, EmptyRow, TrayMoves
<1> QED
  BY <1>1, <1>2

\* A request that has only read.
LEMMA RequestTaken ==
  ASSUME KnowledgeInv, NEW t \in Tray, NEW r \in TrayRow, Takes(t, r), r.op /= "upload",
         RowFits(r, folder, kbFile, comment, blob, stray, crossed),
         UNCHANGED <<folder, doc, kbFile, comment, blob, stray, crossed>>
  PROVE  KnowledgeInv'
<1>1. tray' = [tray EXCEPT ![t] = r]
  BY DEF Takes
<1>2. tray' \in [Tray -> TrayRow] /\ TrayFits' /\ UploadsApart'
  BY <1>1, TrayMoves
<1> QED
  BY <1>2 DEF KnowledgeInv, KnowledgeType

LEMMA FolderRequests ==
  ASSUME KnowledgeInv, NEW t \in Tray,
         createKnowledgeFolder(t) \/ moveKnowledgeFolder(t) \/ deleteKnowledgeFolder(t)
  PROVE  KnowledgeInv'
<1>0. folder \in [Folder -> FolderRow] /\ kbFile \in [KbFile -> FileRow] /\ kbFolder \subseteq Folder
  BY DEF KnowledgeInv, KnowledgeType, kbFolder
<1>1. CASE createKnowledgeFolder(t)
  <2>1. PICK u \in Member, f \in kbFolder : Takes(t, Request("newFolder", u, 0, f))
    BY <1>1 DEF createKnowledgeFolder
  <2> DEFINE r == Request("newFolder", u, 0, f)
  <2>2. r \in TrayRow /\ r.op = "newFolder" /\ r.to = f /\ r.list = {}
    <3>1. f \in Nat /\ 0 \in Nat /\ u \in Member \cup {0}
      BY <1>0, IdsAreNumbers
    <3> QED
      BY <3>1, RequestRow
  <2>3. Takes(t, r) /\ UNCHANGED <<folder, doc, kbFile, comment, blob, stray, crossed>>
    BY <1>1, <2>1 DEF createKnowledgeFolder
  <2> HIDE DEF r
  <2>4. RowFits(r, folder, kbFile, comment, blob, stray, crossed)
    BY <1>0, <2>2 DEF RowFits, kbFolder
  <2> QED
    BY <2>2, <2>3, <2>4, RequestTaken
<1>2. CASE moveKnowledgeFolder(t)
  <2>1. PICK f \in kbFolder \ {1}, u \in Member :
          \E g \in kbFolder \ Subtree(f) : Takes(t, Request("moveFolder", u, f, g))
    BY <1>2 DEF moveKnowledgeFolder
  <2>2. PICK g \in kbFolder \ Subtree(f) : Takes(t, Request("moveFolder", u, f, g))
    BY <2>1
  <2> DEFINE r == Request("moveFolder", u, f, g)
  <2>3. r \in TrayRow /\ r.op = "moveFolder" /\ r.id = f /\ r.to = g /\ r.list = {}
    <3>1. f \in Nat /\ g \in Nat /\ u \in Member \cup {0}
      BY <1>0, IdsAreNumbers
    <3> QED
      BY <3>1, RequestRow
  <2>4. Takes(t, r) /\ UNCHANGED <<folder, doc, kbFile, comment, blob, stray, crossed>>
    BY <1>2, <2>2 DEF moveKnowledgeFolder
  <2> HIDE DEF r
  <2>5. RowFits(r, folder, kbFile, comment, blob, stray, crossed)
    BY <1>0, <2>3 DEF RowFits, kbFolder, Subtree
  <2> QED
    BY <2>3, <2>4, <2>5, RequestTaken
<1>3. CASE deleteKnowledgeFolder(t)
  <2>1. PICK f \in kbFolder \ {1}, u \in Member :
          Takes(t, [Request("dropFolder", u, f, 0) EXCEPT !.list = {x \in kbFileRow : kbFile[x].folder \in Subtree(f)}])
    BY <1>3 DEF deleteKnowledgeFolder
  <2> DEFINE q == Request("dropFolder", u, f, 0)
             list == {x \in kbFileRow : kbFile[x].folder \in Subtree(f)}
             r == [q EXCEPT !.list = list]
  <2>2. q \in TrayRow /\ q.op = "dropFolder" /\ q.id = f
    <3>1. f \in Nat /\ 0 \in Nat /\ u \in Member \cup {0}
      BY <1>0, IdsAreNumbers
    <3> QED
      BY <3>1, RequestRow
  <2>3. Takes(t, r) /\ UNCHANGED <<folder, doc, kbFile, comment, blob, stray, crossed>>
    BY <1>3, <2>1 DEF deleteKnowledgeFolder
  <2>4. \A x \in list : x \in KbFile /\ kbFile[x].state = "live" /\ kbFile[x].folder \in Beneath(Folder, folder, f)
    BY DEF kbFileRow, Subtree
  <2> HIDE DEF q, list
  <2>5. r \in TrayRow /\ r.op = "dropFolder" /\ r.id = f /\ r.list = list
    BY <2>2, <2>4 DEF TrayRow
  <2> HIDE DEF r
  <2>6. RowFits(r, folder, kbFile, comment, blob, stray, crossed)
    BY <1>0, <2>4, <2>5 DEF RowFits, kbFolder
  <2> QED
    BY <2>3, <2>5, <2>6, RequestTaken
<1> QED
  BY <1>1, <1>2, <1>3

\* A request about documents or comments, or to move a file, has nothing to fear from the tree.
LEMMA RowRequests ==
  ASSUME KnowledgeInv, NEW t \in Tray, NEW r \in TrayRow, Takes(t, r), r.list = {},
         \/ r.op = "newDoc" /\ r.to \in Folder
         \/ r.op = "moveDoc" /\ r.to \in Folder /\ r.id \in Doc
         \/ r.op \in {"save", "dropDoc", "revert"} /\ r.id \in Doc
         \/ r.op = "remember" /\ r.to \in Folder /\ r.id \in Doc \cup {0}
         \/ /\ r.op = "comment" /\ r.id \in Doc
            /\ r.to /= 0 => r.to \in Comment /\ comment[r.to].state /= "none" /\ comment[r.to].parent = 0
         \/ r.op = "moveFile" /\ r.id \in KbFile /\ r.to \in Folder,
         UNCHANGED <<folder, doc, kbFile, comment, blob, stray, crossed>>
  PROVE  KnowledgeInv'
<1>1. RowFits(r, folder, kbFile, comment, blob, stray, crossed)
  BY DEF RowFits
<1> QED
  BY <1>1, RequestTaken

LEMMA DocumentRequests ==
  ASSUME KnowledgeInv, NEW t \in Tray,
         \/ createKnowledgeDocument(t) \/ updateKnowledgeDocument(t) \/ moveKnowledgeDocument(t)
         \/ deleteKnowledgeDocument(t) \/ restoreKnowledgeDocumentVersion(t) \/ rememberZyraMemory(t)
  PROVE  KnowledgeInv'
<1>0. /\ doc \in [Doc -> DocRow] /\ kbFolder \subseteq Folder /\ kbDocument \subseteq Doc
      /\ kbFolder \subseteq Nat /\ kbDocument \subseteq Nat /\ 0 \in Nat /\ 1 \in Nat
  BY IdsAreNumbers DEF KnowledgeInv, KnowledgeType, kbFolder, kbDocument
\* The request carries what was read.
<1>1. ASSUME NEW op \in {"newDoc", "save", "moveDoc", "dropDoc", "revert", "remember"}, NEW u \in Member \cup {0},
             NEW id \in Nat, NEW to \in Nat, NEW read \in DocRow,
             Takes(t, [Request(op, u, id, to) EXCEPT !.read = read]),
             \/ op = "newDoc" /\ to \in Folder
             \/ op \in {"save", "dropDoc", "revert"} /\ id \in Doc
             \/ op = "moveDoc" /\ to \in Folder /\ id \in Doc
             \/ op = "remember" /\ to \in Folder /\ id \in Doc \cup {0},
             UNCHANGED <<folder, doc, kbFile, comment, blob, stray, crossed>>
      PROVE  KnowledgeInv'
  <2> DEFINE q == Request(op, u, id, to)
             r == [q EXCEPT !.read = read]
  <2>0. op \in {"newFolder", "moveFolder", "dropFolder", "purge", "newDoc", "save", "moveDoc", "dropDoc", "revert",
                "remember", "comment", "upload", "moveFile"}
    OBVIOUS
  <2>1. q \in TrayRow /\ q.op = op /\ q.id = id /\ q.to = to /\ q.list = {}
    BY <2>0, RequestRow
  <2>2. Takes(t, r)
    BY <1>1
  <2> HIDE DEF q
  <2>3. r \in TrayRow /\ r.op = op /\ r.id = id /\ r.to = to /\ r.list = {}
    BY <2>1 DEF TrayRow
  <2> HIDE DEF r
  <2> QED
    BY <1>1, <2>2, <2>3, RowRequests
<1>p. ASSUME NEW op \in {"moveDoc", "dropDoc"}, NEW u \in Member, NEW id \in Doc, NEW to \in Nat,
             op = "moveDoc" => to \in Folder, Takes(t, Request(op, u, id, to)), UNCHANGED <<folder, doc, kbFile, comment, blob, stray, crossed>>
      PROVE  KnowledgeInv'
  <2> DEFINE r == Request(op, u, id, to)
  <2>0. /\ op \in {"newFolder", "moveFolder", "dropFolder", "purge", "newDoc", "save", "moveDoc", "dropDoc", "revert",
                   "remember", "comment", "upload", "moveFile"}
        /\ u \in Member \cup {0} /\ id \in Nat
    BY IdsAreNumbers
  <2>1. r \in TrayRow /\ r.op = op /\ r.id = id /\ r.to = to /\ r.list = {}
    BY <2>0, RequestRow
  <2>2. Takes(t, r)
    BY <1>p
  <2> HIDE DEF r
  <2> QED
    BY <1>p, <2>1, <2>2, RowRequests
<1>2. CASE createKnowledgeDocument(t)
  <2>1. PICK u \in Member, f \in kbFolder, m \in BOOLEAN, k \in {"general", "ai_memory"} :
          Takes(t, [Request("newDoc", u, 0, f) EXCEPT !.read = [NoDoc EXCEPT !.memory = m, !.kind = k]])
    BY <1>2 DEF createKnowledgeDocument
  <2>2. [NoDoc EXCEPT !.memory = m, !.kind = k] \in DocRow
    BY NoDocRow DEF DocRow
  <2>3. UNCHANGED <<folder, doc, kbFile, comment, blob, stray, crossed>> /\ f \in Folder /\ f \in Nat
    BY <1>0, <1>2 DEF createKnowledgeDocument
  <2> QED
    BY <1>0, <1>1, <2>1, <2>2, <2>3, SMTT(60)
<1>3. CASE updateKnowledgeDocument(t)
  <2>1. PICK d \in kbDocument, u \in Member, retitle \in BOOLEAN :
          Takes(t, [Request("save", u, d, IF retitle THEN 1 ELSE 0) EXCEPT !.read = doc[d]])
    BY <1>3 DEF updateKnowledgeDocument
  <2>2. /\ UNCHANGED <<folder, doc, kbFile, comment, blob, stray, crossed>>
        /\ d \in Doc /\ d \in Nat /\ doc[d] \in DocRow /\ (IF retitle THEN 1 ELSE 0) \in Nat
    BY <1>0, <1>3 DEF updateKnowledgeDocument
  <2> QED
    BY <1>1, <2>1, <2>2
<1>4. CASE moveKnowledgeDocument(t)
  <2>1. PICK d \in kbDocument, f \in kbFolder, u \in Member : Takes(t, Request("moveDoc", u, d, f))
    BY <1>4 DEF moveKnowledgeDocument
  <2>2. UNCHANGED <<folder, doc, kbFile, comment, blob, stray, crossed>> /\ d \in Doc /\ f \in Folder /\ f \in Nat
    BY <1>0, <1>4 DEF moveKnowledgeDocument
  <2> QED
    BY <1>p, <2>1, <2>2
<1>5. CASE deleteKnowledgeDocument(t)
  <2>1. PICK d \in kbDocument, u \in Member : Takes(t, Request("dropDoc", u, d, 0))
    BY <1>5 DEF deleteKnowledgeDocument
  <2>2. UNCHANGED <<folder, doc, kbFile, comment, blob, stray, crossed>> /\ d \in Doc
    BY <1>0, <1>5 DEF deleteKnowledgeDocument
  <2> QED
    BY <1>0, <1>p, <2>1, <2>2
<1>6. CASE restoreKnowledgeDocumentVersion(t)
  <2>1. PICK d \in kbDocument, u \in Member : \E v \in doc[d].versions :
          Takes(t, [Request("revert", u, d, 0) EXCEPT !.read = [doc[d] EXCEPT !.versions = {v}]])
    BY <1>6 DEF restoreKnowledgeDocumentVersion
  <2>2. PICK v \in doc[d].versions :
          Takes(t, [Request("revert", u, d, 0) EXCEPT !.read = [doc[d] EXCEPT !.versions = {v}]])
    BY <2>1
  <2>3. d \in Doc /\ d \in Nat /\ doc[d] \in DocRow
    BY <1>0
  <2>4. [doc[d] EXCEPT !.versions = {v}] \in DocRow
    BY <2>3 DEF DocRow
  <2>5. UNCHANGED <<folder, doc, kbFile, comment, blob, stray, crossed>>
    BY <1>6 DEF restoreKnowledgeDocumentVersion
  <2> QED
    BY <1>0, <1>1, <2>2, <2>3, <2>4, <2>5
<1>7. CASE rememberZyraMemory(t)
  <2>1. PICK f \in kbFolder : \E d \in {0} \cup {e \in kbDocument : doc[e].memory} :
          Takes(t, [Request("remember", 0, d, f) EXCEPT !.read = IF d = 0 THEN NoDoc ELSE doc[d]])
    BY <1>7 DEF rememberZyraMemory
  <2>2. PICK d \in {0} \cup {e \in kbDocument : doc[e].memory} :
          Takes(t, [Request("remember", 0, d, f) EXCEPT !.read = IF d = 0 THEN NoDoc ELSE doc[d]])
    BY <2>1
  <2>3. d \in Doc \cup {0} /\ d \in Nat /\ f \in Folder /\ f \in Nat
    BY <1>0
  <2>4. (IF d = 0 THEN NoDoc ELSE doc[d]) \in DocRow
    BY <1>0, <2>3, NoDocRow
  <2>5. UNCHANGED <<folder, doc, kbFile, comment, blob, stray, crossed>>
    BY <1>7 DEF rememberZyraMemory
  <2> QED
    BY <1>1, <2>2, <2>3, <2>4, <2>5
<1> QED
  BY <1>2, <1>3, <1>4, <1>5, <1>6, <1>7

LEMMA OtherRequests ==
  ASSUME KnowledgeInv, NEW t \in Tray, createKnowledgeDocumentComment(t) \/ moveKnowledgeFile(t)
  PROVE  KnowledgeInv'
<1>1. CASE createKnowledgeDocumentComment(t)
  <2>1. PICK d \in kbDocument, u \in Member :
          \E p \in {0} \cup {c \in Comments : comment[c].doc = d /\ comment[c].parent = 0} :
            Takes(t, Request("comment", u, d, p))
    BY <1>1 DEF createKnowledgeDocumentComment
  <2>2. PICK p \in {0} \cup {c \in Comments : comment[c].doc = d /\ comment[c].parent = 0} :
          Takes(t, Request("comment", u, d, p))
    BY <2>1
  <2> DEFINE r == Request("comment", u, d, p)
  <2>3. /\ d \in Doc /\ d \in Nat /\ p \in Nat /\ u \in Member \cup {0}
        /\ p /= 0 => p \in Comment /\ comment[p].state /= "none" /\ comment[p].parent = 0
    <3>1. d \in Doc /\ u \in Member \cup {0}
      BY DEF kbDocument
    <3>2. p /= 0 => p \in Comment /\ comment[p].state /= "none" /\ comment[p].parent = 0
      BY DEF Comments
    <3>3. d \in Nat
      BY <3>1, IdsAreNumbers
    <3>4. p \in Nat
      <4>1. 0 \in Nat /\ Comment \subseteq Nat
        BY IdsAreNumbers
      <4> QED
        BY <3>2, <4>1
    <3> QED
      BY <3>1, <3>2, <3>3, <3>4
  <2>4. r \in TrayRow /\ r.op = "comment" /\ r.id = d /\ r.to = p /\ r.list = {}
    BY <2>3, RequestRow
  <2>5. Takes(t, r) /\ UNCHANGED <<folder, doc, kbFile, comment, blob, stray, crossed>>
    BY <1>1, <2>2 DEF createKnowledgeDocumentComment
  <2> HIDE DEF r
  <2> QED
    BY <2>3, <2>4, <2>5, RowRequests
<1>2. CASE moveKnowledgeFile(t)
  <2>1. PICK x \in kbFileRow, f \in kbFolder, u \in Member : Takes(t, Request("moveFile", u, x, f))
    BY <1>2 DEF moveKnowledgeFile
  <2> DEFINE r == Request("moveFile", u, x, f)
  <2>2. x \in KbFile /\ x \in Nat /\ f \in Folder /\ f \in Nat /\ u \in Member \cup {0}
    BY IdsAreNumbers DEF kbFileRow, kbFolder
  <2>3. r \in TrayRow /\ r.op = "moveFile" /\ r.id = x /\ r.to = f /\ r.list = {}
    BY <2>2, RequestRow, SMTT(60)
  <2>4. Takes(t, r) /\ UNCHANGED <<folder, doc, kbFile, comment, blob, stray, crossed>>
    BY <1>2, <2>1 DEF moveKnowledgeFile
  <2> HIDE DEF r
  <2> QED
    BY <2>2, <2>3, <2>4, RowRequests
<1> QED
  BY <1>1, <1>2

-----------------------------------------------------------------------------
(* The writes to documents, comments and files *)

\* A document's row is written, and the request that did it is gone.
LEMMA DocWritten ==
  ASSUME KnowledgeInv, tray' = tray \/ \E t \in Tray : tray' = [tray EXCEPT ![t] = Empty],
         NEW d \in Doc, NEW row \in DocRow, doc' = [doc EXCEPT ![d] = row], stray \subseteq stray',
         UNCHANGED <<folder, kbFile, comment, blob, crossed>>,
         <<"doc", d>> \notin stray' =>
           /\ row.memory => row.state = "live"
           /\ row.state = "live" => row.folder \in Folder /\ folder[row.folder].state = "live"
  PROVE  KnowledgeInv'
<1>1. tray' \in [Tray -> TrayRow] /\ TrayFits' /\ UploadsApart'
  BY FitsStrayed, TrayRests
<1>2. doc' \in [Doc -> DocRow] /\ \A e \in Doc : doc'[e] = IF e = d THEN row ELSE doc[e]
  BY DEF KnowledgeInv, KnowledgeType
<1>3. DocsPlaced(doc', folder', stray')
  BY <1>2 DEF KnowledgeInv, DocsPlaced
<1>4. ParentsLive(folder', stray') /\ FilesPlaced(kbFile', folder', blob', stray') /\ RepliesPlaced(comment', stray')
  BY DEF KnowledgeInv, ParentsLive, FilesPlaced, RepliesPlaced
<1> QED
  BY <1>1, <1>2, <1>3, <1>4 DEF KnowledgeInv, KnowledgeType

\* A write that leaves the folder and the state of the row as they are, and does not name it the memory.
LEMMA DocRewritten ==
  ASSUME KnowledgeInv, tray' = tray \/ \E t \in Tray : tray' = [tray EXCEPT ![t] = Empty],
         NEW d \in Doc, NEW row \in DocRow, doc' = [doc EXCEPT ![d] = row], stray \subseteq stray',
         UNCHANGED <<folder, kbFile, comment, blob, crossed>>,
         row.state = doc[d].state, row.folder = doc[d].folder,
         row.memory => doc[d].memory \/ doc[d].state = "live" \/ <<"doc", d>> \in stray'
  PROVE  KnowledgeInv'
<1>1. <<"doc", d>> \notin stray' =>
           /\ row.memory => row.state = "live"
           /\ row.state = "live" => row.folder \in Folder /\ folder[row.folder].state = "live"
  BY DEF KnowledgeInv, DocsPlaced
<1> QED
  BY <1>1, DocWritten

LEMMA DocumentInserted ==
  ASSUME KnowledgeInv, NEW t \in Tray, InsertDocument(t)
  PROVE  KnowledgeInv'
<1> DEFINE r == tray[t]
<1>1. r \in TrayRow /\ RowFits(r, folder, kbFile, comment, blob, stray, crossed)
  BY DEF KnowledgeInv, KnowledgeType, TrayFits
<1>2. r.op = "newDoc" /\ tray' = [tray EXCEPT ![t] = Empty] /\ UNCHANGED <<folder, kbFile, comment, blob, crossed>>
  BY DEF InsertDocument, Puts
<1>3. PICK d \in Fresh(Doc, doc) :
         /\ doc' = [doc EXCEPT ![d] = [r.read EXCEPT !.state = "live", !.folder = r.to, !.owner = r.who]]
         /\ Strayed(<<"doc", d>>, r.to)
  BY DEF InsertDocument
<1> DEFINE row == [r.read EXCEPT !.state = "live", !.folder = r.to, !.owner = r.who]
<1>4. r.read \in DocRow /\ r.who \in Member \cup {0} /\ r.to \in Folder
  BY <1>1, <1>2 DEF TrayRow, RowFits
<1>5. doc' = [doc EXCEPT ![d] = row] /\ d \in Doc
  BY <1>3 DEF Fresh
<1> HIDE DEF r
<1>6. row \in DocRow /\ row.state = "live" /\ row.folder = r.to
  BY <1>4 DEF DocRow, Existence
<1>7. stray \subseteq stray' /\ (<<"doc", d>> \notin stray' => folder[r.to].state = "live")
  BY <1>3 DEF Strayed, kbFolder
<1> HIDE DEF row
<1> QED
  BY <1>2, <1>4, <1>5, <1>6, <1>7, DocWritten

LEMMA DocumentSaved ==
  ASSUME KnowledgeInv, NEW t \in Tray, SaveDocument(t)
  PROVE  KnowledgeInv'
<1> DEFINE r == tray[t]
<1>1. r \in TrayRow /\ RowFits(r, folder, kbFile, comment, blob, stray, crossed) /\ doc \in [Doc -> DocRow]
  BY DEF KnowledgeInv, KnowledgeType, TrayFits
<1>2. r.op = "save" /\ tray' = [tray EXCEPT ![t] = Empty] /\ UNCHANGED <<folder, kbFile, comment, blob, crossed>>
  BY DEF SaveDocument, Puts
<1>3. r.id \in Doc /\ r.read \in DocRow
  BY <1>1, <1>2, SMTT(60) DEF RowFits, TrayRow
<1>4. PICK snapshot \in BOOLEAN, status \in {"draft", "published"} :
         doc' = [doc EXCEPT ![r.id].memory = r.read.memory \/ r.to = 1,
                            ![r.id].text = IF r.to = 1 THEN r.read.text ELSE r.read.text + 1,
                            ![r.id].status = CASE r.read.kind /= "ai_memory" -> status
                                               [] r.read.status = "approved" -> "draft"
                                               [] OTHER -> r.read.status,
                            ![r.id].versions = IF snapshot THEN @ \cup {<<r.read.memory, r.read.text>>} ELSE @]
  BY ZenonT(60) DEF SaveDocument
<1>5. stray' = IF doc[r.id].state = "live" THEN stray ELSE stray \cup {<<"doc", r.id>>}
  BY ZenonT(60) DEF SaveDocument
<1> DEFINE d == r.id
           m == (r.read.memory \/ r.to = 1)
           x == IF r.to = 1 THEN r.read.text ELSE r.read.text + 1
           s == CASE r.read.kind /= "ai_memory" -> status
                  [] r.read.status = "approved" -> "draft"
                  [] OTHER -> r.read.status
           v == IF snapshot THEN doc[d].versions \cup {<<r.read.memory, r.read.text>>} ELSE doc[d].versions
           row == [doc[d] EXCEPT !.memory = m, !.text = x, !.status = s, !.versions = v]
<1>w. doc' = [doc EXCEPT ![d].memory = m, ![d].text = x, ![d].status = s,
                         ![d].versions = IF snapshot THEN @ \cup {<<r.read.memory, r.read.text>>} ELSE @]
  BY <1>4
<1>7. x \in Nat /\ s \in {"draft", "published", "approved", "rejected"} /\ v \in SUBSET (BOOLEAN \X Nat)
  BY <1>1, <1>3 DEF DocRow
<1>8. m \in BOOLEAN
  BY SMTT(60)
<1> HIDE DEF m, x, s
<1>6. doc' = [doc EXCEPT ![d] = row]
  <2>1. \A e \in Doc \ {d} : doc'[e] = doc[e]
    BY <1>1, <1>w
  <2>2. doc'[d] = row
    BY <1>1, <1>3, <1>w DEF DocRow
  <2> QED
    BY <1>1, <1>3, <1>w, <2>1, <2>2
<1> HIDE DEF r, m, x, s, v
<1>9. row \in DocRow /\ row.state = doc[d].state /\ row.folder = doc[d].folder
  BY <1>1, <1>3, <1>7, <1>8, ZenonT(60) DEF DocRow
<1> HIDE DEF row
<1>10. stray \subseteq stray' /\ (doc[d].state = "live" \/ <<"doc", d>> \in stray')
  BY <1>5
<1> QED
  BY <1>2, <1>3, <1>6, <1>9, <1>10, DocRewritten

LEMMA DocumentMoved ==
  ASSUME KnowledgeInv, NEW t \in Tray, WriteDocumentMove(t)
  PROVE  KnowledgeInv'
<1> DEFINE r == tray[t]
           d == r.id
           row == [doc[d] EXCEPT !.folder = r.to]
<1>1. r \in TrayRow /\ RowFits(r, folder, kbFile, comment, blob, stray, crossed) /\ doc \in [Doc -> DocRow]
  BY DEF KnowledgeInv, KnowledgeType, TrayFits
<1>2. r.op = "moveDoc" /\ tray' = [tray EXCEPT ![t] = Empty] /\ UNCHANGED <<folder, kbFile, comment, blob, crossed>>
  BY DEF WriteDocumentMove, Puts
<1>3. r.id \in Doc /\ r.to \in Folder
  BY <1>1, <1>2 DEF RowFits
<1>4. doc' = [doc EXCEPT ![d] = row] /\ Strayed(<<"doc", d>>, r.to)
  BY DEF WriteDocumentMove
<1> HIDE DEF r
<1>5. row \in DocRow /\ row.state = doc[d].state /\ row.memory = doc[d].memory /\ row.folder = r.to
  BY <1>1, <1>3 DEF DocRow
<1> HIDE DEF row
<1>6. stray \subseteq stray' /\ (<<"doc", d>> \notin stray' => folder[r.to].state = "live")
  BY <1>4 DEF Strayed, kbFolder
<1>7. <<"doc", d>> \notin stray' => (row.memory => row.state = "live")
  BY <1>3, <1>5, <1>6 DEF KnowledgeInv, DocsPlaced
<1> QED
  BY <1>2, <1>3, <1>4, <1>5, <1>6, <1>7, DocWritten

LEMMA DocumentDropped ==
  ASSUME KnowledgeInv, NEW t \in Tray, DropDocument(t)
  PROVE  KnowledgeInv'
<1> DEFINE r == tray[t]
           d == r.id
           row == [doc[d] EXCEPT !.state = "deleted"]
<1>1. r \in TrayRow /\ RowFits(r, folder, kbFile, comment, blob, stray, crossed) /\ doc \in [Doc -> DocRow]
  BY DEF KnowledgeInv, KnowledgeType, TrayFits
<1>2. r.op = "dropDoc" /\ tray' = [tray EXCEPT ![t] = Empty] /\ UNCHANGED <<folder, kbFile, comment, blob, crossed>>
  BY DEF DropDocument, Puts
<1>3. d \in Doc
  BY <1>1, <1>2 DEF RowFits
<1>4. doc' = [doc EXCEPT ![d] = row] /\ stray' = IF doc[d].memory THEN stray \cup {<<"doc", d>>} ELSE stray
  BY DEF DropDocument
<1> HIDE DEF r, d
<1>5. row \in DocRow /\ row.state = "deleted" /\ row.memory = doc[d].memory
  BY <1>1, <1>3 DEF DocRow, Existence
<1> HIDE DEF row
<1>6. stray \subseteq stray' /\ (<<"doc", d>> \notin stray' => ~row.memory)
  BY <1>4, <1>5
<1> QED
  BY <1>2, <1>3, <1>4, <1>5, <1>6, DocWritten

LEMMA DocumentReverted ==
  ASSUME KnowledgeInv, NEW t \in Tray, RevertDocument(t)
  PROVE  KnowledgeInv'
<1> DEFINE r == tray[t]
<1>1. r \in TrayRow /\ RowFits(r, folder, kbFile, comment, blob, stray, crossed) /\ doc \in [Doc -> DocRow]
  BY DEF KnowledgeInv, KnowledgeType, TrayFits
<1>2. r.op = "revert" /\ tray' = [tray EXCEPT ![t] = Empty] /\ UNCHANGED <<folder, kbFile, comment, blob, crossed>>
  BY DEF RevertDocument, Puts
<1>3. r.id \in Doc /\ r.read \in DocRow
  BY <1>1, <1>2, SMTT(60) DEF RowFits, TrayRow
<1>4. PICK v \in r.read.versions :
         doc' = [doc EXCEPT ![r.id].memory = v[1], ![r.id].text = v[2],
                            ![r.id].versions = @ \cup {<<r.read.memory, r.read.text>>}]
  BY DEF RevertDocument
<1>5. stray' = IF doc[r.id].state = "live" THEN stray ELSE stray \cup {<<"doc", r.id>>}
  BY SMTT(60) DEF RevertDocument
<1> DEFINE d == r.id
           m == v[1]
           x == v[2]
           old == doc[d].versions \cup {<<r.read.memory, r.read.text>>}
           row == [doc[d] EXCEPT !.memory = m, !.text = x, !.versions = old]
<1>6. doc' = [doc EXCEPT ![d] = row]
  BY <1>1, <1>3, <1>4 DEF DocRow
<1>7. m \in BOOLEAN /\ x \in Nat /\ old \in SUBSET (BOOLEAN \X Nat)
  BY <1>1, <1>3, <1>4 DEF DocRow
<1> HIDE DEF r, m, x, old
<1>8. row \in DocRow /\ row.state = doc[d].state /\ row.folder = doc[d].folder
  BY <1>1, <1>3, <1>7 DEF DocRow
<1> HIDE DEF row
<1>9. stray \subseteq stray' /\ (doc[d].state = "live" \/ <<"doc", d>> \in stray')
  BY <1>5
<1> QED
  BY <1>2, <1>3, <1>6, <1>8, <1>9, DocRewritten

LEMMA MemoryWritten ==
  ASSUME KnowledgeInv, NEW t \in Tray, WriteMemory(t)
  PROVE  KnowledgeInv'
<1> DEFINE r == tray[t]
<1>1. r \in TrayRow /\ RowFits(r, folder, kbFile, comment, blob, stray, crossed) /\ doc \in [Doc -> DocRow]
  BY DEF KnowledgeInv, KnowledgeType, TrayFits
<1>2. r.op = "remember" /\ tray' = [tray EXCEPT ![t] = Empty] /\ UNCHANGED <<folder, kbFile, comment, blob, crossed>>
  BY DEF WriteMemory, Puts
<1>3. r.id \in Doc \cup {0} /\ r.to \in Folder /\ r.read \in DocRow
  BY <1>1, <1>2 DEF RowFits, TrayRow
<1>4. CASE r.id > 0 /\ doc' = [doc EXCEPT ![r.id].text = r.read.text + 1] /\ UNCHANGED stray
  <2> DEFINE d == r.id
             row == [doc[d] EXCEPT !.text = r.read.text + 1]
  <2>1. d \in Doc /\ doc' = [doc EXCEPT ![d] = row]
    BY <1>3, <1>4
  <2>2. r.read.text + 1 \in Nat
    BY <1>3 DEF DocRow
  <2> HIDE DEF r, d
  <2>3. row \in DocRow /\ row.state = doc[d].state /\ row.folder = doc[d].folder /\ row.memory = doc[d].memory
    BY <1>1, <2>1, <2>2 DEF DocRow
  <2> HIDE DEF row
  <2> QED
    BY <1>2, <1>4, <2>1, <2>3, DocRewritten
<1>5. ASSUME NEW d \in Fresh(Doc, doc),
             doc' = [doc EXCEPT ![d] = [NoDoc EXCEPT !.state = "live", !.folder = r.to, !.memory = TRUE,
                                                     !.status = "published"]],
             Strayed(<<"doc", d>>, r.to)
      PROVE  KnowledgeInv'
  <2> DEFINE row == [NoDoc EXCEPT !.state = "live", !.folder = r.to, !.memory = TRUE, !.status = "published"]
  <2>1. d \in Doc /\ doc' = [doc EXCEPT ![d] = row]
    BY <1>5 DEF Fresh
  <2> HIDE DEF r
  <2>2. row \in DocRow /\ row.state = "live" /\ row.folder = r.to
    BY <1>3, NoDocRow DEF DocRow, Existence
  <2> HIDE DEF row
  <2>3. stray \subseteq stray' /\ (<<"doc", d>> \notin stray' => folder[r.to].state = "live")
    BY <1>5 DEF Strayed, kbFolder
  <2> QED
    BY <1>2, <1>3, <2>1, <2>2, <2>3, DocWritten
<1> QED
  BY <1>4, <1>5 DEF WriteMemory

LEMMA DocumentDuplicated ==
  ASSUME KnowledgeInv, duplicateKnowledgeDocument
  PROVE  KnowledgeInv'
<1>1. doc \in [Doc -> DocRow] /\ tray' = tray /\ UNCHANGED <<folder, kbFile, comment, blob, crossed>>
  BY DEF KnowledgeInv, KnowledgeType, duplicateKnowledgeDocument
<1>2. PICK d \in kbDocument, n \in Fresh(Doc, doc), u \in Member :
         /\ doc' = [doc EXCEPT ![n] = [NoDoc EXCEPT !.state = "live", !.folder = doc[d].folder, !.owner = u,
                                                    !.text = doc[d].text, !.kind = doc[d].kind]]
         /\ Strayed(<<"doc", n>>, doc[d].folder)
  BY DEF duplicateKnowledgeDocument
<1> DEFINE f == doc[d].folder
           x == doc[d].text
           k == doc[d].kind
           row == [NoDoc EXCEPT !.state = "live", !.folder = f, !.owner = u, !.text = x, !.kind = k]
<1>3. n \in Doc /\ doc' = [doc EXCEPT ![n] = row] /\ Strayed(<<"doc", n>>, f)
  BY <1>2 DEF Fresh
<1>4. f \in Folder \cup {0} /\ x \in Nat /\ k \in {"general", "ai_memory"}
  BY <1>1 DEF kbDocument, DocRow
<1> HIDE DEF f, x, k
<1>5. row \in DocRow /\ row.state = "live" /\ row.folder = f
  BY <1>4, NoDocRow DEF DocRow, Existence
<1> HIDE DEF row
<1>6. stray \subseteq stray' /\ (<<"doc", n>> \notin stray' => f \in Folder /\ folder[f].state = "live")
  BY <1>3 DEF Strayed, kbFolder
<1> QED
  BY <1>1, <1>3, <1>5, <1>6, DocWritten

LEMMA DocumentRestored ==
  ASSUME KnowledgeInv, restoreKnowledgeDocument
  PROVE  KnowledgeInv'
<1>1. doc \in [Doc -> DocRow] /\ tray' = tray /\ UNCHANGED <<folder, kbFile, comment, blob, crossed>>
  BY DEF KnowledgeInv, KnowledgeType, restoreKnowledgeDocument
<1>2. PICK d \in Doc : doc' = [doc EXCEPT ![d].state = "live"] /\ stray' = stray \cup {<<"doc", d>>}
  BY DEF restoreKnowledgeDocument
<1> DEFINE row == [doc[d] EXCEPT !.state = "live"]
<1>3. row \in DocRow /\ doc' = [doc EXCEPT ![d] = row]
  BY <1>1, <1>2 DEF DocRow, Existence
<1> HIDE DEF row
<1> QED
  BY <1>1, <1>2, <1>3, DocWritten

LEMMA MemoryReviewed ==
  ASSUME KnowledgeInv, reviewAiMemory
  PROVE  KnowledgeInv'
<1>1. doc \in [Doc -> DocRow] /\ UNCHANGED <<folder, kbFile, comment, blob, crossed, tray, stray>>
  BY DEF KnowledgeInv, KnowledgeType, reviewAiMemory
<1>2. PICK d \in kbDocument, u \in Member, s \in {"approved", "rejected"} : doc' = [doc EXCEPT ![d].status = s]
  BY DEF reviewAiMemory
<1> DEFINE row == [doc[d] EXCEPT !.status = s]
<1>3. d \in Doc /\ doc' = [doc EXCEPT ![d] = row]
  BY <1>2 DEF kbDocument
<1>4. row \in DocRow /\ row.state = doc[d].state /\ row.folder = doc[d].folder /\ row.memory = doc[d].memory
  BY <1>1, <1>3 DEF DocRow
<1> HIDE DEF row
<1> QED
  BY <1>1, <1>3, <1>4, DocRewritten

\* Comments change, and no comment that exists loses its row or gets another thread.
LEMMA NotesWritten ==
  ASSUME KnowledgeInv, tray' = tray \/ \E t \in Tray : tray' = [tray EXCEPT ![t] = Empty],
         comment' \in [Comment -> NoteRow], RepliesPlaced(comment', stray'), stray \subseteq stray',
         \A c \in Comment : comment[c].state /= "none"
                              => comment'[c].state /= "none" /\ comment'[c].parent = comment[c].parent,
         UNCHANGED <<folder, doc, kbFile, blob, crossed>>
  PROVE  KnowledgeInv'
<1>1. tray' \in [Tray -> TrayRow] /\ TrayFits' /\ UploadsApart'
  <2>1. \A u \in Tray : RowFits(tray[u], folder, kbFile, comment, blob, stray, crossed)
                          => RowFits(tray[u], folder', kbFile', comment', blob', stray', crossed')
    BY DEF RowFits
  <2> QED
    BY <2>1, TrayRests
<1>2. ParentsLive(folder', stray') /\ FilesPlaced(kbFile', folder', blob', stray') /\ DocsPlaced(doc', folder', stray')
  BY DEF KnowledgeInv, ParentsLive, FilesPlaced, DocsPlaced
<1> QED
  BY <1>1, <1>2 DEF KnowledgeInv, KnowledgeType

LEMMA CommentInserted ==
  ASSUME KnowledgeInv, NEW t \in Tray, InsertComment(t)
  PROVE  KnowledgeInv'
<1> DEFINE r == tray[t]
<1>1. /\ r \in TrayRow /\ RowFits(r, folder, kbFile, comment, blob, stray, crossed)
      /\ comment \in [Comment -> NoteRow] /\ RepliesPlaced(comment, stray)
  BY DEF KnowledgeInv, KnowledgeType, TrayFits
<1>2. r.op = "comment" /\ tray' = [tray EXCEPT ![t] = Empty] /\ UNCHANGED <<folder, doc, kbFile, blob, crossed>>
  BY DEF InsertComment, Puts
<1>3. PICK c \in Fresh(Comment, comment) :
         /\ comment' = [comment EXCEPT ![c] = [state |-> "live", doc |-> r.id, parent |-> r.to, author |-> r.who,
                                               resolved |-> FALSE]]
         /\ stray' = IF r.to \in {0} \cup Comments THEN stray ELSE stray \cup {<<"comment", c>>}
  BY DEF InsertComment
<1> DEFINE row == [state |-> "live", doc |-> r.id, parent |-> r.to, author |-> r.who, resolved |-> FALSE]
<1>4. /\ r.who \in Member \cup {0} /\ r.id \in Doc
      /\ r.to /= 0 => r.to \in Comment /\ comment[r.to].state /= "none" /\ comment[r.to].parent = 0
  BY <1>1, <1>2 DEF RowFits, TrayRow
<1>5. c \in Comment /\ comment[c].state = "none" /\ comment' = [comment EXCEPT ![c] = row]
  BY <1>3 DEF Fresh
<1> HIDE DEF r
<1>6. row \in NoteRow /\ row.state = "live" /\ row.parent = r.to
  BY <1>4 DEF NoteRow, Existence
<1> HIDE DEF row
<1>7. stray \subseteq stray' /\ (<<"comment", c>> \notin stray' => r.to = 0 \/ comment[r.to].state = "live")
  BY <1>3 DEF Comments
<1>8. comment' \in [Comment -> NoteRow] /\ \A k \in Comment : comment'[k] = IF k = c THEN row ELSE comment[k]
  BY <1>1, <1>5, <1>6
<1>9. RepliesPlaced(comment', stray')
  <2> SUFFICES ASSUME NEW k \in Comment
               PROVE  /\ comment'[k].parent /= 0 => /\ comment'[comment'[k].parent].state /= "none"
                                                    /\ comment'[comment'[k].parent].parent = 0
                      /\ comment'[k].state = "live" /\ <<"comment", k>> \notin stray'
                           => comment'[k].parent = 0 \/ comment'[comment'[k].parent].state = "live"
    BY DEF RepliesPlaced
  <2>1. CASE k = c
    BY <1>4, <1>5, <1>6, <1>7, <1>8, <2>1
  <2>2. CASE k /= c
    <3>1. comment[k].parent \in Comment \cup {0} /\ comment'[k] = comment[k]
      BY <1>1, <1>8, <2>2 DEF NoteRow
    <3>2. comment[k].parent /= 0 => comment'[comment[k].parent] = comment[comment[k].parent]
      BY <1>1, <1>5, <1>8, <3>1 DEF RepliesPlaced
    <3> QED
      BY <1>1, <1>7, <3>1, <3>2 DEF RepliesPlaced
  <2> QED
    BY <2>1, <2>2
<1> QED
  BY <1>2, <1>5, <1>7, <1>8, <1>9, NotesWritten

LEMMA ThreadResolved ==
  ASSUME KnowledgeInv, updateKnowledgeDocumentComment
  PROVE  KnowledgeInv'
<1>1. /\ comment \in [Comment -> NoteRow] /\ RepliesPlaced(comment, stray)
      /\ UNCHANGED <<folder, doc, kbFile, blob, crossed, tray, stray>>
  BY DEF KnowledgeInv, KnowledgeType, updateKnowledgeDocumentComment
<1>2. PICK c \in Comments : comment' = [comment EXCEPT ![c].resolved = ~@]
  BY DEF updateKnowledgeDocumentComment
<1> DEFINE b == ~comment[c].resolved
<1>3. c \in Comment /\ comment' = [comment EXCEPT ![c].resolved = b] /\ b \in BOOLEAN
  BY <1>2 DEF Comments
<1> HIDE DEF b
<1>4. /\ comment' \in [Comment -> NoteRow]
      /\ \A k \in Comment : comment'[k].state = comment[k].state /\ comment'[k].parent = comment[k].parent
  BY <1>1, <1>3 DEF NoteRow
<1>5. \A k \in Comment : comment[k].parent \in Comment \cup {0}
  BY <1>1 DEF NoteRow
<1>6. RepliesPlaced(comment', stray')
  BY <1>1, <1>4, <1>5, ZenonT(60) DEF RepliesPlaced
<1> QED
  BY <1>1, <1>4, <1>6, NotesWritten

LEMMA CommentDeleted ==
  ASSUME KnowledgeInv, deleteKnowledgeDocumentComment
  PROVE  KnowledgeInv'
<1>1. /\ comment \in [Comment -> NoteRow] /\ RepliesPlaced(comment, stray)
      /\ UNCHANGED <<folder, doc, kbFile, blob, crossed, tray, stray>>
  BY DEF KnowledgeInv, KnowledgeType, deleteKnowledgeDocumentComment
<1>2. PICK c \in Comments :
         comment' = [k \in Comment |-> IF k = c \/ (comment[k].parent = c /\ comment[k].state = "live")
                                       THEN [comment[k] EXCEPT !.state = "deleted"] ELSE comment[k]]
  BY DEF deleteKnowledgeDocumentComment
<1> DEFINE dead(k) == k = c \/ (comment[k].parent = c /\ comment[k].state = "live")
<1>3. c \in Comment /\ 0 \notin Comment /\ \A k \in Comment : comment[k].parent \in Comment \cup {0}
  BY <1>1, IdsAreNumbers DEF Comments, NoteRow
<1>4. \A k \in Comment : [comment[k] EXCEPT !.state = "deleted"] \in NoteRow
  BY <1>1 DEF NoteRow, Existence
<1>5. /\ comment' \in [Comment -> NoteRow]
      /\ \A k \in Comment : /\ comment'[k].parent = comment[k].parent
                            /\ comment'[k].state = IF dead(k) THEN "deleted" ELSE comment[k].state
  BY <1>1, <1>2, <1>4 DEF NoteRow
<1>6. RepliesPlaced(comment', stray')
  <2> SUFFICES ASSUME NEW k \in Comment
               PROVE  /\ comment'[k].parent /= 0 => /\ comment'[comment'[k].parent].state /= "none"
                                                    /\ comment'[comment'[k].parent].parent = 0
                      /\ comment'[k].state = "live" /\ <<"comment", k>> \notin stray'
                           => comment'[k].parent = 0 \/ comment'[comment'[k].parent].state = "live"
    BY DEF RepliesPlaced
  <2>1. comment[k].parent /= 0 => /\ comment[k].parent \in Comment /\ comment[comment[k].parent].parent = 0
                                  /\ comment[comment[k].parent].state /= "none"
    BY <1>1, <1>3 DEF RepliesPlaced
  <2>2. comment'[k].parent /= 0 => /\ comment'[comment'[k].parent].state /= "none"
                                   /\ comment'[comment'[k].parent].parent = 0
    BY <1>5, <2>1
  <2>3. ASSUME comment'[k].state = "live", <<"comment", k>> \notin stray', comment'[k].parent /= 0
        PROVE  comment'[comment'[k].parent].state = "live"
    <3>1. ~dead(k) /\ comment[k].state = "live" /\ comment[k].parent /= 0
      BY <1>5, <2>3
    <3>2. comment[comment[k].parent].state = "live"
      BY <1>1, <2>3, <3>1 DEF RepliesPlaced
    <3>3. ~dead(comment[k].parent)
      BY <1>3, <2>1, <3>1
    <3> QED
      BY <1>5, <2>1, <3>1, <3>2, <3>3
  <2> QED
    BY <2>2, <2>3
<1> QED
  BY <1>1, <1>5, <1>6, NotesWritten

\* One file's row is written; the storage only gains.
LEMMA FileWritten ==
  ASSUME KnowledgeInv, tray' \in [Tray -> TrayRow] /\ TrayFits' /\ UploadsApart',
         NEW x \in KbFile, NEW row \in FileRow, kbFile' = [kbFile EXCEPT ![x] = row], stray \subseteq stray',
         UNCHANGED <<folder, doc, comment, blob, crossed>>,
         row.state = "live" /\ <<"file", x>> \notin stray'
           => x \in blob /\ row.folder \in Folder /\ folder[row.folder].state = "live"
  PROVE  KnowledgeInv'
<1>1. kbFile' \in [KbFile -> FileRow] /\ \A y \in KbFile : kbFile'[y] = IF y = x THEN row ELSE kbFile[y]
  BY DEF KnowledgeInv, KnowledgeType
<1>2. FilesPlaced(kbFile', folder', blob', stray')
  BY <1>1 DEF KnowledgeInv, FilesPlaced
<1>3. ParentsLive(folder', stray') /\ DocsPlaced(doc', folder', stray') /\ RepliesPlaced(comment', stray')
  BY DEF KnowledgeInv, ParentsLive, DocsPlaced, RepliesPlaced
<1> QED
  BY <1>1, <1>2, <1>3 DEF KnowledgeInv, KnowledgeType

LEMMA FileUploaded ==
  ASSUME KnowledgeInv, NEW t \in Tray, uploadKnowledgeFiles(t)
  PROVE  KnowledgeInv'
<1>1. PICK u \in Member, f \in kbFolder, x \in Fresh(KbFile, kbFile) :
         x \notin blob /\ blob' = blob \cup {x} /\ Takes(t, Request("upload", u, x, f))
  BY DEF uploadKnowledgeFiles
<1>2. UNCHANGED <<folder, doc, kbFile, comment, stray, crossed>>
  BY DEF uploadKnowledgeFiles
<1> DEFINE r == Request("upload", u, x, f)
<1>3. x \in KbFile /\ x \in Nat /\ f \in Folder /\ f \in Nat /\ u \in Member \cup {0} /\ kbFile[x].state = "none"
  BY IdsAreNumbers DEF kbFolder, Fresh
<1>4. r \in TrayRow /\ r.op = "upload" /\ r.id = x /\ r.to = f /\ r.list = {}
  BY <1>3, RequestRow
<1>5. tray' = [tray EXCEPT ![t] = r]
  BY <1>1 DEF Takes
<1> HIDE DEF r
<1>6. RowFits(r, folder', kbFile', comment', blob', stray', crossed')
  BY <1>1, <1>2, <1>3, <1>4 DEF RowFits
<1>7. \A a \in Tray : RowFits(tray[a], folder, kbFile, comment, blob, stray, crossed)
                        => RowFits(tray[a], folder', kbFile', comment', blob', stray', crossed')
  BY <1>1, <1>2 DEF RowFits
<1>8. \A a \in Tray : tray[a].op = "upload" => tray[a].id \in blob
  BY DEF KnowledgeInv, TrayFits, RowFits
<1>9. tray' \in [Tray -> TrayRow] /\ TrayFits' /\ UploadsApart'
  BY <1>1, <1>4, <1>5, <1>6, <1>7, <1>8, TrayMoves
<1>10. FilesPlaced(kbFile', folder', blob', stray')
  BY <1>1, <1>2 DEF KnowledgeInv, FilesPlaced
<1>11. blob' \subseteq KbFile
  BY <1>1, <1>3 DEF KnowledgeInv, KnowledgeType
<1> QED
  BY <1>2, <1>9, <1>10, <1>11 DEF KnowledgeInv, KnowledgeType

LEMMA FileInserted ==
  ASSUME KnowledgeInv, NEW t \in Tray, InsertFile(t)
  PROVE  KnowledgeInv'
<1> DEFINE r == tray[t]
           x == r.id
           row == [state |-> "live", folder |-> r.to, owner |-> r.who]
<1>1. /\ r \in TrayRow /\ RowFits(r, folder, kbFile, comment, blob, stray, crossed)
      /\ kbFile \in [KbFile -> FileRow] /\ tray \in [Tray -> TrayRow]
  BY DEF KnowledgeInv, KnowledgeType, TrayFits
<1>2. r.op = "upload" /\ tray' = [tray EXCEPT ![t] = Empty] /\ UNCHANGED <<folder, doc, comment, blob, crossed>>
  BY DEF InsertFile, Puts
<1>3. kbFile' = [kbFile EXCEPT ![x] = row] /\ Strayed(<<"file", x>>, r.to)
  BY DEF InsertFile
<1>4. x \in KbFile /\ kbFile[x].state = "none" /\ x \in blob /\ r.to \in Folder /\ r.who \in Member \cup {0}
  BY <1>1, <1>2 DEF RowFits, TrayRow
<1>a. \A a \in Tray : a /= t /\ tray[a].op = "upload" => tray[a].id /= x
  BY <1>2 DEF KnowledgeInv, UploadsApart
<1> HIDE DEF r, x
<1>5. row \in FileRow /\ row.state = "live" /\ row.folder = r.to
  BY <1>4 DEF FileRow, Existence
<1> HIDE DEF row
<1>6. stray \subseteq stray' /\ (<<"file", x>> \notin stray' => folder[r.to].state = "live")
  BY <1>3 DEF Strayed, kbFolder
<1>7. \A y \in KbFile : kbFile'[y] = IF y = x THEN row ELSE kbFile[y]
  BY <1>1, <1>3
<1>8. ASSUME NEW a \in Tray, a /= t, RowFits(tray[a], folder, kbFile, comment, blob, stray, crossed)
      PROVE  RowFits(tray[a], folder', kbFile', comment', blob', stray', crossed')
  <2>1. tray[a].list \subseteq KbFile
    BY <1>1 DEF TrayRow
  <2>2. \A y \in tray[a].list : kbFile'[y] = kbFile[y]
    BY <1>4, <1>7, <1>8, <2>1 DEF RowFits
  <2>3. tray[a].op = "upload" => kbFile'[tray[a].id] = kbFile[tray[a].id]
    BY <1>7, <1>8, <1>a DEF RowFits
  <2> QED
    BY <1>2, <1>6, <1>8, <2>2, <2>3 DEF RowFits
<1>9. tray' \in [Tray -> TrayRow] /\ TrayFits' /\ UploadsApart'
  BY <1>2, <1>8, EmptyRow, TrayMoves
<1> QED
  BY <1>2, <1>3, <1>4, <1>5, <1>6, <1>9, FileWritten

LEMMA FileMoved ==
  ASSUME KnowledgeInv, NEW t \in Tray, WriteFileMove(t)
  PROVE  KnowledgeInv'
<1> DEFINE r == tray[t]
           x == r.id
           row == [kbFile[x] EXCEPT !.folder = r.to]
<1>1. /\ r \in TrayRow /\ RowFits(r, folder, kbFile, comment, blob, stray, crossed)
      /\ kbFile \in [KbFile -> FileRow] /\ tray \in [Tray -> TrayRow]
  BY DEF KnowledgeInv, KnowledgeType, TrayFits
<1>2. r.op = "moveFile" /\ tray' = [tray EXCEPT ![t] = Empty] /\ UNCHANGED <<folder, doc, comment, blob, crossed>>
  BY DEF WriteFileMove, Puts
<1>3. /\ kbFile' = [kbFile EXCEPT ![x] = row]
      /\ stray' = IF r.to \in kbFolder /\ x \notin Listed THEN stray ELSE stray \cup {<<"file", x>>}
  BY DEF WriteFileMove
<1>4. x \in KbFile /\ r.to \in Folder
  BY <1>1, <1>2 DEF RowFits
<1> HIDE DEF r, x
<1>5. row \in FileRow /\ row.state = kbFile[x].state /\ row.folder = r.to
  BY <1>1, <1>4 DEF FileRow
<1> HIDE DEF row
<1>6. stray \subseteq stray' /\ (<<"file", x>> \notin stray' => folder[r.to].state = "live" /\ x \notin Listed)
  BY <1>3 DEF kbFolder
<1>7. \A y \in KbFile : kbFile'[y].state = kbFile[y].state /\ (y /= x => kbFile'[y] = kbFile[y])
  BY <1>1, <1>3, <1>5
<1>8. ASSUME NEW a \in Tray, RowFits(tray[a], folder, kbFile, comment, blob, stray, crossed)
      PROVE  RowFits(tray[a], folder', kbFile', comment', blob', stray', crossed')
  <2>1. tray[a].list \subseteq KbFile /\ tray[a].list \subseteq Listed
    BY <1>1 DEF TrayRow, Listed
  <2>2. \A y \in tray[a].list : kbFile'[y].state = kbFile[y].state /\ (kbFile'[y] = kbFile[y] \/ <<"file", y>> \in stray')
    BY <1>6, <1>7, <2>1
  <2>3. tray[a].op = "upload" => kbFile'[tray[a].id].state = kbFile[tray[a].id].state
    BY <1>7, <1>8 DEF RowFits
  <2> QED
    BY <1>2, <1>6, <1>8, <2>2, <2>3 DEF RowFits
<1>9. tray' \in [Tray -> TrayRow] /\ TrayFits' /\ UploadsApart'
  BY <1>2, <1>8, TrayRests
<1>10. kbFile[x].state = "live" /\ <<"file", x>> \notin stray' => x \in blob
  BY <1>4, <1>6 DEF KnowledgeInv, FilesPlaced
<1> QED
  BY <1>2, <1>3, <1>4, <1>5, <1>6, <1>9, <1>10, FileWritten

LEMMA FileDeleted ==
  ASSUME KnowledgeInv, NEW t \in Tray, deleteKnowledgeFile(t)
  PROVE  KnowledgeInv'
<1>1. PICK x \in kbFileRow, u \in Member :
         /\ kbFile' = [kbFile EXCEPT ![x].state = "deleted"]
         /\ Takes(t, [Request("purge", u, x, 0) EXCEPT !.list = {x}])
  BY DEF deleteKnowledgeFile
<1>2. UNCHANGED <<folder, doc, comment, blob, stray, crossed>>
  BY DEF deleteKnowledgeFile
<1> DEFINE q == Request("purge", u, x, 0)
           r == [q EXCEPT !.list = {x}]
           row == [kbFile[x] EXCEPT !.state = "deleted"]
<1>3. /\ x \in KbFile /\ x \in Nat /\ u \in Member \cup {0} /\ kbFile[x].state = "live"
      /\ kbFile \in [KbFile -> FileRow] /\ tray \in [Tray -> TrayRow]
  BY IdsAreNumbers DEF kbFileRow, KnowledgeInv, KnowledgeType
<1>4. q \in TrayRow /\ q.op = "purge"
  BY <1>3, RequestRow
<1>5. tray' = [tray EXCEPT ![t] = r] /\ kbFile' = [kbFile EXCEPT ![x] = row]
  BY <1>1 DEF Takes
<1> HIDE DEF q
<1>6. r \in TrayRow /\ r.op = "purge" /\ r.list = {x}
  BY <1>3, <1>4 DEF TrayRow
<1>7. row \in FileRow /\ row.state = "deleted" /\ row.folder = kbFile[x].folder
  BY <1>3 DEF FileRow, Existence
<1> HIDE DEF r, row
<1>8. \A y \in KbFile : kbFile'[y] = IF y = x THEN row ELSE kbFile[y]
  BY <1>3, <1>5
<1>9. RowFits(r, folder', kbFile', comment', blob', stray', crossed')
  BY <1>3, <1>6, <1>7, <1>8 DEF RowFits
<1>10. ASSUME NEW a \in Tray, RowFits(tray[a], folder, kbFile, comment, blob, stray, crossed)
       PROVE  RowFits(tray[a], folder', kbFile', comment', blob', stray', crossed')
  <2>1. tray[a].list \subseteq KbFile
    BY <1>3 DEF TrayRow
  <2>2. \A y \in tray[a].list : kbFile'[y] = kbFile[y] \/ (kbFile'[y].state = "deleted")
    BY <1>7, <1>8, <2>1
  <2>3. tray[a].op = "upload" => kbFile'[tray[a].id] = kbFile[tray[a].id]
    BY <1>3, <1>8, <1>10 DEF RowFits
  <2> QED
    BY <1>2, <1>10, <2>2, <2>3 DEF RowFits
<1>11. tray' \in [Tray -> TrayRow] /\ TrayFits' /\ UploadsApart'
  BY <1>5, <1>6, <1>9, <1>10, TrayMoves
<1> QED
  BY <1>2, <1>3, <1>5, <1>7, <1>11, FileWritten

LEMMA FileRestored ==
  ASSUME KnowledgeInv, restoreKnowledgeFile
  PROVE  KnowledgeInv'
<1>1. PICK x \in KbFile : /\ kbFile[x].state = "deleted" /\ kbFile' = [kbFile EXCEPT ![x].state = "live"]
                          /\ stray' = stray \cup {<<"file", x>>}
  BY DEF restoreKnowledgeFile
<1> DEFINE row == [kbFile[x] EXCEPT !.state = "live"]
<1>2. /\ kbFile \in [KbFile -> FileRow] /\ tray \in [Tray -> TrayRow]
      /\ UNCHANGED <<folder, doc, comment, blob, tray, crossed>>
  BY DEF KnowledgeInv, KnowledgeType, restoreKnowledgeFile
<1>3. kbFile' = [kbFile EXCEPT ![x] = row] /\ row \in FileRow /\ row.state = "live"
  BY <1>1, <1>2 DEF FileRow, Existence
<1> HIDE DEF row
<1>4. \A y \in KbFile : kbFile'[y] = IF y = x THEN row ELSE kbFile[y]
  BY <1>2, <1>3
<1>5. ASSUME NEW a \in Tray, RowFits(tray[a], folder, kbFile, comment, blob, stray, crossed)
      PROVE  RowFits(tray[a], folder', kbFile', comment', blob', stray', crossed')
  <2>1. tray[a].list \subseteq KbFile
    BY <1>2 DEF TrayRow
  <2>2. \A y \in tray[a].list : \/ kbFile'[y] = kbFile[y]
                                \/ <<"file", y>> \in stray' /\ kbFile'[y].state = "live"
    BY <1>1, <1>3, <1>4, <2>1
  <2>3. tray[a].op = "upload" => kbFile'[tray[a].id] = kbFile[tray[a].id]
    BY <1>1, <1>4, <1>5 DEF RowFits
  <2> QED
    BY <1>1, <1>2, <1>5, <2>2, <2>3 DEF RowFits
<1>6. tray' \in [Tray -> TrayRow] /\ TrayFits' /\ UploadsApart'
  BY <1>2, <1>5, TrayRests
<1> QED
  BY <1>1, <1>2, <1>3, <1>6, FileWritten

\* Only bytes that no listed file answers for, and that no upload has just stored, are purged.
LEMMA FilesPurged ==
  ASSUME KnowledgeInv, NEW t \in Tray, PurgeFiles(t)
  PROVE  KnowledgeInv'
<1>1. PICK bytes \in SUBSET tray[t].list : blob' = blob \ bytes
  BY DEF PurgeFiles
<1>2. /\ tray[t].op = "purge" /\ tray' = [tray EXCEPT ![t] = Empty]
      /\ UNCHANGED <<folder, doc, kbFile, comment, stray, crossed>>
  BY DEF PurgeFiles
<1>3. RowFits(tray[t], folder, kbFile, comment, blob, stray, crossed) /\ blob \subseteq KbFile
  BY DEF KnowledgeInv, KnowledgeType, TrayFits
<1>4. \A y \in bytes : kbFile[y].state /= "none" /\ (<<"file", y>> \in stray \/ kbFile[y].state /= "live")
  BY <1>1, <1>2, <1>3 DEF RowFits
<1>5. ASSUME NEW a \in Tray, RowFits(tray[a], folder, kbFile, comment, blob, stray, crossed)
      PROVE  RowFits(tray[a], folder', kbFile', comment', blob', stray', crossed')
  <2>1. tray[a].op = "upload" => tray[a].id \in blob'
    BY <1>1, <1>4, <1>5 DEF RowFits
  <2> QED
    BY <1>2, <1>5, <2>1 DEF RowFits
<1>6. tray' \in [Tray -> TrayRow] /\ TrayFits' /\ UploadsApart'
  BY <1>2, <1>5, TrayRests
<1>7. FilesPlaced(kbFile', folder', blob', stray')
  BY <1>1, <1>2, <1>4 DEF KnowledgeInv, FilesPlaced
<1> QED
  BY <1>1, <1>2, <1>3, <1>6, <1>7 DEF KnowledgeInv, KnowledgeType

-----------------------------------------------------------------------------
(* The writes to the tree *)

\* What a write to the folders alone has to keep.
LEMMA FoldersWritten ==
  ASSUME KnowledgeInv, tray' \in [Tray -> TrayRow] /\ TrayFits' /\ UploadsApart',
         folder' \in [Folder -> FolderRow], crossed' \in BOOLEAN, RootStays(folder'), ~crossed' => HangTogether(folder'),
         ParentsLive(folder', stray'), stray \subseteq stray',
         \A f \in Folder : folder[f].state = "live" => folder'[f].state = "live",
         UNCHANGED <<doc, kbFile, comment, blob>>
  PROVE  KnowledgeInv'
<1>1. /\ DocsPlaced(doc', folder', stray') /\ FilesPlaced(kbFile', folder', blob', stray')
      /\ RepliesPlaced(comment', stray')
  BY DEF KnowledgeInv, DocsPlaced, FilesPlaced, RepliesPlaced
<1> QED
  BY <1>1 DEF KnowledgeInv, KnowledgeType

LEMMA FolderInserted ==
  ASSUME KnowledgeInv, NEW t \in Tray, InsertFolder(t)
  PROVE  KnowledgeInv'
<1> DEFINE r == tray[t]
<1>1. /\ r \in TrayRow /\ RowFits(r, folder, kbFile, comment, blob, stray, crossed)
      /\ folder \in [Folder -> FolderRow] /\ RootStays(folder) /\ ParentsLive(folder, stray)
  BY DEF KnowledgeInv, KnowledgeType, TrayFits
<1>2. r.op = "newFolder" /\ tray' = [tray EXCEPT ![t] = Empty] /\ UNCHANGED <<doc, kbFile, comment, blob, crossed>>
  BY DEF InsertFolder, Puts
<1>3. PICK n \in Fresh(Folder, folder) :
         /\ folder' = [folder EXCEPT ![n] = [state |-> "live", parent |-> r.to, owner |-> r.who]]
         /\ Strayed(<<"folder", n>>, r.to)
  BY DEF InsertFolder
<1> DEFINE p == r.to
           row == [state |-> "live", parent |-> p, owner |-> r.who]
<1>4. p \in Folder /\ folder[p].state /= "none" /\ r.who \in Member \cup {0}
  BY <1>1, <1>2 DEF RowFits, TrayRow
<1>5. n \in Folder /\ folder[n].state = "none" /\ folder' = [folder EXCEPT ![n] = row] /\ Strayed(<<"folder", n>>, p)
  BY <1>3 DEF Fresh
<1>6. row \in FolderRow /\ row.state = "live" /\ row.parent = p
  BY <1>4 DEF FolderRow, Existence
<1> HIDE DEF r, p, row
<1>7. folder' \in [Folder -> FolderRow] /\ \A f \in Folder : folder'[f] = IF f = n THEN row ELSE folder[f]
  BY <1>1, <1>5, <1>6
<1>8. stray \subseteq stray' /\ (<<"folder", n>> \notin stray' => folder[p].state = "live")
  BY <1>5 DEF Strayed, kbFolder
<1>9. /\ n /= 1 /\ n /= p /\ folder[n].parent = 0 /\ \A h \in Folder : folder[h].parent /= n
      /\ \A h \in Folder : folder[h].parent \in Folder \cup {0} /\ 0 \notin Folder
  BY <1>1, <1>4, <1>5, IdsAreNumbers DEF RootStays, FolderRow
<1>10. RootStays(folder')
  <2>1. folder'[1].state = "live" /\ folder'[1].parent = 0
    BY <1>1, <1>7, <1>9, IdsAreNumbers DEF RootStays
  <2>2. \A f \in Folder : folder'[f].state = "none" => folder'[f].parent = 0
    BY <1>1, <1>6, <1>7 DEF RootStays
  <2>3. \A f \in Folder : folder'[f].parent = 0 \/ folder'[folder'[f].parent].state /= "none"
    BY <1>1, <1>4, <1>6, <1>7, <1>9 DEF RootStays
  <2> QED
    BY <2>1, <2>2, <2>3 DEF RootStays
<1>a. \A h \in Folder \ {n} : folder'[h].parent = folder[h].parent
  BY <1>7
<1>b. \A f \in Folder : Beneath(Folder, folder, f) \subseteq Beneath(Folder, folder', f)
  BY <1>5, <1>9, <1>a, Grown
<1>c. \A f \in Folder, g \in Folder \ {n} :
        g \notin Beneath(Folder, folder, f) => g \notin Beneath(Folder, folder', f)
  BY <1>5, <1>9, <1>a, GrownApart, ZenonT(60)
<1>11. ~crossed' => HangTogether(folder')
  <2> SUFFICES ASSUME ~crossed', NEW f \in Folder, folder'[f].state /= "none"
               PROVE  f \in Beneath(Folder, folder', 1)
    BY DEF HangTogether
  <2>1. HangTogether(folder) /\ 1 \in Folder
    BY <1>2, IdsAreNumbers DEF KnowledgeInv
  <2>2. CASE f /= n
    BY <1>7, <1>b, <2>1, <2>2 DEF HangTogether
  <2>3. CASE f = n
    <3>1. p \in Beneath(Folder, folder', 1)
      BY <1>4, <1>b, <2>1 DEF HangTogether
    <3>2. Closed(Folder, folder', Beneath(Folder, folder', 1))
      BY <2>1, BeneathFacts
    <3> QED
      BY <1>6, <1>7, <2>3, <3>1, <3>2 DEF Closed
  <2> QED
    BY <2>2, <2>3
<1>12. ParentsLive(folder', stray')
  <2> SUFFICES ASSUME NEW f \in Folder, folder'[f].state = "live", <<"folder", f>> \notin stray', f /= 1
               PROVE  folder'[f].parent \in Folder /\ folder'[folder'[f].parent].state = "live"
    BY DEF ParentsLive
  <2>1. CASE f = n
    BY <1>4, <1>6, <1>7, <1>8, <1>9, <2>1
  <2>2. CASE f /= n
    <3>1. folder[f].parent \in Folder /\ folder[folder[f].parent].state = "live" /\ folder'[f] = folder[f]
      BY <1>1, <1>7, <1>8, <2>2 DEF ParentsLive
    <3> QED
      BY <1>7, <1>9, <3>1
  <2> QED
    BY <2>1, <2>2
<1>13. ASSUME NEW a \in Tray, RowFits(tray[a], folder, kbFile, comment, blob, stray, crossed)
       PROVE  RowFits(tray[a], folder', kbFile', comment', blob', stray', crossed')
  <2> DEFINE s == tray[a]
  <2>1. \A f \in Folder : folder[f].state /= "none" => folder'[f].state /= "none"
    BY <1>6, <1>7
  <2>2. s.op \in {"newFolder", "moveFolder"} => s.to \in Folder /\ folder[s.to].state /= "none"
    BY <1>13 DEF RowFits
  <2>3. s.op \in {"moveFolder", "dropFolder"} => s.id \in Folder
    BY <1>13 DEF RowFits
  <2>4. s.op = "moveFolder" /\ ~crossed' => s.to \notin Beneath(Folder, folder', s.id)
    <3> SUFFICES ASSUME s.op = "moveFolder", ~crossed' PROVE s.to \notin Beneath(Folder, folder', s.id)
      OBVIOUS
    <3>1. s.to \in Folder /\ s.to /= n /\ s.id \in Folder /\ s.to \notin Beneath(Folder, folder, s.id)
      BY <1>2, <1>5, <1>13, <2>2, <2>3 DEF RowFits
    <3> QED
      BY <1>c, <3>1
  <2>5. s.op = "dropFolder" => Beneath(Folder, folder, s.id) \subseteq Beneath(Folder, folder', s.id)
    BY <1>b, <2>3
  <2> QED
    BY <1>2, <1>8, <1>13, <2>1, <2>4, <2>5 DEF RowFits
<1>14. tray' \in [Tray -> TrayRow] /\ TrayFits' /\ UploadsApart'
  BY <1>2, <1>13, TrayRests
<1>15. \A f \in Folder : folder[f].state = "live" => folder'[f].state = "live"
  BY <1>6, <1>7
<1>16. crossed' \in BOOLEAN
  BY <1>2 DEF KnowledgeInv, KnowledgeType
<1> QED
  BY <1>2, <1>7, <1>8, <1>10, <1>11, <1>12, <1>14, <1>15, <1>16, FoldersWritten

LEMMA FolderMoved ==
  ASSUME KnowledgeInv, NEW t \in Tray, WriteFolderMove(t)
  PROVE  KnowledgeInv'
<1> DEFINE r == tray[t]
           i == r.id
           p == r.to
           row == [folder[i] EXCEPT !.parent = p]
<1>1. /\ r \in TrayRow /\ RowFits(r, folder, kbFile, comment, blob, stray, crossed) /\ tray \in [Tray -> TrayRow]
      /\ folder \in [Folder -> FolderRow] /\ RootStays(folder) /\ ParentsLive(folder, stray) /\ crossed \in BOOLEAN
  BY DEF KnowledgeInv, KnowledgeType, TrayFits
<1>2. r.op = "moveFolder" /\ tray' = [tray EXCEPT ![t] = Empty] /\ UNCHANGED <<doc, kbFile, comment, blob>>
  BY DEF WriteFolderMove, Puts
<1>3. /\ folder' = [folder EXCEPT ![i] = row]
      /\ stray' = stray \cup (IF p \in kbFolder THEN {} ELSE {<<"folder", i>>})
                        \cup {<<"file", x>> : x \in {y \in Listed : kbFile[y].folder \in Beneath(Folder, folder, i)}}
      /\ crossed' = (crossed \/ \E a \in Tray \ {t} : tray[a].op = "moveFolder")
  BY DEF WriteFolderMove, Subtree
<1>4. /\ p \in Folder /\ folder[p].state /= "none" /\ i \in Folder \ {1} /\ folder[i].state /= "none"
      /\ ~crossed => p \notin Beneath(Folder, folder, i)
  BY <1>1, <1>2 DEF RowFits
<1> HIDE DEF r, i, p
<1>5. row \in FolderRow /\ row.state = folder[i].state /\ row.parent = p
  BY <1>1, <1>4 DEF FolderRow
<1> HIDE DEF row
<1>6. folder' \in [Folder -> FolderRow] /\ \A f \in Folder : folder'[f] = IF f = i THEN row ELSE folder[f]
  BY <1>1, <1>3, <1>4, <1>5
<1>7. \A f \in Folder : folder'[f].state = folder[f].state
  BY <1>5, <1>6
<1>a. \A h \in Folder \ {i} : folder'[h].parent = folder[h].parent
  BY <1>6
<1>8. \A h \in Folder : folder[h].parent \in Folder \cup {0}
  BY <1>1 DEF FolderRow
<1>9. RootStays(folder')
  <2>1. folder'[1].state = "live" /\ folder'[1].parent = 0
    BY <1>1, <1>4, <1>6, IdsAreNumbers DEF RootStays
  <2>2. \A f \in Folder : folder'[f].state = "none" => folder'[f].parent = 0
    BY <1>1, <1>4, <1>5, <1>6 DEF RootStays
  <2>3. \A f \in Folder : folder'[f].parent = 0 \/ folder'[folder'[f].parent].state /= "none"
    BY <1>1, <1>4, <1>5, <1>6, <1>7, <1>8 DEF RootStays
  <2> QED
    BY <2>1, <2>2, <2>3 DEF RootStays
<1>10. ~crossed' => HangTogether(folder')
  <2> SUFFICES ASSUME ~crossed' PROVE HangTogether(folder')
    OBVIOUS
  <2>1. HangTogether(folder) /\ ~crossed
    BY <1>1, <1>3 DEF KnowledgeInv
  <2>2. folder'[i].parent \in Beneath(Folder, folder, 1) /\ folder'[i].parent \notin Beneath(Folder, folder, i)
    BY <1>4, <1>5, <1>6, <2>1 DEF HangTogether
  <2>3. Beneath(Folder, folder, 1) \subseteq Beneath(Folder, folder', 1)
    BY <1>4, <1>a, <2>2, MovedWithin
  <2> QED
    BY <1>7, <2>1, <2>3 DEF HangTogether
<1>11. stray \subseteq stray' /\ (<<"folder", i>> \notin stray' => folder[p].state = "live")
  BY <1>3 DEF kbFolder
<1>12. ParentsLive(folder', stray')
  <2> SUFFICES ASSUME NEW f \in Folder, folder'[f].state = "live", <<"folder", f>> \notin stray', f /= 1
               PROVE  folder'[f].parent \in Folder /\ folder'[folder'[f].parent].state = "live"
    BY DEF ParentsLive
  <2>1. CASE f = i
    BY <1>4, <1>5, <1>6, <1>7, <1>11, <2>1
  <2>2. CASE f /= i
    <3>1. folder[f].parent \in Folder /\ folder[folder[f].parent].state = "live" /\ folder'[f] = folder[f]
      BY <1>1, <1>6, <1>7, <1>11, <2>2 DEF ParentsLive
    <3> QED
      BY <1>7, <3>1
  <2> QED
    BY <2>1, <2>2
<1>13. ASSUME NEW a \in Tray, a /= t, RowFits(tray[a], folder, kbFile, comment, blob, stray, crossed)
       PROVE  RowFits(tray[a], folder', kbFile', comment', blob', stray', crossed')
  <2> DEFINE s == tray[a]
  <2>1. s.op = "moveFolder" => crossed'
    BY <1>3, <1>13
  <2>2. s.op \in {"newFolder", "moveFolder"} => folder'[s.to].state /= "none"
    BY <1>7, <1>13 DEF RowFits
  <2>3. s.op \in {"moveFolder", "dropFolder"} => folder'[s.id].state /= "none"
    BY <1>7, <1>13 DEF RowFits
  <2>4. ASSUME NEW y \in s.list, s.op = "dropFolder", kbFile[y].folder \in Beneath(Folder, folder, s.id)
        PROVE  <<"file", y>> \in stray' \/ kbFile[y].folder \in Beneath(Folder, folder', s.id)
    <3>1. s.id \in Folder /\ y \in Listed
      BY <1>13, <2>4 DEF RowFits, Listed
    <3>2. CASE kbFile[y].folder \in Beneath(Folder, folder, i)
      BY <1>3, <3>1, <3>2
    <3>3. CASE kbFile[y].folder \notin Beneath(Folder, folder, i)
      <4> DEFINE g == s.id
                 z == kbFile[y].folder
      <4>1. g \in Folder /\ z \in Beneath(Folder, folder, g) /\ z \notin Beneath(Folder, folder, i)
        BY <2>4, <3>1, <3>3
      <4> HIDE DEF g, z, s
      <4>2. z \in Beneath(Folder, folder', g)
        BY <1>4, <1>a, <4>1, MovedPast
      <4> QED
        BY <4>2 DEF g, z
    <3> QED
      BY <3>2, <3>3
  <2> QED
    BY <1>2, <1>11, <1>13, <2>1, <2>2, <2>3, <2>4 DEF RowFits
<1>14. tray' \in [Tray -> TrayRow] /\ TrayFits' /\ UploadsApart'
  BY <1>2, <1>13, EmptyRow, TrayMoves
<1>15. crossed' \in BOOLEAN
  BY <1>1, <1>3
<1> QED
  BY <1>2, <1>6, <1>7, <1>9, <1>10, <1>11, <1>12, <1>14, <1>15, FoldersWritten

LEMMA FolderRestored ==
  ASSUME KnowledgeInv, restoreKnowledgeFolder
  PROVE  KnowledgeInv'
<1>1. PICK f \in Folder : /\ folder[f].state = "deleted" /\ folder' = [folder EXCEPT ![f].state = "live"]
                          /\ stray' = stray \cup {<<"folder", f>>}
  BY DEF restoreKnowledgeFolder
<1> DEFINE row == [folder[f] EXCEPT !.state = "live"]
<1>2. /\ folder \in [Folder -> FolderRow] /\ RootStays(folder) /\ ParentsLive(folder, stray) /\ crossed \in BOOLEAN
      /\ UNCHANGED <<doc, kbFile, comment, blob, tray, crossed>>
  BY DEF KnowledgeInv, KnowledgeType, restoreKnowledgeFolder
<1>3. folder' = [folder EXCEPT ![f] = row] /\ row \in FolderRow /\ row.state = "live" /\ row.parent = folder[f].parent
  BY <1>1, <1>2 DEF FolderRow, Existence
<1> HIDE DEF row
<1>4. /\ folder' \in [Folder -> FolderRow]
      /\ \A g \in Folder : /\ folder'[g].parent = folder[g].parent
                           /\ folder'[g].state = IF g = f THEN "live" ELSE folder[g].state
  BY <1>2, <1>3
<1>5. \A g \in Folder : folder[g].parent \in Folder \cup {0}
  BY <1>2 DEF FolderRow
<1>6. \A g \in Folder : Beneath(Folder, folder', g) = Beneath(Folder, folder, g)
  BY <1>4, SameParents
<1>7. \A g \in Folder : /\ folder[g].state = "live" => folder'[g].state = "live"
                        /\ folder'[g].state /= "none" <=> folder[g].state /= "none"
  BY <1>1, <1>4
<1>8. RootStays(folder')
  BY <1>2, <1>4, <1>5, <1>7, IdsAreNumbers DEF RootStays
<1>9. ~crossed' => HangTogether(folder')
  BY <1>2, <1>6, <1>7, IdsAreNumbers DEF KnowledgeInv, HangTogether
<1>10. ParentsLive(folder', stray')
  <2> SUFFICES ASSUME NEW g \in Folder, folder'[g].state = "live", <<"folder", g>> \notin stray', g /= 1
               PROVE  folder'[g].parent \in Folder /\ folder'[folder'[g].parent].state = "live"
    BY DEF ParentsLive
  <2>1. folder[g].parent \in Folder /\ folder[folder[g].parent].state = "live"
    BY <1>1, <1>2, <1>4 DEF ParentsLive
  <2> QED
    BY <1>4, <1>7, <2>1
<1>11. ASSUME NEW a \in Tray, RowFits(tray[a], folder, kbFile, comment, blob, stray, crossed)
       PROVE  RowFits(tray[a], folder', kbFile', comment', blob', stray', crossed')
  BY <1>1, <1>2, <1>6, <1>7, <1>11 DEF RowFits
<1>12. tray' \in [Tray -> TrayRow] /\ TrayFits' /\ UploadsApart'
  BY <1>2, <1>11, TrayRests
<1> QED
  BY <1>1, <1>2, <1>4, <1>7, <1>8, <1>9, <1>10, <1>12, FoldersWritten

\* Everything below the folder goes, and nothing that stays hangs from it.
LEMMA FolderDropped ==
  ASSUME KnowledgeInv, NEW t \in Tray, DropFolder(t)
  PROVE  KnowledgeInv'
<1> DEFINE r == tray[t]
           i == r.id
           F == Subtree(i)
           q == [r EXCEPT !.op = "purge"]
<1>1. /\ r \in TrayRow /\ RowFits(r, folder, kbFile, comment, blob, stray, crossed) /\ tray \in [Tray -> TrayRow]
      /\ folder \in [Folder -> FolderRow] /\ RootStays(folder) /\ ParentsLive(folder, stray)
      /\ doc \in [Doc -> DocRow] /\ kbFile \in [KbFile -> FileRow]
  BY DEF KnowledgeInv, KnowledgeType, TrayFits
<1>2. r.op = "dropFolder" /\ tray' = [tray EXCEPT ![t] = q] /\ UNCHANGED <<comment, blob, stray, crossed>>
  BY <1>1 DEF DropFolder, TrayRow
<1>3. folder' = [f \in Folder |-> IF f \in F THEN [folder[f] EXCEPT !.state = "deleted"] ELSE folder[f]]
  BY DEF DropFolder
<1>4. doc' = [d \in Doc |-> CASE doc[d].folder \in F /\ doc[d].memory -> [doc[d] EXCEPT !.folder = 1]
                              [] doc[d].folder \in F /\ ~doc[d].memory /\ doc[d].state = "live"
                                   -> [doc[d] EXCEPT !.state = "deleted"]
                              [] OTHER -> doc[d]]
  BY DEF DropFolder
<1>5. kbFile' = [x \in KbFile |-> IF kbFile[x].folder \in F /\ kbFile[x].state = "live"
                                  THEN [kbFile[x] EXCEPT !.state = "deleted"] ELSE kbFile[x]]
  BY DEF DropFolder
<1>6. /\ i \in Folder \ {1} /\ folder[i].state /= "none"
      /\ q \in TrayRow /\ q.op = "purge" /\ q.list = r.list
      /\ \A y \in r.list : /\ y \in KbFile /\ kbFile[y].state /= "none"
                           /\ <<"file", y>> \in stray \/ kbFile[y].state /= "live" \/ kbFile[y].folder \in F
  BY <1>1, <1>2 DEF RowFits, TrayRow, Subtree
<1>7. F \subseteq Folder /\ 1 \notin F /\ Closed(Folder, folder, F) /\ F = Beneath(Folder, folder, i)
  BY <1>1, <1>6, BeneathFacts, RootApart DEF Subtree, RootStays
<1> HIDE DEF r, i, F, q
\* A row that does not exist is below no other.
<1>8. \A f \in F : folder[f].state /= "none"
  <2> DEFINE G == {f \in Folder : folder[f].state /= "none"}
  <2>1. G \in SUBSET Folder /\ i \in G /\ Closed(Folder, folder, G)
    BY <1>1, <1>6, IdsAreNumbers DEF Closed, RootStays
  <2> HIDE DEF G
  <2>2. F \subseteq G
    BY <1>6, <1>7, <2>1, BeneathFacts
  <2> QED
    BY <2>2 DEF G
<1>9. /\ folder' \in [Folder -> FolderRow]
      /\ \A f \in Folder : /\ folder'[f].parent = folder[f].parent
                           /\ folder'[f].state = IF f \in F THEN "deleted" ELSE folder[f].state
  BY <1>1, <1>3 DEF FolderRow, Existence
<1>10. \A f \in Folder : /\ folder[f].parent \in Folder \cup {0}
                         /\ folder'[f].state /= "none" <=> folder[f].state /= "none"
                         /\ Beneath(Folder, folder', f) = Beneath(Folder, folder, f)
  BY <1>1, <1>8, <1>9, SameParents DEF FolderRow
<1>11. RootStays(folder') /\ (~crossed' => HangTogether(folder'))
  BY <1>1, <1>2, <1>7, <1>9, <1>10, IdsAreNumbers DEF KnowledgeInv, RootStays, HangTogether
<1>12. ParentsLive(folder', stray')
  <2> SUFFICES ASSUME NEW f \in Folder, folder'[f].state = "live", <<"folder", f>> \notin stray', f /= 1
               PROVE  folder'[f].parent \in Folder /\ folder'[folder'[f].parent].state = "live"
    BY DEF ParentsLive
  <2>1. f \notin F /\ folder[f].parent \in Folder /\ folder[folder[f].parent].state = "live"
    BY <1>1, <1>2, <1>9 DEF ParentsLive
  <2>2. folder[f].parent \notin F
    BY <1>7, <2>1 DEF Closed
  <2> QED
    BY <1>9, <2>1, <2>2
<1>13. doc' \in [Doc -> DocRow] /\ DocsPlaced(doc', folder', stray')
  <2> DEFINE moved(d) == [doc[d] EXCEPT !.folder = 1]
             dropped(d) == [doc[d] EXCEPT !.state = "deleted"]
  <2>1. ASSUME NEW d \in Doc
        PROVE  /\ moved(d) \in DocRow /\ moved(d).folder = 1 /\ moved(d).state = doc[d].state
               /\ moved(d).memory = doc[d].memory
               /\ dropped(d) \in DocRow /\ dropped(d).state = "deleted" /\ dropped(d).memory = doc[d].memory
    BY <1>1, IdsAreNumbers DEF DocRow, Existence
  <2>2. \A d \in Doc : doc'[d] = CASE doc[d].folder \in F /\ doc[d].memory -> moved(d)
                                   [] doc[d].folder \in F /\ ~doc[d].memory /\ doc[d].state = "live" -> dropped(d)
                                   [] OTHER -> doc[d]
    BY <1>4
  <2> HIDE DEF moved, dropped
  <2>3. \A d \in Doc :
          \/ doc[d].folder \in F /\ doc[d].memory /\ doc'[d] = moved(d)
          \/ doc[d].folder \in F /\ ~doc[d].memory /\ doc[d].state = "live" /\ doc'[d] = dropped(d)
          \/ /\ doc'[d] = doc[d]
             /\ doc[d].folder \in F => ~doc[d].memory /\ doc[d].state /= "live"
    BY <2>2
  <2>4. \A d \in Doc : doc'[d] \in DocRow
    BY <1>1, <2>1, <2>3
  <2>5. doc' \in [Doc -> DocRow]
    BY <1>4, <2>4
  <2>6. ASSUME NEW d \in Doc, <<"doc", d>> \notin stray'
        PROVE  /\ doc'[d].memory => doc'[d].state = "live"
               /\ doc'[d].state = "live" => doc'[d].folder \in Folder /\ folder'[doc'[d].folder].state = "live"
    <3>1. /\ doc[d].memory => doc[d].state = "live"
          /\ doc[d].state = "live" => doc[d].folder \in Folder /\ folder[doc[d].folder].state = "live"
      BY <1>2, <2>6 DEF KnowledgeInv, DocsPlaced
    <3>2. CASE doc'[d] = moved(d) /\ doc[d].memory
      BY <1>11, <2>1, <3>1, <3>2, IdsAreNumbers DEF RootStays
    <3>3. CASE doc'[d] = dropped(d) /\ ~doc[d].memory
      BY <2>1, <3>3
    <3>4. CASE doc'[d] = doc[d] /\ (doc[d].folder \in F => ~doc[d].memory /\ doc[d].state /= "live")
      BY <1>9, <3>1, <3>4
    <3> QED
      BY <2>3, <3>2, <3>3, <3>4
  <2> QED
    BY <2>5, <2>6 DEF DocsPlaced
<1>14. /\ kbFile' \in [KbFile -> FileRow]
       /\ \A x \in KbFile : /\ kbFile'[x].folder = kbFile[x].folder
                            /\ kbFile'[x].state = IF kbFile[x].folder \in F /\ kbFile[x].state = "live"
                                                  THEN "deleted" ELSE kbFile[x].state
  BY <1>1, <1>5 DEF FileRow, Existence
<1>15. FilesPlaced(kbFile', folder', blob', stray')
  BY <1>2, <1>9, <1>14 DEF KnowledgeInv, FilesPlaced
<1>16. \A x \in KbFile : /\ kbFile'[x].state = "live" => kbFile[x].state = "live"
                         /\ kbFile'[x].state /= "none" <=> kbFile[x].state /= "none"
  BY <1>14
<1>17. RowFits(q, folder', kbFile', comment', blob', stray', crossed')
  <2>1. \A y \in q.list : /\ kbFile'[y].state /= "none"
                          /\ <<"file", y>> \in stray' \/ kbFile'[y].state /= "live"
    BY <1>2, <1>6, <1>14, <1>16
  <2> QED
    BY <1>6, <2>1 DEF RowFits
<1>18. ASSUME NEW a \in Tray, RowFits(tray[a], folder, kbFile, comment, blob, stray, crossed)
       PROVE  RowFits(tray[a], folder', kbFile', comment', blob', stray', crossed')
  <2>1. tray[a].list \subseteq KbFile
    BY <1>1 DEF TrayRow
  <2>2. \A y \in tray[a].list : /\ kbFile'[y].state /= "none" <=> kbFile[y].state /= "none"
                                /\ kbFile'[y].state = "live" => kbFile[y].state = "live"
                                /\ kbFile'[y].folder = kbFile[y].folder
    BY <1>14, <1>16, <2>1
  <2>3. tray[a].op = "upload" => kbFile'[tray[a].id].state = "none"
    BY <1>16, <1>18 DEF RowFits
  <2> QED
    BY <1>2, <1>10, <1>18, <2>2, <2>3 DEF RowFits
<1>19. tray' \in [Tray -> TrayRow] /\ TrayFits' /\ UploadsApart'
  BY <1>2, <1>6, <1>17, <1>18, TrayMoves
<1> QED
  BY <1>2, <1>9, <1>11, <1>12, <1>13, <1>14, <1>15, <1>19 DEF KnowledgeInv, KnowledgeType

LEMMA NextKnowledge == KnowledgeInv /\ [KnowledgeNext]_kbVars => KnowledgeInv'
<1> SUFFICES ASSUME KnowledgeInv, [KnowledgeNext]_kbVars PROVE KnowledgeInv'
  OBVIOUS
<1>1. CASE UNCHANGED kbVars
  BY <1>1 DEF kbVars, KnowledgeInv, KnowledgeType, TrayFits, UploadsApart
<1>2. ASSUME NEW t \in Tray, createKnowledgeFolder(t) \/ moveKnowledgeFolder(t) \/ deleteKnowledgeFolder(t)
      PROVE  KnowledgeInv'
  BY <1>2, FolderRequests
<1>3. ASSUME NEW t \in Tray, InsertFolder(t) \/ WriteFolderMove(t) \/ DropFolder(t) \/ PurgeFiles(t)
      PROVE  KnowledgeInv'
  BY <1>3, FolderInserted, FolderMoved, FolderDropped, FilesPurged
<1>4. ASSUME NEW t \in Tray,
             \/ createKnowledgeDocument(t) \/ updateKnowledgeDocument(t) \/ moveKnowledgeDocument(t)
             \/ deleteKnowledgeDocument(t) \/ restoreKnowledgeDocumentVersion(t) \/ rememberZyraMemory(t)
      PROVE  KnowledgeInv'
  BY <1>4, DocumentRequests
<1>5. ASSUME NEW t \in Tray,
             \/ InsertDocument(t) \/ SaveDocument(t) \/ WriteDocumentMove(t) \/ DropDocument(t)
             \/ RevertDocument(t) \/ WriteMemory(t)
      PROVE  KnowledgeInv'
  BY <1>5, DocumentInserted, DocumentSaved, DocumentMoved, DocumentDropped, DocumentReverted, MemoryWritten
<1>6. ASSUME NEW t \in Tray, createKnowledgeDocumentComment(t) \/ moveKnowledgeFile(t)
      PROVE  KnowledgeInv'
  BY <1>6, OtherRequests
<1>7. ASSUME NEW t \in Tray,
             \/ InsertComment(t) \/ uploadKnowledgeFiles(t) \/ InsertFile(t) \/ WriteFileMove(t)
             \/ deleteKnowledgeFile(t)
      PROVE  KnowledgeInv'
  BY <1>7, CommentInserted, FileUploaded, FileInserted, FileMoved, FileDeleted
<1>8. CASE \/ restoreKnowledgeFolder \/ duplicateKnowledgeDocument \/ restoreKnowledgeDocument \/ reviewAiMemory
           \/ updateKnowledgeDocumentComment \/ deleteKnowledgeDocumentComment \/ restoreKnowledgeFile
  BY <1>8, FolderRestored, DocumentDuplicated, DocumentRestored, MemoryReviewed, ThreadResolved, CommentDeleted, FileRestored
<1> QED
  BY <1>1, <1>2, <1>3, <1>4, <1>5, <1>6, <1>7, <1>8 DEF KnowledgeNext

\* Where no write rested on a stale read, the live folders are what the root's walk finds.
LEMMA WalkFindsAll ==
  ASSUME KnowledgeInv, ~crossed, stray = {}
  PROVE  LiveSubtree(1) = kbFolder
<1>1. /\ folder[1].state = "live"
      /\ \A f \in Folder : folder[f].state /= "none" => f \in Beneath(Folder, folder, 1)
      /\ \A f \in Folder : folder[f].state = "live"
                             => f = 1 \/ (folder[folder[f].parent].state = "live" /\ folder[f].parent \in Folder)
  BY DEF KnowledgeInv, RootStays, HangTogether, ParentsLive
<1>2. Beneath({f \in Folder : folder[f].state = "live"}, folder, 1) = {f \in Folder : folder[f].state = "live"}
  BY <1>1, AllBeneath
<1> QED
  BY <1>2 DEF LiveSubtree, kbFolder

LEMMA KnowledgeInvKept == KnowledgeInv => KnowledgeKept
<1> SUFFICES ASSUME KnowledgeInv PROVE KnowledgeKept
  OBVIOUS
<1>1. FoldersFormTree
  BY IdsAreNumbers DEF KnowledgeInv, FoldersFormTree, HangTogether, kbBreadcrumb, Subtree
<1>2. MemoryKept
  BY DEF KnowledgeInv, DocsPlaced, MemoryKept, kbDocument, kbFolder
<1>3. FilesHaveBytes
  BY DEF KnowledgeInv, FilesPlaced, FilesHaveBytes, kbFileRow, getKnowledgeFileAccess
<1>4. ThreadsWhole
  <2>1. \A c \in Comment : comment[c].parent \in Comment \cup {0}
    BY DEF KnowledgeInv, KnowledgeType, NoteRow
  <2> QED
    BY <2>1 DEF KnowledgeInv, RepliesPlaced, ThreadsWhole, Comments, listKnowledgeDocumentComments
<1>5. ListingsAgree
  <2> SUFFICES ASSUME ~crossed, stray = {}
               PROVE  LET E == exportKnowledgeFolder(1) IN
                      /\ knowledgeBaseSummary.docs = Cardinality(E.docs)
                      /\ knowledgeBaseSummary.docs = folderCounts(1).docs
                      /\ knowledgeBaseSummary.files = Cardinality(E.files)
                      /\ knowledgeBaseSummary.files = folderCounts(1).files
                      /\ searchKnowledgeBase.docs = UNION {listKnowledgeFolderItems(f).docs : f \in LiveSubtree(1)}
                      /\ searchKnowledgeBase.docs
                           = listKnowledgeDocuments("general") \cup listKnowledgeDocuments("ai_memory")
                      /\ searchKnowledgeBase.folders \ {1}
                           = UNION {listKnowledgeFolderItems(f).folders : f \in LiveSubtree(1)}
    BY DEF ListingsAgree
  <2>1. LiveSubtree(1) = kbFolder
    BY WalkFindsAll
  <2>2. /\ \A d \in kbDocument : doc[d].folder \in kbFolder
        /\ \A x \in kbFileRow : kbFile[x].folder \in kbFolder /\ x \in blob
    BY DEF KnowledgeInv, DocsPlaced, FilesPlaced, kbDocument, kbFileRow, kbFolder
  <2>3. /\ {d \in kbDocument : doc[d].folder \in LiveSubtree(1)} = kbDocument
        /\ {x \in kbFileRow \cap blob : kbFile[x].folder \in LiveSubtree(1)} = kbFileRow
        /\ {x \in kbFileRow : kbFile[x].folder \in LiveSubtree(1)} = kbFileRow
    BY <2>1, <2>2
  <2>4. /\ exportKnowledgeFolder(1).docs = kbDocument /\ exportKnowledgeFolder(1).files = kbFileRow
        /\ folderCounts(1).docs = Cardinality(kbDocument) /\ folderCounts(1).files = Cardinality(kbFileRow)
    BY <2>3 DEF exportKnowledgeFolder, folderCounts
  <2>5. kbDocument = UNION {listKnowledgeFolderItems(f).docs : f \in kbFolder}
    BY <2>2 DEF listKnowledgeFolderItems
  <2>6. kbDocument = listKnowledgeDocuments("general") \cup listKnowledgeDocuments("ai_memory")
    BY DEF KnowledgeInv, KnowledgeType, DocRow, kbDocument, listKnowledgeDocuments
  <2>7. kbFolder \ {1} = UNION {listKnowledgeFolderItems(f).folders : f \in kbFolder}
    <3>1. \A g \in kbFolder \ {1} : folder[g].parent \in kbFolder
      BY DEF KnowledgeInv, ParentsLive, kbFolder
    <3>2. 1 \in kbFolder => folder[1].parent \notin kbFolder
      BY IdsAreNumbers DEF KnowledgeInv, RootStays, kbFolder
    <3> QED
      BY <3>1, <3>2 DEF listKnowledgeFolderItems
  <2> QED
    BY <2>1, <2>4, <2>5, <2>6, <2>7 DEF knowledgeBaseSummary, searchKnowledgeBase
<1> QED
  BY <1>1, <1>2, <1>3, <1>4, <1>5 DEF KnowledgeKept

\* Whatever moves, deletions, restorations and stale writes overlap, what the Knowledge Base was
\* given is kept and found: the tree hangs together, Zyra's memory outlives its folder, a listed
\* file has its bytes, a reply its thread, and every view of the project agrees with the others.
THEOREM KnowledgeIsKept == KnowledgeSpec => []KnowledgeKept
BY InitKnowledge, NextKnowledge, KnowledgeInvKept, PTL DEF KnowledgeSpec

-----------------------------------------------------------------------------
(* ZyraTurn *)

TurnType ==
  /\ decided = <<>> \/ \E n \in Nat : decided \in [1 .. n -> ZyraOps]
  /\ toDo \subseteq DOMAIN decided
  /\ appliedRows \in Nat /\ missed \in Nat
  /\ blurred \in BOOLEAN
  /\ decided = <<>> => appliedRows = 0

\* Every operation on test cases was carried out, was missed or is still to do.
Accounted ==
  blurred \/ missed + appliedRows + Cardinality(toDo \cap OnCases(decided)) = Cardinality(OnCases(decided))

\* The reply comes last, and stands uncorrected only if as many rows were written as were asked for.
ReplySettled ==
  /\ reply /= "none" => decided /= <<>> /\ toDo = {}
  /\ reply = "plain" => appliedRows >= Cardinality(OnCases(decided))

TurnInv == TurnType /\ Accounted /\ ReplySettled

\* Among finitely many operations those on test cases are counted, one less when it is done.
LEMMA OnCasesFacts ==
  ASSUME NEW ops, ops = <<>> \/ \E n \in Nat : ops \in [1 .. n -> ZyraOps]
  PROVE  /\ IsFiniteSet(DOMAIN ops) /\ IsFiniteSet(OnCases(ops)) /\ OnCases(ops) \subseteq DOMAIN ops
         /\ Cardinality(OnCases(ops)) \in Nat
         /\ \A T \in SUBSET DOMAIN ops :
              /\ Cardinality(T \cap OnCases(ops)) \in Nat
              /\ Cardinality(OnCases(ops) \ T) \in Nat
              /\ Cardinality(OnCases(ops) \ T) + Cardinality(T \cap OnCases(ops)) = Cardinality(OnCases(ops))
              /\ \A i \in T : Cardinality((T \ {i}) \cap OnCases(ops))
                    = IF ops[i].type = "create_suite" THEN Cardinality(T \cap OnCases(ops))
                      ELSE Cardinality(T \cap OnCases(ops)) - 1
<1> DEFINE W == OnCases(ops)
<1>1. IsFiniteSet(DOMAIN ops)
  <2>1. CASE ops = <<>>
    <3>1. DOMAIN ops = {}
      BY <2>1
    <3> QED BY <3>1, FS_EmptySet
  <2>2. CASE \E n \in Nat : ops \in [1 .. n -> ZyraOps]
    <3>1. PICK n \in Nat : DOMAIN ops = 1 .. n
      BY <2>2
    <3> QED BY <3>1, FS_Interval
  <2> QED BY <2>1, <2>2
<1>2. W \in SUBSET DOMAIN ops
  BY DEF OnCases
<1>3. IsFiniteSet(W) /\ Cardinality(W) \in Nat
  BY <1>1, <1>2, FS_Subset, FS_CardinalityType
<1>4. \A i \in DOMAIN ops : i \in W <=> ops[i].type /= "create_suite"
  BY DEF OnCases
<1>5. ASSUME NEW T \in SUBSET DOMAIN ops
      PROVE  /\ Cardinality(T \cap W) \in Nat
             /\ Cardinality(W \ T) \in Nat
             /\ Cardinality(W \ T) + Cardinality(T \cap W) = Cardinality(W)
             /\ \A i \in T : Cardinality((T \ {i}) \cap W)
                   = IF ops[i].type = "create_suite" THEN Cardinality(T \cap W)
                     ELSE Cardinality(T \cap W) - 1
  <2> DEFINE A == T \cap W
             B == W \ T
  <2>1. A \cup B = W /\ A \cap B = {} /\ A \in SUBSET W /\ B \in SUBSET W
    OBVIOUS
  <2>2. \A i \in T : (T \ {i}) \cap W = IF i \in W THEN A \ {i} ELSE A
    OBVIOUS
  <2>3. \A i \in W : i \in T => i \in A
    OBVIOUS
  <2> HIDE DEF A, B, W
  <2>4. IsFiniteSet(A) /\ IsFiniteSet(B)
    BY <1>3, <2>1, FS_Subset
  <2>5. Cardinality(A) \in Nat /\ Cardinality(B) \in Nat
    BY <2>4, FS_CardinalityType
  <2>6. Cardinality(W) = Cardinality(A) + Cardinality(B) - Cardinality({})
    BY <2>1, <2>4, FS_Union
  <2>7. Cardinality(B) + Cardinality(A) = Cardinality(W)
    BY <2>5, <2>6, FS_EmptySet
  <2>8. \A i \in A : Cardinality(A \ {i}) = Cardinality(A) - 1
    BY <2>4, FS_RemoveElement
  <2>9. ASSUME NEW i \in T
        PROVE  Cardinality((T \ {i}) \cap W)
                 = IF ops[i].type = "create_suite" THEN Cardinality(A) ELSE Cardinality(A) - 1
    BY <1>4, <2>2, <2>3, <2>8
  <2> QED BY <2>5, <2>7, <2>9 DEF A, B
<1> QED BY <1>1, <1>2, <1>3, <1>5

\* A turn starts with nothing to account for.
LEMMA InitTurn == ZyraTurnInit => TurnInv
<1> SUFFICES ASSUME ZyraTurnInit PROVE TurnInv
  OBVIOUS
<1>1. OnCases(decided) = {} /\ toDo = {} /\ DOMAIN decided = {}
  BY DEF ZyraTurnInit, OnCases
<1>2. Cardinality({}) = 0 /\ toDo \cap OnCases(decided) = {}
  BY <1>1, FS_EmptySet
<1>3. TurnType
  BY <1>1 DEF ZyraTurnInit, TurnType
<1>4. Accounted
  <2>1. OnCases(decided) = {} /\ toDo \cap OnCases(decided) = {} /\ missed = 0 /\ appliedRows = 0
    BY <1>1 DEF ZyraTurnInit
  <2>2. missed + appliedRows + Cardinality(toDo \cap OnCases(decided)) = 0 + 0 + 0
    BY <1>2, <2>1
  <2> QED BY <1>2, <2>1, <2>2 DEF Accounted
<1>5. ReplySettled
  BY <1>1 DEF ZyraTurnInit, ReplySettled
<1> QED BY <1>3, <1>4, <1>5 DEF TurnInv

\* Adding numbers.
LEMMA SumInNat == \A m, n \in Nat : m + n \in Nat
OBVIOUS

\* Every step keeps the account of the operations.
LEMMA NextTurn == TurnInv /\ [ZyraTurnNext]_ztnVars => TurnInv'
<1> SUFFICES ASSUME TurnInv, [ZyraTurnNext]_ztnVars PROVE TurnInv'
  OBVIOUS
<1> DEFINE W == OnCases(decided)
           Fate(i) == \* what an operation's step comes down to
             /\ decided' = decided /\ toDo' \subseteq DOMAIN decided /\ toDo /= {} /\ reply' = reply
             /\ missed' \in Nat /\ appliedRows' \in Nat /\ blurred' \in BOOLEAN
             /\ blurred => blurred'
             /\ Cardinality(toDo \cap W) \in Nat /\ Cardinality(toDo' \cap W) \in Int
             /\ ~blurred' => missed' + appliedRows' + Cardinality(toDo' \cap W)
                               = missed + appliedRows + Cardinality(toDo \cap W)
<1>0. ASSUME NEW i, Fate(i) PROVE TurnInv'
  <2>1. TurnType'
    BY <1>0 DEF TurnInv, TurnType
  <2>2. Accounted'
    <3>1. OnCases(decided') = W
      BY <1>0
    <3>2. ~blurred' => missed + appliedRows + Cardinality(toDo \cap W) = Cardinality(W)
      BY <1>0 DEF TurnInv, Accounted
    <3> QED BY <1>0, <3>1, <3>2 DEF Accounted
  <2>3. ReplySettled'
    BY <1>0 DEF TurnInv, ReplySettled
  <2> QED BY <2>1, <2>2, <2>3 DEF TurnInv
<1>1. CASE decideTurn
  <2>1. PICK raw \in SeqOf(ZyraOps, OpLimit + 1) :
           decided' = normalizeZyraChatDecision(raw) /\ blurred' = (Len(raw) > OpLimit)
    BY <1>1 DEF decideTurn
  <2>2. \E n \in Nat : decided' \in [1 .. n -> ZyraOps]
    <3>1. PICK m \in Nat : raw \in [1 .. m -> ZyraOps]
      BY <2>1 DEF SeqOf
    <3>2. raw \in Seq(ZyraOps) /\ Len(raw) = m
      BY <3>1
    <3> DEFINE k == IF m < OpLimit THEN m ELSE OpLimit
    <3>3. k \in Nat /\ k <= m
      BY <3>1, ZyraTurnConstants
    <3>4. decided' = [j \in 1 .. k |-> raw[j]]
      BY <2>1, <3>2, <3>3 DEF normalizeZyraChatDecision
    <3> HIDE DEF k
    <3>5. \A j \in 1 .. k : raw[j] \in ZyraOps
      BY <3>1, <3>3
    <3> QED BY <3>3, <3>4, <3>5
  <2>3. /\ toDo' \in SUBSET DOMAIN decided'
        /\ missed' = Cardinality(OnCases(decided') \ toDo')
        /\ appliedRows = 0 /\ appliedRows' = 0 /\ reply' = "none" /\ blurred' \in BOOLEAN
    <3>1. decided = <<>> /\ reply = "none" /\ reply' = reply /\ appliedRows' = appliedRows
      BY <1>1 DEF decideTurn
    <3>2. blurred' \in BOOLEAN
      BY <2>1
    <3>3. toDo' \in SUBSET DOMAIN decided' /\ missed' = Cardinality(OnCases(decided') \ toDo')
      BY <1>1 DEF decideTurn
    <3> QED BY <3>1, <3>2, <3>3 DEF TurnInv, TurnType
  <2>4. missed' \in Nat /\ missed' + Cardinality(toDo' \cap OnCases(decided')) = Cardinality(OnCases(decided'))
    BY <2>2, <2>3, OnCasesFacts
  <2> QED BY <2>2, <2>3, <2>4 DEF TurnInv, TurnType, Accounted, ReplySettled
<1>fate. ASSUME NEW i \in toDo, NEW type, Carry(i, type), decided' = decided, reply' = reply,
             missed' \in Nat, appliedRows' \in Nat, blurred' \in BOOLEAN, blurred => blurred',
             ~blurred' => missed' + appliedRows' = missed + appliedRows + IF type = "create_suite" THEN 0 ELSE 1
      PROVE  Fate(i)
  <2> DEFINE c == IF type = "create_suite" THEN 0 ELSE 1
  <2>1. /\ toDo' \subseteq DOMAIN decided /\ Cardinality(toDo \cap W) \in Nat
        /\ Cardinality(toDo' \cap W) = Cardinality(toDo \cap W) - c
    <3>1. /\ toDo' \subseteq DOMAIN decided /\ Cardinality(toDo \cap W) \in Nat
          /\ type = "create_suite" => Cardinality(toDo' \cap W) = Cardinality(toDo \cap W)
          /\ type /= "create_suite" => Cardinality(toDo' \cap W) = Cardinality(toDo \cap W) - 1
      <4>1. toDo \in SUBSET DOMAIN decided /\ (decided = <<>> \/ \E n \in Nat : decided \in [1 .. n -> ZyraOps])
        BY DEF TurnInv, TurnType
      <4>2. toDo' = toDo \ {i} /\ decided[i].type = type /\ i \in toDo
        BY <1>fate DEF Carry
      <4>3. /\ Cardinality(toDo \cap W) \in Nat
            /\ Cardinality((toDo \ {i}) \cap W)
                 = IF decided[i].type = "create_suite" THEN Cardinality(toDo \cap W)
                   ELSE Cardinality(toDo \cap W) - 1
        BY <4>1, <4>2, OnCasesFacts
      <4> HIDE DEF W
      <4> QED BY <4>1, <4>2, <4>3
    <3> HIDE DEF W
    <3> QED BY <3>1
  <2>2. missed \in Nat /\ appliedRows \in Nat
    BY DEF TurnInv, TurnType
  <2>5. c \in 0 .. 1 /\ (~blurred' => missed' + appliedRows' = missed + appliedRows + c)
    BY <1>fate
  <2> HIDE DEF W, c
  <2>3. Cardinality(toDo' \cap W) \in Int
    BY <2>1, <2>5
  <2>4. ~blurred' => missed' + appliedRows' + Cardinality(toDo' \cap W)
                       = missed + appliedRows + Cardinality(toDo \cap W)
    <3>1. missed' \in Nat /\ appliedRows' \in Nat
      BY <1>fate
    <3> DEFINE a == Cardinality(toDo \cap W)
               b == Cardinality(toDo' \cap W)
    <3>2. a \in Nat /\ b = a - c
      BY <2>1
    <3> HIDE DEF a, b
    <3>3. ASSUME missed' + appliedRows' = missed + appliedRows + c
          PROVE  missed' + appliedRows' + b = missed + appliedRows + a
      <4> DEFINE m == missed + appliedRows
                 n == missed' + appliedRows'
      <4>1. m \in Nat /\ n \in Nat
        <5>1. m \in Nat
          BY <2>2
        <5>2. n \in Nat
          BY <3>1, SumInNat
        <5> QED BY <5>1, <5>2
      <4>2. n = m + c
        BY <3>3
      <4> HIDE DEF m, n
      <4>3. n + b = m + a
        BY <2>5, <3>2, <4>1, <4>2
      <4> QED BY <4>3 DEF m, n
    <3> QED BY <2>5, <3>3 DEF a, b
  <2> QED BY <1>fate, <2>1, <2>3, <2>4
<1>types. missed \in Nat /\ appliedRows \in Nat /\ blurred \in BOOLEAN
  BY DEF TurnInv, TurnType
<1> HIDE DEF Fate
<1>2. ASSUME NEW i \in toDo, createSuiteOp(i) PROVE Fate(i)
  <2>1. Carry(i, "create_suite") /\ decided' = decided
    BY <1>2 DEF createSuiteOp
  <2>3. reply' = reply /\ blurred' = blurred /\ missed' = missed /\ appliedRows' = appliedRows
    BY <1>2 DEF createSuiteOp
  <2>4. /\ missed' \in Nat /\ appliedRows' \in Nat
        /\ missed' + appliedRows' = missed + appliedRows + 0
    BY <1>types, <2>3
  <2> QED BY <1>fate, <1>types, <2>1, <2>3, <2>4
<1>3. ASSUME NEW i \in toDo, createFromDraft(i) PROVE Fate(i)
  <2>1. Carry(i, "create") /\ decided' = decided
    BY <1>3 DEF createFromDraft
  <2>2. (appliedRows' = appliedRows + 1 /\ missed' = missed) \/ (missed' = missed + 1 /\ appliedRows' = appliedRows)
    BY <1>3 DEF createFromDraft, Misses
  <2>3. reply' = reply /\ blurred' = blurred
    BY <1>3 DEF createFromDraft
  <2>4. /\ missed' \in Nat /\ appliedRows' \in Nat
        /\ missed' + appliedRows' = missed + appliedRows + 1
    BY <1>types, <2>2
  <2> QED BY <1>fate, <1>types, <2>1, <2>3, <2>4
<1>4. ASSUME NEW i \in toDo, NEW type \in {"update", "archive"}, patchTestCaseFromZyra(i, type) PROVE Fate(i)
  <2>1. Carry(i, type) /\ decided' = decided
    BY <1>4 DEF patchTestCaseFromZyra
  <2>2. (appliedRows' = appliedRows + 1 /\ missed' = missed) \/ (missed' = missed + 1 /\ appliedRows' = appliedRows)
    BY <1>4 DEF patchTestCaseFromZyra, Misses
  <2>3. reply' = reply /\ blurred' = blurred
    BY <1>4 DEF patchTestCaseFromZyra
  <2>4. /\ missed' \in Nat /\ appliedRows' \in Nat
        /\ missed' + appliedRows' = missed + appliedRows + 1
    BY <1>types, <2>2
  <2> QED BY <1>fate, <1>types, <2>1, <2>3, <2>4
<1>5. ASSUME NEW i \in toDo, moveToSuite(i) PROVE Fate(i)
  <2> DEFINE found == resolveZyraMoveTargets(decided[i])
  <2>1. Carry(i, "move_to_suite") /\ decided' = decided /\ reply' = reply
    BY <1>5 DEF moveToSuite
  <2>2. IsFiniteSet(found)
    <3>1. decided[i] \in ZyraOps
      BY DEF TurnInv, TurnType
    <3>2. decided[i].targets \in SUBSET ZCase
      BY <3>1 DEF ZyraOps, Op
    <3> QED BY <3>2, ZyraTurnConstants, FS_Subset DEF resolveZyraMoveTargets
  <2>3. \/ missed' = missed + 1 /\ appliedRows' = appliedRows /\ blurred' = blurred
        \/ /\ found /= {} /\ missed' = missed /\ appliedRows' = appliedRows + Cardinality(found)
           /\ blurred' = (blurred \/ Cardinality(found) > 1)
    BY <1>5 DEF moveToSuite, Misses
  <2> HIDE DEF found
  <2>4. Cardinality(found) \in Nat /\ (found /= {} => Cardinality(found) > 0)
    <3>1. Cardinality(found) \in Nat /\ (Cardinality(found) = 0 <=> found = {})
      BY <2>2, FS_CardinalityType, FS_EmptySet
    <3> QED BY <3>1
  <2>5. /\ missed' \in Nat /\ appliedRows' \in Nat /\ blurred' \in BOOLEAN /\ (blurred => blurred')
        /\ ~blurred' => missed' + appliedRows' = missed + appliedRows + 1
    <3>1. CASE missed' = missed + 1 /\ appliedRows' = appliedRows /\ blurred' = blurred
      BY <1>types, <3>1
    <3>2. CASE /\ found /= {} /\ missed' = missed /\ appliedRows' = appliedRows + Cardinality(found)
               /\ blurred' = (blurred \/ Cardinality(found) > 1)
      <4>1. missed' \in Nat /\ appliedRows' \in Nat
        BY <1>types, <2>4, <3>2
      <4>2. ~blurred' => ~(Cardinality(found) > 1)
        BY <3>2
      <4>3. ~blurred' => Cardinality(found) = 1
        BY <2>4, <3>2, <4>2
      <4>4. blurred' \in BOOLEAN /\ (blurred => blurred')
        BY <3>2
      <4> QED BY <1>types, <3>2, <4>1, <4>3, <4>4
    <3> QED BY <2>3, <3>1, <3>2
  <2> QED BY <1>fate, <2>1, <2>5
<1>6. CASE finalizeZyraChatReply
  <2>1. Cardinality(W) \in Nat /\ (W = {} <=> Cardinality(W) = 0)
    BY OnCasesFacts, FS_EmptySet DEF TurnInv, TurnType
  <2>2. /\ UNCHANGED <<decided, toDo, appliedRows, missed, blurred>>
        /\ decided /= <<>> /\ toDo = {} /\ reply' = reconcileZyraReply
    BY <1>6 DEF finalizeZyraChatReply
  <2>3. reply' = "plain" => appliedRows >= Cardinality(W)
    BY <2>1, <2>2 DEF reconcileZyraReply, TurnInv, TurnType
  <2>4. TurnType' /\ Accounted'
    BY <2>2 DEF TurnInv, TurnType, Accounted, OnCases
  <2>5. ReplySettled'
    BY <2>2, <2>3 DEF ReplySettled, OnCases
  <2> QED BY <2>4, <2>5 DEF TurnInv
<1>7. CASE Meddle \/ UNCHANGED ztnVars
  <2>1. UNCHANGED <<decided, toDo, appliedRows, missed, blurred, reply>>
    BY <1>7 DEF Meddle, ztnVars
  <2> QED BY <2>1 DEF TurnInv, TurnType, Accounted, ReplySettled, OnCases
<1> QED BY <1>0, <1>1, <1>2, <1>3, <1>4, <1>5, <1>6, <1>7 DEF ZyraTurnNext

\* Nothing left to do and as many rows as were asked for: nothing was missed.
LEMMA TurnInvHonest == TurnInv => ReplyHonest
<1> SUFFICES ASSUME TurnInv, reply = "plain", ~blurred PROVE missed = 0
  BY DEF TurnInv, TurnType, ReplyHonest
<1> DEFINE W == OnCases(decided)
<1>1. toDo \cap W = {} /\ appliedRows >= Cardinality(W)
  BY DEF TurnInv, ReplySettled
<1>2. missed + appliedRows + Cardinality({}) = Cardinality(W)
  BY <1>1 DEF TurnInv, Accounted
<1>3. Cardinality(W) \in Nat /\ Cardinality({}) = 0
  BY OnCasesFacts, FS_EmptySet DEF TurnInv, TurnType
<1> QED BY <1>1, <1>2, <1>3 DEF TurnInv, TurnType

\* Whatever is gated, collides or is deleted underneath a turn, the model's own words stand
\* uncorrected only if every operation on test cases was carried out, or a move of several of
\* them or a cut at the limit blurred the count (reconcileZyraReply).
THEOREM ReplyIsHonest == ZyraTurnSpec => []ReplyHonest
BY InitTurn, NextTurn, TurnInvHonest, PTL DEF ZyraTurnSpec
=============================================================================
