--------------------------- MODULE IntegrationSync ---------------------------
(***************************************************************************)
(* The ticket-tracker -> Knowledge Base pipeline of                        *)
(* Tesbo-Backend-Nest/src/integration-sync, for one project and provider.  *)
(* A Sync click inserts a row in integration_sync_runs and adds a          *)
(* coordinator job to a BullMQ queue.  The coordinator pages the provider, *)
(* upserts the tickets and fans out one job per ticket.  Each ticket job   *)
(* mirrors its ticket and bumps the run's counters; whichever bump reaches *)
(* the total settles the run.  At boot, interrupted runs are reset and     *)
(* their coordinator job is added again.                                   *)
(*                                                                         *)
(* One step is one statement against Postgres or Redis, or a group of      *)
(* statements that commute with every step of the other actors (said at    *)
(* the action).  Postgres (statements, the partial unique index, cascades) *)
(* and Redis/BullMQ (a queue whose add is a no-op while it holds the same  *)
(* job id in any state) survive a crash; program counters do not.          *)
(***************************************************************************)
EXTENDS Integers, FiniteSets

CONSTANTS
  Run,            \* ids of the runs that may be inserted, in order of creation
  Ticket,         \* tickets of the linked remote project
  MaxTickets,     \* MAX_TICKETS_PER_RUN
  MaxAttempts,    \* "attempts" of a ticket job
  Concurrency,    \* INTEGRATION_SYNC_CONCURRENCY
  MaxCrashes,     \* bound: restarts of the backend
  MaxFaults,      \* bound: failing Postgres or Redis calls
  MaxDisconnects  \* bound: times the owner disconnects the provider

ASSUME SyncAssumption ==
  /\ Run \subseteq Nat
  /\ IsFiniteSet(Run)
  /\ IsFiniteSet(Ticket)
  /\ MaxTickets \in Nat \ {0}
  /\ MaxAttempts \in Nat \ {0}
  /\ Concurrency \in Nat \ {0}
  /\ MaxFaults \in Nat
  /\ MaxDisconnects \in Nat
  /\ MaxCrashes \in 0 .. 1  \* BullMQ gives up on a job that stalls twice

VARIABLES
  row,          \* integration_sync_runs: status, counters, error
  request,      \* the startRun call that inserted the run, until it has answered
  runJob,       \* the coordinator job "run-<id>" in Redis
  pc,           \* next step of the coordinator handling that job
  queued,       \* the coordinator's local list of tickets
  truncated,    \* the coordinator hit MaxTickets
  tjob,         \* the jobs "ticket-<run>-<ticket>": phase and attempts made
  live,         \* ticket rows, as seen by the run that upserted them
  docs,         \* tickets mirrored in knowledge_documents
  link,         \* integration_connections and the project mapping
  boot,         \* progress of resumeInterruptedRuns on each run it selected
  crashes, faults, disconnects

vars == <<row, request, runJob, pc, queued, truncated, tjob, live, docs, link,
          boot, crashes, faults, disconnects>>

InFlight   == {"queued", "running"}
Settled    == {"succeeded", "partial", "failed"}
Status     == {"absent"} \cup InFlight \cup Settled
JobState   == {"absent", "waiting", "active", "completed"}
Step       == {"idle", "mark", "connect", "fetch", "stale", "totals", "fanout",
                "note"}
Counted    == {"finish", "completed"}    \* this job's "processed" is recorded
FailCounted == {"failfinish", "failed"}  \* this job's "failed" is recorded
Working    == {"build", "count", "finish"}  \* the job occupies a worker slot
Phase      == {"absent", "waiting", "exhausted"}
                \cup Working \cup Counted \cup FailCounted

NewRow == [status |-> "queued", total |-> 0, processed |-> 0, failed |-> 0,
           error |-> "none"]

Init ==
  /\ row = [r \in Run |-> [NewRow EXCEPT !.status = "absent"]]
  /\ request = [r \in Run |-> "none"]
  /\ runJob = [r \in Run |-> "absent"]
  /\ pc = [r \in Run |-> "idle"]
  /\ queued = [r \in Run |-> {}]
  /\ truncated = [r \in Run |-> FALSE]
  /\ tjob = [r \in Run |-> [t \in Ticket |-> [phase |-> "absent", attempts |-> 0]]]
  /\ live = [r \in Run |-> {}]
  /\ docs = {}
  /\ link = "mapped"
  /\ boot = [r \in Run |-> "none"]
  /\ crashes = 0
  /\ faults = 0
  /\ disconnects = 0

-----------------------------------------------------------------------------
(* Shared pieces *)

Active(r) == row[r].status \in InFlight

\* The jobs a worker of this process holds; there are Concurrency slots.
Busy ==
  Cardinality({r \in Run : runJob[r] = "active"})
    + Cardinality({j \in Run \X Ticket : tjob[j[1]][j[2]].phase \in Working})

FreeSlot == Busy < Concurrency

\* Mutant: failRun without "AND status IN ('queued', 'running')".
failRunUnguarded(rw) == [rw EXCEPT !.status = "failed", !.error = "failure"]

\* UPDATE ... SET status = 'failed' ... WHERE status IN ('queued', 'running')
failRun(rw) ==
  IF rw.status \in InFlight
  THEN [rw EXCEPT !.status = "failed", !.error = "failure"]
  ELSE rw

\* Mutant: every settled run is reported as succeeded.
finishRunAlwaysSucceeded(rw, note) ==
  IF rw.status \in InFlight THEN [rw EXCEPT !.status = "succeeded"] ELSE rw

\* The guarded UPDATE that settles a run; error = COALESCE(error, note).
finishRun(rw, note) ==
  IF rw.status \in InFlight
  THEN [rw EXCEPT !.status = IF rw.failed > 0 THEN "partial" ELSE "succeeded",
                  !.error = IF rw.error = "none" THEN note ELSE rw.error]
  ELSE rw

\* Mutants: the completeness test one too early, and with > for >=.
CompleteEarly(rw) == rw.processed + rw.failed + 1 >= rw.total
CompleteStrict(rw) == rw.processed + rw.failed > rw.total

\* UPDATE ... SET total_tickets
setTotals(rw, n) == [rw EXCEPT !.total = n]

\* The single UPDATE of recordTicketResult.
recordTicketResult(rw, processed, failed) ==
  [rw EXCEPT !.processed = rw.processed + processed, !.failed = rw.failed + failed]

\* Did the UPDATE ... RETURNING of recordTicketResult report the last ticket?
Complete(rw) == rw.processed + rw.failed >= rw.total

\* A failing call to Postgres or Redis, out of the budget MaxFaults.
Fault == faults < MaxFaults /\ faults' = faults + 1

-----------------------------------------------------------------------------
(* startRun *)

\* Mutant: no partial unique index.
InsertRunUnchecked(r) ==
  /\ row[r].status = "absent"
  /\ \A s \in Run : s < r => row[s].status /= "absent"
  /\ row' = [row EXCEPT ![r] = NewRow]
  /\ request' = [request EXCEPT ![r] = "add"]
  /\ UNCHANGED <<runJob, pc, queued, truncated, tjob, live, docs, link, boot,
                 crashes, faults, disconnects>>

\* INSERT ... 'queued'.  The partial unique index refuses it while another run
\* is in flight; the caller is then answered with that run and nothing changes.
\* startIntegrationSync checked the connection before; since then the owner may
\* have disconnected it, so the INSERT itself does not depend on link.
InsertRun(r) ==
  /\ row[r].status = "absent"
  /\ \A s \in Run : s < r => row[s].status /= "absent"
  /\ \A s \in Run : ~Active(s)
  /\ row' = [row EXCEPT ![r] = NewRow]
  /\ request' = [request EXCEPT ![r] = "add"]
  /\ UNCHANGED <<runJob, pc, queued, truncated, tjob, live, docs, link, boot,
                 crashes, faults, disconnects>>

\* queue.add of the coordinator job: a no-op when Redis holds "run-<id>".
AddRunJob(r) ==
  /\ request[r] = "add"
  /\ request' = [request EXCEPT ![r] = "none"]
  /\ runJob' = [runJob EXCEPT ![r] = IF @ = "absent" THEN "waiting" ELSE @]
  /\ UNCHANGED <<row, pc, queued, truncated, tjob, live, docs, link, boot,
                 crashes, faults, disconnects>>

\* queue.add throws: the catch finds the row this very call inserted in flight
\* and answers alreadyRunning.
AddRunJobFails(r) ==
  /\ request[r] = "add"
  /\ Fault
  /\ request' = [request EXCEPT ![r] = "none"]
  /\ UNCHANGED <<row, runJob, pc, queued, truncated, tjob, live, docs, link,
                 boot, crashes, disconnects>>

-----------------------------------------------------------------------------
(* processRun, the coordinator *)

RunJobStart(r) ==
  /\ runJob[r] = "waiting"
  /\ FreeSlot
  /\ runJob' = [runJob EXCEPT ![r] = "active"]
  /\ pc' = [pc EXCEPT ![r] = "mark"]
  /\ queued' = [queued EXCEPT ![r] = {}]
  /\ truncated' = [truncated EXCEPT ![r] = FALSE]
  /\ UNCHANGED <<row, request, tjob, live, docs, link, boot, crashes, faults,
                 disconnects>>

\* processRun returns: the job completes and Redis retains it.
Return(r) ==
  /\ pc' = [pc EXCEPT ![r] = "idle"]
  /\ runJob' = [runJob EXCEPT ![r] = "completed"]

\* An exception inside processRun is caught and fails the run.
CatchFails(r) ==
  /\ row' = [row EXCEPT ![r] = failRun(@)]
  /\ Return(r)
  /\ UNCHANGED <<request, queued, truncated, tjob, live, docs, link, boot,
                 crashes, disconnects>>

\* The UPDATE has no guard on the status; the unique index makes it throw when
\* it would put a second run in flight.
MarkRunning(r) ==
  /\ pc[r] = "mark"
  /\ IF \E s \in Run \ {r} : Active(s)
     THEN CatchFails(r) /\ UNCHANGED faults
     ELSE /\ row' = [row EXCEPT ![r] = [@ EXCEPT !.status = "running"]]
          /\ pc' = [pc EXCEPT ![r] = "connect"]
          /\ UNCHANGED <<request, runJob, queued, truncated, tjob, live, docs,
                         link, boot, crashes, faults, disconnects>>

\* loadConnection, then the mapping: without either the run fails.  Creating
\* the provider folder is part of the step: no other actor reads it.
Connect(r) ==
  /\ pc[r] = "connect"
  /\ IF link = "mapped"
     THEN /\ pc' = [pc EXCEPT ![r] = "fetch"]
          /\ UNCHANGED <<row, runJob>>
     ELSE row' = [row EXCEPT ![r] = failRun(@)] /\ Return(r)
  /\ UNCHANGED <<request, queued, truncated, tjob, live, docs, link, boot,
                 crashes, faults, disconnects>>

\* What is left of the cap.
Remaining(r) == MaxTickets - Cardinality(queued[r])

\* One page: every ticket is upserted (the foreign key needs the connection that
\* was loaded), then setTotals publishes the count so far.  A page that exceeds what is left
\* of the cap is sliced and ends the paging.
FetchPage(r) ==
  /\ pc[r] = "fetch"
  /\ \E issues \in (SUBSET (Ticket \ queued[r])) \ {{}}, over \in BOOLEAN :
       /\ over = (Cardinality(issues) > Remaining(r))
       /\ \E page \in SUBSET issues :
            /\ Cardinality(page) = IF over THEN Remaining(r) ELSE Cardinality(issues)
            /\ queued' = [queued EXCEPT ![r] = @ \cup page]
            /\ live' = [live EXCEPT ![r] = @ \cup page]
            /\ row' = [row EXCEPT ![r] = setTotals(@, Cardinality(queued[r] \cup page))]
       /\ truncated' = [truncated EXCEPT ![r] = over]
       /\ pc' = [pc EXCEPT ![r] = IF over THEN "totals" ELSE "fetch"]
  /\ UNCHANGED <<request, runJob, tjob, docs, link, boot, crashes, faults,
                 disconnects>>

\* The provider reports its last page.
FetchEnd(r) ==
  /\ pc[r] \in {"fetch", "stale"}
  /\ pc' = [pc EXCEPT ![r] = "totals"]
  /\ UNCHANGED <<row, request, runJob, queued, truncated, tjob, live, docs,
                 link, boot, crashes, faults, disconnects>>

\* The final setTotals; a remote project without tickets settles at once.
SetTotals(r) ==
  /\ pc[r] = "totals"
  /\ LET rw == setTotals(row[r], Cardinality(queued[r]))
     IN IF queued[r] = {}
        THEN row' = [row EXCEPT ![r] = finishRun(rw, "empty")] /\ Return(r)
        ELSE /\ row' = [row EXCEPT ![r] = rw]
             /\ pc' = [pc EXCEPT ![r] = "fanout"]
             /\ UNCHANGED runJob
  /\ UNCHANGED <<request, queued, truncated, tjob, live, docs, link, boot,
                 crashes, faults, disconnects>>

\* addBulk, one Redis transaction; a job id Redis still holds is not added.
EnqueueTicketJobs(r) ==
  /\ pc[r] = "fanout"
  /\ tjob' = [tjob EXCEPT ![r] =
                [t \in Ticket |->
                   IF t \in queued[r] /\ @[t].phase = "absent"
                   THEN [phase |-> "waiting", attempts |-> 0] ELSE @[t]]]
  /\ IF truncated[r]
     THEN pc' = [pc EXCEPT ![r] = "note"] /\ UNCHANGED runJob
     ELSE Return(r)
  /\ UNCHANGED <<row, request, queued, truncated, live, docs, link, boot,
                 crashes, faults, disconnects>>

\* Mutant: the note is dropped when the tickets already settled the run.
NoteTruncationIfActive(r) ==
  /\ pc[r] = "note"
  /\ row' = [row EXCEPT ![r].error = IF Active(r) THEN "limit" ELSE @]
  /\ Return(r)
  /\ UNCHANGED <<request, queued, truncated, tjob, live, docs, link, boot,
                 crashes, faults, disconnects>>

\* The cap is written into the run's error after the fan-out.
NoteTruncation(r) ==
  /\ pc[r] = "note"
  /\ row' = [row EXCEPT ![r] = [@ EXCEPT !.error = "limit"]]
  /\ Return(r)
  /\ UNCHANGED <<request, queued, truncated, tjob, live, docs, link, boot,
                 crashes, faults, disconnects>>

\* The provider's API fails, or the connection's rows are gone under an upsert.
ProviderFails(r) ==
  /\ pc[r] \in {"connect", "fetch", "stale"}
  /\ CatchFails(r)
  /\ UNCHANGED faults

\* A statement or the fan-out fails.
CoordinatorFault(r) ==
  /\ pc[r] \in Step \ {"idle"}
  /\ Fault
  /\ CatchFails(r)

\* As above, and failRun fails too, in the catch and again in onFailed, which
\* swallows the error.  The job ends in the failed set, retained as well.
CoordinatorLost(r) ==
  /\ pc[r] \in Step \ {"idle"}
  /\ Fault
  /\ Return(r)
  /\ UNCHANGED <<row, request, queued, truncated, tjob, live, docs, link, boot,
                 crashes, disconnects>>

-----------------------------------------------------------------------------
(* processTicket, recordTicketResult and onFailed *)

SetPhase(r, t, p) == tjob' = [tjob EXCEPT ![r][t] = [@ EXCEPT !.phase = p]]

\* Mutant: a vanished ticket returns without being counted.
TicketJobStartUncounted(r, t) ==
  /\ tjob[r][t].phase = "waiting"
  /\ FreeSlot
  /\ SetPhase(r, t, IF t \in live[r] THEN "build" ELSE "completed")
  /\ UNCHANGED <<row, request, runJob, pc, queued, truncated, live, docs, link,
                 boot, crashes, faults, disconnects>>

\* A worker takes the job and reads the ticket's row.  A vanished ticket (its
\* connection was deleted, so its row is gone for good) is just counted.
TicketJobStart(r, t) ==
  /\ tjob[r][t].phase = "waiting"
  /\ FreeSlot
  /\ SetPhase(r, t, IF t \in live[r] THEN "build" ELSE "count")
  /\ UNCHANGED <<row, request, runJob, pc, queued, truncated, live, docs, link,
                 boot, crashes, faults, disconnects>>

\* loadConnection, comments, decision summary, upsert of the document.  Failed
\* comment fetches and summaries are tolerated.  Nothing but Disconnect can
\* come between these statements, and it does not touch documents.
TicketBuild(r, t) ==
  /\ tjob[r][t].phase = "build"
  /\ link /= "none"
  /\ docs' = docs \cup {t}
  /\ SetPhase(r, t, "count")
  /\ UNCHANGED <<row, request, runJob, pc, queued, truncated, live, link, boot,
                 crashes, faults, disconnects>>

\* Mutant: an error that is swallowed.
ThrowSwallowed(r, t) == SetPhase(r, t, "count")

\* The handler throws: BullMQ retries the job with a backoff, or, after the
\* last attempt, moves it to the failed set and calls onFailed.
Throw(r, t) ==
  LET n == tjob[r][t].attempts + 1
  IN tjob' = [tjob EXCEPT ![r][t] =
                [phase |-> IF n < MaxAttempts THEN "waiting" ELSE "exhausted",
                 attempts |-> n]]

\* The connection is gone, or refreshing its token fails on the network.
TicketBuildFails(r, t) ==
  /\ tjob[r][t].phase = "build"
  /\ Throw(r, t)
  /\ UNCHANGED <<row, request, runJob, pc, queued, truncated, live, docs, link,
                 boot, crashes, faults, disconnects>>

\* The counting UPDATE of recordTicketResult and its RETURNING.
CountProcessed(r, t) ==
  /\ tjob[r][t].phase = "count"
  /\ row' = [row EXCEPT ![r] = recordTicketResult(@, 1, 0)]
  /\ SetPhase(r, t, IF Complete(row'[r]) THEN "finish" ELSE "completed")
  /\ UNCHANGED <<request, runJob, pc, queued, truncated, live, docs, link, boot,
                 crashes, faults, disconnects>>

\* The finishRun that follows it; the job then completes.
FinishProcessed(r, t) ==
  /\ tjob[r][t].phase = "finish"
  /\ row' = [row EXCEPT ![r] = finishRun(@, "none")]
  /\ SetPhase(r, t, "completed")
  /\ UNCHANGED <<request, runJob, pc, queued, truncated, live, docs, link, boot,
                 crashes, faults, disconnects>>

\* A statement of the handler fails, before or after the counters were bumped.
TicketFault(r, t) ==
  /\ tjob[r][t].phase \in Working
  /\ Fault
  /\ Throw(r, t)
  /\ UNCHANGED <<row, request, runJob, pc, queued, truncated, live, docs, link,
                 boot, crashes, disconnects>>

\* onFailed after the last attempt: recordTicketResult with failed: 1.
CountFailed(r, t) ==
  /\ tjob[r][t].phase = "exhausted"
  /\ row' = [row EXCEPT ![r] = recordTicketResult(@, 0, 1)]
  /\ SetPhase(r, t, IF Complete(row'[r]) THEN "failfinish" ELSE "failed")
  /\ UNCHANGED <<request, runJob, pc, queued, truncated, live, docs, link, boot,
                 crashes, faults, disconnects>>

FinishFailed(r, t) ==
  /\ tjob[r][t].phase = "failfinish"
  /\ row' = [row EXCEPT ![r] = finishRun(@, "none")]
  /\ SetPhase(r, t, "failed")
  /\ UNCHANGED <<request, runJob, pc, queued, truncated, live, docs, link, boot,
                 crashes, faults, disconnects>>

\* onFailed swallows an error of recordTicketResult.
OnFailedFault(r, t) ==
  /\ tjob[r][t].phase \in {"exhausted", "failfinish"}
  /\ Fault
  /\ SetPhase(r, t, "failed")
  /\ UNCHANGED <<row, request, runJob, pc, queued, truncated, live, docs, link,
                 boot, crashes, disconnects>>

-----------------------------------------------------------------------------
(* The workspace owner *)

\* DELETE FROM integration_connections; mappings and ticket rows cascade.  A
\* coordinator that is paging keeps the id of the deleted connection.
Disconnect ==
  /\ link /= "none"
  /\ disconnects < MaxDisconnects
  /\ link' = "none"
  /\ live' = [r \in Run |-> {}]
  /\ pc' = [r \in Run |-> IF pc[r] = "fetch" THEN "stale" ELSE pc[r]]
  /\ disconnects' = disconnects + 1
  /\ UNCHANGED <<row, request, runJob, queued, truncated, tjob, docs, boot,
                 crashes, faults>>

\* connectJiraProjects with no project: the mapping is disabled.
Unlink ==
  /\ link = "mapped"
  /\ link' = "connected"
  /\ UNCHANGED <<row, request, runJob, pc, queued, truncated, tjob, live, docs,
                 boot, crashes, faults, disconnects>>

\* integrationCallback stores a connection, connectJiraProjects maps a project.
Relink ==
  /\ link /= "mapped"
  /\ link' = IF link = "none" THEN "connected" ELSE "mapped"
  /\ UNCHANGED <<row, request, runJob, pc, queued, truncated, tjob, live, docs,
                 boot, crashes, faults, disconnects>>

-----------------------------------------------------------------------------
(* Crash and boot *)

\* Mutant: the boot sweep selects only the runs marked running.
CrashSweepRunning ==
  /\ crashes < MaxCrashes
  /\ crashes' = crashes + 1
  /\ request' = [r \in Run |-> "none"]
  /\ runJob' = [r \in Run |-> IF runJob[r] = "active" THEN "waiting" ELSE runJob[r]]
  /\ pc' = [r \in Run |-> "idle"]
  /\ tjob' = [r \in Run |-> [t \in Ticket |->
                [tjob[r][t] EXCEPT !.phase =
                   IF @ \in Working THEN "waiting"
                   ELSE IF @ \in {"exhausted", "failfinish"} THEN "failed" ELSE @]]]
  /\ boot' = [r \in Run |-> IF row[r].status = "running" THEN "reset" ELSE "none"]
  /\ UNCHANGED <<row, queued, truncated, live, docs, link, faults, disconnects>>

\* The process dies and starts again.  Jobs it was working on stall and return
\* to the queue; a job already in the failed set never gets its onFailed.  The
\* new process selects the runs to resume.
Crash ==
  /\ crashes < MaxCrashes
  /\ crashes' = crashes + 1
  /\ request' = [r \in Run |-> "none"]
  /\ runJob' = [r \in Run |-> IF runJob[r] = "active" THEN "waiting" ELSE runJob[r]]
  /\ pc' = [r \in Run |-> "idle"]
  /\ tjob' = [r \in Run |-> [t \in Ticket |->
                [tjob[r][t] EXCEPT !.phase =
                   IF @ \in Working THEN "waiting"
                   ELSE IF @ \in {"exhausted", "failfinish"} THEN "failed" ELSE @]]]
  /\ boot' = [r \in Run |-> IF Active(r) THEN "reset" ELSE "none"]
  /\ UNCHANGED <<row, queued, truncated, live, docs, link, faults, disconnects>>

\* resumeInterruptedRuns, concurrent with the workers: first the counters are
\* reset, whatever became of the run since the SELECT ...
ResumeReset(r) ==
  /\ boot[r] = "reset"
  /\ row' = [row EXCEPT ![r] = [@ EXCEPT !.total = 0, !.processed = 0, !.failed = 0]]
  /\ boot' = [boot EXCEPT ![r] = "add"]
  /\ UNCHANGED <<request, runJob, pc, queued, truncated, tjob, live, docs, link,
                 crashes, faults, disconnects>>

\* ... then the coordinator job is added again, a no-op if Redis holds it.
ResumeAdd(r) ==
  /\ boot[r] = "add"
  /\ runJob' = [runJob EXCEPT ![r] = IF @ = "absent" THEN "waiting" ELSE @]
  /\ boot' = [boot EXCEPT ![r] = "none"]
  /\ UNCHANGED <<row, request, pc, queued, truncated, tjob, live, docs, link,
                 crashes, faults, disconnects>>

\* The SELECT, the reset or the add fails: it is taken for empty, ignored, logged.
ResumeFails(r) ==
  /\ boot[r] /= "none"
  /\ Fault
  /\ \E b \in {"none", "add"} :
       /\ boot[r] = "add" => b = "none"
       /\ boot' = [boot EXCEPT ![r] = b]
  /\ UNCHANGED <<row, request, runJob, pc, queued, truncated, tjob, live, docs,
                 link, crashes, disconnects>>

-----------------------------------------------------------------------------
CoordinatorStep(r) ==
  \/ RunJobStart(r) \/ MarkRunning(r) \/ Connect(r) \/ FetchPage(r)
  \/ FetchEnd(r) \/ SetTotals(r) \/ EnqueueTicketJobs(r) \/ NoteTruncation(r)

TicketStep(r, t) ==
  \/ TicketJobStart(r, t) \/ TicketBuild(r, t) \/ TicketBuildFails(r, t)
  \/ CountProcessed(r, t) \/ FinishProcessed(r, t)
  \/ CountFailed(r, t) \/ FinishFailed(r, t)

Next ==
  \/ \E r \in Run :
       \/ InsertRun(r) \/ AddRunJob(r) \/ AddRunJobFails(r)
       \/ CoordinatorStep(r)
       \/ ProviderFails(r) \/ CoordinatorFault(r) \/ CoordinatorLost(r)
       \/ ResumeReset(r) \/ ResumeAdd(r) \/ ResumeFails(r)
       \/ \E t \in Ticket :
            TicketStep(r, t) \/ TicketFault(r, t) \/ OnFailedFault(r, t)
  \/ Disconnect \/ Unlink \/ Relink
  \/ Crash

Spec == Init /\ [][Next]_vars

\* What the runtime owes: an HTTP request goes on, a live worker takes waiting
\* jobs and runs them to their end, the boot sweep goes on.  Clicks, outages,
\* disconnects and crashes are owed nothing.
Fairness ==
  /\ \A r \in Run :
       /\ WF_vars(AddRunJob(r))
       /\ WF_vars(CoordinatorStep(r))
       /\ WF_vars(ResumeReset(r) \/ ResumeAdd(r) \/ ResumeFails(r))
       /\ \A t \in Ticket : WF_vars(TicketStep(r, t))

FairSpec == Spec /\ Fairness

-----------------------------------------------------------------------------
(* Properties *)

RunRow == [status : Status, total : Nat, processed : Nat, failed : Nat,
           error : {"none", "limit", "failure", "empty"}]

\* Types of the rows, the jobs and the coordinators; a ticket job never makes
\* more than MaxAttempts attempts.
TypeOK ==
  /\ row \in [Run -> RunRow]
  /\ request \in [Run -> {"none", "add"}]
  /\ runJob \in [Run -> JobState]
  /\ pc \in [Run -> Step]
  /\ queued \in [Run -> SUBSET Ticket]
  /\ truncated \in [Run -> BOOLEAN]
  /\ tjob \in [Run -> [Ticket -> [phase : Phase, attempts : 0 .. MaxAttempts]]]
  /\ live \in [Run -> SUBSET Ticket]
  /\ docs \subseteq Ticket
  /\ link \in {"none", "connected", "mapped"}
  /\ boot \in [Run -> {"none", "reset", "add"}]
  /\ crashes \in 0 .. MaxCrashes
  /\ faults \in 0 .. MaxFaults
  /\ disconnects \in 0 .. MaxDisconnects

\* No restart and no failing statement so far.
Clean == crashes = 0 /\ faults = 0

Processed(r) == {t \in Ticket : tjob[r][t].phase \in Counted}
Failed(r)    == {t \in Ticket : tjob[r][t].phase \in FailCounted}
Fanned(r)    == {t \in Ticket : tjob[r][t].phase /= "absent"}

\* startRun's promise: two people hitting Sync at once, or a coordinator that
\* comes back after a restart, never put two runs in flight.
AtMostOneInFlight == \A r, s \in Run : Active(r) /\ Active(s) => r = s

\* recordTicketResult, with workers that count concurrently: while nothing
\* crashes or fails, the counters are exactly the numbers of ticket jobs that
\* counted, each once, and never exceed the published total.
CountersExact ==
  Clean => \A r \in Run :
    /\ row[r].processed = Cardinality(Processed(r))
    /\ row[r].failed = Cardinality(Failed(r))
    /\ row[r].processed + row[r].failed <= row[r].total

\* "finalizes the run when the last ticket lands": a run reported succeeded or
\* partial has counted every ticket the coordinator found, and the report tells
\* whether one of them failed for good.
SettledMeansLanded ==
  \A r \in Run :
    row[r].status \in {"succeeded", "partial"} =>
      /\ queued[r] = Processed(r) \cup Failed(r)
      /\ row[r].status = "partial" <=> Failed(r) /= {}

\* SettledMeansLanded while the backend has not been restarted.
SettledMeansLandedUntilCrash == crashes = 0 => SettledMeansLanded

\* A run reported succeeded has mirrored every ticket it found, unless the
\* owner disconnected the provider, which deletes the ticket rows.
SucceededMeansMirrored ==
  crashes = 0 /\ disconnects = 0 =>
    \A r \in Run : row[r].status = "succeeded" => queued[r] \subseteq docs

\* The cap of MAX_TICKETS_PER_RUN: never exceeded, and once the coordinator is
\* done the run says that it was hit, even if its tickets settled it before.
TruncationReported ==
  \A r \in Run :
    /\ Cardinality(queued[r]) <= MaxTickets
    /\ Clean /\ runJob[r] = "completed" /\ truncated[r] => row[r].error /= "none"

\* The boot sweep leaves no run in flight without its coordinator job: a crash
\* between startRun's INSERT and its queue.add is repaired.
NoOrphanRun ==
  faults = 0 => \A r \in Run :
    Active(r) => runJob[r] /= "absent" \/ request[r] = "add" \/ boot[r] /= "none"

\* "queued -> running -> succeeded | partial | failed": until a restart a settled
\* run is never reopened or relabelled, by a late ticket, a late failure or the
\* coordinator.
SettledIsFinalUntilCrash ==
  [][crashes = 0 => \A r \in Run : row[r].status \in Settled =>
       row'[r].status = row[r].status]_vars

\* Every run that a click inserted settles, so the progress bar stops and the
\* next click can start a new run.
RunsSettle ==
  \A r \in Run : row[r].status = "queued" ~> row[r].status \in Settled

\* The same after a restart, for a run whose tickets were not yet fanned out
\* when the backend died, as long as no call fails.
EarlyCrashSettles ==
  \A r \in Run :
    crashes > 0 /\ faults = 0 /\ Active(r) /\ Fanned(r) = {}
      ~> row[r].status \in Settled \/ faults > 0

SR == INSTANCE SyncRun WITH
        status <- [r \in Run |-> row[r].status],
        found  <- [r \in Run |-> Fanned(r)],
        well   <- [r \in Run |-> Processed(r)],
        badly  <- [r \in Run |-> Failed(r)]

\* The coordinator, its ticket jobs and their shared counters implement the
\* simple promise of SyncRun, as long as nothing crashes or fails.
ImplementsSyncRun == SR!Spec
=============================================================================
