---------------------------- MODULE RagEmbedding ----------------------------
(***************************************************************************)
(* The embedding pipeline of Tesbo-Backend-Nest/src/rag together with the  *)
(* write sites of legacy.service.ts that feed it.  A knowledge source (a   *)
(* document or an uploaded file) carries an embedding_status and the hash  *)
(* of the text that was embedded last.  Every write fires enqueueEmbedding *)
(* and forgets it: one UPDATE sets the status to 'queued', then a job with *)
(* the deterministic id "<type>-<id>" is added to a BullMQ queue.  The one *)
(* worker reads the source again, embeds its text, replaces its chunks in  *)
(* a transaction and, in a statement of its own, sets 'ready' and the hash.*)
(* At boot the sources in an in-progress status are enqueued again.        *)
(*                                                                         *)
(* One step is one statement against Postgres or Redis, or one call of the *)
(* embeddings provider.  Rows, chunks and jobs survive a crash; requests,  *)
(* enqueue calls, transcriptions and the worker's program counter do not.  *)
(***************************************************************************)
EXTENDS Integers, FiniteSets

CONSTANTS
  Source,       \* ids of documents and files
  Text,         \* texts that split into at least one chunk
  User,         \* concurrent requests that edit a document
  MaxAttempts,  \* "attempts" of an embedding job
  MaxChanges,   \* bound: requests of users, and changes of the workspace key
  MaxEvictions, \* bound: retained jobs that Redis drops (removeOnComplete/Fail)
  MaxCrashes,   \* bound: restarts of the backend
  MaxFaults     \* bound: failing Postgres or Redis calls, vectors of a wrong width

ASSUME RagAssumption ==
  /\ IsFiniteSet(Source)
  /\ IsFiniteSet(Text)
  /\ IsFiniteSet(User)
  /\ MaxAttempts \in Nat \ {0}
  /\ MaxChanges \in Nat
  /\ MaxEvictions \in Nat
  /\ MaxFaults \in Nat
  /\ MaxCrashes \in 0 .. 1     \* BullMQ gives up on a job that stalls twice
  /\ Text \cap {"blank", "short", "none"} = {}

VARIABLES
  doc,           \* rows of knowledge_documents and knowledge_files
  chunks,        \* knowledge_document_chunks: the text they were cut from
  job,           \* the job "<type>-<id>" in Redis
  work,          \* the worker's place in process(), and the text it has read
  calls,         \* enqueueEmbedding calls in flight, at each of their two steps
  edit,          \* the update request of each user between SELECT and UPDATE
  transcribing,  \* transcribeKnowledgeFile calls in flight
  sweep,         \* resumeInterruptedEmbeddings, on each source it selected
  booting,       \* the sweep has not run its SELECT yet
  key,           \* the workspace has an embeddings-capable key
  changes, evictions, crashes, faults

vars == <<doc, chunks, job, work, calls, edit, transcribing, sweep, booting,
          key, changes, evictions, crashes, faults>>

bounds == <<changes, evictions, crashes, faults>>

\* "blank": no text; "short": text, but no piece of RAG_CHUNK_MIN_CHARS.
Content    == Text \cup {"blank", "short"}
InProgress == {"pending", "queued", "processing"}
RagStatus  == InProgress \cup {"ready", "failed", "unsupported"}
Extraction == {"none", "pending", "ready", "failed", "unsupported"}
Retained   == {"completed", "failed"}   \* job ids Redis still knows

\* embedding_status and embedding_content_hash have their column defaults.
NewRow(c, x) == [life |-> "live", content |-> c, versions |-> {}, extraction |-> x,
                 status |-> "pending", hash |-> "none"]

Init ==
  /\ doc = [s \in Source |-> [NewRow("blank", "none") EXCEPT !.life = "absent"]]
  /\ chunks = [s \in Source |-> "none"]
  /\ job = [s \in Source |-> [state |-> "absent", attempts |-> 0]]
  /\ work = [s \in Source |-> [pc |-> "idle", text |-> "blank"]]
  /\ calls = [s \in Source |-> [status |-> 0, add |-> 0]]
  /\ edit = [u \in User |-> {}]
  /\ transcribing = {}
  /\ sweep = [s \in Source |-> "none"]
  /\ booting = FALSE
  /\ key \in BOOLEAN
  /\ changes = 0
  /\ evictions = 0
  /\ crashes = 0
  /\ faults = 0

-----------------------------------------------------------------------------
(* Shared pieces *)

\* setStatus, and the status UPDATE of enqueueEmbedding
setStatus(s, st) == doc' = [doc EXCEPT ![s] = [@ EXCEPT !.status = st]]

\* queue.add: a no-op when Redis knows the job id, in whatever state.
Add(j) == IF j.state = "absent" THEN [state |-> "waiting", attempts |-> 0] ELSE j

\* A failing call to Postgres or Redis, out of the budget MaxFaults.
Fault == faults < MaxFaults /\ faults' = faults + 1

Change == changes < MaxChanges /\ changes' = changes + 1

\* enqueueEmbedding is called and not awaited.
enqueueEmbedding(s) ==
  calls' = [calls EXCEPT ![s] = [@ EXCEPT !.status = calls[s].status + 1]]

-----------------------------------------------------------------------------
(* The write sites *)

\* createKnowledgeDocument, duplicateKnowledgeDocument, rememberZyraMemory, a
\* first mirrored ticket, and uploads whose text is extracted on the spot.
Create(s, c) ==
  /\ doc[s].life = "absent"
  /\ doc' = [doc EXCEPT ![s] = NewRow(c, "none")]
  /\ enqueueEmbedding(s)
  /\ UNCHANGED <<chunks, job, work, edit, transcribing, sweep, booting, key, bounds>>

\* Mutant: the recording is enqueued at upload, like any other file.
UploadEnqueued(s) ==
  /\ doc[s].life = "absent"
  /\ doc' = [doc EXCEPT ![s] = NewRow("blank", "pending")]
  /\ transcribing' = transcribing \cup {s}
  /\ enqueueEmbedding(s)
  /\ UNCHANGED <<chunks, job, work, edit, sweep, booting, key, bounds>>

\* The upload of a recording: its text comes later.
Upload(s) ==
  /\ doc[s].life = "absent"
  /\ doc' = [doc EXCEPT ![s] = NewRow("blank", "pending")]
  /\ transcribing' = transcribing \cup {s}
  /\ UNCHANGED <<chunks, job, work, calls, edit, sweep, booting, key, bounds>>

\* The transcript arrives; an empty one is stored and not enqueued.
Transcribed(s, c) ==
  /\ s \in transcribing
  /\ transcribing' = transcribing \ {s}
  /\ doc' = [doc EXCEPT ![s] = [@ EXCEPT !.content = c, !.extraction = "ready"]]
  /\ IF c = "blank" THEN UNCHANGED calls ELSE enqueueEmbedding(s)
  /\ UNCHANGED <<chunks, job, work, edit, sweep, booting, key, bounds>>

\* The project has no key that can transcribe, or the provider fails.
TranscriptionFails(s) ==
  /\ s \in transcribing
  /\ transcribing' = transcribing \ {s}
  /\ \E x \in {"unsupported", "failed"} :
       doc' = [doc EXCEPT ![s] = [@ EXCEPT !.extraction = x]]
  /\ UNCHANGED <<chunks, job, work, calls, edit, sweep, booting, key, bounds>>

\* updateKnowledgeDocument reads the document.  What the request leaves out is
\* written back as read; "changed" also covers a new title over the same text.
EditRead(u, s) ==
  /\ edit[u] = {}
  /\ doc[s].life = "live"
  /\ doc[s].extraction = "none"
  /\ Change
  /\ \E c \in Content, changed \in BOOLEAN :
       /\ c /= doc[s].content => changed
       /\ edit' = [edit EXCEPT ![u] = {[src |-> s, old |-> doc[s].content,
                                        new |-> c, changed |-> changed]}]
  /\ UNCHANGED <<doc, chunks, job, work, calls, transcribing, sweep, booting,
                 key, evictions, crashes, faults>>

\* The version snapshot (always before the first one, later only when the last
\* is old enough), the UPDATE, and the enqueue of a changed document.
EditWrite(u) ==
  /\ \E e \in edit[u] :
       /\ \E vs \in {doc[e.src].versions, doc[e.src].versions \cup {e.old}} :
            /\ e.changed /\ doc[e.src].versions = {} => vs = {e.old}
            /\ ~e.changed => vs = doc[e.src].versions
            /\ doc' = [doc EXCEPT ![e.src] = [@ EXCEPT !.content = e.new,
                                                       !.versions = vs]]
       /\ IF e.changed THEN enqueueEmbedding(e.src) ELSE UNCHANGED calls
  /\ edit' = [edit EXCEPT ![u] = {}]
  /\ UNCHANGED <<chunks, job, work, transcribing, sweep, booting, key, bounds>>

\* restoreKnowledgeDocumentVersion: snapshots, overwrites, and enqueues nothing.
RestoreVersion(s, c) ==
  /\ doc[s].life = "live"
  /\ c \in doc[s].versions
  /\ Change
  /\ doc' = [doc EXCEPT ![s] =
       [@ EXCEPT !.content = c, !.versions = doc[s].versions \cup {doc[s].content}]]
  /\ UNCHANGED <<chunks, job, work, calls, edit, transcribing, sweep, booting,
                 key, evictions, crashes, faults>>

\* Soft deletion and restoration leave the pipeline's columns alone.
Delete(s) ==
  /\ doc[s].life = "live"
  /\ Change
  /\ doc' = [doc EXCEPT ![s] = [@ EXCEPT !.life = "deleted"]]
  /\ UNCHANGED <<chunks, job, work, calls, edit, transcribing, sweep, booting,
                 key, evictions, crashes, faults>>

Restore(s) ==
  /\ doc[s].life = "deleted"
  /\ Change
  /\ doc' = [doc EXCEPT ![s] = [@ EXCEPT !.life = "live"]]
  /\ UNCHANGED <<chunks, job, work, calls, edit, transcribing, sweep, booting,
                 key, evictions, crashes, faults>>

\* A workspace key is added, activated, deactivated or deleted.
ChangeKey ==
  /\ Change
  /\ key' = ~key
  /\ UNCHANGED <<doc, chunks, job, work, calls, edit, transcribing, sweep,
                 booting, evictions, crashes, faults>>

-----------------------------------------------------------------------------
(* enqueueEmbedding, step by step *)

CallStatus(s) ==
  /\ calls[s].status > 0
  /\ setStatus(s, "queued")
  /\ calls' = [calls EXCEPT ![s] = [status |-> @.status - 1, add |-> @.add + 1]]
  /\ UNCHANGED <<chunks, job, work, edit, transcribing, sweep, booting, key, bounds>>

\* A failing status UPDATE is ignored.
CallStatusFails(s) ==
  /\ calls[s].status > 0
  /\ Fault
  /\ calls' = [calls EXCEPT ![s] = [status |-> @.status - 1, add |-> @.add + 1]]
  /\ UNCHANGED <<doc, chunks, job, work, edit, transcribing, sweep, booting,
                 key, changes, evictions, crashes>>

CallAdd(s) ==
  /\ calls[s].add > 0
  /\ calls' = [calls EXCEPT ![s] = [@ EXCEPT !.add = calls[s].add - 1]]
  /\ job' = [job EXCEPT ![s] = Add(@)]
  /\ UNCHANGED <<doc, chunks, work, edit, transcribing, sweep, booting, key, bounds>>

\* A failing add is logged.
CallAddFails(s) ==
  /\ calls[s].add > 0
  /\ Fault
  /\ calls' = [calls EXCEPT ![s] = [@ EXCEPT !.add = calls[s].add - 1]]
  /\ UNCHANGED <<doc, chunks, job, work, edit, transcribing, sweep, booting,
                 key, changes, evictions, crashes>>

-----------------------------------------------------------------------------
(* RagEmbeddingProcessor.process.  The queue's worker runs one job at a time. *)

\* process() returns: the job completes and Redis retains it.
Return(s) ==
  /\ work' = [work EXCEPT ![s] = [@ EXCEPT !.pc = "idle"]]
  /\ job' = [job EXCEPT ![s] = [@ EXCEPT !.state = "completed"]]

\* process() throws: BullMQ retries the job after a backoff, or moves it to the
\* failed set after the last attempt and emits "failed".
Throw(s) ==
  LET n == job[s].attempts + 1
  IN /\ job' = [job EXCEPT ![s] = [state |-> IF n < MaxAttempts THEN "waiting"
                                             ELSE "failed",
                                   attempts |-> n]]
     /\ work' = [work EXCEPT ![s] = [@ EXCEPT !.pc = IF n < MaxAttempts THEN "idle"
                                                     ELSE "onFailed"]]

\* The worker takes the job and SELECTs the source.
JobStart(s) ==
  /\ job[s].state = "waiting"
  /\ \A t \in Source : job[t].state /= "active"
  /\ job' = [job EXCEPT ![s] = [@ EXCEPT !.state = "active"]]
  /\ work' = [work EXCEPT ![s] =
       [text |-> doc[s].content,
        pc |-> IF doc[s].life /= "live" THEN "gone"
               ELSE IF doc[s].content = "blank" THEN "unsupported"
               ELSE "allocate"]]
  /\ UNCHANGED <<doc, chunks, calls, edit, transcribing, sweep, booting, key, bounds>>

\* Mutant: the early returns leave the status as it is.
UnsupportedUncleared(s) ==
  /\ work[s].pc \in {"gone", "unsupported"}
  /\ Return(s)
  /\ UNCHANGED <<doc, chunks, calls, edit, transcribing, sweep, booting, key, bounds>>

\* setStatus 'unsupported': source gone, no text, or no chunks.
Unsupported(s) ==
  /\ work[s].pc \in {"gone", "unsupported"}
  /\ setStatus(s, "unsupported")
  /\ Return(s)
  /\ UNCHANGED <<chunks, calls, edit, transcribing, sweep, booting, key, bounds>>

\* For a source that is gone the UPDATE's failure is ignored.
UnsupportedIgnored(s) ==
  /\ work[s].pc = "gone"
  /\ Fault
  /\ Return(s)
  /\ UNCHANGED <<doc, chunks, calls, edit, transcribing, sweep, booting, key,
                 changes, evictions, crashes>>

\* resolveEmbeddingAllocation, then the hash.  Only this job writes the hash, so
\* the value read with the source is the current one.
Allocate(s) ==
  /\ work[s].pc = "allocate"
  /\ IF key /\ doc[s].hash = work[s].text
     THEN Return(s)
     ELSE /\ work' = [work EXCEPT ![s] =
               [@ EXCEPT !.pc = IF key THEN "mark" ELSE "pending"]]
          /\ UNCHANGED job
  /\ UNCHANGED <<doc, chunks, calls, edit, transcribing, sweep, booting, key, bounds>>

SetPending(s) ==
  /\ work[s].pc = "pending"
  /\ setStatus(s, "pending")
  /\ Return(s)
  /\ UNCHANGED <<chunks, calls, edit, transcribing, sweep, booting, key, bounds>>

\* Mutant: the status is left as it was while the chunks are being replaced.
MarkNothing(s) ==
  /\ work[s].pc = "mark"
  /\ work' = [work EXCEPT ![s] =
       [@ EXCEPT !.pc = IF work[s].text = "short" THEN "unsupported" ELSE "embed"]]
  /\ UNCHANGED <<doc, chunks, job, calls, edit, transcribing, sweep, booting, key, bounds>>

\* setStatus 'processing', then the text is cut into chunks.
MarkProcessing(s) ==
  /\ work[s].pc = "mark"
  /\ setStatus(s, "processing")
  /\ work' = [work EXCEPT ![s] =
       [@ EXCEPT !.pc = IF work[s].text = "short" THEN "unsupported" ELSE "embed"]]
  /\ UNCHANGED <<chunks, job, calls, edit, transcribing, sweep, booting, key, bounds>>

Embed(s) ==
  /\ work[s].pc = "embed"
  /\ work' = [work EXCEPT ![s] = [@ EXCEPT !.pc = "store"]]
  /\ UNCHANGED <<doc, chunks, job, calls, edit, transcribing, sweep, booting, key, bounds>>

\* The provider's request fails.
EmbedFails(s) ==
  /\ work[s].pc = "embed"
  /\ Throw(s)
  /\ UNCHANGED <<doc, chunks, calls, edit, transcribing, sweep, booting, key, bounds>>

\* The transaction that replaces the chunks.
Store(s) ==
  /\ work[s].pc = "store"
  /\ chunks' = [chunks EXCEPT ![s] = work[s].text]
  /\ work' = [work EXCEPT ![s] = [@ EXCEPT !.pc = "finish"]]
  /\ UNCHANGED <<doc, job, calls, edit, transcribing, sweep, booting, key, bounds>>

\* As above, but every vector has a wrong width and is discarded.
StoreNothing(s) ==
  /\ work[s].pc = "store"
  /\ Fault
  /\ chunks' = [chunks EXCEPT ![s] = "none"]
  /\ work' = [work EXCEPT ![s] = [@ EXCEPT !.pc = "finish"]]
  /\ UNCHANGED <<doc, job, calls, edit, transcribing, sweep, booting, key,
                 changes, evictions, crashes>>

\* Mutant: the hash of the text the source has by now, not of the text embedded.
FinishCurrentHash(s) ==
  /\ work[s].pc = "finish"
  /\ doc' = [doc EXCEPT ![s] = [@ EXCEPT !.status = "ready", !.hash = doc[s].content]]
  /\ Return(s)
  /\ UNCHANGED <<chunks, calls, edit, transcribing, sweep, booting, key, bounds>>

\* UPDATE ... SET embedding_status = 'ready', embedding_content_hash
FinishJob(s) ==
  /\ work[s].pc = "finish"
  /\ doc' = [doc EXCEPT ![s] = [@ EXCEPT !.status = "ready", !.hash = work[s].text]]
  /\ Return(s)
  /\ UNCHANGED <<chunks, calls, edit, transcribing, sweep, booting, key, bounds>>

\* Any other statement of process() fails.
WorkerFault(s) ==
  /\ work[s].pc \in {"unsupported", "allocate", "pending", "mark", "store", "finish"}
  /\ Fault
  /\ Throw(s)
  /\ UNCHANGED <<doc, chunks, calls, edit, transcribing, sweep, booting, key,
                 changes, evictions, crashes>>

\* onFailed after the last attempt; a failing UPDATE is ignored.
OnFailed(s) ==
  /\ work[s].pc = "onFailed"
  /\ work' = [work EXCEPT ![s] = [@ EXCEPT !.pc = "idle"]]
  /\ \/ setStatus(s, "failed") /\ UNCHANGED faults
     \/ Fault /\ UNCHANGED doc
  /\ UNCHANGED <<chunks, job, calls, edit, transcribing, sweep, booting, key,
                 changes, evictions, crashes>>

\* removeOnComplete / removeOnFail: a thousand younger jobs have ended, by which
\* time the one UPDATE of onFailed is long done.
Evict(s) ==
  /\ job[s].state \in Retained
  /\ work[s].pc = "idle"
  /\ evictions < MaxEvictions
  /\ evictions' = evictions + 1
  /\ job' = [job EXCEPT ![s] = [state |-> "absent", attempts |-> 0]]
  /\ UNCHANGED <<doc, chunks, work, calls, edit, transcribing, sweep, booting,
                 key, changes, crashes, faults>>

-----------------------------------------------------------------------------
(* Restart and resumeInterruptedEmbeddings *)

Crash ==
  /\ crashes < MaxCrashes
  /\ crashes' = crashes + 1
  /\ job' = [s \in Source |-> IF job[s].state = "active"
                              THEN [job[s] EXCEPT !.state = "waiting"] ELSE job[s]]
  /\ work' = [s \in Source |-> [work[s] EXCEPT !.pc = "idle"]]
  /\ calls' = [s \in Source |-> [status |-> 0, add |-> 0]]
  /\ edit' = [u \in User |-> {}]
  /\ transcribing' = {}
  /\ sweep' = [s \in Source |-> "none"]
  /\ booting' = TRUE
  /\ UNCHANGED <<doc, chunks, key, changes, evictions, faults>>

\* Mutant: 'pending' is not one of the statuses selected.
InterruptedQueued(d) ==
  /\ d.life = "live"
  /\ d.status \in {"queued", "processing"}
  /\ d.extraction \in {"none", "ready", "unsupported"}

\* The WHERE clauses of the two SELECTs.
Interrupted(d) ==
  /\ d.life = "live"
  /\ d.status \in InProgress
  /\ d.extraction \in {"none", "ready", "unsupported"}

\* The SELECTs; each one that fails selects nothing.
SweepSelect ==
  /\ booting
  /\ booting' = FALSE
  /\ sweep' = [s \in Source |-> IF Interrupted(doc[s]) THEN "selected" ELSE "none"]
  /\ UNCHANGED <<doc, chunks, job, work, calls, edit, transcribing, key, bounds>>

SweepSelectFails ==
  /\ booting
  /\ Fault
  /\ booting' = FALSE
  /\ UNCHANGED <<doc, chunks, job, work, calls, edit, transcribing, sweep, key,
                 changes, evictions, crashes>>

\* The loop awaits enqueueEmbedding for one source after the other.
SweepStatus(s) ==
  /\ sweep[s] = "selected"
  /\ \A t \in Source : sweep[t] /= "add"
  /\ sweep' = [sweep EXCEPT ![s] = "add"]
  /\ \/ setStatus(s, "queued") /\ UNCHANGED faults
     \/ Fault /\ UNCHANGED doc
  /\ UNCHANGED <<chunks, job, work, calls, edit, transcribing, booting, key,
                 changes, evictions, crashes>>

SweepAdd(s) ==
  /\ sweep[s] = "add"
  /\ sweep' = [sweep EXCEPT ![s] = "none"]
  /\ \/ job' = [job EXCEPT ![s] = Add(@)] /\ UNCHANGED faults
     \/ Fault /\ UNCHANGED job
  /\ UNCHANGED <<doc, chunks, work, calls, edit, transcribing, booting, key,
                 changes, evictions, crashes>>

-----------------------------------------------------------------------------
Requests(s) ==
  \/ \E c \in Content : Create(s, c)
  \/ Upload(s)
  \/ \E u \in User : EditRead(u, s)
  \/ \E c \in Content : RestoreVersion(s, c)
  \/ Delete(s)
  \/ Restore(s)

Transcription(s) == (\E c \in Content : Transcribed(s, c)) \/ TranscriptionFails(s)

Enqueue(s) ==
  CallStatus(s) \/ CallStatusFails(s) \/ CallAdd(s) \/ CallAddFails(s)

Process(s) ==
  \/ Unsupported(s) \/ UnsupportedIgnored(s) \/ Allocate(s) \/ SetPending(s)
  \/ MarkProcessing(s) \/ Embed(s) \/ EmbedFails(s) \/ Store(s) \/ StoreNothing(s)
  \/ FinishJob(s) \/ WorkerFault(s) \/ OnFailed(s)

Sweep == SweepSelect \/ SweepSelectFails \/ \E s \in Source : SweepStatus(s) \/ SweepAdd(s)

Next ==
  \/ \E s \in Source : Requests(s) \/ Transcription(s) \/ Enqueue(s)
                         \/ JobStart(s) \/ Process(s) \/ Evict(s)
  \/ \E u \in User : EditWrite(u)
  \/ ChangeKey
  \/ Crash
  \/ Sweep

Spec == Init /\ [][Next]_vars

\* Node runs what it has started and BullMQ hands out waiting jobs.  Requests,
\* evictions and crashes are not fair, and neither is any single failure.
Fairness ==
  /\ \A s \in Source :
       /\ WF_vars(Transcription(s))
       /\ WF_vars(Enqueue(s))
       /\ SF_vars(JobStart(s))
       /\ WF_vars(Process(s))
  /\ \A u \in User : WF_vars(EditWrite(u))
  /\ WF_vars(Sweep)

FairSpec == Spec /\ Fairness

-----------------------------------------------------------------------------
(* Properties *)

EditRequest == [src : Source, old : Content, new : Content, changed : BOOLEAN]

Row == [life : {"absent", "live", "deleted"}, content : Content,
        versions : SUBSET Content, extraction : Extraction, status : RagStatus,
        hash : Text \cup {"none"}]

\* Every variable has its type; embedding_status stays within the CHECK of V56,
\* and a hash is only ever recorded for a text that has chunks.
TypeOK ==
  /\ doc \in [Source -> Row]
  /\ chunks \in [Source -> Text \cup {"none"}]
  /\ job \in [Source -> [state : {"absent", "waiting", "active"} \cup Retained,
                         attempts : 0 .. MaxAttempts]]
  /\ work \in [Source -> [pc : {"idle", "gone", "unsupported", "allocate", "pending",
                                "mark", "embed", "store", "finish", "onFailed"},
                          text : Content]]
  /\ calls \in [Source -> [status : Nat, add : Nat]]
  /\ edit \in [User -> SUBSET EditRequest]
  /\ transcribing \subseteq Source
  /\ sweep \in [Source -> {"none", "selected", "add"}]
  /\ booting \in BOOLEAN
  /\ key \in BOOLEAN
  /\ changes \in 0 .. MaxChanges
  /\ evictions \in 0 .. MaxEvictions
  /\ crashes \in 0 .. MaxCrashes
  /\ faults \in 0 .. MaxFaults

\* 'ready' is never claimed over the chunks of another text than the one whose
\* hash is recorded, whatever failed, raced or restarted on the way: the status
\* and the hash are written together, after the transaction, and 'processing'
\* is written before it.  (No chunks at all: every vector had a wrong width.)
ReadyMeansIndexed ==
  \A s \in Source :
    doc[s].status = "ready" =>
      /\ doc[s].hash /= "none"
      /\ chunks[s] \in {doc[s].hash, "none"}

\* As long as no call fails and the backend does not restart, the recorded hash
\* is that of the text in the chunks, so that skipping a text with an equal hash
\* never leaves other chunks behind; only the worker between its transaction and
\* its last UPDATE is ahead of the hash.
ChunksMatchHash ==
  faults = 0 /\ crashes = 0 =>
    \A s \in Source : work[s].pc /= "finish" => chunks[s] = doc[s].hash

\* A file's embedding job is never started before its transcript has landed:
\* uploadKnowledgeFiles does not enqueue it, and the boot sweep leaves out files
\* whose extraction is pending.
NoJobBeforeTranscript ==
  \A s \in Source :
    doc[s].extraction = "pending" => job[s].state = "absent" /\ chunks[s] = "none"

\* The first embedding is never lost: a source with text to embed gets its job
\* run to an end, even when the backend stops between the INSERT, the status
\* UPDATE and the add, or while the job is running.
CreatedIsProcessed ==
  \A s \in Source :
    (doc[s].life = "live" /\ doc[s].extraction = "none")
      ~> (job[s].state \in Retained \/ doc[s].life = "deleted")

\* Without a restart, a source that was queued once leaves 'queued' and
\* 'processing' again.
FirstJobSettles ==
  \A s \in Source :
    (doc[s].status \in {"queued", "processing"} /\ crashes = 0)
      ~> (doc[s].status \notin {"queued", "processing"} \/ crashes > 0)

\* FEATURE_DOCUMENTATION.md: "Keeping AI context fresh automatically as
\* documents/files are created/edited/transcribed, without any manual "reindex"
\* action".
EditsReachIndex ==
  []key =>
    \A s \in Source, c \in Text :
      (doc[s].content = c /\ doc[s].life = "live")
        ~> (chunks[s] = c \/ doc[s].content /= c \/ doc[s].life = "deleted"
              \/ doc[s].status = "failed")

=============================================================================
