------------------------ MODULE IntegrationSyncProofs ------------------------
(***************************************************************************)
(* Machine-checked proofs about IntegrationSync, for any runs, tickets,    *)
(* bounds and worker concurrency.                                          *)
(***************************************************************************)
EXTENDS IntegrationSync, FiniteSetTheorems, TLAPS

\* The sets of names the types are made of.
USE DEF InFlight, Settled, Status, JobState, Step, Counted, FailCounted,
        Working, Phase

-----------------------------------------------------------------------------
(* Type correctness *)

\* A ticket job that may still run has an attempt left; without it TypeOK is
\* not inductive, since a failing handler counts one attempt more.
AttemptsLeft ==
  \A r \in Run, t \in Ticket :
    tjob[r][t].phase \in Working \cup {"waiting"} => tjob[r][t].attempts < MaxAttempts

IType == TypeOK /\ AttemptsLeft

\* Every UPDATE of a run keeps its row well-formed.
LEMMA RowTypes ==
  ASSUME NEW rw \in RunRow, NEW note \in {"none", "limit", "failure", "empty"}
  PROVE  /\ failRun(rw) \in RunRow
         /\ finishRun(rw, note) \in RunRow
         /\ \A n \in Nat : setTotals(rw, n) \in RunRow
         /\ recordTicketResult(rw, 1, 0) \in RunRow
         /\ recordTicketResult(rw, 0, 1) \in RunRow
         /\ [rw EXCEPT !.status = "running"] \in RunRow
         /\ [rw EXCEPT !.error = "limit"] \in RunRow
         /\ [rw EXCEPT !.total = 0, !.processed = 0, !.failed = 0] \in RunRow
  <1>1. failRun(rw) \in RunRow
    BY DEF RunRow, failRun
  <1>2. finishRun(rw, note) \in RunRow
    BY DEF RunRow, finishRun
  <1>3. \A n \in Nat : setTotals(rw, n) \in RunRow
    BY DEF RunRow, setTotals
  <1>4. recordTicketResult(rw, 1, 0) \in RunRow /\ recordTicketResult(rw, 0, 1) \in RunRow
    <2>1. /\ rw.processed + 1 \in Nat /\ rw.processed + 0 \in Nat
          /\ rw.failed + 1 \in Nat /\ rw.failed + 0 \in Nat
      BY DEF RunRow
    <2>2. \A p, f \in Nat : [rw EXCEPT !.processed = p, !.failed = f] \in RunRow
      BY DEF RunRow
    <2> QED BY <2>1, <2>2 DEF recordTicketResult
  <1>5. /\ [rw EXCEPT !.status = "running"] \in RunRow
        /\ [rw EXCEPT !.error = "limit"] \in RunRow
        /\ [rw EXCEPT !.total = 0, !.processed = 0, !.failed = 0] \in RunRow
    BY DEF RunRow
  <1> QED BY <1>1, <1>2, <1>3, <1>4, <1>5

\* Every step of a coordinator keeps the types.
LEMMA CoordinatorTypes ==
  ASSUME IType, NEW r \in Run,
         \/ CoordinatorStep(r) \/ ProviderFails(r) \/ CoordinatorFault(r)
         \/ CoordinatorLost(r)
  PROVE  IType'
  <1> USE SyncAssumption DEF TypeOK, AttemptsLeft, IType
  <1> row[r] \in RunRow
    OBVIOUS
  <1>0. failRun(row[r]) \in RunRow
    BY RowTypes
  <1>c. ASSUME CatchFails(r), faults' \in 0 .. MaxFaults PROVE IType'
    BY <1>c, <1>0 DEF CatchFails, Return
  <1>1. CASE RunJobStart(r)
    BY <1>1 DEF RunJobStart
  <1>2. CASE MarkRunning(r)
    <2>1. CASE \E s \in Run \ {r} : Active(s)
      BY <1>2, <2>1, <1>c DEF MarkRunning
    <2>2. CASE ~\E s \in Run \ {r} : Active(s)
      BY <1>2, <2>2, RowTypes, ZenonT(60) DEF MarkRunning
    <2> QED BY <2>1, <2>2
  <1>3. CASE Connect(r)
    BY <1>3, <1>0 DEF Connect, Return
  <1>4. CASE FetchPage(r)
    <2>0. PICK issues \in (SUBSET (Ticket \ queued[r])) \ {{}}, over \in BOOLEAN :
            FetchPage(r)!2!(issues, over)
      BY <1>4 DEF FetchPage
    <2>1. PICK page \in SUBSET issues :
            /\ queued' = [queued EXCEPT ![r] = @ \cup page]
            /\ live' = [live EXCEPT ![r] = @ \cup page]
            /\ row' = [row EXCEPT ![r] = setTotals(@, Cardinality(queued[r] \cup page))]
      BY <2>0
    <2>2. queued[r] \cup page \subseteq Ticket
      BY <2>1
    <2>3. Cardinality(queued[r] \cup page) \in Nat
      BY <2>2, FS_Subset, FS_CardinalityType
    <2>4. row' \in [Run -> RunRow]
      BY <2>1, <2>3, RowTypes
    <2> QED BY <1>4, <2>0, <2>1, <2>2, <2>4 DEF FetchPage
  <1>5. CASE FetchEnd(r)
    BY <1>5 DEF FetchEnd
  <1>6. CASE SetTotals(r)
    <2>1. Cardinality(queued[r]) \in Nat
      BY FS_Subset, FS_CardinalityType
    <2> DEFINE rw == setTotals(row[r], Cardinality(queued[r]))
    <2>2. rw \in RunRow
      BY <2>1, RowTypes
    <2>3. finishRun(rw, "empty") \in RunRow
      BY <2>2, RowTypes
    <2> QED BY <1>6, <2>2, <2>3, SMTT(60) DEF SetTotals, Return
  <1>7. CASE EnqueueTicketJobs(r)
    BY <1>7, SMTT(60) DEF EnqueueTicketJobs, Return
  <1>8. CASE NoteTruncation(r)
    BY <1>8, RowTypes DEF NoteTruncation, Return
  <1>9. CASE ProviderFails(r)
    BY <1>9, <1>c DEF ProviderFails
  <1>10. CASE CoordinatorFault(r)
    BY <1>10, <1>c DEF CoordinatorFault, Fault
  <1>11. CASE CoordinatorLost(r)
    BY <1>11 DEF CoordinatorLost, Fault, Return
  <1> QED BY <1>1, <1>2, <1>3, <1>4, <1>5, <1>6, <1>7, <1>8, <1>9, <1>10, <1>11
          DEF CoordinatorStep

\* Every step of a ticket job keeps the types.
LEMMA TicketTypes ==
  ASSUME IType, NEW r \in Run, NEW t \in Ticket,
         TicketStep(r, t) \/ TicketFault(r, t) \/ OnFailedFault(r, t)
  PROVE  IType'
  <1> USE SyncAssumption DEF TypeOK, AttemptsLeft, IType
  <1> DEFINE J == [phase : Phase, attempts : 0 .. MaxAttempts]
  <1>r. row[r] \in RunRow /\ tjob[r][t] \in J
    OBVIOUS
  <1>0. finishRun(row[r], "none") \in RunRow
    BY <1>r, RowTypes
  <1>p. ASSUME NEW p \in Phase, SetPhase(r, t, p),
               p \in Working => tjob[r][t].phase \in Working \cup {"waiting"},
               p /= "waiting"
        PROVE  tjob' \in [Run -> [Ticket -> J]] /\ AttemptsLeft'
    <2> DEFINE j == [tjob[r][t] EXCEPT !.phase = p]
    <2>1. /\ j \in J
          /\ j.phase = p
          /\ j.attempts = tjob[r][t].attempts
      BY <1>r
    <2>2. tjob' = [tjob EXCEPT ![r] = [tjob[r] EXCEPT ![t] = j]]
      BY <1>p DEF SetPhase
    <2> HIDE DEF j, J
    <2>3. tjob' \in [Run -> [Ticket -> J]]
      BY <2>1, <2>2 DEF J
    <2>4. ASSUME NEW s \in Run, NEW u \in Ticket
          PROVE  tjob'[s][u] = IF s = r /\ u = t THEN j ELSE tjob[s][u]
      BY <2>2 DEF J
    <2> QED BY <1>p, <2>1, <2>3, <2>4
  <1>t. ASSUME Throw(r, t), tjob[r][t].phase \in Working
        PROVE  tjob' \in [Run -> [Ticket -> J]] /\ AttemptsLeft'
    BY <1>t DEF Throw
  <1>1. CASE TicketJobStart(r, t)
    BY <1>1, <1>p DEF TicketJobStart
  <1>2. CASE TicketBuild(r, t)
    BY <1>2, <1>p DEF TicketBuild
  <1>3. CASE TicketBuildFails(r, t)
    BY <1>3, <1>t DEF TicketBuildFails
  <1>4. CASE CountProcessed(r, t)
    <2>1. row' \in [Run -> RunRow]
      BY <1>4, <1>r, RowTypes DEF CountProcessed
    <2> QED BY <1>4, <2>1, <1>p DEF CountProcessed
  <1>5. CASE FinishProcessed(r, t)
    BY <1>5, <1>0, <1>p DEF FinishProcessed
  <1>6. CASE CountFailed(r, t)
    <2>1. row' \in [Run -> RunRow]
      BY <1>6, <1>r, RowTypes DEF CountFailed
    <2> QED BY <1>6, <2>1, <1>p DEF CountFailed
  <1>7. CASE FinishFailed(r, t)
    BY <1>7, <1>0, <1>p DEF FinishFailed
  <1>8. CASE TicketFault(r, t)
    BY <1>8, <1>t DEF TicketFault, Fault
  <1>9. CASE OnFailedFault(r, t)
    BY <1>9, <1>p DEF OnFailedFault, Fault
  <1> QED BY <1>1, <1>2, <1>3, <1>4, <1>5, <1>6, <1>7, <1>8, <1>9 DEF TicketStep

\* Every step of the pipeline keeps the types.
LEMMA TypeStep == IType /\ [Next]_vars => IType'
  <1> SUFFICES ASSUME IType, [Next]_vars PROVE IType'
    OBVIOUS
  <1> USE SyncAssumption DEF TypeOK, AttemptsLeft, IType
  <1>1. ASSUME NEW r \in Run, InsertRun(r) PROVE IType'
    <2>1. NewRow \in RunRow
      BY DEF NewRow, RunRow
    <2> QED BY <1>1, <2>1 DEF InsertRun
  <1>2. ASSUME NEW r \in Run, AddRunJob(r) PROVE IType'
    BY <1>2 DEF AddRunJob
  <1>3. ASSUME NEW r \in Run, AddRunJobFails(r) PROVE IType'
    BY <1>3 DEF AddRunJobFails, Fault
  <1>4. ASSUME NEW r \in Run, ResumeReset(r) PROVE IType'
    BY <1>4, RowTypes DEF ResumeReset
  <1>5. ASSUME NEW r \in Run, ResumeAdd(r) PROVE IType'
    BY <1>5 DEF ResumeAdd
  <1>6. CASE Disconnect
    BY <1>6 DEF Disconnect
  <1>7. CASE Unlink
    BY <1>7 DEF Unlink
  <1>8. CASE Relink
    BY <1>8, SMTT(60) DEF Relink
  <1>9. CASE Crash
    <2>1. ASSUME NEW r \in Run, NEW t \in Ticket
          PROVE  /\ tjob'[r][t] \in [phase : Phase, attempts : 0 .. MaxAttempts]
                 /\ tjob'[r][t].attempts = tjob[r][t].attempts
                 /\ tjob'[r][t].phase \in Working \cup {"waiting"} =>
                      tjob[r][t].phase \in Working \cup {"waiting"}
      <3>1. tjob[r][t] \in [phase : Phase, attempts : 0 .. MaxAttempts]
        OBVIOUS
      <3> QED BY <1>9, <3>1 DEF Crash
    <2>2. tjob' \in [Run -> [Ticket -> [phase : Phase, attempts : 0 .. MaxAttempts]]]
      BY <1>9, <2>1 DEF Crash
    <2>3. AttemptsLeft'
      BY <2>1
    <2> QED BY <1>9, <2>2, <2>3 DEF Crash
  <1>10. CASE UNCHANGED vars
    BY <1>10 DEF vars
  <1>11. ASSUME NEW r \in Run, ResumeFails(r) PROVE IType'
    BY <1>11 DEF ResumeFails, Fault
  <1> QED BY <1>1, <1>2, <1>3, <1>4, <1>5, <1>6, <1>7, <1>8, <1>9, <1>10, <1>11,
             CoordinatorTypes, TicketTypes DEF Next

\* The initial state is well-typed.
LEMMA TypeInit == Init => IType
  BY SyncAssumption DEF Init, NewRow, RunRow, TypeOK, AttemptsLeft, IType

\* The rows, jobs and coordinators keep their types, and BullMQ never gives a
\* ticket job more than MaxAttempts attempts.
THEOREM TypeCorrect == Spec => []TypeOK
  <1>1. IType => TypeOK
    BY DEF IType
  <1> QED BY <1>1, TypeInit, TypeStep, PTL DEF Spec

-----------------------------------------------------------------------------
(* At most one run in flight *)

\* No statement but startRun's INSERT and markRunning puts a run in flight, and
\* the partial unique index guards both.
LEMMA OneInFlightStep ==
  IType /\ AtMostOneInFlight /\ [Next]_vars => AtMostOneInFlight'
  <1> SUFFICES ASSUME IType, AtMostOneInFlight, [Next]_vars
               PROVE  AtMostOneInFlight'
    OBVIOUS
  <1> USE DEF AtMostOneInFlight, Active, IType, TypeOK
  <1>0. ASSUME \A s \in Run : row'[s].status \in InFlight => row[s].status \in InFlight
        PROVE  AtMostOneInFlight'
    BY <1>0
  <1>1. ASSUME NEW r \in Run, NEW rw \in RunRow, row' = [row EXCEPT ![r] = rw],
               rw.status \in InFlight => row[r].status \in InFlight
        PROVE  AtMostOneInFlight'
    BY <1>1, <1>0
  <1>2. CASE UNCHANGED row
    BY <1>2, <1>0
  <1>3. ASSUME NEW rw \in RunRow, NEW note \in {"none", "empty"}
        PROVE  /\ failRun(rw) \in RunRow /\ finishRun(rw, note) \in RunRow
               /\ failRun(rw).status \notin InFlight
               /\ finishRun(rw, note).status \notin InFlight
    BY DEF failRun, finishRun, RunRow
  <1>4. ASSUME NEW r \in Run, InsertRun(r) PROVE AtMostOneInFlight'
    BY <1>4 DEF InsertRun, NewRow, RunRow
  <1>5. ASSUME NEW r \in Run, CatchFails(r) PROVE AtMostOneInFlight'
    BY <1>5, <1>1, <1>3 DEF CatchFails
  <1>6. ASSUME NEW r \in Run, MarkRunning(r) PROVE AtMostOneInFlight'
    <2>1. CASE \E s \in Run \ {r} : Active(s)
      BY <1>6, <2>1, <1>5 DEF MarkRunning
    <2>2. CASE ~\E s \in Run \ {r} : Active(s)
      <3>1. \A s \in Run \ {r} : row'[s] = row[s]
        BY <1>6, <2>2 DEF MarkRunning
      <3> QED BY <2>2, <3>1
    <2> QED BY <2>1, <2>2
  <1>7. ASSUME NEW r \in Run, Connect(r) PROVE AtMostOneInFlight'
    BY <1>7, <1>1, <1>2, <1>3 DEF Connect
  <1>8. ASSUME NEW r \in Run, FetchPage(r) PROVE AtMostOneInFlight'
    <2>1. \E n : row' = [row EXCEPT ![r] = setTotals(@, n)]
      BY <1>8 DEF FetchPage
    <2> QED BY <2>1, <1>0 DEF setTotals, RunRow
  <1>9. ASSUME NEW r \in Run, SetTotals(r) PROVE AtMostOneInFlight'
    <2> DEFINE rw == setTotals(row[r], Cardinality(queued[r]))
    <2>1. Cardinality(queued[r]) \in Nat
      BY SyncAssumption, FS_Subset, FS_CardinalityType
    <2>2. rw \in RunRow /\ rw.status = row[r].status
      <3>1. rw.status = row[r].status
        BY DEF setTotals, RunRow
      <3> QED BY <2>1, <3>1, RowTypes
    <2> HIDE DEF rw
    <2>3. CASE queued[r] = {}
      <3>1. row' = [row EXCEPT ![r] = finishRun(rw, "empty")]
        BY <1>9, <2>3 DEF SetTotals, rw
      <3> QED BY <2>2, <3>1, <1>1, <1>3
    <2>4. CASE queued[r] /= {}
      <3>1. row' = [row EXCEPT ![r] = rw]
        BY <1>9, <2>4 DEF SetTotals, rw
      <3> QED BY <2>2, <3>1, <1>1
    <2> QED BY <2>3, <2>4
  <1>10. ASSUME NEW r \in Run, NoteTruncation(r) PROVE AtMostOneInFlight'
    BY <1>10, <1>0 DEF NoteTruncation, RunRow
  <1>11. ASSUME NEW r \in Run, ResumeReset(r) PROVE AtMostOneInFlight'
    BY <1>11, <1>0 DEF ResumeReset, RunRow
  <1>12. ASSUME NEW r \in Run, NEW t \in Ticket,
                CountProcessed(r, t) \/ CountFailed(r, t)
         PROVE  AtMostOneInFlight'
    <2>1. ASSUME NEW p \in {0, 1}, NEW f \in {0, 1}
          PROVE  recordTicketResult(row[r], p, f).status = row[r].status
      BY DEF recordTicketResult, RunRow
    <2>2. CASE CountProcessed(r, t)
      BY <2>1, <2>2, <1>1, RowTypes DEF CountProcessed
    <2>3. CASE CountFailed(r, t)
      BY <2>1, <2>3, <1>1, RowTypes DEF CountFailed
    <2> QED BY <1>12, <2>2, <2>3
  <1>13. ASSUME NEW r \in Run, NEW t \in Ticket,
                FinishProcessed(r, t) \/ FinishFailed(r, t)
         PROVE  AtMostOneInFlight'
    BY <1>13, <1>1, <1>3 DEF FinishProcessed, FinishFailed
  <1>14. ASSUME NEW r \in Run,
                \/ AddRunJob(r) \/ AddRunJobFails(r) \/ RunJobStart(r) \/ FetchEnd(r)
                \/ EnqueueTicketJobs(r) \/ CoordinatorLost(r) \/ ResumeAdd(r)
                \/ ResumeFails(r)
         PROVE  UNCHANGED row
    BY <1>14 DEF AddRunJob, AddRunJobFails, RunJobStart, FetchEnd,
                 EnqueueTicketJobs, CoordinatorLost, ResumeAdd, ResumeFails
  <1>15. ASSUME NEW r \in Run, NEW t \in Ticket,
                \/ TicketJobStart(r, t) \/ TicketBuild(r, t) \/ TicketBuildFails(r, t)
                \/ TicketFault(r, t) \/ OnFailedFault(r, t)
         PROVE  UNCHANGED row
    BY <1>15 DEF TicketJobStart, TicketBuild, TicketBuildFails, TicketFault,
                 OnFailedFault
  <1>16. ASSUME Disconnect \/ Unlink \/ Relink \/ Crash \/ UNCHANGED vars
         PROVE  UNCHANGED row
    BY <1>16 DEF Disconnect, Unlink, Relink, Crash, vars
  <1> HIDE DEF AtMostOneInFlight, IType
  <1> QED
    BY <1>2, <1>4, <1>5, <1>6, <1>7, <1>8, <1>9, <1>10, <1>11, <1>12, <1>13,
       <1>14, <1>15, <1>16
    DEF Next, CoordinatorStep, TicketStep, ProviderFails, CoordinatorFault

\* Two clicks, or a click and a coordinator that comes back after a restart,
\* never put two runs of the project and provider in flight.
THEOREM OneRunInFlight == Spec => []AtMostOneInFlight
  <1>1. Init => AtMostOneInFlight
    BY DEF Init, NewRow, AtMostOneInFlight, Active
  <1> QED BY <1>1, TypeInit, TypeStep, OneInFlightStep, PTL DEF Spec

-----------------------------------------------------------------------------
(* Counters and settlement *)

Landed(r) == Processed(r) \cup Failed(r)

\* The inductive invariant of one run, while nothing crashed and no statement
\* failed.  The counters are the sizes of two sets of ticket jobs; the total is
\* the size of the fanned-out set once there is one; and a job that was told
\* "you are the last" is right, because the two counted sets then fill it.
RunInv(r) ==
  /\ boot[r] = "none"
  /\ pc[r] /= "idle" <=> runJob[r] = "active"
  /\ request[r] = "add" => runJob[r] = "absent" /\ row[r].status = "queued"
  /\ row[r].status = "absent" => runJob[r] = "absent"
  /\ row[r].status = "queued" => runJob[r] \in {"absent", "waiting"} \/ pc[r] = "mark"
  /\ runJob[r] \in {"absent", "waiting"} \/ pc[r] = "mark" =>
       row[r].status \in {"absent", "queued"} /\ Fanned(r) = {} /\ queued[r] = {}
  /\ pc[r] \in {"connect", "fetch", "stale", "totals", "fanout"} =>
       row[r].status = "running" /\ Fanned(r) = {}
  /\ pc[r] = "fanout" =>
       queued[r] /= {} /\ row[r].total = Cardinality(queued[r])
  /\ pc[r] = "note" => Fanned(r) /= {}
  /\ Fanned(r) /= {} =>
       Fanned(r) = queued[r] /\ row[r].total = Cardinality(queued[r])
  /\ runJob[r] = "completed" /\ Fanned(r) = {} =>
       row[r].status = "failed" \/ (row[r].status = "succeeded" /\ queued[r] = {})
  /\ row[r].processed = Cardinality(Processed(r))
  /\ row[r].failed = Cardinality(Failed(r))
  /\ \A t \in Ticket :
       tjob[r][t].phase \in {"finish", "failfinish"} => Landed(r) = queued[r]
  /\ row[r].status \in {"succeeded", "partial"} =>
       /\ queued[r] = Landed(r)
       /\ row[r].status = "partial" <=> Failed(r) /= {}

CleanInv == Clean => \A r \in Run : RunInv(r)

\* A run that a step leaves alone keeps its invariant.
LEMMA Frame ==
  ASSUME NEW r \in Run, RunInv(r), boot'[r] = boot[r], pc'[r] = pc[r],
         runJob'[r] = runJob[r], request'[r] = request[r], row'[r] = row[r],
         queued'[r] = queued[r], tjob'[r] = tjob[r]
  PROVE  RunInv(r)'
  BY DEF RunInv, Fanned, Processed, Failed, Landed

\* The sets of jobs depend on nothing but the phases.
LEMMA SameJobs ==
  ASSUME NEW r \in Run, tjob'[r] = tjob[r]
  PROVE  /\ Fanned(r)' = Fanned(r) /\ Processed(r)' = Processed(r)
         /\ Failed(r)' = Failed(r) /\ Landed(r)' = Landed(r)
  BY DEF Fanned, Processed, Failed, Landed

\* Every set of tickets is finite, and the counted sets are disjoint parts of
\* the fanned-out set.
LEMMA JobSets ==
  ASSUME TypeOK, NEW r \in Run
  PROVE  /\ IsFiniteSet(Processed(r)) /\ IsFiniteSet(Failed(r))
         /\ IsFiniteSet(queued[r])
         /\ Processed(r) \cap Failed(r) = {}
         /\ Landed(r) \subseteq Fanned(r)
         /\ Cardinality(Processed(r)) \in Nat /\ Cardinality(Failed(r)) \in Nat
         /\ Cardinality(queued[r]) \in Nat
         /\ Cardinality(Processed(r)) = 0 <=> Processed(r) = {}
         /\ Cardinality(Failed(r)) = 0 <=> Failed(r) = {}
         /\ Cardinality(Landed(r)) = Cardinality(Processed(r)) + Cardinality(Failed(r))
  <1>1. Processed(r) \subseteq Ticket /\ Failed(r) \subseteq Ticket /\ queued[r] \subseteq Ticket
    BY DEF Processed, Failed, TypeOK
  <1>2. IsFiniteSet(Processed(r)) /\ IsFiniteSet(Failed(r)) /\ IsFiniteSet(queued[r])
    BY <1>1, SyncAssumption, FS_Subset
  <1>3. Processed(r) \cap Failed(r) = {} /\ Landed(r) \subseteq Fanned(r)
    BY DEF Processed, Failed, Landed, Fanned
  <1>4. Cardinality(Landed(r)) =
          Cardinality(Processed(r)) + Cardinality(Failed(r)) - Cardinality(Processed(r) \cap Failed(r))
    BY <1>2, FS_Union DEF Landed
  <1>5. Cardinality({}) = 0
    BY FS_EmptySet
  <1>6. /\ Cardinality(Processed(r)) \in Nat /\ Cardinality(Failed(r)) \in Nat
        /\ Cardinality(queued[r]) \in Nat
    BY <1>2, FS_CardinalityType
  <1>7. /\ Cardinality(Processed(r)) = 0 <=> Processed(r) = {}
        /\ Cardinality(Failed(r)) = 0 <=> Failed(r) = {}
    BY <1>2, FS_EmptySet
  <1>8. Cardinality(Processed(r) \cap Failed(r)) = 0
    BY <1>3, <1>5
  <1>9. Cardinality(Landed(r)) = Cardinality(Processed(r)) + Cardinality(Failed(r))
    BY <1>4, <1>6, <1>8
  <1> QED BY <1>2, <1>3, <1>6, <1>7, <1>9

\* When the two counters reach the total, the counted sets fill the fanned-out
\* set: the job that sees "processed + failed >= total" is the last one.
LEMMA LastIsLast ==
  ASSUME NEW Q, NEW A, NEW B, IsFiniteSet(Q), A \cup B \subseteq Q, A \cap B = {},
         Cardinality(A) + Cardinality(B) >= Cardinality(Q)
  PROVE  A \cup B = Q
  <1>1. IsFiniteSet(A) /\ IsFiniteSet(B) /\ IsFiniteSet(A \cup B)
    BY FS_Subset
  <1>2. Cardinality(A \cup B) = Cardinality(A) + Cardinality(B)
    <2>1. Cardinality(A \cup B) = Cardinality(A) + Cardinality(B) - Cardinality(A \cap B)
      BY <1>1, FS_Union
    <2>2. Cardinality(A \cap B) = 0
      BY FS_EmptySet
    <2>3. Cardinality(A) \in Nat /\ Cardinality(B) \in Nat
      BY <1>1, FS_CardinalityType
    <2> QED BY <2>1, <2>2, <2>3
  <1>3. Cardinality(A \cup B) <= Cardinality(Q) /\ (Cardinality(Q) = Cardinality(A \cup B) => Q = A \cup B)
    BY FS_Subset
  <1> QED BY <1>1, <1>2, <1>3, FS_CardinalityType

\* The requests, the boot sweep and the owner.
LEMMA OutsideClean ==
  ASSUME IType, Clean, NEW r \in Run, \A s \in Run : RunInv(s),
         InsertRun(r) \/ AddRunJob(r) \/ ResumeReset(r) \/ ResumeAdd(r)
  PROVE  \A s \in Run : RunInv(s)'
  <1> USE DEF IType, TypeOK
  <1>0. SUFFICES RunInv(r)'
    <2> SUFFICES ASSUME NEW s \in Run \ {r} PROVE RunInv(s)'
      BY <1>0
    <2> QED BY Frame DEF InsertRun, AddRunJob, ResumeReset, ResumeAdd
  <1>1. CASE InsertRun(r)
    <2>1. Fanned(r) = {} /\ runJob[r] = "absent" /\ queued[r] = {}
      BY <1>1 DEF RunInv, InsertRun
    <2>2. Processed(r) = {} /\ Failed(r) = {}
      BY <2>1 DEF Processed, Failed, Fanned
    <2>3. /\ row'[r] = NewRow /\ tjob'[r] = tjob[r] /\ request'[r] = "add"
          /\ pc'[r] = pc[r] /\ boot'[r] = boot[r] /\ runJob'[r] = runJob[r]
          /\ queued'[r] = queued[r]
      BY <1>1 DEF InsertRun
    <2>4. RunInv(r)
      OBVIOUS
    <2> QED BY <2>1, <2>2, <2>3, <2>4, SameJobs, FS_EmptySet DEF RunInv, NewRow
  <1>2. CASE AddRunJob(r)
    <2>1. RunInv(r) /\ tjob'[r] = tjob[r]
      BY <1>2 DEF AddRunJob
    <2> QED BY <1>2, <2>1, SameJobs DEF RunInv, AddRunJob
  <1>3. CASE ResumeReset(r) \/ ResumeAdd(r)
    BY <1>3 DEF RunInv, ResumeReset, ResumeAdd
  <1> QED BY <1>1, <1>2, <1>3

\* The coordinator.
LEMMA CoordinatorClean ==
  ASSUME IType, Clean, NEW r \in Run, \A s \in Run : RunInv(s),
         CoordinatorStep(r) \/ ProviderFails(r)
  PROVE  \A s \in Run : RunInv(s)'
  <1> USE DEF IType, TypeOK
  <1>0. SUFFICES RunInv(r)'
    <2> SUFFICES ASSUME NEW s \in Run \ {r} PROVE RunInv(s)'
      BY <1>0
    <2>1. /\ boot'[s] = boot[s] /\ pc'[s] = pc[s] /\ runJob'[s] = runJob[s]
          /\ request'[s] = request[s] /\ row'[s] = row[s]
          /\ queued'[s] = queued[s] /\ tjob'[s] = tjob[s]
      BY ZenonT(60) DEF CoordinatorStep, RunJobStart, MarkRunning, Connect, FetchPage,
             FetchEnd, SetTotals, EnqueueTicketJobs, NoteTruncation,
             ProviderFails, CatchFails, Return
    <2> QED BY <2>1, Frame
  <1>i. RunInv(r) /\ row[r] \in RunRow
    OBVIOUS
  <1>j. failRun(row[r]).processed = row[r].processed /\ failRun(row[r]).failed = row[r].failed
        /\ failRun(row[r]).total = row[r].total
        /\ (row[r].status \in InFlight => failRun(row[r]).status = "failed")
        /\ (row[r].status \notin InFlight => failRun(row[r]) = row[r])
    BY DEF failRun, RunRow
  <1>c. ASSUME CatchFails(r), pc[r] \in {"mark", "connect", "fetch", "stale"} PROVE RunInv(r)'
    <2>1. tjob'[r] = tjob[r] /\ row'[r] = failRun(row[r]) /\ pc'[r] = "idle"
          /\ runJob'[r] = "completed" /\ boot'[r] = boot[r] /\ request'[r] = request[r]
          /\ queued'[r] = queued[r]
      BY <1>c DEF CatchFails, Return
    <2> QED BY <1>c, <1>i, <1>j, <2>1, SameJobs DEF RunInv
  <1>1. CASE RunJobStart(r)
    <2>1. tjob'[r] = tjob[r] /\ row'[r] = row[r] /\ pc'[r] = "mark" /\ boot'[r] = boot[r]
          /\ runJob'[r] = "active" /\ request'[r] = request[r] /\ queued'[r] = {}
      BY <1>1 DEF RunJobStart
    <2> QED BY <1>1, <1>i, <2>1, SameJobs DEF RunInv, RunJobStart
  <1>2. CASE MarkRunning(r)
    <2>1. CASE \E s \in Run \ {r} : Active(s)
      BY <1>2, <2>1, <1>c DEF MarkRunning
    <2>2. CASE ~\E s \in Run \ {r} : Active(s)
      <3> DEFINE rw == [row[r] EXCEPT !.status = "running"]
      <3>1. tjob'[r] = tjob[r] /\ row'[r] = rw /\ pc'[r] = "connect" /\ boot'[r] = boot[r]
            /\ runJob'[r] = runJob[r] /\ request'[r] = request[r] /\ queued'[r] = queued[r]
        BY <1>2, <2>2 DEF MarkRunning
      <3>2. rw.status = "running" /\ rw.processed = row[r].processed
            /\ rw.failed = row[r].failed /\ rw.total = row[r].total
        BY <1>i DEF RunRow
      <3> HIDE DEF rw
      <3> QED BY <1>2, <1>i, <3>1, <3>2, SameJobs DEF RunInv, MarkRunning
    <2> QED BY <2>1, <2>2
  <1>3. CASE Connect(r)
    <2>1. tjob'[r] = tjob[r] /\ boot'[r] = boot[r] /\ request'[r] = request[r]
          /\ queued'[r] = queued[r]
      BY <1>3 DEF Connect
    <2>2. CASE link = "mapped"
      <3>1. pc'[r] = "fetch" /\ row'[r] = row[r] /\ runJob'[r] = runJob[r]
        BY <1>3, <2>2 DEF Connect
      <3> QED BY <1>3, <1>i, <2>1, <3>1, SameJobs DEF RunInv, Connect
    <2>3. CASE link /= "mapped"
      <3>1. pc'[r] = "idle" /\ row'[r] = failRun(row[r]) /\ runJob'[r] = "completed"
        BY <1>3, <2>3 DEF Connect, Return
      <3> QED BY <1>3, <1>i, <1>j, <2>1, <3>1, SameJobs DEF RunInv, Connect
    <2> QED BY <2>2, <2>3
  <1>4. CASE FetchPage(r)
    <2>1. PICK n : row' = [row EXCEPT ![r] = setTotals(@, n)]
      BY <1>4 DEF FetchPage
    <2>2. row'[r].status = row[r].status /\ row'[r].processed = row[r].processed
          /\ row'[r].failed = row[r].failed
      BY <1>i, <2>1 DEF setTotals, RunRow
    <2>3. tjob'[r] = tjob[r] /\ boot'[r] = boot[r] /\ request'[r] = request[r]
          /\ runJob'[r] = runJob[r] /\ pc'[r] \in {"fetch", "totals"} /\ pc[r] = "fetch"
      BY <1>4 DEF FetchPage
    <2>4. Fanned(r) = {} /\ \A t \in Ticket : tjob[r][t].phase = "absent"
      BY <1>i, <2>3 DEF RunInv, Fanned
    <2> QED BY <1>i, <2>2, <2>3, <2>4, SameJobs DEF RunInv
  <1>5. CASE FetchEnd(r)
    <2>1. tjob'[r] = tjob[r] /\ row'[r] = row[r] /\ pc'[r] = "totals" /\ boot'[r] = boot[r]
          /\ runJob'[r] = runJob[r] /\ request'[r] = request[r] /\ queued'[r] = queued[r]
      BY <1>5 DEF FetchEnd
    <2> QED BY <1>5, <1>i, <2>1, SameJobs DEF RunInv, FetchEnd
  <1>6. CASE SetTotals(r)
    <2> DEFINE rw == setTotals(row[r], Cardinality(queued[r]))
    <2>1. rw.status = row[r].status /\ rw.processed = row[r].processed
          /\ rw.failed = row[r].failed /\ rw.total = Cardinality(queued[r])
          /\ rw \in RunRow
      BY <1>i, JobSets, RowTypes, ZenonT(60) DEF setTotals, RunRow
    <2>2. tjob'[r] = tjob[r] /\ boot'[r] = boot[r] /\ request'[r] = request[r]
          /\ queued'[r] = queued[r] /\ pc[r] = "totals"
      BY <1>6 DEF SetTotals
    <2>3. Fanned(r) = {} /\ row[r].status = "running" /\ Landed(r) = {} /\ Failed(r) = {}
      BY <1>i, <2>2, JobSets, ZenonT(60) DEF RunInv, Landed
    <2> HIDE DEF rw
    <2>4. CASE queued[r] = {}
      <3>1. row'[r] = finishRun(rw, "empty") /\ pc'[r] = "idle" /\ runJob'[r] = "completed"
        BY <1>6, <2>4 DEF SetTotals, Return, rw
      <3>2. row[r].failed = 0
        BY <1>i, <2>3, FS_EmptySet DEF RunInv
      <3>3. row'[r].status = "succeeded" /\ row'[r].processed = row[r].processed
            /\ row'[r].failed = row[r].failed
        BY <2>1, <2>3, <3>1, <3>2 DEF finishRun, RunRow
      <3> QED BY <1>i, <2>2, <2>3, <2>4, <3>1, <3>3, SameJobs DEF RunInv
    <2>5. CASE queued[r] /= {}
      <3>1. row'[r] = rw /\ pc'[r] = "fanout" /\ runJob'[r] = runJob[r]
        BY <1>6, <2>5 DEF SetTotals, rw
      <3> QED BY <1>i, <2>1, <2>2, <2>3, <2>5, <3>1, SameJobs DEF RunInv
    <2> QED BY <2>4, <2>5
  <1>7. CASE EnqueueTicketJobs(r)
    <2>1. row'[r] = row[r] /\ boot'[r] = boot[r] /\ request'[r] = request[r]
          /\ queued'[r] = queued[r] /\ pc[r] = "fanout"
      BY <1>7 DEF EnqueueTicketJobs
    <2>2. \A t \in Ticket : tjob[r][t].phase = "absent"
      BY <1>i, <2>1 DEF RunInv, Fanned
    <2>3. \A t \in Ticket : tjob'[r][t].phase = IF t \in queued[r] THEN "waiting" ELSE "absent"
      BY <1>7, <2>2 DEF EnqueueTicketJobs
    <2>4. Fanned(r)' = queued[r] /\ Processed(r)' = {} /\ Failed(r)' = {}
      BY <2>3 DEF Fanned, Processed, Failed
    <2>5. Processed(r) = {} /\ Failed(r) = {}
      BY <2>2 DEF Processed, Failed
    <2>6. \/ pc'[r] = "note" /\ runJob'[r] = runJob[r]
          \/ pc'[r] = "idle" /\ runJob'[r] = "completed"
      BY <1>7 DEF EnqueueTicketJobs, Return
    <2>7. /\ row[r].status = "running" /\ queued[r] /= {} /\ boot[r] = "none"
          /\ row[r].total = Cardinality(queued[r]) /\ runJob[r] = "active"
          /\ row[r].processed = Cardinality({}) /\ row[r].failed = Cardinality({})
          /\ request[r] /= "add"
      BY <1>i, <2>1, <2>5 DEF RunInv
    <2>8. \A t \in Ticket : tjob'[r][t].phase \notin {"finish", "failfinish"}
      BY <2>3
    <2> QED BY <2>1, <2>4, <2>6, <2>7, <2>8 DEF RunInv
  <1>8. CASE NoteTruncation(r)
    <2>1. tjob'[r] = tjob[r] /\ boot'[r] = boot[r] /\ request'[r] = request[r]
          /\ queued'[r] = queued[r] /\ pc'[r] = "idle" /\ runJob'[r] = "completed"
          /\ row'[r] = [row[r] EXCEPT !.error = "limit"]
      BY <1>8 DEF NoteTruncation, Return
    <2>2. row'[r].status = row[r].status /\ row'[r].processed = row[r].processed
          /\ row'[r].failed = row[r].failed /\ row'[r].total = row[r].total
      BY <1>i, <2>1 DEF RunRow
    <2> QED BY <1>8, <1>i, <2>1, <2>2, SameJobs DEF RunInv, NoteTruncation
  <1>9. CASE ProviderFails(r)
    BY <1>9, <1>c DEF ProviderFails
  <1> QED BY <1>1, <1>2, <1>3, <1>4, <1>5, <1>6, <1>7, <1>8, <1>9 DEF CoordinatorStep

\* What a step of a ticket job does to the phases.
LEMMA PhaseChange ==
  ASSUME TypeOK, NEW r \in Run, NEW t \in Ticket, NEW p,
         \/ SetPhase(r, t, p)
         \/ /\ Throw(r, t)
            /\ p = IF tjob[r][t].attempts + 1 < MaxAttempts THEN "waiting" ELSE "exhausted"
  PROVE  /\ \A s \in Run \ {r} : tjob'[s] = tjob[s]
         /\ \A u \in Ticket : tjob'[r][u].phase = IF u = t THEN p ELSE tjob[r][u].phase
  BY DEF TypeOK, SetPhase, Throw

\* The ticket jobs.
LEMMA TicketClean ==
  ASSUME IType, Clean, NEW r \in Run, NEW t \in Ticket, \A s \in Run : RunInv(s),
         TicketStep(r, t)
  PROVE  \A s \in Run : RunInv(s)'
  <1> USE DEF IType
  <1>i. /\ RunInv(r) /\ row[r] \in RunRow
        /\ row[r].processed \in Nat /\ row[r].failed \in Nat /\ row[r].total \in Nat
    BY DEF TypeOK, RunRow
  <1>w. UNCHANGED <<boot, pc, runJob, request, queued>>
    BY DEF TicketStep, TicketJobStart, TicketBuild, TicketBuildFails,
           CountProcessed, FinishProcessed, CountFailed, FinishFailed
  <1>f. ASSUME \A s \in Run \ {r} : tjob'[s] = tjob[s] /\ row'[s] = row[s], RunInv(r)'
        PROVE  \A s \in Run : RunInv(s)'
    BY <1>f, <1>w, Frame
  <1>o. ASSUME tjob[r][t].phase \notin {"absent", "finish", "completed", "failfinish", "failed"}
        PROVE  /\ Fanned(r) = queued[r] /\ Fanned(r) /= {} /\ t \in queued[r]
               /\ row[r].total = Cardinality(queued[r])
               /\ t \notin Landed(r)
               /\ row[r].status \notin {"succeeded", "partial"}
               /\ \A u \in Ticket : tjob[r][u].phase \notin {"finish", "failfinish"}
    BY <1>o, <1>i DEF RunInv, Fanned, Landed, Processed, Failed
  \* Steps between two uncounted phases.
  <1>1. ASSUME NEW p \in {"waiting", "build", "count", "exhausted"},
               \A s \in Run \ {r} : tjob'[s] = tjob[s],
               \A u \in Ticket : tjob'[r][u].phase = IF u = t THEN p ELSE tjob[r][u].phase,
               tjob[r][t].phase \in {"waiting", "build"}, UNCHANGED row
        PROVE  \A s \in Run : RunInv(s)'
    <2>1. Fanned(r)' = Fanned(r) /\ Processed(r)' = Processed(r) /\ Failed(r)' = Failed(r)
          /\ Landed(r)' = Landed(r)
      BY <1>1 DEF Fanned, Processed, Failed, Landed
    <2>2. \A u \in Ticket : tjob'[r][u].phase \notin {"finish", "failfinish"}
      BY <1>1, <1>o
    <2>3. RunInv(r)'
      BY <1>1, <1>i, <1>w, <2>1, <2>2 DEF RunInv
    <2> QED BY <1>1, <2>3, <1>f
  \* Steps that count a ticket, as processed (i = 1) or as failed (j = 1).
  <1>2. ASSUME NEW i \in {0, 1}, NEW j \in {0, 1}, i + j = 1, NEW p,
               p \in IF i = 1 THEN {"finish", "completed"} ELSE {"failfinish", "failed"},
               p \in {"finish", "failfinish"} => Complete(row'[r]),
               \A s \in Run \ {r} : tjob'[s] = tjob[s],
               \A u \in Ticket : tjob'[r][u].phase = IF u = t THEN p ELSE tjob[r][u].phase,
               tjob[r][t].phase \in {"count", "exhausted"},
               row' = [row EXCEPT ![r] = recordTicketResult(@, i, j)]
        PROVE  \A s \in Run : RunInv(s)'
    <2>1. /\ row'[r].processed = row[r].processed + i
          /\ row'[r].failed = row[r].failed + j
          /\ row'[r].status = row[r].status /\ row'[r].total = row[r].total
      BY <1>2, <1>i DEF recordTicketResult, RunRow, TypeOK
    <2>2. /\ Fanned(r)' = Fanned(r)
          /\ Processed(r)' = IF i = 1 THEN Processed(r) \cup {t} ELSE Processed(r)
          /\ Failed(r)' = IF i = 1 THEN Failed(r) ELSE Failed(r) \cup {t}
      BY <1>2 DEF Fanned, Processed, Failed
    <2>3. t \notin Processed(r) /\ t \notin Failed(r)
      BY <1>2, <1>o DEF Landed
    <2>4. /\ IsFiniteSet(Processed(r)) /\ IsFiniteSet(Failed(r)) /\ IsFiniteSet(queued[r])
          /\ Landed(r) \subseteq Fanned(r) /\ Processed(r) \cap Failed(r) = {}
          /\ Cardinality(Processed(r)) \in Nat /\ Cardinality(Failed(r)) \in Nat
      BY JobSets
    <2>5. /\ Cardinality(Processed(r) \cup {t}) = Cardinality(Processed(r)) + 1
          /\ Cardinality(Failed(r) \cup {t}) = Cardinality(Failed(r)) + 1
      BY <2>3, <2>4, FS_AddElement
    <2>6. /\ row'[r].processed = Cardinality(Processed(r)')
          /\ row'[r].failed = Cardinality(Failed(r)')
      <3>0. /\ row[r].processed = Cardinality(Processed(r))
            /\ row[r].failed = Cardinality(Failed(r))
        BY <1>i DEF RunInv
      <3>1. CASE i = 1
        BY <1>2, <3>0, <3>1, <2>1, <2>2, <2>4, <2>5
      <3>2. CASE i = 0
        BY <1>2, <3>0, <3>2, <2>1, <2>2, <2>4, <2>5
      <3> QED BY <1>2, <3>1, <3>2
    <2>7. Landed(r)' \subseteq queued[r] /\ Processed(r)' \cap Failed(r)' = {}
      BY <1>2, <1>o, <2>2, <2>3, <2>4 DEF Landed
    <2>8. ASSUME NEW u \in Ticket, tjob'[r][u].phase \in {"finish", "failfinish"}
          PROVE  Landed(r)' = queued[r]
      <3>1. u = t /\ Complete(row'[r])
        BY <1>2, <1>o, <2>8
      <3>2. Cardinality(Processed(r)') + Cardinality(Failed(r)') >= Cardinality(queued[r])
        BY <1>2, <1>o, <2>1, <2>6, <3>1 DEF Complete
      <3> QED BY <2>4, <2>7, <3>2, LastIsLast DEF Landed
    <2>9. RunInv(r)'
      BY <1>2, <1>o, <1>i, <1>w, <2>1, <2>2, <2>6, <2>8 DEF RunInv
    <2>10. \A s \in Run \ {r} : row'[s] = row[s]
      BY <1>2 DEF TypeOK
    <2> QED BY <1>2, <2>9, <2>10, <1>f
  \* Steps that settle the run.
  <1>3. ASSUME NEW p, NEW q \in {"finish", "failfinish"},
               p = (IF q = "finish" THEN "completed" ELSE "failed"),
               \A s \in Run \ {r} : tjob'[s] = tjob[s],
               \A u \in Ticket : tjob'[r][u].phase = IF u = t THEN p ELSE tjob[r][u].phase,
               tjob[r][t].phase = q,
               row' = [row EXCEPT ![r] = finishRun(@, "none")]
        PROVE  \A s \in Run : RunInv(s)'
    <2>1. Fanned(r)' = Fanned(r) /\ Processed(r)' = Processed(r) /\ Failed(r)' = Failed(r)
          /\ Landed(r)' = Landed(r)
      BY <1>3 DEF Fanned, Processed, Failed, Landed
    <2>2. row'[r] = finishRun(row[r], "none")
      BY <1>3 DEF TypeOK
    <2>3. /\ row'[r].processed = row[r].processed /\ row'[r].failed = row[r].failed
          /\ row'[r].total = row[r].total
          /\ row[r].status \in InFlight =>
               row'[r].status = IF row[r].failed > 0 THEN "partial" ELSE "succeeded"
          /\ row[r].status \notin InFlight => row'[r].status = row[r].status
      BY <1>i, <2>2 DEF finishRun, RunRow
    <2>4. Landed(r) = queued[r] /\ Fanned(r) /= {} /\ (row[r].failed > 0 <=> Failed(r) /= {})
      BY <1>3, <1>i, JobSets DEF RunInv, Fanned
    <2>5. RunInv(r)'
      BY <1>3, <1>i, <1>w, <2>1, <2>3, <2>4 DEF RunInv
    <2>6. \A s \in Run \ {r} : row'[s] = row[s]
      BY <1>3 DEF TypeOK
    <2> QED BY <1>3, <2>5, <2>6, <1>f
  <1>4. CASE TicketJobStart(r, t)
    BY <1>4, <1>1, PhaseChange DEF TicketJobStart
  <1>5. CASE TicketBuild(r, t)
    BY <1>5, <1>1, PhaseChange DEF TicketBuild
  <1>6. CASE TicketBuildFails(r, t)
    BY <1>6, <1>1, PhaseChange DEF TicketBuildFails
  <1>7. CASE CountProcessed(r, t)
    <2>1. PICK p \in {"finish", "completed"} : SetPhase(r, t, p) /\ (p = "finish" => Complete(row'[r]))
      BY <1>7 DEF CountProcessed
    <2> QED BY <1>7, <2>1, <1>2, PhaseChange DEF CountProcessed
  <1>8. CASE CountFailed(r, t)
    <2>1. PICK p \in {"failfinish", "failed"} : SetPhase(r, t, p) /\ (p = "failfinish" => Complete(row'[r]))
      BY <1>8 DEF CountFailed
    <2> QED BY <1>8, <2>1, <1>2, PhaseChange DEF CountFailed
  <1>9. CASE FinishProcessed(r, t)
    BY <1>9, <1>3, PhaseChange DEF FinishProcessed
  <1>10. CASE FinishFailed(r, t)
    BY <1>10, <1>3, PhaseChange DEF FinishFailed
  <1> QED BY <1>4, <1>5, <1>6, <1>7, <1>8, <1>9, <1>10 DEF TicketStep

\* Every step keeps the invariant of every run; a crash or a fault ends Clean.
LEMMA CleanStep == IType /\ CleanInv /\ [Next]_vars => CleanInv'
  <1> SUFFICES ASSUME IType, CleanInv, [Next]_vars, Clean'
               PROVE  \A s \in Run : RunInv(s)'
    BY DEF CleanInv
  <1>1. crashes \in Nat /\ faults \in Nat
    BY SyncAssumption DEF IType, TypeOK
  <1>2. ASSUME Fault \/ Crash PROVE FALSE
    BY <1>1, <1>2 DEF Fault, Crash, Clean
  <1>3. Clean
    <2>1. ASSUME NEW r \in Run,
                 \/ InsertRun(r) \/ AddRunJob(r) \/ ResumeReset(r) \/ ResumeAdd(r)
                 \/ CoordinatorStep(r) \/ ProviderFails(r)
          PROVE  UNCHANGED <<crashes, faults>>
      BY <2>1 DEF InsertRun, AddRunJob, ResumeReset, ResumeAdd, CoordinatorStep,
           RunJobStart, MarkRunning, Connect, FetchPage, FetchEnd, SetTotals,
           EnqueueTicketJobs, NoteTruncation, ProviderFails, CatchFails
    <2>2. ASSUME NEW r \in Run, NEW t \in Ticket, TicketStep(r, t)
          PROVE  UNCHANGED <<crashes, faults>>
      BY <2>2 DEF TicketStep, TicketJobStart, TicketBuild, TicketBuildFails,
           CountProcessed, FinishProcessed, CountFailed, FinishFailed
    <2>3. ASSUME Disconnect \/ Unlink \/ Relink \/ UNCHANGED vars
          PROVE  UNCHANGED <<crashes, faults>>
      BY <2>3 DEF Disconnect, Unlink, Relink, vars
    <2> QED BY <1>2, <2>1, <2>2, <2>3
            DEF Next, Clean, AddRunJobFails, CoordinatorFault, CoordinatorLost,
                TicketFault, OnFailedFault, ResumeFails
  <1>4. \A s \in Run : RunInv(s)
    BY <1>3 DEF CleanInv
  <1>5. CASE Unlink \/ Relink \/ UNCHANGED vars
    BY <1>4, <1>5, Frame DEF Unlink, Relink, vars
  <1>6. CASE Disconnect
    <2> SUFFICES ASSUME NEW s \in Run PROVE RunInv(s)'
      OBVIOUS
    <2>1. /\ boot'[s] = boot[s] /\ runJob'[s] = runJob[s] /\ request'[s] = request[s]
          /\ row'[s] = row[s] /\ queued'[s] = queued[s] /\ tjob'[s] = tjob[s]
          /\ pc'[s] = pc[s] \/ (pc[s] = "fetch" /\ pc'[s] = "stale")
      BY <1>6 DEF Disconnect, IType, TypeOK
    <2>2. RunInv(s)
      BY <1>4
    <2>3. CASE pc'[s] = pc[s]
      BY <2>1, <2>2, <2>3, Frame
    <2>4. CASE pc[s] = "fetch" /\ pc'[s] = "stale"
      BY <2>1, <2>2, <2>4, SameJobs DEF RunInv
    <2> QED BY <2>1, <2>3, <2>4
  <1> QED BY <1>2, <1>3, <1>4, <1>5, <1>6, OutsideClean, CoordinatorClean,
             TicketClean
          DEF Next, AddRunJobFails, CoordinatorFault, CoordinatorLost, TicketFault,
              OnFailedFault, ResumeFails

\* No run has anything counted, fanned out or in flight at the start.
LEMMA CleanInit == Init => CleanInv
  <1> SUFFICES ASSUME Init, NEW r \in Run PROVE RunInv(r)
    BY DEF CleanInv
  <1>1. Fanned(r) = {} /\ Processed(r) = {} /\ Failed(r) = {} /\ queued[r] = {}
    BY DEF Init, Fanned, Processed, Failed
  <1> QED BY <1>1, FS_EmptySet DEF Init, RunInv, NewRow, Landed

\* recordTicketResult counts every ticket exactly once and never beyond the
\* total, whatever the interleaving of the workers, as long as no statement
\* fails and the backend is not restarted.
THEOREM CountersAreExact == Spec => []CountersExact
  <1>1. IType /\ CleanInv => CountersExact
    <2> SUFFICES ASSUME IType, CleanInv, Clean, NEW r \in Run
                 PROVE  /\ row[r].processed = Cardinality(Processed(r))
                        /\ row[r].failed = Cardinality(Failed(r))
                        /\ row[r].processed + row[r].failed <= row[r].total
      BY DEF CountersExact
    <2>1. RunInv(r) /\ TypeOK /\ row[r].total \in Nat
      BY DEF CleanInv, IType, TypeOK, RunRow
    <2>2. CASE Fanned(r) = {}
      <3>1. Processed(r) = {} /\ Failed(r) = {}
        BY <2>2 DEF Fanned, Processed, Failed
      <3> QED BY <2>1, <3>1, FS_EmptySet DEF RunInv
    <2>3. CASE Fanned(r) /= {}
      <3>1. Landed(r) \subseteq queued[r] /\ IsFiniteSet(queued[r])
        BY <2>1, <2>3, JobSets DEF RunInv
      <3>2. Cardinality(Landed(r)) <= Cardinality(queued[r])
        BY <3>1, FS_Subset
      <3> QED BY <2>1, <2>3, <3>2, JobSets DEF RunInv
    <2> QED BY <2>2, <2>3
  <1> QED BY <1>1, TypeInit, TypeStep, CleanInit, CleanStep, PTL DEF Spec

\* As long as no statement fails and the backend is not restarted, a run is
\* reported succeeded or partial only when every ticket has landed, and partial
\* exactly when one of them failed.
THEOREM SettlementIsSound == Spec => [](Clean => SettledMeansLanded)
  <1>1. CleanInv => (Clean => SettledMeansLanded)
    BY DEF CleanInv, RunInv, SettledMeansLanded, Landed
  <1> QED BY <1>1, TypeInit, TypeStep, CleanInit, CleanStep, PTL DEF Spec

-----------------------------------------------------------------------------
(* Refinement of SyncRun *)

\* Steps that show nothing to a reader of statuses and landed tickets.
LEMMA Stutter ==
  ASSUME \A s \in Run : row'[s].status = row[s].status /\ tjob'[s] = tjob[s]
  PROVE  UNCHANGED SR!vars
  BY SameJobs DEF SR!vars

\* A step that changes one status and no job is seen as just that.
LEMMA StatusChange ==
  ASSUME NEW r \in Run, NEW x, row'[r].status = x,
         \A s \in Run \ {r} : row'[s].status = row[s].status,
         \A s \in Run : Fanned(s)' = Fanned(s) /\ Processed(s)' = Processed(s)
                          /\ Failed(s)' = Failed(s)
  PROVE  /\ [s \in Run |-> row[s].status]' = [[s \in Run |-> row[s].status] EXCEPT ![r] = x]
         /\ UNCHANGED <<[s \in Run |-> Fanned(s)], [s \in Run |-> Processed(s)],
                        [s \in Run |-> Failed(s)]>>
  OBVIOUS

\* The coordinator's steps as steps of SyncRun.
LEMMA CoordinatorRefines ==
  ASSUME IType, AtMostOneInFlight, \A s \in Run : RunInv(s), NEW r \in Run,
         CoordinatorStep(r) \/ ProviderFails(r)
  PROVE  [SR!Next]_(SR!vars)
  <1> USE DEF IType, TypeOK
  <1>i. RunInv(r) /\ row[r] \in RunRow
    OBVIOUS
  <1>g. ASSUME row'[r] = failRun(row[r]), row[r].status = "running",
               \A s \in Run \ {r} : row'[s] = row[s], tjob' = tjob
        PROVE  SR!GiveUp(r)
    <2>1. row'[r].status = "failed"
      BY <1>g, <1>i DEF failRun, RunRow
    <2> QED BY <1>g, <2>1, StatusChange, SameJobs DEF SR!GiveUp
  <1>1. CASE RunJobStart(r) \/ FetchEnd(r)
    BY <1>1, Stutter DEF RunJobStart, FetchEnd
  <1>2. CASE MarkRunning(r)
    <2>1. row[r].status = "queued"
      BY <1>2, <1>i DEF RunInv, MarkRunning
    <2>2. ~\E s \in Run \ {r} : Active(s)
      BY <2>1 DEF AtMostOneInFlight, Active
    <2>3. row'[r].status = "running" /\ (\A s \in Run \ {r} : row'[s] = row[s]) /\ tjob' = tjob
      BY <1>2, <1>i, <2>2 DEF MarkRunning, RunRow
    <2>4. SR!Begin(r)
      BY <2>1, <2>3, StatusChange, SameJobs DEF SR!Begin
    <2> QED BY <2>4 DEF SR!Next
  <1>3. CASE Connect(r)
    <2>1. CASE link = "mapped"
      BY <1>3, <2>1, Stutter DEF Connect
    <2>2. CASE link /= "mapped"
      <3>1. SR!GiveUp(r)
        BY <1>3, <2>2, <1>g, <1>i DEF Connect, RunInv
      <3> QED BY <3>1 DEF SR!Next
    <2> QED BY <2>1, <2>2
  <1>4. CASE FetchPage(r)
    <2>1. PICK n : row' = [row EXCEPT ![r] = setTotals(@, n)]
      BY <1>4 DEF FetchPage
    <2>2. tjob' = tjob /\ \A s \in Run : row'[s].status = row[s].status
      BY <1>4, <1>i, <2>1 DEF FetchPage, setTotals, RunRow
    <2> QED BY <2>2, Stutter
  <1>5. CASE SetTotals(r)
    <2> DEFINE rw == setTotals(row[r], Cardinality(queued[r]))
    <2>1. rw.status = row[r].status /\ rw.failed = row[r].failed /\ tjob' = tjob
          /\ rw \in RunRow
      BY <1>5, <1>i, JobSets, RowTypes, ZenonT(60) DEF setTotals, RunRow, SetTotals
    <2>2. row[r].status = "running" /\ Fanned(r) = {} /\ Processed(r) = {} /\ Failed(r) = {}
      BY <1>5, <1>i, JobSets, ZenonT(60) DEF RunInv, SetTotals, Landed
    <2> HIDE DEF rw
    <2>3. CASE queued[r] = {}
      <3>1. row' = [row EXCEPT ![r] = finishRun(rw, "empty")]
        BY <1>5, <2>3 DEF SetTotals, rw
      <3>2. row[r].failed = 0
        BY <1>i, <2>2, FS_EmptySet DEF RunInv
      <3>3. row'[r].status = "succeeded" /\ \A s \in Run \ {r} : row'[s] = row[s]
        BY <2>1, <2>2, <3>1, <3>2 DEF finishRun, RunRow
      <3>4. SR!Settle(r)
        BY <2>1, <2>2, <3>3, StatusChange, SameJobs DEF SR!Settle
      <3> QED BY <3>4 DEF SR!Next
    <2>4. CASE queued[r] /= {}
      <3>1. row' = [row EXCEPT ![r] = rw]
        BY <1>5, <2>4 DEF SetTotals, rw
      <3> QED BY <2>1, <3>1, Stutter
    <2> QED BY <2>3, <2>4
  <1>6. CASE EnqueueTicketJobs(r)
    <2>1. row' = row /\ row[r].status = "running" /\ Fanned(r) = {}
      BY <1>6, <1>i DEF EnqueueTicketJobs, RunInv
    <2>2. \A t \in Ticket : tjob[r][t].phase = "absent"
      BY <2>1 DEF Fanned
    <2>3. \A t \in Ticket : tjob'[r][t].phase = IF t \in queued[r] THEN "waiting" ELSE "absent"
      BY <1>6, <2>2 DEF EnqueueTicketJobs
    <2>4. Fanned(r)' = queued[r] /\ Processed(r)' = Processed(r) /\ Failed(r)' = Failed(r)
      BY <2>2, <2>3 DEF Fanned, Processed, Failed
    <2>5. \A s \in Run \ {r} : tjob'[s] = tjob[s]
      BY <1>6 DEF EnqueueTicketJobs
    <2>6. \A s \in Run \ {r} : Fanned(s)' = Fanned(s) /\ Processed(s)' = Processed(s)
                               /\ Failed(s)' = Failed(s)
      BY <2>5, SameJobs
    <2>7. SR!Find(r, queued[r])
      <3>1. [s \in Run |-> Fanned(s)]' = [[s \in Run |-> Fanned(s)] EXCEPT ![r] = queued[r]]
        BY <2>4, <2>6
      <3>2. /\ [s \in Run |-> Processed(s)]' = [s \in Run |-> Processed(s)]
            /\ [s \in Run |-> Failed(s)]' = [s \in Run |-> Failed(s)]
            /\ [s \in Run |-> row[s].status]' = [s \in Run |-> row[s].status]
        BY <2>1, <2>4, <2>6
      <3> QED BY <2>1, <3>1, <3>2 DEF SR!Find
    <2>8. queued[r] \in SUBSET Ticket
      OBVIOUS
    <2> QED BY <2>7, <2>8 DEF SR!Next
  <1>7. CASE NoteTruncation(r)
    <2>1. tjob' = tjob /\ \A s \in Run : row'[s].status = row[s].status
      BY <1>7, <1>i DEF NoteTruncation, RunRow
    <2> QED BY <2>1, Stutter
  <1>8. CASE ProviderFails(r)
    <2>1. SR!GiveUp(r)
      BY <1>8, <1>g, <1>i DEF ProviderFails, CatchFails, RunInv
    <2> QED BY <2>1 DEF SR!Next
  <1> QED BY <1>1, <1>2, <1>3, <1>4, <1>5, <1>6, <1>7, <1>8 DEF CoordinatorStep

\* The ticket jobs' steps as steps of SyncRun.
LEMMA TicketRefines ==
  ASSUME IType, \A s \in Run : RunInv(s), NEW r \in Run, NEW t \in Ticket,
         TicketStep(r, t)
  PROVE  [SR!Next]_(SR!vars)
  <1> USE DEF IType
  <1>i. RunInv(r) /\ row[r] \in RunRow /\ TypeOK
    BY DEF TypeOK
  \* Uncounted phases and settling: the job sets stay as they are.
  <1>s. ASSUME NEW p \in Phase, NEW q \in Phase, tjob[r][t].phase = q,
               \A s \in Run \ {r} : tjob'[s] = tjob[s],
               \A u \in Ticket : tjob'[r][u].phase = IF u = t THEN p ELSE tjob[r][u].phase,
               p /= "absent", q /= "absent", p \in Counted <=> q \in Counted,
               p \in FailCounted <=> q \in FailCounted
        PROVE  \A s \in Run : Fanned(s)' = Fanned(s) /\ Processed(s)' = Processed(s)
                              /\ Failed(s)' = Failed(s)
    BY <1>s DEF Fanned, Processed, Failed
  <1>1. ASSUME NEW p \in {"waiting", "build", "count", "exhausted"},
               \A s \in Run \ {r} : tjob'[s] = tjob[s],
               \A u \in Ticket : tjob'[r][u].phase = IF u = t THEN p ELSE tjob[r][u].phase,
               tjob[r][t].phase \in {"waiting", "build"}, UNCHANGED row
        PROVE  UNCHANGED SR!vars
    <2>1. \A s \in Run : Fanned(s)' = Fanned(s) /\ Processed(s)' = Processed(s)
                         /\ Failed(s)' = Failed(s)
      BY <1>1, <1>s
    <2> QED BY <1>1, <2>1 DEF SR!vars
  <1>2. ASSUME NEW p \in Counted \cup FailCounted,
               \A s \in Run \ {r} : tjob'[s] = tjob[s],
               \A u \in Ticket : tjob'[r][u].phase = IF u = t THEN p ELSE tjob[r][u].phase,
               tjob[r][t].phase \in {"count", "exhausted"},
               \A s \in Run : row'[s].status = row[s].status
        PROVE  SR!Land(r, t)
    <2>1. /\ Fanned(r)' = Fanned(r) /\ t \in Fanned(r) \ (Processed(r) \cup Failed(r))
          /\ Processed(r)' = IF p \in Counted THEN Processed(r) \cup {t} ELSE Processed(r)
          /\ Failed(r)' = IF p \in Counted THEN Failed(r) ELSE Failed(r) \cup {t}
      BY <1>2 DEF Fanned, Processed, Failed
    <2>2. \A s \in Run \ {r} : Fanned(s)' = Fanned(s) /\ Processed(s)' = Processed(s)
                               /\ Failed(s)' = Failed(s)
      BY <1>2, SameJobs
    <2>3. /\ [s \in Run |-> row[s].status]' = [s \in Run |-> row[s].status]
          /\ [s \in Run |-> Fanned(s)]' = [s \in Run |-> Fanned(s)]
      BY <1>2, <2>1, <2>2
    <2>4. CASE p \in Counted
      <3>1. /\ [s \in Run |-> Processed(s)]' =
                  [[s \in Run |-> Processed(s)] EXCEPT ![r] = Processed(r) \cup {t}]
            /\ [s \in Run |-> Failed(s)]' = [s \in Run |-> Failed(s)]
        BY <2>1, <2>2, <2>4
      <3> QED BY <2>1, <2>3, <3>1 DEF SR!Land
    <2>5. CASE p \notin Counted
      <3>1. /\ [s \in Run |-> Failed(s)]' =
                  [[s \in Run |-> Failed(s)] EXCEPT ![r] = Failed(r) \cup {t}]
            /\ [s \in Run |-> Processed(s)]' = [s \in Run |-> Processed(s)]
        BY <2>1, <2>2, <2>5
      <3> QED BY <2>1, <2>3, <3>1 DEF SR!Land
    <2> QED BY <2>4, <2>5
  <1>3. ASSUME NEW p, NEW q \in {"finish", "failfinish"},
               p = (IF q = "finish" THEN "completed" ELSE "failed"),
               \A s \in Run \ {r} : tjob'[s] = tjob[s],
               \A u \in Ticket : tjob'[r][u].phase = IF u = t THEN p ELSE tjob[r][u].phase,
               tjob[r][t].phase = q,
               row' = [row EXCEPT ![r] = finishRun(@, "none")]
        PROVE  [SR!Next]_(SR!vars)
    <2>1. \A s \in Run : Fanned(s)' = Fanned(s) /\ Processed(s)' = Processed(s)
                         /\ Failed(s)' = Failed(s)
      BY <1>3, <1>s
    <2>2. row'[r] = finishRun(row[r], "none") /\ \A s \in Run \ {r} : row'[s] = row[s]
      BY <1>3 DEF TypeOK
    <2>3. Landed(r) = queued[r] /\ Fanned(r) = queued[r] /\ (row[r].failed > 0 <=> Failed(r) /= {})
      BY <1>3, <1>i, JobSets DEF RunInv, Fanned
    <2>4. CASE row[r].status \in InFlight
      <3>1. row[r].status = "running"
        BY <1>3, <1>i, <2>4 DEF RunInv, Fanned
      <3>2. row'[r].status = IF Failed(r) = {} THEN "succeeded" ELSE "partial"
        BY <1>i, <2>2, <2>3, <2>4 DEF finishRun, RunRow
      <3>3. SR!Settle(r)
        BY <2>1, <2>2, <2>3, <3>1, <3>2, StatusChange DEF SR!Settle, Landed
      <3> QED BY <3>3 DEF SR!Next
    <2>5. CASE row[r].status \notin InFlight
      <3>1. \A s \in Run : row'[s] = row[s]
        BY <2>2, <2>5 DEF finishRun
      <3> QED BY <2>1, <3>1 DEF SR!vars
    <2> QED BY <2>4, <2>5
  <1>4. CASE TicketJobStart(r, t) \/ TicketBuild(r, t)
    BY <1>4, <1>1, PhaseChange DEF TicketJobStart, TicketBuild
  <1>5. CASE TicketBuildFails(r, t)
    BY <1>5, <1>1, PhaseChange DEF TicketBuildFails
  <1>6. ASSUME NEW i \in {0, 1}, NEW j \in {0, 1},
               row' = [row EXCEPT ![r] = recordTicketResult(@, i, j)]
        PROVE  \A s \in Run : row'[s].status = row[s].status
    BY <1>6, <1>i DEF recordTicketResult, RunRow, TypeOK
  <1>7. CASE CountProcessed(r, t)
    <2>1. PICK p \in {"finish", "completed"} : SetPhase(r, t, p)
      BY <1>7 DEF CountProcessed
    <2>2. SR!Land(r, t)
      BY <1>7, <2>1, <1>2, <1>6, PhaseChange DEF CountProcessed
    <2> QED BY <2>2 DEF SR!Next
  <1>8. CASE CountFailed(r, t)
    <2>1. PICK p \in {"failfinish", "failed"} : SetPhase(r, t, p)
      BY <1>8 DEF CountFailed
    <2>2. SR!Land(r, t)
      BY <1>8, <2>1, <1>2, <1>6, PhaseChange DEF CountFailed
    <2> QED BY <2>2 DEF SR!Next
  <1>9. CASE FinishProcessed(r, t)
    BY <1>9, <1>3, PhaseChange DEF FinishProcessed
  <1>10. CASE FinishFailed(r, t)
    BY <1>10, <1>3, PhaseChange DEF FinishFailed
  <1> QED BY <1>4, <1>5, <1>7, <1>8, <1>9, <1>10 DEF TicketStep

\* Coordinators, ticket jobs, retries and shared counters implement the promise
\* of SyncRun: at most one run in flight, every ticket landed once, a final
\* status that tells the truth.  Without crashes and failing statements.
THEOREM SyncImplementsSyncRun ==
  ASSUME MaxCrashes = 0, MaxFaults = 0
  PROVE  Spec => ImplementsSyncRun
  <1>1. Init => SR!Init
    BY DEF Init, NewRow, SR!Init, Fanned, Processed, Failed
  <1>2. IType => Clean
    BY DEF IType, TypeOK, Clean
  <1>3. IType /\ CleanInv /\ AtMostOneInFlight /\ [Next]_vars => [SR!Next]_(SR!vars)
    <2> SUFFICES ASSUME IType, CleanInv, AtMostOneInFlight, [Next]_vars
                 PROVE  [SR!Next]_(SR!vars)
      OBVIOUS
    <2>1. \A s \in Run : RunInv(s)
      BY <1>2 DEF CleanInv
    <2>2. ASSUME Fault \/ Crash PROVE FALSE
      BY <2>2 DEF Fault, Crash, IType, TypeOK
    <2>3. ASSUME NEW r \in Run, InsertRun(r) PROVE SR!Insert(r)
      <3>1. /\ row[r].status = "absent" /\ row'[r].status = "queued" /\ tjob' = tjob
            /\ \A s \in Run : row[s].status \notin InFlight
            /\ \A s \in Run \ {r} : row'[s] = row[s]
        BY <2>3 DEF InsertRun, NewRow, Active, IType, TypeOK
      <3> QED BY <3>1, StatusChange, SameJobs DEF SR!Insert, SR!InFlight
    <2>4. ASSUME NEW r \in Run, AddRunJob(r) \/ ResumeAdd(r) PROVE UNCHANGED SR!vars
      BY <2>4, Stutter DEF AddRunJob, ResumeAdd
    <2>5. ASSUME NEW r \in Run, ResumeReset(r) PROVE FALSE
      BY <2>1, <2>5 DEF ResumeReset, RunInv
    <2>6. CASE Disconnect \/ Unlink \/ Relink \/ UNCHANGED vars
      BY <2>6, Stutter DEF Disconnect, Unlink, Relink, vars
    <2> QED BY <2>1, <2>2, <2>3, <2>4, <2>5, <2>6, CoordinatorRefines, TicketRefines
            DEF Next, AddRunJobFails, CoordinatorFault, CoordinatorLost, TicketFault,
                OnFailedFault, ResumeFails, SR!Next
  <1>4. Init => AtMostOneInFlight
    BY DEF Init, NewRow, AtMostOneInFlight, Active
  <1> QED BY <1>1, <1>3, <1>4, TypeInit, TypeStep, CleanInit, CleanStep,
             OneInFlightStep, PTL DEF Spec, ImplementsSyncRun, SR!Spec

-----------------------------------------------------------------------------
(* No orphaned run *)

\* A coordinator is at work on a job that Redis holds; without it NoOrphanRun is
\* not inductive, since marking a run running puts it in flight.
OrphanInv ==
  /\ NoOrphanRun
  /\ \A r \in Run : pc[r] /= "idle" => runJob[r] /= "absent"

\* A step that keeps the jobs Redis holds, the requests, the sweep and the
\* coordinators, and puts no run in flight without one of the first three.
LEMMA OrphanFrame ==
  ASSUME IType, OrphanInv, faults' = 0 => faults = 0,
         \A r \in Run :
           /\ runJob[r] /= "absent" => runJob'[r] /= "absent"
           /\ pc'[r] /= "idle" => pc[r] /= "idle" \/ runJob'[r] /= "absent"
           /\ row'[r].status \in InFlight =>
                row[r].status \in InFlight \/ runJob'[r] /= "absent" \/ request'[r] = "add"
           /\ request[r] = "add" => request'[r] = "add" \/ runJob'[r] /= "absent" \/ faults' /= 0
           /\ boot[r] /= "none" => boot'[r] /= "none" \/ runJob'[r] /= "absent" \/ faults' /= 0
  PROVE  OrphanInv'
  BY DEF OrphanInv, NoOrphanRun, Active

\* Every step of a coordinator keeps it.
LEMMA OrphanCoordinator ==
  ASSUME IType, OrphanInv, NEW r \in Run,
         \/ CoordinatorStep(r) \/ ProviderFails(r) \/ CoordinatorFault(r)
         \/ CoordinatorLost(r)
  PROVE  OrphanInv'
  <1>0. row[r] \in RunRow /\ faults \in Nat /\ runJob \in [Run -> JobState] /\ pc \in [Run -> Step]
        /\ row \in [Run -> RunRow]
    BY SyncAssumption DEF IType, TypeOK
  <1>1. /\ UNCHANGED <<request, boot>>
        /\ faults' = 0 => faults = 0
        /\ \A s \in Run \ {r} : row'[s] = row[s] /\ pc'[s] = pc[s] /\ runJob'[s] = runJob[s]
    <2>1. UNCHANGED <<request, boot>>
      BY DEF CoordinatorStep, RunJobStart, MarkRunning, Connect, FetchPage, FetchEnd, SetTotals,
         EnqueueTicketJobs, NoteTruncation, ProviderFails, CoordinatorFault, CoordinatorLost,
         CatchFails, Return
    <2>2. faults' = faults \/ Fault
      BY DEF CoordinatorStep, RunJobStart, MarkRunning, Connect, FetchPage, FetchEnd, SetTotals,
         EnqueueTicketJobs, NoteTruncation, ProviderFails, CoordinatorFault, CoordinatorLost,
         CatchFails, Return
    <2>3. \A s \in Run \ {r} : row'[s] = row[s] /\ pc'[s] = pc[s] /\ runJob'[s] = runJob[s]
      BY <1>0, ZenonT(60) DEF CoordinatorStep, RunJobStart, MarkRunning, Connect, FetchPage, FetchEnd, SetTotals,
         EnqueueTicketJobs, NoteTruncation, ProviderFails, CoordinatorFault, CoordinatorLost,
         CatchFails, Return
    <2> QED BY <1>0, <2>1, <2>2, <2>3 DEF Fault
  <1>2. /\ runJob[r] /= "absent" => runJob'[r] /= "absent"
        /\ pc'[r] /= "idle" => pc[r] /= "idle" \/ runJob'[r] /= "absent"
    BY <1>0 DEF CoordinatorStep, RunJobStart, MarkRunning, Connect, FetchPage, FetchEnd, SetTotals,
       EnqueueTicketJobs, NoteTruncation, ProviderFails, CoordinatorFault, CoordinatorLost,
       CatchFails, Return
  <1>3. pc[r] /= "idle" => runJob'[r] /= "absent"
    BY <1>2 DEF OrphanInv
  <1>4. row'[r].status \in InFlight => row[r].status \in InFlight \/ runJob'[r] /= "absent"
    <2>1. pc[r] /= "idle" \/ row' = row
      BY DEF CoordinatorStep, RunJobStart, MarkRunning, Connect, FetchPage, FetchEnd, SetTotals,
         EnqueueTicketJobs, NoteTruncation, ProviderFails, CoordinatorFault, CoordinatorLost
    <2> QED BY <1>3, <2>1
  <1> QED BY <1>1, <1>2, <1>4, OrphanFrame

\* Every step keeps it: the boot sweep selects whatever a crash leaves in flight.
LEMMA OrphanStep == IType /\ OrphanInv /\ [Next]_vars => OrphanInv'
  <1> SUFFICES ASSUME IType, OrphanInv, [Next]_vars PROVE OrphanInv'
    OBVIOUS
  <1>0. /\ faults \in Nat /\ runJob \in [Run -> JobState] /\ row \in [Run -> RunRow]
        /\ pc \in [Run -> Step] /\ request \in [Run -> {"none", "add"}]
        /\ boot \in [Run -> {"none", "reset", "add"}]
    BY SyncAssumption DEF IType, TypeOK
  <1>1. ASSUME NEW r \in Run, InsertRun(r) PROVE OrphanInv'
    BY <1>0, <1>1, OrphanFrame DEF InsertRun
  <1>2. ASSUME NEW r \in Run, AddRunJob(r) PROVE OrphanInv'
    BY <1>0, <1>2, OrphanFrame DEF AddRunJob
  <1>3. ASSUME NEW r \in Run, AddRunJobFails(r) PROVE OrphanInv'
    BY <1>0, <1>3, OrphanFrame DEF AddRunJobFails, Fault
  <1>4. ASSUME NEW r \in Run, ResumeReset(r) PROVE OrphanInv'
    <2>1. \A s \in Run : row'[s].status = row[s].status
      <3>1. row[r] \in RunRow
        BY <1>0
      <3>2. [row[r] EXCEPT !.total = 0, !.processed = 0, !.failed = 0].status = row[r].status
        BY <3>1 DEF RunRow
      <3> QED BY <1>0, <1>4, <3>2 DEF ResumeReset
    <2>2. UNCHANGED <<runJob, pc, request, faults>> /\ \A s \in Run : boot[s] /= "none" => boot'[s] /= "none"
      BY <1>0, <1>4 DEF ResumeReset
    <2> QED BY <2>1, <2>2, OrphanFrame
  <1>5. ASSUME NEW r \in Run, ResumeAdd(r) PROVE OrphanInv'
    BY <1>0, <1>5, OrphanFrame DEF ResumeAdd
  <1>6. ASSUME NEW r \in Run, ResumeFails(r) PROVE OrphanInv'
    BY <1>0, <1>6, OrphanFrame DEF ResumeFails, Fault
  <1>7. ASSUME NEW r \in Run, NEW t \in Ticket, TicketStep(r, t) \/ TicketFault(r, t) \/ OnFailedFault(r, t)
        PROVE  OrphanInv'
    <2>1. UNCHANGED <<runJob, pc, request, boot>> /\ (faults' = 0 => faults = 0)
      BY <1>0, <1>7 DEF TicketStep, TicketJobStart, TicketBuild, TicketBuildFails, CountProcessed,
         FinishProcessed, CountFailed, FinishFailed, TicketFault, OnFailedFault, Fault
    <2>2. \/ row' = row
          \/ \E i, j \in {0, 1} : row' = [row EXCEPT ![r] = recordTicketResult(@, i, j)]
          \/ row' = [row EXCEPT ![r] = finishRun(@, "none")]
      BY <1>7 DEF TicketStep, TicketJobStart, TicketBuild, TicketBuildFails, CountProcessed,
         FinishProcessed, CountFailed, FinishFailed, TicketFault, OnFailedFault
    <2>3. row[r] \in RunRow
      BY <1>0
    <2>4. /\ \A i, j \in {0, 1} : recordTicketResult(row[r], i, j).status = row[r].status
          /\ finishRun(row[r], "none").status \in InFlight => row[r].status \in InFlight
      BY <2>3 DEF recordTicketResult, finishRun, RunRow
    <2>5. \A s \in Run : row'[s].status \in InFlight => row[s].status \in InFlight
      BY <1>0, <2>2, <2>4
    <2> QED BY <2>1, <2>5, OrphanFrame
  <1>8. CASE Disconnect
    <2>1. \A s \in Run : pc'[s] /= "idle" => pc[s] /= "idle"
      BY <1>0, <1>8 DEF Disconnect
    <2> QED BY <1>8, <2>1, OrphanFrame DEF Disconnect
  <1>9. CASE Unlink \/ Relink \/ UNCHANGED vars
    BY <1>9, OrphanFrame DEF Unlink, Relink, vars
  <1>10. CASE Crash
    <2>1. \A r \in Run : /\ row'[r] = row[r] /\ pc'[r] = "idle"
                         /\ Active(r) => boot'[r] = "reset"
      BY <1>10 DEF Crash
    <2> QED BY <2>1 DEF OrphanInv, NoOrphanRun, Active
  <1> QED BY <1>1, <1>2, <1>3, <1>4, <1>5, <1>6, <1>7, <1>8, <1>9, <1>10, OrphanCoordinator
          DEF Next

\* As long as no call fails, a run in flight has its coordinator job in Redis,
\* or the request that adds it, or the boot sweep, still at work: a crash
\* between startRun's INSERT and its queue.add is repaired at boot.
THEOREM NoRunIsOrphaned == Spec => []NoOrphanRun
  <1>1. Init => OrphanInv
    BY DEF Init, NewRow, OrphanInv, NoOrphanRun, Active
  <1>2. OrphanInv => NoOrphanRun
    BY DEF OrphanInv
  <1> QED BY <1>1, <1>2, TypeInit, TypeStep, OrphanStep, PTL DEF Spec

-----------------------------------------------------------------------------
(* Settlement with failing statements *)

\* From the fan-out on: some ticket has not been counted, and every count is
\* that of one job.
Counting(r) ==
  /\ row[r].processed + row[r].failed < row[r].total
  /\ row[r].processed = Cardinality(Processed(r))
  /\ row[r].failed <= Cardinality(Failed(r))
  /\ \A t \in Ticket : tjob[r][t].phase \notin {"finish", "failfinish"}
  /\ row[r].status \notin {"succeeded", "partial"}

\* ... or the job a was told "you are the last".  A failing statement can make
\* it count again, or end uncounted; all the others have ended.
Last(r, a) ==
  /\ row[r].processed + row[r].failed >= row[r].total
  /\ \A t \in queued[r] \ {a} : tjob[r][t].phase \in {"completed", "failed"}
  /\ tjob[r][a].phase \notin FailCounted => (row[r].failed > 0 <=> Failed(r) /= {})
  /\ tjob[r][a].phase = "failfinish" => row[r].failed > 0
  /\ row[r].status \in {"succeeded", "partial"} =>
       /\ tjob[r][a].phase \in {"completed", "failed"}
       /\ row[r].status = "partial" <=> Failed(r) /= {}

LandInv(r) == Counting(r) \/ \E a \in queued[r] : Last(r, a)

\* RunInv without the promise that no statement failed.
LiveInv(r) ==
  /\ boot[r] = "none"
  /\ pc[r] /= "idle" <=> runJob[r] = "active"
  /\ request[r] = "add" => runJob[r] = "absent" /\ row[r].status = "queued"
  /\ row[r].status = "absent" => runJob[r] = "absent"
  /\ runJob[r] \in {"absent", "waiting"} \/ pc[r] = "mark" =>
       row[r].status \in {"absent", "queued"} /\ Fanned(r) = {} /\ queued[r] = {}
  /\ pc[r] \in {"connect", "fetch", "stale", "totals", "fanout"} =>
       row[r].status = "running" /\ Fanned(r) = {}
  /\ pc[r] = "fanout" =>
       queued[r] /= {} /\ row[r].total = Cardinality(queued[r])
  /\ pc[r] = "note" => Fanned(r) /= {}
  /\ Fanned(r) = {} =>
       /\ row[r].processed = 0 /\ row[r].failed = 0
       /\ row[r].status /= "partial"
       /\ row[r].status = "succeeded" => queued[r] = {}
  /\ Fanned(r) /= {} =>
       Fanned(r) = queued[r] /\ row[r].total = Cardinality(queued[r]) /\ LandInv(r)

CrashFreeInv == crashes = 0 => \A r \in Run : LiveInv(r)

\* A run that a step leaves alone keeps its invariant.
LEMMA LiveFrame ==
  ASSUME NEW r \in Run, LiveInv(r), boot'[r] = boot[r], pc'[r] = pc[r],
         runJob'[r] = runJob[r], request'[r] = request[r], row'[r] = row[r],
         queued'[r] = queued[r], tjob'[r] = tjob[r]
  PROVE  LiveInv(r)'
  BY DEF LiveInv, LandInv, Counting, Last, Fanned, Processed, Failed

\* A step that moves no ticket job keeps LandInv, whatever it does to the run's
\* error, and whether or not it fails the run.
LEMMA LandSame ==
  ASSUME NEW r \in Run, LandInv(r), tjob'[r] = tjob[r], queued'[r] = queued[r],
         row'[r].total = row[r].total, row'[r].processed = row[r].processed,
         row'[r].failed = row[r].failed,
         row'[r].status = row[r].status \/ row'[r].status = "failed"
  PROVE  LandInv(r)'
  <1>1. Processed(r)' = Processed(r) /\ Failed(r)' = Failed(r)
    BY SameJobs
  <1> QED BY <1>1 DEF LandInv, Counting, Last

\* The requests and the boot sweep.
LEMMA OutsideLive ==
  ASSUME IType, NEW r \in Run, \A s \in Run : LiveInv(s),
         \/ InsertRun(r) \/ AddRunJob(r) \/ AddRunJobFails(r)
         \/ ResumeReset(r) \/ ResumeAdd(r) \/ ResumeFails(r)
  PROVE  \A s \in Run : LiveInv(s)'
  <1> USE DEF IType, TypeOK
  <1>0. SUFFICES LiveInv(r)'
    <2> SUFFICES ASSUME NEW s \in Run \ {r} PROVE LiveInv(s)'
      BY <1>0
    <2> QED BY LiveFrame DEF InsertRun, AddRunJob, AddRunJobFails, ResumeReset, ResumeAdd, ResumeFails
  <1>i. LiveInv(r)
    OBVIOUS
  <1>1. CASE InsertRun(r)
    <2>1. Fanned(r) = {} /\ runJob[r] = "absent" /\ queued[r] = {}
      BY <1>1, <1>i DEF LiveInv, InsertRun
    <2>2. /\ row'[r] = NewRow /\ tjob'[r] = tjob[r] /\ request'[r] = "add"
          /\ pc'[r] = pc[r] /\ boot'[r] = boot[r] /\ runJob'[r] = runJob[r]
          /\ queued'[r] = queued[r]
      BY <1>1 DEF InsertRun
    <2>3. Fanned(r)' = {}
      BY <2>1, <2>2, SameJobs
    <2> QED BY <1>i, <2>1, <2>2, <2>3 DEF LiveInv, NewRow
  <1>2. CASE AddRunJob(r) \/ AddRunJobFails(r)
    <2>1. /\ row'[r] = row[r] /\ tjob'[r] = tjob[r] /\ request'[r] = "none"
          /\ pc'[r] = pc[r] /\ boot'[r] = boot[r] /\ queued'[r] = queued[r]
          /\ request[r] = "add" /\ runJob'[r] \in {"waiting", runJob[r]}
          /\ runJob'[r] = "waiting" => runJob[r] \in {"absent", "waiting"}
      BY <1>2 DEF AddRunJob, AddRunJobFails
    <2>2. Fanned(r)' = Fanned(r) /\ runJob[r] = "absent" /\ row[r].status = "queued" /\ Fanned(r) = {}
      BY <1>i, <2>1, SameJobs DEF LiveInv
    <2> QED BY <1>i, <2>1, <2>2 DEF LiveInv
  <1>3. CASE ResumeReset(r) \/ ResumeAdd(r) \/ ResumeFails(r)
    BY <1>i, <1>3 DEF LiveInv, ResumeReset, ResumeAdd, ResumeFails
  <1> QED BY <1>1, <1>2, <1>3

\* The coordinator, and its failures.
LEMMA CoordinatorLive ==
  ASSUME IType, NEW r \in Run, \A s \in Run : LiveInv(s),
         \/ CoordinatorStep(r) \/ ProviderFails(r) \/ CoordinatorFault(r)
         \/ CoordinatorLost(r)
  PROVE  \A s \in Run : LiveInv(s)'
  <1> USE DEF IType, TypeOK
  <1>0. SUFFICES LiveInv(r)'
    <2> SUFFICES ASSUME NEW s \in Run \ {r} PROVE LiveInv(s)'
      BY <1>0
    <2>1. /\ boot'[s] = boot[s] /\ pc'[s] = pc[s] /\ runJob'[s] = runJob[s]
          /\ request'[s] = request[s] /\ row'[s] = row[s]
          /\ queued'[s] = queued[s] /\ tjob'[s] = tjob[s]
      BY ZenonT(60) DEF CoordinatorStep, RunJobStart, MarkRunning, Connect, FetchPage,
             FetchEnd, SetTotals, EnqueueTicketJobs, NoteTruncation,
             ProviderFails, CoordinatorFault, CoordinatorLost, CatchFails, Return
    <2> QED BY <2>1, LiveFrame
  <1>i. LiveInv(r) /\ row[r] \in RunRow
    OBVIOUS
  <1>j. failRun(row[r]).processed = row[r].processed /\ failRun(row[r]).failed = row[r].failed
        /\ failRun(row[r]).total = row[r].total
        /\ (row[r].status \in InFlight => failRun(row[r]).status = "failed")
        /\ (row[r].status \notin InFlight => failRun(row[r]) = row[r])
    BY DEF failRun, RunRow
  \* The coordinator ends, with the run failed or as it was.
  <1>e. ASSUME tjob'[r] = tjob[r], boot'[r] = boot[r], request'[r] = request[r],
               queued'[r] = queued[r], pc'[r] = "idle", runJob'[r] = "completed",
               pc[r] /= "idle",
               row'[r].total = row[r].total, row'[r].processed = row[r].processed,
               row'[r].failed = row[r].failed,
               row'[r].status = row[r].status \/ row'[r].status = "failed"
        PROVE  LiveInv(r)'
    <2>1. Fanned(r)' = Fanned(r) /\ runJob[r] = "active" /\ request[r] /= "add" /\ row[r].status /= "absent"
      BY <1>e, <1>i, SameJobs DEF LiveInv
    <2>2. CASE Fanned(r) = {}
      BY <1>e, <1>i, <2>1, <2>2 DEF LiveInv
    <2>3. CASE Fanned(r) /= {}
      <3>1. LandInv(r)'
        BY <1>e, <1>i, <2>3, LandSame DEF LiveInv
      <3> QED BY <1>e, <1>i, <2>1, <2>3, <3>1 DEF LiveInv
    <2> QED BY <2>2, <2>3
  <1>c. ASSUME CatchFails(r), pc[r] /= "idle" PROVE LiveInv(r)'
    <2>1. tjob'[r] = tjob[r] /\ row'[r] = failRun(row[r]) /\ pc'[r] = "idle"
          /\ runJob'[r] = "completed" /\ boot'[r] = boot[r] /\ request'[r] = request[r]
          /\ queued'[r] = queued[r]
      BY <1>c DEF CatchFails, Return
    <2> QED BY <1>c, <1>e, <1>j, <2>1
  \* The run goes on, before the fan-out.
  <1>g. ASSUME tjob'[r] = tjob[r], boot'[r] = boot[r], request'[r] = request[r],
               runJob'[r] = runJob[r], pc[r] \in {"mark", "connect", "fetch", "stale", "totals"},
               pc'[r] \in {"connect", "fetch", "totals", "fanout"},
               pc'[r] = "fanout" => queued'[r] /= {} /\ row'[r].total = Cardinality(queued'[r]),
               row'[r].status = "running", row'[r].processed = row[r].processed,
               row'[r].failed = row[r].failed
        PROVE  LiveInv(r)'
    <2>1. Fanned(r)' = {} /\ Fanned(r) = {} /\ runJob[r] = "active" /\ request[r] /= "add"
      BY <1>g, <1>i, SameJobs DEF LiveInv
    <2> QED BY <1>g, <1>i, <2>1 DEF LiveInv
  <1>1. CASE RunJobStart(r)
    <2>1. tjob'[r] = tjob[r] /\ row'[r] = row[r] /\ pc'[r] = "mark" /\ boot'[r] = boot[r]
          /\ runJob'[r] = "active" /\ request'[r] = request[r] /\ queued'[r] = {}
          /\ runJob[r] = "waiting"
      BY <1>1 DEF RunJobStart
    <2> QED BY <1>i, <2>1, SameJobs DEF LiveInv
  <1>2. CASE MarkRunning(r)
    <2>1. CASE \E s \in Run \ {r} : Active(s)
      BY <1>2, <2>1, <1>c DEF MarkRunning
    <2>2. CASE ~\E s \in Run \ {r} : Active(s)
      <3> DEFINE rw == [row[r] EXCEPT !.status = "running"]
      <3>1. tjob'[r] = tjob[r] /\ row'[r] = rw /\ pc'[r] = "connect" /\ boot'[r] = boot[r]
            /\ runJob'[r] = runJob[r] /\ request'[r] = request[r] /\ pc[r] = "mark"
        BY <1>2, <2>2 DEF MarkRunning
      <3>2. rw.status = "running" /\ rw.processed = row[r].processed /\ rw.failed = row[r].failed
        BY <1>i DEF RunRow
      <3> HIDE DEF rw
      <3> QED BY <1>g, <3>1, <3>2
    <2> QED BY <2>1, <2>2
  <1>3. CASE Connect(r)
    <2>1. tjob'[r] = tjob[r] /\ boot'[r] = boot[r] /\ request'[r] = request[r]
          /\ queued'[r] = queued[r] /\ pc[r] = "connect"
      BY <1>3 DEF Connect
    <2>2. CASE link = "mapped"
      <3>1. pc'[r] = "fetch" /\ row'[r] = row[r] /\ runJob'[r] = runJob[r]
        BY <1>3, <2>2 DEF Connect
      <3>2. row[r].status = "running"
        BY <1>i, <2>1 DEF LiveInv
      <3> QED BY <1>g, <2>1, <3>1, <3>2
    <2>3. CASE link /= "mapped"
      <3>1. pc'[r] = "idle" /\ row'[r] = failRun(row[r]) /\ runJob'[r] = "completed"
        BY <1>3, <2>3 DEF Connect, Return
      <3> QED BY <1>e, <1>j, <2>1, <3>1
    <2> QED BY <2>2, <2>3
  <1>4. CASE FetchPage(r)
    <2>1. PICK n : row' = [row EXCEPT ![r] = setTotals(@, n)]
      BY <1>4 DEF FetchPage
    <2>2. row'[r].status = row[r].status /\ row'[r].processed = row[r].processed
          /\ row'[r].failed = row[r].failed
      BY <1>i, <2>1 DEF setTotals, RunRow
    <2>3. tjob'[r] = tjob[r] /\ boot'[r] = boot[r] /\ request'[r] = request[r]
          /\ runJob'[r] = runJob[r] /\ pc'[r] \in {"fetch", "totals"} /\ pc[r] = "fetch"
      BY <1>4 DEF FetchPage
    <2>4. row[r].status = "running"
      BY <1>i, <2>3 DEF LiveInv
    <2> QED BY <1>g, <2>2, <2>3, <2>4
  <1>5. CASE FetchEnd(r)
    <2>1. tjob'[r] = tjob[r] /\ row'[r] = row[r] /\ pc'[r] = "totals" /\ boot'[r] = boot[r]
          /\ runJob'[r] = runJob[r] /\ request'[r] = request[r] /\ pc[r] \in {"fetch", "stale"}
      BY <1>5 DEF FetchEnd
    <2>2. row[r].status = "running"
      BY <1>i, <2>1 DEF LiveInv
    <2> QED BY <1>g, <2>1, <2>2
  <1>6. CASE SetTotals(r)
    <2> DEFINE rw == setTotals(row[r], Cardinality(queued[r]))
    <2>1. rw.status = row[r].status /\ rw.processed = row[r].processed
          /\ rw.failed = row[r].failed /\ rw.total = Cardinality(queued[r])
          /\ rw \in RunRow
      BY <1>i, JobSets, RowTypes, ZenonT(60) DEF setTotals, RunRow
    <2>2. tjob'[r] = tjob[r] /\ boot'[r] = boot[r] /\ request'[r] = request[r]
          /\ queued'[r] = queued[r] /\ pc[r] = "totals"
      BY <1>6 DEF SetTotals
    <2>3. Fanned(r) = {} /\ row[r].status = "running" /\ row[r].failed = 0 /\ row[r].processed = 0
          /\ runJob[r] = "active" /\ request[r] /= "add"
      BY <1>i, <2>2 DEF LiveInv
    <2> HIDE DEF rw
    <2>4. CASE queued[r] = {}
      <3>1. row'[r] = finishRun(rw, "empty") /\ pc'[r] = "idle" /\ runJob'[r] = "completed"
        BY <1>6, <2>4 DEF SetTotals, Return, rw
      <3>2. row'[r].status = "succeeded" /\ row'[r].processed = 0 /\ row'[r].failed = 0
        BY <2>1, <2>3, <3>1 DEF finishRun, RunRow
      <3>3. Fanned(r)' = {}
        BY <2>2, <2>3, SameJobs
      <3> QED BY <1>i, <2>2, <2>3, <2>4, <3>1, <3>2, <3>3 DEF LiveInv
    <2>5. CASE queued[r] /= {}
      <3>1. row'[r] = rw /\ pc'[r] = "fanout" /\ runJob'[r] = runJob[r]
        BY <1>6, <2>5 DEF SetTotals, rw
      <3> QED BY <1>g, <2>1, <2>2, <2>3, <2>5, <3>1
    <2> QED BY <2>4, <2>5
  <1>7. CASE EnqueueTicketJobs(r)
    <2>1. row'[r] = row[r] /\ boot'[r] = boot[r] /\ request'[r] = request[r]
          /\ queued'[r] = queued[r] /\ pc[r] = "fanout"
      BY <1>7 DEF EnqueueTicketJobs
    <2>2. /\ row[r].status = "running" /\ queued[r] /= {} /\ boot[r] = "none"
          /\ row[r].total = Cardinality(queued[r]) /\ runJob[r] = "active"
          /\ row[r].processed = 0 /\ row[r].failed = 0 /\ Fanned(r) = {}
          /\ request[r] /= "add"
      BY <1>i, <2>1 DEF LiveInv
    <2>3. \A t \in Ticket : tjob[r][t].phase = "absent"
      BY <2>2 DEF Fanned
    <2>4. \A t \in Ticket : tjob'[r][t].phase = IF t \in queued[r] THEN "waiting" ELSE "absent"
      BY <1>7, <2>3 DEF EnqueueTicketJobs
    <2>5. Fanned(r)' = queued[r] /\ Processed(r)' = {} /\ Failed(r)' = {}
      BY <2>4 DEF Fanned, Processed, Failed
    <2>6. \/ pc'[r] = "note" /\ runJob'[r] = runJob[r]
          \/ pc'[r] = "idle" /\ runJob'[r] = "completed"
      BY <1>7 DEF EnqueueTicketJobs, Return
    <2>7. Cardinality({}) = 0 /\ Cardinality(queued[r]) \in Nat /\ Cardinality(queued[r]) /= 0
      BY <2>2, JobSets, FS_EmptySet
    <2>8. LandInv(r)'
      <3>1. /\ row'[r].processed = 0 /\ row'[r].failed = 0 /\ row'[r].status = "running"
            /\ row'[r].processed + row'[r].failed < row'[r].total
        BY <2>1, <2>2, <2>7
      <3>2. Cardinality(Processed(r)') = 0 /\ Cardinality(Failed(r)') = 0
        BY <2>5, <2>7
      <3>3. \A t \in Ticket : tjob'[r][t].phase \notin {"finish", "failfinish"}
        BY <2>4
      <3> QED BY <3>1, <3>2, <3>3 DEF LandInv, Counting
    <2> QED BY <2>1, <2>2, <2>5, <2>6, <2>8 DEF LiveInv
  <1>8. CASE NoteTruncation(r)
    <2>1. tjob'[r] = tjob[r] /\ boot'[r] = boot[r] /\ request'[r] = request[r]
          /\ queued'[r] = queued[r] /\ pc'[r] = "idle" /\ runJob'[r] = "completed"
          /\ row'[r] = [row[r] EXCEPT !.error = "limit"] /\ pc[r] = "note"
      BY <1>8 DEF NoteTruncation, Return
    <2>2. row'[r].status = row[r].status /\ row'[r].processed = row[r].processed
          /\ row'[r].failed = row[r].failed /\ row'[r].total = row[r].total
      BY <1>i, <2>1 DEF RunRow
    <2> QED BY <1>e, <2>1, <2>2
  <1>9. CASE ProviderFails(r) \/ CoordinatorFault(r)
    BY <1>9, <1>c DEF ProviderFails, CoordinatorFault
  <1>10. CASE CoordinatorLost(r)
    <2>1. tjob'[r] = tjob[r] /\ boot'[r] = boot[r] /\ request'[r] = request[r]
          /\ queued'[r] = queued[r] /\ pc'[r] = "idle" /\ runJob'[r] = "completed"
          /\ row'[r] = row[r] /\ pc[r] /= "idle"
      BY <1>10 DEF CoordinatorLost, Return
    <2> QED BY <1>e, <2>1
  <1> QED BY <1>1, <1>2, <1>3, <1>4, <1>5, <1>6, <1>7, <1>8, <1>9, <1>10 DEF CoordinatorStep

\* Only the last job is still at work, once the counters have reached the total.
LEMMA LastIsAtWork ==
  ASSUME TypeOK, NEW r \in Run, NEW t \in queued[r], NEW a \in queued[r], Last(r, a),
         tjob[r][t].phase \notin {"completed", "failed"}
  PROVE  t = a /\ row[r].status \notin {"succeeded", "partial"}
  BY DEF Last

\* A ticket job moves between two phases that count nothing, or starts over
\* after the statement that settles the run failed.
LEMMA LandMove ==
  ASSUME TypeOK, NEW r \in Run, NEW t \in queued[r], LandInv(r),
         NEW p \in {"waiting", "build", "count", "exhausted"},
         tjob[r][t].phase \in Working \cup {"waiting"},
         \A u \in Ticket : tjob'[r][u].phase = IF u = t THEN p ELSE tjob[r][u].phase,
         row'[r] = row[r], queued'[r] = queued[r]
  PROVE  LandInv(r)'
  <1>0. queued[r] \subseteq Ticket
    BY DEF TypeOK
  <1>1. Failed(r)' = Failed(r)
    BY DEF Failed
  <1>2. CASE Counting(r)
    <2>1. Processed(r)' = Processed(r)
      BY <1>0, <1>2 DEF Processed, Counting
    <2> QED BY <1>1, <1>2, <2>1 DEF LandInv, Counting
  <1>3. ASSUME NEW a \in queued[r], Last(r, a) PROVE Last(r, a)'
    <2>1. t = a /\ row[r].status \notin {"succeeded", "partial"}
      BY <1>3, LastIsAtWork
    <2> QED BY <1>0, <1>1, <1>3, <2>1 DEF Last
  <1> QED BY <1>2, <1>3 DEF LandInv

\* A ticket job counts its ticket, as processed (i = 1) or as failed (j = 1).
LEMMA LandCount ==
  ASSUME TypeOK, NEW r \in Run, NEW t \in queued[r], LandInv(r),
         Fanned(r) = queued[r], row[r].total = Cardinality(queued[r]),
         NEW i \in {0, 1}, NEW j \in {0, 1}, i + j = 1, NEW p,
         p = IF Complete(row'[r]) THEN (IF i = 1 THEN "finish" ELSE "failfinish")
             ELSE (IF i = 1 THEN "completed" ELSE "failed"),
         tjob[r][t].phase \in {"count", "exhausted"},
         \A u \in Ticket : tjob'[r][u].phase = IF u = t THEN p ELSE tjob[r][u].phase,
         row'[r] = recordTicketResult(row[r], i, j), queued'[r] = queued[r]
  PROVE  LandInv(r)'
  <1>0. queued[r] \subseteq Ticket /\ row[r] \in RunRow
    BY DEF TypeOK
  <1>1. /\ row'[r].processed = row[r].processed + i
        /\ row'[r].failed = row[r].failed + j
        /\ row'[r].status = row[r].status /\ row'[r].total = row[r].total
        /\ row[r].processed \in Nat /\ row[r].failed \in Nat /\ row[r].total \in Nat
    BY <1>0 DEF recordTicketResult, RunRow
  <1>2. /\ Processed(r)' = IF i = 1 THEN Processed(r) \cup {t} ELSE Processed(r)
        /\ Failed(r)' = IF i = 1 THEN Failed(r) ELSE Failed(r) \cup {t}
        /\ t \notin Processed(r) /\ t \notin Failed(r)
    BY <1>0 DEF Processed, Failed
  <1>3. CASE Counting(r)
    <2>1. /\ IsFiniteSet(Processed(r)) /\ IsFiniteSet(Failed(r)) /\ IsFiniteSet(queued[r])
          /\ Landed(r) \subseteq Fanned(r) /\ Processed(r) \cap Failed(r) = {}
          /\ Cardinality(Processed(r)) \in Nat /\ Cardinality(Failed(r)) \in Nat
      BY JobSets
    <2>2. /\ Cardinality(Processed(r) \cup {t}) = Cardinality(Processed(r)) + 1
          /\ Cardinality(Failed(r) \cup {t}) = Cardinality(Failed(r)) + 1
          /\ IsFiniteSet(Processed(r) \cup {t}) /\ IsFiniteSet(Failed(r) \cup {t})
      BY <1>2, <2>1, FS_AddElement
    <2>3. /\ row'[r].processed = Cardinality(Processed(r)')
          /\ row'[r].failed <= Cardinality(Failed(r)')
          /\ Cardinality(Failed(r)') \in Nat
      <3>0. row[r].processed = Cardinality(Processed(r)) /\ row[r].failed <= Cardinality(Failed(r))
        BY <1>3 DEF Counting
      <3>1. CASE i = 1
        BY <1>1, <1>2, <2>1, <2>2, <3>0, <3>1
      <3>2. CASE i = 0
        BY <1>1, <1>2, <2>1, <2>2, <3>0, <3>2
      <3> QED BY <3>1, <3>2
    <2>4. row'[r].status \notin {"succeeded", "partial"}
      BY <1>1, <1>3 DEF Counting
    <2>5. CASE ~Complete(row'[r])
      <3>1. \A u \in Ticket : tjob'[r][u].phase \notin {"finish", "failfinish"}
        BY <1>3, <2>5 DEF Counting
      <3>2. row'[r].processed + row'[r].failed < row'[r].total
        BY <1>1, <2>5 DEF Complete
      <3> QED BY <2>3, <2>4, <3>1, <3>2 DEF LandInv, Counting
    <2>6. CASE Complete(row'[r])
      <3>1. Processed(r)' \cup Failed(r)' \subseteq queued[r] /\ Processed(r)' \cap Failed(r)' = {}
        BY <1>2, <2>1 DEF Landed
      <3>2. row'[r].processed + row'[r].failed >= Cardinality(queued[r])
        BY <1>1, <2>6 DEF Complete
      <3>3. Processed(r)' \cup Failed(r)' = queued[r]
        <4>1. Cardinality(Processed(r)') + Cardinality(Failed(r)') >= Cardinality(queued[r])
          BY <1>1, <2>3, <3>2
        <4> QED BY <2>1, <3>1, <4>1, LastIsLast
      <3>4. row'[r].failed = Cardinality(Failed(r)')
        <4>1. IsFiniteSet(Processed(r)') /\ IsFiniteSet(Failed(r)')
          BY <2>1, <3>1, FS_Subset
        <4>2. Cardinality(queued[r]) = Cardinality(Processed(r)') + Cardinality(Failed(r)')
                                        - Cardinality(Processed(r)' \cap Failed(r)')
          BY <3>3, <4>1, FS_Union
        <4>3. Cardinality(Processed(r)' \cap Failed(r)') = 0
          BY <3>1, FS_EmptySet
        <4> QED BY <1>1, <2>3, <3>2, <4>2, <4>3
      <3>5. row'[r].failed > 0 <=> Failed(r)' /= {}
        <4>1. IsFiniteSet(Failed(r)')
          BY <2>1, <3>1, FS_Subset
        <4> QED BY <2>3, <3>4, <4>1, FS_EmptySet
      <3>6. \A u \in queued[r] \ {t} : tjob'[r][u].phase \in {"completed", "failed"}
        <4> SUFFICES ASSUME NEW u \in queued[r] \ {t} PROVE tjob[r][u].phase \in {"completed", "failed"}
          BY <1>0
        <4>1. u \in Processed(r) \cup Failed(r)
          BY <1>2, <3>3
        <4> QED BY <1>3, <4>1 DEF Processed, Failed, Counting
      <3>7. tjob'[r][t].phase = "failfinish" => row'[r].failed > 0
        BY <1>0, <1>1, <2>6
      <3> QED BY <1>1, <2>4, <2>6, <3>5, <3>6, <3>7 DEF LandInv, Last, Complete
    <2> QED BY <2>5, <2>6
  <1>4. ASSUME NEW a \in queued[r], Last(r, a) PROVE Last(r, a)'
    <2>1. t = a /\ row[r].status \notin {"succeeded", "partial"}
      BY <1>4, LastIsAtWork
    <2>2. row'[r].processed + row'[r].failed >= row'[r].total
      BY <1>1, <1>4 DEF Last
    <2>3. \A u \in queued'[r] \ {a} : tjob'[r][u].phase \in {"completed", "failed"}
      BY <1>0, <1>4, <2>1 DEF Last
    <2>4. CASE i = 1
      <3>1. row'[r].failed = row[r].failed /\ Failed(r)' = Failed(r) /\ tjob'[r][a].phase \notin FailCounted
        BY <1>0, <1>1, <1>2, <2>1, <2>4
      <3>2. row[r].failed > 0 <=> Failed(r) /= {}
        BY <1>4, <2>1 DEF Last
      <3> QED BY <1>1, <2>1, <2>2, <2>3, <3>1, <3>2 DEF Last
    <2>5. CASE i = 0
      <3>1. row'[r].failed > 0 /\ tjob'[r][a].phase \in FailCounted
        BY <1>0, <1>1, <2>1, <2>5
      <3> QED BY <1>1, <2>1, <2>2, <2>3, <3>1 DEF Last
    <2> QED BY <2>4, <2>5
  <1> QED BY <1>3, <1>4 DEF LandInv

\* The job that was told "you are the last" settles the run.
LEMMA LandFinish ==
  ASSUME TypeOK, NEW r \in Run, NEW t \in queued[r], LandInv(r),
         NEW q \in {"finish", "failfinish"}, tjob[r][t].phase = q,
         \A u \in Ticket : tjob'[r][u].phase =
           IF u = t THEN (IF q = "finish" THEN "completed" ELSE "failed") ELSE tjob[r][u].phase,
         row'[r] = finishRun(row[r], "none"), queued'[r] = queued[r]
  PROVE  LandInv(r)'
  <1>0. queued[r] \subseteq Ticket /\ row[r] \in RunRow
    BY DEF TypeOK
  <1>1. ~Counting(r)
    BY <1>0 DEF Counting
  <1>2. PICK a \in queued[r] : Last(r, a)
    BY <1>1 DEF LandInv
  <1>3. t = a /\ row[r].status \notin {"succeeded", "partial"}
    BY <1>2, LastIsAtWork
  <1>4. Failed(r)' = Failed(r) /\ (q = "failfinish" => t \in Failed(r))
    BY <1>0 DEF Failed
  <1>5. row[r].failed > 0 <=> Failed(r) /= {}
    BY <1>2, <1>3, <1>4 DEF Last
  <1>6. /\ row'[r].processed = row[r].processed /\ row'[r].failed = row[r].failed
        /\ row'[r].total = row[r].total
        /\ row'[r].status = IF row[r].status \in InFlight
                            THEN (IF row[r].failed > 0 THEN "partial" ELSE "succeeded")
                            ELSE row[r].status
    BY <1>0 DEF finishRun, RunRow
  <1>7. row'[r].status = "partial" \/ row'[r].status = "succeeded" =>
          (row'[r].status = "partial" <=> Failed(r) /= {})
    BY <1>3, <1>5, <1>6
  <1>8. \A u \in queued[r] : tjob'[r][u].phase \in {"completed", "failed"}
    BY <1>0, <1>2, <1>3 DEF Last
  <1>9. Last(r, a)'
    BY <1>2, <1>4, <1>5, <1>6, <1>7, <1>8 DEF Last
  <1> QED BY <1>9 DEF LandInv

\* onFailed swallows an error: the job ends, counted or not.
LEMMA LandUncounted ==
  ASSUME TypeOK, NEW r \in Run, NEW t \in queued[r], LandInv(r),
         tjob[r][t].phase \in {"exhausted", "failfinish"},
         \A u \in Ticket : tjob'[r][u].phase = IF u = t THEN "failed" ELSE tjob[r][u].phase,
         row'[r] = row[r], queued'[r] = queued[r]
  PROVE  LandInv(r)'
  <1>0. queued[r] \subseteq Ticket /\ row[r].failed \in Nat
    BY DEF TypeOK, RunRow
  <1>1. CASE Counting(r)
    <2>1. Processed(r)' = Processed(r) /\ Failed(r)' = Failed(r) \cup {t} /\ t \notin Failed(r)
      BY <1>0, <1>1 DEF Processed, Failed, Counting
    <2>2. IsFiniteSet(Failed(r)) /\ Cardinality(Failed(r)) \in Nat
      BY JobSets
    <2>3. Cardinality(Failed(r)') = Cardinality(Failed(r)) + 1
      BY <2>1, <2>2, FS_AddElement, ZenonT(60)
    <2> QED BY <1>0, <1>1, <2>1, <2>2, <2>3 DEF LandInv, Counting
  <1>2. ASSUME NEW a \in queued[r], Last(r, a) PROVE Last(r, a)'
    <2>1. t = a /\ row[r].status \notin {"succeeded", "partial"}
      BY <1>2, LastIsAtWork
    <2> QED BY <1>0, <1>2, <2>1 DEF Last
  <1> QED BY <1>1, <1>2 DEF LandInv

\* The ticket jobs, and their failures.
LEMMA TicketLive ==
  ASSUME IType, NEW r \in Run, NEW t \in Ticket, \A s \in Run : LiveInv(s),
         TicketStep(r, t) \/ TicketFault(r, t) \/ OnFailedFault(r, t)
  PROVE  \A s \in Run : LiveInv(s)'
  <1> USE DEF IType
  <1>i. LiveInv(r) /\ row[r] \in RunRow /\ TypeOK
    BY DEF TypeOK
  <1>w. UNCHANGED <<boot, pc, runJob, request, queued>>
    BY DEF TicketStep, TicketJobStart, TicketBuild, TicketBuildFails, CountProcessed,
           FinishProcessed, CountFailed, FinishFailed, TicketFault, OnFailedFault
  <1>p. tjob[r][t].phase \notin {"absent", "completed", "failed"}
    BY DEF TicketStep, TicketJobStart, TicketBuild, TicketBuildFails, CountProcessed,
           FinishProcessed, CountFailed, FinishFailed, TicketFault, OnFailedFault
  <1>o. /\ Fanned(r) = queued[r] /\ t \in queued[r]
        /\ row[r].total = Cardinality(queued[r]) /\ LandInv(r)
    BY <1>i, <1>p DEF LiveInv, Fanned
  <1>f. ASSUME NEW p, p /= "absent", \A s \in Run \ {r} : tjob'[s] = tjob[s],
               \A u \in Ticket : tjob'[r][u].phase = IF u = t THEN p ELSE tjob[r][u].phase,
               NEW rw, row' = [row EXCEPT ![r] = rw], rw.total = row[r].total,
               row[r].status \in InFlight \/ rw.status = row[r].status,
               rw.status \in Settled \/ rw.status = row[r].status,
               LandInv(r)'
        PROVE  \A s \in Run : LiveInv(s)'
    <2>1. Fanned(r)' = Fanned(r)
      BY <1>f, <1>p DEF Fanned
    <2>2. row'[r] = rw /\ \A s \in Run \ {r} : row'[s] = row[s]
      BY <1>f, <1>i DEF TypeOK
    <2>3. pc[r] \in {"idle", "note"} /\ runJob[r] \notin {"absent", "waiting"} /\ request[r] /= "add"
          /\ row[r].status /= "absent"
      <3>1. Fanned(r) /= {}
        BY <1>o
      <3> QED BY <1>i, <3>1 DEF LiveInv, TypeOK
    <2>4. LiveInv(r)'
      BY <1>f, <1>i, <1>o, <1>w, <2>1, <2>2, <2>3 DEF LiveInv
    <2>5. ASSUME NEW s \in Run \ {r} PROVE LiveInv(s)'
      BY <1>f, <1>w, <2>2, LiveFrame
    <2> QED BY <2>4, <2>5
  <1>k. row' = row => row' = [row EXCEPT ![r] = row[r]]
    BY <1>i DEF TypeOK
  \* Steps between uncounted phases.
  <1>1. ASSUME NEW p \in {"waiting", "build", "count", "exhausted"},
               \A s \in Run \ {r} : tjob'[s] = tjob[s],
               \A u \in Ticket : tjob'[r][u].phase = IF u = t THEN p ELSE tjob[r][u].phase,
               tjob[r][t].phase \in Working \cup {"waiting"}, row' = row
        PROVE  \A s \in Run : LiveInv(s)'
    <2>1. LandInv(r)'
      BY <1>1, <1>i, <1>o, <1>w, LandMove
    <2> QED BY <1>1, <1>k, <2>1, <1>f
  <1>2. CASE TicketJobStart(r, t) \/ TicketBuild(r, t)
    BY <1>2, <1>1, <1>i, PhaseChange DEF TicketJobStart, TicketBuild
  <1>3. CASE TicketBuildFails(r, t) \/ TicketFault(r, t)
    BY <1>3, <1>1, <1>i, PhaseChange DEF TicketBuildFails, TicketFault
  \* Steps that count.
  <1>4. ASSUME NEW i \in {0, 1}, NEW j \in {0, 1}, i + j = 1,
               tjob[r][t].phase \in {"count", "exhausted"},
               row' = [row EXCEPT ![r] = recordTicketResult(@, i, j)],
               SetPhase(r, t, IF Complete(row'[r]) THEN (IF i = 1 THEN "finish" ELSE "failfinish")
                              ELSE (IF i = 1 THEN "completed" ELSE "failed"))
        PROVE  \A s \in Run : LiveInv(s)'
    <2> DEFINE p == IF Complete(row'[r]) THEN (IF i = 1 THEN "finish" ELSE "failfinish")
                    ELSE (IF i = 1 THEN "completed" ELSE "failed")
               rw == recordTicketResult(row[r], i, j)
    <2>0. p \in {"finish", "failfinish", "completed", "failed"}
      OBVIOUS
    <2>1. /\ \A s \in Run \ {r} : tjob'[s] = tjob[s]
          /\ \A u \in Ticket : tjob'[r][u].phase = IF u = t THEN p ELSE tjob[r][u].phase
      BY <1>4, <1>i, PhaseChange
    <2>2. row'[r] = rw /\ row' = [row EXCEPT ![r] = rw]
      BY <1>4, <1>i DEF TypeOK
    <2>3. rw.total = row[r].total /\ rw.status = row[r].status
      BY <1>i DEF recordTicketResult, RunRow
    <2>4. LandInv(r)'
      BY <1>4, <1>i, <1>o, <1>w, <2>1, <2>2, LandCount
    <2> HIDE DEF p, rw
    <2> QED BY <2>0, <2>1, <2>2, <2>3, <2>4, <1>f
  <1>5. CASE CountProcessed(r, t)
    BY <1>5, <1>4 DEF CountProcessed
  <1>6. CASE CountFailed(r, t)
    BY <1>6, <1>4 DEF CountFailed
  \* Steps that settle the run.
  <1>7. ASSUME NEW q \in {"finish", "failfinish"}, tjob[r][t].phase = q,
               row' = [row EXCEPT ![r] = finishRun(@, "none")],
               SetPhase(r, t, IF q = "finish" THEN "completed" ELSE "failed")
        PROVE  \A s \in Run : LiveInv(s)'
    <2> DEFINE p == IF q = "finish" THEN "completed" ELSE "failed"
               rw == finishRun(row[r], "none")
    <2>1. /\ \A s \in Run \ {r} : tjob'[s] = tjob[s]
          /\ \A u \in Ticket : tjob'[r][u].phase = IF u = t THEN p ELSE tjob[r][u].phase
      BY <1>7, <1>i, PhaseChange
    <2>2. row'[r] = rw /\ row' = [row EXCEPT ![r] = rw]
      BY <1>7, <1>i DEF TypeOK
    <2>3. /\ rw.total = row[r].total
          /\ row[r].status \in InFlight \/ rw.status = row[r].status
          /\ rw.status \in Settled \/ rw.status = row[r].status
      BY <1>i DEF finishRun, RunRow
    <2>4. LandInv(r)'
      BY <1>7, <1>i, <1>o, <1>w, <2>1, <2>2, LandFinish
    <2>5. p /= "absent"
      OBVIOUS
    <2> HIDE DEF p, rw
    <2> QED BY <2>1, <2>2, <2>3, <2>4, <2>5, <1>f
  <1>8. CASE FinishProcessed(r, t)
    BY <1>8, <1>7 DEF FinishProcessed
  <1>9. CASE FinishFailed(r, t)
    BY <1>9, <1>7 DEF FinishFailed
  <1>10. CASE OnFailedFault(r, t)
    <2>1. /\ \A s \in Run \ {r} : tjob'[s] = tjob[s]
          /\ \A u \in Ticket : tjob'[r][u].phase = IF u = t THEN "failed" ELSE tjob[r][u].phase
          /\ tjob[r][t].phase \in {"exhausted", "failfinish"} /\ row' = row
      BY <1>10, <1>i, PhaseChange DEF OnFailedFault
    <2>2. LandInv(r)'
      BY <1>i, <1>o, <1>w, <2>1, LandUncounted
    <2> QED BY <1>k, <2>1, <2>2, <1>f
  <1> QED BY <1>2, <1>3, <1>5, <1>6, <1>8, <1>9, <1>10 DEF TicketStep

\* Nothing but a crash counts as one.
LEMMA OnlyCrash == [Next]_vars /\ ~Crash => crashes' = crashes
  <1> SUFFICES ASSUME [Next]_vars, ~Crash PROVE crashes' = crashes
    OBVIOUS
  <1>1. ASSUME NEW r \in Run,
               \/ InsertRun(r) \/ AddRunJob(r) \/ AddRunJobFails(r)
               \/ ResumeReset(r) \/ ResumeAdd(r) \/ ResumeFails(r)
        PROVE  crashes' = crashes
    BY <1>1 DEF InsertRun, AddRunJob, AddRunJobFails, ResumeReset, ResumeAdd, ResumeFails
  <1>2. ASSUME NEW r \in Run, CoordinatorStep(r) PROVE crashes' = crashes
    BY <1>2 DEF CoordinatorStep, RunJobStart, MarkRunning, Connect, FetchPage, FetchEnd, SetTotals,
       EnqueueTicketJobs, NoteTruncation, CatchFails
  <1>3. ASSUME NEW r \in Run, ProviderFails(r) \/ CoordinatorFault(r) \/ CoordinatorLost(r)
        PROVE  crashes' = crashes
    BY <1>3 DEF ProviderFails, CoordinatorFault, CoordinatorLost, CatchFails
  <1>4. ASSUME NEW r \in Run, NEW t \in Ticket, TicketStep(r, t) \/ TicketFault(r, t) \/ OnFailedFault(r, t)
        PROVE  crashes' = crashes
    BY <1>4 DEF TicketStep, TicketJobStart, TicketBuild, TicketBuildFails, CountProcessed,
       FinishProcessed, CountFailed, FinishFailed, TicketFault, OnFailedFault
  <1>5. ASSUME Disconnect \/ Unlink \/ Relink \/ UNCHANGED vars PROVE crashes' = crashes
    BY <1>5 DEF Disconnect, Unlink, Relink, vars
  <1> QED BY <1>1, <1>2, <1>3, <1>4, <1>5 DEF Next

\* Every step keeps the invariant of every run; a crash ends it.
LEMMA LiveStep == IType /\ CrashFreeInv /\ [Next]_vars => CrashFreeInv'
  <1> SUFFICES ASSUME IType, CrashFreeInv, [Next]_vars, crashes' = 0
               PROVE  \A s \in Run : LiveInv(s)'
    BY DEF CrashFreeInv
  <1>1. crashes \in Nat
    BY SyncAssumption DEF IType, TypeOK
  <1>2. ~Crash
    BY <1>1 DEF Crash
  <1>3. crashes = 0
    BY <1>2, OnlyCrash
  <1>4. \A s \in Run : LiveInv(s)
    BY <1>3 DEF CrashFreeInv
  <1>5. CASE Unlink \/ Relink \/ UNCHANGED vars
    BY <1>4, <1>5, LiveFrame DEF Unlink, Relink, vars
  <1>6. CASE Disconnect
    <2> SUFFICES ASSUME NEW s \in Run PROVE LiveInv(s)'
      OBVIOUS
    <2>1. /\ boot'[s] = boot[s] /\ runJob'[s] = runJob[s] /\ request'[s] = request[s]
          /\ row'[s] = row[s] /\ queued'[s] = queued[s] /\ tjob'[s] = tjob[s]
          /\ pc'[s] = pc[s] \/ (pc[s] = "fetch" /\ pc'[s] = "stale")
      BY <1>6 DEF Disconnect, IType, TypeOK
    <2>2. LiveInv(s)
      BY <1>4
    <2>3. CASE pc'[s] = pc[s]
      BY <2>1, <2>2, <2>3, LiveFrame
    <2>4. CASE pc[s] = "fetch" /\ pc'[s] = "stale"
      BY <2>1, <2>2, <2>4, SameJobs DEF LiveInv
    <2> QED BY <2>1, <2>3, <2>4
  <1> QED BY <1>2, <1>4, <1>5, <1>6, OutsideLive, CoordinatorLive, TicketLive DEF Next

\* No run has anything counted, fanned out or in flight at the start.
LEMMA LiveInit == Init => CrashFreeInv
  <1> SUFFICES ASSUME Init, NEW r \in Run PROVE LiveInv(r)
    BY DEF CrashFreeInv
  <1>1. Fanned(r) = {}
    BY DEF Init, Fanned
  <1> QED BY <1>1 DEF Init, LiveInv, NewRow

\* What a settled run says of its tickets.
LEMMA LiveSettled ==
  ASSUME IType, NEW r \in Run, LiveInv(r), row[r].status \in {"succeeded", "partial"}
  PROVE  /\ queued[r] = Processed(r) \cup Failed(r)
         /\ row[r].status = "partial" <=> Failed(r) /= {}
  <1>1. CASE Fanned(r) = {}
    <2>1. Processed(r) = {} /\ Failed(r) = {}
      BY <1>1 DEF Fanned, Processed, Failed
    <2> QED BY <1>1, <2>1 DEF LiveInv
  <1>2. CASE Fanned(r) /= {}
    <2>1. PICK a \in queued[r] : Last(r, a)
      BY <1>2 DEF LiveInv, LandInv, Counting
    <2>2. queued[r] \subseteq Ticket /\ Fanned(r) = queued[r]
      BY <1>2 DEF LiveInv, IType, TypeOK
    <2>3. \A t \in queued[r] : tjob[r][t].phase \in {"completed", "failed"}
      BY <2>1 DEF Last
    <2>4. Processed(r) \cup Failed(r) \subseteq Fanned(r)
      BY DEF Processed, Failed, Fanned
    <2>5. queued[r] \subseteq Processed(r) \cup Failed(r)
      BY <2>2, <2>3 DEF Processed, Failed
    <2> QED BY <2>1, <2>2, <2>4, <2>5 DEF Last
  <1> QED BY <1>1, <1>2

\* Until the backend restarts, a run reported succeeded or partial has counted
\* every ticket it found, and partial tells that one of them failed: also when
\* statements fail, jobs are retried and a job counts twice.
THEOREM SettlementSurvivesFaults == Spec => []SettledMeansLandedUntilCrash
  <1>1. IType /\ CrashFreeInv => SettledMeansLandedUntilCrash
    BY LiveSettled DEF CrashFreeInv, SettledMeansLandedUntilCrash, SettledMeansLanded
  <1> QED BY <1>1, TypeInit, TypeStep, LiveInit, LiveStep, PTL DEF Spec

\* No statement changes the status of a settled run: failRun and finishRun are
\* guarded, and a run is marked running by a coordinator that found it queued.
LEMMA FinalStep ==
  IType /\ CrashFreeInv /\ [Next]_vars =>
    (crashes = 0 => \A r \in Run : row[r].status \in Settled => row'[r].status = row[r].status)
  <1> SUFFICES ASSUME IType, \A s \in Run : LiveInv(s), [Next]_vars, NEW r \in Run,
                      row[r].status \in Settled
               PROVE  row'[r].status = row[r].status
    BY DEF CrashFreeInv
  <1>0. row[r] \in RunRow /\ row \in [Run -> RunRow] /\ LiveInv(r)
    BY DEF IType, TypeOK
  <1>1. CASE row'[r] = row[r]
    BY <1>1
  <1>2. ASSUME NEW s \in Run,
               \/ InsertRun(s) \/ AddRunJob(s) \/ AddRunJobFails(s) \/ RunJobStart(s)
               \/ FetchEnd(s) \/ EnqueueTicketJobs(s) \/ CoordinatorLost(s) \/ ResumeAdd(s)
               \/ ResumeFails(s)
        PROVE  row'[r] = row[r]
    BY <1>0, <1>2 DEF InsertRun, AddRunJob, AddRunJobFails, RunJobStart, FetchEnd,
       EnqueueTicketJobs, CoordinatorLost, ResumeAdd, ResumeFails
  <1>3. failRun(row[r]) = row[r] /\ \A note \in {"none", "empty"} : finishRun(row[r], note) = row[r]
    BY DEF failRun, finishRun
  <1>4. ASSUME NEW s \in Run, CatchFails(s) PROVE row'[r] = row[r]
    BY <1>0, <1>3, <1>4 DEF CatchFails
  <1>5. ASSUME NEW s \in Run, MarkRunning(s) PROVE row'[r] = row[r]
    <2>1. s /= r
      BY <1>0, <1>5 DEF MarkRunning, LiveInv
    <2> QED BY <1>0, <1>4, <1>5, <2>1 DEF MarkRunning
  <1>6. ASSUME NEW s \in Run, Connect(s) PROVE row'[r] = row[r]
    BY <1>0, <1>3, <1>6 DEF Connect
  <1>7. ASSUME NEW s \in Run, FetchPage(s) \/ SetTotals(s) PROVE row'[r].status = row[r].status
    <2>1. s /= r
      BY <1>0, <1>7 DEF FetchPage, SetTotals, LiveInv
    <2> QED BY <1>0, <1>7, <2>1 DEF FetchPage, SetTotals
  <1>8. ASSUME NEW s \in Run, NoteTruncation(s) \/ ResumeReset(s) PROVE row'[r].status = row[r].status
    <2>1. /\ [row[r] EXCEPT !.error = "limit"].status = row[r].status
          /\ [row[r] EXCEPT !.total = 0, !.processed = 0, !.failed = 0].status = row[r].status
      BY <1>0 DEF RunRow
    <2> QED BY <1>0, <1>8, <2>1 DEF NoteTruncation, ResumeReset
  <1>9. ASSUME NEW s \in Run, NEW t \in Ticket, TicketStep(s, t) \/ TicketFault(s, t) \/ OnFailedFault(s, t)
        PROVE  row'[r].status = row[r].status
    <2>1. \A i, j \in {0, 1} : recordTicketResult(row[r], i, j).status = row[r].status
      BY <1>0 DEF recordTicketResult, RunRow
    <2>2. \/ row' = row
          \/ \E i, j \in {0, 1} : row' = [row EXCEPT ![s] = recordTicketResult(@, i, j)]
          \/ row' = [row EXCEPT ![s] = finishRun(@, "none")]
      BY <1>9 DEF TicketStep, TicketJobStart, TicketBuild, TicketBuildFails, CountProcessed,
         FinishProcessed, CountFailed, FinishFailed, TicketFault, OnFailedFault
    <2> QED BY <1>0, <1>3, <2>1, <2>2
  <1>10. ASSUME Disconnect \/ Unlink \/ Relink \/ Crash \/ UNCHANGED vars PROVE row'[r] = row[r]
    BY <1>10 DEF Disconnect, Unlink, Relink, Crash, vars
  <1> QED BY <1>1, <1>2, <1>4, <1>5, <1>6, <1>7, <1>8, <1>9, <1>10
          DEF Next, CoordinatorStep, ProviderFails, CoordinatorFault

\* Until the backend restarts, no late ticket, late failure or coordinator
\* reopens or relabels a settled run.
THEOREM SettledIsFinal == Spec => SettledIsFinalUntilCrash
  <1>1. IType /\ CrashFreeInv /\ [Next]_vars =>
          [crashes = 0 => \A r \in Run : row[r].status \in Settled =>
             row'[r].status = row[r].status]_vars
    BY FinalStep
  <1> QED BY <1>1, TypeInit, TypeStep, LiveInit, LiveStep, PTL DEF Spec, SettledIsFinalUntilCrash

-----------------------------------------------------------------------------
(* Mirrored tickets and the cap *)

\* Until the owner disconnects, a ticket is counted as processed once mirrored.
MirrorInv ==
  crashes = 0 /\ disconnects = 0 => \A r \in Run :
    /\ queued[r] \subseteq live[r]
    /\ \A t \in Ticket : tjob[r][t].phase \in {"count", "finish", "completed"} => t \in docs

\* A step that moves no ticket job into a counting phase, and forgets no ticket.
LEMMA MirrorFrame ==
  ASSUME MirrorInv, crashes' = 0 => crashes = 0, disconnects' = disconnects,
         docs \subseteq docs',
         \A r \in Run :
           /\ queued[r] \subseteq live[r] => queued'[r] \subseteq live'[r]
           /\ \A t \in Ticket : tjob'[r][t].phase \in {"count", "finish", "completed"} =>
                tjob[r][t].phase \in {"count", "finish", "completed"}
  PROVE  MirrorInv'
  BY DEF MirrorInv

\* Every step keeps it.
LEMMA MirrorStep == IType /\ CrashFreeInv /\ MirrorInv /\ [Next]_vars => MirrorInv'
  <1> SUFFICES ASSUME IType, CrashFreeInv, MirrorInv, [Next]_vars PROVE MirrorInv'
    OBVIOUS
  <1>0. /\ crashes \in Nat /\ disconnects \in Nat
        /\ queued \in [Run -> SUBSET Ticket] /\ live \in [Run -> SUBSET Ticket]
        /\ tjob \in [Run -> [Ticket -> [phase : Phase, attempts : 0 .. MaxAttempts]]]
    BY SyncAssumption DEF IType, TypeOK
  <1>c. Crash \/ crashes' = crashes
    BY OnlyCrash
  <1>1. ASSUME NEW r \in Run,
               \/ InsertRun(r) \/ AddRunJob(r) \/ AddRunJobFails(r)
               \/ ResumeReset(r) \/ ResumeAdd(r) \/ ResumeFails(r)
        PROVE  MirrorInv'
    <2>1. UNCHANGED <<crashes, disconnects, docs, queued, live, tjob>>
      BY <1>1 DEF InsertRun, AddRunJob, AddRunJobFails, ResumeReset, ResumeAdd, ResumeFails
    <2> QED BY <2>1, MirrorFrame
  <1>2. ASSUME NEW r \in Run, CoordinatorStep(r) PROVE MirrorInv'
    <2>1. UNCHANGED <<crashes, disconnects, docs>>
      BY <1>2 DEF CoordinatorStep, RunJobStart, MarkRunning, Connect, FetchPage, FetchEnd, SetTotals,
         EnqueueTicketJobs, NoteTruncation, CatchFails
    <2>2. ASSUME NEW s \in Run, queued[s] \subseteq live[s] PROVE queued'[s] \subseteq live'[s]
      <3>1. CASE RunJobStart(r)
        BY <1>0, <2>2, <3>1 DEF RunJobStart
      <3>2. CASE FetchPage(r)
        BY <1>0, <2>2, <3>2 DEF FetchPage
      <3>3. CASE ~RunJobStart(r) /\ ~FetchPage(r)
        BY <1>2, <2>2, <3>3 DEF CoordinatorStep, MarkRunning, Connect, FetchEnd, SetTotals,
           EnqueueTicketJobs, NoteTruncation, CatchFails
      <3> QED BY <3>1, <3>2, <3>3
    <2>3. ASSUME NEW s \in Run, NEW t \in Ticket,
                 tjob'[s][t].phase \in {"count", "finish", "completed"}
          PROVE  tjob[s][t].phase \in {"count", "finish", "completed"}
      <3>1. CASE EnqueueTicketJobs(r)
        BY <1>0, <2>3, <3>1 DEF EnqueueTicketJobs
      <3>2. CASE ~EnqueueTicketJobs(r)
        BY <1>2, <2>3, <3>2 DEF CoordinatorStep, RunJobStart, MarkRunning, Connect, FetchPage,
           FetchEnd, SetTotals, NoteTruncation, CatchFails
      <3> QED BY <3>1, <3>2
    <2> QED BY <2>1, <2>2, <2>3, MirrorFrame
  <1>3. ASSUME NEW r \in Run, ProviderFails(r) \/ CoordinatorFault(r) \/ CoordinatorLost(r)
        PROVE  MirrorInv'
    <2>1. UNCHANGED <<crashes, disconnects, docs, queued, live, tjob>>
      BY <1>3 DEF ProviderFails, CoordinatorFault, CoordinatorLost, CatchFails
    <2> QED BY <2>1, MirrorFrame
  <1>4. ASSUME NEW r \in Run, NEW t \in Ticket, TicketStep(r, t) \/ TicketFault(r, t) \/ OnFailedFault(r, t)
        PROVE  MirrorInv'
    <2>1. UNCHANGED <<crashes, disconnects, queued, live>> /\ docs \subseteq docs'
      BY <1>4 DEF TicketStep, TicketJobStart, TicketBuild, TicketBuildFails, CountProcessed,
         FinishProcessed, CountFailed, FinishFailed, TicketFault, OnFailedFault
    <2>2. ASSUME crashes = 0, disconnects = 0, NEW s \in Run, NEW u \in Ticket,
                 tjob'[s][u].phase \in {"count", "finish", "completed"}
          PROVE  u \in docs'
      <3>0. TypeOK /\ queued[s] \subseteq live[s] /\ LiveInv(s)
        BY <2>2 DEF IType, CrashFreeInv, MirrorInv
      <3>1. CASE s = r /\ u = t
        <4>1. CASE TicketJobStart(r, t)
          <5>1. t \in Fanned(r)
            BY <4>1 DEF TicketJobStart, Fanned
          <5>2. t \in live[r]
            BY <3>0, <3>1, <5>1 DEF LiveInv
          <5>3. SetPhase(r, t, "build")
            BY <4>1, <5>2 DEF TicketJobStart
          <5>4. tjob'[r][t].phase = "build"
            BY <3>0, <5>3, PhaseChange
          <5> QED BY <2>2, <3>1, <5>4
        <4>2. CASE TicketBuild(r, t)
          BY <3>1, <4>2 DEF TicketBuild
        <4>3. CASE TicketBuildFails(r, t) \/ TicketFault(r, t)
          <5>1. Throw(r, t)
            BY <4>3 DEF TicketBuildFails, TicketFault
          <5>2. tjob'[r][t].phase \in {"waiting", "exhausted"}
            BY <3>0, <5>1, PhaseChange
          <5> QED BY <2>2, <3>1, <5>2
        <4>4. CASE CountFailed(r, t) \/ FinishFailed(r, t) \/ OnFailedFault(r, t)
          <5>1. \E p \in {"failfinish", "failed"} : SetPhase(r, t, p)
            BY <4>4 DEF CountFailed, FinishFailed, OnFailedFault
          <5>2. tjob'[r][t].phase \in {"failfinish", "failed"}
            BY <3>0, <5>1, PhaseChange
          <5> QED BY <2>2, <3>1, <5>2
        <4>5. CASE CountProcessed(r, t) \/ FinishProcessed(r, t)
          <5>1. tjob[r][t].phase \in {"count", "finish"}
            BY <4>5 DEF CountProcessed, FinishProcessed
          <5> QED BY <2>1, <2>2, <3>1, <5>1 DEF MirrorInv
        <4> QED BY <1>4, <4>1, <4>2, <4>3, <4>4, <4>5 DEF TicketStep
      <3>2. CASE ~(s = r /\ u = t)
        <4>1. (\E p : SetPhase(r, t, p)) \/ Throw(r, t)
          BY <1>4 DEF TicketStep, TicketJobStart, TicketBuild, TicketBuildFails, CountProcessed,
             FinishProcessed, CountFailed, FinishFailed, TicketFault, OnFailedFault
        <4>2. tjob'[s][u].phase = tjob[s][u].phase
          <5>1. CASE s = r
            BY <3>0, <3>2, <4>1, <5>1, PhaseChange
          <5>2. CASE s /= r
            BY <3>0, <4>1, <5>2, PhaseChange
          <5> QED BY <5>1, <5>2
        <4> QED BY <2>1, <2>2, <4>2 DEF MirrorInv
      <3> QED BY <3>1, <3>2
    <2> QED BY <2>1, <2>2 DEF MirrorInv
  <1>5. CASE Disconnect
    BY <1>0, <1>5 DEF Disconnect, MirrorInv
  <1>6. CASE Unlink \/ Relink \/ UNCHANGED vars
    <2>1. UNCHANGED <<crashes, disconnects, docs, queued, live, tjob>>
      BY <1>6 DEF Unlink, Relink, vars
    <2> QED BY <2>1, MirrorFrame
  <1>7. CASE Crash
    BY <1>0, <1>7 DEF Crash, MirrorInv
  <1> QED BY <1>1, <1>2, <1>3, <1>4, <1>5, <1>6, <1>7 DEF Next

\* Until a restart or a disconnect, a run reported succeeded has put every
\* ticket it found in the Knowledge Base, whatever statement failed on the way.
THEOREM SucceededIsMirrored == Spec => []SucceededMeansMirrored
  <1>1. IType /\ CrashFreeInv /\ MirrorInv => SucceededMeansMirrored
    <2> SUFFICES ASSUME IType, CrashFreeInv, MirrorInv, crashes = 0, disconnects = 0,
                        NEW r \in Run, row[r].status = "succeeded"
                 PROVE  queued[r] \subseteq docs
      BY DEF SucceededMeansMirrored
    <2>1. queued[r] = Processed(r) \cup Failed(r) /\ Failed(r) = {}
      BY LiveSettled DEF CrashFreeInv
    <2> QED BY <2>1 DEF MirrorInv, Processed
  <1>2. Init => MirrorInv
    BY DEF Init, MirrorInv
  <1> QED BY <1>1, <1>2, TypeInit, TypeStep, LiveInit, LiveStep, MirrorStep, PTL DEF Spec

\* Every way a coordinator ends leaves an error, or a run that was not cut short.
CapInv ==
  \A r \in Run :
    /\ Cardinality(queued[r]) <= MaxTickets
    /\ Clean /\ runJob[r] = "completed" /\ truncated[r] => row[r].error /= "none"

\* A step that fetches nothing, ends no coordinator and erases no error.
LEMMA CapFrame ==
  ASSUME CapInv, Clean' => Clean,
         \A r \in Run :
           /\ queued'[r] = queued[r] \/ Cardinality(queued'[r]) <= MaxTickets
           /\ Clean /\ runJob'[r] = "completed" /\ truncated'[r] =>
                \/ row'[r].error /= "none"
                \/ runJob[r] = "completed" /\ truncated[r] /\ row'[r].error = row[r].error
  PROVE  CapInv'
  BY DEF CapInv

\* A page fits in what is left of the cap.
LEMMA PageFits ==
  ASSUME IType, NEW r \in Run, Cardinality(queued[r]) <= MaxTickets, FetchPage(r)
  PROVE  Cardinality(queued'[r]) <= MaxTickets
  <1>1. PICK issues \in (SUBSET (Ticket \ queued[r])) \ {{}}, over \in BOOLEAN :
          FetchPage(r)!2!(issues, over)
    BY DEF FetchPage
  <1>2. PICK page \in SUBSET issues :
          /\ Cardinality(page) = IF over THEN Remaining(r) ELSE Cardinality(issues)
          /\ queued' = [queued EXCEPT ![r] = @ \cup page]
    BY <1>1
  <1>3. queued \in [Run -> SUBSET Ticket] /\ MaxTickets \in Nat
    BY SyncAssumption DEF IType, TypeOK
  <1>4. IsFiniteSet(queued[r]) /\ IsFiniteSet(page) /\ IsFiniteSet(issues) /\ page \cap queued[r] = {}
    BY <1>1, <1>2, <1>3, SyncAssumption, FS_Subset
  <1>5. Cardinality(queued[r]) \in Nat /\ Cardinality(issues) \in Nat
    BY <1>4, FS_CardinalityType
  <1>6. Cardinality(page) <= Remaining(r) /\ Cardinality(page) \in Nat
    <2>1. over = (Cardinality(issues) > Remaining(r))
      BY <1>1
    <2>2. Remaining(r) \in Nat
      BY <1>3, <1>5 DEF Remaining
    <2>3. Cardinality(page) \in Nat
      BY <1>4, FS_CardinalityType
    <2>4. CASE over = TRUE
      <3>1. Cardinality(page) = Remaining(r)
        BY <1>2, <2>4
      <3> QED BY <2>2, <2>3, <3>1
    <2>5. CASE over = FALSE
      <3>1. Cardinality(page) = Cardinality(issues)
        BY <1>2, <2>5
      <3>2. ~(Cardinality(issues) > Remaining(r))
        BY <2>1, <2>5
      <3> QED BY <1>5, <2>2, <2>3, <3>1, <3>2
    <2> QED BY <2>4, <2>5
  <1>7. Cardinality(queued[r] \cup page) = Cardinality(queued[r]) + Cardinality(page)
    <2>1. Cardinality(queued[r] \cup page) =
            Cardinality(queued[r]) + Cardinality(page) - Cardinality(queued[r] \cap page)
      BY <1>4, FS_Union
    <2>2. Cardinality(queued[r] \cap page) = 0
      BY <1>4, FS_EmptySet
    <2> QED BY <1>5, <1>6, <2>1, <2>2
  <1>8. queued'[r] = queued[r] \cup page
    BY <1>2, <1>3
  <1> QED BY <1>3, <1>5, <1>6, <1>7, <1>8 DEF Remaining

\* Every step of a coordinator keeps it.
LEMMA CapCoordinator ==
  ASSUME IType, CleanInv, CapInv, NEW r \in Run, CoordinatorStep(r) \/ ProviderFails(r)
  PROVE  CapInv'
  <1>0. /\ row \in [Run -> RunRow] /\ runJob \in [Run -> JobState]
        /\ queued \in [Run -> SUBSET Ticket] /\ truncated \in [Run -> BOOLEAN]
        /\ Cardinality(queued[r]) <= MaxTickets
    BY DEF IType, TypeOK, CapInv
  <1>1. /\ UNCHANGED <<crashes, faults>>
        /\ \A s \in Run \ {r} : row'[s] = row[s] /\ queued'[s] = queued[s]
             /\ truncated'[s] = truncated[s] /\ runJob'[s] = runJob[s]
    BY <1>0, ZenonT(60) DEF CoordinatorStep, RunJobStart, MarkRunning, Connect, FetchPage, FetchEnd, SetTotals,
       EnqueueTicketJobs, NoteTruncation, ProviderFails, CatchFails, Return
  <1>2. Clean' => Clean
    BY <1>1 DEF Clean
  <1>3. queued'[r] = queued[r] \/ Cardinality(queued'[r]) <= MaxTickets
    <2>1. CASE RunJobStart(r)
      <3>1. queued'[r] = {} /\ Cardinality({}) = 0
        BY <1>0, <2>1, FS_EmptySet DEF RunJobStart
      <3> QED BY <3>1, SyncAssumption
    <2>2. CASE FetchPage(r)
      BY <1>0, <2>2, PageFits
    <2>3. CASE ~RunJobStart(r) /\ ~FetchPage(r)
      BY <2>3 DEF CoordinatorStep, MarkRunning, Connect, FetchEnd, SetTotals,
         EnqueueTicketJobs, NoteTruncation, ProviderFails, CatchFails
    <2> QED BY <2>1, <2>2, <2>3
  <1>4. ASSUME Clean, runJob'[r] = "completed", truncated'[r]
        PROVE  row'[r].error /= "none"
    <2>0. RunInv(r) /\ row[r] \in RunRow
      BY <1>0, <1>4 DEF CleanInv
    <2>1. failRun(row[r]).error = "failure" \/ row[r].status \notin InFlight
      BY <2>0 DEF failRun, RunRow
    <2>2. ASSUME CatchFails(r), pc[r] \in {"mark", "connect", "fetch", "stale"}
          PROVE  row'[r].error /= "none"
      <3>1. row[r].status \in InFlight
        BY <2>0, <2>2 DEF RunInv
      <3> QED BY <1>0, <2>1, <2>2, <3>1 DEF CatchFails
    <2>3. pc[r] /= "idle" => runJob[r] /= "completed"
      BY <2>0 DEF RunInv
    <2>4. CASE RunJobStart(r) \/ FetchPage(r) \/ FetchEnd(r)
      BY <1>0, <1>4, <2>3, <2>4 DEF RunJobStart, FetchPage, FetchEnd
    <2>5. CASE MarkRunning(r)
      BY <1>4, <2>2, <2>3, <2>5 DEF MarkRunning
    <2>6. CASE Connect(r)
      <3>1. row[r].status \in InFlight
        BY <2>0, <2>6 DEF RunInv, Connect
      <3> QED BY <1>0, <1>4, <2>1, <2>3, <2>6, <3>1 DEF Connect
    <2>7. CASE SetTotals(r)
      <3> DEFINE rw == setTotals(row[r], Cardinality(queued[r]))
      <3>1. rw.status = "running" /\ rw \in RunRow
        BY <2>0, <2>7, RowTypes, JobSets, ZenonT(60) DEF RunInv, SetTotals, setTotals, RunRow, IType
      <3>2. finishRun(rw, "empty").error /= "none"
        BY <3>1 DEF finishRun, RunRow
      <3> HIDE DEF rw
      <3>3. row' = [row EXCEPT ![r] = finishRun(rw, "empty")] \/ UNCHANGED runJob
        BY <2>7 DEF SetTotals, rw
      <3> QED BY <1>0, <1>4, <2>3, <2>7, <3>2, <3>3 DEF SetTotals
    <2>8. CASE EnqueueTicketJobs(r)
      BY <1>4, <2>3, <2>8 DEF EnqueueTicketJobs
    <2>9. CASE NoteTruncation(r)
      <3>1. [row[r] EXCEPT !.error = "limit"].error = "limit"
        BY <2>0 DEF RunRow
      <3> QED BY <1>0, <2>9, <3>1 DEF NoteTruncation
    <2>10. CASE ProviderFails(r)
      BY <2>2, <2>10 DEF ProviderFails
    <2> QED BY <2>4, <2>5, <2>6, <2>7, <2>8, <2>9, <2>10 DEF CoordinatorStep
  <1> QED BY <1>1, <1>2, <1>3, <1>4, CapFrame

\* Every step keeps it.
LEMMA CapStep == IType /\ CleanInv /\ CapInv /\ [Next]_vars => CapInv'
  <1> SUFFICES ASSUME IType, CleanInv, CapInv, [Next]_vars PROVE CapInv'
    OBVIOUS
  <1>0. /\ row \in [Run -> RunRow] /\ runJob \in [Run -> JobState]
        /\ crashes \in Nat /\ faults \in Nat
    BY SyncAssumption DEF IType, TypeOK
  <1>1. ASSUME Fault \/ crashes' = crashes + 1, UNCHANGED queued PROVE CapInv'
    <2>1. ~Clean'
      BY <1>0, <1>1 DEF Fault, Clean
    <2> QED BY <1>1, <2>1 DEF CapInv
  <1>2. ASSUME NEW r \in Run,
               \/ AddRunJobFails(r) \/ ResumeFails(r) \/ CoordinatorFault(r) \/ CoordinatorLost(r)
        PROVE  CapInv'
    BY <1>1, <1>2 DEF AddRunJobFails, ResumeFails, CoordinatorFault, CoordinatorLost, CatchFails
  <1>3. ASSUME NEW r \in Run, InsertRun(r) \/ AddRunJob(r) \/ ResumeReset(r) \/ ResumeAdd(r)
        PROVE  CapInv'
    <2>1. UNCHANGED <<queued, truncated, crashes, faults>>
      BY <1>3 DEF InsertRun, AddRunJob, ResumeReset, ResumeAdd
    <2>2. ASSUME Clean, NEW s \in Run, runJob'[s] = "completed"
          PROVE  runJob[s] = "completed" /\ row'[s].error = row[s].error
      <3>1. RunInv(r) /\ row[r] \in RunRow
        BY <1>0, <2>2 DEF CleanInv
      <3>2. runJob[s] = "completed"
        BY <1>0, <1>3, <2>2 DEF InsertRun, AddRunJob, ResumeReset, ResumeAdd
      <3>3. CASE InsertRun(r)
        <4>1. s /= r
          BY <3>1, <3>2, <3>3 DEF InsertRun, RunInv
        <4> QED BY <1>0, <3>2, <3>3, <4>1 DEF InsertRun
      <3>4. CASE ~InsertRun(r)
        <4>1. [row[r] EXCEPT !.total = 0, !.processed = 0, !.failed = 0].error = row[r].error
          BY <3>1 DEF RunRow
        <4> QED BY <1>0, <1>3, <3>2, <3>4, <4>1 DEF AddRunJob, ResumeReset, ResumeAdd
      <3> QED BY <3>3, <3>4
    <2> QED BY <2>1, <2>2, CapFrame DEF Clean
  <1>4. ASSUME NEW r \in Run, NEW t \in Ticket, TicketStep(r, t) PROVE CapInv'
    <2>1. UNCHANGED <<queued, truncated, runJob, crashes, faults>>
      BY <1>4 DEF TicketStep, TicketJobStart, TicketBuild, TicketBuildFails, CountProcessed,
         FinishProcessed, CountFailed, FinishFailed
    <2>2. row[r] \in RunRow
      BY <1>0
    <2>3. /\ \A i, j \in {0, 1} : recordTicketResult(row[r], i, j).error = row[r].error
          /\ finishRun(row[r], "none").error = row[r].error
      BY <2>2 DEF recordTicketResult, finishRun, RunRow
    <2>4. \/ row' = row
          \/ \E i, j \in {0, 1} : row' = [row EXCEPT ![r] = recordTicketResult(@, i, j)]
          \/ row' = [row EXCEPT ![r] = finishRun(@, "none")]
      BY <1>4 DEF TicketStep, TicketJobStart, TicketBuild, TicketBuildFails, CountProcessed,
         FinishProcessed, CountFailed, FinishFailed
    <2>5. \A s \in Run : row'[s].error = row[s].error
      BY <1>0, <2>3, <2>4
    <2> QED BY <2>1, <2>5, CapFrame DEF Clean
  <1>5. ASSUME NEW r \in Run, NEW t \in Ticket, TicketFault(r, t) \/ OnFailedFault(r, t) PROVE CapInv'
    BY <1>1, <1>5 DEF TicketFault, OnFailedFault
  <1>6. CASE Disconnect \/ Unlink \/ Relink \/ UNCHANGED vars
    <2>1. UNCHANGED <<queued, truncated, runJob, row, crashes, faults>>
      BY <1>6 DEF Disconnect, Unlink, Relink, vars
    <2> QED BY <2>1, CapFrame DEF Clean
  <1>7. CASE Crash
    BY <1>1, <1>7 DEF Crash
  <1> QED BY <1>2, <1>3, <1>4, <1>5, <1>6, <1>7, CapCoordinator DEF Next

\* A run never takes more than MAX_TICKETS_PER_RUN tickets; when it was cut
\* short and its coordinator is done, the run says so, or why it failed: as long
\* as no statement fails and the backend is not restarted.
THEOREM TruncationIsReported == Spec => []TruncationReported
  <1>1. CapInv => TruncationReported
    BY DEF CapInv, TruncationReported
  <1>2. Init => CapInv
    <2>1. Cardinality({}) = 0
      BY FS_EmptySet
    <2> QED BY <2>1, SyncAssumption DEF Init, CapInv
  <1> QED BY <1>1, <1>2, TypeInit, TypeStep, CleanInit, CleanStep, CapStep, PTL DEF Spec
=============================================================================
