------------------------------ MODULE Reporter ------------------------------
(***************************************************************************)
(* The Playwright reporter of the SDK against the automation ingest: one    *)
(* run per session, one submission per finished attempt that never blocks   *)
(* the next test, bounded retries over a network that loses requests and    *)
(* answers, and a summary that has to own up to what was lost.              *)
(***************************************************************************)
EXTENDS Naturals, Sequences, FiniteSets

CONSTANTS
  PwSuite,       \* the suites: sequences of tests, each its markers [tags, unread, notes]
  KnownCase,     \* case ids the project has
  PwRetries,     \* Playwright's own retries of a failing test
  Tries          \* TesboClient.retries: tries of one request

VARIABLES
  rp,      \* the reporter: phase, options, run, counters
  sub,     \* the submissions: request id -> [try, st]
  wire,    \* requests on their way to the server: <<request id, try>>
  pw,      \* Playwright: what each test has come to, [next, last]
  ingest   \* the server: runs opened, the row stored per case

reporterVars == <<rp, sub, wire, pw, ingest>>

ASSUME ReporterAssumption == Tries \in Nat \ {0} /\ PwRetries \in Nat

Result == {"pass", "fail"}   \* a skip is submitted as a pass is; timedOut and interrupted as a failure
NoCase == 0
NoRow  == [attempt |-> 0, status |-> "none"]

----------------------------------------------------------------------------
(* tag.ts: the case id of a test.                                           *)

\* The ids its tags carry, or else its annotations'.
foundIds(m) == IF m.tags /= {} THEN m.tags ELSE m.notes

Tests == DOMAIN rp.suite

\* extractCaseId: exactly one id, or an unreadable marker, or an untagged test.
caseIdOf(t)    == IF Cardinality(foundIds(rp.suite[t])) = 1 THEN CHOOSE c \in foundIds(rp.suite[t]) : TRUE ELSE NoCase
isMalformed(t) == caseIdOf(t) = NoCase /\ (rp.suite[t].unread \/ foundIds(rp.suite[t]) /= {})
isUntagged(t)  == caseIdOf(t) = NoCase /\ ~isMalformed(t)

\* scanSuite
caseIds == {caseIdOf(t) : t \in Tests} \ {NoCase}

\* detectRunSource: each recognised CI gives a key that its shards and retries share; an
\* unknown CI and a developer's machine give none.
externalId(ci) == ci \in {"github", "gitlab", "jenkins", "circle", "azure", "bitbucket"}

----------------------------------------------------------------------------
Requests == {<<k, 0, 0>> : k \in {"resolve", "create", "close"}}
            \cup {<<"result", t, a>> : t \in UNION {DOMAIN s : s \in PwSuite}, a \in 1..(PwRetries + 1)}

ReporterInit ==
  /\ \E config \in {"ok", "unconfigured", "incomplete"}, asks \in BOOLEAN, ci \in {"github", "local"}, s \in PwSuite :
       rp = [phase |-> "idle", suite |-> s, config |-> config, ci |-> ci, run |-> 0, lost |-> FALSE,
             strict |-> config = "ok" /\ asks, require |-> config = "unconfigured" /\ asks]
  /\ sub = [q \in Requests |-> [try |-> 0, st |-> "idle"]]
  /\ wire = {}
  /\ pw = [t \in Tests |-> [next |-> 1, last |-> "none"]]
  /\ ingest = [runs |-> 0, row |-> [c \in KnownCase |-> NoRow]]

Sent(q) == [sub EXCEPT ![q] = [try |-> 1, st |-> "waiting"]]
OnWire(q, n) == wire \cup {<<q, n>>}

\* onBegin up to its first request: the configuration, the suite's markers.
onBegin ==
  /\ rp.phase = "idle" /\ UNCHANGED <<pw, ingest>>
  /\ LET throws == \/ rp.config = "incomplete"
                   \/ rp.config = "unconfigured" /\ rp.require
                   \/ rp.config = "ok" /\ rp.strict /\ \E t \in Tests : caseIdOf(t) = NoCase
         off == rp.config = "unconfigured" \/ caseIds = {}
     IN IF throws THEN rp' = [rp EXCEPT !.phase = "thrown"] /\ UNCHANGED <<sub, wire>>
        ELSE IF off THEN rp' = [rp EXCEPT !.phase = "off"] /\ UNCHANGED <<sub, wire>>
        ELSE /\ rp' = [rp EXCEPT !.phase = "resolving"]
             /\ sub' = Sent(<<"resolve", 0, 0>>) /\ wire' = OnWire(<<"resolve", 0, 0>>, 1)

\* The answer of cases/resolve: an unknown id stops a strict run; a failed call does not.
casesResolved ==
  /\ rp.phase = "resolving" /\ UNCHANGED <<pw, ingest>>
  /\ sub[<<"resolve", 0, 0>>].st \in {"ok", "failed"}
  /\ IF sub[<<"resolve", 0, 0>>].st = "ok" /\ rp.strict /\ ~(caseIds \subseteq KnownCase)
       THEN rp' = [rp EXCEPT !.phase = "thrown"] /\ UNCHANGED <<sub, wire>>
       ELSE /\ rp' = [rp EXCEPT !.phase = "creating"]
            /\ sub' = Sent(<<"create", 0, 0>>) /\ wire' = OnWire(<<"create", 0, 0>>, 1)

\* The run is open, or the reporter turns itself off.
runCreated ==
  /\ rp.phase = "creating" /\ UNCHANGED <<sub, wire, pw, ingest>>
  /\ sub[<<"create", 0, 0>>].st \in {"ok", "failed"}
  /\ rp' = [rp EXCEPT !.phase = IF sub[<<"create", 0, 0>>].st = "ok" THEN "running" ELSE "off",
                      !.run = IF sub[<<"create", 0, 0>>].st = "ok" THEN ingest.runs ELSE 0]

\* Playwright finishes an attempt of a test; onTestEnd counts it and starts its submission.
\* (A test whose id cannot be read is counted and left alone.)
onTestEnd(t) ==
  /\ rp.phase = "running" /\ caseIdOf(t) /= NoCase /\ UNCHANGED <<rp, ingest>>
  /\ pw[t].next <= PwRetries + 1 /\ pw[t].last \in {"none", "fail"}
  /\ \E r \in Result : pw' = [pw EXCEPT ![t] = [next |-> @.next + 1, last |-> r]]
  /\ sub' = Sent(<<"result", t, pw[t].next>>) /\ wire' = OnWire(<<"result", t, pw[t].next>>, 1)

----------------------------------------------------------------------------
(* TesboClient.request: up to Tries tries, a timeout each; it resolves  *)
(* whatever happens.                                                        *)

\* The outcome of try n: another try while there is one and the failure is transient, or
\* a failure that is logged and counted.
Fails(q, transient, left) ==
  IF transient /\ sub[q].try < Tries
    THEN /\ sub' = [sub EXCEPT ![q].try = @ + 1] /\ wire' = left \cup {<<q, sub[q].try + 1>>} /\ UNCHANGED rp
    ELSE /\ sub' = [sub EXCEPT ![q].st = "failed"] /\ wire' = left /\ rp' = [rp EXCEPT !.lost = TRUE]

\* No answer in time: the request was lost, its answer was, or it is still under way
\* (a late cases/resolve changes nothing, a late close only repeats itself).
timesOut(q) ==
  /\ sub[q].st = "waiting" /\ UNCHANGED <<pw, ingest>>
  /\ \E late \in (IF q[1] \in {"create", "result"} THEN BOOLEAN ELSE {FALSE}) :
       Fails(q, TRUE, IF late THEN wire ELSE wire \ {<<q, sub[q].try>>})

\* A 5xx before anything is written, or a refusal (403 of a locked project).
refused(q) ==
  /\ sub[q].st = "waiting" /\ <<q, sub[q].try>> \in wire /\ UNCHANGED <<pw, ingest>>
  /\ \E transient \in BOOLEAN : Fails(q, transient, wire \ {<<q, sub[q].try>>})

\* Mutant: a run is opened without a look at its external id.
AppliedAnew(q) ==
  CASE q[1] = "create" -> [ingest EXCEPT !.runs = @ + 1]
    [] q[1] = "result" /\ caseIdOf(q[2]) \in KnownCase ->
         [ingest EXCEPT !.row[caseIdOf(q[2])] = [attempt |-> q[3], status |-> "stored"]]
    [] OTHER -> ingest

\* The ingest applies a request: a run is found by its external id or opened; a result
\* overwrites the row of its case; an unknown case is a 404.
Applied(q) ==
  CASE q[1] = "create" -> [ingest EXCEPT !.runs = IF externalId(rp.ci) /\ @ > 0 THEN @ ELSE @ + 1]
    [] q[1] = "result" /\ caseIdOf(q[2]) \in KnownCase ->
         [ingest EXCEPT !.row[caseIdOf(q[2])] = [attempt |-> q[3], status |-> "stored"]]
    [] OTHER -> ingest

\* Attempts that failed upload their attachments (attachEvidence's default).
Evidence(q) == q[1] = "result" /\ (pw[q[2]].next > q[3] + 1 \/ pw[q[2]].last = "fail")

\* A request reaches the server; its answer is heard only by a try still waiting for it.
served(m) ==
  LET q == m[1]
      heard == sub[q].st = "waiting" /\ sub[q].try = m[2]
      missing == q[1] = "result" /\ caseIdOf(q[2]) \notin KnownCase
  IN /\ m \in wire /\ ingest' = Applied(q) /\ UNCHANGED pw
     /\ wire' = wire \ {m}
     /\ \/ UNCHANGED <<sub, rp>>
        \/ /\ heard /\ ~missing /\ UNCHANGED rp
           /\ sub' = [sub EXCEPT ![q].st = IF Evidence(q) THEN "evidence" ELSE "ok"]
        \/ heard /\ missing /\ sub' = [sub EXCEPT ![q].st = "failed"] /\ rp' = [rp EXCEPT !.lost = TRUE]

\* submitEvidence, once the result is in: a full quota is counted, not an error; a failed
\* upload is a failed request.
submitEvidence(q) ==
  /\ sub[q].st = "evidence" /\ sub' = [sub EXCEPT ![q].st = "ok"]
  /\ \E fails \in BOOLEAN : rp' = [rp EXCEPT !.lost = @ \/ fails]
  /\ UNCHANGED <<wire, pw, ingest>>

----------------------------------------------------------------------------
\* onEnd: when the suite is over, or cut short (the run then closes as incomplete).
onEnd ==
  /\ rp.phase = "running" /\ rp' = [rp EXCEPT !.phase = "draining"]
  /\ UNCHANGED <<sub, wire, pw, ingest>>

Settled(q) == sub[q].st \in {"idle", "ok", "failed"}

\* Promise.allSettled(inFlight), then the run is closed.
drained ==
  /\ rp.phase = "draining" /\ \A q \in Requests : Settled(q)
  /\ rp' = [rp EXCEPT !.phase = "closing"] /\ UNCHANGED <<pw, ingest>>
  /\ sub' = Sent(<<"close", 0, 0>>) /\ wire' = OnWire(<<"close", 0, 0>>, 1)

summarised ==
  /\ rp.phase = "closing" /\ Settled(<<"close", 0, 0>>)
  /\ rp' = [rp EXCEPT !.phase = "done"] /\ UNCHANGED <<sub, wire, pw, ingest>>

ReporterNext ==
  \/ onBegin \/ casesResolved \/ runCreated \/ onEnd \/ drained \/ summarised
  \/ \E t \in Tests : onTestEnd(t)
  \/ \E q \in Requests : timesOut(q) \/ refused(q) \/ submitEvidence(q)
  \/ \E m \in wire : served(m)

ReporterSpec == ReporterInit /\ [][ReporterNext]_reporterVars

----------------------------------------------------------------------------
\* Nothing is lost in silence: when the summary is printed, every attempt that was
\* submitted has reached its row, or the summary reports failed requests.
LossesReported ==
  rp.phase = "done" =>
    \A t \in Tests :
      caseIdOf(t) /= NoCase /\ pw[t].next > 1 =>
        (caseIdOf(t) \in KnownCase /\ ingest.row[caseIdOf(t)] /= NoRow) \/ rp.lost

\* One run per CI session, whatever is lost and retried.
OneRunPerSession == externalId(rp.ci) => ingest.runs <= 1

\* The reporter fails a suite only before its first test, and only where the project asked
\* for it: a half-made configuration, requireConfig, or strict.
SuiteNeverBroken ==
  rp.phase = "thrown" =>
    /\ \A t \in Tests : pw[t].next = 1
    /\ rp.config = "incomplete" \/ rp.require \/ rp.strict

ReporterHonest == LossesReported /\ OneRunPerSession /\ SuiteNeverBroken
=============================================================================
