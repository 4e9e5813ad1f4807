------------------------------- MODULE Reports -------------------------------
(***************************************************************************)
(* What the screens and reports count of the rows of TestRuns: one operator *)
(* per query of LegacyService and AutomationService.  Executions are never  *)
(* deleted softly, so that the filters on executions.deleted_at, which some *)
(* of the queries have and some have not, select the same rows.  Runs are   *)
(* numbered in the order of their creation.                                 *)
(***************************************************************************)
EXTENDS TestRuns, Integers, FiniteSetsExt, Functions

CONSTANTS SuiteOf,  \* the suite of each case, None for none
          P1        \* the cases of priority P1

ASSUME ReportsConstants == P1 \subseteq Case /\ SuiteOf \in [Case -> Nat \cup {None}]

Suites == {SuiteOf[c] : c \in Case}

\* SUM, or reduce, over the values of f
SumOf(f) == FoldFunction(LAMBDA x, sum : x + sum, 0, f)

\* Math.round of a percentage
Percent(a, b) == (200 * a + b) \div (2 * b)

With(es, sts) == Cardinality({e \in es : execRow[e].status \in sts})

\* Mutant: a case sent back for retest has no bucket.
BucketsNoRetest(es) ==
  [total |-> Cardinality(es), passed |-> With(es, {"Passed"}), failed |-> With(es, {"Failed"}),
   blocked |-> With(es, {"Blocked"}), skipped |-> With(es, {"Skipped"}),
   untested |-> With(es, {"Untested"})]

\* EXECUTION_BUCKET_COUNTS
Buckets(es) ==
  [total |-> Cardinality(es), passed |-> With(es, {"Passed"}), failed |-> With(es, {"Failed"}),
   blocked |-> With(es, {"Blocked"}), skipped |-> With(es, {"Skipped"}),
   untested |-> With(es, {"Untested", "Retest"})]

listCycles(k) == Buckets(executions(k))

RunsOf(p) == {k \in Cycles : cycleRow[k].plan = p}

planRunRows(p) == [k \in RunsOf(p) |-> Buckets(executions(k))]

planProgressRollup(p) ==
  LET b == Buckets(UNION {executions(k) : k \in RunsOf(p)})
      executed == b.passed + b.failed + b.blocked + b.skipped
  IN  [counts |-> b, runs |-> Cardinality(RunsOf(p)), executed |-> executed,
       percent |-> IF b.total > 0 THEN Percent(executed, b.total) ELSE 0]

listPlans(p) ==
  LET es == UNION {executions(k) : k \in RunsOf(p)}
  IN  [cases |-> Cardinality(planItem[p].cases), runs |-> Cardinality(RunsOf(p)),
       settled |-> With(es, {"Passed", "Failed", "Blocked", "Skipped"})]

\* AutomationService.resultCounts, of which closeRun and getRun answer
resultCounts(k) == Buckets(executions(k))

\* executionReport: the group of an execution
Group(by, e) ==
  CASE by = "person" -> execRow[e].assignee
    [] by = "plan"   -> cycleRow[execRow[e].cycle].plan
    [] by = "suite"  -> SuiteOf[execRow[e].case]
    [] by = "priority" -> execRow[e].case \in P1
    [] OTHER -> execRow[e].cycle

executionReport(by) ==
  [g \in {Group(by, e) : e \in Executions} |->
     [st \in Status |-> With({e \in Executions : Group(by, e) = g}, {st})]]

\* The rows of the traceability matrix: a live case with each of its executions and
\* the bugs that name the execution, if any.
MatrixRows(c) ==
  LET mine == {e \in Executions : execRow[e].case = c}
      bugs(e) == {b \in Bugs : e /= 0 /\ bugRow[b].exec = e}
  IN  UNION {{<<c, e, b>> : b \in IF bugs(e) = {} THEN {None} ELSE bugs(e)} :
               e \in IF mine = {} THEN {0} ELSE mine}

requirementMatrix == UNION {MatrixRows(c) : c \in Live}

analytics ==
  [cases |-> Cardinality(Live), plans |-> Cardinality(Plans), cycles |-> Cardinality(Cycles),
   byStatus |-> [st \in Status |-> With(Executions, {st})], total |-> Cardinality(Executions)]

Executed == Status \ {"Untested"}

cyclePassRateSeries(k) ==
  LET executed == With(executions(k), Executed)
  IN  [total |-> Cardinality(executions(k)), executed |-> executed,
       rate |-> IF executed > 0 THEN Percent(With(executions(k), {"Passed"}), executed) ELSE -1]

OfSuite(g) == {e \in Executions : execRow[e].case \in Live /\ SuiteOf[execRow[e].case] = g}

suiteHealth(g) ==
  LET executed == With(OfSuite(g), Executed)
      pct(st)  == IF executed > 0 THEN Percent(With(OfSuite(g), {st}), executed) ELSE 0
  IN  [executed |-> executed, passed |-> pct("Passed"), failed |-> pct("Failed"),
       blocked |-> pct("Blocked")]

Covered(c) == \E e \in Executions : execRow[e].case = c /\ execRow[e].status \in Executed

coverageBySuite(g) ==
  LET cases == {c \in Live : SuiteOf[c] = g}
      covered == {c \in cases : Covered(c)}
  IN  [total |-> Cardinality(cases), covered |-> Cardinality(covered),
       pct |-> IF cases = {} THEN 0 ELSE Percent(Cardinality(covered), Cardinality(cases))]

untestedP1Count == Cardinality({c \in Live \cap P1 : ~Covered(c)})

\* The runs with a result of case c, and those whose result differs from the one
\* of the run before.
ResultsOf(c) == {e \in Executions : execRow[e].case = c /\ execRow[e].status \in Executed}
FlipsOf(c) ==
  {e \in ResultsOf(c) : \E d \in ResultsOf(c) :
     /\ execRow[d].cycle < execRow[e].cycle
     /\ execRow[d].status /= execRow[e].status
     /\ \A x \in ResultsOf(c) : ~(execRow[d].cycle < execRow[x].cycle
                                    /\ execRow[x].cycle < execRow[e].cycle)}

detectFlakyTests ==
  {c \in Case : Cardinality({execRow[e].status : e \in ResultsOf(c)}) >= 2}

flakinessLabel(c) ==
  LET flips == Cardinality(FlipsOf(c))
      pairs == Cardinality(ResultsOf(c)) - 1
  IN  IF 2 * flips >= pairs THEN "High" ELSE IF 4 * flips >= pairs THEN "Medium" ELSE "Low"

Rated == {k \in Cycles : cyclePassRateSeries(k).rate >= 0}

\* The last rate less the first one; ten runs, or twelve for the trend page, bound it.
trendDelta ==
  IF Cardinality(Rated) < 2 THEN 0
  ELSE cyclePassRateSeries(Max(Rated)).rate - cyclePassRateSeries(Min(Rated)).rate

reportsOverview ==
  [delta |-> trendDelta, flaky |-> Cardinality(detectFlakyTests), untestedP1 |-> untestedP1Count,
   gaps |-> {g \in Suites : coverageBySuite(g).total > 0 /\ coverageBySuite(g).pct < 70}]

Clamp(n) == IF n < 0 THEN 0 ELSE IF n > 100 THEN 100 ELSE n

\* Suites of live cases only are listed; averages are in hundredths.
reportsInsights ==
  LET listed == {g \in Suites : coverageBySuite(g).total > 0}
      avgRate == IF Rated = {} THEN 0
                 ELSE (100 * SumOf([k \in Rated |-> cyclePassRateSeries(k).rate]))
                        \div Cardinality(Rated)
      avgCoverage == IF listed = {} THEN 0
                 ELSE (100 * SumOf([g \in listed |-> coverageBySuite(g).pct]))
                        \div Cardinality(listed)
      bonus == IF untestedP1Count >= 10 THEN 0 ELSE 10 - untestedP1Count
  IN  Clamp((6 * avgRate + 3 * avgCoverage + 1000 * bonus
               - 5000 * Cardinality(detectFlakyTests)) \div 1000)

reportsTrends == [delta |-> trendDelta, velocity |-> [k \in Cycles |-> cyclePassRateSeries(k).executed]]

\* The dashboard's tiles
projectDashboardSummary ==
  LET counts   == analytics
      executed == counts.total - counts.byStatus["Untested"] - counts.byStatus["Retest"]
  IN  [cases |-> counts.cases, executed |-> executed,
       rate |-> IF executed > 0 THEN Percent(counts.byStatus["Passed"], executed) ELSE -1,
       active |-> Cardinality({k \in Cycles : cycleRow[k].status = "In Progress"}),
       openBugs |-> Cardinality({b \in Bugs : bugRow[b].status = "Open"})]

-----------------------------------------------------------------------------
(* Properties *)

BucketSum(b) == b.passed + b.failed + b.blocked + b.skipped + b.untested

\* One run, one answer: the tiles of a run sum to its cases, the plan's header is the
\* sum of the runs beneath it, the execution report groups the same rows whatever it
\* groups by, and the dashboard's executed cases are those of the runs ("a user
\* comparing two screens saw two answers for one run").
RunsAgree ==
  /\ \A k \in Cycles : LET run == listCycles(k) IN BucketSum(run) = run.total
  /\ \A p \in Plans :
       LET header == planProgressRollup(p)
           below  == planRunRows(p)
       IN  /\ header.counts.total = SumOf([k \in RunsOf(p) |-> below[k].total])
           /\ header.executed = listPlans(p).settled
           /\ header.percent \in 0 .. 100
  /\ \A by \in {"person", "plan", "suite", "priority", "run"} :
       LET report == executionReport(by)
       IN  SumOf([g \in DOMAIN report |-> SumOf(report[g])]) = Cardinality(Executions)
  /\ projectDashboardSummary.executed
       = SumOf([k \in Cycles |-> listCycles(k).total - listCycles(k).untested])

\* The two figures about what nobody has run yet agree: a P1 case without a result is
\* missing from the coverage of its suite, and full coverage leaves no such case.
CoverageAgrees ==
  /\ SumOf([g \in Suites |-> coverageBySuite(g).total - coverageBySuite(g).covered])
       >= untestedP1Count
  /\ reportsInsights \in 0 .. 100
  /\ \A c \in detectFlakyTests : FlipsOf(c) /= {}
  /\ \A g \in Suites : suiteHealth(g).executed > 0 => coverageBySuite(g).covered > 0
  /\ requirementMatrix /= {} <=> Live /= {}

\* The screens agree on the rows they count (listCycles, planProgressRollup,
\* executionReport, projectDashboardSummary, coverageBySuite and the rest).
ScreensAgree == RunsAgree /\ CoverageAgrees
=============================================================================
