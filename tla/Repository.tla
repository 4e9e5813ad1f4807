----------------------------- MODULE Repository -----------------------------
(***************************************************************************)
(* The test case repository of one project (LegacyService): suites, test    *)
(* cases, the allocation of their external ids and the file import.         *)
(*                                                                         *)
(* A statement or a transaction of Postgres is one step, except that a      *)
(* transaction which takes the advisory lock and reads the highest number   *)
(* is two: the lock with the read, and the insert with the commit, so that  *)
(* writers which do not take the lock run in between.  Texts are left out;  *)
(* an external id "<KEY>-TC-<n>" is its number n, under one prefix.         *)
(***************************************************************************)
EXTENDS Naturals, FiniteSets, Sequences, Functions

CONSTANTS
  Tc, Suite,       \* ids of testcases and suites rows, initial segments of 1, 2, ...
  Title,           \* normalised titles
  SuiteName,       \* normalised suite names
  Writer,          \* requests that may be in flight at once
  Pinned,          \* external ids callers choose themselves
  Attempts,        \* createTestCase's attempts (5)
  ChunkSize,       \* importTestCases' rows per transaction (1000)
  File,            \* the files to import: sequences of rows
  MaxCalls         \* requests ever made

ASSUME RepositoryConstants ==
  /\ Tc \subseteq Nat \ {0} /\ Suite \subseteq Nat \ {0} /\ Writer \subseteq Nat \ {0}
  /\ IsFiniteSet(Tc) /\ IsFiniteSet(Suite) /\ Pinned \subseteq Nat \ {0}
  /\ File \subseteq Seq([title : STRING, suite : STRING, component : STRING, valid : BOOLEAN])
  /\ Attempts \in Nat \ {0} /\ ChunkSize \in Nat \ {0} /\ MaxCalls \in Nat

VARIABLES
  suite,      \* suites: state, parent (0 for NULL) and name
  tc,         \* testcases: status, title, suite (0 for NULL) and number; and, as history, the
              \* title at insertion, whether under the lock, and the import (or 0) that did it
  idLock,     \* holder of pg_advisory_xact_lock("testcase-external-id:<project>"), or 0
  writer,     \* the requests in flight
  calls       \* requests made so far

repoVars == <<suite, tc, idLock, writer, calls>>

NoSuite == [state |-> "none", parent |-> 0, name |-> ""]
NoTc    == [status |-> "none", title |-> "", suite |-> 0, num |-> 0,
            born |-> "", locked |-> FALSE, import |-> 0]
\* deleteSuite names its suite and mode, the others their rows; an import keeps its
\* snapshot of titles, its cache of suites and its account of the rows.
NoWork  == [op |-> "idle", num |-> 0, attempt |-> 0, suite |-> 0, rows |-> <<>>, at |-> 1,
            titles |-> {}, cache |-> {}, imported |-> 0, errors |-> {}]

RepositoryInit ==
  /\ suite = [s \in Suite |-> NoSuite]
  /\ tc = [c \in Tc |-> NoTc]
  /\ idLock = 0
  /\ writer = [w \in Writer |-> NoWork]
  /\ calls = 0

Suites  == {s \in Suite : suite[s].state = "live"}
Rows    == {c \in Tc : tc[c].status \notin {"none", "gone"}}
Cases   == {c \in Rows : tc[c].status /= "deleted"}

Call  == calls < MaxCalls /\ calls' = calls + 1
Begin(w, r) ==
  /\ Call
  /\ writer[w].op = "idle"
  /\ \A v \in Writer : v < w => writer[v].op /= "idle"
  /\ writer' = [writer EXCEPT ![w] = r]
End(w) == writer' = [writer EXCEPT ![w] = NoWork]

FreeTc(t)     == {c \in Tc : t[c].status = "none"}
FreeSuite(u)  == {s \in Suite : u[s].state = "none"}
FirstOf(ids)  == IF ids = {} THEN 0 ELSE CHOOSE x \in ids : \A y \in ids : x <= y
FreshTc(t)    == FirstOf(FreeTc(t))
FreshSuite(u) == FirstOf(FreeSuite(u))

-----------------------------------------------------------------------------
(* Suites *)

createSuite(p, n) ==
  /\ Call
  /\ p \in Suites \cup {0}
  /\ FreshSuite(suite) /= 0
  /\ suite' = [suite EXCEPT ![FreshSuite(suite)] = [state |-> "live", parent |-> p, name |-> n]]
  /\ UNCHANGED <<tc, idLock, writer>>

\* parent_id = body.parentId ?? null: a rename without a parent moves the suite to the
\* top, and nothing stops it from becoming its own ancestor.
updateSuite(s, p, n) ==
  /\ Call
  /\ s \in Suites /\ p \in Suites \cup {0}
  /\ suite[s].parent /= p \/ suite[s].name /= n
  /\ suite' = [suite EXCEPT ![s].parent = p, ![s].name = n]
  /\ UNCHANGED <<tc, idLock, writer>>

\* The first statement: the suite's cases are unfiled, or deleted for good.
deleteSuite(w, s, mode) ==
  /\ s \in Suites
  /\ Begin(w, [NoWork EXCEPT !.op = "deleteSuite", !.suite = s])
  /\ tc' = [c \in Tc |-> CASE c \notin Rows \/ tc[c].suite /= s -> tc[c]
                           [] mode = "deleteTestcases" -> [tc[c] EXCEPT !.status = "gone", !.num = 0]
                           [] OTHER -> [tc[c] EXCEPT !.suite = 0]]
  /\ UNCHANGED <<suite, idLock>>

\* ON DELETE CASCADE of suites.parent_id.
Below(s) ==
  LET Step(S) == S \cup {x \in Suites : suite[x].parent \in S}
      grown[i \in 0 .. Cardinality(Suite)] == IF i = 0 THEN {s} ELSE Step(grown[i - 1])
  IN  grown[Cardinality(Suite)]

\* The second statement; testcases.suite_id is ON DELETE SET NULL.
DropSuite(w) ==
  LET gone == Below(writer[w].suite) IN
  /\ writer[w].op = "deleteSuite"
  /\ suite' = [s \in Suite |-> IF s \in gone THEN [suite[s] EXCEPT !.state = "gone", !.parent = 0]
                                             ELSE suite[s]]
  /\ tc' = [c \in Tc |-> IF tc[c].suite \in gone THEN [tc[c] EXCEPT !.suite = 0] ELSE tc[c]]
  /\ End(w)
  /\ UNCHANGED <<idLock, calls>>

-----------------------------------------------------------------------------
(* External ids *)

Numbers(t) == {t[c].num : c \in Tc} \ {0}

\* Mutant: the numbers of deleted cases are skipped.
maxExternalIdSeqLive(t) ==
  LET used == {t[c].num : c \in {x \in Tc : t[x].status \in {"Draft", "Archived"}}}
  IN  IF used = {} THEN 0 ELSE CHOOSE n \in used : \A k \in used : k <= n

\* Deleted cases count: the unique index does not exclude them.
maxExternalIdSeq(t) ==
  IF Numbers(t) = {} THEN 0 ELSE CHOOSE n \in Numbers(t) : \A k \in Numbers(t) : k <= n

\* An INSERT into testcases: the unique index on (project_id, external_id) and the foreign
\* key of suite_id may refuse it.
Accepts(u, t, s, n) == n \notin Numbers(t) /\ (s /= 0 => u[s].state = "live")
NewTc(title, s, n, locked, import) ==
  [status |-> "Draft", title |-> title, suite |-> s, num |-> n,
   born |-> title, locked |-> locked, import |-> import]
Inserted(t, title, s, n, locked, import) ==
  [t EXCEPT ![FreshTc(t)] = NewTc(title, s, n, locked, import)]
Room(n) == Cardinality(FreeTc(tc)) >= n

\* The lock and the read of the highest number, in one transaction with the insert.
TakeIdLock(w) ==
  /\ writer[w].op \in {"create", "bulk", "import"}
  /\ idLock = 0
  /\ idLock' = w
  /\ writer' = [writer EXCEPT ![w].op = IF @ = "create" THEN "inserting"
                                        ELSE IF @ = "bulk" THEN "bulkInserting" ELSE "importing",
                              ![w].num = maxExternalIdSeq(tc) + 1]
  /\ UNCHANGED <<suite, tc, calls>>

-----------------------------------------------------------------------------
(* Single test cases *)

createTestCase(w, t, s) ==
  /\ s \in Suites \cup {0}
  /\ Begin(w, [NoWork EXCEPT !.op = "create", !.attempt = 1, !.suite = s,
                             !.rows = <<[title |-> t, pin |-> 0]>>])
  /\ UNCHANGED <<suite, tc, idLock>>

\* Only a collision of the id is retried; the rollback has released the lock.
insertTestCase(w) ==
  LET r == writer[w] IN
  /\ r.op = "inserting" /\ Room(1)
  /\ idLock' = 0
  /\ IF Accepts(suite, tc, r.suite, r.num)
     THEN tc' = Inserted(tc, r.rows[1].title, r.suite, r.num, TRUE, 0) /\ End(w)
     ELSE /\ tc' = tc
          /\ IF r.num \in Numbers(tc) /\ r.attempt < Attempts
             THEN writer' = [writer EXCEPT ![w].op = "create", ![w].attempt = @ + 1]
             ELSE End(w)
  /\ UNCHANGED <<suite, calls>>

\* body.externalId: no lock, no retry.
createPinned(t, n) ==
  /\ Call
  /\ Room(1) /\ Accepts(suite, tc, 0, n)
  /\ tc' = Inserted(tc, t, 0, n, FALSE, 0)
  /\ UNCHANGED <<suite, idLock, writer>>

updateTestCase(c, t, s) ==
  /\ Call
  /\ c \in Cases /\ s \in Suites \cup {0}
  /\ tc[c].title /= t \/ tc[c].suite /= s
  /\ tc' = [tc EXCEPT ![c].title = t, ![c].suite = s]
  /\ UNCHANGED <<suite, idLock, writer>>

\* nextExternalId outside a transaction, the insert in one: nothing is locked between.
duplicateTestCase(w, c) ==
  /\ c \in Cases
  /\ Begin(w, [NoWork EXCEPT !.op = "duplicate", !.num = maxExternalIdSeq(tc) + 1,
                             !.suite = tc[c].suite, !.rows = <<[title |-> tc[c].title, pin |-> 0]>>])
  /\ UNCHANGED <<suite, tc, idLock>>

InsertDuplicate(w) ==
  LET r == writer[w] IN
  /\ r.op = "duplicate" /\ Room(1)
  /\ tc' = IF Accepts(suite, tc, r.suite, r.num)
           THEN Inserted(tc, r.rows[1].title, r.suite, r.num, FALSE, 0) ELSE tc
  /\ End(w)
  /\ UNCHANGED <<suite, idLock, calls>>

bulkDeleteTestCases(S) ==
  /\ Call
  /\ S \cap Cases /= {}
  /\ tc' = [c \in Tc |-> IF c \in S \cap Cases THEN [tc[c] EXCEPT !.status = "deleted"] ELSE tc[c]]
  /\ UNCHANGED <<suite, idLock, writer>>

removeTestCase(c) == c \in Cases /\ bulkDeleteTestCases({c})

\* suiteId: an id moves, "none" (0) clears; absent, it leaves the suite alone.
bulkUpdateTestCases(S, moves, s, status) ==
  /\ Call
  /\ S \cap Cases /= {}
  /\ s \in Suites \cup {0}
  /\ tc' = [c \in Tc |-> IF c \in S \cap Cases
                         THEN [tc[c] EXCEPT !.suite = IF moves THEN s ELSE @, !.status = status]
                         ELSE tc[c]]
  /\ tc' /= tc
  /\ UNCHANGED <<suite, idLock, writer>>

-----------------------------------------------------------------------------
(* A batch: one INSERT, all rows or none *)

bulkCreateTestCases(w, rows) ==
  /\ Begin(w, [NoWork EXCEPT !.op = "bulk", !.rows = rows])
  /\ UNCHANGED <<suite, tc, idLock>>

BulkInsert(w) ==
  LET r      == writer[w]
      nums   == [i \in DOMAIN r.rows |-> IF r.rows[i].pin = 0 THEN r.num + i - 1 ELSE r.rows[i].pin]
      nth(c) == Cardinality({b \in FreeTc(tc) : b <= c})   \* the free id c takes the nth row
  IN
  /\ r.op = "bulkInserting" /\ Room(Len(r.rows))
  /\ idLock' = 0
  /\ tc' = IF IsInjective(nums) /\ Range(nums) \cap Numbers(tc) = {}
           THEN [c \in Tc |-> IF c \in FreeTc(tc) /\ nth(c) <= Len(r.rows)
                              THEN NewTc(r.rows[nth(c)].title, 0, nums[nth(c)], TRUE, 0)
                              ELSE tc[c]]
           ELSE tc
  /\ End(w)
  /\ UNCHANGED <<suite, calls>>

-----------------------------------------------------------------------------
(* Import *)

\* importTestCases before its first chunk: the titles and the suites are read once.
importTestCases(w, f, s) ==
  /\ s \in Suites \cup {0}
  /\ Begin(w, [NoWork EXCEPT !.op = "prepare", !.rows = f, !.suite = s,
                 !.titles = {tc[c].title : c \in Cases},
                 !.cache = {<<suite[x].name, suite[x].parent, x>> : x \in Suites}])
  /\ UNCHANGED <<suite, tc, idLock>>

Chunk(r) == {i \in DOMAIN r.rows : r.at <= i /\ i < r.at + ChunkSize}

\* A row is refused without a title, for a title the project had when the import began, for
\* one that an earlier row has claimed, or for an invalid custom field value; a row that
\* fails for the last reason has claimed its title all the same.
prepareImportRow(r, i) ==
  /\ r.rows[i].title /= ""
  /\ r.rows[i].title \notin r.titles
  /\ \A j \in 1 .. i - 1 : r.rows[j].title /= r.rows[i].title
  /\ r.rows[i].valid

Prepared(r) == {i \in Chunk(r) : prepareImportRow(r, i)}

\* Validation of a chunk, in memory; a chunk with nothing left opens no transaction.
Prepare(w) ==
  LET r == writer[w] IN
  /\ r.op = "prepare" /\ Chunk(r) /= {}
  /\ writer' = [writer EXCEPT ![w].errors = @ \cup (Chunk(r) \ Prepared(r)),
                              ![w].op = IF Prepared(r) = {} THEN "prepare" ELSE "import",
                              ![w].at = IF Prepared(r) = {} THEN @ + ChunkSize ELSE @]
  /\ UNCHANGED <<suite, tc, idLock, calls>>

\* suiteIdByKey: rows of equal key keep the one read last.
Cached(cache, n, p) ==
  LET hits == {e[3] : e \in {x \in cache : x[1] = n /\ x[2] = p}}
  IN  IF hits = {} THEN 0 ELSE CHOOSE x \in hits : \A y \in hits : y <= x

\* One level of resolveImportSuites: the suite of that key, created when the cache has none.
ResolveSuite(d, n, p) ==
  LET hit == Cached(d.cache, n, p)
      new == FreshSuite(d.suite)
  IN  IF hit /= 0 THEN [d EXCEPT !.got = hit]
      ELSE IF p /= 0 /\ d.suite[p].state /= "live" THEN [d EXCEPT !.ok = FALSE]
      ELSE [d EXCEPT !.suite[new] = [state |-> "live", parent |-> p, name |-> n],
                     !.cache = @ \cup {<<n, p, new>>}, !.got = new]

resolveImportSuites(d, row, default) ==
  LET top == IF row.suite = "" THEN [d EXCEPT !.got = default] ELSE ResolveSuite(d, row.suite, 0)
  IN  IF row.component = "" \/ top.got = 0 \/ ~top.ok THEN top
      ELSE ResolveSuite(top, row.component, top.got)

\* One row of insertImportChunk after its suites are resolved, with the number after those of
\* the rows before it; ok turns FALSE when Postgres refuses the number or the suite.
ImportRow(d, w, i) ==
  LET r == writer[w]
      e == resolveImportSuites(d, r.rows[i], r.suite)
  IN  IF e.ok /\ Accepts(e.suite, e.tc, e.got, r.num + d.done)
      THEN [e EXCEPT !.tc = Inserted(e.tc, r.rows[i].title, e.got, r.num + d.done, TRUE, w), !.done = @ + 1]
      ELSE [e EXCEPT !.ok = FALSE]

\* A batch is all or nothing.
BatchRow(d, w, i) == IF d.ok THEN ImportRow(d, w, i) ELSE d

\* A row that fails is rolled back to its savepoint and keeps its number free.
ReplayRow(d, w, i) ==
  LET e == ImportRow(d, w, i) IN IF e.ok THEN e ELSE [d EXCEPT !.errors = @ \cup {i}]

\* The prepared rows of the chunk in the order of the file.
insertImportChunk(d, w) ==
  LET r == writer[w]
      after[n \in 0 .. ChunkSize] ==
        IF n = 0 THEN d ELSE IF r.at + n - 1 \in Prepared(r) THEN BatchRow(after[n - 1], w, r.at + n - 1)
        ELSE after[n - 1]
  IN  after[ChunkSize]

insertImportRowsIndividually(d, w) ==
  LET r == writer[w]
      after[n \in 0 .. ChunkSize] ==
        IF n = 0 THEN d ELSE IF r.at + n - 1 \in Prepared(r) THEN ReplayRow(after[n - 1], w, r.at + n - 1)
        ELSE after[n - 1]
  IN  after[ChunkSize]

\* The chunk's transaction: the batch, or after ROLLBACK TO SAVEPOINT the replay.
ImportChunk(w) ==
  LET r     == writer[w]
      d     == [suite |-> suite, tc |-> tc, cache |-> r.cache, got |-> 0, ok |-> TRUE,
                done |-> 0, errors |-> {}]
      batch == insertImportChunk(d, w)
      e     == IF batch.ok THEN batch ELSE insertImportRowsIndividually(d, w)
  IN
  /\ r.op = "importing" /\ Room(Cardinality(Prepared(r)))
  /\ Cardinality(FreeSuite(suite)) >= 2 * Cardinality(Prepared(r))
  /\ suite' = e.suite /\ tc' = e.tc
  /\ idLock' = 0
  /\ writer' = [writer EXCEPT ![w].op = "prepare", ![w].at = @ + ChunkSize, ![w].cache = e.cache,
                              ![w].imported = @ + e.done, ![w].errors = @ \cup e.errors]
  /\ UNCHANGED calls

ImportResponse(w) ==
  /\ writer[w].op = "prepare" /\ Chunk(writer[w]) = {}
  /\ tc' = [c \in Tc |-> IF tc[c].import = w THEN [tc[c] EXCEPT !.import = 0] ELSE tc[c]]
  /\ End(w)
  /\ UNCHANGED <<suite, idLock, calls>>

-----------------------------------------------------------------------------
(* What the screens read *)

suiteCount(s) == Cardinality({c \in Cases : tc[c].suite = s})

\* The suites asked for (0 is "none"); archived cases only on request.
listTestCases(S, archived) ==
  {c \in Cases : tc[c].suite \in S /\ (archived \/ tc[c].status /= "Archived")}

exportTestCases == Cases

-----------------------------------------------------------------------------
RepositoryNext ==
  \/ \E n \in SuiteName, p \in Suite \cup {0} : createSuite(p, n)
  \/ \E s \in Suite, n \in SuiteName, p \in Suite \cup {0} : updateSuite(s, p, n)
  \/ \E c \in Tc, t \in Title, s \in Suite \cup {0} : updateTestCase(c, t, s)
  \/ \E t \in Title, n \in Pinned : createPinned(t, n)
  \/ \E c \in Tc : removeTestCase(c)
  \/ bulkDeleteTestCases(Tc)
  \/ \E S \in SUBSET Tc, moves \in BOOLEAN, s \in Suite \cup {0}, st \in {"Draft", "Archived"} :
       (moves \/ s = 0) /\ bulkUpdateTestCases(S, moves, s, st)
  \/ \E w \in Writer :
       \/ \E s \in Suite, mode \in {"moveToDefault", "deleteTestcases"} : deleteSuite(w, s, mode)
       \/ \E t \in Title, s \in Suite \cup {0} : createTestCase(w, t, s)
       \/ \E c \in Tc : duplicateTestCase(w, c)
       \/ \E t \in Title, p \in Pinned \cup {0} :
            bulkCreateTestCases(w, <<[title |-> t, pin |-> 0], [title |-> t, pin |-> p]>>)
       \/ \E f \in File, s \in Suite \cup {0} : importTestCases(w, f, s)
       \/ DropSuite(w) \/ TakeIdLock(w) \/ insertTestCase(w) \/ InsertDuplicate(w)
       \/ BulkInsert(w) \/ Prepare(w) \/ ImportChunk(w) \/ ImportResponse(w)

RepositorySpec == RepositoryInit /\ [][RepositoryNext]_repoVars

-----------------------------------------------------------------------------
\* Every row has its fields' types, and the lock is held exactly by the transaction that is
\* between its read of the highest number and its insert.
RepositoryTypeOK ==
  /\ \A s \in Suite : /\ suite[s].state \in {"none", "live", "gone"}
                      /\ suite[s].parent \in Suites \cup {0}
  /\ \A c \in Tc : /\ tc[c].status \in {"none", "Draft", "Archived", "deleted", "gone"}
                   /\ tc[c].suite \in Suites \cup {0} /\ tc[c].num \in Nat
                   /\ tc[c].locked \in BOOLEAN /\ tc[c].import \in Writer \cup {0}
  /\ \A w \in Writer : idLock = w <=> writer[w].op \in {"inserting", "bulkInserting", "importing"}

\* The number a writer read under the advisory lock is still free when it inserts, and so are
\* all above it, unless a writer that takes no lock (a pinned id, a duplicate) took one in
\* between: two locked writers never collide, whatever is created, deleted or imported
\* meanwhile (insertTestCase, bulkCreateTestCases, importTestCases).
LockedIdsFree ==
  \A w \in Writer : idLock = w =>
    \A c \in Tc : tc[c].num >= writer[w].num => ~tc[c].locked

\* When an import answers, every row of its file is either a test case it inserted or a row
\* it names in errors, and `imported` counts exactly the cases it inserted, also when a
\* chunk failed and was replayed row by row (importTestCases).
ImportAccounts ==
  \A w \in Writer : LET r == writer[w] IN
    r.op = "prepare" /\ Chunk(r) = {} =>
      /\ r.imported + Cardinality(r.errors) = Len(r.rows)
      /\ Cardinality({c \in Tc : tc[c].import = w}) = r.imported

\* One import never creates two test cases of the same title, nor one whose title the
\* project had when it began, over all its chunks (prepareImportRow).
ImportNoTwins ==
  \A c \in Tc : tc[c].import /= 0 =>
    /\ tc[c].born \notin writer[tc[c].import].titles
    /\ \A d \in Tc \ {c} : tc[d].import = tc[c].import => tc[d].born /= tc[c].born

\* The suite tree, the repository table and the export tell the same story: the counts of
\* the suites and the unfiled cases add up to the table with its archived rows, which is
\* what the export writes (listSuites, listTestCases, exportTestCases).
RepositoryViewsAgree ==
  /\ \A s \in Suites : suiteCount(s) = Cardinality(listTestCases({s}, TRUE))
  /\ exportTestCases = listTestCases(Suites \cup {0}, TRUE)
  /\ exportTestCases = listTestCases(Suite \cup {0}, FALSE)
                       \cup {c \in Tc : tc[c].status = "Archived"}
=============================================================================
