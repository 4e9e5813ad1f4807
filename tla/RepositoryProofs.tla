--------------------------- MODULE RepositoryProofs ---------------------------
(*****************************************************************************)
(* Proofs about the Repository, for any number of suites, test cases, files  *)
(* and requests in flight, and about the other Screens of the web app, for   *)
(* any number of handlers in flight.                                         *)
(*   RepoInv     the rows of the repository and their types, who holds the   *)
(*               lock and what it has read, and each import's account of     *)
(*               the rows of its file it is done with;                       *)
(*   WorkInv     what the handlers in flight on a screen still have to do:   *)
(*               the flags they will lower, the lists they owe, the locks    *)
(*               only they hold, the dialogs they touch, the forms they sent. *)
(* Both walk a list by a recursive function: the rows of a chunk, the steps  *)
(* of a handler (Climb, Walked).                                             *)
(*****************************************************************************)
EXTENDS Repository, Screens, FiniteSetTheorems, SequenceTheorems, WellFoundedInduction, TLAPS

-----------------------------------------------------------------------------
(* Repository *)

\* The texts there are.
TextsOf(row) == {row.title, row.suite, row.component}
Text == {""} \cup Title \cup SuiteName
        \cup UNION {UNION {TextsOf(f[i]) : i \in DOMAIN f} : f \in File}
Filed    == Suite \cup {0}
SuiteRow == [state : {"none", "live", "gone"}, parent : Filed, name : Text]
CaseRow  == [status : {"none", "Draft", "Archived", "deleted", "gone"}, title : Text, suite : Filed,
             num : Nat, born : Text, locked : BOOLEAN, import : Writer \cup {0}]
SheetRow  == [title : Text, suite : Text, component : Text, valid : BOOLEAN]
BulkRow  == [title : Text, pin : Nat]
Holding  == {"inserting", "bulkInserting", "importing"}
Importing == {"prepare", "import", "importing"}
JobOp    == {"idle", "create", "bulk", "duplicate", "deleteSuite"} \cup Holding \cup Importing
JobRows  == Seq(SheetRow) \cup Seq(BulkRow)
SuiteKey == Text \X Filed \X Filed
Job      == [op : JobOp, num : Nat, attempt : Nat, suite : Filed, rows : JobRows, at : Nat \ {0},
             titles : SUBSET Text, cache : SUBSET SuiteKey, imported : Nat, errors : SUBSET Nat]

RepoType ==
  /\ suite \in [Suite -> SuiteRow] /\ tc \in [Tc -> CaseRow]
  /\ idLock \in Writer \cup {0} /\ writer \in [Writer -> Job]

\* An import has the rows of a file, the others rows of their own.
RowsFit(r) ==
  /\ r.op \in Importing => r.rows \in Seq(SheetRow)
  /\ r.op \in {"create", "inserting", "duplicate"} => r.rows \in Seq(BulkRow) /\ Len(r.rows) = 1
  /\ r.op \in {"bulk", "bulkInserting"} => r.rows \in Seq(BulkRow)

\* The rows of the file an import has done with.
Handled(r) ==
  {i \in DOMAIN r.rows : i < r.at} \cup (IF r.op = "prepare" THEN {} ELSE Chunk(r) \ Prepared(r))

Of(t, w) == {c \in Tc : t[c].import = w}

\* The cases of an import are told apart by the rows of the file, and have none of the titles
\* the project had before.
Claimed(t, w, r, at) ==
  \A c \in Of(t, w) :
    /\ t[c].born \notin r.titles
    /\ \E j \in DOMAIN r.rows : j < at /\ r.rows[j].title = t[c].born
    /\ \A d \in Of(t, w) \ {c} : t[d].born /= t[c].born

\* The account of an import: each row done with is a case or an error.
RowsAccounted(t, w, r) ==
  IF r.op \in Importing
  THEN /\ r.errors \subseteq Handled(r)
       /\ r.imported + Cardinality(r.errors) = Cardinality(Handled(r))
       /\ Cardinality(Of(t, w)) = r.imported
       /\ Claimed(t, w, r, r.at)
  ELSE Of(t, w) = {}

\* The ids drawn under the lock are below the one its holder has read.
DrawnBelow(t, n) == n > 0 /\ \A c \in Tc : t[c].locked => t[c].num < n

Live(u) == {s \in Suite : u[s].state = "live"}

Untouched(t)    == \A c \in Tc : t[c].status = "none" => t[c].import = 0
Homed(t, u) == \A c \in Tc : t[c].suite \in Live(u) \cup {0}

RepoInv ==
  /\ RepoType
  /\ Untouched(tc) /\ Homed(tc, suite)
  /\ \A w \in Writer : idLock = w <=> writer[w].op \in Holding
  /\ \A w \in Writer : idLock = w => DrawnBelow(tc, writer[w].num)
  /\ \A w \in Writer : RowsFit(writer[w]) /\ RowsAccounted(tc, w, writer[w])

-----------------------------------------------------------------------------
\* What holds at 0 and is handed on from each number to the next holds up to any number.
LEMMA Climb ==
  ASSUME NEW K \in Nat, NEW S, 0 \in S, \A n \in 1 .. K : n - 1 \in S => n \in S
  PROVE  0 .. K \subseteq S
<1> DEFINE Bad == (0 .. K) \ S
<1> SUFFICES ASSUME Bad /= {} PROVE FALSE
  OBVIOUS
<1>1. PICK k \in Bad : \A m \in Bad : ~(<<m, k>> \in OpToRel(<, Nat))
  <2>1. Bad \subseteq Nat
    OBVIOUS
  <2> HIDE DEF Bad
  <2> QED BY <2>1, NatLessThanWellFounded, WFMin
<1>2. k \in 0 .. K /\ k \notin S /\ k /= 0
  BY <1>1
<1>3. k - 1 \in Nat /\ k - 1 < k /\ k - 1 \in 0 .. K /\ k \in 1 .. K
  BY <1>2
<1>4. k - 1 \notin Bad
  <2>1. <<k - 1, k>> \in OpToRel(<, Nat)
    BY <1>2, <1>3 DEF OpToRel
  <2> HIDE DEF Bad
  <2> QED BY <1>1, <2>1
<1> QED BY <1>2, <1>3, <1>4

\* What a step hands on from each number to the next can be walked up to any number.
HandsOn(K, V, G, F) ==
  \A n \in 1 .. K : \A v \in V : <<n - 1, v>> \in G => <<n, F[<<n - 1, v>>]>> \in G
Walks(g, K, G, d, F) ==
  \A n \in 0 .. K : <<n, g[n]>> \in G /\ g[n] = IF n = 0 THEN d ELSE F[<<n - 1, g[n - 1]>>]

LEMMA Walked ==
  ASSUME NEW K \in Nat, NEW V, NEW G \in SUBSET ((0 .. K) \X V), NEW d, <<0, d>> \in G, NEW F,
         HandsOn(K, V, G, F)
  PROVE  \E g \in [0 .. K -> V] : Walks(g, K, G, d, F)
<1>0. /\ G \subseteq (0 .. K) \X V
      /\ \A n \in 1 .. K : \A v \in V : <<n - 1, v>> \in G => <<n, F[<<n - 1, v>>]>> \in G
  BY DEF HandsOn
<1> DEFINE S == {k \in 0 .. K : \E g \in [0 .. k -> V] : \A n \in 0 .. k :
                    <<n, g[n]>> \in G /\ g[n] = IF n = 0 THEN d ELSE F[<<n - 1, g[n - 1]>>]}
<1>1. 0 \in S
  <2> DEFINE z == [n \in 0 .. 0 |-> d]
  <2>1. z \in [0 .. 0 -> V] /\ z[0] = d
    OBVIOUS
  <2> HIDE DEF z
  <2>2. \A n \in 0 .. 0 : <<n, z[n]>> \in G /\ z[n] = IF n = 0 THEN d ELSE F[<<n - 1, z[n - 1]>>]
    BY <2>1
  <2>3. 0 \in 0 .. K
    OBVIOUS
  <2> QED BY <2>1, <2>2, <2>3
<1>2. ASSUME NEW k \in 1 .. K, k - 1 \in S PROVE k \in S
  <2>1. PICK g \in [0 .. k - 1 -> V] : \A n \in 0 .. k - 1 :
           <<n, g[n]>> \in G /\ g[n] = IF n = 0 THEN d ELSE F[<<n - 1, g[n - 1]>>]
    BY <1>2
  <2> DEFINE e == F[<<k - 1, g[k - 1]>>]
             h == [n \in 0 .. k |-> IF n = k THEN e ELSE g[n]]
  <2>2. k - 1 \in 0 .. k - 1 /\ k \in Nat /\ g[k - 1] \in V /\ <<k - 1, g[k - 1]>> \in G
    <3>1. k - 1 \in 0 .. k - 1 /\ k \in Nat
      BY <1>2
    <3> QED BY <2>1, <3>1
  <2>3. <<k, e>> \in G /\ e \in V
    <3>1. <<k, e>> \in G
      BY <1>0, <1>2, <2>2
    <3> HIDE DEF e
    <3> QED BY <1>0, <3>1
  <2>4. h \in [0 .. k -> V]
    <3> HIDE DEF e
    <3> QED BY <2>2, <2>3
  <2>5. ASSUME NEW n \in 0 .. k PROVE <<n, h[n]>> \in G /\ h[n] = IF n = 0 THEN d ELSE F[<<n - 1, h[n - 1]>>]
    <3>1. CASE n = k
      <4>1. k - 1 \in 0 .. k /\ k - 1 /= k /\ k /= 0 /\ k \in 0 .. k
        BY <1>2
      <4>2. h[k] = e /\ h[k - 1] = g[k - 1]
        BY <4>1
      <4> HIDE DEF h
      <4> QED BY <2>3, <3>1, <4>1, <4>2
    <3>2. CASE n /= k
      <4>1. n \in 0 .. k - 1
        BY <3>2
      <4>2. n = 0 \/ (n - 1 \in 0 .. k /\ n - 1 /= k)
        BY <4>1
      <4>3. h[n] = g[n] /\ (n = 0 \/ h[n - 1] = g[n - 1])
        BY <3>2, <4>2
      <4> HIDE DEF h
      <4> QED BY <2>1, <4>1, <4>3
    <3> QED BY <3>1, <3>2
  <2>6. k \in 0 .. K
    BY <1>2
  <2> HIDE DEF h
  <2> QED BY <2>4, <2>5, <2>6
<1>3. K \in S
  <2> HIDE DEF S
  <2>1. 0 .. K \subseteq S
    BY <1>1, <1>2, Climb
  <2> QED BY <2>1
<1> QED BY <1>3 DEF Walks

\* A finite set of numbers that is not empty has a greatest one.
LEMMA GreatestIn ==
  ASSUME NEW S, IsFiniteSet(S), S \subseteq Nat, S /= {}
  PROVE  \E m \in S : \A k \in S : k <= m
<1> DEFINE T == {n \in Nat : \A s \in SUBSET S : Cardinality(s) = n + 1 => \E m \in s : \A k \in s : k <= m}
<1>0. ASSUME NEW s \in SUBSET S PROVE IsFiniteSet(s) /\ Cardinality(s) \in Nat
  BY FS_Subset, FS_CardinalityType
<1>1. 0 \in T
  <2>1. ASSUME NEW s \in SUBSET S, Cardinality(s) = 1 PROVE \E m \in s : \A k \in s : k <= m
    <3>1. IsFiniteSet(s)
      BY <1>0
    <3>2. PICK x : s = {x}
      BY <2>1, <3>1, FS_Singleton
    <3> QED BY <3>2
  <2> QED BY <2>1
<1>2. ASSUME NEW n \in Nat \ {0}, n - 1 \in T PROVE n \in T
  <2> SUFFICES ASSUME NEW s \in SUBSET S, Cardinality(s) = n + 1 PROVE \E m \in s : \A k \in s : k <= m
    OBVIOUS
  <2>1. s /= {}
    BY FS_EmptySet
  <2>2. PICK x : x \in s
    BY <2>1
  <2>3. s \ {x} \in SUBSET S /\ Cardinality(s \ {x}) = (n - 1) + 1
    <3>1. IsFiniteSet(s)
      BY <1>0
    <3>2. Cardinality(s \ {x}) = Cardinality(s) - 1
      BY <2>2, <3>1, FS_RemoveElement
    <3>3. (n + 1) - 1 = (n - 1) + 1
      OBVIOUS
    <3> QED BY <3>2, <3>3
  <2>4. PICK m \in s \ {x} : \A k \in s \ {x} : k <= m
    BY <1>2, <2>3
  <2>5. CASE m <= x
    <3>1. \A k \in s : k <= x
      BY <2>2, <2>4, <2>5
    <3> QED BY <2>2, <3>1
  <2>6. CASE ~(m <= x)
    <3>1. \A k \in s : k <= m
      BY <2>2, <2>4, <2>6
    <3> QED BY <2>4, <3>1
  <2> QED BY <2>5, <2>6
<1>3. Cardinality(S) - 1 \in Nat
  BY <1>0, FS_EmptySet
<1>4. Cardinality(S) - 1 \in T
  <2> HIDE DEF T
  <2>1. 0 .. Cardinality(S) - 1 \subseteq T
    BY <1>1, <1>2, <1>3, Climb
  <2> QED BY <1>3, <2>1
<1> QED BY <1>0, <1>4

\* The first of some numbers.
LEMMA FirstOfIn ==
  ASSUME NEW S, S \subseteq Nat, S /= {}
  PROVE  FirstOf(S) \in S
<1>1. PICK x \in S : \A y \in S : ~(<<y, x>> \in OpToRel(<, Nat))
  BY NatLessThanWellFounded, WFMin
<1>2. ASSUME NEW y \in S PROVE x <= y
  <2>1. <<y, x>> \in Nat \X Nat /\ <<y, x>>[1] = y /\ <<y, x>>[2] = x
    OBVIOUS
  <2>2. ~(y < x)
    BY <1>1, <2>1 DEF OpToRel
  <2> QED BY <2>2
<1> QED BY <1>2 DEF FirstOf

\* A number above the highest is above all.
LEMMA HighestSeq ==
  ASSUME NEW t \in [Tc -> CaseRow]
  PROVE  /\ maxExternalIdSeq(t) \in Nat
         /\ \A c \in Tc : t[c].num <= maxExternalIdSeq(t)
<1>1. Numbers(t) \subseteq Nat /\ \A c \in Tc : t[c].num \in Nat /\ (t[c].num \in Numbers(t) \/ t[c].num = 0)
  BY DEF Numbers, CaseRow
<1>2. IsFiniteSet(Numbers(t))
  <2> DEFINE num == [c \in Tc |-> t[c].num]
  <2>1. num \in Surjection(Tc, {num[c] : c \in Tc})
    BY DEF Surjection
  <2>2. IsFiniteSet({num[c] : c \in Tc})
    <3> HIDE DEF num
    <3> QED BY <2>1, FS_Surjection, RepositoryConstants
  <2>3. Numbers(t) \in SUBSET {num[c] : c \in Tc}
    BY DEF Numbers
  <2> QED BY <2>2, <2>3, FS_Subset
<1>3. CASE Numbers(t) = {}
  BY <1>1, <1>3 DEF maxExternalIdSeq
<1>4. CASE Numbers(t) /= {}
  <2>1. \E n \in Numbers(t) : \A k \in Numbers(t) : k <= n
    BY <1>1, <1>2, <1>4, GreatestIn
  <2>2. maxExternalIdSeq(t) \in Numbers(t) /\ \A k \in Numbers(t) : k <= maxExternalIdSeq(t)
    BY <1>4, <2>1 DEF maxExternalIdSeq
  <2> QED BY <1>1, <2>2
<1> QED BY <1>3, <1>4

LEMMA BlankRows == NoSuite \in SuiteRow /\ NoTc \in CaseRow /\ NoWork \in Job
<1>0. "" \in Text /\ 0 \in Filed
  BY DEF Text, Filed
<1>1. NoSuite \in SuiteRow
  BY <1>0 DEF NoSuite, SuiteRow
<1>2. NoTc \in CaseRow
  BY <1>0 DEF NoTc, CaseRow
<1>3. "idle" \in JobOp /\ <<>> \in JobRows /\ {} \in SUBSET SuiteKey
  BY DEF JobOp, JobRows
<1>4. NoWork \in Job
  <2>1. {} \in SUBSET Text /\ {} \in SUBSET Nat /\ 0 \in Nat /\ 1 \in Nat \ {0}
    OBVIOUS
  <2> QED BY <1>0, <1>3, <2>1 DEF NoWork, Job
<1> QED BY <1>1, <1>2, <1>4

\* The files hold rows of a file.
LEMMA SheetRows == \A f \in File : f \in Seq(SheetRow)
<1> SUFFICES ASSUME NEW f \in File PROVE f \in Seq(SheetRow)
  OBVIOUS
<1> DEFINE R == [title : STRING, suite : STRING, component : STRING, valid : BOOLEAN]
<1>1. f \in Seq(R)
  BY RepositoryConstants
<1>2. ASSUME NEW i \in 1 .. Len(f) PROVE f[i] \in SheetRow
  <2>1. f[i] \in R
    <3> HIDE DEF R
    <3> QED BY <1>1
  <2>2. i \in DOMAIN f
    <3> HIDE DEF R
    <3> QED BY <1>1
  <2>3. TextsOf(f[i]) \subseteq Text
    <3> DEFINE U(g) == UNION {TextsOf(g[j]) : j \in DOMAIN g}
    <3>1. TextsOf(f[i]) \subseteq U(f)
      BY ONLY <2>2, Zenon
    <3>2. UNION {U(g) : g \in File} \subseteq Text
      BY ONLY Zenon DEF Text
    <3> HIDE DEF U
    <3>3. U(f) \subseteq UNION {U(g) : g \in File}
      BY ONLY f \in File, Zenon
    <3> QED BY ONLY <3>1, <3>2, <3>3, Zenon
  <2> QED BY <2>1, <2>3 DEF SheetRow, TextsOf
<1> HIDE DEF R
<1> QED BY <1>1, <1>2

\* An INSERT takes a free id and leaves the other rows alone.
Placed(t, u, row) ==
  /\ u \in [Tc -> CaseRow]
  /\ FreshTc(t) \in FreeTc(t)
  /\ u[FreshTc(t)] = row
  /\ \A c \in Tc \ {FreshTc(t)} : u[c] = t[c]
  /\ FreeTc(u) = FreeTc(t) \ {FreshTc(t)}

LEMMA InsertedFacts ==
  ASSUME NEW t \in [Tc -> CaseRow], FreeTc(t) /= {}, NEW row \in CaseRow, row.status /= "none"
  PROVE  Placed(t, [t EXCEPT ![FreshTc(t)] = row], row)
<1> DEFINE u == [t EXCEPT ![FreshTc(t)] = row]
<1>1. FreeTc(t) \subseteq Tc /\ FreeTc(t) \subseteq Nat
  BY RepositoryConstants DEF FreeTc
<1>2. FreshTc(t) \in FreeTc(t)
  BY <1>1, FirstOfIn DEF FreshTc
<1>3. u \in [Tc -> CaseRow] /\ u[FreshTc(t)] = row /\ \A c \in Tc \ {FreshTc(t)} : u[c] = t[c]
  BY <1>1, <1>2
<1> HIDE DEF u
<1>4. FreeTc(u) = FreeTc(t) \ {FreshTc(t)}
  BY <1>1, <1>2, <1>3 DEF FreeTc
<1> QED BY <1>2, <1>3, <1>4 DEF Placed, u

LEMMA RoomIsFree ==
  ASSUME RepoType, NEW n \in Nat \ {0}, Room(n)
  PROVE  FreeTc(tc) /= {}
BY FS_EmptySet DEF Room

-----------------------------------------------------------------------------
\* What the rows of a chunk are inserted into.
ChunkAccount == [suite : [Suite -> SuiteRow], tc : [Tc -> CaseRow], cache : SUBSET SuiteKey, got : Filed,
            ok : BOOLEAN, done : Nat, errors : SUBSET Nat]

\* Resolving a suite creates suites and touches nothing else.
Resolved(d, e) ==
  /\ e \in ChunkAccount
  /\ e.tc = d.tc /\ e.done = d.done /\ e.errors = d.errors
  /\ Live(d.suite) \subseteq Live(e.suite)

LEMMA CachedIn ==
  ASSUME NEW cache \in SUBSET SuiteKey, NEW n, NEW p
  PROVE  Cached(cache, n, p) \in Filed
<1> DEFINE hits == {e[3] : e \in {x \in cache : x[1] = n /\ x[2] = p}}
<1>1. hits \subseteq Filed
  BY DEF SuiteKey
<1>2. Filed \subseteq Nat /\ 0 \in Filed
  BY RepositoryConstants DEF Filed
<1>3. Cached(cache, n, p) = IF hits = {} THEN 0 ELSE CHOOSE x \in hits : \A y \in hits : y <= x
  BY DEF Cached
<1>4. IsFiniteSet(hits)
  <2>1. IsFiniteSet(Filed)
    <3>1. IsFiniteSet(Suite) /\ IsFiniteSet({0})
      BY RepositoryConstants, FS_Singleton
    <3> QED BY <3>1, FS_Union DEF Filed
  <2> HIDE DEF hits
  <2> QED BY <1>1, <2>1, FS_Subset
<1> HIDE DEF hits
<1>5. CASE hits = {}
  BY <1>2, <1>3, <1>5
<1>6. CASE hits /= {}
  <2>1. \E x \in hits : \A y \in hits : y <= x
    BY <1>1, <1>2, <1>4, <1>6, GreatestIn
  <2> QED BY <1>1, <1>3, <1>6, <2>1
<1> QED BY <1>5, <1>6

LEMMA ResolveSuiteFacts ==
  ASSUME NEW d \in ChunkAccount, NEW n \in Text, NEW p \in Filed
  PROVE  Resolved(d, ResolveSuite(d, n, p))
<1> DEFINE hit == Cached(d.cache, n, p)
           new == FreshSuite(d.suite)
           u   == [d.suite EXCEPT ![new] = [state |-> "live", parent |-> p, name |-> n]]
<1>0. /\ d.cache \in SUBSET SuiteKey /\ d.suite \in [Suite -> SuiteRow] /\ d.tc \in [Tc -> CaseRow]
      /\ d.got \in Filed /\ d.done \in Nat /\ d.errors \in SUBSET Nat /\ d.ok \in BOOLEAN
  BY DEF ChunkAccount
<1>1. hit \in Filed
  BY <1>0, CachedIn
<1>2. new \in Filed
  <2>1. FreeSuite(d.suite) \subseteq Suite /\ Suite \subseteq Nat
    BY RepositoryConstants DEF FreeSuite
  <2> QED BY <2>1, FirstOfIn DEF FreshSuite, FirstOf, Filed
<1>3. u \in [Suite -> SuiteRow] /\ Live(d.suite) \subseteq Live(u)
  <2>1. [state |-> "live", parent |-> p, name |-> n] \in SuiteRow
    BY DEF SuiteRow
  <2> QED BY <1>0, <2>1 DEF Live
<1>4. ResolveSuite(d, n, p) = IF hit /= 0 THEN [d EXCEPT !.got = hit]
                              ELSE IF p /= 0 /\ d.suite[p].state /= "live" THEN [d EXCEPT !.ok = FALSE]
                              ELSE [d EXCEPT !.suite = u, !.cache = @ \cup {<<n, p, new>>}, !.got = new]
  BY DEF ResolveSuite
<1>5. {<<n, p, new>>} \subseteq SuiteKey
  BY <1>2 DEF SuiteKey
<1> HIDE DEF hit, new, u
<1>6. Resolved(d, [d EXCEPT !.got = hit])
  BY <1>1 DEF Resolved, ChunkAccount
<1>7. Resolved(d, [d EXCEPT !.ok = FALSE])
  BY DEF Resolved, ChunkAccount
<1>8. Resolved(d, [d EXCEPT !.suite = u, !.cache = @ \cup {<<n, p, new>>}, !.got = new])
  <2> DEFINE k == d.cache \cup {<<n, p, new>>}
  <2>1. k \in SUBSET SuiteKey
    BY <1>0, <1>5
  <2> HIDE DEF k
  <2>2. Resolved(d, [d EXCEPT !.suite = u, !.cache = k, !.got = new])
    BY <1>2, <1>3, <2>1 DEF Resolved, ChunkAccount
  <2> QED BY <2>2 DEF k
<1> QED BY <1>4, <1>6, <1>7, <1>8

LEMMA ResolveFacts ==
  ASSUME NEW d \in ChunkAccount, NEW row \in SheetRow, NEW default \in Filed
  PROVE  Resolved(d, resolveImportSuites(d, row, default))
<1> DEFINE top == IF row.suite = "" THEN [d EXCEPT !.got = default] ELSE ResolveSuite(d, row.suite, 0)
<1>0. row.suite \in Text /\ row.component \in Text /\ 0 \in Filed
  BY DEF SheetRow, Filed
<1>1. Resolved(d, top)
  <2>1. Resolved(d, [d EXCEPT !.got = default])
    BY DEF Resolved, ChunkAccount
  <2> QED BY <1>0, <2>1, ResolveSuiteFacts
<1>2. resolveImportSuites(d, row, default) =
        IF row.component = "" \/ top.got = 0 \/ ~top.ok THEN top
        ELSE ResolveSuite(top, row.component, top.got)
  BY DEF resolveImportSuites
<1> HIDE DEF top
<1>3. top \in ChunkAccount /\ top.got \in Filed
  BY <1>1 DEF Resolved, ChunkAccount
<1>4. Resolved(top, ResolveSuite(top, row.component, top.got))
  BY <1>0, <1>3, ResolveSuiteFacts
<1>5. Resolved(d, ResolveSuite(top, row.component, top.got))
  <2> DEFINE e == ResolveSuite(top, row.component, top.got)
  <2> HIDE DEF e
  <2>1. Resolved(top, e) => Resolved(d, e)
    BY <1>1 DEF Resolved
  <2> QED BY <1>4, <2>1 DEF e
<1> QED BY <1>1, <1>2, <1>5

-----------------------------------------------------------------------------
\* The prepared rows among the chunk's first n.
Taken(r, n) == {i \in Prepared(r) : i < r.at + n}

\* What the transaction has made of the chunk's first n rows, none of which it has given up on.
Reached(x, n, w) ==
  LET r == writer[w] IN
  /\ x \in ChunkAccount /\ x.ok = TRUE
  /\ x.errors \subseteq Taken(r, n)
  /\ x.done + Cardinality(x.errors) = Cardinality(Taken(r, n))
  /\ Cardinality(Prepared(r) \ Taken(r, n)) <= Cardinality(FreeTc(x.tc))
  /\ \A c \in Tc : x.tc[c].suite \in Live(x.suite) \cup {0}
  /\ \A c \in Tc : \/ x.tc[c] = tc[c]
                   \/ tc[c].status = "none" /\ x.tc[c].status /= "none" /\ x.tc[c].import = w
  /\ Cardinality(Of(x.tc, w)) = r.imported + x.done
  /\ Claimed(x.tc, w, r, r.at + n)

\* A transaction at work on a chunk of w's import.
AtWork(w) ==
  /\ RepoType
  /\ writer[w].rows \in Seq(SheetRow)
  /\ Untouched(tc)

LEMMA JobFields ==
  ASSUME NEW r \in Job
  PROVE  /\ r.num \in Nat /\ r.attempt \in Nat /\ r.suite \in Filed /\ r.rows \in JobRows /\ r.at \in Nat \ {0}
         /\ r.titles \in SUBSET Text /\ r.cache \in SUBSET SuiteKey /\ r.imported \in Nat
         /\ r.errors \in SUBSET Nat /\ r.op \in JobOp
BY DEF Job

LEMMA ChunkFacts ==
  ASSUME NEW r \in Job, r.rows \in Seq(SheetRow)
  PROVE  /\ DOMAIN r.rows \subseteq Nat \ {0} /\ IsFiniteSet(DOMAIN r.rows)
         /\ Cardinality(DOMAIN r.rows) = Len(r.rows)
         /\ Chunk(r) \subseteq DOMAIN r.rows /\ Prepared(r) \subseteq Chunk(r)
         /\ IsFiniteSet(Chunk(r)) /\ IsFiniteSet(Prepared(r))
         /\ \A n : Taken(r, n) \subseteq Prepared(r) /\ IsFiniteSet(Taken(r, n))
         /\ \A i \in Chunk(r) : i \in Nat /\ r.at <= i /\ i < r.at + ChunkSize
<1>1. DOMAIN r.rows = 1 .. Len(r.rows) /\ Len(r.rows) \in Nat
  BY DEF SheetRow
<1>2. IsFiniteSet(DOMAIN r.rows) /\ Cardinality(DOMAIN r.rows) = Len(r.rows)
  BY <1>1, FS_Interval
<1>3. Chunk(r) \subseteq DOMAIN r.rows /\ Prepared(r) \subseteq Chunk(r)
  BY DEF Chunk, Prepared
<1>4. IsFiniteSet(Chunk(r)) /\ IsFiniteSet(Prepared(r))
  BY <1>2, <1>3, FS_Subset
<1>5. \A n : Taken(r, n) \subseteq Prepared(r) /\ IsFiniteSet(Taken(r, n))
  <2>1. \A n : Taken(r, n) \subseteq Prepared(r)
    BY DEF Taken
  <2> QED BY <1>4, <2>1, FS_Subset
<1>6. \A i \in Chunk(r) : i \in Nat /\ r.at <= i /\ i < r.at + ChunkSize
  BY <1>1 DEF Chunk
<1> QED BY <1>1, <1>2, <1>3, <1>4, <1>5, <1>6

\* One row more.
LEMMA TakenNext ==
  ASSUME NEW r \in Job, r.rows \in Seq(SheetRow), NEW n \in Nat \ {0}
  PROVE  /\ r.at + n - 1 \in Nat /\ r.at + n = (r.at + n - 1) + 1 /\ r.at + (n - 1) = r.at + n - 1
         /\ r.at + n - 1 \in Prepared(r) => Taken(r, n) = Taken(r, n - 1) \cup {r.at + n - 1}
         /\ r.at + n - 1 \notin Prepared(r) => Taken(r, n) = Taken(r, n - 1)
         /\ r.at + n - 1 \notin Taken(r, n - 1)
         /\ r.at + (n - 1) <= r.at + n /\ r.at \in Nat \ {0}
<1>1. r.at \in Nat \ {0} /\ Prepared(r) \subseteq Nat
  BY ChunkFacts, JobFields
<1>2. \A i \in Prepared(r) : i < r.at + n <=> (i < r.at + (n - 1) \/ i = r.at + n - 1)
  BY <1>1
<1> QED BY <1>1, <1>2 DEF Taken

LEMMA TakenEnds ==
  ASSUME NEW r \in Job, r.rows \in Seq(SheetRow)
  PROVE  Taken(r, 0) = {} /\ Taken(r, ChunkSize) = Prepared(r)
<1>1. \A i \in Prepared(r) : i \in Nat /\ r.at <= i /\ i < r.at + ChunkSize
  BY ChunkFacts
<1>2. r.at \in Nat \ {0} /\ ChunkSize \in Nat
  BY JobFields, RepositoryConstants
<1> QED BY <1>1, <1>2 DEF Taken

\* A row that validation refused is passed over.
LEMMA RowPassed ==
  ASSUME NEW w \in Writer, AtWork(w), NEW n \in Nat \ {0}, NEW x, Reached(x, n - 1, w),
         writer[w].at + n - 1 \notin Prepared(writer[w])
  PROVE  Reached(x, n, w)
<1> DEFINE r == writer[w]
<1>1. r \in Job /\ r.rows \in Seq(SheetRow)
  BY DEF AtWork, RepoType
<1>2. Taken(r, n) = Taken(r, n - 1) /\ r.at + (n - 1) <= r.at + n /\ r.at \in Nat
  <2>1. r.at + n - 1 \notin Prepared(r)
    OBVIOUS
  <2> HIDE DEF r
  <2> QED BY <1>1, <2>1, TakenNext
<1>3. Claimed(x.tc, w, r, r.at + (n - 1)) => Claimed(x.tc, w, r, r.at + n)
  <2>1. \A j \in DOMAIN r.rows : j < r.at + (n - 1) => j < r.at + n
    BY <1>1, <1>2, ChunkFacts
  <2> HIDE DEF r
  <2> QED BY <2>1 DEF Claimed
<1> HIDE DEF r
<1> QED BY <1>2, <1>3 DEF Reached, r

\* A row that Postgres refused is an error.
LEMMA RowRefused ==
  ASSUME NEW w \in Writer, AtWork(w), NEW n \in Nat \ {0}, NEW x, Reached(x, n - 1, w),
         writer[w].at + n - 1 \in Prepared(writer[w])
  PROVE  Reached([x EXCEPT !.errors = @ \cup {writer[w].at + n - 1}], n, w)
<1> DEFINE r == writer[w]
           i == r.at + n - 1
           y == [x EXCEPT !.errors = @ \cup {i}]
<1>1. r \in Job /\ r.rows \in Seq(SheetRow)
  BY DEF AtWork, RepoType
<1>2. /\ Taken(r, n) = Taken(r, n - 1) \cup {i} /\ i \notin Taken(r, n - 1) /\ i \in Nat
      /\ r.at + (n - 1) <= r.at + n /\ r.at \in Nat
  <2>1. r.at + n - 1 \in Prepared(r)
    OBVIOUS
  <2> HIDE DEF r
  <2> QED BY <1>1, <2>1, TakenNext
<1>3. Claimed(x.tc, w, r, r.at + (n - 1)) => Claimed(x.tc, w, r, r.at + n)
  <2>1. \A j \in DOMAIN r.rows : j < r.at + (n - 1) => j < r.at + n
    BY <1>1, <1>2, ChunkFacts
  <2> HIDE DEF r, i, y
  <2> QED BY <2>1 DEF Claimed
<1>4. /\ x \in ChunkAccount /\ x.errors \subseteq Taken(r, n - 1)
      /\ x.done + Cardinality(x.errors) = Cardinality(Taken(r, n - 1))
      /\ Cardinality(Prepared(r) \ Taken(r, n - 1)) <= Cardinality(FreeTc(x.tc))
  BY DEF Reached
<1> HIDE DEF i
<1>5. /\ y \in ChunkAccount /\ y.errors = x.errors \cup {i}
      /\ y.ok = x.ok /\ y.done = x.done /\ y.tc = x.tc /\ y.suite = x.suite
  BY <1>2, <1>4 DEF ChunkAccount
<1>6. /\ Cardinality(Taken(r, n)) = Cardinality(Taken(r, n - 1)) + 1
      /\ Cardinality(y.errors) = Cardinality(x.errors) + 1
      /\ Cardinality(x.errors) \in Nat /\ Cardinality(Taken(r, n - 1)) \in Nat
  <2>1. IsFiniteSet(Taken(r, n - 1))
    BY <1>1, ChunkFacts
  <2> HIDE DEF r, y
  <2>2. IsFiniteSet(x.errors) /\ i \notin x.errors
    BY <1>2, <1>4, <2>1, FS_Subset
  <2> QED BY <1>2, <1>5, <2>1, <2>2, FS_AddElement, FS_CardinalityType
<1>7. Cardinality(Prepared(r) \ Taken(r, n)) <= Cardinality(FreeTc(x.tc))
  <2>1. IsFiniteSet(Prepared(r)) /\ Prepared(r) \ Taken(r, n) \subseteq Prepared(r) \ Taken(r, n - 1)
    BY <1>1, <1>2, ChunkFacts
  <2>2. IsFiniteSet(Prepared(r) \ Taken(r, n - 1))
    <3> HIDE DEF r
    <3> QED BY <2>1, FS_Subset
  <2>3. /\ Cardinality(Prepared(r) \ Taken(r, n)) <= Cardinality(Prepared(r) \ Taken(r, n - 1))
        /\ Cardinality(Prepared(r) \ Taken(r, n)) \in Nat /\ Cardinality(Prepared(r) \ Taken(r, n - 1)) \in Nat
    <3> HIDE DEF r
    <3> QED BY <2>1, <2>2, FS_Subset, FS_CardinalityType
  <2>4. Cardinality(FreeTc(x.tc)) \in Nat
    <3>1. FreeTc(x.tc) \in SUBSET Tc
      BY DEF FreeTc
    <3> QED BY <3>1, FS_Subset, FS_CardinalityType, RepositoryConstants
  <2> HIDE DEF r
  <2> QED BY <1>4, <2>3, <2>4
<1>8. y.done \in Nat /\ y.done + Cardinality(y.errors) = Cardinality(Taken(r, n))
  <2>1. x.done \in Nat
    BY <1>4 DEF ChunkAccount
  <2> HIDE DEF r, y
  <2> QED BY <1>4, <1>5, <1>6, <2>1
<1>9. y.errors \subseteq Taken(r, n)
  BY <1>2, <1>4, <1>5
<1> HIDE DEF r, y
<1> QED BY <1>3, <1>5, <1>7, <1>8, <1>9 DEF Reached, r, y, i

\* Counting one more or one less.
LEMMA OneMore ==
  ASSUME NEW S, IsFiniteSet(S), NEW i
  PROVE  /\ Cardinality(S) \in Nat
         /\ i \notin S => Cardinality(S \cup {i}) = Cardinality(S) + 1 /\ IsFiniteSet(S \cup {i})
         /\ i \in S => Cardinality(S \ {i}) = Cardinality(S) - 1 /\ IsFiniteSet(S \ {i}) /\ Cardinality(S) > 0
<1>1. Cardinality(S) \in Nat
  BY FS_CardinalityType
<1>2. i \notin S => Cardinality(S \cup {i}) = Cardinality(S) + 1 /\ IsFiniteSet(S \cup {i})
  BY FS_AddElement
<1>3. i \in S => Cardinality(S \ {i}) = Cardinality(S) - 1 /\ IsFiniteSet(S \ {i})
  BY FS_RemoveElement
<1>4. i \in S => Cardinality(S) /= 0
  BY FS_EmptySet
<1> QED BY <1>1, <1>2, <1>3, <1>4

LEMMA FiniteCases == ASSUME NEW t, NEW w PROVE IsFiniteSet(FreeTc(t)) /\ IsFiniteSet(Of(t, w))
<1>1. FreeTc(t) \in SUBSET Tc /\ Of(t, w) \in SUBSET Tc
  BY DEF FreeTc, Of
<1> QED BY <1>1, FS_Subset, RepositoryConstants

\* What an inserted row adds to the import's cases.
LEMMA RowClaims ==
  ASSUME NEW w \in Writer, NEW r \in Job, r.rows \in Seq(SheetRow), NEW i, i \in Prepared(r),
         NEW t, NEW u, NEW row, Placed(t, u, row), t[FreshTc(t)].import = 0,
         row.import = w, row.born = r.rows[i].title, Claimed(t, w, r, i)
  PROVE  /\ Of(u, w) = Of(t, w) \cup {FreshTc(t)} /\ FreshTc(t) \notin Of(t, w)
         /\ Claimed(u, w, r, i + 1)
<1> DEFINE f == FreshTc(t)
<1>0. /\ f \in Tc /\ u[f].import = w /\ u[f].born = r.rows[i].title /\ t[f].import = 0
      /\ \A c \in Tc \ {f} : u[c] = t[c]
  BY DEF Placed, FreeTc
<1> HIDE DEF f
<1>1. w /= 0
  BY RepositoryConstants
<1>2. Of(u, w) = Of(t, w) \cup {f} /\ f \notin Of(t, w)
  BY <1>0, <1>1 DEF Of
<1>3. /\ i \in DOMAIN r.rows /\ i \in Nat /\ r.rows[i].title \notin r.titles
      /\ \A j \in 1 .. i - 1 : r.rows[j].title /= r.rows[i].title
      /\ DOMAIN r.rows \subseteq Nat \ {0}
  BY ChunkFacts DEF Prepared, prepareImportRow
<1>4. \A c \in Of(t, w) : u[c] = t[c]
  BY <1>0, <1>2 DEF Of
<1>5. ASSUME NEW c \in Of(t, w)
      PROVE  /\ u[c].born \notin r.titles
             /\ \E j \in DOMAIN r.rows : j < i + 1 /\ r.rows[j].title = u[c].born
             /\ u[c].born /= u[f].born
             /\ \A d \in Of(t, w) \ {c} : u[d].born /= u[c].born
  <2>1. PICK j \in DOMAIN r.rows : j < i /\ r.rows[j].title = t[c].born
    BY DEF Claimed
  <2>2. j < i + 1 /\ j \in 1 .. i - 1
    BY <1>3, <2>1
  <2>3. u[c].born /= u[f].born
    BY <1>0, <1>3, <1>4, <2>1, <2>2
  <2>4. u[c].born \notin r.titles /\ \A d \in Of(t, w) \ {c} : u[d].born /= u[c].born
    BY <1>4 DEF Claimed
  <2>5. j < i + 1 /\ r.rows[j].title = u[c].born
    BY <1>4, <2>1, <2>2
  <2> QED BY <2>1, <2>3, <2>4, <2>5
<1>6. u[f].born \notin r.titles /\ i < i + 1
  BY <1>0, <1>3
<1>7. Claimed(u, w, r, i + 1)
  <2> SUFFICES ASSUME NEW c \in Of(u, w)
               PROVE  /\ u[c].born \notin r.titles
                      /\ \E j \in DOMAIN r.rows : j < i + 1 /\ r.rows[j].title = u[c].born
                      /\ \A d \in Of(u, w) \ {c} : u[d].born /= u[c].born
    BY DEF Claimed
  <2>1. CASE c = f
    BY <1>0, <1>2, <1>3, <1>5, <1>6, <2>1
  <2>2. CASE c /= f
    BY <1>2, <1>5, <2>2
  <2> QED BY <2>1, <2>2
<1> QED BY <1>2, <1>7 DEF f

LEMMA RowInserted ==
  ASSUME NEW w \in Writer, AtWork(w), NEW n \in Nat \ {0}, NEW x, Reached(x, n - 1, w),
         writer[w].at + n - 1 \in Prepared(writer[w])
  PROVE  /\ ImportRow(x, w, writer[w].at + n - 1) \in ChunkAccount
         /\ ImportRow(x, w, writer[w].at + n - 1).ok = TRUE =>
              Reached(ImportRow(x, w, writer[w].at + n - 1), n, w)
<1> DEFINE r == writer[w]
           i == r.at + n - 1
           e == resolveImportSuites(x, r.rows[i], r.suite)
           u == Inserted(e.tc, r.rows[i].title, e.got, r.num + x.done, TRUE, w)
           y == [e EXCEPT !.tc = u, !.done = @ + 1]
           took == e.ok /\ Accepts(e.suite, e.tc, e.got, r.num + x.done)
<1>1. r \in Job /\ r.rows \in Seq(SheetRow)
  BY DEF AtWork, RepoType
<1>2. i \in Prepared(r)
  OBVIOUS
<1>3. /\ Taken(r, n) = Taken(r, n - 1) \cup {i} /\ i \notin Taken(r, n - 1) /\ i \in Nat
      /\ r.at + n = i + 1 /\ r.at + (n - 1) = i
  <2>1. r.at + n - 1 \in Prepared(r)
    OBVIOUS
  <2> HIDE DEF r
  <2> QED BY <1>1, <2>1, TakenNext
<1>4. r.num \in Nat /\ r.suite \in Filed /\ r.rows[i] \in SheetRow /\ r.rows[i].title \in Text
  <2> HIDE DEF r, i
  <2>1. i \in DOMAIN r.rows
    BY <1>1, <1>2, ChunkFacts
  <2>2. r.rows[i] \in SheetRow
    BY <1>1, <2>1
  <2> QED BY <1>1, <2>2, JobFields DEF SheetRow
<1>5. ImportRow(x, w, i) = IF took THEN y ELSE [e EXCEPT !.ok = FALSE]
  BY DEF ImportRow
<1>6. /\ x \in ChunkAccount /\ x.ok = TRUE /\ x.errors \subseteq Taken(r, n - 1)
      /\ x.done + Cardinality(x.errors) = Cardinality(Taken(r, n - 1))
      /\ Cardinality(Prepared(r) \ Taken(r, n - 1)) <= Cardinality(FreeTc(x.tc))
      /\ \A c \in Tc : x.tc[c].suite \in Live(x.suite) \cup {0}
      /\ \A c \in Tc : \/ x.tc[c] = tc[c]
                       \/ tc[c].status = "none" /\ x.tc[c].status /= "none" /\ x.tc[c].import = w
      /\ Cardinality(Of(x.tc, w)) = r.imported + x.done
      /\ Claimed(x.tc, w, r, i)
  BY <1>3 DEF Reached
<1>7. /\ e \in ChunkAccount /\ e.tc = x.tc /\ e.done = x.done /\ e.errors = x.errors
      /\ Live(x.suite) \subseteq Live(e.suite)
  <2> HIDE DEF r, i
  <2> QED BY <1>4, <1>6, ResolveFacts DEF Resolved
<1> HIDE DEF r, i, e
<1>8. /\ x.tc \in [Tc -> CaseRow] /\ x.done \in Nat /\ e.got \in Filed /\ e.suite \in [Suite -> SuiteRow]
      /\ x.errors \in SUBSET Nat /\ x.suite \in [Suite -> SuiteRow] /\ e.cache \in SUBSET SuiteKey
  BY <1>6, <1>7 DEF ChunkAccount
<1>9. IsFiniteSet(Prepared(r)) /\ IsFiniteSet(Taken(r, n - 1)) /\ IsFiniteSet(FreeTc(x.tc)) /\ IsFiniteSet(Of(x.tc, w))
  BY <1>1, ChunkFacts, FiniteCases
<1>10. /\ Prepared(r) \ Taken(r, n) = (Prepared(r) \ Taken(r, n - 1)) \ {i}
       /\ i \in Prepared(r) \ Taken(r, n - 1) /\ IsFiniteSet(Prepared(r) \ Taken(r, n - 1))
  BY <1>2, <1>3, <1>9, FS_Subset
<1>11. FreeTc(x.tc) /= {}
  <2>1. Cardinality(Prepared(r) \ Taken(r, n - 1)) > 0 /\ Cardinality(Prepared(r) \ Taken(r, n - 1)) \in Nat
    BY <1>10, OneMore
  <2>2. Cardinality(FreeTc(x.tc)) > 0
    BY <1>6, <1>9, <2>1, FS_CardinalityType
  <2> QED BY <2>2, FS_EmptySet
<1> DEFINE f == FreshTc(x.tc)
<1>12. PICK row : /\ Placed(x.tc, u, row) /\ row.import = w /\ row.born = r.rows[i].title
                  /\ row.status = "Draft" /\ row.suite = e.got
  <2> DEFINE row == NewTc(r.rows[i].title, e.got, r.num + x.done, TRUE, w)
  <2>1. /\ row \in CaseRow /\ row.status = "Draft" /\ row.import = w /\ row.born = r.rows[i].title
        /\ row.suite = e.got
    BY <1>4, <1>8 DEF NewTc, CaseRow
  <2>3. u = [x.tc EXCEPT ![FreshTc(x.tc)] = row]
    BY <1>7 DEF Inserted
  <2> HIDE DEF u, row, y, took
  <2>4. row.status /= "none"
    BY <2>1
  <2>5. Placed(x.tc, u, row)
    BY <1>8, <1>11, <2>1, <2>3, <2>4, InsertedFacts
  <2> QED BY <2>1, <2>5
<1> HIDE DEF u, f
<1>13. x.tc[f].import = 0 /\ tc[f].status = "none" /\ f \in Tc
  <2>1. x.tc[f].status = "none" /\ f \in Tc
    BY <1>12 DEF FreeTc, Placed, f
  <2> QED BY <1>6, <2>1 DEF AtWork, Untouched
<1>14. /\ u[f].import = w /\ u[f].status = "Draft" /\ u[f].suite = e.got
       /\ u \in [Tc -> CaseRow] /\ f \in FreeTc(x.tc) /\ FreeTc(u) = FreeTc(x.tc) \ {f}
       /\ \A c \in Tc \ {f} : u[c] = x.tc[c]
  BY <1>12 DEF Placed, f
<1>15. /\ Of(u, w) = Of(x.tc, w) \cup {f} /\ f \notin Of(x.tc, w) /\ Claimed(u, w, r, i + 1)
  <2> HIDE DEF y, took
  <2>1. Claimed(x.tc, w, r, i) /\ x.tc[FreshTc(x.tc)].import = 0
    BY <1>6, <1>13 DEF f
  <2> QED BY <1>1, <1>2, <1>12, <2>1, RowClaims DEF f
<1>16. /\ y \in ChunkAccount /\ y.tc = u /\ y.done = x.done + 1 /\ y.errors = x.errors /\ y.suite = e.suite
       /\ y.ok = e.ok /\ [e EXCEPT !.ok = FALSE] \in ChunkAccount /\ [e EXCEPT !.ok = FALSE].ok = FALSE
  <2>1. x.done + 1 \in Nat /\ e.done + 1 = x.done + 1
    BY <1>7, <1>8
  <2>2. y \in ChunkAccount
    BY <1>7, <1>14, <2>1 DEF ChunkAccount
  <2>3. y.tc = u /\ y.done = x.done + 1 /\ y.errors = x.errors /\ y.suite = e.suite /\ y.ok = e.ok
    BY <1>7, <2>1 DEF ChunkAccount
  <2>4. [e EXCEPT !.ok = FALSE] \in ChunkAccount /\ [e EXCEPT !.ok = FALSE].ok = FALSE
    BY <1>7 DEF ChunkAccount
  <2> QED BY <2>2, <2>3, <2>4
<1>17. ASSUME took, e.ok = TRUE PROVE Reached(y, n, w)
  <2>1. e.got \in Live(e.suite) \cup {0}
    <3>1. e.got /= 0 => e.suite[e.got].state = "live"
      BY <1>17 DEF Accepts
    <3> QED BY <1>8, <3>1 DEF Live, Filed
  <2>2. \A c \in Tc : u[c].suite \in Live(e.suite) \cup {0}
    BY <1>6, <1>7, <1>14, <2>1
  <2>3. \A c \in Tc : \/ u[c] = tc[c]
                      \/ tc[c].status = "none" /\ u[c].status /= "none" /\ u[c].import = w
    <3>1. tc[f].status = "none" /\ u[f].status /= "none" /\ u[f].import = w
      BY <1>13, <1>14
    <3>2. \A c \in Tc \ {f} : u[c] = x.tc[c]
      BY <1>14
    <3>3. \A c \in Tc : \/ x.tc[c] = tc[c]
                        \/ tc[c].status = "none" /\ x.tc[c].status /= "none" /\ x.tc[c].import = w
      BY <1>6
    <3> HIDE DEF y, took
    <3> QED BY <3>1, <3>2, <3>3
  <2>4. Cardinality(Taken(r, n)) = Cardinality(Taken(r, n - 1)) + 1 /\ Cardinality(Taken(r, n - 1)) \in Nat
    BY <1>3, <1>9, OneMore
  <2>5. Cardinality(Of(u, w)) = Cardinality(Of(x.tc, w)) + 1 /\ Cardinality(Of(x.tc, w)) \in Nat
    BY <1>9, <1>15, OneMore
  <2>6. /\ Cardinality(FreeTc(u)) = Cardinality(FreeTc(x.tc)) - 1 /\ Cardinality(FreeTc(x.tc)) \in Nat
    BY <1>9, <1>14, OneMore
  <2>7. /\ Cardinality(Prepared(r) \ Taken(r, n)) = Cardinality(Prepared(r) \ Taken(r, n - 1)) - 1
        /\ Cardinality(Prepared(r) \ Taken(r, n - 1)) \in Nat
    BY <1>10, OneMore
  <2>8. Cardinality(x.errors) \in Nat /\ r.imported \in Nat
    BY <1>1, <1>6, <1>9, FS_Subset, FS_CardinalityType, JobFields
  <2>9. /\ (x.done + 1) + Cardinality(x.errors) = Cardinality(Taken(r, n))
        /\ Cardinality(Prepared(r) \ Taken(r, n)) <= Cardinality(FreeTc(u))
        /\ Cardinality(Of(u, w)) = r.imported + (x.done + 1)
    BY <1>6, <1>8, <2>4, <2>5, <2>6, <2>7, <2>8
  <2>10. x.errors \subseteq Taken(r, n)
    BY <1>3, <1>6
  <2> HIDE DEF y
  <2> QED BY <1>3, <1>15, <1>16, <1>17, <2>2, <2>3, <2>9, <2>10 DEF Reached, r
<1> HIDE DEF y
<1>18. ImportRow(x, w, i) \in ChunkAccount
  BY <1>5, <1>16
<1>19. ASSUME ImportRow(x, w, i).ok = TRUE PROVE Reached(ImportRow(x, w, i), n, w)
  <2>1. took /\ ImportRow(x, w, i) = y
    BY <1>5, <1>16, <1>19
  <2>2. e.ok = TRUE
    BY <1>16, <1>19, <2>1
  <2> QED BY <1>17, <2>1, <2>2
<1> QED BY <1>18, <1>19 DEF i, r

LEMMA ReplayRowFacts ==
  ASSUME NEW w \in Writer, AtWork(w), NEW n \in Nat \ {0}, NEW x, Reached(x, n - 1, w),
         writer[w].at + n - 1 \in Prepared(writer[w])
  PROVE  Reached(ReplayRow(x, w, writer[w].at + n - 1), n, w)
<1> DEFINE i == writer[w].at + n - 1
           e == ImportRow(x, w, i)
<1>1. e.ok = TRUE => Reached(e, n, w)
  BY RowInserted
<1>2. Reached([x EXCEPT !.errors = @ \cup {i}], n, w)
  BY RowRefused
<1>3. ReplayRow(x, w, i) = IF e.ok THEN e ELSE [x EXCEPT !.errors = @ \cup {i}]
  BY DEF ReplayRow
<1>4. e.ok \in BOOLEAN
  BY RowInserted DEF ChunkAccount
<1> HIDE DEF e, i
<1>5. Reached(ReplayRow(x, w, i), n, w)
  BY <1>1, <1>2, <1>3, <1>4
<1> QED BY <1>5 DEF i

\* In a batch only as long as no row was refused.
Batched(x, n, w) == x \in ChunkAccount /\ (x.ok = TRUE => Reached(x, n, w))

LEMMA BatchRowFacts ==
  ASSUME NEW w \in Writer, AtWork(w), NEW n \in Nat \ {0}, NEW x, Batched(x, n - 1, w),
         writer[w].at + n - 1 \in Prepared(writer[w])
  PROVE  Batched(BatchRow(x, w, writer[w].at + n - 1), n, w)
<1> DEFINE i == writer[w].at + n - 1
           e == ImportRow(x, w, i)
<1>1. BatchRow(x, w, i) = IF x.ok THEN e ELSE x
  BY DEF BatchRow
<1>2. x \in ChunkAccount /\ x.ok \in BOOLEAN
  BY DEF Batched, ChunkAccount
<1>3. CASE x.ok = TRUE
  <2>1. Reached(x, n - 1, w)
    BY <1>3 DEF Batched
  <2>2. e \in ChunkAccount /\ (e.ok = TRUE => Reached(e, n, w))
    BY <2>1, RowInserted
  <2> HIDE DEF e, i
  <2>3. Batched(BatchRow(x, w, i), n, w)
    BY <1>1, <1>3, <2>2 DEF Batched
  <2> QED BY <2>3 DEF i
<1>4. CASE x.ok = FALSE
  <2> HIDE DEF e, i
  <2>1. Batched(BatchRow(x, w, i), n, w)
    BY <1>1, <1>2, <1>4 DEF Batched
  <2> QED BY <2>1 DEF i
<1> QED BY <1>2, <1>3, <1>4

\* The walks, as the definitions choose them.
ReplayWalk(g, d, w) ==
  g = [n \in 0 .. ChunkSize |->
        IF n = 0 THEN d ELSE IF writer[w].at + n - 1 \in Prepared(writer[w])
                             THEN ReplayRow(g[n - 1], w, writer[w].at + n - 1) ELSE g[n - 1]]
BatchWalk(g, d, w) ==
  g = [n \in 0 .. ChunkSize |->
        IF n = 0 THEN d ELSE IF writer[w].at + n - 1 \in Prepared(writer[w])
                             THEN BatchRow(g[n - 1], w, writer[w].at + n - 1) ELSE g[n - 1]]

LEMMA ReplayIs ==
  ASSUME NEW d, NEW w
  PROVE  insertImportRowsIndividually(d, w) = (CHOOSE g : ReplayWalk(g, d, w))[ChunkSize]
BY DEF insertImportRowsIndividually, ReplayWalk

LEMMA BatchIs ==
  ASSUME NEW d, NEW w
  PROVE  insertImportChunk(d, w) = (CHOOSE g : BatchWalk(g, d, w))[ChunkSize]
BY DEF insertImportChunk, BatchWalk

LEMMA ReplayEnds ==
  ASSUME NEW w \in Writer, AtWork(w), NEW d, Reached(d, 0, w)
  PROVE  Reached(insertImportRowsIndividually(d, w), ChunkSize, w)
<1> DEFINE i(n)    == writer[w].at + n - 1
           P       == Prepared(writer[w])
           Do(v, n) == IF i(n) \in P THEN ReplayRow(v, w, i(n)) ELSE v
           G       == {p \in (0 .. ChunkSize) \X ChunkAccount : Reached(p[2], p[1], w)}
           F       == [p \in G |-> Do(p[2], p[1] + 1)]
<1>0. ChunkSize \in Nat \ {0}
  BY RepositoryConstants
<1>1. ASSUME NEW n \in 1 .. ChunkSize, NEW v, Reached(v, n - 1, w) PROVE Reached(Do(v, n), n, w)
  <2>1. n \in Nat \ {0}
    BY <1>0
  <2>2. CASE i(n) \in P
    BY <1>1, <2>1, <2>2, ReplayRowFacts
  <2>3. CASE i(n) \notin P
    BY <1>1, <2>1, <2>3, RowPassed
  <2> QED BY <2>2, <2>3
<1>2. \A n, v : Reached(v, n, w) => v \in ChunkAccount
  BY DEF Reached
<1>3. \A g : ReplayWalk(g, d, w) <=> g = [n \in 0 .. ChunkSize |-> IF n = 0 THEN d ELSE Do(g[n - 1], n)]
  BY DEF ReplayWalk
<1> HIDE DEF Do
<1>4. \E g : ReplayWalk(g, d, w)
  <2>1. \A n \in 0 .. ChunkSize : \A v : <<n, v>> \in G <=> Reached(v, n, w)
    BY <1>2
  <2>2. \A n \in 1 .. ChunkSize : \A v \in ChunkAccount : <<n - 1, v>> \in G => F[<<n - 1, v>>] = Do(v, n)
    <3> SUFFICES ASSUME NEW n \in 1 .. ChunkSize, NEW v \in ChunkAccount, <<n - 1, v>> \in G
                 PROVE  F[<<n - 1, v>>] = Do(v, n)
      OBVIOUS
    <3>1. (n - 1) + 1 = n
      BY <1>0
    <3> HIDE DEF G
    <3> QED BY <3>1
  <2>3. G \subseteq (0 .. ChunkSize) \X ChunkAccount /\ <<0, d>> \in G
    BY <1>0, <2>1
  <2> HIDE DEF G, F
  <2>4. \A n \in 1 .. ChunkSize : \A v \in ChunkAccount : <<n - 1, v>> \in G => <<n, F[<<n - 1, v>>]>> \in G
    <3> SUFFICES ASSUME NEW n \in 1 .. ChunkSize, NEW v \in ChunkAccount, <<n - 1, v>> \in G
                 PROVE  <<n, F[<<n - 1, v>>]>> \in G
      OBVIOUS
    <3>1. n - 1 \in 0 .. ChunkSize /\ n \in 0 .. ChunkSize
      BY <1>0
    <3> QED BY <1>1, <2>1, <2>2, <3>1
  <2>5. PICK g \in [0 .. ChunkSize -> ChunkAccount] : \A n \in 0 .. ChunkSize :
           <<n, g[n]>> \in G /\ g[n] = IF n = 0 THEN d ELSE F[<<n - 1, g[n - 1]>>]
    <3>1. G \in SUBSET ((0 .. ChunkSize) \X ChunkAccount) /\ HandsOn(ChunkSize, ChunkAccount, G, F) /\ ChunkSize \in Nat
      BY <1>0, <2>3, <2>4 DEF HandsOn
    <3>2. \E g \in [0 .. ChunkSize -> ChunkAccount] : Walks(g, ChunkSize, G, d, F)
      BY <2>3, <3>1, Walked
    <3> QED BY <3>2 DEF Walks
  <2>6. ASSUME NEW n \in 0 .. ChunkSize PROVE g[n] = IF n = 0 THEN d ELSE Do(g[n - 1], n)
    <3>1. CASE n = 0
      BY <2>5, <3>1
    <3>2. CASE n /= 0
      <4>1. n \in 1 .. ChunkSize /\ n - 1 \in 0 .. ChunkSize
        BY <1>0, <3>2
      <4>2. <<n - 1, g[n - 1]>> \in G /\ g[n - 1] \in ChunkAccount
        BY <2>5, <4>1
      <4> QED BY <2>2, <2>5, <3>2, <4>1, <4>2
    <3> QED BY <3>1, <3>2
  <2>7. g = [n \in 0 .. ChunkSize |-> IF n = 0 THEN d ELSE Do(g[n - 1], n)]
    BY <2>6
  <2> QED BY <1>3, <2>7
<1> DEFINE h == CHOOSE g : ReplayWalk(g, d, w)
           S == {n \in 0 .. ChunkSize : Reached(h[n], n, w)}
<1>5. ReplayWalk(h, d, w)
  BY <1>4
<1> HIDE DEF h
<1>6. h = [n \in 0 .. ChunkSize |-> IF n = 0 THEN d ELSE Do(h[n - 1], n)]
  BY <1>3, <1>5
<1>7. 0 \in S
  BY <1>0, <1>6
<1>8. ASSUME NEW n \in 1 .. ChunkSize, n - 1 \in S PROVE n \in S
  <2>1. n \in 0 .. ChunkSize /\ n /= 0
    BY <1>0
  <2>2. h[n] = Do(h[n - 1], n)
    BY <1>6, <2>1
  <2> QED BY <1>1, <1>8, <2>1, <2>2
<1>9. ChunkSize \in S
  <2> HIDE DEF S
  <2>1. 0 .. ChunkSize \subseteq S
    BY <1>0, <1>7, <1>8, Climb
  <2> QED BY <1>0, <2>1
<1> QED BY <1>9, ReplayIs DEF h

LEMMA BatchPassed ==
  ASSUME NEW w \in Writer, AtWork(w), NEW n \in Nat \ {0}, NEW x, Batched(x, n - 1, w),
         writer[w].at + n - 1 \notin Prepared(writer[w])
  PROVE  Batched(x, n, w)
BY RowPassed DEF Batched

LEMMA BatchEnds ==
  ASSUME NEW w \in Writer, AtWork(w), NEW d, Batched(d, 0, w)
  PROVE  Batched(insertImportChunk(d, w), ChunkSize, w)
<1> DEFINE i(n)    == writer[w].at + n - 1
           P       == Prepared(writer[w])
           Do(v, n) == IF i(n) \in P THEN BatchRow(v, w, i(n)) ELSE v
           G       == {p \in (0 .. ChunkSize) \X ChunkAccount : Batched(p[2], p[1], w)}
           F       == [p \in G |-> Do(p[2], p[1] + 1)]
<1>0. ChunkSize \in Nat \ {0}
  BY RepositoryConstants
<1>1. ASSUME NEW n \in 1 .. ChunkSize, NEW v, Batched(v, n - 1, w) PROVE Batched(Do(v, n), n, w)
  <2>1. n \in Nat \ {0}
    BY <1>0
  <2>2. CASE i(n) \in P
    BY <1>1, <2>1, <2>2, BatchRowFacts
  <2>3. CASE i(n) \notin P
    BY <1>1, <2>1, <2>3, BatchPassed
  <2> QED BY <2>2, <2>3
<1>2. \A n, v : Batched(v, n, w) => v \in ChunkAccount
  BY DEF Batched
<1>3. \A g : BatchWalk(g, d, w) <=> g = [n \in 0 .. ChunkSize |-> IF n = 0 THEN d ELSE Do(g[n - 1], n)]
  BY DEF BatchWalk
<1> HIDE DEF Do
<1>4. \E g : BatchWalk(g, d, w)
  <2>1. \A n \in 0 .. ChunkSize : \A v : <<n, v>> \in G <=> Batched(v, n, w)
    BY <1>2
  <2>2. \A n \in 1 .. ChunkSize : \A v \in ChunkAccount : <<n - 1, v>> \in G => F[<<n - 1, v>>] = Do(v, n)
    <3> SUFFICES ASSUME NEW n \in 1 .. ChunkSize, NEW v \in ChunkAccount, <<n - 1, v>> \in G
                 PROVE  F[<<n - 1, v>>] = Do(v, n)
      OBVIOUS
    <3>1. (n - 1) + 1 = n
      BY <1>0
    <3> HIDE DEF G
    <3> QED BY <3>1
  <2>3. G \subseteq (0 .. ChunkSize) \X ChunkAccount /\ <<0, d>> \in G
    BY <1>0, <2>1
  <2> HIDE DEF G, F
  <2>4. \A n \in 1 .. ChunkSize : \A v \in ChunkAccount : <<n - 1, v>> \in G => <<n, F[<<n - 1, v>>]>> \in G
    <3> SUFFICES ASSUME NEW n \in 1 .. ChunkSize, NEW v \in ChunkAccount, <<n - 1, v>> \in G
                 PROVE  <<n, F[<<n - 1, v>>]>> \in G
      OBVIOUS
    <3>1. n - 1 \in 0 .. ChunkSize /\ n \in 0 .. ChunkSize
      BY <1>0
    <3> QED BY <1>1, <2>1, <2>2, <3>1
  <2>5. PICK g \in [0 .. ChunkSize -> ChunkAccount] : \A n \in 0 .. ChunkSize :
           <<n, g[n]>> \in G /\ g[n] = IF n = 0 THEN d ELSE F[<<n - 1, g[n - 1]>>]
    <3>1. G \in SUBSET ((0 .. ChunkSize) \X ChunkAccount) /\ HandsOn(ChunkSize, ChunkAccount, G, F) /\ ChunkSize \in Nat
      BY <1>0, <2>3, <2>4 DEF HandsOn
    <3>2. \E g \in [0 .. ChunkSize -> ChunkAccount] : Walks(g, ChunkSize, G, d, F)
      BY <2>3, <3>1, Walked
    <3> QED BY <3>2 DEF Walks
  <2>6. ASSUME NEW n \in 0 .. ChunkSize PROVE g[n] = IF n = 0 THEN d ELSE Do(g[n - 1], n)
    <3>1. CASE n = 0
      BY <2>5, <3>1
    <3>2. CASE n /= 0
      <4>1. n \in 1 .. ChunkSize /\ n - 1 \in 0 .. ChunkSize
        BY <1>0, <3>2
      <4>2. <<n - 1, g[n - 1]>> \in G /\ g[n - 1] \in ChunkAccount
        BY <2>5, <4>1
      <4> QED BY <2>2, <2>5, <3>2, <4>1, <4>2
    <3> QED BY <3>1, <3>2
  <2>7. g = [n \in 0 .. ChunkSize |-> IF n = 0 THEN d ELSE Do(g[n - 1], n)]
    BY <2>6
  <2> QED BY <1>3, <2>7
<1> DEFINE h == CHOOSE g : BatchWalk(g, d, w)
           S == {n \in 0 .. ChunkSize : Batched(h[n], n, w)}
<1>5. BatchWalk(h, d, w)
  BY <1>4
<1> HIDE DEF h
<1>6. h = [n \in 0 .. ChunkSize |-> IF n = 0 THEN d ELSE Do(h[n - 1], n)]
  BY <1>3, <1>5
<1>7. 0 \in S
  BY <1>0, <1>6
<1>8. ASSUME NEW n \in 1 .. ChunkSize, n - 1 \in S PROVE n \in S
  <2>1. n \in 0 .. ChunkSize /\ n /= 0
    BY <1>0
  <2>2. h[n] = Do(h[n - 1], n)
    BY <1>6, <2>1
  <2> QED BY <1>1, <1>8, <2>1, <2>2
<1>9. ChunkSize \in S
  <2> HIDE DEF S
  <2>1. 0 .. ChunkSize \subseteq S
    BY <1>0, <1>7, <1>8, Climb
  <2> QED BY <1>0, <2>1
<1> QED BY <1>9, BatchIs DEF h

-----------------------------------------------------------------------------
\* The account of v's import is about its own cases only.
Steady(t, u, v) == \A c \in Tc : /\ u[c].import = v <=> t[c].import = v
                                 /\ t[c].import = v => u[c].born = t[c].born

LEMMA AccountKept ==
  ASSUME NEW v, NEW r, NEW t, NEW u, Steady(t, u, v), RowsAccounted(t, v, r)
  PROVE  RowsAccounted(u, v, r)
<1>1. Of(u, v) = Of(t, v) /\ \A c \in Of(t, v) : u[c].born = t[c].born
  BY DEF Of, Steady
<1>2. \A at : Claimed(t, v, r, at) => Claimed(u, v, r, at)
  BY <1>1, Zenon DEF Claimed
<1> QED BY <1>1, <1>2 DEF RowsAccounted

\* Cases moved, edited, deleted or inserted by nobody's import and without the lock.
Gentle(t, u) ==
  \A c \in Tc : /\ u[c].import = t[c].import /\ (t[c].import /= 0 => u[c].born = t[c].born)
                /\ u[c].locked = TRUE => t[c].locked = TRUE /\ u[c].num <= t[c].num

LEMMA GentleSteady == ASSUME NEW t, NEW u, Gentle(t, u), NEW v \in Writer PROVE Steady(t, u, v)
<1>1. v /= 0
  BY RepositoryConstants
<1> QED BY <1>1 DEF Gentle, Steady

LEMMA GentleBelow ==
  ASSUME NEW t \in [Tc -> CaseRow], NEW u \in [Tc -> CaseRow], Gentle(t, u), NEW n \in Nat, DrawnBelow(t, n)
  PROVE  DrawnBelow(u, n)
<1>1. \A c \in Tc : t[c].num \in Nat /\ u[c].num \in Nat /\ u[c].locked \in BOOLEAN
  BY DEF CaseRow
<1> QED BY <1>1 DEF Gentle, DrawnBelow

\* No request changes.
LEMMA RequestsRest ==
  ASSUME RepoInv, UNCHANGED <<idLock, writer>>, suite' \in [Suite -> SuiteRow], tc' \in [Tc -> CaseRow],
         Gentle(tc, tc'), Untouched(tc'), Homed(tc', suite')
  PROVE  RepoInv'
<1>1. RepoType'
  BY DEF RepoInv, RepoType
<1>2. ASSUME NEW v \in Writer PROVE RowsAccounted(tc', v, writer[v])
  <2>1. RowsAccounted(tc, v, writer[v])
    BY DEF RepoInv
  <2> QED BY <2>1, GentleSteady, AccountKept
<1>3. ASSUME NEW v \in Writer, idLock = v PROVE DrawnBelow(tc', writer[v].num)
  <2>1. tc \in [Tc -> CaseRow] /\ writer[v].num \in Nat /\ DrawnBelow(tc, writer[v].num)
    BY <1>3, JobFields DEF RepoInv, RepoType
  <2> QED BY <2>1, GentleBelow
<1> QED BY <1>1, <1>2, <1>3 DEF RepoInv

\* One request changes, outside the lock.
LEMMA RequestMoves ==
  ASSUME RepoInv, NEW w \in Writer, NEW r \in Job, writer' = [writer EXCEPT ![w] = r], UNCHANGED idLock,
         writer[w].op \notin Holding, r.op \notin Holding,
         suite' \in [Suite -> SuiteRow], tc' \in [Tc -> CaseRow],
         \A v \in Writer \ {w} : Steady(tc, tc', v),
         \A c \in Tc : tc'[c].locked = TRUE => tc[c].locked = TRUE /\ tc'[c].num <= tc[c].num,
         Untouched(tc'), Homed(tc', suite'), RowsFit(r), RowsAccounted(tc', w, r)
  PROVE  RepoInv'
<1>1. RepoType'
  BY DEF RepoInv, RepoType
<1>2. \A v \in Writer \ {w} : writer'[v] = writer[v]
  BY DEF RepoInv, RepoType
<1>3. writer'[w] = r
  BY DEF RepoInv, RepoType
<1>4. ASSUME NEW v \in Writer PROVE RowsFit(writer'[v]) /\ RowsAccounted(tc', v, writer'[v])
  <2>1. CASE v = w
    BY <1>3, <2>1
  <2>2. CASE v /= w
    <3>1. RowsFit(writer[v]) /\ RowsAccounted(tc, v, writer[v]) /\ Steady(tc, tc', v)
      BY <2>2 DEF RepoInv
    <3>2. RowsAccounted(tc', v, writer[v])
      BY <3>1, AccountKept
    <3> QED BY <1>2, <2>2, <3>1, <3>2
  <2> QED BY <2>1, <2>2
<1>5. ASSUME NEW v \in Writer, idLock = v PROVE DrawnBelow(tc', writer'[v].num)
  <2>1. v /= w
    BY <1>5 DEF RepoInv
  <2>2. tc \in [Tc -> CaseRow] /\ writer[v].num \in Nat /\ DrawnBelow(tc, writer[v].num)
    BY <1>5, JobFields DEF RepoInv, RepoType
  <2>3. \A c \in Tc : tc[c].num \in Nat /\ tc'[c].num \in Nat /\ tc'[c].locked \in BOOLEAN
    BY <2>2 DEF CaseRow
  <2>4. DrawnBelow(tc', writer[v].num)
    BY <2>2, <2>3 DEF DrawnBelow
  <2> QED BY <1>2, <2>1, <2>4
<1>6. \A v \in Writer : idLock' = v <=> writer'[v].op \in Holding
  BY <1>2, <1>3 DEF RepoInv
<1> QED BY <1>1, <1>4, <1>5, <1>6 DEF RepoInv

\* One request ends the transaction that held the lock.
LEMMA LockReleased ==
  ASSUME RepoInv, NEW w \in Writer, NEW r \in Job, writer' = [writer EXCEPT ![w] = r], idLock' = 0,
         writer[w].op \in Holding, r.op \notin Holding,
         suite' \in [Suite -> SuiteRow], tc' \in [Tc -> CaseRow],
         \A v \in Writer \ {w} : Steady(tc, tc', v),
         Untouched(tc'), Homed(tc', suite'), RowsFit(r), RowsAccounted(tc', w, r)
  PROVE  RepoInv'
<1>1. RepoType'
  BY DEF RepoInv, RepoType
<1>2. \A v \in Writer \ {w} : writer'[v] = writer[v]
  BY DEF RepoInv, RepoType
<1>3. writer'[w] = r
  BY DEF RepoInv, RepoType
<1>4. ASSUME NEW v \in Writer PROVE RowsFit(writer'[v]) /\ RowsAccounted(tc', v, writer'[v])
  <2>1. CASE v = w
    BY <1>3, <2>1
  <2>2. CASE v /= w
    <3>1. RowsFit(writer[v]) /\ RowsAccounted(tc, v, writer[v]) /\ Steady(tc, tc', v)
      BY <2>2 DEF RepoInv
    <3>2. RowsAccounted(tc', v, writer[v])
      BY <3>1, AccountKept
    <3> QED BY <1>2, <2>2, <3>1, <3>2
  <2> QED BY <2>1, <2>2
<1>5. \A v \in Writer : v /= 0
  BY RepositoryConstants
<1>6. \A v \in Writer : idLock' = v <=> writer'[v].op \in Holding
  <2>1. idLock = w
    BY DEF RepoInv
  <2> QED BY <1>2, <1>3, <1>5, <2>1 DEF RepoInv
<1> QED BY <1>1, <1>4, <1>5, <1>6 DEF RepoInv

LEMMA RepoInit == RepositoryInit => RepoInv
<1> SUFFICES ASSUME RepositoryInit PROVE RepoInv
  OBVIOUS
<1>1. RepoType
  BY BlankRows DEF RepositoryInit, RepoType
<1>2. \A c \in Tc : tc[c] = NoTc
  BY DEF RepositoryInit
<1>0. NoTc.import = 0 /\ NoTc.suite = 0
  BY DEF NoTc
<1>3. \A w \in Writer : writer[w] = NoWork /\ w /= 0
  BY RepositoryConstants DEF RepositoryInit
<1>4. Untouched(tc) /\ Homed(tc, suite)
  BY <1>0, <1>2 DEF Untouched, Homed
<1>5. \A w \in Writer : Of(tc, w) = {}
  BY <1>0, <1>2, <1>3 DEF Of
<1>6. \A w \in Writer : RowsAccounted(tc, w, writer[w]) /\ RowsFit(writer[w])
  BY <1>3, <1>5 DEF RowsAccounted, RowsFit, NoWork, Importing
<1>7. \A w \in Writer : idLock /= w /\ writer[w].op \notin Holding
  BY <1>3 DEF RepositoryInit, NoWork, Holding
<1> QED BY <1>1, <1>4, <1>6, <1>7 DEF RepoInv

-----------------------------------------------------------------------------
\* One lemma per action.

LEMMA LiveIn == ASSUME RepoType PROVE Suites = Live(suite) /\ Live(suite) \cup {0} \subseteq Filed
BY DEF Suites, Live, Filed

LEMMA GentleSame == ASSUME RepoType PROVE Gentle(tc, tc)
<1>1. \A c \in Tc : tc[c].num \in Nat
  BY DEF RepoType, CaseRow
<1> QED BY <1>1 DEF Gentle

LEMMA StepCreateSuite ==
  ASSUME RepoInv, NEW n \in SuiteName, NEW p \in Suite \cup {0}, createSuite(p, n)
  PROVE  RepoInv'
<1> DEFINE new == FreshSuite(suite)
           row == [state |-> "live", parent |-> p, name |-> n]
<1>0. RepoType /\ suite \in [Suite -> SuiteRow]
  BY DEF RepoInv, RepoType
<1>1. row \in SuiteRow
  BY DEF SuiteRow, Filed, Text
<1>2. suite' = [suite EXCEPT ![new] = row] /\ UNCHANGED <<tc, idLock, writer>>
  BY DEF createSuite
<1> HIDE DEF new, row
<1>3. suite' \in [Suite -> SuiteRow] /\ Live(suite) \subseteq Live(suite')
  <2>1. row.state = "live"
    BY DEF row
  <2> QED BY <1>0, <1>1, <1>2, <2>1 DEF Live
<1>4. Untouched(tc') /\ Homed(tc', suite') /\ tc' \in [Tc -> CaseRow]
  BY <1>2, <1>3 DEF RepoInv, Homed, RepoType
<1>5. Gentle(tc, tc')
  BY <1>0, <1>2, GentleSame
<1> QED BY <1>2, <1>3, <1>4, <1>5, RequestsRest

LEMMA StepUpdateSuite ==
  ASSUME RepoInv, NEW s \in Suite, NEW n \in SuiteName, NEW p \in Suite \cup {0}, updateSuite(s, p, n)
  PROVE  RepoInv'
<1>0. RepoType /\ suite \in [Suite -> SuiteRow]
  BY DEF RepoInv, RepoType
<1>1. suite' = [suite EXCEPT ![s].parent = p, ![s].name = n] /\ UNCHANGED <<tc, idLock, writer>>
  BY DEF updateSuite
<1>2. n \in Text /\ p \in Filed
  BY DEF Text, Filed
<1>3. suite' \in [Suite -> SuiteRow] /\ Live(suite) \subseteq Live(suite')
  <2>1. suite[s] \in SuiteRow
    BY <1>0
  <2> DEFINE row == [suite[s] EXCEPT !.parent = p, !.name = n]
  <2>2. row \in SuiteRow /\ row.state = suite[s].state
    BY <1>2, <2>1 DEF SuiteRow
  <2>3. suite' = [suite EXCEPT ![s] = row]
    BY <1>0, <1>1
  <2> HIDE DEF row
  <2> QED BY <1>0, <2>2, <2>3 DEF Live
<1>4. Untouched(tc') /\ Homed(tc', suite') /\ tc' \in [Tc -> CaseRow]
  BY <1>1, <1>3 DEF RepoInv, Homed, RepoType
<1>5. Gentle(tc, tc')
  BY <1>0, <1>1, GentleSame
<1> QED BY <1>1, <1>3, <1>4, <1>5, RequestsRest

\* Rows that are edited keep their import, their first title and their place under the lock.
LEMMA RowsEdited ==
  ASSUME RepoInv, NEW u \in [Tc -> CaseRow],
         \A c \in Tc : /\ u[c].import = tc[c].import /\ u[c].born = tc[c].born
                       /\ u[c].locked = tc[c].locked /\ (u[c].num = tc[c].num \/ u[c].num = 0)
                       /\ u[c].status = "none" => tc[c].status = "none"
                       /\ u[c].suite \in Live(suite) \cup {0}
  PROVE  Gentle(tc, u) /\ Untouched(u) /\ Homed(u, suite)
<1>1. \A c \in Tc : tc[c].num \in Nat
  BY DEF RepoInv, RepoType, CaseRow
<1>2. Gentle(tc, u)
  BY <1>1 DEF Gentle
<1>3. Untouched(u) /\ Homed(u, suite)
  BY DEF Untouched, Homed, RepoInv
<1> QED BY <1>2, <1>3

LEMMA StepUpdateTestCase ==
  ASSUME RepoInv, NEW c \in Tc, NEW t \in Title, NEW s \in Suite \cup {0}, updateTestCase(c, t, s)
  PROVE  RepoInv'
<1>0. RepoType /\ tc \in [Tc -> CaseRow] /\ suite \in [Suite -> SuiteRow] /\ Homed(tc, suite)
  BY DEF RepoInv, RepoType
<1>1. tc' = [tc EXCEPT ![c].title = t, ![c].suite = s] /\ UNCHANGED <<suite, idLock, writer>>
  BY DEF updateTestCase
<1>2. t \in Text /\ s \in Filed /\ s \in Live(suite) \cup {0}
  BY <1>0, LiveIn DEF Text, Filed, updateTestCase
<1> DEFINE row == [tc[c] EXCEPT !.title = t, !.suite = s]
<1>3. /\ row \in CaseRow /\ row.import = tc[c].import /\ row.born = tc[c].born
      /\ row.locked = tc[c].locked /\ row.num = tc[c].num /\ row.status = tc[c].status /\ row.suite = s
  <2>1. tc[c] \in CaseRow
    BY <1>0
  <2> QED BY <1>2, <2>1 DEF CaseRow
<1>4. tc' = [tc EXCEPT ![c] = row]
  BY <1>0, <1>1
<1> HIDE DEF row
<1>5. /\ tc' \in [Tc -> CaseRow] /\ tc'[c] = row
      /\ \A d \in Tc \ {c} : tc'[d] = tc[d] /\ tc[d].suite \in Live(suite) \cup {0}
  BY <1>0, <1>3, <1>4 DEF Homed
<1>6. Gentle(tc, tc') /\ Untouched(tc') /\ Homed(tc', suite)
  BY <1>2, <1>3, <1>5, RowsEdited
<1> QED BY <1>0, <1>1, <1>5, <1>6, RequestsRest

LEMMA StepBulkDelete ==
  ASSUME RepoInv, NEW S \in SUBSET Tc, bulkDeleteTestCases(S)
  PROVE  RepoInv'
<1>0. RepoType /\ tc \in [Tc -> CaseRow] /\ suite \in [Suite -> SuiteRow] /\ Homed(tc, suite)
  BY DEF RepoInv, RepoType
<1>1. /\ tc' = [c \in Tc |-> IF c \in S \cap Cases THEN [tc[c] EXCEPT !.status = "deleted"] ELSE tc[c]]
      /\ UNCHANGED <<suite, idLock, writer>>
  BY DEF bulkDeleteTestCases
<1>2. ASSUME NEW c \in Tc
      PROVE  /\ tc'[c] \in CaseRow /\ tc'[c].import = tc[c].import /\ tc'[c].born = tc[c].born
             /\ tc'[c].locked = tc[c].locked /\ tc'[c].num = tc[c].num
             /\ tc'[c].status = "none" => tc[c].status = "none"
             /\ tc'[c].suite \in Live(suite) \cup {0}
  <2>1. tc[c] \in CaseRow /\ tc[c].suite \in Live(suite) \cup {0}
    BY <1>0 DEF Homed
  <2>2. tc'[c] = tc[c] \/ tc'[c] = [tc[c] EXCEPT !.status = "deleted"]
    BY <1>1
  <2> QED BY <2>1, <2>2 DEF CaseRow
<1>3. tc' \in [Tc -> CaseRow]
  BY <1>1, <1>2
<1>6. Gentle(tc, tc') /\ Untouched(tc') /\ Homed(tc', suite)
  BY <1>2, <1>3, RowsEdited
<1> QED BY <1>0, <1>1, <1>3, <1>6, RequestsRest

LEMMA StepRemoveTestCase ==
  ASSUME RepoInv, NEW c \in Tc, removeTestCase(c)
  PROVE  RepoInv'
<1>1. {c} \in SUBSET Tc /\ bulkDeleteTestCases({c})
  BY DEF removeTestCase
<1> QED BY <1>1, StepBulkDelete

LEMMA StepBulkUpdate ==
  ASSUME RepoInv, NEW S \in SUBSET Tc, NEW moves \in BOOLEAN, NEW s \in Suite \cup {0},
         NEW st \in {"Draft", "Archived"}, bulkUpdateTestCases(S, moves, s, st)
  PROVE  RepoInv'
<1>0. RepoType /\ tc \in [Tc -> CaseRow] /\ suite \in [Suite -> SuiteRow] /\ Homed(tc, suite)
  BY DEF RepoInv, RepoType
<1>1. /\ tc' = [c \in Tc |-> IF c \in S \cap Cases
                             THEN [tc[c] EXCEPT !.suite = IF moves THEN s ELSE @, !.status = st] ELSE tc[c]]
      /\ UNCHANGED <<suite, idLock, writer>> /\ s \in Suites \cup {0}
  BY DEF bulkUpdateTestCases
<1>2. s \in Live(suite) \cup {0} /\ s \in Filed
  BY <1>0, <1>1, LiveIn
<1>3. ASSUME NEW c \in Tc
      PROVE  /\ tc'[c] \in CaseRow /\ tc'[c].import = tc[c].import /\ tc'[c].born = tc[c].born
             /\ tc'[c].locked = tc[c].locked /\ tc'[c].num = tc[c].num
             /\ tc'[c].status = "none" => tc[c].status = "none"
             /\ tc'[c].suite \in Live(suite) \cup {0}
  <2>1. tc[c] \in CaseRow /\ tc[c].suite \in Live(suite) \cup {0}
    BY <1>0 DEF Homed
  <2>2. \/ tc'[c] = tc[c] \/ tc'[c] = [tc[c] EXCEPT !.suite = s, !.status = st]
        \/ tc'[c] = [tc[c] EXCEPT !.suite = tc[c].suite, !.status = st]
    BY <1>1
  <2> QED BY <1>2, <2>1, <2>2 DEF CaseRow
<1>4. tc' \in [Tc -> CaseRow]
  BY <1>1, <1>3
<1>6. Gentle(tc, tc') /\ Untouched(tc') /\ Homed(tc', suite)
  BY <1>3, <1>4, RowsEdited
<1> QED BY <1>0, <1>1, <1>4, <1>6, RequestsRest

\* A row inserted by no import and without the lock.
LEMMA InsertedFreely ==
  ASSUME RepoInv, Room(1), NEW title \in Text, NEW s \in Filed, NEW n \in Nat, Accepts(suite, tc, s, n),
         NEW u, u = Inserted(tc, title, s, n, FALSE, 0)
  PROVE  u \in [Tc -> CaseRow] /\ Gentle(tc, u) /\ Untouched(u) /\ Homed(u, suite)
<1> DEFINE row == NewTc(title, s, n, FALSE, 0)
           f   == FreshTc(tc)
<1>0. RepoType /\ tc \in [Tc -> CaseRow] /\ Homed(tc, suite) /\ Untouched(tc)
  BY DEF RepoInv, RepoType
<1>1. /\ row \in CaseRow /\ row.status = "Draft" /\ row.import = 0 /\ row.locked = FALSE /\ row.suite = s
  BY DEF NewTc, CaseRow
<1>2. FreeTc(tc) /= {}
  BY <1>0, RoomIsFree
<1>3. u = [tc EXCEPT ![f] = row]
  BY DEF Inserted
<1>4. s \in Live(suite) \cup {0}
  BY DEF Accepts, Live, Filed
<1> HIDE DEF row
<1>5. row.status /= "none"
  BY <1>1
<1>6. Placed(tc, u, row)
  BY <1>0, <1>1, <1>2, <1>3, <1>5, InsertedFacts
<1>7. /\ u \in [Tc -> CaseRow] /\ f \in Tc /\ tc[f].status = "none" /\ u[f] = row
      /\ \A c \in Tc \ {f} : u[c] = tc[c]
  BY <1>6 DEF Placed, FreeTc
<1> HIDE DEF f
<1>8. tc[f].import = 0 /\ \A c \in Tc : tc[c].num \in Nat
  BY <1>0, <1>7 DEF Untouched, CaseRow
<1>9. Gentle(tc, u)
  <2> SUFFICES ASSUME NEW c \in Tc
               PROVE  /\ u[c].import = tc[c].import /\ (tc[c].import /= 0 => u[c].born = tc[c].born)
                      /\ u[c].locked = TRUE => tc[c].locked = TRUE /\ u[c].num <= tc[c].num
    BY DEF Gentle
  <2>1. CASE c = f
    <3>1. u[f].import = 0 /\ ~(u[f].locked = TRUE) /\ tc[f].import = 0
      BY <1>1, <1>7, <1>8
    <3> QED BY <2>1, <3>1
  <2>2. CASE c /= f
    <3>1. u[c] = tc[c] /\ tc[c].num \in Nat
      BY <1>7, <1>8, <2>2
    <3>2. tc[c].num <= tc[c].num
      BY <3>1
    <3> QED BY <3>1, <3>2, Zenon
  <2> QED BY <2>1, <2>2
<1>10. Untouched(u) /\ Homed(u, suite)
  BY <1>0, <1>1, <1>4, <1>7 DEF Untouched, Homed
<1> QED BY <1>7, <1>9, <1>10

LEMMA StepCreatePinned ==
  ASSUME RepoInv, NEW t \in Title, NEW n \in Pinned, createPinned(t, n)
  PROVE  RepoInv'
<1>0. RepoType /\ suite \in [Suite -> SuiteRow]
  BY DEF RepoInv, RepoType
<1>1. /\ tc' = Inserted(tc, t, 0, n, FALSE, 0) /\ UNCHANGED <<suite, idLock, writer>>
      /\ Room(1) /\ Accepts(suite, tc, 0, n)
  BY DEF createPinned
<1>2. t \in Text /\ 0 \in Filed /\ n \in Nat
  BY RepositoryConstants DEF Text, Filed
<1>3. tc' \in [Tc -> CaseRow] /\ Gentle(tc, tc') /\ Untouched(tc') /\ Homed(tc', suite)
  BY <1>1, <1>2, InsertedFreely
<1> QED BY <1>0, <1>1, <1>3, RequestsRest

\* A request begins.
LEMMA RequestBegins ==
  ASSUME RepoInv, NEW w \in Writer, NEW r \in Job, Begin(w, r), r.op \notin Holding, RowsFit(r),
         r.op \in Importing => r.op = "prepare" /\ r.at = 1 /\ r.imported = 0 /\ r.errors = {},
         UNCHANGED <<suite, idLock>>, tc' \in [Tc -> CaseRow], Gentle(tc, tc'), Untouched(tc'), Homed(tc', suite)
  PROVE  RepoInv'
<1>1. writer' = [writer EXCEPT ![w] = r] /\ writer[w].op = "idle"
  BY DEF Begin
<1>2. writer[w].op \notin Holding /\ writer[w].op \notin Importing
  BY <1>1 DEF Holding, Importing
<1>3. Of(tc, w) = {}
  BY <1>2 DEF RepoInv, RowsAccounted
<1>4. Of(tc', w) = {}
  BY <1>3 DEF Gentle, Of
<1>5. RowsAccounted(tc', w, r)
  <2>1. CASE r.op \in Importing
    <3>1. r.rows \in Seq(SheetRow) /\ r.at = 1 /\ r.op = "prepare" /\ r.errors = {} /\ r.imported = 0
      BY <2>1 DEF RowsFit
    <3>2. \A i \in DOMAIN r.rows : ~(i < r.at)
      BY <3>1, ChunkFacts
    <3>3. Handled(r) = {}
      BY <3>1, <3>2 DEF Handled
    <3>4. Cardinality(Of(tc', w)) = 0 /\ Cardinality(r.errors) = 0 /\ Cardinality(Handled(r)) = 0
      BY <1>4, <3>1, <3>3, FS_EmptySet
    <3>5. Claimed(tc', w, r, r.at)
      BY <1>4 DEF Claimed
    <3> QED BY <2>1, <3>1, <3>3, <3>4, <3>5 DEF RowsAccounted
  <2>2. CASE r.op \notin Importing
    BY <1>4, <2>2 DEF RowsAccounted
  <2> QED BY <2>1, <2>2
<1>6. \A v \in Writer \ {w} : Steady(tc, tc', v)
  BY GentleSteady
<1>7. \A c \in Tc : tc'[c].locked = TRUE => tc[c].locked = TRUE /\ tc'[c].num <= tc[c].num
  BY DEF Gentle
<1>8. UNCHANGED idLock /\ suite' \in [Suite -> SuiteRow] /\ Homed(tc', suite')
  BY DEF RepoInv, RepoType
<1> QED BY <1>1, <1>2, <1>5, <1>6, <1>7, <1>8, RequestMoves

LEMMA RowsKept ==
  ASSUME RepoInv, UNCHANGED <<suite, tc>>
  PROVE  tc' \in [Tc -> CaseRow] /\ Gentle(tc, tc') /\ Untouched(tc') /\ Homed(tc', suite)
<1>1. RepoType /\ Gentle(tc, tc) /\ Untouched(tc) /\ Homed(tc, suite)
  BY GentleSame DEF RepoInv
<1> QED BY <1>1 DEF RepoType

\* One row of one's own.
LEMMA SingleRow ==
  ASSUME NEW title \in Text, NEW pin \in Nat
  PROVE  <<[title |-> title, pin |-> pin]>> \in Seq(BulkRow) /\ Len(<<[title |-> title, pin |-> pin]>>) = 1
<1> DEFINE b == [title |-> title, pin |-> pin]
<1>1. b \in BulkRow
  BY DEF BulkRow
<1> HIDE DEF b
<1>2. <<b>> \in Seq(BulkRow) /\ Len(<<b>>) = 1
  BY <1>1
<1> QED BY <1>2 DEF b

LEMMA StepCreateTestCase ==
  ASSUME RepoInv, NEW w \in Writer, NEW t \in Title, NEW s \in Suite \cup {0}, createTestCase(w, t, s)
  PROVE  RepoInv'
<1> DEFINE rows == <<[title |-> t, pin |-> 0]>>
           r    == [NoWork EXCEPT !.op = "create", !.attempt = 1, !.suite = s, !.rows = rows]
<1>1. rows \in Seq(BulkRow) /\ Len(rows) = 1
  BY SingleRow DEF Text
<1>2. Begin(w, r) /\ UNCHANGED <<suite, tc, idLock>>
  BY DEF createTestCase
<1> HIDE DEF rows
<1>3. /\ r \in Job /\ r.op = "create" /\ r.rows = rows
  <2>1. rows \in JobRows /\ "create" \in JobOp /\ s \in Filed /\ NoWork \in Job
    BY <1>1, BlankRows DEF JobRows, JobOp, Filed
  <2> QED BY <2>1 DEF Job, NoWork
<1> HIDE DEF r
<1>4. r.op \notin Holding /\ r.op \notin Importing /\ RowsFit(r)
  BY <1>1, <1>3 DEF Holding, Importing, RowsFit
<1>5. tc' \in [Tc -> CaseRow] /\ Gentle(tc, tc') /\ Untouched(tc') /\ Homed(tc', suite)
  BY <1>2, RowsKept
<1> QED BY <1>2, <1>3, <1>4, <1>5, RequestBegins

LEMMA StepDeleteSuite ==
  ASSUME RepoInv, NEW w \in Writer, NEW s \in Suite, NEW mode, deleteSuite(w, s, mode)
  PROVE  RepoInv'
<1> DEFINE r == [NoWork EXCEPT !.op = "deleteSuite", !.suite = s]
<1>0. RepoType /\ tc \in [Tc -> CaseRow] /\ Homed(tc, suite)
  BY DEF RepoInv, RepoType
<1>1. /\ Begin(w, r) /\ UNCHANGED <<suite, idLock>>
      /\ tc' = [c \in Tc |-> CASE c \notin Rows \/ tc[c].suite /= s -> tc[c]
                               [] mode = "deleteTestcases" -> [tc[c] EXCEPT !.status = "gone", !.num = 0]
                               [] OTHER -> [tc[c] EXCEPT !.suite = 0]]
  BY DEF deleteSuite
<1>2. r \in Job /\ r.op = "deleteSuite"
  <2>1. "deleteSuite" \in JobOp /\ s \in Filed /\ NoWork \in Job
    BY BlankRows DEF JobOp, Filed
  <2> QED BY <2>1 DEF Job, NoWork
<1> HIDE DEF r
<1>3. r.op \notin Holding /\ r.op \notin Importing /\ RowsFit(r)
  BY <1>2 DEF Holding, Importing, RowsFit
<1>4. ASSUME NEW c \in Tc
      PROVE  /\ tc'[c] \in CaseRow /\ tc'[c].import = tc[c].import /\ tc'[c].born = tc[c].born
             /\ tc'[c].locked = tc[c].locked /\ (tc'[c].num = tc[c].num \/ tc'[c].num = 0)
             /\ tc'[c].status = "none" => tc[c].status = "none"
             /\ tc'[c].suite \in Live(suite) \cup {0}
  <2>1. tc[c] \in CaseRow /\ tc[c].suite \in Live(suite) \cup {0}
    BY <1>0 DEF Homed
  <2> DEFINE dead == [tc[c] EXCEPT !.status = "gone", !.num = 0]
             bare == [tc[c] EXCEPT !.suite = 0]
  <2>2. 0 \in Filed /\ 0 \in Nat
    BY DEF Filed
  <2>3. /\ dead \in CaseRow /\ dead.import = tc[c].import /\ dead.born = tc[c].born
        /\ dead.locked = tc[c].locked /\ dead.num = 0 /\ dead.status = "gone" /\ dead.suite = tc[c].suite
    BY <2>1 DEF CaseRow
  <2>4. /\ bare \in CaseRow /\ bare.import = tc[c].import /\ bare.born = tc[c].born
        /\ bare.locked = tc[c].locked /\ bare.num = tc[c].num /\ bare.status = tc[c].status /\ bare.suite = 0
    BY <2>1, <2>2 DEF CaseRow
  <2>5. tc'[c] = CASE c \notin Rows \/ tc[c].suite /= s -> tc[c]
                   [] mode = "deleteTestcases" -> dead
                   [] OTHER -> bare
    BY <1>1, Zenon
  <2> HIDE DEF dead, bare
  <2>6. CASE tc'[c] = tc[c]
    BY <2>1, <2>6
  <2>7. CASE tc'[c] = dead
    BY <2>1, <2>3, <2>7
  <2>8. CASE tc'[c] = bare
    BY <2>4, <2>8
  <2>9. tc'[c] = tc[c] \/ tc'[c] = dead \/ tc'[c] = bare
    BY <2>5
  <2> QED BY <2>6, <2>7, <2>8, <2>9
<1>5. tc' \in [Tc -> CaseRow]
  BY <1>1, <1>4
<1>6. Gentle(tc, tc') /\ Untouched(tc') /\ Homed(tc', suite)
  BY <1>4, <1>5, RowsEdited
<1> QED BY <1>1, <1>2, <1>3, <1>5, <1>6, RequestBegins

LEMMA StepDuplicate ==
  ASSUME RepoInv, NEW w \in Writer, NEW c \in Tc, duplicateTestCase(w, c)
  PROVE  RepoInv'
<1> DEFINE rows == <<[title |-> tc[c].title, pin |-> 0]>>
           n    == maxExternalIdSeq(tc) + 1
           s    == tc[c].suite
           r    == [NoWork EXCEPT !.op = "duplicate", !.num = n, !.suite = s, !.rows = rows]
<1>0. tc \in [Tc -> CaseRow] /\ tc[c] \in CaseRow
  BY DEF RepoInv, RepoType
<1>1. rows \in Seq(BulkRow) /\ Len(rows) = 1
  <2>1. tc[c].title \in Text
    BY <1>0 DEF CaseRow
  <2> QED BY <2>1, SingleRow
<1>2. Begin(w, r) /\ UNCHANGED <<suite, tc, idLock>>
  BY DEF duplicateTestCase
<1>3. n \in Nat /\ s \in Filed
  BY <1>0, HighestSeq DEF CaseRow
<1> HIDE DEF rows, n, s
<1>4. /\ r \in Job /\ r.op = "duplicate" /\ r.rows = rows
  <2>1. rows \in JobRows /\ "duplicate" \in JobOp /\ NoWork \in Job
    BY <1>1, BlankRows DEF JobRows, JobOp
  <2> QED BY <1>3, <2>1 DEF Job, NoWork
<1> HIDE DEF r
<1>5. r.op \notin Holding /\ r.op \notin Importing /\ RowsFit(r)
  BY <1>1, <1>4 DEF Holding, Importing, RowsFit
<1>6. tc' \in [Tc -> CaseRow] /\ Gentle(tc, tc') /\ Untouched(tc') /\ Homed(tc', suite)
  BY <1>2, RowsKept
<1> QED BY <1>2, <1>4, <1>5, <1>6, RequestBegins

LEMMA StepBulkCreate ==
  ASSUME RepoInv, NEW w \in Writer, NEW rows \in Seq(BulkRow), bulkCreateTestCases(w, rows)
  PROVE  RepoInv'
<1> DEFINE r == [NoWork EXCEPT !.op = "bulk", !.rows = rows]
<1>1. Begin(w, r) /\ UNCHANGED <<suite, tc, idLock>>
  BY DEF bulkCreateTestCases
<1>2. /\ r \in Job /\ r.op = "bulk" /\ r.rows = rows
  <2>1. rows \in JobRows /\ "bulk" \in JobOp /\ NoWork \in Job
    BY BlankRows DEF JobRows, JobOp
  <2> QED BY <2>1 DEF Job, NoWork
<1> HIDE DEF r
<1>3. r.op \notin Holding /\ r.op \notin Importing /\ RowsFit(r)
  BY <1>2 DEF Holding, Importing, RowsFit
<1>4. tc' \in [Tc -> CaseRow] /\ Gentle(tc, tc') /\ Untouched(tc') /\ Homed(tc', suite)
  BY <1>1, RowsKept
<1> QED BY <1>1, <1>2, <1>3, <1>4, RequestBegins

LEMMA StepImport ==
  ASSUME RepoInv, NEW w \in Writer, NEW f \in File, NEW s \in Suite \cup {0}, importTestCases(w, f, s)
  PROVE  RepoInv'
<1> DEFINE ts == {tc[c].title : c \in Cases}
           ks == {<<suite[x].name, suite[x].parent, x>> : x \in Suites}
           r  == [NoWork EXCEPT !.op = "prepare", !.rows = f, !.suite = s, !.titles = ts, !.cache = ks]
<1>0. tc \in [Tc -> CaseRow] /\ suite \in [Suite -> SuiteRow]
  BY DEF RepoInv, RepoType
<1>1. Begin(w, r) /\ UNCHANGED <<suite, tc, idLock>>
  BY DEF importTestCases
<1>2. ts \in SUBSET Text
  BY <1>0 DEF Cases, Rows, CaseRow
<1>3. ks \in SUBSET SuiteKey
  <2>1. \A x \in Suites : suite[x].name \in Text /\ suite[x].parent \in Filed /\ x \in Filed
    BY <1>0 DEF Suites, SuiteRow, Filed
  <2> QED BY <2>1 DEF SuiteKey
<1> HIDE DEF ts, ks
<1>4. f \in Seq(SheetRow)
  BY SheetRows
<1>5. /\ r \in Job /\ r.op = "prepare" /\ r.rows = f /\ r.at = 1 /\ r.imported = 0 /\ r.errors = {}
  <2>1. f \in JobRows /\ "prepare" \in JobOp /\ NoWork \in Job /\ s \in Filed
    BY <1>4, BlankRows DEF JobRows, JobOp, Importing, Filed
  <2> QED BY <1>2, <1>3, <2>1 DEF Job, NoWork
<1> HIDE DEF r
<1>6. r.op \notin Holding /\ RowsFit(r)
  BY <1>4, <1>5 DEF Holding, Importing, RowsFit
<1>7. tc' \in [Tc -> CaseRow] /\ Gentle(tc, tc') /\ Untouched(tc') /\ Homed(tc', suite)
  BY <1>1, RowsKept
<1> QED BY <1>1, <1>5, <1>6, <1>7, RequestBegins

\* The suites of a deleted tree, with their cases unfiled.
LEMMA StepDropSuite ==
  ASSUME RepoInv, NEW w \in Writer, DropSuite(w)
  PROVE  RepoInv'
<1> DEFINE gone == Below(writer[w].suite)
<1>0. RepoType /\ tc \in [Tc -> CaseRow] /\ suite \in [Suite -> SuiteRow] /\ Homed(tc, suite) /\ 0 \in Filed
  BY DEF RepoInv, RepoType, Filed
<1>1. /\ writer[w].op = "deleteSuite" /\ writer' = [writer EXCEPT ![w] = NoWork] /\ UNCHANGED idLock
      /\ suite' = [s \in Suite |-> IF s \in gone THEN [suite[s] EXCEPT !.state = "gone", !.parent = 0]
                                                 ELSE suite[s]]
      /\ tc' = [c \in Tc |-> IF tc[c].suite \in gone THEN [tc[c] EXCEPT !.suite = 0] ELSE tc[c]]
  BY DEF DropSuite, End
<1> HIDE DEF gone
<1>2. ASSUME NEW s \in Suite PROVE suite'[s] \in SuiteRow /\ (s \notin gone => suite'[s] = suite[s])
  <2> DEFINE row == [suite[s] EXCEPT !.state = "gone", !.parent = 0]
  <2>1. suite[s] \in SuiteRow
    BY <1>0
  <2>2. row \in SuiteRow
    BY <1>0, <2>1 DEF SuiteRow
  <2> HIDE DEF row
  <2>3. suite'[s] = IF s \in gone THEN row ELSE suite[s]
    BY <1>1 DEF row
  <2> QED BY <2>1, <2>2, <2>3
<1>3. suite' \in [Suite -> SuiteRow]
  BY <1>1, <1>2
<1>4. ASSUME NEW c \in Tc
      PROVE  /\ tc'[c] \in CaseRow /\ tc'[c].import = tc[c].import /\ tc'[c].born = tc[c].born
             /\ tc'[c].locked = tc[c].locked /\ tc'[c].num = tc[c].num /\ tc'[c].status = tc[c].status
             /\ tc'[c].suite = 0 \/ (tc'[c].suite = tc[c].suite /\ tc[c].suite \notin gone)
  <2> DEFINE row == [tc[c] EXCEPT !.suite = 0]
  <2>1. tc[c] \in CaseRow
    BY <1>0
  <2>2. /\ row \in CaseRow /\ row.import = tc[c].import /\ row.born = tc[c].born
        /\ row.locked = tc[c].locked /\ row.num = tc[c].num /\ row.status = tc[c].status /\ row.suite = 0
    BY <1>0, <2>1 DEF CaseRow
  <2> HIDE DEF row
  <2>3. tc'[c] = IF tc[c].suite \in gone THEN row ELSE tc[c]
    BY <1>1 DEF row
  <2> QED BY <2>1, <2>2, <2>3
<1>5. tc' \in [Tc -> CaseRow]
  BY <1>1, <1>4
<1>6. Homed(tc', suite')
  <2> SUFFICES ASSUME NEW c \in Tc PROVE tc'[c].suite \in Live(suite') \cup {0}
    BY DEF Homed
  <2>1. CASE tc'[c].suite = 0
    BY <2>1
  <2>2. CASE tc'[c].suite /= 0
    <3>1. tc'[c].suite = tc[c].suite /\ tc[c].suite \notin gone /\ tc[c].suite \in Live(suite)
      BY <1>0, <1>4, <2>2 DEF Homed
    <3> QED BY <1>2, <3>1 DEF Live
  <2> QED BY <2>1, <2>2
<1>7. Untouched(tc')
  BY <1>4 DEF Untouched, RepoInv
<1>8. \A c \in Tc : tc'[c].locked = TRUE => tc[c].locked = TRUE /\ tc'[c].num <= tc[c].num
  <2>1. \A c \in Tc : tc[c].num \in Nat
    BY <1>0 DEF CaseRow
  <2> QED BY <1>4, <2>1
<1>9. \A v : Steady(tc, tc', v)
  BY <1>4 DEF Steady
<1>10. writer[w].op \notin Holding /\ writer[w].op \notin Importing /\ NoWork.op = "idle" /\ NoWork \in Job
  BY <1>1, BlankRows DEF Holding, Importing, NoWork
<1>11. NoWork.op \notin Holding /\ RowsFit(NoWork) /\ NoWork.op \notin Importing
  BY <1>10 DEF Holding, Importing, RowsFit
<1>12. RowsAccounted(tc', w, NoWork)
  <2>1. Of(tc, w) = {}
    BY <1>10 DEF RepoInv, RowsAccounted
  <2>2. Of(tc', w) = {}
    BY <1>4, <2>1 DEF Of
  <2> QED BY <1>11, <2>2 DEF RowsAccounted
<1> QED BY <1>1, <1>3, <1>5, <1>6, <1>7, <1>8, <1>9, <1>10, <1>11, <1>12, RequestMoves

\* The lock is taken with the highest number read.
LEMMA StepTakeIdLock ==
  ASSUME RepoInv, NEW w \in Writer, TakeIdLock(w)
  PROVE  RepoInv'
<1> DEFINE o == IF writer[w].op = "create" THEN "inserting"
                ELSE IF writer[w].op = "bulk" THEN "bulkInserting" ELSE "importing"
           n == maxExternalIdSeq(tc) + 1
           r == [writer[w] EXCEPT !.op = o, !.num = n]
<1>0. RepoType /\ tc \in [Tc -> CaseRow] /\ writer[w] \in Job /\ writer \in [Writer -> Job] /\ w /= 0
  BY RepositoryConstants DEF RepoInv, RepoType
<1>1. /\ writer[w].op \in {"create", "bulk", "import"} /\ idLock = 0 /\ idLock' = w
      /\ UNCHANGED <<suite, tc>> /\ writer' = [writer EXCEPT ![w] = r]
  <2>1. writer' = [writer EXCEPT ![w].op = o, ![w].num = n]
    BY DEF TakeIdLock
  <2>2. writer' = [writer EXCEPT ![w] = r]
    BY <1>0, <2>1
  <2> QED BY <2>2 DEF TakeIdLock
<1>2. n \in Nat /\ DrawnBelow(tc, n)
  BY <1>0, HighestSeq DEF DrawnBelow, CaseRow
<1>3. /\ o \in Holding /\ o \in JobOp /\ (o \in Importing <=> writer[w].op \in Importing)
      /\ (writer[w].op \in Importing <=> writer[w].op = "import") /\ o /= "prepare"
      /\ writer[w].op \notin Holding /\ o /= "create" /\ o /= "duplicate" /\ o /= "bulk"
      /\ (o = "inserting" => writer[w].op = "create") /\ (o = "bulkInserting" => writer[w].op = "bulk")
  BY <1>1 DEF Holding, JobOp, Importing
<1> HIDE DEF o, n
<1>4. /\ r \in Job /\ r.op = o /\ r.num = n /\ r.rows = writer[w].rows /\ r.at = writer[w].at
      /\ r.titles = writer[w].titles /\ r.imported = writer[w].imported /\ r.errors = writer[w].errors
  BY <1>0, <1>2, <1>3 DEF Job
<1> HIDE DEF r
<1>5. RowsFit(writer[w]) /\ RowsAccounted(tc, w, writer[w])
  BY DEF RepoInv
<1>6. RowsFit(r)
  <2>1. r.op \in Importing => r.rows \in Seq(SheetRow)
    BY <1>3, <1>4, <1>5 DEF RowsFit
  <2>2. r.op \in {"create", "inserting", "duplicate"} => r.rows \in Seq(BulkRow) /\ Len(r.rows) = 1
    BY <1>3, <1>4, <1>5 DEF RowsFit
  <2>3. r.op \in {"bulk", "bulkInserting"} => r.rows \in Seq(BulkRow)
    BY <1>3, <1>4, <1>5 DEF RowsFit
  <2> QED BY <2>1, <2>2, <2>3 DEF RowsFit
<1>7. RowsAccounted(tc, w, r)
  <2>1. CASE writer[w].op = "import"
    <3>1. Chunk(r) = Chunk(writer[w])
      BY <1>4 DEF Chunk
    <3>2. \A i : prepareImportRow(r, i) = prepareImportRow(writer[w], i)
      BY <1>4 DEF prepareImportRow
    <3>3. Prepared(r) = Prepared(writer[w])
      BY <3>1, <3>2 DEF Prepared
    <3>4. Handled(r) = Handled(writer[w])
      BY <1>3, <1>4, <2>1, <3>1, <3>3 DEF Handled
    <3>5. Claimed(tc, w, writer[w], writer[w].at) => Claimed(tc, w, r, r.at)
      BY <1>4 DEF Claimed
    <3> QED BY <1>3, <1>4, <1>5, <2>1, <3>4, <3>5 DEF RowsAccounted
  <2>2. CASE writer[w].op /= "import"
    BY <1>3, <1>4, <1>5, <2>2 DEF RowsAccounted
  <2> QED BY <2>1, <2>2
<1>8. writer' \in [Writer -> Job] /\ writer'[w] = r /\ \A v \in Writer \ {w} : writer'[v] = writer[v]
  BY <1>0, <1>1, <1>4
<1>9. RepoType'
  BY <1>0, <1>1, <1>8 DEF RepoType
<1>10. \A v \in Writer : RowsFit(writer'[v]) /\ RowsAccounted(tc', v, writer'[v])
  BY <1>1, <1>6, <1>7, <1>8 DEF RepoInv
<1>11. \A v \in Writer : idLock' = v <=> writer'[v].op \in Holding
  <2>1. \A v \in Writer : v /= 0
    BY RepositoryConstants
  <2> QED BY <1>1, <1>3, <1>4, <1>8, <2>1 DEF RepoInv
<1>12. \A v \in Writer : idLock' = v => DrawnBelow(tc', writer'[v].num)
  BY <1>1, <1>2, <1>4, <1>8
<1>13. Untouched(tc') /\ Homed(tc', suite')
  BY <1>1 DEF RepoInv
<1> QED BY <1>9, <1>10, <1>11, <1>12, <1>13 DEF RepoInv

\* A row inserted by a request that holds the lock, for no import.
LEMMA InsertedLocked ==
  ASSUME RepoInv, Room(1), NEW title \in Text, NEW s \in Filed, NEW n \in Nat, Accepts(suite, tc, s, n),
         NEW u, u = Inserted(tc, title, s, n, TRUE, 0)
  PROVE  u \in [Tc -> CaseRow] /\ (\A v \in Writer : Steady(tc, u, v)) /\ Untouched(u) /\ Homed(u, suite)
<1> DEFINE row == NewTc(title, s, n, TRUE, 0)
           f   == FreshTc(tc)
<1>0. RepoType /\ tc \in [Tc -> CaseRow] /\ Homed(tc, suite) /\ Untouched(tc)
  BY DEF RepoInv, RepoType
<1>1. /\ row \in CaseRow /\ row.status = "Draft" /\ row.import = 0 /\ row.suite = s
  BY DEF NewTc, CaseRow
<1>2. FreeTc(tc) /= {}
  BY <1>0, RoomIsFree
<1>3. u = [tc EXCEPT ![f] = row]
  BY DEF Inserted
<1>4. s \in Live(suite) \cup {0}
  BY DEF Accepts, Live, Filed
<1> HIDE DEF row
<1>5. row.status /= "none"
  BY <1>1
<1>6. Placed(tc, u, row)
  BY <1>0, <1>1, <1>2, <1>3, <1>5, InsertedFacts
<1>7. /\ u \in [Tc -> CaseRow] /\ f \in Tc /\ tc[f].status = "none" /\ u[f] = row
      /\ \A c \in Tc \ {f} : u[c] = tc[c]
  BY <1>6 DEF Placed, FreeTc
<1> HIDE DEF f
<1>8. tc[f].import = 0 /\ u[f].import = 0 /\ \A v \in Writer : v /= 0
  BY <1>0, <1>1, <1>7, RepositoryConstants DEF Untouched
<1>9. \A v \in Writer : Steady(tc, u, v)
  BY <1>7, <1>8 DEF Steady
<1>10. Untouched(u) /\ Homed(u, suite)
  BY <1>0, <1>1, <1>4, <1>7 DEF Untouched, Homed
<1> QED BY <1>7, <1>9, <1>10

\* Nothing happens to the rows.
LEMMA SteadySame == ASSUME NEW t PROVE \A v \in Writer : Steady(t, t, v)
BY DEF Steady

LEMMA StepInsertTestCase ==
  ASSUME RepoInv, NEW w \in Writer, insertTestCase(w)
  PROVE  RepoInv'
<1> DEFINE r == writer[w]
           took == Accepts(suite, tc, r.suite, r.num)
           again == [r EXCEPT !.op = "create", !.attempt = @ + 1]
<1>0. RepoType /\ tc \in [Tc -> CaseRow] /\ r \in Job /\ writer \in [Writer -> Job] /\ Untouched(tc) /\ Homed(tc, suite)
  BY DEF RepoInv, RepoType
<1>1. r.op = "inserting" /\ Room(1) /\ idLock' = 0 /\ suite' = suite
  BY DEF insertTestCase
<1>2. r.op \in Holding /\ r.op \notin Importing /\ r.rows \in Seq(BulkRow) /\ Len(r.rows) = 1
  BY <1>1 DEF Holding, Importing, RepoInv, RowsFit
<1>3. Of(tc, w) = {}
  BY <1>2 DEF RepoInv, RowsAccounted
<1>4. /\ NoWork \in Job /\ NoWork.op = "idle" /\ NoWork.op \notin Holding /\ RowsFit(NoWork)
      /\ NoWork.op \notin Importing
  BY BlankRows DEF Holding, Importing, RowsFit, NoWork
<1>5. /\ again \in Job /\ again.op = "create" /\ again.rows = r.rows /\ again.op \notin Holding
      /\ RowsFit(again) /\ again.op \notin Importing
  <2>1. "create" \in JobOp /\ r.attempt + 1 \in Nat
    BY <1>0 DEF JobOp, Job
  <2>2. again \in Job /\ again.op = "create" /\ again.rows = r.rows
    BY <1>0, <2>1 DEF Job
  <2> HIDE DEF again
  <2> QED BY <1>2, <2>2 DEF Holding, Importing, RowsFit
<1>6. \/ took = TRUE /\ tc' = Inserted(tc, r.rows[1].title, r.suite, r.num, TRUE, 0)
         /\ writer' = [writer EXCEPT ![w] = NoWork]
      \/ tc' = tc /\ writer' = [writer EXCEPT ![w] = again]
      \/ tc' = tc /\ writer' = [writer EXCEPT ![w] = NoWork]
  <2>1. [writer EXCEPT ![w].op = "create", ![w].attempt = @ + 1] = [writer EXCEPT ![w] = again]
    BY <1>0
  <2>2. took \in BOOLEAN
    BY DEF Accepts
  <2> HIDE DEF again
  <2> QED BY <2>1, <2>2 DEF insertTestCase, End
<1> HIDE DEF again
<1>7. CASE took = TRUE /\ tc' = Inserted(tc, r.rows[1].title, r.suite, r.num, TRUE, 0)
           /\ writer' = [writer EXCEPT ![w] = NoWork]
  <2>1. r.rows[1].title \in Text /\ r.suite \in Filed /\ r.num \in Nat
    <3>1. r.rows[1] \in BulkRow
      BY <1>2
    <3> QED BY <1>0, <3>1, JobFields DEF BulkRow
  <2>2. /\ tc' \in [Tc -> CaseRow] /\ (\A v \in Writer : Steady(tc, tc', v)) /\ Untouched(tc')
        /\ Homed(tc', suite)
    BY <1>1, <1>7, <2>1, InsertedLocked
  <2>3. Of(tc', w) = {}
    BY <1>3, <2>2 DEF Steady, Of
  <2>4. RowsAccounted(tc', w, NoWork) /\ suite' \in [Suite -> SuiteRow] /\ Homed(tc', suite')
    BY <1>0, <1>1, <1>4, <2>2, <2>3 DEF RowsAccounted, RepoType
  <2> QED BY <1>1, <1>2, <1>4, <1>7, <2>2, <2>4, LockReleased
<1>8. ASSUME tc' = tc
      PROVE  /\ tc' \in [Tc -> CaseRow] /\ (\A v \in Writer : Steady(tc, tc', v)) /\ Untouched(tc')
             /\ Homed(tc', suite') /\ suite' \in [Suite -> SuiteRow] /\ Of(tc', w) = {}
  BY <1>0, <1>1, <1>3, <1>8, SteadySame DEF RepoType
<1>9. CASE tc' = tc /\ writer' = [writer EXCEPT ![w] = again]
  <2>1. RowsAccounted(tc', w, again)
    BY <1>5, <1>8, <1>9 DEF RowsAccounted
  <2> QED BY <1>1, <1>2, <1>5, <1>8, <1>9, <2>1, LockReleased
<1>10. CASE tc' = tc /\ writer' = [writer EXCEPT ![w] = NoWork]
  <2>1. RowsAccounted(tc', w, NoWork)
    BY <1>4, <1>8, <1>10 DEF RowsAccounted
  <2> QED BY <1>1, <1>2, <1>4, <1>8, <1>10, <2>1, LockReleased
<1> QED BY <1>6, <1>7, <1>9, <1>10

LEMMA StepInsertDuplicate ==
  ASSUME RepoInv, NEW w \in Writer, InsertDuplicate(w)
  PROVE  RepoInv'
<1> DEFINE r == writer[w]
           took == Accepts(suite, tc, r.suite, r.num)
<1>0. RepoType /\ tc \in [Tc -> CaseRow] /\ r \in Job /\ suite \in [Suite -> SuiteRow]
  BY DEF RepoInv, RepoType
<1>1. /\ r.op = "duplicate" /\ Room(1) /\ UNCHANGED <<suite, idLock>>
      /\ writer' = [writer EXCEPT ![w] = NoWork]
      /\ tc' = IF took THEN Inserted(tc, r.rows[1].title, r.suite, r.num, FALSE, 0) ELSE tc
  BY DEF InsertDuplicate, End
<1>2. r.op \notin Holding /\ r.op \notin Importing /\ r.rows \in Seq(BulkRow) /\ Len(r.rows) = 1
  BY <1>1 DEF Holding, Importing, RepoInv, RowsFit
<1>3. Of(tc, w) = {}
  BY <1>2 DEF RepoInv, RowsAccounted
<1>4. /\ NoWork \in Job /\ NoWork.op = "idle" /\ NoWork.op \notin Holding /\ RowsFit(NoWork)
      /\ NoWork.op \notin Importing
  BY BlankRows DEF Holding, Importing, RowsFit, NoWork
<1>5. r.rows[1].title \in Text /\ r.suite \in Filed /\ r.num \in Nat
  <2>1. r.rows[1] \in BulkRow
    BY <1>2
  <2> QED BY <1>0, <2>1, JobFields DEF BulkRow
<1>6. tc' \in [Tc -> CaseRow] /\ Gentle(tc, tc') /\ Untouched(tc') /\ Homed(tc', suite)
  <2>1. CASE took
    BY <1>1, <1>5, <2>1, InsertedFreely
  <2>2. CASE ~took
    BY <1>1, <2>2, RowsKept
  <2> QED BY <2>1, <2>2
<1>7. Of(tc', w) = {}
  BY <1>3, <1>6 DEF Gentle, Of
<1>8. RowsAccounted(tc', w, NoWork)
  BY <1>4, <1>7 DEF RowsAccounted
<1>9. \A v \in Writer : Steady(tc, tc', v)
  BY <1>6, GentleSteady
<1>10. \A c \in Tc : tc'[c].locked = TRUE => tc[c].locked = TRUE /\ tc'[c].num <= tc[c].num
  BY <1>6 DEF Gentle
<1>11. UNCHANGED idLock /\ suite' \in [Suite -> SuiteRow] /\ Homed(tc', suite')
  BY <1>0, <1>1, <1>6
<1> QED BY <1>1, <1>2, <1>4, <1>6, <1>8, <1>9, <1>10, <1>11, RequestMoves

\* A batch takes the first free ids, one for each of its rows.
LEMMA StepBulkInsert ==
  ASSUME RepoInv, NEW w \in Writer, BulkInsert(w)
  PROVE  RepoInv'
<1> DEFINE r      == writer[w]
           nums   == [i \in DOMAIN r.rows |-> IF r.rows[i].pin = 0 THEN r.num + i - 1 ELSE r.rows[i].pin]
           nth(c) == Cardinality({b \in FreeTc(tc) : b <= c})
           row(c) == NewTc(r.rows[nth(c)].title, 0, nums[nth(c)], TRUE, 0)
           filled == [c \in Tc |-> IF c \in FreeTc(tc) /\ nth(c) <= Len(r.rows) THEN row(c) ELSE tc[c]]
<1>0. RepoType /\ tc \in [Tc -> CaseRow] /\ r \in Job /\ Untouched(tc) /\ Homed(tc, suite) /\ 0 \in Filed
  BY DEF RepoInv, RepoType, Filed
<1>1. /\ r.op = "bulkInserting" /\ idLock' = 0 /\ suite' = suite
      /\ writer' = [writer EXCEPT ![w] = NoWork] /\ (tc' = filled \/ tc' = tc)
  BY DEF BulkInsert, End
<1>2. r.op \in Holding /\ r.op \notin Importing /\ r.rows \in Seq(BulkRow) /\ r.num \in Nat
  BY <1>0, <1>1, JobFields DEF Holding, Importing, RepoInv, RowsFit
<1>3. Of(tc, w) = {}
  BY <1>2 DEF RepoInv, RowsAccounted
<1>4. /\ NoWork \in Job /\ NoWork.op = "idle" /\ NoWork.op \notin Holding /\ RowsFit(NoWork)
      /\ NoWork.op \notin Importing
  BY BlankRows DEF Holding, Importing, RowsFit, NoWork
<1>5. ASSUME NEW c \in FreeTc(tc) PROVE nth(c) \in Nat \ {0}
  <2> DEFINE S == {b \in FreeTc(tc) : b <= c}
  <2>1. c \in S
    BY RepositoryConstants DEF FreeTc
  <2>2. S \subseteq FreeTc(tc)
    OBVIOUS
  <2> HIDE DEF S
  <2>3. IsFiniteSet(S)
    BY <2>2, FiniteCases, FS_Subset
  <2>4. Cardinality(S) \in Nat /\ Cardinality(S) > 0
    BY <2>1, <2>3, OneMore
  <2> QED BY <2>4 DEF S
<1>6. ASSUME NEW i \in 1 .. Len(r.rows) PROVE r.rows[i].title \in Text /\ nums[i] \in Nat
  <2>1. r.rows[i] \in BulkRow /\ i \in DOMAIN r.rows /\ i \in Nat \ {0}
    BY <1>2
  <2>2. r.rows[i].title \in Text /\ r.rows[i].pin \in Nat
    BY <2>1 DEF BulkRow
  <2> QED BY <1>2, <2>1, <2>2
<1> HIDE DEF nth, nums
<1>7. ASSUME NEW c \in FreeTc(tc), nth(c) <= Len(r.rows)
      PROVE  row(c) \in CaseRow /\ row(c).status = "Draft" /\ row(c).import = 0 /\ row(c).suite = 0
  <2>1. nth(c) \in 1 .. Len(r.rows)
    BY <1>2, <1>5, <1>7
  <2>2. r.rows[nth(c)].title \in Text /\ nums[nth(c)] \in Nat
    BY <1>6, <2>1
  <2> QED BY <1>0, <2>2 DEF NewTc, CaseRow
<1> HIDE DEF row
<1>8. ASSUME NEW c \in Tc
      PROVE  /\ tc'[c] \in CaseRow
             /\ tc'[c] = tc[c] \/ (tc[c].import = 0 /\ tc'[c].import = 0 /\ tc'[c].suite = 0
                                   /\ tc'[c].status = "Draft")
  <2>1. CASE tc' = tc
    BY <1>0, <2>1
  <2>2. CASE tc' = filled
    <3>1. tc'[c] = IF c \in FreeTc(tc) /\ nth(c) <= Len(r.rows) THEN row(c) ELSE tc[c]
      BY <2>2
    <3>2. c \in FreeTc(tc) => tc[c].import = 0
      BY <1>0 DEF FreeTc, Untouched
    <3> QED BY <1>0, <1>7, <3>1, <3>2
  <2> QED BY <1>1, <2>1, <2>2
<1>9. tc' \in [Tc -> CaseRow]
  BY <1>0, <1>1, <1>8
<1>10. Untouched(tc') /\ Homed(tc', suite')
  BY <1>0, <1>1, <1>8 DEF Untouched, Homed
<1>11. \A v \in Writer : Steady(tc, tc', v)
  <2>1. \A v \in Writer : v /= 0
    BY RepositoryConstants
  <2> QED BY <1>8, <2>1 DEF Steady
<1>12. Of(tc', w) = {}
  BY <1>3, <1>11 DEF Steady, Of
<1>13. RowsAccounted(tc', w, NoWork) /\ suite' \in [Suite -> SuiteRow]
  BY <1>0, <1>1, <1>4, <1>12 DEF RowsAccounted, RepoType
<1> QED BY <1>1, <1>2, <1>4, <1>9, <1>10, <1>11, <1>13, LockReleased

\* The rows before the chunk, the chunk's own and all up to the next chunk.
Before(r, n) == {i \in DOMAIN r.rows : i < n}

LEMMA NextChunk ==
  ASSUME NEW r \in Job, r.rows \in Seq(SheetRow)
  PROVE  /\ r.at + ChunkSize \in Nat \ {0} /\ r.at <= r.at + ChunkSize
         /\ Before(r, r.at + ChunkSize) = Before(r, r.at) \cup Chunk(r)
         /\ Before(r, r.at) \cap Chunk(r) = {}
         /\ IsFiniteSet(Before(r, r.at)) /\ Before(r, r.at) \subseteq Nat
<1>1. r.at \in Nat \ {0} /\ ChunkSize \in Nat \ {0} /\ DOMAIN r.rows \subseteq Nat /\ IsFiniteSet(DOMAIN r.rows)
  BY JobFields, ChunkFacts, RepositoryConstants
<1>2. IsFiniteSet(Before(r, r.at))
  <2>1. Before(r, r.at) \subseteq DOMAIN r.rows
    BY DEF Before
  <2> QED BY <1>1, <2>1, FS_Subset
<1>3. \A i \in DOMAIN r.rows : i < r.at + ChunkSize <=> (i < r.at \/ (r.at <= i /\ i < r.at + ChunkSize))
  BY <1>1
<1>4. \A i \in DOMAIN r.rows : ~(i < r.at /\ r.at <= i)
  BY <1>1
<1>5. Before(r, r.at + ChunkSize) = Before(r, r.at) \cup Chunk(r) /\ Before(r, r.at) \cap Chunk(r) = {}
  BY <1>3, <1>4, Zenon DEF Before, Chunk
<1>6. r.at + ChunkSize \in Nat \ {0} /\ r.at <= r.at + ChunkSize
  BY <1>1
<1> QED BY <1>1, <1>2, <1>5, <1>6 DEF Before

\* Two finite sets that share nothing.
LEMMA Disjoint ==
  ASSUME NEW S, NEW T, IsFiniteSet(S), IsFiniteSet(T), S \cap T = {}
  PROVE  /\ Cardinality(S) \in Nat /\ Cardinality(T) \in Nat /\ IsFiniteSet(S \cup T)
         /\ Cardinality(S \cup T) = Cardinality(S) + Cardinality(T)
<1>1. /\ Cardinality(S \cup T) = Cardinality(S) + Cardinality(T) - Cardinality(S \cap T)
      /\ IsFiniteSet(S \cup T)
  BY FS_Union
<1>2. Cardinality(S) \in Nat /\ Cardinality(T) \in Nat /\ Cardinality(S \cap T) = 0
  BY FS_CardinalityType, FS_EmptySet
<1> QED BY <1>1, <1>2

\* Claims stand when more rows are done with.
LEMMA ClaimedOn ==
  ASSUME NEW t, NEW w, NEW r \in Job, r.rows \in Seq(SheetRow), NEW m \in Nat, NEW n \in Nat, m <= n,
         Claimed(t, w, r, m)
  PROVE  Claimed(t, w, r, n)
<1>1. \A j \in DOMAIN r.rows : j < m => j < n
  BY ChunkFacts
<1> QED BY <1>1 DEF Claimed

LEMMA StepPrepare ==
  ASSUME RepoInv, NEW w \in Writer, Prepare(w)
  PROVE  RepoInv'
<1> DEFINE r == writer[w]
           E == Chunk(r) \ Prepared(r)
           o == IF Prepared(r) = {} THEN "prepare" ELSE "import"
           a == IF Prepared(r) = {} THEN r.at + ChunkSize ELSE r.at
           k == r.errors \cup E
           q == [r EXCEPT !.errors = k, !.op = o, !.at = a]
<1>0. RepoType /\ tc \in [Tc -> CaseRow] /\ r \in Job /\ writer \in [Writer -> Job] /\ suite \in [Suite -> SuiteRow]
  BY DEF RepoInv, RepoType
<1>1. r.op = "prepare" /\ UNCHANGED <<suite, tc, idLock>> /\ writer' = [writer EXCEPT ![w] = q]
  <2>1. writer' = [writer EXCEPT ![w].errors = k, ![w].op = o, ![w].at = a]
    BY <1>0 DEF Prepare
  <2>2. [writer EXCEPT ![w].errors = k, ![w].op = o, ![w].at = a] = [writer EXCEPT ![w] = q]
    BY <1>0
  <2> QED BY <2>1, <2>2 DEF Prepare
<1>2. /\ r.op \notin Holding /\ r.op \in Importing /\ r.rows \in Seq(SheetRow) /\ RowsAccounted(tc, w, r)
  BY <1>1 DEF Holding, Importing, RepoInv, RowsFit
<1>3. /\ r.errors \subseteq Before(r, r.at)
      /\ r.imported + Cardinality(r.errors) = Cardinality(Before(r, r.at))
      /\ Cardinality(Of(tc, w)) = r.imported /\ Claimed(tc, w, r, r.at)
  BY <1>1, <1>2 DEF RowsAccounted, Handled, Before
<1>4. /\ E \subseteq Chunk(r) /\ IsFiniteSet(E) /\ E \subseteq Nat /\ E \cap Before(r, r.at) = {}
      /\ Before(r, r.at) \subseteq Nat /\ IsFiniteSet(Before(r, r.at))
  <2>1. IsFiniteSet(Chunk(r)) /\ Chunk(r) \subseteq Nat
    BY <1>0, <1>2, ChunkFacts
  <2>2. Before(r, r.at) \cap Chunk(r) = {} /\ IsFiniteSet(Before(r, r.at)) /\ Before(r, r.at) \subseteq Nat
    BY <1>0, <1>2, NextChunk
  <2>3. E \subseteq Chunk(r)
    OBVIOUS
  <2> HIDE DEF E
  <2>4. IsFiniteSet(E)
    BY <2>1, <2>3, FS_Subset
  <2> QED BY <2>1, <2>2, <2>3, <2>4
<1>5. /\ a \in Nat \ {0} /\ r.at <= a /\ o \in {"prepare", "import"} /\ r.at \in Nat
      /\ o \notin Holding /\ o \in Importing /\ o \in JobOp
  BY <1>0, <1>2, NextChunk, JobFields DEF Holding, Importing, JobOp
<1>6. q \in Job /\ q.errors = k /\ q.op = o /\ q.at = a /\ q.rows = r.rows /\ q.titles = r.titles /\ q.imported = r.imported
  <2>1. k \in SUBSET Nat
    BY <1>0, <1>4, JobFields
  <2> HIDE DEF k, o, a
  <2> QED BY <1>0, <1>5, <2>1 DEF Job
<1>7. Handled(q) = Before(r, r.at) \cup E
  <2>1. CASE Prepared(r) = {}
    <3>1. o = "prepare" /\ a = r.at + ChunkSize /\ E = Chunk(r)
      BY <2>1
    <3>2. Handled(q) = Before(r, r.at + ChunkSize)
      BY <1>6, <3>1, Zenon DEF Handled, Before
    <3> QED BY <1>0, <1>2, <3>1, <3>2, NextChunk
  <2>2. CASE Prepared(r) /= {}
    <3>1. o = "import" /\ a = r.at
      BY <2>2
    <3> HIDE DEF q, k, o, a
    <3>2. Chunk(q) = Chunk(r)
      BY <1>6, <3>1 DEF Chunk
    <3>3. \A i : prepareImportRow(q, i) = prepareImportRow(r, i)
      BY <1>6 DEF prepareImportRow
    <3>4. Prepared(q) = Prepared(r)
      BY <3>2, <3>3 DEF Prepared
    <3>5. Handled(q) = {i \in DOMAIN q.rows : i < q.at} \cup (Chunk(q) \ Prepared(q))
      BY <1>6, <3>1 DEF Handled
    <3>6. {i \in DOMAIN q.rows : i < q.at} = Before(r, r.at)
      BY <1>6, <3>1 DEF Before
    <3> QED BY <3>2, <3>4, <3>5, <3>6
  <2> QED BY <2>1, <2>2
<1> HIDE DEF q, o, a
<1>8. q.imported + Cardinality(q.errors) = Cardinality(Handled(q)) /\ q.errors \subseteq Handled(q)
  <2>1. IsFiniteSet(r.errors) /\ r.errors \cap E = {}
    <3>1. r.errors \cap E = {}
      BY <1>3, <1>4
    <3> HIDE DEF E
    <3> QED BY <1>3, <1>4, <3>1, FS_Subset
  <2> HIDE DEF E
  <2>2. Cardinality(k) = Cardinality(r.errors) + Cardinality(E) /\ Cardinality(r.errors) \in Nat /\ Cardinality(E) \in Nat
    BY <1>4, <2>1, Disjoint
  <2>3. /\ Cardinality(Before(r, r.at) \cup E) = Cardinality(Before(r, r.at)) + Cardinality(E)
        /\ Cardinality(Before(r, r.at)) \in Nat
    BY <1>4, Disjoint
  <2>4. r.imported \in Nat
    BY <1>0, JobFields
  <2>5. k \subseteq Before(r, r.at) \cup E
    BY <1>3
  <2> HIDE DEF k
  <2>6. r.imported + Cardinality(k) = Cardinality(Before(r, r.at) \cup E)
    BY <1>3, <2>2, <2>3, <2>4
  <2> QED BY <1>6, <1>7, <2>5, <2>6
<1>9. Claimed(tc, w, q, q.at)
  <2>1. Claimed(tc, w, r, a)
    BY <1>0, <1>2, <1>3, <1>5, ClaimedOn
  <2> QED BY <1>6, <2>1 DEF Claimed
<1>10. RowsAccounted(tc', w, q)
  BY <1>1, <1>3, <1>5, <1>6, <1>8, <1>9 DEF RowsAccounted
<1>11. RowsFit(q) /\ q.op \notin Holding
  BY <1>2, <1>5, <1>6 DEF RowsFit
<1>12. tc' \in [Tc -> CaseRow] /\ Gentle(tc, tc') /\ Untouched(tc') /\ Homed(tc', suite)
  BY <1>1, RowsKept
<1>13. \A v \in Writer : Steady(tc, tc', v)
  BY <1>12, GentleSteady
<1>14. \A c \in Tc : tc'[c].locked = TRUE => tc[c].locked = TRUE /\ tc'[c].num <= tc[c].num
  BY <1>12 DEF Gentle
<1>15. UNCHANGED idLock /\ suite' \in [Suite -> SuiteRow] /\ Homed(tc', suite')
  BY <1>0, <1>1, <1>12
<1> QED BY <1>1, <1>2, <1>6, <1>10, <1>11, <1>12, <1>13, <1>14, <1>15, RequestMoves

\* The chunk's transaction: the rows the batch or the replay has reached, all at once.
LEMMA StepImportChunk ==
  ASSUME RepoInv, NEW w \in Writer, ImportChunk(w)
  PROVE  RepoInv'
<1> DEFINE r     == writer[w]
           d     == [suite |-> suite, tc |-> tc, cache |-> r.cache, got |-> 0, ok |-> TRUE,
                     done |-> 0, errors |-> {}]
           batch == insertImportChunk(d, w)
           e     == IF batch.ok THEN batch ELSE insertImportRowsIndividually(d, w)
           k     == r.errors \cup e.errors
           m     == r.imported + e.done
           q     == [r EXCEPT !.op = "prepare", !.at = r.at + ChunkSize, !.cache = e.cache,
                              !.imported = m, !.errors = k]
<1>0. /\ RepoType /\ tc \in [Tc -> CaseRow] /\ r \in Job /\ writer \in [Writer -> Job]
      /\ suite \in [Suite -> SuiteRow] /\ Untouched(tc) /\ Homed(tc, suite)
  BY DEF RepoInv, RepoType
<1>1. /\ r.op = "importing" /\ Room(Cardinality(Prepared(r))) /\ idLock' = 0 /\ suite' = e.suite /\ tc' = e.tc
      /\ writer' = [writer EXCEPT ![w] = q]
  <2>1. writer' = [writer EXCEPT ![w].op = "prepare", ![w].at = @ + ChunkSize, ![w].cache = e.cache,
                                 ![w].imported = @ + e.done, ![w].errors = @ \cup e.errors]
    BY DEF ImportChunk
  <2>2. r.op = "importing" /\ Room(Cardinality(Prepared(r))) /\ idLock' = 0 /\ suite' = e.suite /\ tc' = e.tc
    BY DEF ImportChunk
  <2> HIDE DEF e
  <2>3. writer' = [writer EXCEPT ![w] = q]
    BY <1>0, <2>1
  <2> QED BY <2>2, <2>3
<1>2. r.op \in Holding /\ r.op \in Importing /\ r.rows \in Seq(SheetRow) /\ RowsAccounted(tc, w, r)
  BY <1>1 DEF Holding, Importing, RepoInv, RowsFit
<1>3. AtWork(w)
  BY <1>0, <1>2 DEF AtWork
<1>4. Reached(d, 0, w)
  <2>1. d \in ChunkAccount
    <3>1. 0 \in Filed /\ r.cache \in SUBSET SuiteKey /\ {} \in SUBSET Nat /\ 0 \in Nat
      BY <1>0, JobFields DEF Filed
    <3> QED BY <1>0, <3>1 DEF ChunkAccount
  <2>2. /\ d.tc = tc /\ d.suite = suite /\ d.ok = TRUE /\ d.done = 0 /\ d.errors = {}
    OBVIOUS
  <2> HIDE DEF d
  <2>3. Taken(r, 0) = {}
    BY <1>0, <1>2, TakenEnds
  <2>4. d.done + Cardinality(d.errors) = Cardinality(Taken(r, 0))
    BY <2>2, <2>3, FS_EmptySet
  <2>5. Cardinality(Prepared(r) \ Taken(r, 0)) <= Cardinality(FreeTc(d.tc))
    <3>1. Prepared(r) \ Taken(r, 0) = Prepared(r)
      BY <2>3
    <3>2. Cardinality(Prepared(r)) \in Nat /\ Cardinality(FreeTc(tc)) \in Nat
      BY <1>0, <1>2, ChunkFacts, FiniteCases, FS_CardinalityType
    <3>3. Cardinality(Prepared(r)) <= Cardinality(FreeTc(tc))
      BY <1>1, <3>2 DEF Room
    <3> QED BY <2>2, <3>1, <3>3
  <2>6. \A c \in Tc : d.tc[c].suite \in Live(d.suite) \cup {0}
    BY <1>0, <2>2 DEF Homed
  <2>7. Cardinality(Of(d.tc, w)) = r.imported + d.done
    BY <1>0, <1>2, <2>2, JobFields DEF RowsAccounted
  <2>8. Claimed(d.tc, w, r, r.at + 0)
    <3>1. r.at + 0 = r.at
      BY <1>0, JobFields
    <3> QED BY <1>2, <2>2, <3>1 DEF RowsAccounted
  <2> QED BY <2>1, <2>2, <2>3, <2>4, <2>5, <2>6, <2>7, <2>8 DEF Reached
<1> HIDE DEF d
<1>5. Reached(e, ChunkSize, w)
  <2>1. Batched(d, 0, w)
    BY <1>4 DEF Batched, Reached
  <2>2. Batched(batch, ChunkSize, w)
    BY <1>3, <2>1, BatchEnds
  <2>3. Reached(insertImportRowsIndividually(d, w), ChunkSize, w)
    BY <1>3, <1>4, ReplayEnds
  <2> HIDE DEF batch
  <2>4. batch.ok \in BOOLEAN /\ (batch.ok = TRUE => Reached(batch, ChunkSize, w))
    BY <2>2 DEF Batched, ChunkAccount
  <2>5. CASE batch.ok = TRUE
    <3>1. e = batch
      BY <2>5
    <3> QED BY <2>4, <2>5, <3>1
  <2>6. CASE batch.ok = FALSE
    <3>1. e = insertImportRowsIndividually(d, w)
      BY <2>6
    <3> QED BY <2>3, <3>1
  <2> QED BY <2>4, <2>5, <2>6
<1> HIDE DEF e
<1>6. /\ e \in ChunkAccount /\ e.errors \subseteq Prepared(r)
      /\ e.done + Cardinality(e.errors) = Cardinality(Prepared(r))
      /\ Homed(e.tc, e.suite)
      /\ \A c \in Tc : \/ e.tc[c] = tc[c]
                       \/ tc[c].status = "none" /\ e.tc[c].status /= "none" /\ e.tc[c].import = w
      /\ Cardinality(Of(e.tc, w)) = r.imported + e.done /\ Claimed(e.tc, w, r, r.at + ChunkSize)
  <2>1. Taken(r, ChunkSize) = Prepared(r)
    BY <1>0, <1>2, TakenEnds
  <2> QED BY <1>5, <2>1 DEF Reached, Homed
<1>7. /\ e.tc \in [Tc -> CaseRow] /\ e.suite \in [Suite -> SuiteRow] /\ e.cache \in SUBSET SuiteKey
      /\ e.done \in Nat /\ e.errors \in SUBSET Nat
  BY <1>6 DEF ChunkAccount
<1>8. /\ r.at + ChunkSize \in Nat \ {0} /\ r.imported \in Nat /\ r.errors \in SUBSET Nat /\ "prepare" \in JobOp
  BY <1>0, <1>2, NextChunk, JobFields DEF JobOp, Importing
<1>9. /\ q \in Job /\ q.op = "prepare" /\ q.at = r.at + ChunkSize /\ q.imported = m /\ q.errors = k
      /\ q.rows = r.rows /\ q.titles = r.titles
  <2>1. m \in Nat /\ k \in SUBSET Nat
    BY <1>7, <1>8
  <2> HIDE DEF m, k
  <2> QED BY <1>0, <1>7, <1>8, <2>1 DEF Job
<1> HIDE DEF q
<1>10. /\ Handled(r) = Before(r, r.at) \cup (Chunk(r) \ Prepared(r))
       /\ Handled(q) = Before(r, r.at) \cup Chunk(r)
  <2>1. Handled(q) = Before(r, r.at + ChunkSize)
    BY <1>9, Zenon DEF Handled, Before
  <2>2. r.op /= "prepare"
    BY <1>1
  <2>3. Handled(r) = {i \in DOMAIN r.rows : i < r.at} \cup (Chunk(r) \ Prepared(r))
    BY <2>2 DEF Handled
  <2> QED BY <1>0, <1>2, <2>1, <2>3, NextChunk DEF Before
<1>11. q.errors \subseteq Handled(q) /\ q.imported + Cardinality(q.errors) = Cardinality(Handled(q))
  <2>1. /\ Handled(q) = Handled(r) \cup Prepared(r) /\ Handled(r) \cap Prepared(r) = {}
        /\ r.errors \subseteq Handled(r)
    <3>1. Before(r, r.at) \cap Chunk(r) = {} /\ Prepared(r) \subseteq Chunk(r)
      BY <1>0, <1>2, NextChunk, ChunkFacts
    <3> QED BY <1>2, <1>10, <3>1 DEF RowsAccounted
  <2>2. IsFiniteSet(Handled(r)) /\ IsFiniteSet(Prepared(r))
    <3>1. IsFiniteSet(Chunk(r)) /\ IsFiniteSet(Before(r, r.at)) /\ IsFiniteSet(Prepared(r))
      BY <1>0, <1>2, NextChunk, ChunkFacts
    <3>2. IsFiniteSet(Chunk(r) \ Prepared(r))
      BY <3>1, FS_Subset
    <3> QED BY <1>10, <3>1, <3>2, FS_Union
  <2>3. /\ Cardinality(Handled(q)) = Cardinality(Handled(r)) + Cardinality(Prepared(r))
        /\ Cardinality(Handled(r)) \in Nat /\ Cardinality(Prepared(r)) \in Nat
    BY <2>1, <2>2, Disjoint
  <2>4. IsFiniteSet(r.errors) /\ IsFiniteSet(e.errors) /\ r.errors \cap e.errors = {}
    BY <1>6, <2>1, <2>2, FS_Subset
  <2>5. /\ Cardinality(k) = Cardinality(r.errors) + Cardinality(e.errors)
        /\ Cardinality(r.errors) \in Nat /\ Cardinality(e.errors) \in Nat
    BY <2>4, Disjoint
  <2>6. k \subseteq Handled(q)
    BY <1>6, <2>1
  <2>7. r.imported + Cardinality(r.errors) = Cardinality(Handled(r))
    BY <1>2 DEF RowsAccounted
  <2> HIDE DEF k
  <2>8. m + Cardinality(k) = Cardinality(Handled(q))
    BY <1>6, <1>7, <1>8, <2>3, <2>5, <2>7
  <2> QED BY <1>9, <2>6, <2>8
<1>12. RowsAccounted(tc', w, q)
  <2>1. Claimed(e.tc, w, q, q.at)
    BY <1>6, <1>9 DEF Claimed
  <2>2. q.op \in Importing
    BY <1>9 DEF Importing
  <2> QED BY <1>1, <1>6, <1>9, <1>11, <2>1, <2>2 DEF RowsAccounted
<1>13. RowsFit(q) /\ q.op \notin Holding
  BY <1>2, <1>9 DEF RowsFit, Holding
<1>14. ASSUME NEW v \in Writer \ {w} PROVE Steady(tc, tc', v)
  <2>1. v /= w /\ v /= 0
    BY RepositoryConstants
  <2>2. \A c \in Tc : e.tc[c] = tc[c] \/ (tc[c].import = 0 /\ e.tc[c].import = w)
    BY <1>0, <1>6 DEF Untouched
  <2> QED BY <1>1, <2>1, <2>2 DEF Steady
<1>15. Untouched(tc')
  BY <1>0, <1>1, <1>6 DEF Untouched
<1>16. tc' \in [Tc -> CaseRow] /\ suite' \in [Suite -> SuiteRow] /\ Homed(tc', suite')
  BY <1>1, <1>6, <1>7
<1> QED BY <1>1, <1>2, <1>9, <1>12, <1>13, <1>14, <1>15, <1>16, LockReleased

\* The answer, after which the cases are nobody's.
LEMMA StepImportResponse ==
  ASSUME RepoInv, NEW w \in Writer, ImportResponse(w)
  PROVE  RepoInv'
<1>0. /\ RepoType /\ tc \in [Tc -> CaseRow] /\ suite \in [Suite -> SuiteRow] /\ Untouched(tc) /\ Homed(tc, suite)
      /\ w /= 0
  BY RepositoryConstants DEF RepoInv, RepoType
<1>1. /\ writer[w].op = "prepare" /\ writer' = [writer EXCEPT ![w] = NoWork] /\ UNCHANGED <<suite, idLock>>
      /\ tc' = [c \in Tc |-> IF tc[c].import = w THEN [tc[c] EXCEPT !.import = 0] ELSE tc[c]]
  BY DEF ImportResponse, End
<1>2. ASSUME NEW c \in Tc
      PROVE  /\ tc'[c] \in CaseRow /\ tc'[c].born = tc[c].born /\ tc'[c].locked = tc[c].locked
             /\ tc'[c].num = tc[c].num /\ tc'[c].status = tc[c].status /\ tc'[c].suite = tc[c].suite
             /\ tc'[c].import = IF tc[c].import = w THEN 0 ELSE tc[c].import
  <2> DEFINE row == [tc[c] EXCEPT !.import = 0]
  <2>1. tc[c] \in CaseRow
    BY <1>0
  <2>2. /\ row \in CaseRow /\ row.born = tc[c].born /\ row.locked = tc[c].locked /\ row.num = tc[c].num
        /\ row.status = tc[c].status /\ row.suite = tc[c].suite /\ row.import = 0
    BY <2>1 DEF CaseRow
  <2> HIDE DEF row
  <2>3. tc'[c] = IF tc[c].import = w THEN row ELSE tc[c]
    BY <1>1 DEF row
  <2> QED BY <2>1, <2>2, <2>3
<1>3. tc' \in [Tc -> CaseRow]
  BY <1>1, <1>2
<1>4. Untouched(tc') /\ Homed(tc', suite')
  BY <1>0, <1>1, <1>2 DEF Untouched, Homed
<1>5. ASSUME NEW v \in Writer \ {w} PROVE Steady(tc, tc', v)
  <2>1. v /= w /\ v /= 0
    BY RepositoryConstants
  <2> QED BY <1>2, <2>1 DEF Steady
<1>6. \A c \in Tc : tc'[c].locked = TRUE => tc[c].locked = TRUE /\ tc'[c].num <= tc[c].num
  <2>1. \A c \in Tc : tc[c].num \in Nat
    BY <1>0 DEF CaseRow
  <2> QED BY <1>2, <2>1
<1>7. writer[w].op \notin Holding /\ NoWork \in Job /\ NoWork.op = "idle"
  BY <1>1, BlankRows DEF Holding, NoWork
<1>8. NoWork.op \notin Holding /\ RowsFit(NoWork) /\ NoWork.op \notin Importing
  BY <1>7 DEF Holding, Importing, RowsFit
<1>9. Of(tc', w) = {}
  BY <1>0, <1>2 DEF Of
<1>10. RowsAccounted(tc', w, NoWork) /\ UNCHANGED idLock /\ suite' \in [Suite -> SuiteRow]
  BY <1>0, <1>1, <1>8, <1>9 DEF RowsAccounted
<1> QED BY <1>1, <1>3, <1>4, <1>5, <1>6, <1>7, <1>8, <1>10, RequestMoves

\* A batch of two rows.
LEMMA PairOfRows ==
  ASSUME NEW t \in Title, NEW p \in Pinned \cup {0}
  PROVE  <<[title |-> t, pin |-> 0], [title |-> t, pin |-> p]>> \in Seq(BulkRow)
<1> DEFINE a == [title |-> t, pin |-> 0]
           b == [title |-> t, pin |-> p]
<1>1. a \in BulkRow /\ b \in BulkRow
  <2>1. t \in Text
    BY Zenon DEF Text
  <2>2. p \in Nat /\ 0 \in Nat
    BY RepositoryConstants
  <2> QED BY <2>1, <2>2 DEF BulkRow
<1> HIDE DEF a, b
<1>2. <<a, b>> \in Seq(BulkRow)
  BY <1>1
<1> QED BY <1>2 DEF a, b

\* Every step of the repository keeps the invariant.
LEMMA RepoNext == RepoInv /\ [RepositoryNext]_repoVars => RepoInv'
<1> SUFFICES ASSUME RepoInv, [RepositoryNext]_repoVars PROVE RepoInv'
  OBVIOUS
<1>1. CASE UNCHANGED repoVars
  <2>1. UNCHANGED <<suite, tc, idLock, writer>>
    BY <1>1 DEF repoVars
  <2>2. tc' \in [Tc -> CaseRow] /\ Gentle(tc, tc') /\ Untouched(tc') /\ Homed(tc', suite)
    BY <2>1, RowsKept
  <2>3. suite' \in [Suite -> SuiteRow] /\ Homed(tc', suite')
    BY <2>1, <2>2 DEF RepoInv, RepoType
  <2> QED BY <2>1, <2>2, <2>3, RequestsRest
<1>2. CASE RepositoryNext
  <2>1. ASSUME NEW n \in SuiteName, NEW p \in Suite \cup {0}, createSuite(p, n) PROVE RepoInv'
    BY <2>1, StepCreateSuite
  <2>2. ASSUME NEW s \in Suite, NEW n \in SuiteName, NEW p \in Suite \cup {0}, updateSuite(s, p, n) PROVE RepoInv'
    BY <2>2, StepUpdateSuite
  <2>3. ASSUME NEW c \in Tc, NEW t \in Title, NEW s \in Suite \cup {0}, updateTestCase(c, t, s) PROVE RepoInv'
    BY <2>3, StepUpdateTestCase
  <2>4. ASSUME NEW t \in Title, NEW n \in Pinned, createPinned(t, n) PROVE RepoInv'
    BY <2>4, StepCreatePinned
  <2>5. ASSUME NEW c \in Tc, removeTestCase(c) PROVE RepoInv'
    BY <2>5, StepRemoveTestCase
  <2>6. ASSUME bulkDeleteTestCases(Tc) PROVE RepoInv'
    BY <2>6, StepBulkDelete
  <2>7. ASSUME NEW S \in SUBSET Tc, NEW moves \in BOOLEAN, NEW s \in Suite \cup {0},
               NEW st \in {"Draft", "Archived"}, bulkUpdateTestCases(S, moves, s, st)
        PROVE  RepoInv'
    BY <2>7, StepBulkUpdate
  <2>8. ASSUME NEW w \in Writer, NEW s \in Suite, NEW mode, deleteSuite(w, s, mode) PROVE RepoInv'
    BY <2>8, StepDeleteSuite
  <2>9. ASSUME NEW w \in Writer, NEW t \in Title, NEW s \in Suite \cup {0}, createTestCase(w, t, s) PROVE RepoInv'
    BY <2>9, StepCreateTestCase
  <2>10. ASSUME NEW w \in Writer, NEW c \in Tc, duplicateTestCase(w, c) PROVE RepoInv'
    BY <2>10, StepDuplicate
  <2>11. ASSUME NEW w \in Writer, NEW t \in Title, NEW p \in Pinned \cup {0},
                bulkCreateTestCases(w, <<[title |-> t, pin |-> 0], [title |-> t, pin |-> p]>>)
         PROVE  RepoInv'
    BY <2>11, PairOfRows, StepBulkCreate
  <2>12. ASSUME NEW w \in Writer, NEW f \in File, NEW s \in Suite \cup {0}, importTestCases(w, f, s) PROVE RepoInv'
    BY <2>12, StepImport
  <2>13. ASSUME NEW w \in Writer,
                \/ DropSuite(w) \/ TakeIdLock(w) \/ insertTestCase(w) \/ InsertDuplicate(w)
                \/ BulkInsert(w) \/ Prepare(w) \/ ImportChunk(w) \/ ImportResponse(w)
         PROVE  RepoInv'
    BY <2>13, StepDropSuite, StepTakeIdLock, StepInsertTestCase, StepInsertDuplicate, StepBulkInsert,
       StepPrepare, StepImportChunk, StepImportResponse
  <2> QED BY <1>2, <2>1, <2>2, <2>3, <2>4, <2>5, <2>6, <2>7, <2>8, <2>9, <2>10, <2>11, <2>12, <2>13, Zenon
             DEF RepositoryNext
<1> QED BY <1>1, <1>2

\* What the invariant says of the import, the lock and the screens.
LEMMA RepoSafe == RepoInv => LockedIdsFree /\ ImportAccounts /\ ImportNoTwins /\ RepositoryViewsAgree
<1> SUFFICES ASSUME RepoInv PROVE LockedIdsFree /\ ImportAccounts /\ ImportNoTwins /\ RepositoryViewsAgree
  OBVIOUS
<1>0. RepoType /\ tc \in [Tc -> CaseRow] /\ writer \in [Writer -> Job] /\ Homed(tc, suite)
  BY DEF RepoInv, RepoType
<1>1. LockedIdsFree
  <2> SUFFICES ASSUME NEW w \in Writer, idLock = w, NEW c \in Tc, tc[c].num >= writer[w].num, tc[c].locked
               PROVE  FALSE
    BY DEF LockedIdsFree
  <2>1. DrawnBelow(tc, writer[w].num)
    BY DEF RepoInv
  <2>2. tc[c].num < writer[w].num /\ tc[c].num \in Nat /\ writer[w].num \in Nat
    BY <1>0, <2>1 DEF DrawnBelow, CaseRow, Job
  <2> QED BY <2>2
<1>2. ImportAccounts
  <2> SUFFICES ASSUME NEW w \in Writer, writer[w].op = "prepare", Chunk(writer[w]) = {}
               PROVE  /\ writer[w].imported + Cardinality(writer[w].errors) = Len(writer[w].rows)
                      /\ Cardinality({c \in Tc : tc[c].import = w}) = writer[w].imported
    BY DEF ImportAccounts
  <2> DEFINE r == writer[w]
  <2>1. r \in Job /\ r.op \in Importing /\ r.rows \in Seq(SheetRow) /\ RowsAccounted(tc, w, r)
    BY <1>0 DEF Importing, RepoInv, RowsFit
  <2>2. Handled(r) = {i \in DOMAIN r.rows : i < r.at}
    BY DEF Handled
  <2>3. PICK n \in Nat : DOMAIN r.rows = 1 .. n /\ n = Len(r.rows)
    BY <2>1 DEF SheetRow
  <2>4. r.at \in Nat \ {0} /\ ChunkSize \in Nat \ {0}
    BY <2>1, JobFields, RepositoryConstants
  <2>5. n < r.at \/ r.at \in Chunk(r)
    BY <2>3, <2>4 DEF Chunk
  <2>6. Handled(r) = DOMAIN r.rows
    BY <2>2, <2>3, <2>4, <2>5
  <2>7. Cardinality(Handled(r)) = Len(r.rows)
    BY <2>1, <2>6, ChunkFacts
  <2> QED BY <2>1, <2>7 DEF RowsAccounted, Of
<1>3. ImportNoTwins
  <2> SUFFICES ASSUME NEW c \in Tc, tc[c].import /= 0
               PROVE  /\ tc[c].born \notin writer[tc[c].import].titles
                      /\ \A d \in Tc \ {c} : tc[d].import = tc[c].import => tc[d].born /= tc[c].born
    BY DEF ImportNoTwins
  <2> DEFINE w == tc[c].import
  <2>1. w \in Writer
    BY <1>0 DEF CaseRow
  <2>2. c \in Of(tc, w)
    BY DEF Of
  <2>3. RowsAccounted(tc, w, writer[w])
    BY <2>1 DEF RepoInv
  <2> HIDE DEF w
  <2>4. Claimed(tc, w, writer[w], writer[w].at)
    BY <2>2, <2>3 DEF RowsAccounted
  <2>5. tc[c].born \notin writer[w].titles /\ \A d \in Of(tc, w) \ {c} : tc[d].born /= tc[c].born
    BY <2>2, <2>4 DEF Claimed
  <2> QED BY <2>5 DEF Of, w
<1>4. RepositoryViewsAgree
  <2>1. ASSUME NEW s \in Suites PROVE suiteCount(s) = Cardinality(listTestCases({s}, TRUE))
    <3>1. {c \in Cases : tc[c].suite = s} = listTestCases({s}, TRUE)
      BY DEF listTestCases
    <3> QED BY <3>1 DEF suiteCount
  <2>2. \A c \in Cases : tc[c].suite \in Suites \cup {0} /\ tc[c].suite \in Suite \cup {0}
    BY <1>0, LiveIn DEF Homed, Cases, Rows, Filed
  <2>3. exportTestCases = listTestCases(Suites \cup {0}, TRUE)
    BY <2>2 DEF listTestCases, exportTestCases
  <2>4. \A c \in Tc : tc[c].status = "Archived" => c \in Cases
    BY DEF Cases, Rows
  <2>5. exportTestCases = listTestCases(Suite \cup {0}, FALSE) \cup {c \in Tc : tc[c].status = "Archived"}
    <3>1. \A c \in Cases : c \in Tc
      BY DEF Cases, Rows
    <3> QED BY <2>2, <2>4, <3>1 DEF listTestCases, exportTestCases
  <2> QED BY <2>1, <2>3, <2>5 DEF RepositoryViewsAgree
<1> QED BY <1>1, <1>2, <1>3, <1>4

\* In every state of the repository the number read under the lock is free of other locked
\* writers' ids, an import that answers has accounted for each row of its file and has made no
\* twins, and the tree, the table and the export show the same cases (legacy.service.ts).
THEOREM RepositoryIsSound ==
  RepositorySpec => [](LockedIdsFree /\ ImportAccounts /\ ImportNoTwins /\ RepositoryViewsAgree)
<1>1. RepositoryInit => RepoInv
  BY RepoInit
<1>2. RepoInv /\ [RepositoryNext]_repoVars => RepoInv'
  BY RepoNext
<1>3. RepoInv => LockedIdsFree /\ ImportAccounts /\ ImportNoTwins /\ RepositoryViewsAgree
  BY RepoSafe
<1> QED BY <1>1, <1>2, <1>3, PTL DEF RepositorySpec

-----------------------------------------------------------------------------
(***************************************************************************)
(* The other screens.  Two handlers of a screen interleave at every await,  *)
(* so the invariant says what each one in flight still has to do and what   *)
(* the others leave it: the flags it will lower, the lists it still owes,   *)
(* the locks only it holds, the dialogs it will touch and the forms it has  *)
(* sent.  That it is kept rests on the discipline of the screens' scripts,  *)
(* ScriptsAssumption, a fact about 37 screens that TLC evaluates.           *)
(***************************************************************************)

\* The types.
Hs(scr)    == {c.h : c \in AllScreens[scr].controls}
Spots(scr) == {c.at : c \in AllScreens[scr].controls}
Names(scr) == STRING \cup {d.name : d \in AllScreens[scr].dialogs}
Views(scr) ==
  [up : SUBSET (STRING \X {1, 2}), open : SUBSET (Names(scr) \X Nat), presses : Nat,
   due : SUBSET (SJob \X STRING \X STRING), made : SUBSET (STRING \X {1, 2} \X Nat \X Nat),
   twice : SUBSET STRING, harmed : SUBSET STRING, left : BOOLEAN]
Jobs(scr) == [h : Hs(scr), at : Spots(scr), row : {1, 2}, born : Nat, pc : Nat, form : Nat]

Flying(js) == {j \in SJob : js[j] /= NoJob}
UnderWay(scr, v, job) ==
  /\ job \in Jobs(scr) /\ \E c \in AllScreens[scr].controls : c.h = job.h /\ c.at = job.at
  /\ job.pc \in DOMAIN job.h.steps /\ job.h.steps[job.pc].do \in Awaited
  /\ job.form <= v.presses
ViewTyped(scr, v, js) ==
  /\ scr \in DOMAIN AllScreens /\ v \in Views(scr) /\ DOMAIN js = SJob
  /\ \A o \in v.open : o[2] <= v.presses
  /\ \A j \in Flying(js) : UnderWay(scr, v, js[j])

FlagsHeld(v, js) == \A x \in v.up : v.left \/ \E j \in Flying(js) : Up(x[1]) \in ToSet(js[j].h.steps)

Owes(h, pc, r) ==
  \E k \in 1 .. pc - 1 : /\ h.steps[k].do \in {"write", "make"} /\ r \in h.steps[k].to
                         /\ \A m \in k + 1 .. pc - 1 : ~Shows(h.steps[m], r)
WritesOwed(scr, v, js) ==
  \A x \in v.due : \/ <<scr, x[2]>> \in Lagging
                   \/ x[1] \in Flying(js) /\ x[2] = js[x[1]].h.name /\ Owes(js[x[1]].h, js[x[1]].pc, x[3])

Locks(scr) == {f \in (UNION {FlagsOf(c.h) : c \in AllScreens[scr].controls}) \cup (UNION {d.keep : d \in AllScreens[scr].dialogs}) : IsLock(scr, f)}
LockHeld(f, v, js) ==
  \A i \in Flying(js) : Lowers(js[i].h, f) =>
    (\E x \in v.up : x[1] = f) /\ \A k \in Flying(js) : Lowers(js[k].h, f) => k = i

Homes(scr) == {d \in {x.name : x \in AllScreens[scr].dialogs} : IsHome(scr, d)}
WillTouch(job, d) ==
  \/ \E k \in job.pc .. Len(job.h.steps) : Touches(job.h.steps[k], d)
  \/ \E k \in DOMAIN job.h.catch : Touches(job.h.catch[k], d)
HomeKept(d, v, js) ==
  /\ d \notin v.harmed
  /\ \A j \in Flying(js) : WillTouch(js[j], d) =>
       (\E o \in v.open : o[1] = d) /\ \A o \in v.open : o[1] = d => o[2] <= js[j].born

SentOnes(scr) == {c \in AllScreens[scr].controls : Makes(c.h) /\ Hide(c.at) \in ToSet(c.h.steps) /\ <<scr, c.h.name>> \notin Remade}
FormGone(c, v, js) ==
  \A m \in v.made : m[1] = c.h.name =>
    /\ m[3] <= v.presses /\ <<c.at, m[3]>> \notin v.open
    /\ \A j \in Flying(js) : js[j].h.name = m[1] /\ Makes(js[j].h) /\ js[j].form = m[3] => m[4] < js[j].pc
MarksSound(scr, v) ==
  /\ \A m \in v.made : <<scr, m[1]>> \in Remade \/ \E c \in SentOnes(scr) : c.h.name = m[1]
  /\ \A n \in v.twice : <<scr, n>> \in Remade

WorkInv(scr, v, js) ==
  /\ ViewTyped(scr, v, js)
  /\ FlagsHeld(v, js)
  /\ WritesOwed(scr, v, js)
  /\ \A f \in Locks(scr) : LockHeld(f, v, js)
  /\ \A d \in Homes(scr) : HomeKept(d, v, js)
  /\ \A c \in SentOnes(scr) : FormGone(c, v, js)
  /\ MarksSound(scr, v)

-----------------------------------------------------------------------------
\* What one step of a script does to each part of the view.
UpBy(v, w, s, job) ==
  w.up = CASE s.do = "up"   -> {x \in v.up : x[1] \notin s.to} \cup (s.to \X {job.row})
           [] s.do = "down" -> {x \in v.up : x[1] \notin s.to}
           [] OTHER         -> v.up
OpenBy(v, w, s, job) ==
  /\ w.presses = v.presses
  /\ s.do \notin {"show", "hide"} => w.open = v.open /\ w.harmed = v.harmed
  /\ s.do \in {"show", "hide"} => \E d \in s.to :
       /\ w.open = {o \in v.open : o[1] /= d} \cup (IF s.do = "show" THEN {<<d, v.presses>>} ELSE {})
       /\ w.harmed = v.harmed \/ (w.harmed = v.harmed \cup {d} /\ \E o \in v.open : o[1] = d /\ o[2] > job.born)
DueBy(v, w, s, j, job) ==
  w.due = CASE s.do = "patch"            -> v.due \ {<<j, job.h.name, r>> : r \in s.to}
            [] s.do \in {"send", "load"} -> {x \in v.due : x[3] \notin s.to}
            [] s.do = "leave"            -> {}
            [] s.do \in {"write", "make"} -> v.due \cup {<<j, job.h.name, r>> : r \in s.to}
            [] OTHER                     -> v.due
MadeBy(v, w, s, job) ==
  /\ s.do /= "make" => w.made = v.made /\ w.twice = v.twice
  /\ s.do = "make" =>
       /\ w.made = IF OneShot(job) THEN v.made \cup {<<job.h.name, job.row, job.form, job.pc>>} ELSE v.made
       /\ w.twice = IF <<job.h.name, job.row, job.form, job.pc>> \in v.made THEN v.twice \cup {job.h.name} ELSE v.twice
LeftBy(v, w, s) == w.left = (v.left \/ s.do = "leave")
Moves(v, w, s, j, job) ==
  UpBy(v, w, s, job) /\ OpenBy(v, w, s, job) /\ DueBy(v, w, s, j, job) /\ MadeBy(v, w, s, job) /\ LeftBy(v, w, s)

\* A step of a script: its parts are as IsScript says.
IsStep(s) == s \in Steps /\ (s.do \in {"up", "down", "show", "hide"} => \E x \in s.to : s.to = {x})

LEMMA EffectMoves ==
  ASSUME NEW scr, NEW v \in Views(scr), NEW s, IsStep(s), NEW j \in SJob, NEW job \in Jobs(scr), job.h.name \in STRING
  PROVE  Effect(v, s, j, job) \in Views(scr) /\ Moves(v, Effect(v, s, j, job), s, j, job)
<1> DEFINE w == Effect(v, s, j, job)
<1>0. s.do \in Words /\ s.to \subseteq STRING /\ job.row \in {1, 2} /\ job.form \in Nat /\ job.pc \in Nat /\ job.born \in Nat
  BY DEF IsStep, Steps, Jobs
<1>v. /\ v.up \subseteq STRING \X {1, 2} /\ v.open \subseteq Names(scr) \X Nat /\ v.presses \in Nat
      /\ v.due \subseteq SJob \X STRING \X STRING /\ v.made \subseteq STRING \X {1, 2} \X Nat \X Nat
      /\ v.twice \subseteq STRING /\ v.harmed \subseteq STRING /\ v.left \in BOOLEAN
  BY DEF Views
<1>n. STRING \subseteq Names(scr)
  BY DEF Names
<1>1. CASE s.do = "up"
  <2>1. w = [v EXCEPT !.up = {x \in @ : x[1] \notin s.to} \cup (s.to \X {job.row})]
    BY <1>1 DEF Effect
  <2>2. {x \in v.up : x[1] \notin s.to} \cup (s.to \X {job.row}) \in SUBSET (STRING \X {1, 2})
    BY <1>0, <1>v
  <2> QED BY <1>1, <2>1, <2>2, <1>v DEF Moves, UpBy, OpenBy, DueBy, MadeBy, LeftBy, Views
<1>2. CASE s.do = "down"
  <2>1. w = [v EXCEPT !.up = {x \in @ : x[1] \notin s.to}]
    BY <1>2 DEF Effect
  <2> QED BY <1>2, <2>1, <1>v DEF Moves, UpBy, OpenBy, DueBy, MadeBy, LeftBy, Views
<1>3. CASE s.do \in {"show", "hide"}
  <2> DEFINE d == CHOOSE x \in s.to : TRUE
             later == {o \in v.open : o[1] = d /\ o[2] > job.born}
             op == Keeps(v, d) \cup (IF s.do = "show" THEN {<<d, v.presses>>} ELSE {})
             hm == IF later = {} THEN v.harmed ELSE v.harmed \cup {d}
  <2>0. d \in s.to /\ d \in STRING /\ d \in Names(scr)
    BY <1>0, <1>3, <1>n DEF IsStep
  <2>1. w = [v EXCEPT !.open = op, !.harmed = hm]
    BY <1>3 DEF Effect
  <2>2. /\ op = {o \in v.open : o[1] /= d} \cup (IF s.do = "show" THEN {<<d, v.presses>>} ELSE {})
        /\ hm = v.harmed \/ (hm = v.harmed \cup {d} /\ \E o \in v.open : o[1] = d /\ o[2] > job.born)
    BY DEF Keeps
  <2> HIDE DEF d
  <2>3. op \in SUBSET (Names(scr) \X Nat) /\ hm \in SUBSET STRING
    BY <2>0, <2>2, <1>v
  <2> HIDE DEF op, hm, later
  <2>4. w \in Views(scr) /\ w.open = op /\ w.harmed = hm /\ w.presses = v.presses /\ w.up = v.up /\ w.due = v.due
        /\ w.made = v.made /\ w.twice = v.twice /\ w.left = v.left
    BY <2>1, <2>3, <1>v DEF Views
  <2> HIDE DEF w
  <2>5. OpenBy(v, w, s, job)
    BY <1>3, <2>0, <2>2, <2>4 DEF OpenBy
  <2>6. UpBy(v, w, s, job) /\ DueBy(v, w, s, j, job) /\ MadeBy(v, w, s, job) /\ LeftBy(v, w, s)
    BY <1>3, <2>4, <1>v DEF UpBy, DueBy, MadeBy, LeftBy
  <2> QED BY <2>4, <2>5, <2>6 DEF Moves, w
<1> DEFINE owed == {<<j, job.h.name, r>> : r \in s.to}
<1>4. CASE s.do = "patch"
  <2>1. w = [v EXCEPT !.due = @ \ owed]
    BY <1>4 DEF Effect
  <2>2. v.due \ owed \in SUBSET (SJob \X STRING \X STRING)
    BY <1>v
  <2> QED BY <1>4, <2>1, <2>2, <1>v DEF Moves, UpBy, OpenBy, DueBy, MadeBy, LeftBy, Views
<1>5. CASE s.do \in {"send", "load"}
  <2>1. w = [v EXCEPT !.due = {x \in @ : x[3] \notin s.to}]
    BY <1>5 DEF Effect
  <2>2. {x \in v.due : x[3] \notin s.to} \in SUBSET (SJob \X STRING \X STRING)
    BY <1>v
  <2> QED BY <1>5, <2>1, <2>2, <1>v DEF Moves, UpBy, OpenBy, DueBy, MadeBy, LeftBy, Views
<1>6. CASE s.do = "leave"
  <2>1. w = [v EXCEPT !.left = TRUE, !.due = {}]
    BY <1>6 DEF Effect
  <2> QED BY <1>6, <2>1, <1>v DEF Moves, UpBy, OpenBy, DueBy, MadeBy, LeftBy, Views
<1>o. v.due \cup owed \in SUBSET (SJob \X STRING \X STRING)
  BY <1>v, <1>0
<1>7. CASE s.do = "write"
  <2>1. w = [v EXCEPT !.due = @ \cup owed]
    BY <1>7 DEF Effect
  <2> QED BY <1>7, <2>1, <1>o, <1>v DEF Moves, UpBy, OpenBy, DueBy, MadeBy, LeftBy, Views
<1>8. CASE s.do = "make"
  <2> DEFINE mark == <<job.h.name, job.row, job.form, job.pc>>
             md == IF OneShot(job) THEN v.made \cup {mark} ELSE v.made
             tw == IF mark \in v.made THEN v.twice \cup {job.h.name} ELSE v.twice
             du == v.due \cup owed
  <2>1. w = [v EXCEPT !.due = du, !.made = md, !.twice = tw]
    BY <1>8 DEF Effect
  <2>2. md \in SUBSET (STRING \X {1, 2} \X Nat \X Nat) /\ tw \in SUBSET STRING /\ du \in SUBSET (SJob \X STRING \X STRING)
    BY <1>0, <1>v, <1>o
  <2> HIDE DEF md, tw, du
  <2>3. /\ w \in Views(scr) /\ w.due = du /\ w.made = md /\ w.twice = tw /\ w.open = v.open /\ w.harmed = v.harmed
        /\ w.presses = v.presses /\ w.up = v.up /\ w.left = v.left
    BY <2>1, <2>2, <1>v, ZenonT(60) DEF Views
  <2> HIDE DEF w
  <2>4. UpBy(v, w, s, job) /\ OpenBy(v, w, s, job) /\ LeftBy(v, w, s)
    BY <1>8, <2>3, <1>v DEF UpBy, OpenBy, LeftBy
  <2>5. DueBy(v, w, s, j, job) /\ MadeBy(v, w, s, job)
    BY <1>8, <2>3 DEF DueBy, MadeBy, md, tw, du
  <2> QED BY <2>3, <2>4, <2>5 DEF Moves, w
<1>9. s.do \in {"up", "down", "show", "hide", "patch", "send", "leave", "write", "make", "load"}
  BY <1>0 DEF Words, Awaited
<1> HIDE DEF w, owed
<1> QED BY <1>9, <1>1, <1>2, <1>3, <1>4, <1>5, <1>6, <1>7, <1>8

-----------------------------------------------------------------------------
\* A set of numbers that is not empty has a least one.
LEMMA LeastIn ==
  ASSUME NEW S, S \subseteq Nat, S /= {}
  PROVE  \E m \in S : \A k \in S : m <= k
<1>1. PICK m \in S : \A k \in S : ~(<<k, m>> \in OpToRel(<, Nat))
  BY NatLessThanWellFounded, WFMin
<1>2. ASSUME NEW k \in S PROVE m <= k
  <2>0. k \in Nat /\ m \in Nat
    OBVIOUS
  <2>1. ASSUME k < m PROVE FALSE
    <3>1. <<k, m>> \in OpToRel(<, Nat)
      BY <2>0, <2>1 DEF OpToRel
    <3> QED BY <1>1, <3>1
  <2> QED BY <2>0, <2>1
<1> QED BY <1>2

\* The next await of a script, or its end.
LEMMA NextAwaitIs ==
  ASSUME NEW q, q \in Seq(Steps), NEW p \in 1 .. Len(q) + 1
  PROVE  /\ NextAwait(q, p) \in p .. Len(q) + 1
         /\ \A k \in p .. NextAwait(q, p) - 1 : k \in DOMAIN q /\ q[k].do \notin Awaited
         /\ NextAwait(q, p) <= Len(q) => NextAwait(q, p) \in DOMAIN q /\ q[NextAwait(q, p)].do \in Awaited
<1> DEFINE later == {k \in p .. Len(q) : q[k].do \in Awaited}
           at == CHOOSE k \in later : \A i \in later : k <= i
<1>0. Len(q) \in Nat /\ DOMAIN q = 1 .. Len(q) /\ p \in Nat /\ 1 <= p /\ p <= Len(q) + 1
  BY LenProperties
<1>1. CASE later = {}
  <2>1. NextAwait(q, p) = Len(q) + 1
    BY <1>1 DEF NextAwait
  <2> QED BY <1>0, <1>1, <2>1
<1>2. CASE later /= {}
  <2>1. NextAwait(q, p) = at
    BY <1>2 DEF NextAwait
  <2>2. \E m \in later : \A k \in later : m <= k
    <3>1. later \subseteq Nat
      BY <1>0
    <3> HIDE DEF later
    <3> QED BY <1>2, <3>1, LeastIn
  <2>3. at \in later /\ \A i \in later : at <= i
    <3> HIDE DEF later
    <3> QED BY <2>2
  <2> HIDE DEF at
  <2>4. \A k \in p .. at - 1 : k \in DOMAIN q /\ q[k].do \notin Awaited
    BY <1>0, <2>3
  <2> QED BY <1>0, <2>1, <2>3, <2>4
<1> QED BY <1>1, <1>2

\* The views a handler passes through between two awaits.
IsWalk(g, v, j, job, q, from, to) ==
  g = [n \in 0 .. to + 1 - from |-> IF n = 0 THEN v ELSE Effect(g[n - 1], q[from + n - 1], j, job)]

LEMMA ThroughIs ==
  \A v, j, job, q, from, to : Through(v, j, job, q, from, to) = (CHOOSE g : IsWalk(g, v, j, job, q, from, to))[to + 1 - from]
BY DEF Through, IsWalk

Passes(g, K, scr, v, j, job, q, from) ==
  /\ g \in [0 .. K -> Views(scr)] /\ g[0] = v
  /\ \A n \in 1 .. K : Moves(g[n - 1], g[n], q[from + n - 1], j, job)

LEMMA StepOfScript ==
  ASSUME NEW q, IsScript(q), NEW k \in DOMAIN q
  PROVE  IsStep(q[k])
<1>1. q \in Seq(Steps) /\ (q[k].do \in {"up", "down", "show", "hide"} => \E x \in q[k].to : q[k].to = {x})
  BY DEF IsScript
<1>2. q[k] \in Steps
  BY <1>1, ElementOfSeq, LenProperties
<1> QED BY <1>1, <1>2 DEF IsStep

LEMMA ThroughPasses ==
  ASSUME NEW scr, NEW v \in Views(scr), NEW j \in SJob, NEW job \in Jobs(scr), job.h.name \in STRING,
         NEW q, IsScript(q), NEW from \in Nat \ {0}, NEW to \in Nat, from <= to + 1, to <= Len(q)
  PROVE  \E g : /\ Passes(g, to + 1 - from, scr, v, j, job, q, from)
                /\ Through(v, j, job, q, from, to) = g[to + 1 - from]
<1> DEFINE K == to + 1 - from
           V == Views(scr)
           Do(w, n) == Effect(w, q[from + n - 1], j, job)
           G == (0 .. K) \X V
           F == [p \in G |-> Do(p[2], p[1] + 1)]
<1>0. K \in Nat
  OBVIOUS
<1>q. \A n \in 1 .. K : from + n - 1 \in DOMAIN q
  <2>1. q \in Seq(Steps)
    BY DEF IsScript
  <2>2. Len(q) \in Nat /\ DOMAIN q = 1 .. Len(q)
    BY <2>1, LenProperties
  <2> QED BY <2>2
<1>1. ASSUME NEW n \in 1 .. K, NEW w \in V PROVE Do(w, n) \in V /\ Moves(w, Do(w, n), q[from + n - 1], j, job)
  <2>1. IsStep(q[from + n - 1])
    BY <1>q, StepOfScript
  <2> QED BY <2>1, EffectMoves
<1>3. \A g : IsWalk(g, v, j, job, q, from, to) <=> g = [n \in 0 .. K |-> IF n = 0 THEN v ELSE Do(g[n - 1], n)]
  BY DEF IsWalk
<1> HIDE DEF Do, V, K
<1>4. \E g : IsWalk(g, v, j, job, q, from, to)
  <2>1. \A n \in 1 .. K : \A w \in V : F[<<n - 1, w>>] = Do(w, n)
    <3> SUFFICES ASSUME NEW n \in 1 .. K, NEW w \in V PROVE F[<<n - 1, w>>] = Do(w, n)
      OBVIOUS
    <3>1. n - 1 \in 0 .. K /\ (n - 1) + 1 = n
      BY <1>0
    <3>2. <<n - 1, w>> \in G
      BY <3>1
    <3> QED BY <3>1, <3>2
  <2>2. HandsOn(K, V, G, F)
    <3> SUFFICES ASSUME NEW n \in 1 .. K, NEW w \in V PROVE <<n, F[<<n - 1, w>>]>> \in G
      BY DEF HandsOn
    <3>1. n \in 0 .. K
      BY <1>0
    <3>2. F[<<n - 1, w>>] \in V
      <4> HIDE DEF F
      <4> QED BY <1>1, <2>1
    <3> HIDE DEF F
    <3> QED BY <3>1, <3>2
  <2>3. <<0, v>> \in G /\ G \in SUBSET ((0 .. K) \X V)
    BY <1>0 DEF V
  <2>4. PICK g \in [0 .. K -> V] : Walks(g, K, G, v, F)
    <3> HIDE DEF G, F
    <3> QED BY <1>0, <2>2, <2>3, Walked
  <2>5. ASSUME NEW n \in 0 .. K PROVE g[n] = IF n = 0 THEN v ELSE Do(g[n - 1], n)
    <3>1. g[n] = IF n = 0 THEN v ELSE F[<<n - 1, g[n - 1]>>]
      BY <2>4 DEF Walks
    <3>2. n = 0 \/ (n \in 1 .. K /\ n - 1 \in 0 .. K)
      BY <1>0
    <3>3. n = 0 \/ F[<<n - 1, g[n - 1]>>] = Do(g[n - 1], n)
      BY <2>1, <3>2
    <3> QED BY <3>1, <3>3
  <2>6. g = [n \in 0 .. K |-> IF n = 0 THEN v ELSE Do(g[n - 1], n)]
    BY <2>5
  <2> QED BY <1>3, <2>6
<1> DEFINE h == CHOOSE g : IsWalk(g, v, j, job, q, from, to)
<1>5. IsWalk(h, v, j, job, q, from, to)
  BY <1>4
<1>6. Through(v, j, job, q, from, to) = h[K]
  BY ThroughIs DEF K
<1> HIDE DEF h
<1>7. h = [n \in 0 .. K |-> IF n = 0 THEN v ELSE Do(h[n - 1], n)]
  BY <1>3, <1>5
<1> DEFINE S == {n \in 0 .. K : h[n] \in V}
<1>8. 0 \in S
  BY <1>0, <1>7 DEF V
<1>9. ASSUME NEW n \in 1 .. K, n - 1 \in S PROVE n \in S
  <2>1. n \in 0 .. K /\ n /= 0
    BY <1>0
  <2>2. h[n] = Do(h[n - 1], n)
    BY <1>7, <2>1
  <2> QED BY <1>1, <1>9, <2>1, <2>2
<1>10. \A n \in 0 .. K : h[n] \in V
  <2> HIDE DEF S
  <2>1. 0 .. K \subseteq S
    BY <1>0, <1>8, <1>9, Climb
  <2> USE DEF S
  <2> QED BY <2>1
<1>11. Passes(h, K, scr, v, j, job, q, from)
  <2>1. h \in [0 .. K -> V]
    <3>1. DOMAIN h = 0 .. K /\ h = [n \in 0 .. K |-> h[n]]
      BY <1>7
    <3> QED BY <3>1, <1>10
  <2>2. h[0] = v
    BY <1>0, <1>7
  <2>3. ASSUME NEW n \in 1 .. K PROVE Moves(h[n - 1], h[n], q[from + n - 1], j, job)
    <3>1. n \in 0 .. K /\ n - 1 \in 0 .. K /\ n /= 0
      BY <1>0
    <3>2. h[n] = Do(h[n - 1], n) /\ h[n - 1] \in V
      BY <1>7, <1>10, <3>1
    <3> QED BY <1>1, <3>2
  <2> QED BY <2>1, <2>2, <2>3 DEF Passes, V
<1> QED BY <1>6, <1>11 DEF K

-----------------------------------------------------------------------------
(* What a handler does between two awaits, or after an error. *)

\* The view is w after the steps of q from `from` to `to`, none of them awaited.
Stretch(scr, v, w, j, job, q, from, to) ==
  /\ v \in Views(scr) /\ w \in Views(scr) /\ j \in SJob /\ job \in Jobs(scr) /\ IsScript(q)
  /\ from \in Nat \ {0} /\ to \in Nat /\ from <= to + 1 /\ to <= Len(q)
  /\ \A k \in from .. to : k \in DOMAIN q /\ q[k].do \notin Awaited
  /\ \E g : Passes(g, to + 1 - from, scr, v, j, job, q, from) /\ w = g[to + 1 - from]

LEMMA StretchIs ==
  ASSUME NEW scr, NEW v \in Views(scr), NEW j \in SJob, NEW job \in Jobs(scr), job.h.name \in STRING,
         NEW q, IsScript(q), NEW from \in Nat \ {0}, NEW to \in Nat, from <= to + 1, to <= Len(q),
         \A k \in from .. to : q[k].do \notin Awaited
  PROVE  Stretch(scr, v, Through(v, j, job, q, from, to), j, job, q, from, to)
<1>0. /\ v \in Views(scr) /\ j \in SJob /\ job \in Jobs(scr) /\ job.h.name \in STRING /\ IsScript(q)
      /\ from \in Nat \ {0} /\ to \in Nat /\ from <= to + 1 /\ to <= Len(q)
  OBVIOUS
<1>1. PICK g : Passes(g, to + 1 - from, scr, v, j, job, q, from) /\ Through(v, j, job, q, from, to) = g[to + 1 - from]
  BY ONLY <1>0, ThroughPasses
<1>2. g[to + 1 - from] \in Views(scr)
  <2>1. to + 1 - from \in 0 .. to + 1 - from
    OBVIOUS
  <2> QED BY <1>1, <2>1 DEF Passes
<1>3. \A k \in from .. to : k \in DOMAIN q
  <2>1. q \in Seq(Steps)
    BY DEF IsScript
  <2>2. Len(q) \in Nat /\ DOMAIN q = 1 .. Len(q)
    BY <2>1, LenProperties
  <2> QED BY <2>2
<1> QED BY <1>1, <1>2, <1>3 DEF Stretch

\* The views on the way, and the step from each to the next.
OnTheWay(g, K, v, w, j, job, q, from, to) ==
  /\ K \in Nat /\ K = to + 1 - from /\ from \in Nat /\ from > 0 /\ to \in Nat
  /\ g[0] = v /\ g[K] = w
  /\ \A n \in 1 .. K : /\ Moves(g[n - 1], g[n], q[from + n - 1], j, job)
                       /\ IsStep(q[from + n - 1]) /\ q[from + n - 1].do \notin Awaited
                       /\ from + n - 1 \in from .. to /\ n \in 0 .. K /\ n - 1 \in 0 .. K /\ n - 1 \in Nat

LEMMA StretchWalk ==
  ASSUME NEW scr, NEW v, NEW w, NEW j, NEW job, NEW q, NEW from, NEW to, Stretch(scr, v, w, j, job, q, from, to)
  PROVE  \E g, K : OnTheWay(g, K, v, w, j, job, q, from, to)
<1> DEFINE K == to + 1 - from
<1>0. from \in Nat /\ from > 0 /\ to \in Nat /\ from <= to + 1
  BY DEF Stretch
<1>1. PICK g : Passes(g, K, scr, v, j, job, q, from) /\ w = g[K]
  BY DEF Stretch
<1>2. ASSUME NEW n \in 1 .. K
      PROVE  /\ Moves(g[n - 1], g[n], q[from + n - 1], j, job)
             /\ IsStep(q[from + n - 1]) /\ q[from + n - 1].do \notin Awaited
             /\ from + n - 1 \in from .. to /\ n \in 0 .. K /\ n - 1 \in 0 .. K /\ n - 1 \in Nat
  <2>1. from + n - 1 \in from .. to /\ n \in 0 .. K /\ n - 1 \in 0 .. K /\ n - 1 \in Nat
    BY <1>0
  <2>2. IsScript(q) /\ from + n - 1 \in DOMAIN q /\ q[from + n - 1].do \notin Awaited
    BY <2>1 DEF Stretch
  <2>3. IsStep(q[from + n - 1])
    BY <2>2, StepOfScript
  <2>4. Moves(g[n - 1], g[n], q[from + n - 1], j, job)
    BY <1>1 DEF Passes
  <2> QED BY <2>1, <2>2, <2>3, <2>4
<1>3. g[0] = v /\ K \in Nat
  BY <1>0, <1>1 DEF Passes
<1>4. OnTheWay(g, K, v, w, j, job, q, from, to)
  BY <1>0, <1>1, <1>2, <1>3 DEF OnTheWay
<1> QED BY <1>4

\* A flag is up at the end only if it was before, or the script raises it.
LEMMA StretchUp ==
  ASSUME NEW scr, NEW v, NEW w, NEW j, NEW job, NEW q, NEW from, NEW to, Stretch(scr, v, w, j, job, q, from, to),
         NEW x \in w.up
  PROVE  x \in v.up \/ \E k \in from .. to : q[k] = Up(x[1])
<1>0. PICK g, K : OnTheWay(g, K, v, w, j, job, q, from, to)
  BY StretchWalk
<1>1. /\ K \in Nat /\ K = to + 1 - from /\ from \in Nat /\ from > 0 /\ to \in Nat /\ g[0] = v /\ g[K] = w
  BY <1>0 DEF OnTheWay
<1> DEFINE S == {n \in 0 .. K : x \in g[n].up => x \in v.up \/ \E k \in from .. from + n - 1 : q[k] = Up(x[1])}
<1>2. 0 \in S
  BY <1>1
<1>3. ASSUME NEW n \in 1 .. K, n - 1 \in S PROVE n \in S
  <2> DEFINE s == q[from + n - 1]
  <2>1. /\ Moves(g[n - 1], g[n], s, j, job) /\ IsStep(s) /\ n \in 0 .. K
        /\ from + n - 1 \in from .. from + n - 1
    BY <1>0, <1>1 DEF OnTheWay
  <2>2. UpBy(g[n - 1], g[n], s, job)
    BY <2>1 DEF Moves
  <2>3. ASSUME x \in g[n].up, x \notin g[n - 1].up PROVE s = Up(x[1])
    <3>1. s.do = "up" /\ x \in s.to \X {job.row}
      BY <2>2, <2>3 DEF UpBy
    <3>2. PICK y \in s.to : s.to = {y}
      BY <2>1, <3>1 DEF IsStep
    <3>3. s.to = {x[1]}
      BY <3>1, <3>2
    <3>4. s \in [do : Words, to : SUBSET STRING]
      BY <2>1 DEF IsStep, Steps
    <3> QED BY <3>1, <3>3, <3>4 DEF Up
  <2>4. \A k \in from .. from + (n - 1) - 1 : k \in from .. from + n - 1
    BY <1>1, <2>1
  <2> HIDE DEF s
  <2>5. x \in g[n - 1].up => x \in v.up \/ \E k \in from .. from + n - 1 : q[k] = Up(x[1])
    BY <1>3, <2>4
  <2> QED BY <2>1, <2>3, <2>5 DEF s
<1>4. K \in S
  <2> HIDE DEF S
  <2>1. 0 .. K \subseteq S
    BY <1>1, <1>2, <1>3, Climb
  <2> QED BY <1>1, <2>1
<1>5. from + K - 1 = to
  BY <1>1
<1> QED BY <1>1, <1>4, <1>5

\* What the last step does is done at the end.
LEMMA StretchEnd ==
  ASSUME NEW scr, NEW v, NEW w, NEW j, NEW job, NEW q, NEW from, NEW to, Stretch(scr, v, w, j, job, q, from, to),
         from <= to
  PROVE  /\ q[to].do = "leave" => w.left = TRUE
         /\ q[to].do = "down" => \A x \in w.up : x[1] \notin q[to].to
<1>0. PICK g, K : OnTheWay(g, K, v, w, j, job, q, from, to)
  BY StretchWalk
<1>1. /\ K \in Nat /\ K = to + 1 - from /\ from \in Nat /\ from > 0 /\ to \in Nat /\ g[0] = v /\ g[K] = w
  BY <1>0 DEF OnTheWay
<1>2. K \in 1 .. K /\ from + K - 1 = to
  BY <1>1
<1>3. Moves(g[K - 1], w, q[to], j, job)
  BY <1>0, <1>1, <1>2 DEF OnTheWay
<1> QED BY <1>3 DEF Moves, LeftBy, UpBy

\* A flag that is lowered and not raised is down.
LEMMA StretchDown ==
  ASSUME NEW scr, NEW v, NEW w, NEW j, NEW job, NEW q, NEW from, NEW to, Stretch(scr, v, w, j, job, q, from, to),
         \A k \in from .. to : q[k].do /= "up",
         NEW i \in from .. to, q[i].do = "down", NEW f \in q[i].to
  PROVE  \A x \in w.up : x[1] /= f
<1>0. PICK g, K : OnTheWay(g, K, v, w, j, job, q, from, to)
  BY StretchWalk
<1>1. /\ K \in Nat /\ K = to + 1 - from /\ from \in Nat /\ from > 0 /\ to \in Nat /\ g[0] = v /\ g[K] = w
  BY <1>0 DEF OnTheWay
<1> DEFINE S == {n \in 0 .. K : from + n - 1 >= i => \A x \in g[n].up : x[1] /= f}
<1>2. 0 \in S
  BY <1>1
<1>3. ASSUME NEW n \in 1 .. K, n - 1 \in S PROVE n \in S
  <2> DEFINE s == q[from + n - 1]
  <2>1. Moves(g[n - 1], g[n], s, j, job) /\ from + n - 1 \in from .. to /\ n \in 0 .. K
    BY <1>0, <1>1 DEF OnTheWay
  <2>2. UpBy(g[n - 1], g[n], s, job) /\ s.do /= "up"
    BY <2>1 DEF Moves
  <2>3. g[n].up \subseteq g[n - 1].up
    BY <2>2 DEF UpBy
  <2>4. from + n - 1 = i => \A x \in g[n].up : x[1] /= f
    BY <2>2 DEF UpBy
  <2>5. from + n - 1 >= i => from + n - 1 = i \/ from + (n - 1) - 1 >= i
    BY <1>1, <2>1
  <2> HIDE DEF s
  <2> QED BY <1>3, <2>1, <2>3, <2>4, <2>5
<1>4. K \in S
  <2> HIDE DEF S
  <2>1. 0 .. K \subseteq S
    BY <1>1, <1>2, <1>3, Climb
  <2> QED BY <1>1, <2>1
<1>5. from + K - 1 = to /\ to >= i
  BY <1>1
<1> QED BY <1>1, <1>4, <1>5

\* A flag that is not lowered stays up.
LEMMA StretchHeld ==
  ASSUME NEW scr, NEW v, NEW w, NEW j, NEW job, NEW q, NEW from, NEW to, Stretch(scr, v, w, j, job, q, from, to),
         NEW f, \A k \in from .. to : q[k].do = "down" => f \notin q[k].to,
         (\E x \in v.up : x[1] = f) \/ \E k \in from .. to : q[k] = Up(f)
  PROVE  \E x \in w.up : x[1] = f
<1>0. PICK g, K : OnTheWay(g, K, v, w, j, job, q, from, to)
  BY StretchWalk
<1>1. /\ K \in Nat /\ K = to + 1 - from /\ from \in Nat /\ from > 0 /\ to \in Nat /\ g[0] = v /\ g[K] = w
  BY <1>0 DEF OnTheWay
<1> DEFINE S == {n \in 0 .. K : (\E x \in v.up : x[1] = f) \/ (\E k \in from .. from + n - 1 : q[k] = Up(f))
                                => \E x \in g[n].up : x[1] = f}
<1>2. 0 \in S
  BY <1>1
<1>3. ASSUME NEW n \in 1 .. K, n - 1 \in S PROVE n \in S
  <2> DEFINE s == q[from + n - 1]
  <2>1. Moves(g[n - 1], g[n], s, j, job) /\ from + n - 1 \in from .. to /\ n \in 0 .. K
    BY <1>0, <1>1 DEF OnTheWay
  <2>2. UpBy(g[n - 1], g[n], s, job) /\ (s.do = "down" => f \notin s.to)
    BY <2>1 DEF Moves
  <2>3. (\E x \in g[n - 1].up : x[1] = f) => \E x \in g[n].up : x[1] = f
    <3> SUFFICES ASSUME NEW x \in g[n - 1].up, x[1] = f PROVE \E y \in g[n].up : y[1] = f
      OBVIOUS
    <3>1. CASE s.do = "up" /\ f \in s.to
      <4>1. <<f, job.row>> \in g[n].up
        BY <2>2, <3>1 DEF UpBy
      <4> QED BY <4>1
    <3>2. CASE ~(s.do = "up" /\ f \in s.to)
      <4>1. x \in g[n].up
        BY <2>2, <3>2 DEF UpBy
      <4> QED BY <4>1
    <3> QED BY <3>1, <3>2
  <2>4. s = Up(f) => \E x \in g[n].up : x[1] = f
    <3> SUFFICES ASSUME s = Up(f) PROVE \E x \in g[n].up : x[1] = f
      OBVIOUS
    <3>1. s.do = "up" /\ f \in s.to
      BY DEF Up
    <3>2. <<f, job.row>> \in g[n].up
      BY <2>2, <3>1 DEF UpBy
    <3> QED BY <3>2
  <2>5. \A k \in from .. from + n - 1 : k = from + n - 1 \/ k \in from .. from + (n - 1) - 1
    BY <1>1, <2>1
  <2> HIDE DEF s
  <2>6. (\E k \in from .. from + n - 1 : q[k] = Up(f)) => s = Up(f) \/ \E k \in from .. from + (n - 1) - 1 : q[k] = Up(f)
    BY <2>5 DEF s
  <2> QED BY <1>3, <2>1, <2>3, <2>4, <2>6
<1>4. K \in S
  <2> HIDE DEF S
  <2>1. 0 .. K \subseteq S
    BY <1>1, <1>2, <1>3, Climb
  <2> QED BY <1>1, <2>1
<1>5. from + K - 1 = to
  BY <1>1
<1> QED BY <1>1, <1>4, <1>5

\* A list is owed at the end only if it was before and the script has not shown it.
LEMMA StretchDue ==
  ASSUME NEW scr, NEW v, NEW w, NEW j, NEW job, NEW q, NEW from, NEW to, Stretch(scr, v, w, j, job, q, from, to),
         NEW x \in w.due
  PROVE  x \in v.due /\ \A k \in from .. to : Shows(q[k], x[3]) => ~(x[1] = j /\ x[2] = job.h.name)
<1>0. PICK g, K : OnTheWay(g, K, v, w, j, job, q, from, to)
  BY StretchWalk
<1>1. /\ K \in Nat /\ K = to + 1 - from /\ from \in Nat /\ from > 0 /\ to \in Nat /\ g[0] = v /\ g[K] = w
  BY <1>0 DEF OnTheWay
<1>t. v.due \subseteq SJob \X STRING \X STRING
  BY DEF Stretch, Views
<1> DEFINE P(n) == x \in v.due /\ \A k \in from .. from + n - 1 : Shows(q[k], x[3]) => ~(x[1] = j /\ x[2] = job.h.name)
           S == {n \in 0 .. K : x \in g[n].due => P(n)}
<1>2. 0 \in S
  BY <1>1
<1>3. ASSUME NEW n \in 1 .. K, n - 1 \in S PROVE n \in S
  <2> DEFINE s == q[from + n - 1]
  <2>1. Moves(g[n - 1], g[n], s, j, job) /\ from + n - 1 \in from .. to /\ n \in 0 .. K /\ s.do \notin Awaited
    BY <1>0, <1>1 DEF OnTheWay
  <2>2. DueBy(g[n - 1], g[n], s, j, job) /\ s.do \notin {"write", "make"}
    BY <2>1 DEF Moves, Awaited
  <2>3. x \in g[n].due => x \in g[n - 1].due
    BY <2>2 DEF DueBy
  <2>4. x \in g[n].due /\ x \in v.due /\ Shows(s, x[3]) => ~(x[1] = j /\ x[2] = job.h.name)
    <3> SUFFICES ASSUME x \in g[n].due, x \in v.due, Shows(s, x[3]), x[1] = j, x[2] = job.h.name PROVE FALSE
      OBVIOUS
    <3>1. x = <<j, job.h.name, x[3]>>
      BY <1>t
    <3>2. s.do = "leave" \/ (s.do \in {"patch", "send", "load"} /\ x[3] \in s.to)
      BY DEF Shows
    <3>3. CASE s.do = "patch"
      <4>1. x[3] \in s.to /\ g[n].due = g[n - 1].due \ {<<j, job.h.name, r>> : r \in s.to}
        BY <2>2, <3>2, <3>3 DEF DueBy
      <4>2. x \in {<<j, job.h.name, r>> : r \in s.to}
        BY <3>1, <4>1
      <4> QED BY <4>1, <4>2
    <3>4. CASE s.do /= "patch"
      BY <2>2, <3>2, <3>4 DEF DueBy
    <3> QED BY <3>3, <3>4
  <2>5. \A k \in from .. from + n - 1 : k = from + n - 1 \/ k \in from .. from + (n - 1) - 1
    BY <1>1, <2>1
  <2>6. x \in g[n - 1].due => P(n - 1)
    BY <1>3
  <2>7. x \in g[n].due => P(n)
    <3> HIDE DEF s
    <3> SUFFICES ASSUME x \in g[n].due PROVE P(n)
      OBVIOUS
    <3>1. P(n - 1) /\ x \in v.due
      BY <2>3, <2>6
    <3>2. ASSUME NEW k \in from .. from + n - 1 PROVE Shows(q[k], x[3]) => ~(x[1] = j /\ x[2] = job.h.name)
      <4>1. k = from + n - 1 \/ k \in from .. from + (n - 1) - 1
        BY <2>5
      <4> QED BY <2>4, <3>1, <4>1 DEF s
    <3> QED BY <3>1, <3>2
  <2> HIDE DEF P
  <2> QED BY <2>1, <2>7
<1>4. K \in S
  <2> HIDE DEF S
  <2>1. 0 .. K \subseteq S
    BY <1>1, <1>2, <1>3, Climb
  <2> QED BY <1>1, <2>1
<1>5. from + K - 1 = to
  BY <1>1
<1> QED BY <1>1, <1>4, <1>5

\* Nothing is made between two awaits, and nothing clicked.
LEMMA StretchMade ==
  ASSUME NEW scr, NEW v, NEW w, NEW j, NEW job, NEW q, NEW from, NEW to, Stretch(scr, v, w, j, job, q, from, to)
  PROVE  w.made = v.made /\ w.twice = v.twice /\ w.presses = v.presses
<1>0. PICK g, K : OnTheWay(g, K, v, w, j, job, q, from, to)
  BY StretchWalk
<1>1. /\ K \in Nat /\ g[0] = v /\ g[K] = w
  BY <1>0 DEF OnTheWay
<1> DEFINE S == {n \in 0 .. K : g[n].made = v.made /\ g[n].twice = v.twice /\ g[n].presses = v.presses}
<1>2. 0 \in S
  BY <1>1
<1>3. ASSUME NEW n \in 1 .. K, n - 1 \in S PROVE n \in S
  <2> DEFINE s == q[from + n - 1]
  <2>1. Moves(g[n - 1], g[n], s, j, job) /\ n \in 0 .. K /\ s.do \notin Awaited
    BY <1>0, <1>1 DEF OnTheWay
  <2>2. MadeBy(g[n - 1], g[n], s, job) /\ OpenBy(g[n - 1], g[n], s, job) /\ s.do /= "make"
    BY <2>1 DEF Moves, Awaited
  <2> HIDE DEF s
  <2> QED BY <1>3, <2>1, <2>2 DEF MadeBy, OpenBy
<1>4. K \in S
  <2> HIDE DEF S
  <2>1. 0 .. K \subseteq S
    BY <1>1, <1>2, <1>3, Climb
  <2> QED BY <1>1, <2>1
<1> QED BY <1>1, <1>4

\* A dialog is open at the end only as it was before, or opened by the script now.
LEMMA StretchOpen ==
  ASSUME NEW scr, NEW v, NEW w, NEW j, NEW job, NEW q, NEW from, NEW to, Stretch(scr, v, w, j, job, q, from, to),
         NEW o \in w.open
  PROVE  o \in v.open \/ (o[2] = v.presses /\ \E k \in from .. to : q[k] = Show(o[1]))
<1>0. PICK g, K : OnTheWay(g, K, v, w, j, job, q, from, to)
  BY StretchWalk
<1>1. /\ K \in Nat /\ K = to + 1 - from /\ from \in Nat /\ from > 0 /\ to \in Nat /\ g[0] = v /\ g[K] = w
  BY <1>0 DEF OnTheWay
<1> DEFINE P(n) == o \in v.open \/ (o[2] = v.presses /\ \E k \in from .. from + n - 1 : q[k] = Show(o[1]))
           S == {n \in 0 .. K : g[n].presses = v.presses /\ (o \in g[n].open => P(n))}
<1>2. 0 \in S
  BY <1>1
<1>3. ASSUME NEW n \in 1 .. K, n - 1 \in S PROVE n \in S
  <2> DEFINE s == q[from + n - 1]
  <2>1. /\ Moves(g[n - 1], g[n], s, j, job) /\ IsStep(s) /\ n \in 0 .. K
        /\ from + n - 1 \in from .. from + n - 1
    BY <1>0, <1>1 DEF OnTheWay
  <2>2. OpenBy(g[n - 1], g[n], s, job)
    BY <2>1 DEF Moves
  <2>3. ASSUME o \in g[n].open, o \notin g[n - 1].open PROVE s = Show(o[1]) /\ o[2] = g[n - 1].presses
    <3>1. s.do \in {"show", "hide"}
      BY <2>2, <2>3 DEF OpenBy
    <3>2. PICK d \in s.to : g[n].open = {y \in g[n - 1].open : y[1] /= d} \cup (IF s.do = "show" THEN {<<d, g[n - 1].presses>>} ELSE {})
      BY <2>2, <3>1 DEF OpenBy
    <3>3. s.do = "show" /\ o = <<d, g[n - 1].presses>>
      BY <2>3, <3>1, <3>2
    <3>4. PICK y \in s.to : s.to = {y}
      BY <2>1, <3>1 DEF IsStep
    <3>5. s.to = {o[1]}
      BY <3>2, <3>3, <3>4
    <3>6. s \in [do : Words, to : SUBSET STRING]
      BY <2>1 DEF IsStep, Steps
    <3>7. s = Show(o[1])
      BY <3>3, <3>5, <3>6 DEF Show
    <3> QED BY <3>3, <3>7
  <2>4. g[n].presses = g[n - 1].presses
    BY <2>2 DEF OpenBy
  <2>5. \A k \in from .. from + (n - 1) - 1 : k \in from .. from + n - 1
    BY <1>1, <2>1
  <2> HIDE DEF s
  <2>6. g[n - 1].presses = v.presses /\ (o \in g[n - 1].open => P(n))
    BY <1>3, <2>5
  <2>7. o \in g[n].open => P(n)
    BY <2>1, <2>3, <2>6 DEF s
  <2> HIDE DEF P
  <2> QED BY <2>1, <2>4, <2>6, <2>7
<1>4. K \in S
  <2> HIDE DEF S
  <2>1. 0 .. K \subseteq S
    BY <1>1, <1>2, <1>3, Climb
  <2> QED BY <1>1, <2>1
<1>5. from + K - 1 = to
  BY <1>1
<1> QED BY <1>1, <1>4, <1>5

\* A dialog that the script closes and does not open is closed.
LEMMA StretchHidden ==
  ASSUME NEW scr, NEW v, NEW w, NEW j, NEW job, NEW q, NEW from, NEW to, Stretch(scr, v, w, j, job, q, from, to),
         NEW i \in from .. to, NEW d, q[i] = Hide(d), \A k \in from .. to : q[k] /= Show(d)
  PROVE  \A o \in w.open : o[1] /= d
<1>0. PICK g, K : OnTheWay(g, K, v, w, j, job, q, from, to)
  BY StretchWalk
<1>1. /\ K \in Nat /\ K = to + 1 - from /\ from \in Nat /\ from > 0 /\ to \in Nat /\ g[0] = v /\ g[K] = w
  BY <1>0 DEF OnTheWay
<1> DEFINE S == {n \in 0 .. K : from + n - 1 >= i => \A o \in g[n].open : o[1] /= d}
<1>2. 0 \in S
  BY <1>1
<1>3. ASSUME NEW n \in 1 .. K, n - 1 \in S PROVE n \in S
  <2> DEFINE s == q[from + n - 1]
  <2>1. /\ Moves(g[n - 1], g[n], s, j, job) /\ IsStep(s) /\ n \in 0 .. K /\ from + n - 1 \in from .. to
    BY <1>0, <1>1 DEF OnTheWay
  <2>2. OpenBy(g[n - 1], g[n], s, job) /\ s /= Show(d)
    BY <2>1 DEF Moves
  <2>3. ASSUME NEW o \in g[n].open, o \notin g[n - 1].open PROVE o[1] /= d
    <3>1. s.do \in {"show", "hide"}
      BY <2>2, <2>3 DEF OpenBy
    <3>2. PICK e \in s.to : g[n].open = {y \in g[n - 1].open : y[1] /= e} \cup (IF s.do = "show" THEN {<<e, g[n - 1].presses>>} ELSE {})
      BY <2>2, <3>1 DEF OpenBy
    <3>3. s.do = "show" /\ o = <<e, g[n - 1].presses>>
      BY <2>3, <3>1, <3>2
    <3>4. PICK y \in s.to : s.to = {y}
      BY <2>1, <3>1 DEF IsStep
    <3>5. s.to = {o[1]}
      BY <3>2, <3>3, <3>4
    <3>6. s \in [do : Words, to : SUBSET STRING]
      BY <2>1 DEF IsStep, Steps
    <3>7. s = Show(o[1])
      BY <3>3, <3>5, <3>6 DEF Show
    <3> QED BY <2>2, <3>7
  <2>4. from + n - 1 = i => \A o \in g[n].open : o[1] /= d
    <3> SUFFICES ASSUME from + n - 1 = i, NEW o \in g[n].open PROVE o[1] /= d
      OBVIOUS
    <3>1. s = Hide(d)
      OBVIOUS
    <3>2. s.do = "hide" /\ s.to = {d}
      BY <3>1 DEF Hide
    <3> QED BY <2>2, <3>2 DEF OpenBy
  <2>5. from + n - 1 >= i => from + n - 1 = i \/ from + (n - 1) - 1 >= i
    BY <1>1, <2>1
  <2> HIDE DEF s
  <2> QED BY <1>3, <2>1, <2>3, <2>4, <2>5
<1>4. K \in S
  <2> HIDE DEF S
  <2>1. 0 .. K \subseteq S
    BY <1>1, <1>2, <1>3, Climb
  <2> QED BY <1>1, <2>1
<1>5. from + K - 1 = to /\ to >= i
  BY <1>1
<1> QED BY <1>1, <1>4, <1>5

\* A script that touches dialog d once at most finds it as it was, and harms it only if it was
\* opened after the click; one that does not touch it leaves it as it was.
LEMMA StretchHome ==
  ASSUME NEW scr, NEW v, NEW w, NEW j, NEW job, NEW q, NEW from, NEW to, Stretch(scr, v, w, j, job, q, from, to),
         NEW d, NEW i, \A k \in from .. to : Touches(q[k], d) => k = i
  PROVE  /\ (\A o \in v.open : o[1] = d => ~(o[2] > job.born)) /\ d \in w.harmed => d \in v.harmed
         /\ (\A k \in from .. to : ~Touches(q[k], d)) =>
              (d \in w.harmed => d \in v.harmed) /\ \A o : o[1] = d => (o \in w.open <=> o \in v.open)
<1>0. PICK g, K : OnTheWay(g, K, v, w, j, job, q, from, to)
  BY StretchWalk
<1>1. /\ K \in Nat /\ K = to + 1 - from /\ from \in Nat /\ from > 0 /\ to \in Nat /\ g[0] = v /\ g[K] = w
  BY <1>0 DEF OnTheWay
<1> DEFINE Same(n) == \A o : o[1] = d => (o \in g[n].open <=> o \in v.open)
           Clean(n) == d \in g[n].harmed => d \in v.harmed
           Young == \A o \in v.open : o[1] = d => ~(o[2] > job.born)
           P(n) == /\ (\A k \in from .. from + n - 1 : ~Touches(q[k], d)) => Same(n) /\ Clean(n)
                   /\ Young => Clean(n)
           S == {n \in 0 .. K : P(n)}
<1>2. 0 \in S
  BY <1>1
<1>3. ASSUME NEW n \in 1 .. K, n - 1 \in S PROVE n \in S
  <2> DEFINE s == q[from + n - 1]
  <2>1. /\ Moves(g[n - 1], g[n], s, j, job) /\ IsStep(s) /\ n \in 0 .. K /\ from + n - 1 \in from .. to
        /\ from + n - 1 \in from .. from + n - 1
    BY <1>0, <1>1 DEF OnTheWay
  <2>2. OpenBy(g[n - 1], g[n], s, job)
    BY <2>1 DEF Moves
  <2>3. \A k \in from .. from + (n - 1) - 1 : k \in from .. to /\ k /= from + n - 1 /\ k \in from .. from + n - 1
    BY <1>1, <2>1
  <2>4. ~Touches(s, d) => (Same(n - 1) => Same(n)) /\ (Clean(n - 1) => Clean(n))
    <3> SUFFICES ASSUME ~Touches(s, d) PROVE (Same(n - 1) => Same(n)) /\ (Clean(n - 1) => Clean(n))
      OBVIOUS
    <3>1. CASE s.do \in {"show", "hide"}
      <4>1. PICK e \in s.to :
              /\ g[n].open = {y \in g[n - 1].open : y[1] /= e} \cup (IF s.do = "show" THEN {<<e, g[n - 1].presses>>} ELSE {})
              /\ g[n].harmed = g[n - 1].harmed \/ g[n].harmed = g[n - 1].harmed \cup {e}
        BY <2>2, <3>1 DEF OpenBy
      <4>2. e /= d
        BY <3>1, <4>1 DEF Touches
      <4>3. \A o : o[1] = d => (o \in g[n].open <=> o \in g[n - 1].open)
        BY <4>1, <4>2
      <4> QED BY <4>1, <4>2, <4>3
    <3>2. CASE s.do \notin {"show", "hide"}
      <4>1. g[n].open = g[n - 1].open /\ g[n].harmed = g[n - 1].harmed
        BY <2>2, <3>2 DEF OpenBy
      <4> QED BY <4>1
    <3> QED BY <3>1, <3>2
  <2>5. Touches(s, d) /\ Young /\ Same(n - 1) /\ Clean(n - 1) => Clean(n)
    <3> SUFFICES ASSUME Touches(s, d), Young, Same(n - 1), Clean(n - 1) PROVE Clean(n)
      OBVIOUS
    <3>1. s.do \in {"show", "hide"} /\ d \in s.to
      BY DEF Touches
    <3>2. PICK e \in s.to : g[n].harmed = g[n - 1].harmed \/ (g[n].harmed = g[n - 1].harmed \cup {e} /\ \E o \in g[n - 1].open : o[1] = e /\ o[2] > job.born)
      BY <2>2, <3>1 DEF OpenBy
    <3>3. e = d
      <4>1. PICK y \in s.to : s.to = {y}
        BY <2>1, <3>1 DEF IsStep
      <4> QED BY <3>1, <3>2, <4>1
    <3>4. ~\E o \in g[n - 1].open : o[1] = e /\ o[2] > job.born
      BY <3>3
    <3> QED BY <3>2, <3>4
  <2>6. P(n - 1)
    BY <1>3
  <2>7. Touches(s, d) => Same(n - 1) /\ Clean(n - 1)
    <3> SUFFICES ASSUME Touches(s, d) PROVE Same(n - 1) /\ Clean(n - 1)
      OBVIOUS
    <3>1. i = from + n - 1
      BY <2>1
    <3>2. \A k \in from .. from + (n - 1) - 1 : ~Touches(q[k], d)
      BY <2>3, <3>1
    <3> HIDE DEF Same, Clean, Young
    <3> QED BY <2>6, <3>2
  <2>8. (\A k \in from .. from + n - 1 : ~Touches(q[k], d)) => ~Touches(s, d) /\ \A k \in from .. from + (n - 1) - 1 : ~Touches(q[k], d)
    BY <2>1, <2>3
  <2> HIDE DEF Same, Clean, Young, s
  <2>9. P(n)
    BY <2>4, <2>5, <2>6, <2>7, <2>8
  <2> HIDE DEF P
  <2> QED BY <2>1, <2>9
<1>4. P(K)
  <2> HIDE DEF P
  <2>1. 0 .. K \subseteq S
    <3> HIDE DEF S
    <3> QED BY <1>1, <1>2, <1>3, Climb
  <2> QED BY <1>1, <2>1
<1>5. from + K - 1 = to
  BY <1>1
<1> QED BY <1>1, <1>4, <1>5

-----------------------------------------------------------------------------
(* A handler's turn: from a click or an answer to its next await or its end. *)

WorkTurn(scr, v, w, j, job, p, at) ==
  /\ at = NextAwait(job.h.steps, p) /\ at \in Nat /\ p \in Nat \ {0} /\ p <= at /\ at <= Len(job.h.steps) + 1
  /\ Len(job.h.steps) \in Nat /\ DOMAIN job.h.steps = 1 .. Len(job.h.steps)
  /\ Stretch(scr, v, w, j, job, job.h.steps, p, at - 1)
WorkEnds(w, j, job, at, js, v1, js1) ==
  /\ at = Len(job.h.steps) + 1 /\ v1 = Lowered(w, job) /\ js1 = [js EXCEPT ![j] = NoJob]
WorkWaits(w, j, job, at, js, v1, js1) ==
  /\ at \in DOMAIN job.h.steps /\ job.h.steps[at].do \in Awaited
  /\ v1 = w /\ js1 = [js EXCEPT ![j] = [job EXCEPT !.pc = at]]

LEMMA TurnIs ==
  ASSUME NEW scr, NEW v \in Views(scr), NEW j \in SJob, NEW job \in Jobs(scr), IsHandler(job.h),
         NEW p \in 1 .. Len(job.h.steps) + 1, NEW js, NEW v1, NEW js1,
         LET at == NextAwait(job.h.steps, p)
             w  == Through(v, j, job, job.h.steps, p, at - 1)
         IN  IF at > Len(job.h.steps)
               THEN v1 = Lowered(w, job) /\ js1 = [js EXCEPT ![j] = NoJob]
               ELSE v1 = w /\ js1 = [js EXCEPT ![j] = [job EXCEPT !.pc = at]]
  PROVE  \E w, at : WorkTurn(scr, v, w, j, job, p, at) /\ (WorkEnds(w, j, job, at, js, v1, js1) \/ WorkWaits(w, j, job, at, js, v1, js1))
<1> DEFINE q == job.h.steps
           at == NextAwait(q, p)
           w == Through(v, j, job, q, p, at - 1)
<1>1. q \in Seq(Steps) /\ IsScript(q) /\ job.h.name \in STRING
  BY DEF IsHandler, IsScript
<1>2. Len(q) \in Nat /\ DOMAIN q = 1 .. Len(q)
  BY <1>1, LenProperties
<1>3. /\ at \in p .. Len(q) + 1
      /\ \A k \in p .. at - 1 : k \in DOMAIN q /\ q[k].do \notin Awaited
      /\ at <= Len(q) => at \in DOMAIN q /\ q[at].do \in Awaited
  BY <1>1, NextAwaitIs
<1> HIDE DEF at
<1>4. at \in Nat /\ p \in Nat \ {0} /\ p <= at /\ at <= Len(q) + 1 /\ at - 1 \in Nat /\ p <= (at - 1) + 1 /\ at - 1 <= Len(q)
  BY <1>2, <1>3
<1>5. Stretch(scr, v, w, j, job, q, p, at - 1)
  <2> HIDE DEF q
  <2> QED BY <1>1, <1>3, <1>4, StretchIs
<1>6. WorkTurn(scr, v, w, j, job, p, at)
  BY <1>2, <1>4, <1>5 DEF WorkTurn, at
<1>7. IF at > Len(q) THEN v1 = Lowered(w, job) /\ js1 = [js EXCEPT ![j] = NoJob]
                     ELSE v1 = w /\ js1 = [js EXCEPT ![j] = [job EXCEPT !.pc = at]]
  BY DEF at
<1> HIDE DEF w
<1>8. CASE at > Len(q)
  <2>1. WorkEnds(w, j, job, at, js, v1, js1)
    BY <1>2, <1>4, <1>7, <1>8 DEF WorkEnds
  <2> QED BY <1>6, <2>1
<1>9. CASE ~(at > Len(q))
  <2>1. at <= Len(q)
    BY <1>2, <1>4, <1>9
  <2>2. WorkWaits(w, j, job, at, js, v1, js1)
    BY <1>3, <1>7, <1>9, <2>1 DEF WorkWaits
  <2> QED BY <1>6, <2>2
<1> QED BY <1>8, <1>9

LEMMA SomeJob ==
  ASSUME NEW scr, NEW job \in Jobs(scr)
  PROVE  job /= NoJob
<1>1. "row" \in DOMAIN job
  BY DEF Jobs
<1>2. DOMAIN NoJob = {"at"}
  BY DEF NoJob
<1> QED BY <1>1, <1>2

LEMMA LaterJob ==
  ASSUME NEW scr, NEW job \in Jobs(scr), NEW at \in Nat
  PROVE  LET next == [job EXCEPT !.pc = at]
         IN  /\ next \in Jobs(scr) /\ next.pc = at /\ next.h = job.h /\ next.at = job.at /\ next.row = job.row
             /\ next.born = job.born /\ next.form = job.form
BY DEF Jobs

\* The slots after a turn.
LEMMA SlotsAfter ==
  ASSUME NEW scr, NEW w, NEW j \in SJob, NEW job \in Jobs(scr), NEW at \in Nat, NEW js, DOMAIN js = SJob, NEW v1, NEW js1,
         WorkEnds(w, j, job, at, js, v1, js1) \/ WorkWaits(w, j, job, at, js, v1, js1)
  PROVE  /\ DOMAIN js1 = SJob
         /\ \A i \in SJob : i /= j => js1[i] = js[i] /\ (i \in Flying(js1) <=> i \in Flying(js))
         /\ j \in Flying(js1) => /\ WorkWaits(w, j, job, at, js, v1, js1) /\ js1[j] \in Jobs(scr)
                                 /\ js1[j].pc = at /\ js1[j].h = job.h /\ js1[j].at = job.at /\ js1[j].row = job.row
                                 /\ js1[j].born = job.born /\ js1[j].form = job.form
         /\ j \notin Flying(js1) => WorkEnds(w, j, job, at, js, v1, js1)
<1> DEFINE next == [job EXCEPT !.pc = at]
<1>1. /\ next \in Jobs(scr) /\ next.pc = at /\ next.h = job.h /\ next.at = job.at /\ next.row = job.row
      /\ next.born = job.born /\ next.form = job.form /\ next /= NoJob
  <2>1. /\ next \in Jobs(scr) /\ next.pc = at /\ next.h = job.h /\ next.at = job.at /\ next.row = job.row
        /\ next.born = job.born /\ next.form = job.form
    BY LaterJob
  <2> HIDE DEF next
  <2> QED BY <2>1, SomeJob
<1> HIDE DEF next
<1>2. CASE WorkEnds(w, j, job, at, js, v1, js1)
  <2>1. js1 = [js EXCEPT ![j] = NoJob]
    BY <1>2 DEF WorkEnds
  <2>2. DOMAIN js1 = SJob /\ js1[j] = NoJob /\ \A i \in SJob : i /= j => js1[i] = js[i]
    BY <2>1
  <2> QED BY <1>2, <2>2 DEF Flying
<1>3. CASE WorkWaits(w, j, job, at, js, v1, js1)
  <2>1. js1 = [js EXCEPT ![j] = next]
    BY <1>3 DEF WorkWaits, next
  <2>2. DOMAIN js1 = SJob /\ js1[j] = next /\ \A i \in SJob : i /= j => js1[i] = js[i]
    BY <2>1
  <2> QED BY <1>1, <1>3, <2>2 DEF Flying
<1> QED BY <1>2, <1>3

\* What the scripts of a screen are like.
LEMMA HandlersAre ==
  ASSUME NEW scr \in DOMAIN AllScreens, NEW c \in AllScreens[scr].controls
  PROVE  /\ IsHandler(c.h) /\ Tidy(c.h)
         /\ Tells(c.h) \/ <<scr, c.h.name>> \in Lagging
         /\ Makes(c.h) => OneAtATime(scr, c.h) \/ <<scr, c.h.name>> \in Unlocked
         /\ Makes(c.h) /\ Hide(c.at) \in ToSet(c.h.steps) => IsSentOnce(scr, c) \/ <<scr, c.h.name>> \in Remade
BY ScriptsAssumption

LEMMA GuardedAreHomes ==
  ASSUME NEW scr \in DOMAIN AllScreens, NEW d, <<scr, d>> \in Guarded
  PROVE  IsHome(scr, d)
<1> DEFINE e == <<scr, d>>
<1>1. e[1] = scr /\ e[2] = d /\ e \in Guarded
  OBVIOUS
<1> QED BY <1>1, ScriptsAssumption

LEMMA LoweredIs ==
  ASSUME NEW scr, NEW w \in Views(scr), NEW job
  PROVE  /\ Lowered(w, job) \in Views(scr) /\ Lowered(w, job).up = {x \in w.up : x[1] \notin job.h.last}
         /\ Lowered(w, job).open = w.open /\ Lowered(w, job).presses = w.presses /\ Lowered(w, job).due = w.due
         /\ Lowered(w, job).made = w.made /\ Lowered(w, job).twice = w.twice /\ Lowered(w, job).harmed = w.harmed
         /\ Lowered(w, job).left = w.left
BY DEF Lowered, Views

\* A handler takes its turn: view v is v0 when its script goes on at step p, and v1 when it waits
\* again or has ended.
WorkTakes(scr, v, v0, w, js, j, job, p, at, v1, js1) ==
  /\ ViewTyped(scr, v, js) /\ v.left = FALSE
  /\ v0 \in Views(scr) /\ v0.up = v.up /\ v0.open = v.open /\ v0.harmed = v.harmed /\ v0.left = FALSE
  /\ v.presses <= v0.presses
  /\ j \in SJob /\ job \in Jobs(scr) /\ job.form <= v0.presses
  /\ \E c \in AllScreens[scr].controls : c.h = job.h /\ c.at = job.at
  /\ js[j] = NoJob \/ js[j] = job
  /\ p = 1 \/ (p - 1 \in DOMAIN job.h.steps /\ job.h.steps[p - 1].do \in Awaited)
  /\ WorkTurn(scr, v0, w, j, job, p, at)
  /\ WorkEnds(w, j, job, at, js, v1, js1) \/ WorkWaits(w, j, job, at, js, v1, js1)

LEMMA TakesFacts ==
  ASSUME NEW scr, NEW v, NEW v0, NEW w, NEW js, NEW j, NEW job, NEW p, NEW at, NEW v1, NEW js1,
         WorkTakes(scr, v, v0, w, js, j, job, p, at, v1, js1)
  PROVE  /\ scr \in DOMAIN AllScreens /\ j \in SJob /\ job \in Jobs(scr) /\ job.h.name \in STRING
         /\ IsHandler(job.h) /\ Tidy(job.h)
         /\ v \in Views(scr) /\ v0 \in Views(scr) /\ w \in Views(scr) /\ v1 \in Views(scr)
         /\ Stretch(scr, v0, w, j, job, job.h.steps, p, at - 1)
         /\ at \in Nat /\ p \in Nat \ {0} /\ p <= at /\ at <= Len(job.h.steps) + 1
         /\ Len(job.h.steps) \in Nat /\ DOMAIN job.h.steps = 1 .. Len(job.h.steps)
         /\ v1.open = w.open /\ v1.due = w.due /\ v1.harmed = w.harmed /\ v1.left = w.left
         /\ v1.presses = v0.presses /\ v1.made = v0.made /\ v1.twice = v0.twice
         /\ v1.up \subseteq w.up
         /\ DOMAIN js = SJob /\ DOMAIN js1 = SJob
         /\ \A i \in SJob : i /= j => js1[i] = js[i] /\ (i \in Flying(js1) <=> i \in Flying(js))
         /\ j \in Flying(js) => js[j] = job
         /\ j \in Flying(js1) => /\ at \in DOMAIN job.h.steps /\ job.h.steps[at].do \in Awaited /\ v1 = w
                                 /\ js1[j] \in Jobs(scr)
                                 /\ js1[j].pc = at /\ js1[j].h = job.h /\ js1[j].at = job.at /\ js1[j].row = job.row
                                 /\ js1[j].born = job.born /\ js1[j].form = job.form
         /\ j \notin Flying(js1) => at = Len(job.h.steps) + 1 /\ v1 = Lowered(w, job)
<1>1. /\ ViewTyped(scr, v, js) /\ v0 \in Views(scr) /\ j \in SJob /\ job \in Jobs(scr)
      /\ js[j] = NoJob \/ js[j] = job
      /\ WorkTurn(scr, v0, w, j, job, p, at)
      /\ WorkEnds(w, j, job, at, js, v1, js1) \/ WorkWaits(w, j, job, at, js, v1, js1)
  BY DEF WorkTakes
<1>2. scr \in DOMAIN AllScreens /\ v \in Views(scr) /\ DOMAIN js = SJob
  BY <1>1 DEF ViewTyped
<1>3. PICK c \in AllScreens[scr].controls : c.h = job.h /\ c.at = job.at
  BY DEF WorkTakes
<1>4. IsHandler(job.h) /\ Tidy(job.h) /\ job.h.name \in STRING
  <2>1. IsHandler(c.h) /\ Tidy(c.h)
    BY <1>2, HandlersAre
  <2> QED BY <1>3, <2>1 DEF IsHandler
<1>5. /\ at \in Nat /\ p \in Nat \ {0} /\ p <= at /\ at <= Len(job.h.steps) + 1
      /\ Len(job.h.steps) \in Nat /\ DOMAIN job.h.steps = 1 .. Len(job.h.steps)
      /\ Stretch(scr, v0, w, j, job, job.h.steps, p, at - 1)
  BY <1>1 DEF WorkTurn
<1>6. w \in Views(scr) /\ w.made = v0.made /\ w.twice = v0.twice /\ w.presses = v0.presses
  <2>1. w \in Views(scr)
    BY <1>5 DEF Stretch
  <2> QED BY <2>1, <1>5, StretchMade
<1>7. v1 = w \/ v1 = Lowered(w, job)
  BY <1>1 DEF WorkEnds, WorkWaits
<1>8. /\ v1 \in Views(scr) /\ v1.open = w.open /\ v1.due = w.due /\ v1.harmed = w.harmed /\ v1.left = w.left
      /\ v1.presses = w.presses /\ v1.made = w.made /\ v1.twice = w.twice /\ v1.up \subseteq w.up
  <2>1. CASE v1 = w
    BY <1>6, <2>1
  <2>2. CASE v1 = Lowered(w, job)
    <3>1. /\ Lowered(w, job) \in Views(scr) /\ Lowered(w, job).up = {x \in w.up : x[1] \notin job.h.last}
          /\ Lowered(w, job).open = w.open /\ Lowered(w, job).presses = w.presses /\ Lowered(w, job).due = w.due
          /\ Lowered(w, job).made = w.made /\ Lowered(w, job).twice = w.twice /\ Lowered(w, job).harmed = w.harmed
          /\ Lowered(w, job).left = w.left
      <4>1. w \in Views(scr)
        BY <1>6
      <4> QED BY ONLY <4>1, LoweredIs
    <3>2. Lowered(w, job).up \subseteq w.up
      BY <3>1
    <3> QED BY <2>2, <3>1, <3>2
  <2> QED BY <1>7, <2>1, <2>2
<1>9. /\ DOMAIN js1 = SJob
      /\ \A i \in SJob : i /= j => js1[i] = js[i] /\ (i \in Flying(js1) <=> i \in Flying(js))
      /\ j \in Flying(js1) => /\ WorkWaits(w, j, job, at, js, v1, js1) /\ js1[j] \in Jobs(scr)
                              /\ js1[j].pc = at /\ js1[j].h = job.h /\ js1[j].at = job.at /\ js1[j].row = job.row
                              /\ js1[j].born = job.born /\ js1[j].form = job.form
      /\ j \notin Flying(js1) => WorkEnds(w, j, job, at, js, v1, js1)
  <2>1. /\ j \in SJob /\ job \in Jobs(scr) /\ at \in Nat /\ DOMAIN js = SJob
        /\ WorkEnds(w, j, job, at, js, v1, js1) \/ WorkWaits(w, j, job, at, js, v1, js1)
    BY <1>1, <1>2, <1>5
  <2> QED BY ONLY <2>1, SlotsAfter, ZenonT(30)
<1>10. j \in Flying(js) => js[j] = job
  BY <1>1 DEF Flying
<1>11. j \in Flying(js1) => at \in DOMAIN job.h.steps /\ job.h.steps[at].do \in Awaited /\ v1 = w
  BY <1>9 DEF WorkWaits
<1>12. j \notin Flying(js1) => at = Len(job.h.steps) + 1 /\ v1 = Lowered(w, job)
  BY <1>9 DEF WorkEnds
<1> QED BY <1>1, <1>2, <1>4, <1>5, <1>6, <1>8, <1>9, <1>10, <1>11, <1>12

LEMMA TakesTyped ==
  ASSUME NEW scr, NEW v, NEW v0, NEW w, NEW js, NEW j, NEW job, NEW p, NEW at, NEW v1, NEW js1,
         WorkTakes(scr, v, v0, w, js, j, job, p, at, v1, js1)
  PROVE  ViewTyped(scr, v1, js1)
<1> USE TakesFacts
<1>1. /\ scr \in DOMAIN AllScreens /\ v1 \in Views(scr) /\ DOMAIN js1 = SJob /\ v1.presses = v0.presses /\ v1.open = w.open
      /\ Stretch(scr, v0, w, j, job, job.h.steps, p, at - 1)
  OBVIOUS
<1>2. /\ v.presses \in Nat /\ v0.presses \in Nat /\ v.presses <= v0.presses /\ v0.open = v.open
      /\ v.open \subseteq Names(scr) \X Nat /\ v1.open \subseteq Names(scr) \X Nat
  <2>1. v \in Views(scr) /\ v0 \in Views(scr) /\ v1 \in Views(scr)
    OBVIOUS
  <2> QED BY <2>1 DEF WorkTakes, Views
<1>3. \A o \in v.open : o[2] <= v.presses
  BY DEF WorkTakes, ViewTyped
<1>4. ASSUME NEW o \in v1.open PROVE o[2] <= v1.presses
  <2>1. o \in v0.open \/ o[2] = v0.presses
    BY <1>1, StretchOpen
  <2>2. o[2] \in Nat
    BY <1>2
  <2>3. o \in v.open => o[2] <= v0.presses
    BY <1>2, <1>3, <2>2
  <2> QED BY <1>1, <1>2, <2>1, <2>2, <2>3
<1>5. ASSUME NEW i \in Flying(js1) PROVE UnderWay(scr, v1, js1[i])
  <2>0. i \in SJob
    BY DEF Flying
  <2>1. CASE i /= j
    <3>1. js1[i] = js[i] /\ i \in Flying(js)
      BY <2>0, <2>1, <1>5
    <3>2. UnderWay(scr, v, js[i])
      BY <3>1 DEF WorkTakes, ViewTyped
    <3>3. js[i].form \in Nat /\ js[i].form <= v.presses
      BY <3>2 DEF UnderWay, Jobs
    <3>4. js[i].form <= v1.presses
      BY <1>1, <1>2, <3>3
    <3> QED BY <3>1, <3>2, <3>4 DEF UnderWay
  <2>2. CASE i = j
    <3>1. /\ at \in DOMAIN job.h.steps /\ job.h.steps[at].do \in Awaited
          /\ js1[j] \in Jobs(scr) /\ js1[j].pc = at /\ js1[j].h = job.h /\ js1[j].at = job.at /\ js1[j].form = job.form
      BY <1>5, <2>2
    <3>2. /\ job.form <= v0.presses
          /\ \E c \in AllScreens[scr].controls : c.h = job.h /\ c.at = job.at
      BY DEF WorkTakes
    <3> QED BY <1>1, <2>2, <3>1, <3>2 DEF UnderWay
  <2> QED BY <2>1, <2>2
<1> QED BY <1>1, <1>4, <1>5 DEF ViewTyped

\* The flags of a handler go with it.
LEMMA TakesFlags ==
  ASSUME NEW scr, NEW v, NEW v0, NEW w, NEW js, NEW j, NEW job, NEW p, NEW at, NEW v1, NEW js1,
         WorkTakes(scr, v, v0, w, js, j, job, p, at, v1, js1), FlagsHeld(v, js)
  PROVE  FlagsHeld(v1, js1)
<1> DEFINE q == job.h.steps
<1>f. /\ Stretch(scr, v0, w, j, job, q, p, at - 1) /\ v1.up \subseteq w.up /\ v1.left = w.left
      /\ at \in Nat /\ p \in Nat \ {0} /\ p <= at /\ at <= Len(q) + 1 /\ Len(q) \in Nat /\ DOMAIN q = 1 .. Len(q)
      /\ \A i \in SJob : i /= j => js1[i] = js[i] /\ (i \in Flying(js1) <=> i \in Flying(js))
      /\ j \in Flying(js) => js[j] = job
      /\ j \in Flying(js1) => js1[j].h = job.h
      /\ j \notin Flying(js1) => at = Len(q) + 1 /\ v1 = Lowered(w, job)
      /\ Tidy(job.h) /\ w \in Views(scr)
  BY TakesFacts
<1>g. v0.up = v.up /\ v.left = FALSE
  BY DEF WorkTakes
<1> SUFFICES ASSUME NEW x \in v1.up, v1.left /= TRUE
             PROVE  \E i \in Flying(js1) : Up(x[1]) \in ToSet(js1[i].h.steps)
  BY DEF FlagsHeld
<1>1. x \in w.up
  BY <1>f
<1>2. x \in v.up \/ \E k \in p .. at - 1 : q[k] = Up(x[1])
  BY <1>f, <1>g, <1>1, StretchUp
<1>3. (\E i \in Flying(js) : i /= j /\ Up(x[1]) \in ToSet(js[i].h.steps)) \/ Up(x[1]) \in ToSet(q)
  <2>1. ASSUME NEW k \in p .. at - 1, q[k] = Up(x[1]) PROVE Up(x[1]) \in ToSet(q)
    <3>1. k \in DOMAIN q
      BY <1>f
    <3> QED BY <2>1, <3>1 DEF ToSet
  <2>2. CASE x \in v.up
    <3>1. PICK i \in Flying(js) : Up(x[1]) \in ToSet(js[i].h.steps)
      BY <1>g, <2>2 DEF FlagsHeld
    <3> QED BY <1>f, <3>1
  <2> QED BY <1>2, <2>1, <2>2
<1>4. CASE \E i \in Flying(js) : i /= j /\ Up(x[1]) \in ToSet(js[i].h.steps)
  <2>1. PICK i \in Flying(js) : i /= j /\ Up(x[1]) \in ToSet(js[i].h.steps)
    BY <1>4
  <2>2. i \in SJob
    BY DEF Flying
  <2> QED BY <1>f, <2>1, <2>2
<1>5. CASE Up(x[1]) \in ToSet(q) /\ j \in Flying(js1)
  BY <1>f, <1>5
<1>6. CASE Up(x[1]) \in ToSet(q) /\ j \notin Flying(js1)
  <2>1. at = Len(q) + 1 /\ v1 = Lowered(w, job)
    BY <1>f, <1>6
  <2>2. PICK k \in DOMAIN q : q[k] = Up(x[1])
    BY <1>6 DEF ToSet
  <2>3. q[k].do = "up" /\ q[k].to = {x[1]}
    BY <2>2 DEF Up
  <2>4. CASE q[k].to \subseteq job.h.last
    <3>1. x[1] \in job.h.last
      BY <2>3, <2>4
    <3>2. w \in Views(scr) /\ x \in v1.up /\ v1 = Lowered(w, job)
      BY <1>f, <2>1
    <3>3. x[1] \notin job.h.last
      BY ONLY <3>2 DEF Lowered, Views
    <3> QED BY <3>1, <3>3
  <2>5. CASE q[Len(q)] = [do |-> "down", to |-> q[k].to] \/ q[Len(q)].do = "leave"
    <3>0. q[Len(q)].do \notin Awaited
      BY <2>5 DEF Awaited
    <3>1. p <= Len(q)
      <4>1. p = 1 \/ (p - 1 \in DOMAIN q /\ q[p - 1].do \in Awaited)
        BY DEF WorkTakes
      <4>2. p - 1 /= Len(q)
        <5>1. CASE p = 1
          BY <1>f, <2>2, <5>1
        <5> QED BY <3>0, <4>1, <5>1
      <4> QED BY <1>f, <4>2
    <3>2. p <= at - 1 /\ at - 1 = Len(q)
      BY <1>f, <2>1, <3>1
    <3>3. /\ q[at - 1].do = "leave" => w.left = TRUE
          /\ q[at - 1].do = "down" => \A y \in w.up : y[1] \notin q[at - 1].to
      BY <1>f, <3>2, StretchEnd
    <3>4. CASE q[Len(q)].do = "leave"
      BY <1>f, <3>2, <3>3, <3>4
    <3>5. CASE q[Len(q)] = [do |-> "down", to |-> q[k].to]
      <4>1. q[at - 1].do = "down" /\ q[at - 1].to = {x[1]}
        BY <2>3, <3>2, <3>5
      <4> QED BY <1>1, <3>3, <4>1
    <3> QED BY <2>5, <3>4, <3>5
  <2> QED BY <1>f, <2>2, <2>3, <2>4, <2>5 DEF Tidy
<1> QED BY <1>3, <1>4, <1>5, <1>6

\* What the view owes when the script of slot j goes on at step p.
OwedAt(scr, v, js, j, job, p) ==
  \A x \in v.due :
    \/ <<scr, x[2]>> \in Lagging
    \/ x[1] \in Flying(js) /\ x[1] /= j /\ x[2] = js[x[1]].h.name /\ Owes(js[x[1]].h, js[x[1]].pc, x[3])
    \/ x[1] = j /\ x[2] = job.h.name /\ Owes(job.h, p, x[3])

LEMMA TakesWrites ==
  ASSUME NEW scr, NEW v, NEW v0, NEW w, NEW js, NEW j, NEW job, NEW p, NEW at, NEW v1, NEW js1,
         WorkTakes(scr, v, v0, w, js, j, job, p, at, v1, js1), OwedAt(scr, v0, js, j, job, p)
  PROVE  WritesOwed(scr, v1, js1)
<1> DEFINE q == job.h.steps
<1>f. /\ Stretch(scr, v0, w, j, job, q, p, at - 1) /\ v1.due = w.due /\ scr \in DOMAIN AllScreens
      /\ at \in Nat /\ p \in Nat \ {0} /\ p <= at /\ at <= Len(q) + 1 /\ Len(q) \in Nat /\ DOMAIN q = 1 .. Len(q)
      /\ \A i \in SJob : i /= j => js1[i] = js[i] /\ (i \in Flying(js1) <=> i \in Flying(js))
      /\ j \in Flying(js1) => js1[j].h = job.h /\ js1[j].pc = at
      /\ j \notin Flying(js1) => at = Len(q) + 1
  BY TakesFacts
<1>c. PICK c \in AllScreens[scr].controls : c.h = job.h
  BY DEF WorkTakes
<1> SUFFICES ASSUME NEW x \in v1.due, <<scr, x[2]>> \notin Lagging
             PROVE  x[1] \in Flying(js1) /\ x[2] = js1[x[1]].h.name /\ Owes(js1[x[1]].h, js1[x[1]].pc, x[3])
  BY DEF WritesOwed
<1>1. x \in v0.due /\ \A k \in p .. at - 1 : Shows(q[k], x[3]) => ~(x[1] = j /\ x[2] = job.h.name)
  BY <1>f, StretchDue
<1>2. CASE x[1] \in Flying(js) /\ x[1] /= j /\ x[2] = js[x[1]].h.name /\ Owes(js[x[1]].h, js[x[1]].pc, x[3])
  <2>1. x[1] \in SJob
    BY <1>2 DEF Flying
  <2> QED BY <1>f, <1>2, <2>1
<1>3. CASE x[1] = j /\ x[2] = job.h.name /\ Owes(job.h, p, x[3])
  <2>1. PICK k \in 1 .. p - 1 : /\ q[k].do \in {"write", "make"} /\ x[3] \in q[k].to
                                /\ \A m \in k + 1 .. p - 1 : ~Shows(q[m], x[3])
    BY <1>3 DEF Owes
  <2>2. k \in Nat /\ k \in 1 .. at - 1 /\ k \in DOMAIN q
    BY <1>f
  <2>3. \A m \in k + 1 .. at - 1 : m \in k + 1 .. p - 1 \/ m \in p .. at - 1
    BY <1>f, <2>2
  <2>4. \A m \in k + 1 .. at - 1 : ~Shows(q[m], x[3])
    BY <1>1, <1>3, <2>1, <2>3
  <2>5. Owes(job.h, at, x[3])
    BY <2>1, <2>2, <2>4 DEF Owes
  <2>6. CASE j \in Flying(js1)
    BY <1>f, <1>3, <2>5, <2>6
  <2>7. CASE j \notin Flying(js1)
    <3>1. at - 1 = Len(q)
      BY <1>f, <2>7
    <3>2. Tells(job.h)
      BY <1>f, <1>c, <1>3, HandlersAre
    <3>3. \E m \in k + 1 .. Len(q) : Shows(q[m], x[3])
      BY <2>1, <2>2, <3>2 DEF Tells
    <3> QED BY <2>4, <3>1, <3>3
  <2> QED BY <2>6, <2>7
<1> QED BY <1>1, <1>2, <1>3 DEF OwedAt

\* A lock is held by one handler at a time.
LEMMA TakesLocks ==
  ASSUME NEW scr, NEW v, NEW v0, NEW w, NEW js, NEW j, NEW job, NEW p, NEW at, NEW v1, NEW js1,
         WorkTakes(scr, v, v0, w, js, j, job, p, at, v1, js1),
         NEW f, IsLock(scr, f), LockHeld(f, v, js),
         \/ j \in Flying(js)
         \/ p = 1 /\ (Lowers(job.h, f) => ~\E x \in v.up : x[1] = f)
  PROVE  LockHeld(f, v1, js1)
<1> DEFINE q == job.h.steps
<1>f. /\ Stretch(scr, v0, w, j, job, q, p, at - 1) /\ v1.up \subseteq w.up /\ w \in Views(scr)
      /\ at \in Nat /\ p \in Nat \ {0} /\ p <= at /\ at <= Len(q) + 1 /\ Len(q) \in Nat /\ DOMAIN q = 1 .. Len(q)
      /\ \A i \in SJob : i /= j => js1[i] = js[i] /\ (i \in Flying(js1) <=> i \in Flying(js))
      /\ j \in Flying(js) => js[j] = job
      /\ j \in Flying(js1) => js1[j].h = job.h /\ v1 = w
      /\ j \notin Flying(js1) => v1 = Lowered(w, job)
  BY TakesFacts
<1>u. v0.up = v.up
  BY DEF WorkTakes
<1>c. PICK c \in AllScreens[scr].controls : c.h = job.h
  BY DEF WorkTakes
<1>0. \A i \in Flying(js1) : i \in SJob /\ (i /= j => i \in Flying(js) /\ js1[i].h = js[i].h)
  BY <1>f DEF Flying
<1>1. CASE Lowers(job.h, f)
  <2>1. Claims(c, f)
    BY <1>1, <1>c DEF IsLock
  <2>2. \A k \in p .. at - 1 : q[k].do = "down" => f \notin q[k].to
    <3>1. \A s \in ToSet(q) : s.do = "down" => f \notin s.to
      BY <1>c, <2>1 DEF Claims
    <3>2. \A k \in p .. at - 1 : k \in DOMAIN q
      BY <1>f
    <3> QED BY <3>1, <3>2 DEF ToSet
  <2>3. \A i \in Flying(js) : i /= j => ~Lowers(js[i].h, f)
    <3>1. CASE j \in Flying(js)
      BY <1>f, <1>1, <3>1 DEF LockHeld
    <3>2. CASE j \notin Flying(js)
      BY <1>1, <3>2 DEF LockHeld
    <3> QED BY <3>1, <3>2
  <2>4. CASE j \in Flying(js1)
    <3>1. (\E x \in v0.up : x[1] = f) \/ \E k \in p .. at - 1 : q[k] = Up(f)
      <4>1. CASE j \in Flying(js)
        <5>1. \E x \in v.up : x[1] = f
          BY <1>f, <1>1, <4>1 DEF LockHeld
        <5> QED BY <1>u, <5>1
      <4>2. CASE p = 1
        <5>1. \E k \in 1 .. NextAwait(q, 1) - 1 : q[k] = Up(f)
          BY <1>c, <2>1 DEF Claims
        <5>2. at = NextAwait(q, p)
          BY DEF WorkTakes, WorkTurn
        <5> QED BY <4>2, <5>1, <5>2
      <4> QED BY <4>1, <4>2
    <3>s. Stretch(scr, v0, w, j, job, q, p, at - 1)
      BY <1>f
    <3>2. \E x \in w.up : x[1] = f
      <4> HIDE DEF q
      <4> QED BY ONLY <3>s, <2>2, <3>1, StretchHeld
    <3> QED BY <1>f, <1>0, <2>3, <2>4, <3>2 DEF LockHeld
  <2>5. CASE j \notin Flying(js1)
    BY <1>0, <2>3, <2>5 DEF LockHeld
  <2> QED BY <2>4, <2>5
<1>2. CASE ~Lowers(job.h, f)
  <2>1. f \notin job.h.last /\ \A k \in p .. at - 1 : q[k].do = "down" => f \notin q[k].to
    <3>1. f \notin job.h.last /\ \A s \in ToSet(q) : s.do = "down" => f \notin s.to
      BY <1>2 DEF Lowers
    <3>2. \A k \in p .. at - 1 : k \in DOMAIN q
      BY <1>f
    <3> QED BY <3>1, <3>2 DEF ToSet
  <2>2. (\E x \in v.up : x[1] = f) => \E x \in v1.up : x[1] = f
    <3> SUFFICES ASSUME \E x \in v.up : x[1] = f PROVE \E x \in v1.up : x[1] = f
      OBVIOUS
    <3>s. Stretch(scr, v0, w, j, job, q, p, at - 1)
      BY <1>f
    <3>0. \A k \in p .. at - 1 : q[k].do = "down" => f \notin q[k].to
      BY <2>1
    <3>b. \E x \in v0.up : x[1] = f
      BY <1>u
    <3>1. \E x \in w.up : x[1] = f
      <4> HIDE DEF q
      <4> QED BY ONLY <3>s, <3>0, <3>b, StretchHeld
    <3>2. CASE v1 = w
      BY <3>1, <3>2
    <3>3. CASE v1 = Lowered(w, job)
      <4>0. w \in Views(scr)
        BY <1>f
      <4>1. Lowered(w, job).up = {x \in w.up : x[1] \notin job.h.last}
        BY ONLY <4>0 DEF Lowered, Views
      <4> QED BY <2>1, <3>1, <3>3, <4>1
    <3> QED BY <1>f, <3>2, <3>3
  <2>3. \A i \in Flying(js1) : Lowers(js1[i].h, f) => i /= j
    BY <1>f, <1>2
  <2> SUFFICES ASSUME NEW i \in Flying(js1), Lowers(js1[i].h, f)
               PROVE  (\E x \in v1.up : x[1] = f) /\ \A k \in Flying(js1) : Lowers(js1[k].h, f) => k = i
    BY DEF LockHeld
  <2>4. i /= j /\ i \in Flying(js) /\ Lowers(js[i].h, f)
    BY <1>0, <2>3
  <2>5. (\E x \in v.up : x[1] = f) /\ \A k \in Flying(js) : Lowers(js[k].h, f) => k = i
    BY <2>4 DEF LockHeld
  <2>6. ASSUME NEW k \in Flying(js1), Lowers(js1[k].h, f) PROVE k = i
    BY <1>0, <2>3, <2>5, <2>6
  <2> QED BY <2>2, <2>5, <2>6
<1> QED BY <1>1, <1>2

\* Dialog d and the lock that keeps it.
HomeLock(scr, d, f) ==
  /\ d \notin {Page, Clock} /\ \E x \in AllScreens[scr].dialogs : x.name = d
  /\ f \in UNION {x.keep : x \in AllScreens[scr].dialogs} /\ IsLock(scr, f)
  /\ \A x \in AllScreens[scr].dialogs : x.name = d => f \in x.keep /\ x.covers
  /\ \A c \in AllScreens[scr].controls :
       /\ \A k \in DOMAIN c.h.steps : Touches(c.h.steps[k], d) =>
            /\ \A i \in DOMAIN c.h.steps : Touches(c.h.steps[i], d) => i = k
            /\ IF k < NextAwait(c.h.steps, 1) THEN c.at = Page ELSE c.at = d /\ Lowers(c.h, f)
       /\ \A k \in DOMAIN c.h.catch : Touches(c.h.catch[k], d) =>
            /\ \A i \in DOMAIN c.h.catch : Touches(c.h.catch[i], d) => i = k
            /\ c.at = d /\ Lowers(c.h, f)
            /\ \A i \in DOMAIN c.h.steps : Touches(c.h.steps[i], d) => NextAwait(c.h.steps, i) > Len(c.h.steps)

LEMMA HomeHasLock ==
  ASSUME NEW scr, NEW d, IsHome(scr, d)
  PROVE  \E f : HomeLock(scr, d, f)
BY DEF IsHome, HomeLock

\* No await lies before the first one.
LEMMA AwaitsFrom ==
  ASSUME NEW h, IsHandler(h), NEW p \in 1 .. Len(h.steps) + 1, NEW k \in DOMAIN h.steps, p <= k, h.steps[k].do \in Awaited
  PROVE  NextAwait(h.steps, p) <= k
<1>1. h.steps \in Seq(Steps)
  BY DEF IsHandler, IsScript
<1>2. Len(h.steps) \in Nat /\ DOMAIN h.steps = 1 .. Len(h.steps)
  BY <1>1, LenProperties
<1>3. NextAwait(h.steps, p) \in p .. Len(h.steps) + 1 /\ \A i \in p .. NextAwait(h.steps, p) - 1 : h.steps[i].do \notin Awaited
  BY <1>1, NextAwaitIs
<1> QED BY <1>2, <1>3

\* Who will touch the dialog later holds its lock.
LEMMA ToucherLocks ==
  ASSUME NEW scr \in DOMAIN AllScreens, NEW d, NEW f, HomeLock(scr, d, f), NEW v, NEW job, UnderWay(scr, v, job), WillTouch(job, d)
  PROVE  Lowers(job.h, f)
<1>1. PICK c \in AllScreens[scr].controls : c.h = job.h
  BY DEF UnderWay
<1>2. IsHandler(c.h)
  BY HandlersAre
<1>3. Len(c.h.steps) \in Nat /\ DOMAIN c.h.steps = 1 .. Len(c.h.steps)
  BY <1>2, LenProperties DEF IsHandler, IsScript
<1>4. job.pc \in DOMAIN c.h.steps /\ c.h.steps[job.pc].do \in Awaited
  BY <1>1 DEF UnderWay
<1>5. NextAwait(c.h.steps, 1) <= job.pc /\ NextAwait(c.h.steps, 1) \in Nat
  <2>1. 1 \in 1 .. Len(c.h.steps) + 1 /\ 1 <= job.pc
    BY <1>3, <1>4
  <2>2. NextAwait(c.h.steps, 1) <= job.pc
    BY <1>2, <1>4, <2>1, AwaitsFrom
  <2>3. NextAwait(c.h.steps, 1) \in 1 .. Len(c.h.steps) + 1
    BY <1>2, <2>1, NextAwaitIs DEF IsHandler, IsScript
  <2> QED BY <1>3, <2>2, <2>3
<1>6. CASE \E k \in job.pc .. Len(job.h.steps) : Touches(job.h.steps[k], d)
  <2>1. PICK k \in job.pc .. Len(c.h.steps) : Touches(c.h.steps[k], d)
    BY <1>1, <1>6
  <2>2. k \in DOMAIN c.h.steps /\ ~(k < NextAwait(c.h.steps, 1))
    BY <1>3, <1>4, <1>5
  <2> QED BY <1>1, <2>1, <2>2 DEF HomeLock
<1>7. CASE \E k \in DOMAIN job.h.catch : Touches(job.h.catch[k], d)
  BY <1>1, <1>7 DEF HomeLock
<1> QED BY <1>6, <1>7 DEF WillTouch

LEMMA TakesHomes ==
  ASSUME NEW scr, NEW v, NEW v0, NEW w, NEW js, NEW j, NEW job, NEW p, NEW at, NEW v1, NEW js1,
         WorkTakes(scr, v, v0, w, js, j, job, p, at, v1, js1),
         NEW d, NEW f, HomeLock(scr, d, f), LockHeld(f, v, js), HomeKept(d, v, js),
         \/ j \in Flying(js) /\ p = job.pc + 1
         \/ /\ j \notin Flying(js) /\ p = 1 /\ job.born = v.presses
            /\ job.at = Page => ~\E o \in v.open : o[1] = d
            /\ job.at = d => \E o \in v.open : o[1] = d
  PROVE  HomeKept(d, v1, js1)
<1> DEFINE q == job.h.steps
           na == NextAwait(q, 1)
<1>f. /\ Stretch(scr, v0, w, j, job, q, p, at - 1) /\ v1.open = w.open /\ v1.harmed = w.harmed /\ scr \in DOMAIN AllScreens
      /\ at \in Nat /\ p \in Nat \ {0} /\ p <= at /\ at <= Len(q) + 1 /\ Len(q) \in Nat /\ DOMAIN q = 1 .. Len(q)
      /\ \A i \in SJob : i /= j => js1[i] = js[i] /\ (i \in Flying(js1) <=> i \in Flying(js))
      /\ j \in Flying(js) => js[j] = job
      /\ j \in Flying(js1) => js1[j].h = job.h /\ js1[j].pc = at /\ js1[j].born = job.born /\ at \in DOMAIN q /\ q[at].do \in Awaited
      /\ IsHandler(job.h)
  BY TakesFacts
<1>u. v0.open = v.open /\ v0.harmed = v.harmed /\ ViewTyped(scr, v, js) /\ at = NextAwait(q, p)
  BY DEF WorkTakes, WorkTurn
<1>c. PICK c \in AllScreens[scr].controls : c.h = job.h /\ c.at = job.at
  BY DEF WorkTakes
<1>0. \A i \in Flying(js1) : i \in SJob /\ (i /= j => i \in Flying(js) /\ js1[i] = js[i])
  BY <1>f DEF Flying
<1>l. /\ \A k \in DOMAIN q : Touches(q[k], d) =>
           /\ \A i \in DOMAIN q : Touches(q[i], d) => i = k
           /\ IF k < na THEN job.at = Page ELSE job.at = d /\ Lowers(job.h, f)
      /\ \A k \in DOMAIN job.h.catch : Touches(job.h.catch[k], d) =>
           /\ job.at = d /\ Lowers(job.h, f)
           /\ \A i \in DOMAIN q : Touches(q[i], d) => NextAwait(q, i) > Len(q)
      /\ d /= Page
  <2>1. c \in AllScreens[scr].controls /\ c.h = job.h /\ c.at = job.at
    BY <1>c
  <2> QED BY <2>1 DEF HomeLock
<1>n. na \in Nat
  <2>1. 1 \in 1 .. Len(q) + 1 /\ q \in Seq(Steps)
    BY <1>f DEF IsHandler, IsScript
  <2>2. na \in 1 .. Len(q) + 1
    BY <2>1, NextAwaitIs
  <2> QED BY <1>f, <2>2
<1>i. \A k \in p .. at - 1 : k \in DOMAIN q
  BY <1>f
<1> HIDE DEF q, na
<1>1. CASE \A k \in p .. at - 1 : ~Touches(q[k], d)
  <2>1. (d \in w.harmed => d \in v0.harmed) /\ \A o : o[1] = d => (o \in w.open <=> o \in v0.open)
    <3>1. \A k \in p .. at - 1 : Touches(q[k], d) => k = p
      BY <1>1
    <3>2. Stretch(scr, v0, w, j, job, q, p, at - 1)
      BY <1>f
    <3> QED BY ONLY <1>1, <3>1, <3>2, StretchHome
  <2>2. d \notin v1.harmed
    BY <1>f, <1>u, <2>1 DEF HomeKept
  <2>3. \A o : o[1] = d => (o \in v1.open <=> o \in v.open)
    BY <1>f, <1>u, <2>1
  <2>4. ASSUME NEW i \in Flying(js1), WillTouch(js1[i], d)
        PROVE  (\E o \in v.open : o[1] = d) /\ \A o \in v.open : o[1] = d => o[2] <= js1[i].born
    <3>1. CASE i /= j
      BY <1>0, <2>4, <3>1 DEF HomeKept
    <3>2. CASE i = j /\ j \in Flying(js)
      <4>1. job.pc < at /\ job.pc \in Nat /\ p = job.pc + 1
        <5>1. job.pc \in Nat
          BY TakesFacts DEF Jobs
        <5> QED BY <1>f, <3>2, <5>1
      <4>2. \A k \in at .. Len(q) : k \in job.pc .. Len(q)
        BY <1>f, <4>1
      <4>3. WillTouch(job, d)
        BY <1>f, <2>4, <3>2, <4>2 DEF WillTouch, q
      <4>4. js[j] = job /\ js1[j].born = job.born
        BY <1>f, <2>4, <3>2
      <4> QED BY <3>2, <4>3, <4>4 DEF HomeKept
    <3>3. CASE i = j /\ j \notin Flying(js)
      <4>1. job.at = d
        <5>1. CASE \E k \in at .. Len(q) : Touches(q[k], d)
          <6>1. PICK k \in at .. Len(q) : Touches(q[k], d)
            BY <5>1
          <6>2. at = na
            BY <1>u, <3>3 DEF na
          <6>3. k \in DOMAIN q /\ ~(k < na)
            BY <1>f, <1>n, <6>2
          <6> QED BY <1>l, <6>1, <6>3
        <5>2. CASE \E k \in DOMAIN job.h.catch : Touches(job.h.catch[k], d)
          BY <1>l, <5>2
        <5> QED BY <1>f, <2>4, <3>3, <5>1, <5>2 DEF WillTouch, q
      <4>2. \A o \in v.open : o[2] <= v.presses
        BY <1>u DEF ViewTyped
      <4> QED BY <1>f, <2>4, <3>3, <4>1, <4>2
    <3> QED BY <3>1, <3>2, <3>3
  <2> QED BY <2>2, <2>3, <2>4 DEF HomeKept
<1>2. CASE ~\A k \in p .. at - 1 : ~Touches(q[k], d)
  <2>0. PICK t \in p .. at - 1 : Touches(q[t], d)
    BY <1>2
  <2>1. t \in DOMAIN q /\ t \in Nat /\ t < at /\ p <= t
    BY <1>f, <1>i
  <2>2. \A k \in DOMAIN q : Touches(q[k], d) => k = t
    BY <1>l, <2>0, <2>1
  <2>3. (\A o \in v.open : o[1] = d => ~(o[2] > job.born)) => d \notin v1.harmed
    <3>1. \A k \in p .. at - 1 : Touches(q[k], d) => k = t
      BY <1>i, <2>2
    <3>2. Stretch(scr, v0, w, j, job, q, p, at - 1)
      BY <1>f
    <3>3. (\A o \in v0.open : o[1] = d => ~(o[2] > job.born)) /\ d \in w.harmed => d \in v0.harmed
      BY ONLY <3>1, <3>2, StretchHome
    <3>4. d \notin v.harmed
      BY DEF HomeKept
    <3> QED BY <1>f, <1>u, <3>3, <3>4
  <2>4. j \in Flying(js1) => ~WillTouch(js1[j], d) \/ job.at = Page
    <3> SUFFICES ASSUME j \in Flying(js1), WillTouch(js1[j], d) PROVE FALSE
      OBVIOUS
    <3>1. ~\E k \in at .. Len(q) : Touches(q[k], d)
      <4>1. \A k \in at .. Len(q) : k \in DOMAIN q /\ k /= t
        BY <1>f, <2>1
      <4> QED BY <2>2, <4>1
    <3>2. PICK k \in DOMAIN job.h.catch : Touches(job.h.catch[k], d)
      BY <1>f, <3>1 DEF WillTouch, q
    <3>3. NextAwait(q, t) > Len(q)
      BY <1>l, <2>0, <2>1, <3>2
    <3>4. NextAwait(q, t) <= at
      <4>1. t \in 1 .. Len(job.h.steps) + 1 /\ at \in DOMAIN job.h.steps /\ t <= at /\ job.h.steps[at].do \in Awaited
        BY <1>f, <2>1 DEF q
      <4>2. IsHandler(job.h)
        BY <1>f
      <4> QED BY ONLY <4>1, <4>2, AwaitsFrom DEF q
    <3>5. at \in DOMAIN q /\ NextAwait(q, t) \in t .. Len(q) + 1
      <4>1. q \in Seq(Steps) /\ t \in 1 .. Len(q) + 1
        BY <1>f, <2>1 DEF IsHandler, IsScript, q
      <4> QED BY <1>f, <4>1, NextAwaitIs
    <3> QED BY <1>f, <2>1, <3>3, <3>4, <3>5
  <2>5. CASE j \in Flying(js) /\ p = job.pc + 1
    <3>1. UnderWay(scr, v, job) /\ js[j] = job
      BY <1>f, <1>u, <2>5 DEF ViewTyped
    <3>2. job.pc \in DOMAIN q /\ q[job.pc].do \in Awaited
      BY <3>1 DEF UnderWay, q
    <3>3. WillTouch(job, d)
      <4>1. t \in job.pc .. Len(job.h.steps)
        BY <1>f, <2>1, <2>5, <3>2 DEF q
      <4> QED BY <2>0, <4>1 DEF WillTouch, q
    <3>4. Lowers(job.h, f)
      BY <1>f, <3>1, <3>3, ToucherLocks
    <3>5. ASSUME NEW i \in Flying(js1), i /= j PROVE ~WillTouch(js1[i], d)
      <4>1. i \in Flying(js) /\ js1[i] = js[i]
        BY <1>0, <3>5
      <4>2. UnderWay(scr, v, js[i])
        BY <1>u, <4>1 DEF ViewTyped
      <4>3. WillTouch(js[i], d) => Lowers(js[i].h, f)
        BY <1>f, <4>2, ToucherLocks
      <4> QED BY <2>5, <3>1, <3>4, <3>5, <4>1, <4>3 DEF LockHeld
    <3>6. d \notin v1.harmed
      <4>1. \A o \in v.open : o[1] = d => o[2] <= job.born
        BY <2>5, <3>1, <3>3 DEF HomeKept
      <4>2. v.open \subseteq Names(scr) \X Nat /\ job.born \in Nat
        <5>1. v \in Views(scr) /\ job \in Jobs(scr)
          BY TakesFacts
        <5> QED BY <5>1 DEF Views, Jobs
      <4>3. \A o \in v.open : o[1] = d => ~(o[2] > job.born)
        BY <4>1, <4>2
      <4> QED BY <2>3, <4>3
    <3>7. ~(j \in Flying(js1) /\ WillTouch(js1[j], d))
      <4>1. na <= job.pc
        <5>1. 1 \in 1 .. Len(job.h.steps) + 1 /\ job.pc \in DOMAIN job.h.steps /\ 1 <= job.pc /\ job.h.steps[job.pc].do \in Awaited
          BY <1>f, <3>2 DEF q
        <5>2. IsHandler(job.h)
          BY <1>f
        <5> QED BY ONLY <5>1, <5>2, AwaitsFrom DEF na, q
      <4>2. ~(t < na)
        BY <1>f, <1>n, <2>1, <2>5, <3>2, <4>1
      <4>3. job.at = d
        BY <1>l, <2>0, <2>1, <4>2
      <4> QED BY <1>l, <2>4, <4>3
    <3> QED BY <3>5, <3>6, <3>7 DEF HomeKept
  <2>6. CASE /\ j \notin Flying(js) /\ p = 1 /\ job.born = v.presses
             /\ job.at = Page => ~\E o \in v.open : o[1] = d
             /\ job.at = d => \E o \in v.open : o[1] = d
    <3>1. at = na
      BY <1>u, <2>6 DEF na
    <3>2. job.at = Page
      BY <1>l, <1>n, <2>0, <2>1, <3>1
    <3>3. ~\E o \in v.open : o[1] = d
      BY <2>6, <3>2
    <3>4. d \notin v1.harmed
      BY <2>3, <3>3
    <3>5. ASSUME NEW i \in Flying(js1), i /= j PROVE ~WillTouch(js1[i], d)
      BY <1>0, <3>3, <3>5 DEF HomeKept
    <3>6. j \in Flying(js1) => ~WillTouch(js1[j], d)
      <4> SUFFICES ASSUME j \in Flying(js1), WillTouch(js1[j], d) PROVE FALSE
        OBVIOUS
      <4>1. ~\E k \in at .. Len(q) : Touches(q[k], d)
        <5>1. \A k \in at .. Len(q) : k \in DOMAIN q /\ k /= t
          BY <1>f, <2>1
        <5> QED BY <2>2, <5>1
      <4>2. PICK k \in DOMAIN job.h.catch : Touches(job.h.catch[k], d)
        BY <1>f, <4>1 DEF WillTouch, q
      <4> QED BY <1>l, <3>2, <4>2
    <3> QED BY <3>4, <3>5, <3>6 DEF HomeKept
  <2> QED BY <2>5, <2>6
<1> QED BY <1>1, <1>2

\* What the turn adds to the rows made: the click adds none, an answer the row that was awaited.
Sending(v, v0, js, j, job, p) ==
  \/ /\ j \in Flying(js) /\ p = job.pc + 1 /\ MadeBy(v, v0, job.h.steps[job.pc], job)
  \/ /\ j \notin Flying(js) /\ p = 1 /\ v0.made = v.made /\ v0.twice = v.twice /\ v.presses < v0.presses
     /\ job.at \notin {Page, Clock} => <<job.at, job.form>> \in v.open

LEMMA SentOnceIs ==
  ASSUME NEW scr \in DOMAIN AllScreens, NEW c \in SentOnes(scr)
  PROVE  /\ c \in AllScreens[scr].controls /\ <<scr, c.h.name>> \notin Remade /\ c.at \notin {Page, Clock}
         /\ \A b \in AllScreens[scr].controls : b.h.name = c.h.name /\ Makes(b.h) => b.at = c.at
         /\ \A k \in DOMAIN c.h.steps : c.h.steps[k].do = "make" =>
              \E m \in k + 1 .. NextAwait(c.h.steps, k + 1) - 1 : c.h.steps[m] = Hide(c.at)
         /\ \A b \in AllScreens[scr].controls :
              /\ \A k \in DOMAIN b.h.catch : b.h.catch[k] /= Show(c.at)
              /\ \A k \in DOMAIN b.h.steps : b.h.steps[k] = Show(c.at) => k < NextAwait(b.h.steps, 1) /\ b.h.name /= c.h.name
         /\ \E f \in Locks(scr) : \A b \in AllScreens[scr].controls : b.h.name = c.h.name => Lowers(b.h, f)
<1>1. c \in AllScreens[scr].controls /\ Makes(c.h) /\ Hide(c.at) \in ToSet(c.h.steps) /\ <<scr, c.h.name>> \notin Remade
  BY DEF SentOnes
<1>2. IsSentOnce(scr, c)
  BY <1>1, HandlersAre
<1>3. /\ c.at \notin {Page, Clock} /\ OneAtATime(scr, c.h)
      /\ \A b \in AllScreens[scr].controls : b.h.name = c.h.name /\ Makes(b.h) => b.at = c.at
      /\ \A k \in DOMAIN c.h.steps : c.h.steps[k].do = "make" =>
           \E m \in k + 1 .. NextAwait(c.h.steps, k + 1) - 1 : c.h.steps[m] = Hide(c.at)
      /\ \A b \in AllScreens[scr].controls :
           /\ Show(c.at) \notin ToSet(b.h.catch)
           /\ \A k \in DOMAIN b.h.steps : b.h.steps[k] = Show(c.at) => k < NextAwait(b.h.steps, 1) /\ b.h.name /= c.h.name
  BY ONLY <1>2 DEF IsSentOnce
<1>4. ASSUME NEW b \in AllScreens[scr].controls, NEW k \in DOMAIN b.h.catch PROVE b.h.catch[k] /= Show(c.at)
  <2>1. Show(c.at) \notin ToSet(b.h.catch)
    BY <1>3
  <2> QED BY ONLY <1>4, <2>1 DEF ToSet
<1>5. PICK f \in FlagsOf(c.h) : IsLock(scr, f) /\ \A b \in AllScreens[scr].controls : b.h.name = c.h.name => Lowers(b.h, f)
  BY <1>3 DEF OneAtATime
<1>6. f \in Locks(scr)
  BY <1>1, <1>5 DEF Locks
<1> QED BY <1>1, <1>3, <1>4, <1>5, <1>6

\* The row that is made now: its form is one of those that are sent once, or its handler is named in Remade.
LEMMA MarkIs ==
  ASSUME NEW scr \in DOMAIN AllScreens, NEW c \in AllScreens[scr].controls, NEW job, c.h = job.h, c.at = job.at,
         NEW k \in DOMAIN job.h.steps, job.h.steps[k].do = "make", OneShot(job), <<scr, job.h.name>> \notin Remade
  PROVE  c \in SentOnes(scr)
BY DEF SentOnes, OneShot, Makes

LEMMA TakesForms ==
  ASSUME NEW scr, NEW v, NEW v0, NEW w, NEW js, NEW j, NEW job, NEW p, NEW at, NEW v1, NEW js1,
         WorkTakes(scr, v, v0, w, js, j, job, p, at, v1, js1), Sending(v, v0, js, j, job, p),
         \A f \in Locks(scr) : LockHeld(f, v, js), NEW c \in SentOnes(scr), FormGone(c, v, js)
  PROVE  FormGone(c, v1, js1)
<1> DEFINE q == job.h.steps
           mark == <<job.h.name, job.row, job.form, job.pc>>
<1>f. /\ Stretch(scr, v0, w, j, job, q, p, at - 1) /\ v1.open = w.open /\ v1.presses = v0.presses /\ v1.made = v0.made
      /\ scr \in DOMAIN AllScreens /\ v \in Views(scr) /\ v0 \in Views(scr) /\ job \in Jobs(scr) /\ j \in SJob
      /\ at \in Nat /\ p \in Nat \ {0} /\ p <= at /\ at <= Len(q) + 1 /\ Len(q) \in Nat /\ DOMAIN q = 1 .. Len(q)
      /\ \A i \in SJob : i /= j => js1[i] = js[i] /\ (i \in Flying(js1) <=> i \in Flying(js))
      /\ j \in Flying(js) => js[j] = job
      /\ j \in Flying(js1) => js1[j].h = job.h /\ js1[j].pc = at /\ js1[j].form = job.form
      /\ IsHandler(job.h) /\ v1.open \subseteq Names(scr) \X Nat
  <2>1. v1 \in Views(scr)
    BY TakesFacts
  <2>2. v1.open \subseteq Names(scr) \X Nat
    BY <2>1 DEF Views
  <2> QED BY <2>2, TakesFacts
<1>u. v0.open = v.open /\ ViewTyped(scr, v, js) /\ at = NextAwait(q, p) /\ v.presses <= v0.presses
  BY DEF WorkTakes, WorkTurn
<1>b. PICK b \in AllScreens[scr].controls : b.h = job.h /\ b.at = job.at
  BY DEF WorkTakes
<1>0. \A i \in Flying(js1) : i \in SJob /\ (i /= j => i \in Flying(js) /\ js1[i] = js[i])
  BY <1>f DEF Flying
<1>s. /\ c \in AllScreens[scr].controls /\ <<scr, c.h.name>> \notin Remade /\ c.at \notin {Page, Clock}
      /\ \A x \in AllScreens[scr].controls : x.h.name = c.h.name /\ Makes(x.h) => x.at = c.at
      /\ \A x \in AllScreens[scr].controls : \A k \in DOMAIN x.h.steps : x.h.steps[k] = Show(c.at) => k < NextAwait(x.h.steps, 1) /\ x.h.name /= c.h.name
      /\ \E f \in Locks(scr) : \A x \in AllScreens[scr].controls : x.h.name = c.h.name => Lowers(x.h, f)
  <2>1. scr \in DOMAIN AllScreens /\ c \in SentOnes(scr)
    BY <1>f
  <2> QED BY ONLY <2>1, SentOnceIs
<1>n. v.presses \in Nat /\ v0.presses \in Nat /\ job.pc \in Nat /\ job.form \in Nat
  BY <1>f DEF Views, Jobs
<1>t. j \in Flying(js) => UnderWay(scr, v, job)
  BY <1>f, <1>u DEF ViewTyped
\* The row just made.
<1>m. ASSUME NEW m \in v0.made, m \notin v.made
      PROVE  /\ j \in Flying(js) /\ p = job.pc + 1 /\ m = mark /\ job.pc \in DOMAIN q /\ q[job.pc].do = "make" /\ OneShot(job)
             /\ job.form <= v.presses
  <2>1. j \in Flying(js) /\ p = job.pc + 1 /\ MadeBy(v, v0, q[job.pc], job)
    BY <1>m DEF Sending
  <2>2. q[job.pc].do = "make" /\ OneShot(job) /\ m = mark
    BY <1>m, <2>1 DEF MadeBy
  <2> QED BY <1>t, <2>1, <2>2 DEF UnderWay
<1>x. \A m \in v.made : m[3] \in Nat /\ m[4] \in Nat
  <2>1. v.made \subseteq STRING \X {1, 2} \X Nat \X Nat
    BY <1>f DEF Views
  <2> QED BY <2>1
<1> SUFFICES ASSUME NEW m \in v1.made, m[1] = c.h.name
             PROVE  /\ m[3] <= v1.presses /\ <<c.at, m[3]>> \notin v1.open
                    /\ \A i \in Flying(js1) : js1[i].h.name = m[1] /\ Makes(js1[i].h) /\ js1[i].form = m[3] => m[4] < js1[i].pc
  BY DEF FormGone
<1>y. /\ m \in v.made => /\ m[3] <= v.presses /\ <<c.at, m[3]>> \notin v.open
                         /\ \A i \in Flying(js) : js[i].h.name = m[1] /\ Makes(js[i].h) /\ js[i].form = m[3] => m[4] < js[i].pc
  BY DEF FormGone
<1>z. m \in v0.made
  BY <1>f
<1> HIDE DEF q
<1>1. m[3] <= v1.presses /\ m[3] \in Nat
  <2>1. CASE m \in v.made
    <3>1. /\ m[3] \in Nat /\ m[3] <= v.presses /\ v.presses \in Nat /\ v0.presses \in Nat
          /\ v.presses <= v0.presses /\ v1.presses = v0.presses
      BY <1>f, <1>n, <1>u, <1>x, <1>y, <2>1
    <3> QED BY ONLY <3>1
  <2>2. CASE m \notin v.made
    <3>1. m[3] = job.form /\ job.form <= v.presses
      BY <1>m, <1>z, <2>2
    <3> QED BY <1>f, <1>n, <1>u, <3>1
  <2> QED BY <2>1, <2>2
\* A handler of the same form that is at work is the one that made the row.
<1>k. m \notin v.made => job.h.name = c.h.name /\ Makes(job.h) /\ job.at = c.at /\ b \in SentOnes(scr)
  <2> SUFFICES ASSUME m \notin v.made PROVE job.h.name = c.h.name /\ Makes(job.h) /\ job.at = c.at /\ b \in SentOnes(scr)
    OBVIOUS
  <2>1. m = mark /\ job.pc \in DOMAIN q /\ q[job.pc].do = "make" /\ OneShot(job)
    BY <1>m, <1>z
  <2>2. job.h.name = c.h.name /\ Makes(job.h)
    BY <2>1 DEF Makes, q
  <2>3. job.at = c.at
    BY <1>b, <1>s, <2>2
  <2>4. b \in SentOnes(scr)
    BY <1>b, <1>f, <1>s, <2>1, <2>2, MarkIs DEF q
  <2> QED BY <2>2, <2>3, <2>4
<1>2. <<c.at, m[3]>> \notin v1.open
  <2> SUFFICES ASSUME <<c.at, m[3]>> \in v1.open PROVE FALSE
    OBVIOUS
  <2> DEFINE o == <<c.at, m[3]>>
  <2>1. o \in v0.open \/ (o[2] = v0.presses /\ \E k \in p .. at - 1 : q[k] = Show(o[1]))
    <3>1. Stretch(scr, v0, w, j, job, q, p, at - 1) /\ o \in w.open
      BY <1>f DEF q
    <3> HIDE DEF o
    <3> QED BY ONLY <3>1, StretchOpen
  <2>2. CASE o \in v0.open /\ m \in v.made
    BY <1>u, <1>y, <2>2
  <2>3. CASE m \notin v.made
    <3>1. p = job.pc + 1 /\ job.pc \in DOMAIN q /\ q[job.pc].do = "make"
      BY <1>m, <1>z, <2>3
    <3>2. \E k \in p .. at - 1 : q[k] = Hide(c.at)
      <4>1. scr \in DOMAIN AllScreens /\ b \in SentOnes(scr)
        BY <1>f, <1>k, <2>3
      <4>2. \A k \in DOMAIN b.h.steps : b.h.steps[k].do = "make" =>
              \E e \in k + 1 .. NextAwait(b.h.steps, k + 1) - 1 : b.h.steps[e] = Hide(b.at)
        BY ONLY <4>1, SentOnceIs
      <4>3. b.at = c.at /\ b.h.steps = q
        BY <1>b, <1>k, <2>3 DEF q
      <4> QED BY <1>u, <3>1, <4>2, <4>3
    <3>3. PICK k \in p .. at - 1 : q[k] = Hide(c.at)
      BY <3>2
    <3>4. \A e \in p .. at - 1 : q[e] /= Show(c.at)
      <4>1. \A e \in p .. at - 1 : e \in DOMAIN q
        BY <1>f DEF q
      <4>2. \A e \in DOMAIN q : q[e] /= Show(c.at)
        BY <1>b, <1>k, <1>s, <2>3 DEF q
      <4> QED BY <4>1, <4>2
    <3>5. Stretch(scr, v0, w, j, job, q, p, at - 1)
      BY <1>f DEF q
    <3>6. \A y \in w.open : y[1] /= c.at
      BY ONLY <3>3, <3>4, <3>5, StretchHidden
    <3>7. o \in w.open /\ o[1] = c.at
      BY <1>f
    <3> QED BY <3>6, <3>7
  <2>4. CASE m \in v.made /\ o[2] = v0.presses /\ \E k \in p .. at - 1 : q[k] = Show(o[1])
    <3>1. PICK k \in p .. at - 1 : q[k] = Show(c.at)
      BY <2>4
    <3>2. k \in DOMAIN q /\ k >= p /\ k \in Nat
      BY <1>f DEF q
    <3>3. k < NextAwait(q, 1)
      BY <1>b, <1>s, <3>1, <3>2 DEF q
    <3>4. j \notin Flying(js)
      <4> SUFFICES ASSUME j \in Flying(js) PROVE FALSE
        OBVIOUS
      <4>1. p = job.pc + 1 /\ job.pc \in DOMAIN job.h.steps /\ job.h.steps[job.pc].do \in Awaited
        BY <1>t DEF Sending, UnderWay
      <4>2. 1 \in 1 .. Len(job.h.steps) + 1 /\ 1 <= job.pc
        BY <1>f, <4>1 DEF q
      <4>3. IsHandler(job.h)
        BY <1>f
      <4>4. NextAwait(q, 1) <= job.pc
        BY ONLY <4>1, <4>2, <4>3, AwaitsFrom DEF q
      <4>5. NextAwait(q, 1) \in Nat
        <5>1. q \in Seq(Steps)
          BY <1>f DEF IsHandler, IsScript, q
        <5>2. NextAwait(q, 1) \in 1 .. Len(q) + 1
          BY <4>2, <5>1, NextAwaitIs DEF q
        <5> QED BY <5>2
      <4> QED BY <1>n, <3>2, <3>3, <4>1, <4>4, <4>5
    <3>5. v.presses < v0.presses
      BY <3>4 DEF Sending
    <3>6. m[3] = v0.presses /\ m[3] <= v.presses
      BY <1>y, <2>4
    <3> QED BY <1>n, <3>5, <3>6
  <2> QED BY <2>1, <2>2, <2>3, <2>4
<1>3. ASSUME NEW i \in Flying(js1), js1[i].h.name = m[1], Makes(js1[i].h), js1[i].form = m[3] PROVE m[4] < js1[i].pc
  <2>1. CASE i /= j /\ m \in v.made
    BY <1>0, <1>3, <1>y, <2>1
  <2>2. CASE i /= j /\ m \notin v.made
    <3>1. i \in Flying(js) /\ js1[i] = js[i] /\ j \in Flying(js) /\ js[j] = job
      BY <1>0, <1>f, <1>m, <1>z, <2>2
    <3>2. PICK f \in Locks(scr) : \A x \in AllScreens[scr].controls : x.h.name = c.h.name => Lowers(x.h, f)
      BY <1>s
    <3>3. Lowers(job.h, f)
      BY <1>b, <1>k, <2>2, <3>2
    <3>4. Lowers(js[i].h, f)
      <4>1. UnderWay(scr, v, js[i])
        BY <1>u, <3>1 DEF ViewTyped
      <4>2. PICK x \in AllScreens[scr].controls : x.h = js[i].h
        BY <4>1 DEF UnderWay
      <4>3. x.h.name = c.h.name
        BY <1>3, <3>1, <4>2
      <4> QED BY <3>2, <4>2, <4>3
    <3>5. LockHeld(f, v, js)
      OBVIOUS
    <3> QED BY ONLY <3>1, <3>3, <3>4, <3>5, <2>2 DEF LockHeld
  <2>3. CASE i = j
    <3>1. js1[j].pc = at /\ job.h.name = c.h.name /\ Makes(job.h) /\ job.form = m[3] /\ at = js1[i].pc
      BY <1>3, <1>f, <2>3
    <3>2. CASE m \notin v.made
      <4>1. m[4] = job.pc /\ p = job.pc + 1
        BY <1>m, <1>z, <3>2
      <4> QED BY <1>f, <1>n, <3>1, <4>1
    <3>3. CASE m \in v.made /\ j \in Flying(js)
      <4>1. p = job.pc + 1 /\ js[j] = job
        BY <1>f, <3>3 DEF Sending
      <4>2. m[4] < job.pc
        BY <1>y, <3>1, <3>3, <4>1
      <4>3. m[4] \in Nat
        BY <1>x, <3>3
      <4> QED BY <1>f, <1>n, <3>1, <4>1, <4>2, <4>3
    <3>4. CASE m \in v.made /\ j \notin Flying(js)
      <4>1. job.at = c.at
        BY <1>b, <1>s, <3>1
      <4>2. <<c.at, m[3]>> \in v.open
        BY <1>s, <3>1, <3>4, <4>1 DEF Sending
      <4> QED BY <1>y, <3>4, <4>2
    <3> QED BY <3>2, <3>3, <3>4
  <2> QED BY <2>1, <2>2, <2>3
<1> QED BY <1>1, <1>2, <1>3

LEMMA TakesMarks ==
  ASSUME NEW scr, NEW v, NEW v0, NEW w, NEW js, NEW j, NEW job, NEW p, NEW at, NEW v1, NEW js1,
         WorkTakes(scr, v, v0, w, js, j, job, p, at, v1, js1), Sending(v, v0, js, j, job, p),
         \A c \in SentOnes(scr) : FormGone(c, v, js), MarksSound(scr, v)
  PROVE  MarksSound(scr, v1)
<1> DEFINE q == job.h.steps
           mark == <<job.h.name, job.row, job.form, job.pc>>
<1>f. /\ v1.made = v0.made /\ v1.twice = v0.twice /\ scr \in DOMAIN AllScreens /\ job \in Jobs(scr)
      /\ j \in Flying(js) => js[j] = job
  BY TakesFacts
<1>u. ViewTyped(scr, v, js)
  BY DEF WorkTakes
<1>b. PICK b \in AllScreens[scr].controls : b.h = job.h /\ b.at = job.at
  BY DEF WorkTakes
<1>n. job.pc \in Nat
  BY <1>f DEF Jobs
<1>t. j \in Flying(js) => job.pc \in DOMAIN q
  BY <1>f, <1>u DEF ViewTyped, UnderWay
<1>1. ASSUME NEW m \in v1.made PROVE <<scr, m[1]>> \in Remade \/ \E c \in SentOnes(scr) : c.h.name = m[1]
  <2>1. CASE m \in v.made
    BY <2>1 DEF MarksSound
  <2>2. CASE m \notin v.made
    <3>1. j \in Flying(js) /\ MadeBy(v, v0, q[job.pc], job)
      BY <1>f, <2>2 DEF Sending
    <3>2. q[job.pc].do = "make" /\ OneShot(job) /\ m = mark
      BY <1>f, <2>2, <3>1 DEF MadeBy
    <3>3. m[1] = job.h.name
      BY <3>2
    <3>4. <<scr, job.h.name>> \notin Remade => b \in SentOnes(scr)
      BY <1>b, <1>f, <1>t, <3>1, <3>2, MarkIs
    <3> QED BY <1>b, <3>3, <3>4
  <2> QED BY <2>1, <2>2
<1>2. ASSUME NEW n \in v1.twice PROVE <<scr, n>> \in Remade
  <2>1. CASE n \in v.twice
    BY <2>1 DEF MarksSound
  <2>2. CASE n \notin v.twice
    <3>1. j \in Flying(js) /\ MadeBy(v, v0, q[job.pc], job)
      BY <1>f, <2>2 DEF Sending
    <3>2. q[job.pc].do = "make" /\ mark \in v.made /\ n = job.h.name
      BY <1>f, <2>2, <3>1 DEF MadeBy
    <3>3. mark[1] = job.h.name /\ mark[3] = job.form /\ mark[4] = job.pc
      OBVIOUS
    <3>4. Makes(job.h)
      BY <1>t, <3>1, <3>2 DEF Makes
    <3> HIDE DEF mark
    <3>5. ASSUME NEW c \in SentOnes(scr), c.h.name = job.h.name PROVE FALSE
      <4>1. FormGone(c, v, js)
        OBVIOUS
      <4>2. mark[4] < js[j].pc
        BY <1>f, <3>1, <3>2, <3>3, <3>4, <3>5, <4>1 DEF FormGone
      <4> QED BY <1>f, <1>n, <3>1, <3>3, <4>2
    <3> QED BY <3>2, <3>3, <3>5 DEF MarksSound
  <2> QED BY <2>1, <2>2
<1> QED BY <1>1, <1>2 DEF MarksSound

LEMMA LockOfHome ==
  ASSUME NEW scr, NEW d, NEW f, HomeLock(scr, d, f)
  PROVE  f \in Locks(scr)
<1>1. f \in UNION {x.keep : x \in AllScreens[scr].dialogs} /\ IsLock(scr, f)
  BY DEF HomeLock
<1> QED BY <1>1 DEF Locks

\* The parts of the invariant at work, for a handler that goes on at step p.
LEMMA WorkGoesOn ==
  ASSUME NEW scr, NEW v, NEW v0, NEW w, NEW js, NEW j, NEW job, NEW p, NEW at, NEW v1, NEW js1,
         WorkTakes(scr, v, v0, w, js, j, job, p, at, v1, js1), WorkInv(scr, v, js),
         OwedAt(scr, v0, js, j, job, p), Sending(v, v0, js, j, job, p),
         \A f \in Locks(scr) : \/ j \in Flying(js)
                               \/ p = 1 /\ (Lowers(job.h, f) => ~\E x \in v.up : x[1] = f),
         \A d \in Homes(scr) :
           \/ j \in Flying(js) /\ p = job.pc + 1
           \/ /\ j \notin Flying(js) /\ p = 1 /\ job.born = v.presses
              /\ job.at = Page => ~\E o \in v.open : o[1] = d
              /\ job.at = d => \E o \in v.open : o[1] = d
  PROVE  WorkInv(scr, v1, js1)
<1>0. /\ WorkTakes(scr, v, v0, w, js, j, job, p, at, v1, js1) /\ OwedAt(scr, v0, js, j, job, p) /\ Sending(v, v0, js, j, job, p)
      /\ FlagsHeld(v, js) /\ \A f \in Locks(scr) : LockHeld(f, v, js)
      /\ \A d \in Homes(scr) : HomeKept(d, v, js)
      /\ \A c \in SentOnes(scr) : FormGone(c, v, js)
      /\ MarksSound(scr, v)
  BY DEF WorkInv
<1>1. ViewTyped(scr, v1, js1)
  BY ONLY <1>0, TakesTyped
<1>2. FlagsHeld(v1, js1)
  BY ONLY <1>0, TakesFlags
<1>3. WritesOwed(scr, v1, js1)
  BY ONLY <1>0, TakesWrites
<1>4. ASSUME NEW f \in Locks(scr) PROVE LockHeld(f, v1, js1)
  <2>1. IsLock(scr, f) /\ LockHeld(f, v, js)
    BY <1>0 DEF Locks
  <2>2. \/ j \in Flying(js)
        \/ p = 1 /\ (Lowers(job.h, f) => ~\E x \in v.up : x[1] = f)
    OBVIOUS
  <2> QED BY ONLY <1>0, <2>1, <2>2, TakesLocks
<1>5. ASSUME NEW d \in Homes(scr) PROVE HomeKept(d, v1, js1)
  <2>1. IsHome(scr, d) /\ HomeKept(d, v, js)
    BY <1>0 DEF Homes
  <2>2. PICK f : HomeLock(scr, d, f)
    BY ONLY <2>1, HomeHasLock
  <2>3. f \in Locks(scr)
    BY <2>2, LockOfHome
  <2>4. LockHeld(f, v, js)
    BY ONLY <1>0, <2>3
  <2>5. \/ j \in Flying(js) /\ p = job.pc + 1
        \/ /\ j \notin Flying(js) /\ p = 1 /\ job.born = v.presses
           /\ job.at = Page => ~\E o \in v.open : o[1] = d
           /\ job.at = d => \E o \in v.open : o[1] = d
    OBVIOUS
  <2> QED BY ONLY <1>0, <2>1, <2>2, <2>4, <2>5, TakesHomes
<1>6. ASSUME NEW c \in SentOnes(scr) PROVE FormGone(c, v1, js1)
  BY ONLY <1>0, <1>6, TakesForms
<1>7. MarksSound(scr, v1)
  BY ONLY <1>0, TakesMarks
<1> QED BY ONLY <1>1, <1>2, <1>3, <1>4, <1>5, <1>6, <1>7 DEF WorkInv

\* What RunsOn does, for the values it is about.
RanOn(v0, js, j, job, p, v1, js1) ==
  LET at == NextAwait(job.h.steps, p)
      w  == Through(v0, j, job, job.h.steps, p, at - 1)
  IN  IF at > Len(job.h.steps)
        THEN v1 = Lowered(w, job) /\ js1 = [js EXCEPT ![j] = NoJob]
        ELSE v1 = w /\ js1 = [js EXCEPT ![j] = [job EXCEPT !.pc = at]]

LEMMA AnswerMoves ==
  ASSUME NEW scr, NEW v, NEW js, WorkInv(scr, v, js), v.left = FALSE, NEW j \in Flying(js), NEW v1, NEW js1,
         RanOn(Effect(v, js[j].h.steps[js[j].pc], j, js[j]), js, j, js[j], js[j].pc + 1, v1, js1)
  PROVE  WorkInv(scr, v1, js1)
<1> DEFINE job == js[j]
           q   == job.h.steps
           s   == q[job.pc]
           v0  == Effect(v, s, j, job)
           p   == job.pc + 1
<1>0. /\ ViewTyped(scr, v, js) /\ WritesOwed(scr, v, js) /\ j \in SJob
  BY DEF WorkInv, Flying
<1>1. scr \in DOMAIN AllScreens /\ v \in Views(scr) /\ UnderWay(scr, v, job)
  BY <1>0 DEF ViewTyped
<1>2. /\ job \in Jobs(scr) /\ job.pc \in DOMAIN q /\ s.do \in Awaited /\ job.form <= v.presses
      /\ \E c \in AllScreens[scr].controls : c.h = job.h /\ c.at = job.at
  BY <1>1 DEF UnderWay
<1>3. IsHandler(job.h)
  BY <1>1, <1>2, HandlersAre
<1>4. IsScript(q) /\ q \in Seq(Steps) /\ job.h.name \in STRING
  BY <1>3 DEF IsHandler, IsScript
<1>5. Len(q) \in Nat /\ DOMAIN q = 1 .. Len(q) /\ job.pc \in Nat
  BY <1>2, <1>4, LenProperties
<1>6. p \in 1 .. Len(q) + 1 /\ p - 1 = job.pc
  BY <1>2, <1>5
<1>7. IsStep(s)
  BY <1>2, <1>4, StepOfScript
<1> HIDE DEF job
<1>8. v0 \in Views(scr) /\ Moves(v, v0, s, j, job)
  <2>1. /\ v \in Views(scr) /\ IsStep(s) /\ j \in SJob /\ job \in Jobs(scr) /\ job.h.name \in STRING
    BY <1>0, <1>1, <1>2, <1>4, <1>7
  <2> HIDE DEF s
  <2> QED BY ONLY <2>1, EffectMoves
<1>9. s.do \in {"write", "make", "load"}
  BY <1>2 DEF Awaited
<1>10. \E w, at : WorkTurn(scr, v0, w, j, job, p, at) /\ (WorkEnds(w, j, job, at, js, v1, js1) \/ WorkWaits(w, j, job, at, js, v1, js1))
  <2>1. RanOn(v0, js, j, job, p, v1, js1)
    BY DEF job
  <2>2. /\ v0 \in Views(scr) /\ j \in SJob /\ job \in Jobs(scr) /\ IsHandler(job.h) /\ p \in 1 .. Len(job.h.steps) + 1
    BY <1>0, <1>2, <1>3, <1>6, <1>8
  <2> HIDE DEF v0, p
  <2> QED BY ONLY <2>1, <2>2, TurnIs DEF RanOn
<1>11. PICK w, at : WorkTurn(scr, v0, w, j, job, p, at) /\ (WorkEnds(w, j, job, at, js, v1, js1) \/ WorkWaits(w, j, job, at, js, v1, js1))
  BY <1>10
<1> HIDE DEF v0, s
<1>12. v0.up = v.up /\ v0.open = v.open /\ v0.harmed = v.harmed /\ v0.left = FALSE /\ v0.presses = v.presses
  BY <1>8, <1>9 DEF Moves, UpBy, OpenBy, LeftBy
<1>13. v.presses <= v0.presses /\ job.form <= v0.presses
  <2>1. v.presses \in Nat
    BY <1>1 DEF Views
  <2> QED BY <1>2, <1>12, <2>1
<1>14. WorkTakes(scr, v, v0, w, js, j, job, p, at, v1, js1)
  <2>1. js[j] = job
    BY DEF job
  <2>2. p = 1 \/ (p - 1 \in DOMAIN job.h.steps /\ job.h.steps[p - 1].do \in Awaited)
    BY <1>2, <1>6 DEF s
  <2> HIDE DEF p
  <2> QED BY <1>0, <1>2, <1>8, <1>11, <1>12, <1>13, <2>1, <2>2 DEF WorkTakes
<1>15. Sending(v, v0, js, j, job, p)
  BY <1>8 DEF Sending, Moves, s
<1>16. OwedAt(scr, v0, js, j, job, p)
  <2> SUFFICES ASSUME NEW x \in v0.due, <<scr, x[2]>> \notin Lagging
               PROVE  \/ x[1] \in Flying(js) /\ x[1] /= j /\ x[2] = js[x[1]].h.name /\ Owes(js[x[1]].h, js[x[1]].pc, x[3])
                      \/ x[1] = j /\ x[2] = job.h.name /\ Owes(job.h, p, x[3])
    BY DEF OwedAt
  <2>1. DueBy(v, v0, s, j, job)
    BY <1>8 DEF Moves
  <2>2. CASE x \in v.due
    <3>1. x[1] \in Flying(js) /\ x[2] = js[x[1]].h.name /\ Owes(js[x[1]].h, js[x[1]].pc, x[3])
      BY <1>0, <2>2 DEF WritesOwed
    <3>2. CASE x[1] /= j
      BY <3>1, <3>2
    <3>3. CASE x[1] = j
      <4>1. x[2] = job.h.name /\ Owes(job.h, job.pc, x[3])
        BY <3>1, <3>3 DEF job
      <4>2. ~Shows(s, x[3])
        <5>1. s.do = "load" => x[3] \notin s.to
          BY <2>1 DEF DueBy
        <5> QED BY <1>9, <5>1 DEF Shows
      <4>3. PICK k \in 1 .. job.pc - 1 : /\ q[k].do \in {"write", "make"} /\ x[3] \in q[k].to
                                         /\ \A m \in k + 1 .. job.pc - 1 : ~Shows(q[m], x[3])
        BY <4>1 DEF Owes
      <4>4. k \in 1 .. p - 1 /\ \A m \in k + 1 .. p - 1 : m \in k + 1 .. job.pc - 1 \/ m = job.pc
        BY <1>5
      <4>5. \A m \in k + 1 .. p - 1 : ~Shows(q[m], x[3])
        BY <4>2, <4>3, <4>4 DEF s
      <4>6. Owes(job.h, p, x[3])
        <5> HIDE DEF p
        <5> QED BY <4>3, <4>4, <4>5 DEF Owes
      <4> QED BY <3>3, <4>1, <4>6
    <3> QED BY <3>2, <3>3
  <2>3. CASE x \notin v.due
    <3>1. s.do \in {"write", "make"} /\ x \in {<<j, job.h.name, r>> : r \in s.to}
      BY <1>9, <2>1, <2>3 DEF DueBy
    <3>2. PICK r \in s.to : x = <<j, job.h.name, r>>
      BY <3>1
    <3>3. x[1] = j /\ x[2] = job.h.name /\ x[3] = r
      BY <3>2
    <3>4. job.pc \in 1 .. p - 1 /\ \A m \in job.pc + 1 .. p - 1 : FALSE
      BY <1>2, <1>5
    <3>5. q[job.pc].do \in {"write", "make"} /\ r \in q[job.pc].to
      BY <3>1 DEF s
    <3>6. Owes(job.h, p, r)
      <4> HIDE DEF p
      <4> QED BY <3>4, <3>5 DEF Owes
    <3> QED BY <3>3, <3>6
  <2> QED BY <2>2, <2>3
<1>17. j \in Flying(js) /\ p = job.pc + 1 /\ WorkInv(scr, v, js)
  OBVIOUS
<1> HIDE DEF p
<1> QED BY ONLY <1>14, <1>15, <1>16, <1>17, WorkGoesOn

LEMMA PressMoves ==
  ASSUME NEW scr, NEW v, NEW js, WorkInv(scr, v, js), v.left = FALSE, NEW j \in SJob, js[j] = NoJob,
         NEW c \in AllScreens[scr].controls, NEW row \in {1, 2}, NEW form \in Nat, NEW v1, NEW js1,
         \* the control can be reached, and no flag that disables it is up
         c.at = Page => \A x \in AllScreens[scr].dialogs : x.covers /\ x.name /= Page => ~\E o \in v.open : o[1] = x.name,
         c.at \notin {Page, Clock} => <<c.at, form>> \in v.open,
         \A f \in c.h.unless : ~\E x \in v.up : x[1] = f,
         \A f \in c.off : ~c.ofRow => ~\E x \in v.up : x[1] = f,
         form <= v.presses,
         RanOn([v EXCEPT !.presses = v.presses + 1], js, j,
               [h |-> c.h, at |-> c.at, row |-> row, born |-> v.presses, pc |-> 1, form |-> form], 1, v1, js1)
  PROVE  WorkInv(scr, v1, js1)
<1> DEFINE job == [h |-> c.h, at |-> c.at, row |-> row, born |-> v.presses, pc |-> 1, form |-> form]
           v0  == [v EXCEPT !.presses = v.presses + 1]
<1>0. ViewTyped(scr, v, js) /\ WritesOwed(scr, v, js) /\ WorkInv(scr, v, js)
  BY DEF WorkInv
<1>1. scr \in DOMAIN AllScreens /\ v \in Views(scr) /\ v.presses \in Nat
  BY <1>0 DEF ViewTyped, Views
<1>2. job.h = c.h /\ job.at = c.at /\ job.row = row /\ job.born = v.presses /\ job.pc = 1 /\ job.form = form
  OBVIOUS
<1>3. job \in Jobs(scr)
  <2>1. c.h \in Hs(scr) /\ c.at \in Spots(scr)
    BY DEF Hs, Spots
  <2> QED BY <1>1, <2>1 DEF Jobs
<1>4. /\ v0 \in Views(scr) /\ v0.up = v.up /\ v0.open = v.open /\ v0.harmed = v.harmed /\ v0.left = FALSE
      /\ v0.due = v.due /\ v0.made = v.made /\ v0.twice = v.twice /\ v0.presses = v.presses + 1
  BY <1>1 DEF Views
<1> HIDE DEF job, v0
<1>5. IsHandler(job.h)
  BY <1>1, <1>2, HandlersAre
<1>6. 1 \in 1 .. Len(job.h.steps) + 1
  <2>1. job.h.steps \in Seq(Steps)
    BY <1>5 DEF IsHandler, IsScript
  <2>2. Len(job.h.steps) \in Nat
    BY <2>1, LenProperties
  <2> QED BY <2>2
<1>7. \E w, at : WorkTurn(scr, v0, w, j, job, 1, at) /\ (WorkEnds(w, j, job, at, js, v1, js1) \/ WorkWaits(w, j, job, at, js, v1, js1))
  <2>1. RanOn(v0, js, j, job, 1, v1, js1)
    BY DEF job, v0
  <2>2. /\ v0 \in Views(scr) /\ j \in SJob /\ job \in Jobs(scr) /\ IsHandler(job.h) /\ 1 \in 1 .. Len(job.h.steps) + 1
    BY <1>3, <1>4, <1>5, <1>6
  <2> QED BY ONLY <2>1, <2>2, TurnIs DEF RanOn
<1>8. PICK w, at : WorkTurn(scr, v0, w, j, job, 1, at) /\ (WorkEnds(w, j, job, at, js, v1, js1) \/ WorkWaits(w, j, job, at, js, v1, js1))
  BY <1>7
<1>9. v.presses <= v0.presses /\ v.presses < v0.presses /\ job.form <= v0.presses
  BY <1>1, <1>2, <1>4
<1>10. WorkTakes(scr, v, v0, w, js, j, job, 1, at, v1, js1)
  <2>1. \E b \in AllScreens[scr].controls : b.h = job.h /\ b.at = job.at
    BY <1>2
  <2>2. /\ ViewTyped(scr, v, js) /\ v.left = FALSE /\ v0 \in Views(scr) /\ v0.up = v.up /\ v0.open = v.open
        /\ v0.harmed = v.harmed /\ v0.left = FALSE /\ v.presses <= v0.presses
        /\ j \in SJob /\ job \in Jobs(scr) /\ job.form <= v0.presses /\ js[j] = NoJob
        /\ WorkTurn(scr, v0, w, j, job, 1, at) /\ (WorkEnds(w, j, job, at, js, v1, js1) \/ WorkWaits(w, j, job, at, js, v1, js1))
    BY <1>0, <1>3, <1>4, <1>8, <1>9
  <2> QED BY ONLY <2>1, <2>2 DEF WorkTakes
<1>11. j \notin Flying(js)
  BY DEF Flying
<1>12. Sending(v, v0, js, j, job, 1)
  <2>1. job.at \notin {Page, Clock} => <<job.at, job.form>> \in v.open
    BY <1>2
  <2> QED BY ONLY <1>4, <1>9, <1>11, <2>1 DEF Sending
<1>13. OwedAt(scr, v0, js, j, job, 1)
  BY <1>0, <1>4, <1>11 DEF OwedAt, WritesOwed
<1>14. ASSUME NEW f \in Locks(scr), Lowers(job.h, f) PROVE ~\E x \in v.up : x[1] = f
  <2>1. IsLock(scr, f)
    BY DEF Locks
  <2>2. Claims(c, f)
    BY <1>2, <1>14, <2>1 DEF IsLock
  <2>3. f \in c.h.unless \/ (f \in c.off /\ ~c.ofRow)
    BY <2>2 DEF Claims
  <2> QED BY <2>3
<1>15. ASSUME NEW d \in Homes(scr)
       PROVE  /\ job.at = Page => ~\E o \in v.open : o[1] = d
              /\ job.at = d => \E o \in v.open : o[1] = d
  <2>1. IsHome(scr, d)
    BY DEF Homes
  <2>2. PICK f : HomeLock(scr, d, f)
    BY ONLY <2>1, HomeHasLock
  <2>3. /\ d \notin {Page, Clock} /\ \E x \in AllScreens[scr].dialogs : x.name = d
        /\ \A x \in AllScreens[scr].dialogs : x.name = d => x.covers
    BY <2>2 DEF HomeLock
  <2>4. job.at = Page => ~\E o \in v.open : o[1] = d
    BY <1>2, <2>3
  <2>5. job.at = d => \E o \in v.open : o[1] = d
    <3>1. job.at = d => <<d, form>> \in v.open
      BY <1>2, <2>3
    <3>2. <<d, form>>[1] = d
      OBVIOUS
    <3> QED BY <3>1, <3>2
  <2> QED BY <2>4, <2>5
<1>16. /\ \A f \in Locks(scr) : \/ j \in Flying(js)
                                \/ 1 = 1 /\ (Lowers(job.h, f) => ~\E x \in v.up : x[1] = f)
       /\ \A d \in Homes(scr) :
           \/ j \in Flying(js) /\ 1 = job.pc + 1
           \/ /\ j \notin Flying(js) /\ 1 = 1 /\ job.born = v.presses
              /\ job.at = Page => ~\E o \in v.open : o[1] = d
              /\ job.at = d => \E o \in v.open : o[1] = d
  BY <1>2, <1>11, <1>14, <1>15
<1> QED BY ONLY <1>0, <1>10, <1>12, <1>13, <1>16, WorkGoesOn

LEMMA OpenMoves ==
  ASSUME NEW scr, NEW v, NEW js, WorkInv(scr, v, js), NEW d \in AllScreens[scr].dialogs, ~\E o \in v.open : o[1] = d.name,
         NEW v1, v1 = [v EXCEPT !.presses = v.presses + 1, !.open = v.open \cup {<<d.name, v.presses + 1>>}]
  PROVE  WorkInv(scr, v1, js)
<1>0. /\ ViewTyped(scr, v, js) /\ FlagsHeld(v, js) /\ WritesOwed(scr, v, js)
      /\ \A f \in Locks(scr) : LockHeld(f, v, js)
      /\ \A e \in Homes(scr) : HomeKept(e, v, js)
      /\ \A c \in SentOnes(scr) : FormGone(c, v, js)
      /\ MarksSound(scr, v)
  BY DEF WorkInv
<1>1. /\ scr \in DOMAIN AllScreens /\ v \in Views(scr) /\ v.presses \in Nat /\ v.open \subseteq Names(scr) \X Nat
      /\ \A o \in v.open : o[2] <= v.presses
      /\ v.made \subseteq STRING \X {1, 2} \X Nat \X Nat
      /\ DOMAIN js = SJob /\ \A j \in Flying(js) : UnderWay(scr, v, js[j])
  BY <1>0 DEF ViewTyped, Views
<1>2. d.name \in Names(scr)
  BY DEF Names
<1>3. /\ v1 \in Views(scr) /\ v1.up = v.up /\ v1.open = v.open \cup {<<d.name, v.presses + 1>>} /\ v1.harmed = v.harmed
      /\ v1.left = v.left /\ v1.due = v.due /\ v1.made = v.made /\ v1.twice = v.twice /\ v1.presses = v.presses + 1
  <2>1. v.open \cup {<<d.name, v.presses + 1>>} \in SUBSET (Names(scr) \X Nat) /\ v.presses + 1 \in Nat
    BY <1>1, <1>2
  <2> QED BY <1>1, <2>1 DEF Views
<1>4. ViewTyped(scr, v1, js)
  <2>1. \A o \in v1.open : o[2] <= v1.presses
    <3> SUFFICES ASSUME NEW o \in v1.open PROVE o[2] <= v1.presses
      OBVIOUS
    <3>1. CASE o \in v.open
      <4>1. o[2] \in Nat /\ o[2] <= v.presses
        BY <1>1, <3>1
      <4> QED BY <1>1, <1>3, <4>1
    <3>2. CASE o = <<d.name, v.presses + 1>>
      BY <1>1, <1>3, <3>2
    <3> QED BY <1>3, <3>1, <3>2
  <2>2. ASSUME NEW j \in Flying(js) PROVE UnderWay(scr, v1, js[j])
    <3>1. UnderWay(scr, v, js[j])
      BY <1>1
    <3>2. js[j].form \in Nat /\ js[j].form <= v.presses
      BY <3>1 DEF UnderWay, Jobs
    <3>3. js[j].form <= v1.presses
      BY <1>1, <1>3, <3>2
    <3> QED BY <3>1, <3>3 DEF UnderWay
  <2> QED BY <1>1, <1>3, <2>1, <2>2 DEF ViewTyped
<1>5. FlagsHeld(v1, js) /\ WritesOwed(scr, v1, js) /\ MarksSound(scr, v1) /\ \A f \in Locks(scr) : LockHeld(f, v1, js)
  BY <1>0, <1>3 DEF FlagsHeld, WritesOwed, MarksSound, LockHeld
<1>6. ASSUME NEW e \in Homes(scr) PROVE HomeKept(e, v1, js)
  <2>1. HomeKept(e, v, js)
    BY <1>0
  <2>2. ASSUME NEW j \in Flying(js), WillTouch(js[j], e)
        PROVE  (\E o \in v1.open : o[1] = e) /\ \A o \in v1.open : o[1] = e => o[2] <= js[j].born
    <3>1. (\E o \in v.open : o[1] = e) /\ \A o \in v.open : o[1] = e => o[2] <= js[j].born
      BY <2>1, <2>2 DEF HomeKept
    <3>2. e /= d.name
      BY <3>1
    <3> QED BY <1>3, <3>1, <3>2
  <2> QED BY <1>3, <2>1, <2>2 DEF HomeKept
<1>7. ASSUME NEW c \in SentOnes(scr) PROVE FormGone(c, v1, js)
  <2>1. FormGone(c, v, js)
    BY <1>0
  <2> SUFFICES ASSUME NEW m \in v.made, m[1] = c.h.name
               PROVE  m[3] <= v1.presses /\ <<c.at, m[3]>> \notin v1.open
    BY <1>3, <2>1 DEF FormGone
  <2>2. m[3] \in Nat /\ m[3] <= v.presses /\ <<c.at, m[3]>> \notin v.open
    BY <1>1, <2>1 DEF FormGone
  <2>3. m[3] <= v1.presses /\ m[3] /= v.presses + 1
    BY <1>1, <1>3, <2>2
  <2> QED BY <1>3, <2>2, <2>3
<1> QED BY <1>4, <1>5, <1>6, <1>7 DEF WorkInv

LEMMA CloseMoves ==
  ASSUME NEW scr, NEW v, NEW js, WorkInv(scr, v, js), NEW d \in AllScreens[scr].dialogs,
         \A f \in d.keep : ~\E x \in v.up : x[1] = f,
         NEW v1, v1 = [v EXCEPT !.presses = v.presses + 1, !.open = Keeps(v, d.name), !.up = {x \in v.up : x[1] \notin d.drops}]
  PROVE  WorkInv(scr, v1, js)
<1>0. /\ ViewTyped(scr, v, js) /\ FlagsHeld(v, js) /\ WritesOwed(scr, v, js)
      /\ \A f \in Locks(scr) : LockHeld(f, v, js)
      /\ \A e \in Homes(scr) : HomeKept(e, v, js)
      /\ \A c \in SentOnes(scr) : FormGone(c, v, js)
      /\ MarksSound(scr, v)
  BY DEF WorkInv
<1>1. /\ scr \in DOMAIN AllScreens /\ v \in Views(scr) /\ v.presses \in Nat /\ v.open \subseteq Names(scr) \X Nat
      /\ v.up \subseteq STRING \X {1, 2}
      /\ \A o \in v.open : o[2] <= v.presses
      /\ v.made \subseteq STRING \X {1, 2} \X Nat \X Nat
      /\ DOMAIN js = SJob /\ \A j \in Flying(js) : UnderWay(scr, v, js[j])
  BY <1>0 DEF ViewTyped, Views
<1>3. /\ v1 \in Views(scr) /\ v1.up = {x \in v.up : x[1] \notin d.drops} /\ v1.open = {o \in v.open : o[1] /= d.name}
      /\ v1.harmed = v.harmed
      /\ v1.left = v.left /\ v1.due = v.due /\ v1.made = v.made /\ v1.twice = v.twice /\ v1.presses = v.presses + 1
  <2>1. /\ Keeps(v, d.name) = {o \in v.open : o[1] /= d.name} /\ v.presses + 1 \in Nat
        /\ Keeps(v, d.name) \in SUBSET (Names(scr) \X Nat)
        /\ {x \in v.up : x[1] \notin d.drops} \in SUBSET (STRING \X {1, 2})
    BY <1>1 DEF Keeps
  <2> QED BY <1>1, <2>1 DEF Views
<1>4. ViewTyped(scr, v1, js)
  <2>1. \A o \in v1.open : o[2] <= v1.presses
    <3> SUFFICES ASSUME NEW o \in v1.open PROVE o[2] <= v1.presses
      OBVIOUS
    <3>1. o[2] \in Nat /\ o[2] <= v.presses
      BY <1>1, <1>3
    <3> QED BY <1>1, <1>3, <3>1
  <2>2. ASSUME NEW j \in Flying(js) PROVE UnderWay(scr, v1, js[j])
    <3>1. UnderWay(scr, v, js[j])
      BY <1>1
    <3>2. js[j].form \in Nat /\ js[j].form <= v.presses
      BY <3>1 DEF UnderWay, Jobs
    <3>3. js[j].form <= v1.presses
      BY <1>1, <1>3, <3>2
    <3> QED BY <3>1, <3>3 DEF UnderWay
  <2> QED BY <1>1, <1>3, <2>1, <2>2 DEF ViewTyped
<1>5. FlagsHeld(v1, js) /\ WritesOwed(scr, v1, js) /\ MarksSound(scr, v1)
  BY <1>0, <1>3 DEF FlagsHeld, WritesOwed, MarksSound
<1>6. ASSUME NEW f \in Locks(scr) PROVE LockHeld(f, v1, js)
  <2>1. LockHeld(f, v, js) /\ f \notin d.drops
    BY <1>0 DEF Locks, IsLock
  <2>2. (\E x \in v.up : x[1] = f) => \E x \in v1.up : x[1] = f
    BY <1>3, <2>1
  <2> QED BY <2>1, <2>2 DEF LockHeld
<1>7. ASSUME NEW e \in Homes(scr) PROVE HomeKept(e, v1, js)
  <2>1. HomeKept(e, v, js) /\ IsHome(scr, e)
    BY <1>0 DEF Homes
  <2>2. PICK f : HomeLock(scr, e, f)
    BY ONLY <2>1, HomeHasLock
  <2>3. f \in Locks(scr)
    BY <2>2, LockOfHome
  <2>4. d.name = e => ~\E x \in v.up : x[1] = f
    BY <2>2 DEF HomeLock
  <2>5. ASSUME NEW j \in Flying(js), WillTouch(js[j], e)
        PROVE  (\E o \in v1.open : o[1] = e) /\ \A o \in v1.open : o[1] = e => o[2] <= js[j].born
    <3>1. (\E o \in v.open : o[1] = e) /\ \A o \in v.open : o[1] = e => o[2] <= js[j].born
      BY <2>1, <2>5 DEF HomeKept
    <3>2. Lowers(js[j].h, f)
      BY <1>1, <2>2, <2>5, ToucherLocks
    <3>3. \E x \in v.up : x[1] = f
      BY <1>0, <2>3, <3>2 DEF LockHeld
    <3>4. d.name /= e
      BY <2>4, <3>3
    <3> QED BY <1>3, <3>1, <3>4
  <2> QED BY <1>3, <2>1, <2>5 DEF HomeKept
<1>8. ASSUME NEW c \in SentOnes(scr) PROVE FormGone(c, v1, js)
  <2>1. FormGone(c, v, js)
    BY <1>0
  <2> SUFFICES ASSUME NEW m \in v.made, m[1] = c.h.name
               PROVE  m[3] <= v1.presses /\ <<c.at, m[3]>> \notin v1.open
    BY <1>3, <2>1 DEF FormGone
  <2>2. m[3] \in Nat /\ m[3] <= v.presses /\ <<c.at, m[3]>> \notin v.open
    BY <1>1, <2>1 DEF FormGone
  <2>3. m[3] <= v1.presses
    BY <1>1, <1>3, <2>2
  <2> QED BY <1>3, <2>2, <2>3
<1> QED BY <1>4, <1>5, <1>6, <1>7, <1>8 DEF WorkInv

\* A handler fails: its catch runs, and its slot is free.
WorkFails(scr, v, v0, w, js, j, job, v1, js1) ==
  /\ WorkInv(scr, v, js) /\ v.left = FALSE
  /\ v0 \in Views(scr) /\ v0.up = v.up /\ v0.open = v.open /\ v0.harmed = v.harmed /\ v0.left = v.left
  /\ v0.made = v.made /\ v0.twice = v.twice /\ v0.presses = v.presses
  /\ v0.due = IF job.h.steps[job.pc].do = "load" THEN {x \in v.due : x[1] /= j} ELSE v.due
  /\ j \in Flying(js) /\ job = js[j] /\ IsHandler(job.h) /\ Tidy(job.h)
  /\ Stretch(scr, v0, w, j, job, job.h.catch, 1, Len(job.h.catch))
  /\ v1 = Lowered(w, job) /\ js1 = [js EXCEPT ![j] = NoJob]

LEMMA FailsKeep ==
  ASSUME NEW scr, NEW v, NEW v0, NEW w, NEW js, NEW j, NEW job, NEW v1, NEW js1, WorkFails(scr, v, v0, w, js, j, job, v1, js1)
  PROVE  WorkInv(scr, v1, js1)
<1> DEFINE q  == job.h.steps
           ct == job.h.catch
<1>0. /\ ViewTyped(scr, v, js) /\ FlagsHeld(v, js) /\ WritesOwed(scr, v, js)
      /\ \A f \in Locks(scr) : LockHeld(f, v, js)
      /\ \A e \in Homes(scr) : HomeKept(e, v, js)
      /\ \A c \in SentOnes(scr) : FormGone(c, v, js)
      /\ MarksSound(scr, v) /\ j \in SJob /\ v.left = FALSE
  BY DEF WorkFails, WorkInv, Flying
<1>1. /\ scr \in DOMAIN AllScreens /\ v \in Views(scr) /\ v.presses \in Nat /\ v.open \subseteq Names(scr) \X Nat
      /\ v.due \subseteq SJob \X STRING \X STRING
      /\ \A o \in v.open : o[2] <= v.presses
      /\ DOMAIN js = SJob /\ \A i \in Flying(js) : UnderWay(scr, v, js[i])
  BY <1>0 DEF ViewTyped, Views
<1>2. /\ job \in Jobs(scr) /\ UnderWay(scr, v, job) /\ job.pc \in DOMAIN q /\ q[job.pc].do \in Awaited
      /\ j \in Flying(js) /\ js[j] = job
  <2>1. j \in Flying(js) /\ js[j] = job
    BY DEF WorkFails
  <2>2. UnderWay(scr, v, job)
    BY <1>1, <2>1
  <2> QED BY <2>1, <2>2 DEF UnderWay
<1>c. PICK c \in AllScreens[scr].controls : c.h = job.h /\ c.at = job.at
  BY <1>2 DEF UnderWay
<1>3. IsHandler(job.h) /\ Tidy(job.h)
  BY DEF WorkFails
<1>4. IsScript(ct) /\ ct \in Seq(Steps) /\ job.h.name \in STRING /\ \A k \in DOMAIN ct : ct[k].do \notin Awaited \cup {"up"}
  BY <1>3 DEF IsHandler, IsScript
<1>5. Len(ct) \in Nat /\ DOMAIN ct = 1 .. Len(ct)
  BY <1>4, LenProperties
<1>6. /\ v0 \in Views(scr) /\ v0.up = v.up /\ v0.open = v.open /\ v0.harmed = v.harmed /\ v0.left = v.left
      /\ v0.made = v.made /\ v0.twice = v.twice /\ v0.presses = v.presses
      /\ v0.due = IF q[job.pc].do = "load" THEN {x \in v.due : x[1] /= j} ELSE v.due
  BY DEF WorkFails
<1>7. Stretch(scr, v0, w, j, job, ct, 1, Len(ct)) /\ v1 = Lowered(w, job) /\ js1 = [js EXCEPT ![j] = NoJob]
  BY DEF WorkFails
<1> HIDE DEF ct
<1>8. v1 = Lowered(w, job)
  BY <1>7
<1>9. w \in Views(scr)
  BY <1>7 DEF Stretch
<1>10. w.made = v.made /\ w.twice = v.twice /\ w.presses = v.presses
  <2>1. w.made = v0.made /\ w.twice = v0.twice /\ w.presses = v0.presses
    BY ONLY <1>7, StretchMade
  <2> QED BY <1>6, <2>1
<1>11. /\ v1 \in Views(scr) /\ v1.up = {x \in w.up : x[1] \notin job.h.last} /\ v1.open = w.open /\ v1.presses = v.presses
       /\ v1.due = w.due /\ v1.made = v.made /\ v1.twice = v.twice /\ v1.harmed = w.harmed
  <2>1. /\ Lowered(w, job) \in Views(scr) /\ Lowered(w, job).up = {x \in w.up : x[1] \notin job.h.last}
        /\ Lowered(w, job).open = w.open /\ Lowered(w, job).presses = w.presses /\ Lowered(w, job).due = w.due
        /\ Lowered(w, job).made = w.made /\ Lowered(w, job).twice = w.twice /\ Lowered(w, job).harmed = w.harmed
        /\ Lowered(w, job).left = w.left
    BY ONLY <1>9, LoweredIs
  <2> QED BY ONLY <1>8, <1>10, <2>1
<1>12. /\ DOMAIN js1 = SJob /\ j \notin Flying(js1)
       /\ \A i \in Flying(js1) : i \in SJob /\ i /= j /\ i \in Flying(js) /\ js1[i] = js[i]
       /\ \A i \in Flying(js) : i /= j => i \in Flying(js1) /\ js1[i] = js[i]
  <2>1. DOMAIN js1 = SJob /\ js1[j] = NoJob /\ \A i \in SJob : i /= j => js1[i] = js[i]
    BY <1>0, <1>1, <1>7
  <2> QED BY <2>1 DEF Flying
<1>13. \A o \in w.open : o \in v.open \/ (o[2] = v.presses /\ \E k \in DOMAIN ct : ct[k] = Show(o[1]))
  <2> SUFFICES ASSUME NEW o \in w.open PROVE o \in v.open \/ (o[2] = v.presses /\ \E k \in DOMAIN ct : ct[k] = Show(o[1]))
    OBVIOUS
  <2>1. o \in v0.open \/ (o[2] = v0.presses /\ \E k \in 1 .. Len(ct) : ct[k] = Show(o[1]))
    BY ONLY <1>7, StretchOpen
  <2> QED BY <1>5, <1>6, <2>1 DEF ct
<1>14. ViewTyped(scr, v1, js1)
  <2>1. ASSUME NEW o \in v1.open PROVE o[2] <= v1.presses
    <3>1. o \in v.open \/ o[2] = v.presses
      BY <1>11, <1>13
    <3>2. CASE o \in v.open
      BY <1>1, <1>11, <3>2
    <3>3. CASE o[2] = v.presses
      <4>1. v1.presses = v.presses /\ v.presses \in Nat
        BY <1>1, <1>11
      <4> QED BY ONLY <3>3, <4>1
    <3> QED BY <3>1, <3>2, <3>3
  <2>2. ASSUME NEW i \in Flying(js1) PROVE UnderWay(scr, v1, js1[i])
    <3>1. UnderWay(scr, v, js[i]) /\ js1[i] = js[i]
      BY <1>1, <1>12
    <3> QED BY <1>11, <3>1 DEF UnderWay
  <2> QED BY <1>1, <1>11, <1>12, <2>1, <2>2 DEF ViewTyped
<1>15. FlagsHeld(v1, js1)
  <2> SUFFICES ASSUME NEW x \in v1.up PROVE \E i \in Flying(js1) : Up(x[1]) \in ToSet(js1[i].h.steps)
    BY DEF FlagsHeld
  <2>1. x \in w.up /\ x[1] \notin job.h.last
    BY <1>11
  <2>2. x \in v0.up \/ \E k \in 1 .. Len(ct) : ct[k] = Up(x[1])
    BY ONLY <1>7, <2>1, StretchUp
  <2>3. ~\E k \in 1 .. Len(ct) : ct[k] = Up(x[1])
    BY <1>4, <1>5 DEF Up, ct
  <2>4. PICK i \in Flying(js) : Up(x[1]) \in ToSet(js[i].h.steps)
    BY <1>0, <1>6, <2>2, <2>3 DEF FlagsHeld
  <2>5. CASE i /= j
    BY <1>12, <2>4, <2>5
  <2>6. CASE i = j
    <3>1. PICK k \in DOMAIN q : q[k] = Up(x[1])
      BY <1>2, <2>4, <2>6 DEF ToSet
    <3>2. q[k].do = "up" /\ q[k].to = {x[1]}
      BY <3>1 DEF Up
    <3>3. ~(q[k].to \subseteq job.h.last)
      BY <2>1, <3>2
    <3>4. PICK e \in DOMAIN ct : ct[e] = [do |-> "down", to |-> q[k].to]
      BY <1>3, <3>2, <3>3 DEF Tidy, ct
    <3>5. e \in 1 .. Len(ct) /\ ct[e].do = "down" /\ x[1] \in ct[e].to /\ \A m \in 1 .. Len(ct) : ct[m].do /= "up"
      BY <1>4, <1>5, <3>2, <3>4 DEF ct
    <3>6. \A y \in w.up : y[1] /= x[1]
      BY ONLY <1>7, <3>5, StretchDown
    <3> QED BY <2>1, <3>6
  <2> QED BY <2>5, <2>6
<1>16. WritesOwed(scr, v1, js1)
  <2> SUFFICES ASSUME NEW x \in v1.due, <<scr, x[2]>> \notin Lagging
               PROVE  x[1] \in Flying(js1) /\ x[2] = js1[x[1]].h.name /\ Owes(js1[x[1]].h, js1[x[1]].pc, x[3])
    BY DEF WritesOwed
  <2>1. x \in w.due
    BY <1>11
  <2>2. x \in v0.due /\ \A k \in 1 .. Len(ct) : Shows(ct[k], x[3]) => ~(x[1] = j /\ x[2] = job.h.name)
    BY ONLY <1>7, <2>1, StretchDue
  <2>3. x \in v.due /\ (q[job.pc].do = "load" => x[1] /= j)
    BY <1>6, <2>2
  <2>4. x[1] \in Flying(js) /\ x[2] = js[x[1]].h.name /\ Owes(js[x[1]].h, js[x[1]].pc, x[3])
    BY <1>0, <2>3 DEF WritesOwed
  <2>5. CASE x[1] /= j
    BY <1>12, <2>4, <2>5
  <2>6. CASE x[1] = j
    <3>1. x[2] = job.h.name /\ Owes(job.h, job.pc, x[3])
      BY <1>2, <2>4, <2>6
    <3>2. q[job.pc].do \in {"write", "make"}
      BY <1>2, <2>3, <2>6 DEF Awaited
    <3>3. Tells(job.h)
      BY <1>1, <1>c, <3>1, HandlersAre
    <3>4. PICK k \in 1 .. job.pc - 1 : /\ q[k].do \in {"write", "make"} /\ x[3] \in q[k].to
                                       /\ \A m \in k + 1 .. job.pc - 1 : ~Shows(q[m], x[3])
      BY <3>1 DEF Owes
    <3>5. k \in DOMAIN q /\ job.pc \in k + 1 .. Len(q)
      <4>1. q \in Seq(Steps)
        BY <1>3 DEF IsHandler, IsScript
      <4>2. Len(q) \in Nat /\ DOMAIN q = 1 .. Len(q)
        BY <4>1, LenProperties
      <4> QED BY <1>2, <4>2
    <3>6. \E i \in DOMAIN ct : Shows(ct[i], x[3])
      BY <3>2, <3>3, <3>4, <3>5 DEF Tells, ct
    <3> QED BY <1>5, <2>2, <2>6, <3>1, <3>6 DEF ct
  <2> QED BY <2>5, <2>6
\* No other handler holds a lock of this one.
<1>17. ASSUME NEW f \in Locks(scr), Lowers(job.h, f), NEW i \in Flying(js), i /= j PROVE ~Lowers(js[i].h, f)
  <2>1. LockHeld(f, v, js)
    BY <1>0
  <2> QED BY <1>2, <1>17, <2>1 DEF LockHeld
<1>18. ASSUME NEW f \in Locks(scr) PROVE LockHeld(f, v1, js1)
  <2>1. CASE Lowers(job.h, f)
    BY <1>12, <1>17, <2>1 DEF LockHeld
  <2>2. CASE ~Lowers(job.h, f)
    <3>1. f \notin job.h.last /\ \A k \in 1 .. Len(ct) : ct[k].do = "down" => f \notin ct[k].to
      <4>1. f \notin job.h.last /\ \A s \in ToSet(ct) : s.do = "down" => f \notin s.to
        BY <2>2 DEF Lowers, ct
      <4>2. \A k \in 1 .. Len(ct) : k \in DOMAIN ct
        BY <1>5 DEF ct
      <4> QED BY <4>1, <4>2 DEF ToSet
    <3>2. (\E x \in v.up : x[1] = f) => \E x \in v1.up : x[1] = f
      <4> SUFFICES ASSUME \E x \in v.up : x[1] = f PROVE \E x \in v1.up : x[1] = f
        OBVIOUS
      <4>1. \A k \in 1 .. Len(ct) : ct[k].do = "down" => f \notin ct[k].to
        BY <3>1
      <4>2. \E x \in v0.up : x[1] = f
        BY <1>6
      <4>3. \E x \in w.up : x[1] = f
        BY ONLY <1>7, <4>1, <4>2, StretchHeld
      <4> QED BY <1>11, <3>1, <4>3
    <3>3. LockHeld(f, v, js)
      BY <1>0
    <3> QED BY <1>12, <3>2, <3>3 DEF LockHeld
  <2> QED BY <2>1, <2>2
<1>19. ASSUME NEW d \in Homes(scr) PROVE HomeKept(d, v1, js1)
  <2>1. HomeKept(d, v, js) /\ IsHome(scr, d)
    BY <1>0 DEF Homes
  <2>2. PICK f : HomeLock(scr, d, f)
    BY ONLY <2>1, HomeHasLock
  <2>3. f \in Locks(scr)
    BY <2>2, LockOfHome
  <2>4. CASE \A k \in 1 .. Len(ct) : ~Touches(ct[k], d)
    <3>1. (d \in w.harmed => d \in v0.harmed) /\ \A o : o[1] = d => (o \in w.open <=> o \in v0.open)
      <4>1. \A k \in 1 .. Len(ct) : Touches(ct[k], d) => k = 1
        BY <2>4
      <4> QED BY ONLY <1>7, <2>4, <4>1, StretchHome
    <3>2. \A o : o[1] = d => (o \in v1.open <=> o \in v.open)
      BY <1>6, <1>11, <3>1
    <3>3. d \notin v1.harmed
      BY <1>6, <1>11, <2>1, <3>1 DEF HomeKept
    <3>4. ASSUME NEW i \in Flying(js1), WillTouch(js1[i], d)
          PROVE  (\E o \in v.open : o[1] = d) /\ \A o \in v.open : o[1] = d => o[2] <= js1[i].born
      BY <1>12, <2>1, <3>4 DEF HomeKept
    <3> QED BY <3>2, <3>3, <3>4 DEF HomeKept
  <2>5. CASE ~\A k \in 1 .. Len(ct) : ~Touches(ct[k], d)
    <3>1. PICK t \in 1 .. Len(ct) : Touches(ct[t], d)
      BY <2>5
    <3>2. t \in DOMAIN ct
      BY <1>5 DEF ct
    <3>3. Lowers(job.h, f) /\ \A k \in DOMAIN ct : Touches(ct[k], d) => k = t
      <4>1. c \in AllScreens[scr].controls /\ c.h.catch = ct /\ c.h = job.h
        BY <1>c DEF ct
      <4> QED BY <2>2, <3>1, <3>2, <4>1 DEF HomeLock
    <3>4. WillTouch(job, d)
      BY <3>1, <3>2 DEF WillTouch, ct
    <3>5. \A o \in v.open : o[1] = d => ~(o[2] > job.born)
      <4>1. \A o \in v.open : o[1] = d => o[2] <= job.born
        BY <1>2, <2>1, <3>4 DEF HomeKept
      <4>2. job.born \in Nat
        BY <1>2 DEF Jobs
      <4> QED BY <1>1, <4>1, <4>2
    <3>6. d \notin v1.harmed
      <4>1. \A k \in 1 .. Len(ct) : Touches(ct[k], d) => k = t
        BY <1>5, <3>3 DEF ct
      <4>2. (\A o \in v0.open : o[1] = d => ~(o[2] > job.born)) /\ d \in w.harmed => d \in v0.harmed
        BY ONLY <1>7, <4>1, StretchHome
      <4> QED BY <1>6, <1>11, <2>1, <3>5, <4>2 DEF HomeKept
    <3>7. ASSUME NEW i \in Flying(js1) PROVE ~WillTouch(js1[i], d)
      <4>1. i \in Flying(js) /\ i /= j /\ js1[i] = js[i] /\ UnderWay(scr, v, js[i])
        BY <1>1, <1>12
      <4>2. ~Lowers(js[i].h, f)
        BY <1>17, <2>3, <3>3, <4>1
      <4> QED BY <1>1, <2>2, <4>1, <4>2, ToucherLocks
    <3> QED BY <3>6, <3>7 DEF HomeKept
  <2> QED BY <2>4, <2>5
<1>20. ASSUME NEW b \in SentOnes(scr) PROVE FormGone(b, v1, js1)
  <2>1. FormGone(b, v, js)
    BY <1>0
  <2>2. \A k \in DOMAIN ct : ct[k] /= Show(b.at)
    <3>1. scr \in DOMAIN AllScreens
      BY <1>1
    <3>2. \A x \in AllScreens[scr].controls : \A k \in DOMAIN x.h.catch : x.h.catch[k] /= Show(b.at)
      BY ONLY <1>20, <3>1, SentOnceIs
    <3> QED BY <1>c, <3>2 DEF ct
  <2> SUFFICES ASSUME NEW m \in v.made, m[1] = b.h.name
               PROVE  /\ m[3] <= v1.presses /\ <<b.at, m[3]>> \notin v1.open
                      /\ \A i \in Flying(js1) : js1[i].h.name = m[1] /\ Makes(js1[i].h) /\ js1[i].form = m[3] => m[4] < js1[i].pc
    BY <1>11 DEF FormGone
  <2>3. /\ m[3] <= v.presses /\ <<b.at, m[3]>> \notin v.open
        /\ \A i \in Flying(js) : js[i].h.name = m[1] /\ Makes(js[i].h) /\ js[i].form = m[3] => m[4] < js[i].pc
    BY <2>1 DEF FormGone
  <2>4. <<b.at, m[3]>> \notin w.open
    <3> DEFINE o == <<b.at, m[3]>>
    <3>1. o[1] = b.at
      OBVIOUS
    <3> HIDE DEF o
    <3>2. o \notin w.open
      BY <1>13, <2>2, <2>3, <3>1 DEF o
    <3> QED BY <3>2 DEF o
  <2> QED BY <1>11, <1>12, <2>3, <2>4
<1>21. MarksSound(scr, v1)
  BY <1>0, <1>11 DEF MarksSound
<1> QED BY <1>14, <1>15, <1>16, <1>18, <1>19, <1>20, <1>21 DEF WorkInv

LEMMA FailMoves ==
  ASSUME NEW scr, NEW v, NEW js, WorkInv(scr, v, js), v.left = FALSE, NEW j \in Flying(js), NEW v0, NEW v1, NEW js1,
         v0 = (IF js[j].h.steps[js[j].pc].do = "load" THEN [v EXCEPT !.due = {x \in v.due : x[1] /= j}] ELSE v),
         v1 = Lowered(Through(v0, j, js[j], js[j].h.catch, 1, Len(js[j].h.catch)), js[j]),
         js1 = [js EXCEPT ![j] = NoJob]
  PROVE  WorkInv(scr, v1, js1)
<1> DEFINE job == js[j]
           q   == job.h.steps
           ct  == job.h.catch
           w   == Through(v0, j, job, ct, 1, Len(ct))
<1>0. ViewTyped(scr, v, js) /\ j \in SJob
  BY DEF WorkInv, Flying
<1>1. /\ scr \in DOMAIN AllScreens /\ v \in Views(scr) /\ v.presses \in Nat /\ v.open \subseteq Names(scr) \X Nat
      /\ v.due \subseteq SJob \X STRING \X STRING
      /\ \A o \in v.open : o[2] <= v.presses
      /\ DOMAIN js = SJob /\ \A i \in Flying(js) : UnderWay(scr, v, js[i])
  BY ONLY <1>0 DEF ViewTyped, Views
<1>2. job \in Jobs(scr) /\ UnderWay(scr, v, job) /\ job.pc \in DOMAIN q /\ q[job.pc].do \in Awaited
  <2>1. UnderWay(scr, v, job)
    BY <1>1
  <2> QED BY ONLY <2>1 DEF UnderWay
<1>c. PICK c \in AllScreens[scr].controls : c.h = job.h /\ c.at = job.at
  BY ONLY <1>2 DEF UnderWay
<1>3. IsHandler(job.h) /\ Tidy(job.h)
  <2>1. scr \in DOMAIN AllScreens /\ c \in AllScreens[scr].controls /\ c.h = job.h
    BY <1>1, <1>c
  <2>2. IsHandler(c.h) /\ Tidy(c.h)
    BY ONLY <2>1, HandlersAre
  <2> QED BY ONLY <2>1, <2>2
<1>4. IsScript(ct) /\ ct \in Seq(Steps) /\ job.h.name \in STRING /\ \A k \in DOMAIN ct : ct[k].do \notin Awaited \cup {"up"}
  BY ONLY <1>3 DEF IsHandler, IsScript
<1>5. Len(ct) \in Nat /\ DOMAIN ct = 1 .. Len(ct)
  BY ONLY <1>4, LenProperties
<1>6. /\ v0 \in Views(scr) /\ v0.up = v.up /\ v0.open = v.open /\ v0.harmed = v.harmed /\ v0.left = v.left
      /\ v0.made = v.made /\ v0.twice = v.twice /\ v0.presses = v.presses
      /\ v0.due = IF q[job.pc].do = "load" THEN {x \in v.due : x[1] /= j} ELSE v.due
  <2>1. CASE q[job.pc].do = "load"
    <3>1. v0 = [v EXCEPT !.due = {x \in v.due : x[1] /= j}]
      BY <2>1
    <3>2. {x \in v.due : x[1] /= j} \in SUBSET (SJob \X STRING \X STRING)
      BY <1>1
    <3> QED BY <1>1, <2>1, <3>1, <3>2, SMTT(30) DEF Views
  <2>2. CASE q[job.pc].do /= "load"
    <3>1. v0 = v
      BY <2>2
    <3> QED BY <1>1, <2>2, <3>1
  <2> QED BY <2>1, <2>2
<1> HIDE DEF job
<1>7. Stretch(scr, v0, w, j, job, ct, 1, Len(ct))
  <2>1. /\ v0 \in Views(scr) /\ j \in SJob /\ job \in Jobs(scr) /\ job.h.name \in STRING /\ IsScript(ct)
        /\ 1 \in Nat \ {0} /\ Len(ct) \in Nat /\ 1 <= Len(ct) + 1 /\ Len(ct) <= Len(ct)
        /\ \A k \in 1 .. Len(ct) : ct[k].do \notin Awaited
    BY ONLY <1>0, <1>2, <1>4, <1>5, <1>6
  <2> HIDE DEF ct
  <2> QED BY ONLY <2>1, StretchIs
<1>8. WorkFails(scr, v, v0, w, js, j, job, v1, js1)
  <2>1. WorkInv(scr, v, js) /\ v.left = FALSE /\ j \in Flying(js) /\ job = js[j] /\ v1 = Lowered(w, job) /\ js1 = [js EXCEPT ![j] = NoJob]
    BY SMTT(30) DEF job
  <2> HIDE DEF w
  <2>2. Stretch(scr, v0, w, j, job, job.h.catch, 1, Len(job.h.catch))
    BY <1>7 DEF ct
  <2> QED BY ONLY <1>3, <1>6, <2>1, <2>2 DEF WorkFails
<1> QED BY ONLY <1>8, FailsKeep

-----------------------------------------------------------------------------
(* The screens are sound: the invariant of the work, and what it says of them. *)

LEMMA WorkInit ==
  ASSUME ScreensInit
  PROVE  WorkInv(screen, view, sjob)
<1>1. /\ screen \in DOMAIN AllScreens /\ sjob = [j \in SJob |-> NoJob]
      /\ view = [up |-> {}, open |-> {}, presses |-> 0, due |-> {}, made |-> {}, twice |-> {}, harmed |-> {}, left |-> FALSE]
  BY DEF ScreensInit
<1>2. Flying(sjob) = {} /\ DOMAIN sjob = SJob
  BY <1>1 DEF Flying
<1>3. /\ view \in Views(screen) /\ view.up = {} /\ view.open = {} /\ view.due = {} /\ view.made = {} /\ view.twice = {} /\ view.harmed = {}
  BY <1>1 DEF Views
<1>4. ViewTyped(screen, view, sjob)
  BY <1>1, <1>2, <1>3 DEF ViewTyped
<1>5. FlagsHeld(view, sjob) /\ WritesOwed(screen, view, sjob) /\ MarksSound(screen, view)
  BY <1>3 DEF FlagsHeld, WritesOwed, MarksSound
<1>6. \A f \in Locks(screen) : LockHeld(f, view, sjob)
  BY <1>2 DEF LockHeld
<1>7. \A d \in Homes(screen) : HomeKept(d, view, sjob)
  BY <1>2, <1>3 DEF HomeKept
<1>8. \A c \in SentOnes(screen) : FormGone(c, view, sjob)
  BY <1>3 DEF FormGone
<1> QED BY <1>4, <1>5, <1>6, <1>7, <1>8 DEF WorkInv

LEMMA WorkPress ==
  ASSUME WorkInv(screen, view, sjob), view.left = FALSE, NEW c \in Controls, NEW row \in {1, 2}, NEW j \in SJob, Press(c, row, j)
  PROVE  WorkInv(screen, view', sjob')
<1> DEFINE form == IF c.at \in {Page, Clock} THEN 0 ELSE OpenedAt(c.at)
<1>1. Idle(j) /\ Reachable(c.at) /\ Enabled(c, row)
      /\ RunsOn(Counted, j, [h |-> c.h, at |-> c.at, row |-> row, born |-> view.presses, pc |-> 1, form |-> form], 1)
  BY DEF Press
<1>2. /\ view \in Views(screen) /\ view.presses \in Nat /\ view.open \subseteq Names(screen) \X Nat
      /\ \A o \in view.open : o[2] <= view.presses
  BY DEF WorkInv, ViewTyped, Views
<1>3. c.at \notin {Page, Clock} => <<c.at, form>> \in view.open
  <2> SUFFICES ASSUME c.at \notin {Page, Clock} PROVE <<c.at, form>> \in view.open
    OBVIOUS
  <2>1. \E o \in view.open : o[1] = c.at
    BY <1>1 DEF Reachable
  <2> DEFINE o == CHOOSE o \in view.open : o[1] = c.at
  <2>2. o \in view.open /\ o[1] = c.at
    BY <2>1
  <2>3. form = o[2]
    BY DEF OpenedAt
  <2> HIDE DEF o, form
  <2>4. o = <<o[1], o[2]>>
    BY <1>2, <2>2
  <2> QED BY <2>2, <2>3, <2>4
<1> HIDE DEF form
<1>4. form \in Nat /\ form <= view.presses
  <2>1. CASE c.at \in {Page, Clock}
    BY <1>2, <2>1 DEF form
  <2>2. CASE c.at \notin {Page, Clock}
    <3> DEFINE o == <<c.at, form>>
    <3>1. o \in view.open /\ o[2] = form
      BY <1>3, <2>2
    <3> HIDE DEF o
    <3>2. o[2] \in Nat /\ o[2] <= view.presses
      BY <1>2, <3>1
    <3> QED BY <3>1, <3>2
  <2> QED BY <2>1, <2>2
<1>5. c.at = Page => \A x \in AllScreens[screen].dialogs : x.covers /\ x.name /= Page => ~\E o \in view.open : o[1] = x.name
  <2>1. Page /= Clock
    BY DEF Page, Clock
  <2> QED BY <1>1, <2>1 DEF Reachable, Dialogs, IsOpen
<1>6. \A f \in c.h.unless : ~\E x \in view.up : x[1] = f
  BY <1>1 DEF Enabled, Busy
<1>7. \A f \in c.off : ~c.ofRow => ~\E x \in view.up : x[1] = f
  BY <1>1 DEF Enabled, Busy
<1>8. sjob[j] = NoJob
  BY <1>1 DEF Idle
<1>9. RanOn([view EXCEPT !.presses = view.presses + 1], sjob, j,
            [h |-> c.h, at |-> c.at, row |-> row, born |-> view.presses, pc |-> 1, form |-> form], 1, view', sjob')
  BY <1>1 DEF RunsOn, RanOn, Counted
<1>10. c \in AllScreens[screen].controls
  BY DEF Controls
<1>11. WorkInv(screen, view, sjob) /\ view.left = FALSE /\ j \in SJob /\ row \in {1, 2}
  OBVIOUS
<1> QED BY ONLY <1>3, <1>4, <1>5, <1>6, <1>7, <1>8, <1>9, <1>10, <1>11, PressMoves

LEMMA WorkOpen ==
  ASSUME WorkInv(screen, view, sjob), NEW d \in Dialogs, OpenDialog(d)
  PROVE  WorkInv(screen, view', sjob')
<1>1. d \in AllScreens[screen].dialogs /\ ~(\E o \in view.open : o[1] = d.name) /\ sjob' = sjob
  BY DEF Dialogs, OpenDialog, IsOpen
<1>2. view' = [view EXCEPT !.presses = view.presses + 1, !.open = view.open \cup {<<d.name, view.presses + 1>>}]
  <2>1. view \in Views(screen)
    BY DEF WorkInv, ViewTyped
  <2>2. view' = [Counted EXCEPT !.open = @ \cup {<<d.name, view.presses + 1>>}]
    BY DEF OpenDialog
  <2> QED BY <2>1, <2>2 DEF Views, Counted
<1>3. WorkInv(screen, view, sjob)
  OBVIOUS
<1>4. WorkInv(screen, view', sjob)
  BY ONLY <1>1, <1>2, <1>3, OpenMoves
<1> QED BY <1>1, <1>4

LEMMA WorkClose ==
  ASSUME WorkInv(screen, view, sjob), NEW d \in Dialogs, CloseDialog(d)
  PROVE  WorkInv(screen, view', sjob')
<1>1. /\ d \in AllScreens[screen].dialogs /\ \A f \in d.keep : ~\E x \in view.up : x[1] = f
      /\ sjob' = sjob
  BY DEF Dialogs, CloseDialog, Busy
<1>2. view' = [view EXCEPT !.presses = view.presses + 1, !.open = Keeps(view, d.name), !.up = {x \in view.up : x[1] \notin d.drops}]
  <2>1. view \in Views(screen)
    BY DEF WorkInv, ViewTyped
  <2>2. view' = [Counted EXCEPT !.open = Keeps(view, d.name), !.up = {x \in @ : x[1] \notin d.drops}]
    BY DEF CloseDialog
  <2> QED BY <2>1, <2>2 DEF Views, Counted
<1>3. WorkInv(screen, view, sjob)
  OBVIOUS
<1>4. WorkInv(screen, view', sjob)
  BY ONLY <1>1, <1>2, <1>3, CloseMoves
<1> QED BY <1>1, <1>4

LEMMA WorkAnswer ==
  ASSUME WorkInv(screen, view, sjob), view.left = FALSE, NEW j \in SJob, Answer(j)
  PROVE  WorkInv(screen, view', sjob')
<1>1. j \in Flying(sjob)
  BY DEF Answer, Flying
<1>2. RanOn(Effect(view, sjob[j].h.steps[sjob[j].pc], j, sjob[j]), sjob, j, sjob[j], sjob[j].pc + 1, view', sjob')
  BY DEF Answer, RunsOn, RanOn
<1>3. WorkInv(screen, view, sjob) /\ view.left = FALSE
  OBVIOUS
<1> QED BY ONLY <1>1, <1>2, <1>3, AnswerMoves

LEMMA WorkFailure ==
  ASSUME WorkInv(screen, view, sjob), view.left = FALSE, NEW j \in SJob, Failure(j)
  PROVE  WorkInv(screen, view', sjob')
<1> DEFINE v0 == IF sjob[j].h.steps[sjob[j].pc].do = "load" THEN [view EXCEPT !.due = {x \in view.due : x[1] /= j}] ELSE view
<1>1. j \in Flying(sjob)
  BY DEF Failure, Flying
<1>2. /\ view' = Lowered(Through(v0, j, sjob[j], sjob[j].h.catch, 1, Len(sjob[j].h.catch)), sjob[j])
      /\ sjob' = [sjob EXCEPT ![j] = NoJob]
  BY DEF Failure
<1>3. WorkInv(screen, view, sjob) /\ view.left = FALSE
  OBVIOUS
<1>4. v0 = IF sjob[j].h.steps[sjob[j].pc].do = "load" THEN [view EXCEPT !.due = {x \in view.due : x[1] /= j}] ELSE view
  OBVIOUS
<1> HIDE DEF v0
<1> QED BY ONLY <1>1, <1>2, <1>3, <1>4, FailMoves, ZenonT(60)

LEMMA WorkKept ==
  ASSUME WorkInv(screen, view, sjob), [ScreensNext]_screenVars
  PROVE  WorkInv(screen, view, sjob)'
<1>1. CASE UNCHANGED screenVars
  <2>1. screen' = screen /\ view' = view /\ sjob' = sjob
    BY <1>1 DEF screenVars
  <2> QED BY <2>1
<1>2. CASE ScreensNext
  <2>0. view.left = FALSE
    <3>1. view.left \in BOOLEAN
      BY DEF WorkInv, ViewTyped, Views
    <3> QED BY <1>2, <3>1 DEF ScreensNext
  <2>1. ASSUME NEW c \in Controls, NEW row \in {1, 2}, NEW j \in SJob, Press(c, row, j)
        PROVE  screen' = screen /\ WorkInv(screen, view', sjob')
    <3>1. screen' = screen
      BY <2>1 DEF Press
    <3> QED BY <2>0, <2>1, <3>1, WorkPress
  <2>2. ASSUME NEW d \in Dialogs, OpenDialog(d) PROVE screen' = screen /\ WorkInv(screen, view', sjob')
    <3>1. screen' = screen
      BY <2>2 DEF OpenDialog
    <3> QED BY <2>2, <3>1, WorkOpen
  <2>3. ASSUME NEW d \in Dialogs, CloseDialog(d) PROVE screen' = screen /\ WorkInv(screen, view', sjob')
    <3>1. screen' = screen
      BY <2>3 DEF CloseDialog
    <3> QED BY <2>3, <3>1, WorkClose
  <2>4. ASSUME NEW j \in SJob, Answer(j) PROVE screen' = screen /\ WorkInv(screen, view', sjob')
    <3>1. screen' = screen
      BY <2>4 DEF Answer
    <3> QED BY <2>0, <2>4, <3>1, WorkAnswer
  <2>5. ASSUME NEW j \in SJob, Failure(j) PROVE screen' = screen /\ WorkInv(screen, view', sjob')
    <3>1. screen' = screen
      BY <2>5 DEF Failure
    <3> QED BY <2>0, <2>5, <3>1, WorkFailure
  <2>6. screen' = screen /\ WorkInv(screen, view', sjob')
    BY <1>2, <2>1, <2>2, <2>3, <2>4, <2>5 DEF ScreensNext
  <2> QED BY <2>6
<1> QED BY <1>1, <1>2

LEMMA WorkIsSound ==
  ASSUME WorkInv(screen, view, sjob)
  PROVE  ScreensSound
<1>0. /\ ViewTyped(screen, view, sjob) /\ FlagsHeld(view, sjob) /\ WritesOwed(screen, view, sjob)
      /\ \A f \in Locks(screen) : LockHeld(f, view, sjob)
      /\ \A e \in Homes(screen) : HomeKept(e, view, sjob)
      /\ MarksSound(screen, view)
  BY DEF WorkInv
<1>1. OneCreation
  <2> SUFFICES ASSUME NEW i \in SJob, NEW j \in SJob, i /= j, sjob[i] /= NoJob, sjob[j] /= NoJob, Makes(sjob[i].h),
                      <<screen, sjob[i].h.name>> \notin Unlocked, sjob[i].h.name = sjob[j].h.name
               PROVE  FALSE
    BY DEF OneCreation
  <2>1. i \in Flying(sjob) /\ j \in Flying(sjob)
    BY DEF Flying
  <2>2. screen \in DOMAIN AllScreens /\ UnderWay(screen, view, sjob[i]) /\ UnderWay(screen, view, sjob[j])
    BY <1>0, <2>1 DEF ViewTyped
  <2>3. PICK c \in AllScreens[screen].controls : c.h = sjob[i].h
    BY <2>2 DEF UnderWay
  <2>4. PICK b \in AllScreens[screen].controls : b.h = sjob[j].h
    BY <2>2 DEF UnderWay
  <2>5. OneAtATime(screen, c.h)
    BY <2>2, <2>3, HandlersAre
  <2>6. PICK f \in FlagsOf(c.h) : IsLock(screen, f) /\ \A x \in AllScreens[screen].controls : x.h.name = c.h.name => Lowers(x.h, f)
    BY <2>5 DEF OneAtATime
  <2>7. f \in Locks(screen)
    BY <2>6 DEF Locks
  <2>8. Lowers(sjob[i].h, f) /\ Lowers(sjob[j].h, f)
    BY <2>3, <2>4, <2>6
  <2> QED BY <1>0, <2>1, <2>7, <2>8 DEF LockHeld
<1>2. NothingStuck
  BY <1>0 DEF FlagsHeld, NothingStuck, Flying
<1>3. WritesShown
  BY <1>0 DEF WritesOwed, WritesShown, Flying
<1>4. AnswersLandHome
  <2> SUFFICES ASSUME NEW d \in view.harmed, <<screen, d>> \in Guarded PROVE FALSE
    BY DEF AnswersLandHome
  <2>1. screen \in DOMAIN AllScreens
    BY <1>0 DEF ViewTyped
  <2>2. IsHome(screen, d)
    BY <2>1, GuardedAreHomes
  <2>3. d \in Homes(screen)
    BY <2>2 DEF Homes, IsHome
  <2> QED BY <1>0, <2>3 DEF HomeKept
<1>5. NoRemake
  BY <1>0 DEF MarksSound, NoRemake
<1> QED BY <1>1, <1>2, <1>3, <1>4, <1>5 DEF ScreensSound

\* On every screen, with any number of handlers in flight and of clicks: nothing is created twice
\* by a second click, no busy flag stays up, what was written is shown, no answer closes a dialog
\* opened after its click, and no form is sent again after its row was made, but for the
\* handlers named in Unlocked, Lagging and Remade (the pages of Tesbo-Frontend/app).
THEOREM ScreensAreSound == ScreensSpec => []ScreensSound
<1>1. ScreensInit => WorkInv(screen, view, sjob)
  BY WorkInit
<1>2. WorkInv(screen, view, sjob) /\ [ScreensNext]_screenVars => WorkInv(screen, view, sjob)'
  BY WorkKept
<1>3. WorkInv(screen, view, sjob) => ScreensSound
  BY WorkIsSound
<1> QED BY <1>1, <1>2, <1>3, PTL DEF ScreensSpec
================================================================================
