------------------------------ MODULE ZyraTurn ------------------------------
(***************************************************************************)
(* One chat turn of Zyra: the operations the model decided on are gated,    *)
(* carried out one by one while others use the project, and the reply the   *)
(* model wrote beforehand is reconciled with what was done (LegacyService,  *)
(* applyZyraChatOperations and reconcileZyraReply).                         *)
(***************************************************************************)
EXTENDS Naturals, Sequences, FiniteSets, SequencesExt

CONSTANTS
  ZCase,      \* ids of test cases, in creation order
  OpLimit,    \* ZYRA_CHAT_MAX_OPERATIONS
  MaxMeddles  \* what others do in the project meanwhile

ASSUME ZyraTurnConstants ==
  ZCase \subseteq Nat \ {0} /\ IsFiniteSet(ZCase) /\ OpLimit \in Nat \ {0} /\ MaxMeddles \in Nat

VARIABLES
  zCase,      \* the project's test cases: "none", "live", "archived" or "deleted"
  zSuite,     \* the suite the turn speaks of exists
  capable,    \* Zyra's capabilities in this project
  decided,    \* the decision's operations
  toDo,       \* the indices of those left to carry out
  appliedRows,\* applied.testcases.length
  meddles,    \* what others did so far
  reply,      \* "none" yet, the model's own words ("plain"), or with a warning before them
  missed,     \* history: operations on test cases that were not carried out
  blurred     \* history: a move was counted as several, or operations were cut before the count

ztnVars == <<zCase, zSuite, capable, decided, toDo, appliedRows, meddles, reply, missed, blurred>>

ZyraTurnInit ==
  /\ \E n \in 0..Cardinality(ZCase) : zCase = [c \in ZCase |-> IF c <= n THEN "live" ELSE "none"]
  /\ zSuite \in BOOLEAN
  /\ capable \in [storage : BOOLEAN, suites : BOOLEAN]
  /\ decided = <<>> /\ toDo = {} /\ appliedRows = 0 /\ meddles = 0
  /\ reply = "none" /\ missed = 0 /\ blurred = FALSE

Op(type, targets, byId) == [type |-> type, targets |-> targets, byId |-> byId]
ZyraOps ==
  {Op("create", {}, FALSE), Op("create_suite", {}, FALSE)}
  \cup {Op(type, {c}, TRUE) : type \in {"update", "archive"}, c \in ZCase}
  \cup {Op("move_to_suite", cs, byId) : cs \in SUBSET ZCase \ {{}}, byId \in BOOLEAN}

\* The operations a decision keeps of what the model emitted.
normalizeZyraChatDecision(raw) == SubSeq(raw, 1, IF Len(raw) < OpLimit THEN Len(raw) ELSE OpLimit)

\* The hard gate: nothing of a switched-off capability is carried out.
Allowed(op) == IF op.type \in {"create_suite", "move_to_suite"} THEN capable.suites ELSE capable.storage

\* What is expected to produce a row: every operation but the making of a suite.
OnCases(ops) == {i \in DOMAIN ops : ops[i].type /= "create_suite"}

\* The capabilities are read once, before the first operation.
decideTurn ==
  /\ decided = <<>> /\ reply = "none"
  /\ \E raw \in SeqOf(ZyraOps, OpLimit + 1) :
       /\ raw /= <<>>
       /\ decided' = normalizeZyraChatDecision(raw)
       /\ toDo' = {i \in DOMAIN decided' : Allowed(decided'[i])}
       /\ missed' = Cardinality(OnCases(decided') \ toDo')
       /\ blurred' = (Len(raw) > OpLimit)
  /\ UNCHANGED <<zCase, zSuite, capable, appliedRows, meddles, reply>>

\* Operation i is the next one.
Carry(i, type) ==
  /\ decided[i].type = type /\ \A j \in toDo : i <= j
  /\ toDo' = toDo \ {i}
Misses == missed' = missed + 1 /\ UNCHANGED <<zCase, appliedRows>>

\* A create stages into the named suite, made if need be; its id may collide, twice.
resolveOrCreateSuiteByName == zSuite' = TRUE
createFromDraft(i) ==
  /\ Carry(i, "create") /\ resolveOrCreateSuiteByName
  /\ \/ /\ \E c \in {d \in ZCase : zCase[d] = "none" /\ \A e \in ZCase : e < d => zCase[e] /= "none"} :
             zCase' = [zCase EXCEPT ![c] = "live"]
        /\ appliedRows' = appliedRows + 1 /\ missed' = missed
     \/ Misses
  /\ UNCHANGED <<capable, decided, meddles, reply, blurred>>

\* An update or an archive of a test case that is no longer there is passed over.
findProjectTestcase(c) == zCase[c] \in {"live", "archived"}
patchTestCaseFromZyra(i, type) ==
  /\ Carry(i, type)
  /\ \E c \in decided[i].targets :
       IF ~findProjectTestcase(c) THEN Misses
       ELSE /\ zCase' = IF type = "archive" THEN [zCase EXCEPT ![c] = "archived"] ELSE zCase
            /\ appliedRows' = appliedRows + 1 /\ missed' = missed
  /\ UNCHANGED <<zSuite, capable, decided, meddles, reply, blurred>>

createSuiteOp(i) ==
  /\ Carry(i, "create_suite") /\ resolveOrCreateSuiteByName
  /\ UNCHANGED <<zCase, capable, decided, appliedRows, meddles, reply, missed, blurred>>

\* A suite named by id must still exist, one named by name is made; every target found is a row.
resolveZyraMoveTargets(op) == {c \in op.targets : findProjectTestcase(c)}
moveToSuite(i) ==
  LET op == decided[i]
      found == resolveZyraMoveTargets(op)
  IN /\ Carry(i, "move_to_suite")
     /\ IF op.byId THEN zSuite' = zSuite ELSE resolveOrCreateSuiteByName
     /\ IF (op.byId /\ ~zSuite) \/ found = {} THEN Misses /\ blurred' = blurred
        ELSE /\ appliedRows' = appliedRows + Cardinality(found)
             /\ blurred' = (blurred \/ Cardinality(found) > 1)
             /\ UNCHANGED <<zCase, missed>>
     /\ UNCHANGED <<capable, decided, meddles, reply>>

\* Mutant: only a turn that did nothing at all is corrected.
reconcileZyraReplyAllOrNothing ==
  IF OnCases(decided) = {} THEN "plain"
  ELSE IF appliedRows = 0 THEN "nothing" ELSE "plain"

\* The reply of a turn that meant to change something.
reconcileZyraReply ==
  LET requested == Cardinality(OnCases(decided))
  IN IF requested = 0 THEN "plain"
     ELSE IF appliedRows = 0 THEN "nothing"
     ELSE IF appliedRows < requested THEN "partial" ELSE "plain"

finalizeZyraChatReply ==
  /\ decided /= <<>> /\ toDo = {} /\ reply = "none"
  /\ reply' = reconcileZyraReply
  /\ UNCHANGED <<zCase, zSuite, capable, decided, toDo, appliedRows, meddles, missed, blurred>>

\* Others delete a test case or the suite while the turn works.
Meddle ==
  /\ reply = "none" /\ meddles < MaxMeddles /\ meddles' = meddles + 1
  /\ \/ \E c \in ZCase : findProjectTestcase(c) /\ zCase' = [zCase EXCEPT ![c] = "deleted"] /\ zSuite' = zSuite
     \/ zSuite /\ zSuite' = FALSE /\ zCase' = zCase
  /\ UNCHANGED <<capable, decided, toDo, appliedRows, reply, missed, blurred>>

ZyraTurnNext ==
  \/ decideTurn \/ finalizeZyraChatReply \/ Meddle
  \/ \E i \in toDo : createFromDraft(i) \/ createSuiteOp(i) \/ moveToSuite(i)
  \/ \E i \in toDo, type \in {"update", "archive"} : patchTestCaseFromZyra(i, type)

ZyraTurnSpec == ZyraTurnInit /\ [][ZyraTurnNext]_ztnVars

-----------------------------------------------------------------------------
\* The model's words stand uncorrected only if every operation on test cases was carried out,
\* whatever was gated, collided or deleted underneath it.  A move of several test cases is one
\* operation and as many rows, and can make up for operations that were not; operations beyond
\* the limit are cut before the reply's count of what was requested.
ReplyHonest == reply = "plain" => missed = 0 \/ blurred
=============================================================================
