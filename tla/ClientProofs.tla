---------------------------- MODULE ClientProofs ----------------------------
(***************************************************************************)
(* Proofs about the clients: three parts of the web app, LoginRedirect for  *)
(* any destinations, TestCasesPage for any cases, suites and handlers and   *)
(* TableColumns for any columns; the Playwright reporter for any suites,    *)
(* retries and tries; and HttpGate, which the requests of both pass, for    *)
(* any projects.                                                            *)
(*   LoginInv     what the sign-in page knows while no check has outlived   *)
(*                its deadline;                                             *)
(*   PageInv      each busy flag has exactly one handler behind it;         *)
(*   ReporterInv  each attempt that has ended left a trace;                 *)
(*   ColumnInv    the storage holds what the user last saw, every column    *)
(*                once, and a table that has read it shows the same;        *)
(*   GateInv      a machine client's request is on its way to the automation *)
(*                or MCP controller, and past the lock only if it may.      *)
(***************************************************************************)
EXTENDS LoginRedirect, TestCasesPage, Reporter, TableColumns, HttpGate, FiniteSetTheorems, TLAPS

-----------------------------------------------------------------------------
(* LoginRedirect *)

\* The page is on its loading screen, waiting for the only check there is.
Waiting ==
  /\ \E c \in checks : checks = {c} /\ c.mine = TRUE /\ c.to = tab.to
  /\ tab.at = "login" /\ tab.checking = TRUE /\ tab.going = NoTarget /\ tab.alarm = FALSE

\* The user has been sent on once: the marker says so, or nothing is left that could send them
\* on again before they act.
SentOnce ==
  /\ told.hops = 1
  /\ \/ marker = [target |-> tab.to, fresh |-> TRUE]
     \/ checks = {} /\ tab.going = NoTarget /\ tab.at \in {"login", "setup", "inside"}

LoginInv ==
  ~told.late =>
    /\ checks = {} \/ Waiting
    /\ tab.going \in {NoTarget, tab.to}
    /\ outside.storage => told.hops = 0 \/ SentOnce
    /\ checks /= {} /\ marker.fresh => told.back
    /\ tab.alarm => told.back

OutsideRow == [session : BOOLEAN, edge : BOOLEAN, storage : BOOLEAN]
TabRow     == [at : {"login", "setup", "gate", "inside"}, to : Target, checking : BOOLEAN,
               pending : Target \cup {NoTarget}, alarm : BOOLEAN, going : Target \cup {NoTarget}]
CheckRow   == [mine : BOOLEAN, to : Target, step : {"setup", "me"}, locked : BOOLEAN]
MarkerRow  == [target : Target \cup {NoTarget}, fresh : BOOLEAN]
ToldRow    == [hops : 0..2, back : BOOLEAN, late : BOOLEAN, acts : Nat]

LoginType ==
  /\ outside \in OutsideRow
  /\ tab \in TabRow
  /\ checks \subseteq CheckRow
  /\ marker \in MarkerRow
  /\ told \in ToldRow

LEMMA InitLogin == LoginInit => LoginType /\ LoginInv
  BY DEF LoginInit, LoginType, OutsideRow, TabRow, CheckRow, MarkerRow, ToldRow,
         LoginInv, Waiting, SentOnce, Mounted, Check, NoMarker

LEMMA setupAnsweredKeeps ==
  ASSUME LoginType, LoginInv, NEW c \in checks, setupAnswered(c)
  PROVE  LoginType' /\ LoginInv'
<1> USE DEF setupAnswered, Form, NoMarker, NoTarget, clearRedirectAttempts
<1>1. outside' \in OutsideRow
  BY DEF LoginType, OutsideRow
<1>2. tab' \in TabRow
  BY DEF LoginType, TabRow
<1>3. checks' \subseteq CheckRow
  BY DEF LoginType, CheckRow
<1>4. marker' \in MarkerRow
  <2>1. NoMarker \in MarkerRow
    BY DEF MarkerRow
  <2> QED
    BY <2>1 DEF LoginType
<1>5. told' \in ToldRow
  BY DEF LoginType, ToldRow
<1>6. LoginInv'
  <2>1. CASE checks' = (checks \ {c}) \cup {[c EXCEPT !.step = "me"]} /\ UNCHANGED <<tab, marker>>
    <3>1. c \in CheckRow
      BY DEF LoginType
    <3> DEFINE d == [c EXCEPT !.step = "me"]
    <3>2. d.mine = c.mine /\ d.to = c.to
      BY <3>1 DEF CheckRow
    <3>3. checks' = (checks \ {c}) \cup {d}
      BY <2>1
    <3> HIDE DEF d
    <3>4. Waiting => Waiting'
      BY <2>1, <3>2, <3>3 DEF Waiting
    <3> QED
      BY <2>1, <3>3, <3>4 DEF LoginInv, SentOnce
  <2>2. CASE /\ ~outside.session /\ checks' = checks \ {c} /\ clearRedirectAttempts
             /\ tab' = [Form(tab.alarm) EXCEPT !.at = "setup", !.going = NoTarget]
    <3>1. tab'.at = "setup" /\ tab'.going = NoTarget /\ tab'.alarm = tab.alarm /\ tab'.to = tab.to
      BY <2>2 DEF LoginType, TabRow
    <3>2. ~marker'.fresh
      BY <2>2
    <3>3. ~told.late => checks' = {}
      BY <2>2 DEF LoginInv, Waiting
    <3> QED
      BY <3>1, <3>2, <3>3 DEF LoginInv, SentOnce
  <2> QED
    BY <2>1, <2>2
<1> QED
  BY <1>1, <1>2, <1>3, <1>4, <1>5, <1>6 DEF LoginType

LEMMA meAnsweredKeeps ==
  ASSUME LoginType, LoginInv, NEW c \in checks, meAnswered(c)
  PROVE  LoginType' /\ LoginInv'
<1> USE DEF meAnswered, Form, Home, NoMarker, NoTarget, noteRedirectAttempt, clearRedirectAttempts, isRedirectBounce
<1>1. outside' \in OutsideRow
  BY DEF LoginType, OutsideRow
<1>2. tab' \in TabRow
  BY ZenonT(60) DEF LoginType, TabRow, CheckRow
<1>3. checks' \subseteq CheckRow
  BY DEF LoginType, CheckRow
<1>4. marker' \in MarkerRow
  <2>1. NoMarker \in MarkerRow
    BY DEF MarkerRow
  <2>2. [target |-> c.to, fresh |-> TRUE] \in MarkerRow
    BY DEF MarkerRow, LoginType, CheckRow
  <2> QED
    BY <2>1, <2>2 DEF LoginType
<1>5. told' \in ToldRow
  <2> DEFINE h == IF told.hops < 2 THEN told.hops + 1 ELSE told.hops
             late == told.late \/ ~tab.checking
  <2>1. h \in 0..2 /\ late \in BOOLEAN
    BY DEF LoginType, ToldRow, TabRow
  <2>2. told' = told \/ told' = [told EXCEPT !.hops = h, !.back = FALSE, !.late = late]
    OBVIOUS
  <2> HIDE DEF h, late
  <2> QED
    BY <2>1, <2>2 DEF LoginType, ToldRow
<1>6. LoginInv'
  <2> SUFFICES ASSUME ~told'.late PROVE LoginInv'
    BY DEF LoginInv
  <2>1. ~told.late
    BY DEF LoginType, ToldRow
  <2>2. Waiting /\ checks = {c} /\ checks' = {} /\ c.to = tab.to /\ Home(c)
    BY <2>1 DEF LoginInv, Waiting
  <2>3. CASE (~outside.session \/ c.locked) /\ tab' = Form(tab.alarm) /\ UNCHANGED told /\ clearRedirectAttempts
    <3>1. tab'.at = "login" /\ tab'.going = NoTarget /\ ~tab'.alarm /\ tab'.to = tab.to
      BY <2>2, <2>3 DEF LoginType, TabRow, Waiting
    <3> QED
      BY <2>1, <2>2, <2>3, <3>1 DEF LoginInv, SentOnce
  <2>4. CASE isRedirectBounce(c.to) /\ tab' = Form(TRUE) /\ UNCHANGED told /\ clearRedirectAttempts
    <3>1. tab'.at = "login" /\ tab'.going = NoTarget /\ tab'.to = tab.to
      BY <2>2, <2>4 DEF LoginType, TabRow, Waiting
    <3>2. told.back
      BY <2>1, <2>2, <2>4 DEF LoginInv
    <3> QED
      BY <2>1, <2>2, <2>4, <3>1, <3>2 DEF LoginInv, SentOnce
  <2>5. CASE /\ ~isRedirectBounce(c.to) /\ noteRedirectAttempt(c.to) /\ outside.session
             /\ tab' = [tab EXCEPT !.going = c.to, !.pending = IF Home(c) THEN c.to ELSE @]
             /\ told' = [told EXCEPT !.hops = IF @ < 2 THEN @ + 1 ELSE @, !.back = FALSE, !.late = @ \/ ~tab.checking]
    <3>1. tab'.going = tab.to /\ tab'.to = tab.to /\ ~tab'.alarm
      BY <2>2, <2>5 DEF LoginType, TabRow, Waiting
    <3>2. outside.storage => marker' = [target |-> tab.to, fresh |-> TRUE]
      BY <2>2, <2>5
    <3>3. outside.storage => told.hops = 0
      BY <2>1, <2>2, <2>5 DEF LoginInv, SentOnce
    <3>4. told.hops = 0 => told'.hops = 1
      BY <2>5 DEF LoginType, ToldRow
    <3> QED
      BY <2>2, <3>1, <3>2, <3>3, <3>4 DEF LoginInv, SentOnce
  <2> QED
    BY <2>2, <2>3, <2>4, <2>5
<1> QED
  BY <1>1, <1>2, <1>3, <1>4, <1>5, <1>6 DEF LoginType

LEMMA checkFailsKeeps ==
  ASSUME LoginType, LoginInv, NEW c \in checks, checkFails(c)
  PROVE  LoginType' /\ LoginInv'
<1> USE DEF checkFails, Form, Home
<1>1. outside' \in OutsideRow
  BY DEF LoginType, OutsideRow
<1>2. tab' \in TabRow
  BY DEF LoginType, TabRow
<1>3. checks' \subseteq CheckRow
  BY DEF LoginType, CheckRow
<1>4. marker' \in MarkerRow
  BY DEF LoginType, MarkerRow
<1>5. told' \in ToldRow
  BY DEF LoginType, ToldRow
<1>6. LoginInv'
  BY DEF LoginType, LoginInv, Waiting, SentOnce, OutsideRow, TabRow, CheckRow, MarkerRow, ToldRow
<1> QED
  BY <1>1, <1>2, <1>3, <1>4, <1>5, <1>6 DEF LoginType

LEMMA attemptExpiresKeeps ==
  ASSUME LoginType, LoginInv, attemptExpires
  PROVE  LoginType' /\ LoginInv'
<1> USE DEF attemptExpires
<1>1. outside' \in OutsideRow
  BY DEF LoginType, OutsideRow
<1>2. tab' \in TabRow
  BY DEF LoginType, TabRow
<1>3. checks' \subseteq CheckRow
  BY DEF LoginType, CheckRow
<1>4. marker' \in MarkerRow
  BY DEF LoginType, MarkerRow
<1>5. told' \in ToldRow
  BY DEF LoginType, ToldRow
<1>6. LoginInv'
  BY DEF LoginType, LoginInv, Waiting, SentOnce, OutsideRow, TabRow, CheckRow, MarkerRow, ToldRow
<1> QED
  BY <1>1, <1>2, <1>3, <1>4, <1>5, <1>6 DEF LoginType

LEMMA deadlineKeeps ==
  ASSUME LoginType, LoginInv, deadline
  PROVE  LoginType' /\ LoginInv'
<1> USE DEF deadline, Form, NoMarker, NoTarget, clearRedirectAttempts
<1>1. outside' \in OutsideRow
  BY DEF LoginType, OutsideRow
<1>2. tab' \in TabRow
  BY DEF LoginType, TabRow
<1>3. checks' \subseteq CheckRow
  BY DEF LoginType, CheckRow
<1>4. marker' \in MarkerRow
  BY DEF LoginType, MarkerRow
<1>5. told' \in ToldRow
  BY 0 \in 0..2 DEF LoginType, ToldRow
<1>6. LoginInv'
  BY DEF LoginType, LoginInv, Waiting, SentOnce, OutsideRow, TabRow, CheckRow, MarkerRow, ToldRow
<1> QED
  BY <1>1, <1>2, <1>3, <1>4, <1>5, <1>6 DEF LoginType

LEMMA navigatesKeeps ==
  ASSUME LoginType, LoginInv, navigates
  PROVE  LoginType' /\ LoginInv'
<1> USE DEF navigates, Arrives, Mounted, Check, NoTarget
<1>1. outside' \in OutsideRow
  BY DEF LoginType, OutsideRow
<1>2. tab' \in TabRow
  <2>1. Mounted(tab.going) \in TabRow
    BY DEF LoginType, TabRow
  <2>2. [tab EXCEPT !.going = NoTarget] \in TabRow
    BY DEF LoginType, TabRow
  <2>3. [tab EXCEPT !.at = "gate", !.to = tab.going, !.going = NoTarget] \in TabRow
    BY DEF LoginType, TabRow
  <2> QED
    BY <2>1, <2>2, <2>3
<1>3. checks' \subseteq CheckRow
  <2>1. \A c \in checks : [c EXCEPT !.mine = FALSE] \in CheckRow
    BY DEF LoginType, CheckRow
  <2>2. tab.going \in Target => Check(tab.going, FALSE) \in CheckRow
    BY DEF CheckRow
  <2>3. tab.going \in Target
    BY DEF LoginType, TabRow
  <2>4. checks' = checks \/ checks' = {[c EXCEPT !.mine = FALSE] : c \in checks} \cup {Check(tab.going, FALSE)}
    OBVIOUS
  <2> HIDE DEF Check
  <2> QED
    BY <2>1, <2>2, <2>3, <2>4, ZenonT(60) DEF LoginType
<1>4. marker' \in MarkerRow
  BY DEF LoginType, MarkerRow
<1>5. told' \in ToldRow
  BY DEF LoginType, ToldRow
<1>6. LoginInv'
  <2> SUFFICES ASSUME ~told'.late PROVE LoginInv'
    BY DEF LoginInv
  <2>1. ~told.late /\ told'.hops = told.hops
    BY DEF LoginType, ToldRow
  <2>2. checks = {} /\ tab.going = tab.to
    BY <2>1 DEF LoginInv, Waiting
  <2>3. CASE Arrives(tab.going) /\ told' = [told EXCEPT !.back = TRUE]
    <3>1. /\ tab'.at = "login" /\ tab'.checking = TRUE /\ tab'.going = NoTarget /\ tab'.alarm = FALSE /\ tab'.to = tab.to
          /\ checks' = {Check(tab.to, FALSE)} /\ told'.back
      BY <2>2, <2>3 DEF LoginType, ToldRow
    <3>2. Check(tab.to, FALSE).mine = TRUE /\ Check(tab.to, FALSE).to = tab.to
      OBVIOUS
    <3> HIDE DEF Check
    <3>3. Waiting'
      BY <3>1, <3>2 DEF Waiting
    <3>4. told.hops = 1 /\ SentOnce => SentOnce'
      BY <2>1, <2>2, <3>1 DEF SentOnce
    <3> QED
      BY <2>1, <3>1, <3>3, <3>4 DEF LoginInv, SentOnce
  <2>4. CASE tab.at = "login" /\ tab' = [tab EXCEPT !.going = NoTarget] /\ UNCHANGED <<checks, told>>
    <3>1. tab'.at = "login" /\ tab'.going = NoTarget /\ tab'.alarm = tab.alarm /\ tab'.to = tab.to
      BY <2>4 DEF LoginType, TabRow
    <3> QED
      BY <2>1, <2>2, <2>4, <3>1 DEF LoginInv, SentOnce
  <2>5. CASE tab' = [tab EXCEPT !.at = "gate", !.to = tab.going, !.going = NoTarget] /\ UNCHANGED <<checks, told>>
    <3>1. tab'.at = "gate" /\ tab'.going = NoTarget /\ tab'.alarm = tab.alarm /\ tab'.to = tab.to
      BY <2>2, <2>5 DEF LoginType, TabRow
    <3> QED
      BY <2>1, <2>2, <2>5, <3>1 DEF LoginInv, SentOnce
  <2> QED
    BY <2>3, <2>4, <2>5
<1> QED
  BY <1>1, <1>2, <1>3, <1>4, <1>5, <1>6 DEF LoginType

LEMMA gateAnsweredKeeps ==
  ASSUME LoginType, LoginInv, gateAnswered
  PROVE  LoginType' /\ LoginInv'
<1> USE DEF gateAnswered, Arrives, Mounted, Check, NoTarget
<1>1. outside' \in OutsideRow
  BY DEF LoginType, OutsideRow
<1>2. tab' \in TabRow
  <2>1. Mounted(tab.to) \in TabRow
    BY DEF LoginType, TabRow
  <2>2. [tab EXCEPT !.at = "inside"] \in TabRow
    BY DEF LoginType, TabRow
  <2> QED
    BY <2>1, <2>2
<1>3. checks' \subseteq CheckRow
  <2>1. \A c \in checks : [c EXCEPT !.mine = FALSE] \in CheckRow
    BY DEF LoginType, CheckRow
  <2>2. tab.to \in Target => Check(tab.to, FALSE) \in CheckRow
    BY DEF CheckRow
  <2>3. tab.to \in Target
    BY DEF LoginType, TabRow
  <2>4. checks' = checks \/ checks' = {[c EXCEPT !.mine = FALSE] : c \in checks} \cup {Check(tab.to, FALSE)}
    OBVIOUS
  <2> HIDE DEF Check
  <2> QED
    BY <2>1, <2>2, <2>3, <2>4, ZenonT(60) DEF LoginType
<1>4. marker' \in MarkerRow
  BY DEF LoginType, MarkerRow
<1>5. told' \in ToldRow
  BY DEF LoginType, ToldRow
<1>6. LoginInv'
  <2> SUFFICES ASSUME ~told'.late PROVE LoginInv'
    BY DEF LoginInv
  <2>1. ~told.late /\ told'.hops = told.hops /\ checks = {}
    BY DEF LoginType, ToldRow, LoginInv, Waiting
  <2>2. CASE tab' = [tab EXCEPT !.at = "inside"] /\ UNCHANGED <<checks, told>>
    <3>1. tab'.at = "inside" /\ tab'.going = tab.going /\ tab'.alarm = tab.alarm /\ tab'.to = tab.to
      BY <2>2 DEF LoginType, TabRow
    <3> QED
      BY <2>1, <2>2, <3>1 DEF LoginInv, SentOnce
  <2>3. CASE Arrives(tab.to) /\ told' = [told EXCEPT !.back = TRUE]
    <3>1. /\ tab'.at = "login" /\ tab'.checking = TRUE /\ tab'.going = NoTarget /\ tab'.alarm = FALSE /\ tab'.to = tab.to
          /\ checks' = {Check(tab.to, FALSE)} /\ told'.back
      BY <2>1, <2>3 DEF LoginType, ToldRow
    <3>2. Check(tab.to, FALSE).mine = TRUE /\ Check(tab.to, FALSE).to = tab.to
      OBVIOUS
    <3> HIDE DEF Check
    <3>3. Waiting'
      BY <3>1, <3>2 DEF Waiting
    <3>4. told.hops = 1 /\ SentOnce => SentOnce'
      BY <2>1, <3>1 DEF SentOnce
    <3> QED
      BY <2>1, <3>1, <3>3, <3>4 DEF LoginInv, SentOnce
  <2> QED
    BY <2>2, <2>3
<1> QED
  BY <1>1, <1>2, <1>3, <1>4, <1>5, <1>6 DEF LoginType

LEMMA handleSubmitKeeps ==
  ASSUME LoginType, LoginInv, handleSubmit
  PROVE  LoginType' /\ LoginInv'
<1> USE DEF handleSubmit, Acts, Acted, NoMarker, NoTarget, clearRedirectAttempts
<1>1. outside' \in OutsideRow
  BY DEF LoginType, OutsideRow
<1>2. tab' \in TabRow
  BY DEF LoginType, TabRow
<1>3. checks' \subseteq CheckRow
  BY DEF LoginType, CheckRow
<1>4. marker' \in MarkerRow
  BY DEF LoginType, MarkerRow
<1>5. told' \in ToldRow
  <2> DEFINE n == told.acts + 1
  <2>1. n \in Nat /\ 0 \in 0..2
    BY DEF LoginType, ToldRow
  <2>2. told' = [told EXCEPT !.hops = 0, !.acts = n]
    BY DEF LoginType, ToldRow
  <2> HIDE DEF n
  <2> QED
    BY <2>1, <2>2 DEF LoginType, ToldRow
<1>6. LoginInv'
  BY DEF LoginType, LoginInv, Waiting, SentOnce, OutsideRow, TabRow, CheckRow, MarkerRow, ToldRow
<1> QED
  BY <1>1, <1>2, <1>3, <1>4, <1>5, <1>6 DEF LoginType

LEMMA sessionEndsKeeps ==
  ASSUME LoginType, LoginInv, sessionEnds
  PROVE  LoginType' /\ LoginInv'
<1> USE DEF sessionEnds, Acts
<1>1. outside' \in OutsideRow
  BY DEF LoginType, OutsideRow
<1>2. tab' \in TabRow
  BY DEF LoginType, TabRow
<1>3. checks' \subseteq CheckRow
  BY DEF LoginType, CheckRow
<1>4. marker' \in MarkerRow
  BY DEF LoginType, MarkerRow
<1>5. told' \in ToldRow
  BY DEF LoginType, ToldRow
<1>6. LoginInv'
  BY DEF LoginType, LoginInv, Waiting, SentOnce, OutsideRow, TabRow, CheckRow, MarkerRow, ToldRow
<1> QED
  BY <1>1, <1>2, <1>3, <1>4, <1>5, <1>6 DEF LoginType

LEMMA visitLoginKeeps ==
  ASSUME LoginType, LoginInv, NEW t \in Target, visitLogin(t)
  PROVE  LoginType' /\ LoginInv'
<1> USE DEF visitLogin, Acts, Acted, Mounted, Check, NoTarget
<1>1. outside' \in OutsideRow
  BY DEF LoginType, OutsideRow
<1>2. tab' \in TabRow
  BY DEF LoginType, TabRow
<1>3. checks' \subseteq CheckRow
  BY DEF LoginType, CheckRow
<1>4. marker' \in MarkerRow
  BY DEF LoginType, MarkerRow
<1>5. told' \in ToldRow
  <2> DEFINE n == told.acts + 1
  <2>1. n \in Nat /\ 0 \in 0..2
    BY DEF LoginType, ToldRow
  <2>2. told' = [told EXCEPT !.hops = 0, !.acts = n, !.back = TRUE]
    BY DEF LoginType, ToldRow
  <2> HIDE DEF n
  <2> QED
    BY <2>1, <2>2 DEF LoginType, ToldRow
<1>6. LoginInv'
  BY DEF LoginType, LoginInv, Waiting, SentOnce, OutsideRow, TabRow, CheckRow, MarkerRow, ToldRow
<1> QED
  BY <1>1, <1>2, <1>3, <1>4, <1>5, <1>6 DEF LoginType

LEMMA NextLogin == LoginType /\ LoginInv /\ [LoginNext]_loginVars => LoginType' /\ LoginInv'
<1> SUFFICES ASSUME LoginType, LoginInv, [LoginNext]_loginVars PROVE LoginType' /\ LoginInv'
  OBVIOUS
<1>1. CASE UNCHANGED loginVars
  BY <1>1 DEF loginVars, LoginType, LoginInv, Waiting, SentOnce
<1>2. CASE LoginNext
  <2>1. ASSUME NEW c \in checks, setupAnswered(c) \/ meAnswered(c) \/ checkFails(c)
        PROVE  LoginType' /\ LoginInv'
    BY <2>1, setupAnsweredKeeps, meAnsweredKeeps, checkFailsKeeps
  <2>2. CASE attemptExpires \/ deadline \/ navigates \/ gateAnswered \/ handleSubmit \/ sessionEnds
    BY <2>2, attemptExpiresKeeps, deadlineKeeps, navigatesKeeps, gateAnsweredKeeps, handleSubmitKeeps, sessionEndsKeeps
  <2>3. ASSUME NEW t \in Target, visitLogin(t) PROVE LoginType' /\ LoginInv'
    BY <2>3, visitLoginKeeps
  <2> QED
    BY <1>2, <2>1, <2>2, <2>3 DEF LoginNext
<1> QED
  BY <1>1, <1>2

LEMMA LoginInvSettles == LoginType /\ LoginInv => LoginSettles
  BY DEF LoginType, ToldRow, LoginInv, SentOnce, LoginSettles, RedirectsOnce, AlarmsTrue

\* Between two acts of the user the sign-in page sends them on at most once, whatever the edge
\* and the session do, unless a check outlived its deadline; and it says that it could not open
\* the destination only to one who came back (isRedirectBounce, the deadline, AppDataProvider):
\* for any destinations.
THEOREM LoginIsSettled == LoginSpec => []LoginSettles
  BY InitLogin, NextLogin, LoginInvSettles, PTL DEF LoginSpec

-----------------------------------------------------------------------------
(* TestCasesPage: the busy flags and the handlers on their way *)

UiField == {"suite", "status", "page", "size", "list", "total", "loading", "error", "selected", "selecting",
            "mode", "id", "panelLoading", "saving", "form", "bulkOpen", "bulkSaving", "dialog", "target",
            "creating", "renaming", "deleting", "archived", "unfiled"}
JobField == DOMAIN Ready
SuiteOp == {"add suite", "rename suite", "delete suite"}

Working(ops) == {j \in PJob : pjob[j].op \in ops}

\* The handler behind a busy flag.
OneFor(flag, ops) == /\ flag => \E j \in PJob : Working(ops) = {j}
                     /\ ~flag => Working(ops) = {}

Flags(u) == <<u.saving, u.bulkSaving, u.selecting, u.creating, u.renaming, u.deleting>>

\* The hooks of the page and the handlers' records keep their fields; a handler is for one of
\* the operations, and only the reading of all matching cases waits for no write.
PageShape ==
  /\ ui = [f \in UiField |-> ui[f]]
  /\ Flags(ui) \in BOOLEAN \X BOOLEAN \X BOOLEAN \X BOOLEAN \X BOOLEAN \X BOOLEAN
  /\ pjob = [j \in PJob |-> pjob[j]]
  /\ \A j \in PJob : pjob[j] = [f \in JobField |-> pjob[j][f]]
  /\ \A j \in PJob : pjob[j].op = "" => pjob[j].step = ""
  /\ \A j \in PJob : pjob[j].op = "select" => pjob[j].step = "read"
  /\ \A j \in PJob : pjob[j].op \in {"", "select"} \cup PanelOp \cup BulkOp \cup SuiteOp

FlagsTell ==
  /\ OneFor(ui.saving, PanelOp)
  /\ OneFor(ui.bulkSaving, BulkOp)
  /\ OneFor(ui.selecting, {"select"})
  /\ OneFor(ui.creating, {"add suite"})
  /\ OneFor(ui.renaming, {"rename suite"})
  /\ OneFor(ui.deleting, {"delete suite"})

PageInv == PageShape /\ FlagsTell

LEMMA InitPageInv == PageInit => PageInv
<1> SUFFICES ASSUME PageInit PROVE PageInv
  OBVIOUS
<1>1. PageShape
  <2>1. ui = [f \in UiField |-> ui[f]]
    BY DEF PageInit, UiField
  <2>2. Flags(ui) \in BOOLEAN \X BOOLEAN \X BOOLEAN \X BOOLEAN \X BOOLEAN \X BOOLEAN
    BY DEF PageInit, Flags
  <2>3. Ready = [f \in JobField |-> Ready[f]] /\ Ready.op = "" /\ Ready.step = ""
    BY DEF JobField, Ready
  <2> QED
    BY <2>1, <2>2, <2>3, ZenonT(60) DEF PageInit, PageShape
<1>2. \A j \in PJob : pjob[j].op = ""
  BY DEF PageInit, Ready
<1>3. Flags(ui) = <<FALSE, FALSE, FALSE, FALSE, FALSE, FALSE>>
  BY DEF PageInit, Flags
<1> QED
  BY <1>1, <1>2, <1>3 DEF PageInv, FlagsTell, OneFor, Working, Flags, PanelOp, BulkOp

\* What a handler's next step does to the set of those at work.
LEMMA WorkingAfter ==
  ASSUME PageShape, NEW j \in PJob, NEW r, Wait(j, r), NEW ops
  PROVE  Working(ops)' = IF r.op \in ops THEN Working(ops) \cup {j} ELSE Working(ops) \ {j}
<1>1. \A i \in PJob : pjob'[i] = IF i = j THEN r ELSE pjob[i]
  BY DEF PageShape, Wait
<1> QED
  BY <1>1 DEF Working

LEMMA WaitKeepsShape ==
  ASSUME PageShape, NEW j \in PJob, NEW r, Wait(j, r), r = [f \in JobField |-> r[f]],
         r.op = "" => r.step = "", r.op = "select" => r.step = "read",
         r.op \in {"", "select"} \cup PanelOp \cup BulkOp \cup SuiteOp,
         ui' = [f \in UiField |-> ui'[f]],
         Flags(ui') \in BOOLEAN \X BOOLEAN \X BOOLEAN \X BOOLEAN \X BOOLEAN \X BOOLEAN
  PROVE  PageShape'
<1>1. \A i \in PJob : pjob'[i] = IF i = j THEN r ELSE pjob[i]
  BY DEF PageShape, Wait
<1>2. pjob' = [i \in PJob |-> pjob'[i]]
  BY DEF PageShape, Wait
<1>3. \A i \in PJob : pjob'[i] = [f \in JobField |-> pjob'[i][f]]
  <2>1. \A i \in PJob : pjob[i] = [f \in JobField |-> pjob[i][f]]
    BY DEF PageShape
  <2> QED
    BY <1>1, <2>1, ZenonT(60)
<1>4. \A i \in PJob : /\ pjob'[i].op = "" => pjob'[i].step = ""
                      /\ pjob'[i].op = "select" => pjob'[i].step = "read"
                      /\ pjob'[i].op \in {"", "select"} \cup PanelOp \cup BulkOp \cup SuiteOp
  BY <1>1, ZenonT(60) DEF PageShape
<1> QED
  BY <1>2, <1>3, <1>4, Zenon DEF PageShape

\* The ways a step meets the flags: the page alone changes, a handler begins, goes on or ends.
Hooked(u) == u = [f \in UiField |-> u[f]]
JobRow(r) == /\ r = [f \in JobField |-> r[f]]
             /\ r.op = "" => r.step = ""
             /\ r.op = "select" => r.step = "read"
             /\ r.op \in {"", "select"} \cup PanelOp \cup BulkOp \cup SuiteOp

Looks == Hooked(ui') /\ Flags(ui') = Flags(ui) /\ UNCHANGED pjob

Begins(j, r) ==
  /\ Hooked(ui') /\ JobRow(r) /\ Wait(j, r)
  /\ pjob[j].op = ""
  /\ Flags(ui') = <<ui.saving \/ r.op \in PanelOp, ui.bulkSaving \/ r.op \in BulkOp, ui.selecting \/ r.op = "select",
                    ui.creating \/ r.op = "add suite", ui.renaming \/ r.op = "rename suite",
                    ui.deleting \/ r.op = "delete suite">>
  /\ r.op \in PanelOp => ~ui.saving
  /\ r.op \in BulkOp => ~ui.bulkSaving
  /\ r.op = "select" => ~ui.selecting
  /\ r.op = "add suite" => ~ui.creating
  /\ r.op = "rename suite" => ~ui.renaming
  /\ r.op = "delete suite" => ~ui.deleting

GoesOn(j, r) == Hooked(ui') /\ JobRow(r) /\ Wait(j, r) /\ Flags(ui') = Flags(ui) /\ r.op = pjob[j].op

Finishes(j) ==
  /\ Hooked(ui') /\ EndJob(j)
  /\ LET op == pjob[j].op IN
     Flags(ui') = <<ui.saving /\ op \notin PanelOp, ui.bulkSaving /\ op \notin BulkOp, ui.selecting /\ op /= "select",
                    ui.creating /\ op /= "add suite", ui.renaming /\ op /= "rename suite",
                    ui.deleting /\ op /= "delete suite">>

LEMMA ReadyRow == JobRow(Ready) /\ Ready.op = ""
BY DEF JobRow, JobField, Ready

LEMMA LooksKeeps == PageInv /\ Looks => PageInv'
<1> SUFFICES ASSUME PageInv, Looks PROVE PageInv'
  OBVIOUS
<1>1. PageShape'
  BY DEF PageInv, PageShape, Looks, Hooked
<1>2. \A ops : Working(ops)' = Working(ops)
  BY DEF Looks, Working
<1>3. FlagsTell'
  BY <1>2 DEF PageInv, FlagsTell, OneFor, Looks, Flags
<1> QED
  BY <1>1, <1>3 DEF PageInv

\* One flag through the beginning, the going on and the end of a handler.
LEMMA FlagRaised ==
  ASSUME PageInv, NEW j \in PJob, NEW r, Begins(j, r), NEW flag \in BOOLEAN, NEW ops, "" \notin ops,
         OneFor(flag, ops), r.op \in ops => ~flag
  PROVE  /\ flag \/ r.op \in ops => \E i \in PJob : Working(ops)' = {i}
         /\ ~(flag \/ r.op \in ops) => Working(ops)' = {}
<1>1. Working(ops)' = IF r.op \in ops THEN Working(ops) \cup {j} ELSE Working(ops) \ {j}
  BY WorkingAfter DEF PageInv, Begins
<1>2. j \notin Working(ops)
  BY DEF Begins, Working
<1> QED
  BY <1>1, <1>2 DEF OneFor

LEMMA FlagKept ==
  ASSUME PageInv, NEW j \in PJob, NEW r, GoesOn(j, r), NEW ops
  PROVE  Working(ops)' = Working(ops)
<1>1. Working(ops)' = IF r.op \in ops THEN Working(ops) \cup {j} ELSE Working(ops) \ {j}
  BY WorkingAfter DEF PageInv, GoesOn
<1> QED
  BY <1>1 DEF GoesOn, Working

LEMMA FlagLowered ==
  ASSUME PageInv, NEW j \in PJob, Finishes(j), NEW flag \in BOOLEAN, NEW ops, "" \notin ops, OneFor(flag, ops)
  PROVE  /\ flag /\ pjob[j].op \notin ops => \E i \in PJob : Working(ops)' = {i}
         /\ ~(flag /\ pjob[j].op \notin ops) => Working(ops)' = {}
<1>0. Wait(j, Ready) /\ PageShape
  BY DEF PageInv, Finishes, EndJob
<1>1. Working(ops)' = Working(ops) \ {j}
  <2>1. Working(ops)' = IF Ready.op \in ops THEN Working(ops) \cup {j} ELSE Working(ops) \ {j}
    BY <1>0, WorkingAfter
  <2> QED
    BY <2>1, ReadyRow
<1>2. j \in Working(ops) <=> pjob[j].op \in ops
  BY DEF Working
<1> QED
  BY <1>1, <1>2 DEF OneFor

LEMMA BeginsKeeps ==
  ASSUME PageInv, NEW j \in PJob, NEW r, Begins(j, r)
  PROVE  PageInv'
<1>1. /\ ui.saving \in BOOLEAN /\ ui.bulkSaving \in BOOLEAN /\ ui.selecting \in BOOLEAN
      /\ ui.creating \in BOOLEAN /\ ui.renaming \in BOOLEAN /\ ui.deleting \in BOOLEAN
  BY DEF PageInv, PageShape, Flags
<1>3. /\ ui'.saving = (ui.saving \/ r.op \in PanelOp)
      /\ ui'.bulkSaving = (ui.bulkSaving \/ r.op \in BulkOp)
      /\ ui'.selecting = (ui.selecting \/ r.op \in {"select"})
      /\ ui'.creating = (ui.creating \/ r.op \in {"add suite"})
      /\ ui'.renaming = (ui.renaming \/ r.op \in {"rename suite"})
      /\ ui'.deleting = (ui.deleting \/ r.op \in {"delete suite"})
  BY DEF Begins, Flags
<1>2. PageShape'
  <2>1. Flags(ui') \in BOOLEAN \X BOOLEAN \X BOOLEAN \X BOOLEAN \X BOOLEAN \X BOOLEAN
    <3>1. /\ ui'.saving \in BOOLEAN /\ ui'.bulkSaving \in BOOLEAN /\ ui'.selecting \in BOOLEAN
          /\ ui'.creating \in BOOLEAN /\ ui'.renaming \in BOOLEAN /\ ui'.deleting \in BOOLEAN
      BY <1>1, <1>3
    <3> QED
      BY <3>1 DEF Flags
  <2> QED
    BY <2>1, WaitKeepsShape DEF PageInv, Begins, Hooked, JobRow
<1>e. "" \notin PanelOp /\ "" \notin BulkOp
  BY DEF PanelOp, BulkOp
<1>f. /\ r.op \in PanelOp => ~ui.saving
      /\ r.op \in BulkOp => ~ui.bulkSaving
  BY DEF Begins
<1>g. OneFor(ui.saving, PanelOp) /\ OneFor(ui.bulkSaving, BulkOp)
  BY DEF PageInv, FlagsTell
<1>4. OneFor(ui.saving, PanelOp)'
  BY <1>1, <1>3, <1>e, <1>f, <1>g, FlagRaised, ZenonT(60) DEF OneFor
<1>5. OneFor(ui.bulkSaving, BulkOp)'
  BY <1>1, <1>3, <1>e, <1>f, <1>g, FlagRaised, ZenonT(60) DEF OneFor
<1>6. OneFor(ui.selecting, {"select"})'
  BY <1>1, <1>3, FlagRaised, ZenonT(60) DEF PageInv, FlagsTell, Begins, OneFor
<1>7. OneFor(ui.creating, {"add suite"})'
  BY <1>1, <1>3, FlagRaised, ZenonT(60) DEF PageInv, FlagsTell, Begins, OneFor
<1>8. OneFor(ui.renaming, {"rename suite"})'
  BY <1>1, <1>3, FlagRaised, ZenonT(60) DEF PageInv, FlagsTell, Begins, OneFor
<1>9. OneFor(ui.deleting, {"delete suite"})'
  BY <1>1, <1>3, FlagRaised, ZenonT(60) DEF PageInv, FlagsTell, Begins, OneFor
<1> QED
  BY <1>2, <1>4, <1>5, <1>6, <1>7, <1>8, <1>9 DEF PageInv, FlagsTell

LEMMA GoesOnKeeps ==
  ASSUME PageInv, NEW j \in PJob, NEW r, GoesOn(j, r)
  PROVE  PageInv'
<1>1. PageShape'
  <2>1. Flags(ui') \in BOOLEAN \X BOOLEAN \X BOOLEAN \X BOOLEAN \X BOOLEAN \X BOOLEAN
    BY DEF GoesOn, PageInv, PageShape
  <2> QED
    BY <2>1, WaitKeepsShape DEF PageInv, GoesOn, Hooked, JobRow
<1>2. \A ops : Working(ops)' = Working(ops)
  BY FlagKept
<1>3. FlagsTell'
  BY <1>2 DEF PageInv, FlagsTell, OneFor, GoesOn, Flags
<1> QED
  BY <1>1, <1>3 DEF PageInv

LEMMA FinishesKeeps ==
  ASSUME PageInv, NEW j \in PJob, Finishes(j)
  PROVE  PageInv'
<1>1. /\ ui.saving \in BOOLEAN /\ ui.bulkSaving \in BOOLEAN /\ ui.selecting \in BOOLEAN
      /\ ui.creating \in BOOLEAN /\ ui.renaming \in BOOLEAN /\ ui.deleting \in BOOLEAN
  BY DEF PageInv, PageShape, Flags
<1> DEFINE op == pjob[j].op
<1>3. /\ ui'.saving = (ui.saving /\ op \notin PanelOp)
      /\ ui'.bulkSaving = (ui.bulkSaving /\ op \notin BulkOp)
      /\ ui'.selecting = (ui.selecting /\ op \notin {"select"})
      /\ ui'.creating = (ui.creating /\ op \notin {"add suite"})
      /\ ui'.renaming = (ui.renaming /\ op \notin {"rename suite"})
      /\ ui'.deleting = (ui.deleting /\ op \notin {"delete suite"})
  BY DEF Finishes, Flags
<1>2. PageShape'
  <2>1. Flags(ui') \in BOOLEAN \X BOOLEAN \X BOOLEAN \X BOOLEAN \X BOOLEAN \X BOOLEAN
    <3>1. /\ ui'.saving \in BOOLEAN /\ ui'.bulkSaving \in BOOLEAN /\ ui'.selecting \in BOOLEAN
          /\ ui'.creating \in BOOLEAN /\ ui'.renaming \in BOOLEAN /\ ui'.deleting \in BOOLEAN
      BY <1>1, <1>3
    <3> QED
      BY <3>1 DEF Flags
  <2>2. Wait(j, Ready) /\ Hooked(ui')
    BY DEF Finishes, EndJob
  <2> QED
    BY <2>1, <2>2, ReadyRow, WaitKeepsShape DEF PageInv, Hooked, JobRow
<1>e. "" \notin PanelOp /\ "" \notin BulkOp
  BY DEF PanelOp, BulkOp
<1>4. OneFor(ui.saving, PanelOp)'
  BY <1>1, <1>3, <1>e, FlagLowered, ZenonT(60) DEF PageInv, FlagsTell, OneFor
<1>5. OneFor(ui.bulkSaving, BulkOp)'
  BY <1>1, <1>3, <1>e, FlagLowered, ZenonT(60) DEF PageInv, FlagsTell, OneFor
<1>6. OneFor(ui.selecting, {"select"})'
  BY <1>1, <1>3, FlagLowered DEF PageInv, FlagsTell, OneFor
<1>7. OneFor(ui.creating, {"add suite"})'
  BY <1>1, <1>3, FlagLowered, ZenonT(60) DEF PageInv, FlagsTell, OneFor
<1>8. OneFor(ui.renaming, {"rename suite"})'
  BY <1>1, <1>3, FlagLowered DEF PageInv, FlagsTell, OneFor
<1>9. OneFor(ui.deleting, {"delete suite"})'
  BY <1>1, <1>3, FlagLowered, ZenonT(60) DEF PageInv, FlagsTell, OneFor
<1> QED
  BY <1>2, <1>4, <1>5, <1>6, <1>7, <1>8, <1>9 DEF PageInv, FlagsTell

LEMMA FilterLooks ==
  ASSUME PageInv, NEW u, u = [f \in UiField |-> u[f]], Flags(u) = Flags(ui), FilteredCases(u)
  PROVE  Hooked(ui') /\ Flags(ui') = Flags(ui)
BY DEF FilteredCases, Hooked, Flags, UiField

LEMMA ListLooks ==
  ASSUME PageInv
  PROVE  /\ \A s : SelectSuite(s) => Looks
         /\ \A st : SetStatusFilter(st) => Looks
         /\ clearSuiteFilters => Looks
         /\ \A p, size : TurnPage(p, size) => Looks
         /\ \A q : loadSelectedSuiteCases(q) => Looks
<1>0. Hooked(ui) /\ DOMAIN ui = UiField
  BY DEF PageInv, PageShape, Hooked
<1>1. ASSUME NEW s, SelectSuite(s) PROVE Looks
  <2> DEFINE u == [ui EXCEPT !.suite = s]
  <2>1. u = [f \in UiField |-> u[f]] /\ Flags(u) = Flags(ui)
    BY <1>0 DEF Flags, UiField, Hooked
  <2>2. FilteredCases(u) /\ UNCHANGED pjob
    BY <1>1 DEF SelectSuite
  <2> HIDE DEF u
  <2> QED
    BY <2>1, <2>2, FilterLooks DEF Looks
<1>2. ASSUME NEW st, SetStatusFilter(st) \/ (clearSuiteFilters /\ st = "all") PROVE Looks
  <2> DEFINE u == [ui EXCEPT !.status = st]
  <2>1. u = [f \in UiField |-> u[f]] /\ Flags(u) = Flags(ui)
    BY <1>0 DEF Flags, UiField, Hooked
  <2>2. FilteredCases(u) /\ UNCHANGED pjob
    BY <1>2 DEF SetStatusFilter, clearSuiteFilters
  <2> HIDE DEF u
  <2> QED
    BY <2>1, <2>2, FilterLooks DEF Looks
<1>3. ASSUME NEW p, NEW size, TurnPage(p, size) PROVE Looks
  BY <1>0, <1>3, ZenonT(60) DEF TurnPage, Looks, Hooked, Flags, UiField
<1>4. ASSUME NEW q, loadSelectedSuiteCases(q) PROVE Looks
  <2>1. ui' \in {Shown(ui, q), NotShown(ui)} /\ UNCHANGED pjob
    BY <1>4 DEF loadSelectedSuiteCases
  <2> QED
    BY <1>0, <2>1, ZenonT(60) DEF Shown, NotShown, Looks, Hooked, Flags, UiField
<1> QED
  BY <1>1, <1>2, <1>3, <1>4

LEMMA ClickLooks ==
  ASSUME PageInv,
         \/ \E c : toggleCaseSelection(c) \/ openViewPanel(c) \/ DetailsArrive(c) \/ imported(c)
         \/ toggleSelectAllCases \/ clearSelection
         \/ openBulkActionModal \/ closeBulkActionModal
         \/ \E s : openCreatePanel(s)
         \/ closePanel
         \/ \E s, st : EditForm(s, st)
         \/ \E d, s : openSuiteDialog(d, s)
         \/ closeSuiteDialog
  PROVE  Looks
<1>0. Hooked(ui) /\ DOMAIN ui = UiField
  BY DEF PageInv, PageShape, Hooked
<1> USE DEF Looks, Hooked, Flags, UiField
<1>1. CASE \E c : toggleCaseSelection(c)
  BY <1>0, <1>1 DEF toggleCaseSelection
<1>2. CASE \E c : openViewPanel(c)
  BY <1>0, <1>2 DEF openViewPanel, Opened
<1>3. CASE \E c : DetailsArrive(c)
  BY <1>0, <1>3, ZenonT(60) DEF DetailsArrive, Arrived
<1>4. CASE \E c : imported(c)
  BY <1>0, <1>4, ZenonT(60) DEF imported
<1>5. CASE toggleSelectAllCases
  BY <1>0, <1>5 DEF toggleSelectAllCases
<1>6. CASE clearSelection
  BY <1>0, <1>6, SMTT(60) DEF clearSelection
<1>7. CASE openBulkActionModal \/ closeBulkActionModal
  BY <1>0, <1>7 DEF openBulkActionModal, closeBulkActionModal
<1>8. CASE \E s : openCreatePanel(s)
  BY <1>0, <1>8, ZenonT(60) DEF openCreatePanel
<1>9. CASE closePanel
  BY <1>0, <1>9 DEF closePanel
<1>10. CASE \E s, st : EditForm(s, st)
  BY <1>0, <1>10, ZenonT(60) DEF EditForm
<1>11. CASE \E d, s : openSuiteDialog(d, s)
  BY <1>0, <1>11, ZenonT(60) DEF openSuiteDialog
<1>12. CASE closeSuiteDialog
  BY <1>0, <1>12 DEF closeSuiteDialog
<1> QED
  BY <1>1, <1>2, <1>3, <1>4, <1>5, <1>6, <1>7, <1>8, <1>9, <1>10, <1>11, <1>12

LEMMA PageHandlerBegins ==
  ASSUME PageInv, NEW j \in PJob, pjob[j].op = "",
         \/ selectAllMatchingCases(j)
         \/ \E op \in BulkOp : \E s : handleBulkActionConfirm(j, op, s)
         \/ \E op \in PanelOp : handlePanelSubmit(j, op) \/ handlePanelAction(j, op)
         \/ \E mode : confirmSuiteDialog(j, mode)
  PROVE  \E r : Begins(j, r)
<1>0. Hooked(ui) /\ DOMAIN ui = UiField
  BY DEF PageInv, PageShape, Hooked
<1>b. /\ ui.saving \in BOOLEAN /\ ui.bulkSaving \in BOOLEAN /\ ui.selecting \in BOOLEAN
      /\ ui.creating \in BOOLEAN /\ ui.renaming \in BOOLEAN /\ ui.deleting \in BOOLEAN
  BY DEF PageInv, PageShape, Flags
<1>1. CASE selectAllMatchingCases(j)
  <2> DEFINE r == [Ready EXCEPT !.op = "select", !.step = "read", !.q = Query]
  <2>1. JobRow(r) /\ r.op = "select"
    BY DEF JobRow, JobField, Ready
  <2>2. Wait(j, r) /\ ~ui.selecting /\ ui' = [ui EXCEPT !.selecting = TRUE, !.error = FALSE]
    BY <1>1 DEF selectAllMatchingCases
  <2> HIDE DEF r
  <2>3. Hooked(ui')
    BY <1>0, <2>2 DEF Hooked, UiField
  <2>4. Flags(ui') = <<ui.saving, ui.bulkSaving, TRUE, ui.creating, ui.renaming, ui.deleting>>
    BY <1>0, <2>2 DEF Flags, UiField
  <2>5. Begins(j, r)
    BY <1>b, <2>1, <2>2, <2>3, <2>4 DEF Begins, PanelOp, BulkOp
  <2> QED BY <2>5
<1>2. ASSUME NEW op \in BulkOp, NEW s, handleBulkActionConfirm(j, op, s) PROVE \E r : Begins(j, r)
  <2> DEFINE r == [Ready EXCEPT !.op = op, !.step = "write", !.ids = ui.selected, !.suite = s, !.q = Query,
                           !.id = IF ui.id \in ui.selected THEN ui.id ELSE 0]
  <2>1. JobRow(r) /\ r.op = op
    BY ZenonT(60) DEF JobRow, JobField, Ready, BulkOp
  <2>2. Wait(j, r) /\ ~ui.bulkSaving /\ ui' = [ui EXCEPT !.bulkSaving = TRUE]
    BY <1>2 DEF handleBulkActionConfirm
  <2> HIDE DEF r
  <2>3. Hooked(ui')
    BY <1>0, <2>2 DEF Hooked, UiField
  <2>4. Flags(ui') = <<ui.saving, TRUE, ui.selecting, ui.creating, ui.renaming, ui.deleting>>
    BY <1>0, <2>2 DEF Flags, UiField
  <2>5. Begins(j, r)
    BY <1>b, <2>1, <2>2, <2>3, <2>4 DEF Begins, PanelOp, BulkOp
  <2> QED BY <2>5
<1>3. ASSUME NEW op \in PanelOp, NEW r, r.op = op, JobRow(r), Wait(j, r), ~ui.saving, ui' = [ui EXCEPT !.saving = TRUE]
      PROVE Begins(j, r)
  <2>3. Hooked(ui')
    BY <1>0, <1>3 DEF Hooked, UiField
  <2>4. Flags(ui') = <<TRUE, ui.bulkSaving, ui.selecting, ui.creating, ui.renaming, ui.deleting>>
    BY <1>0, <1>3 DEF Flags, UiField
  <2> QED
    BY <1>b, <1>3, <2>3, <2>4 DEF Begins, PanelOp, BulkOp
<1>4. ASSUME NEW op \in PanelOp, handlePanelSubmit(j, op) PROVE \E r : Begins(j, r)
  <2> DEFINE r == [Ready EXCEPT !.op = op, !.step = "write", !.id = ui.id, !.suite = ui.form.suite,
                           !.status = ui.form.status, !.from = ui.form.from, !.q = Query]
  <2>1. JobRow(r) /\ r.op = op
    BY ZenonT(60) DEF JobRow, JobField, Ready, PanelOp
  <2>2. Wait(j, r) /\ ~ui.saving /\ ui' = [ui EXCEPT !.saving = TRUE]
    BY <1>4 DEF handlePanelSubmit
  <2> HIDE DEF r
  <2> QED BY <1>3, <2>1, <2>2
<1>5. ASSUME NEW op \in PanelOp, handlePanelAction(j, op) PROVE \E r : Begins(j, r)
  <2> DEFINE r == [Ready EXCEPT !.op = op, !.step = "write", !.id = ui.id, !.q = Query]
  <2>1. JobRow(r) /\ r.op = op
    BY DEF JobRow, JobField, Ready, PanelOp
  <2>2. Wait(j, r) /\ ~ui.saving /\ ui' = [ui EXCEPT !.saving = TRUE]
    BY <1>5 DEF handlePanelAction
  <2> HIDE DEF r
  <2> QED BY <1>3, <2>1, <2>2
<1>6. ASSUME NEW mode, confirmSuiteDialog(j, mode) PROVE \E r : Begins(j, r)
  <2> DEFINE op == [add |-> "add suite", rename |-> "rename suite", delete |-> "delete suite"][ui.dialog]
             r == [Ready EXCEPT !.op = op, !.step = "write", !.id = ui.target, !.status = mode, !.q = Query]
  <2>0. /\ ui.dialog \in {"add", "rename", "delete"}
        /\ ~SuiteBusy[ui.dialog]
        /\ ui' = [ui EXCEPT !.creating = @ \/ ui.dialog = "add", !.renaming = @ \/ ui.dialog = "rename",
                            !.deleting = @ \/ ui.dialog = "delete"]
        /\ Wait(j, r)
    BY <1>6 DEF confirmSuiteDialog
  <2>1. /\ ui.dialog = "add" => op = "add suite" /\ ~ui.creating
        /\ ui.dialog = "rename" => op = "rename suite" /\ ~ui.renaming
        /\ ui.dialog = "delete" => op = "delete suite" /\ ~ui.deleting
    <3>1. /\ SuiteBusy["add"] = ui.creating /\ SuiteBusy["rename"] = ui.renaming
          /\ SuiteBusy["delete"] = ui.deleting
      BY DEF SuiteBusy
    <3>2. /\ ui.dialog = "add" => op = "add suite"
          /\ ui.dialog = "rename" => op = "rename suite"
          /\ ui.dialog = "delete" => op = "delete suite"
      <4> DEFINE named == [add |-> "add suite", rename |-> "rename suite", delete |-> "delete suite"]
      <4>1. named["add"] = "add suite" /\ named["rename"] = "rename suite" /\ named["delete"] = "delete suite"
        OBVIOUS
      <4>2. op = named[ui.dialog]
        OBVIOUS
      <4> HIDE DEF named, op
      <4> QED
        BY <4>1, <4>2
    <3> QED
      BY <1>b, <2>0, <3>1, <3>2
  <2> HIDE DEF op
  <2>2. JobRow(r) /\ r.op = op
    BY <2>0, <2>1 DEF JobRow, JobField, Ready, SuiteOp
  <2> HIDE DEF r
  <2>3. Hooked(ui')
    BY <1>0, <2>0, ZenonT(60) DEF Hooked, UiField
  <2>4. Flags(ui') = <<ui.saving, ui.bulkSaving, ui.selecting, ui.creating \/ op = "add suite",
                       ui.renaming \/ op = "rename suite", ui.deleting \/ op = "delete suite">>
    BY <1>0, <1>b, <2>0, <2>1 DEF Flags, UiField
  <2>5. Begins(j, r)
    BY <1>b, <2>0, <2>1, <2>2, <2>3, <2>4, ZenonT(60) DEF Begins, PanelOp, BulkOp
  <2> QED BY <2>5
<1> QED
  BY <1>1, <1>2, <1>4, <1>5, <1>6

LEMMA PageHandlerMoves ==
  ASSUME PageInv, NEW j \in PJob,
         SelectArrives(j) \/ ServerWrites(j) \/ HandlerFails(j) \/ WriteAnswered(j) \/ Refreshed(j) \/ Reopened(j)
  PROVE  Finishes(j) \/ \E r : GoesOn(j, r)
<1>0. Hooked(ui) /\ DOMAIN ui = UiField
  BY DEF PageInv, PageShape, Hooked
<1>b. /\ ui.saving \in BOOLEAN /\ ui.bulkSaving \in BOOLEAN /\ ui.selecting \in BOOLEAN
      /\ ui.creating \in BOOLEAN /\ ui.renaming \in BOOLEAN /\ ui.deleting \in BOOLEAN
  BY DEF PageInv, PageShape, Flags
<1> DEFINE op == pjob[j].op
<1>j. /\ pjob[j] = [f \in JobField |-> pjob[j][f]]
      /\ op = "" => pjob[j].step = ""
      /\ op = "select" => pjob[j].step = "read"
      /\ op \in {"", "select"} \cup PanelOp \cup BulkOp \cup SuiteOp
  BY DEF PageInv, PageShape
<1>f. JobField = {"op", "step", "id", "ids", "suite", "status", "from", "q"}
  BY DEF JobField, Ready
<1>d. ASSUME NEW u, Hooked(u), Flags(u) = Flags(ui)
      PROVE  /\ Hooked(Finally(u, op))
             /\ Flags(Finally(u, op)) =
                  <<ui.saving /\ op \notin PanelOp, ui.bulkSaving /\ op \notin BulkOp, ui.selecting,
                    ui.creating /\ op /= "add suite", ui.renaming /\ op /= "rename suite",
                    ui.deleting /\ op /= "delete suite">>
  <2>1. Hooked(Finally(u, op))
    BY <1>d, ZenonT(60) DEF Hooked, Finally, UiField
  <2> DEFINE w == Finally(u, op)
  <2>2. /\ w.saving = (u.saving /\ op \notin PanelOp)
        /\ w.bulkSaving = (u.bulkSaving /\ op \notin BulkOp)
        /\ w.selecting = u.selecting
        /\ w.creating = (u.creating /\ op /= "add suite")
        /\ w.renaming = (u.renaming /\ op /= "rename suite")
        /\ w.deleting = (u.deleting /\ op /= "delete suite")
    BY <1>d DEF Hooked, Finally, UiField
  <2> HIDE DEF w
  <2>3. /\ u.saving = ui.saving /\ u.bulkSaving = ui.bulkSaving /\ u.selecting = ui.selecting
        /\ u.creating = ui.creating /\ u.renaming = ui.renaming /\ u.deleting = ui.deleting
    BY <1>d DEF Flags
  <2> QED
    BY <2>1, <2>2, <2>3 DEF Flags, w
\* A handler that ends with the hooks u.
<1>e. ASSUME NEW u, Hooked(u), Flags(u) = Flags(ui), ui' = Finally(u, op), op /= "select", EndJob(j)
      PROVE  Finishes(j)
  BY <1>b, <1>d, <1>e, ZenonT(60) DEF Finishes
<1>1. CASE SelectArrives(j)
  <2>1. op = "select" /\ EndJob(j)
    BY <1>1 DEF SelectArrives
  <2>2. Hooked(ui') /\ Flags(ui') = <<ui.saving, ui.bulkSaving, FALSE, ui.creating, ui.renaming, ui.deleting>>
    BY <1>0, <1>1, ZenonT(60) DEF SelectArrives, Hooked, Flags, UiField
  <2> QED
    BY <1>b, <2>1, <2>2 DEF Finishes, PanelOp, BulkOp
<1>2. CASE ServerWrites(j)
  <2> DEFINE r == [pjob[j] EXCEPT !.step = "answer",
                             !.id = IF pjob[j].op \in {"create", "create-next"} THEN NewId ELSE @]
  <2>1. r.op = op /\ r.step = "answer" /\ r = [f \in JobField |-> r[f]]
    BY <1>j, <1>f
  <2>2. Wait(j, r) /\ ui' = ui /\ pjob[j].step = "write"
    BY <1>2 DEF ServerWrites
  <2> HIDE DEF r
  <2>3. JobRow(r)
    BY <1>j, <2>1, <2>2 DEF JobRow
  <2> QED
    BY <1>0, <2>1, <2>2, <2>3 DEF GoesOn
<1>3. CASE HandlerFails(j)
  <2>1. op /= "select" /\ ui' = Finally(ui, op) /\ EndJob(j)
    BY <1>3 DEF HandlerFails
  <2> QED
    BY <1>0, <1>e, <2>1
<1>4. CASE WriteAnswered(j)
  <2> DEFINE r == [pjob[j] EXCEPT !.step = "refresh",
                                 !.q.page = IF op \in {"create", "create-next"} THEN 1 ELSE @]
             done == [ui EXCEPT !.dialog = IF op \in {"add suite", "rename suite", "delete suite"} THEN "" ELSE @,
                         !.target = IF op \in {"rename suite", "delete suite"} THEN 0 ELSE @]
  <2>1. r.op = op /\ r.step = "refresh" /\ r = [f \in JobField |-> r[f]]
    BY <1>j, <1>f
  <2>2. Wait(j, r) /\ pjob[j].step = "answer"
    BY <1>4 DEF WriteAnswered
  <2>3. FilteredCases([done EXCEPT !.status = "all"]) \/ FilteredCases([done EXCEPT !.suite = All]) \/ ui' = done
    BY <1>4 DEF WriteAnswered
  <2> HIDE DEF r
  <2>4. JobRow(r)
    BY <1>j, <2>1, <2>2, ZenonT(60) DEF JobRow
  <2>5. /\ done = [f \in UiField |-> done[f]]
        /\ Flags(done) = Flags(ui)
        /\ [done EXCEPT !.status = "all"] = [f \in UiField |-> [done EXCEPT !.status = "all"][f]]
        /\ Flags([done EXCEPT !.status = "all"]) = Flags(ui)
        /\ [done EXCEPT !.suite = All] = [f \in UiField |-> [done EXCEPT !.suite = All][f]]
        /\ Flags([done EXCEPT !.suite = All]) = Flags(ui)
    BY <1>0, ZenonT(60) DEF Hooked, Flags, UiField
  <2> HIDE DEF done
  <2>6. Hooked(ui') /\ Flags(ui') = Flags(ui)
    BY <2>3, <2>5, FilterLooks DEF Hooked
  <2> QED
    BY <2>1, <2>2, <2>4, <2>6 DEF GoesOn
<1>5. CASE Refreshed(j)
  <2> DEFINE r == pjob[j]
  <2>0. r.step = "refresh" /\ op /= "select"
    BY <1>5, <1>j DEF Refreshed
  <2>1. \A u : u \in {loadData(Shown([ui EXCEPT !.error = FALSE], r.q)), loadData(NotShown(ui))}
               => Hooked(u) /\ Flags(u) = Flags(ui)
    BY <1>0, ZenonT(60) DEF loadData, Shown, NotShown, Hooked, Flags, UiField
  <2>2. PICK u \in {loadData(Shown([ui EXCEPT !.error = FALSE], r.q)), loadData(NotShown(ui))} :
           \/ ui' = Opened(u, r.id) /\ Wait(j, [r EXCEPT !.step = "open"])
           \/ EndJob(j) /\ ui' = Finally([u EXCEPT !.mode = "closed", !.id = 0,
                                               !.selected = IF r.op \in BulkOp THEN {} ELSE @,
                                               !.bulkOpen = @ /\ r.op \notin BulkOp], r.op)
           \/ EndJob(j) /\ ui' = Finally([u EXCEPT !.form = Reset(IF r.suite /= 0 THEN r.suite ELSE ui.suite)], r.op)
           \/ EndJob(j) /\ ui' = Finally([u EXCEPT !.selected = IF r.op \in BulkOp THEN {} ELSE @,
                                              !.bulkOpen = @ /\ r.op \notin BulkOp], r.op)
    <3> DEFINE reopens == \/ r.op \in {"create", "update", "archive", "unarchive"}
                          \/ r.op \in BulkOp \ {"bulk delete"} /\ r.id /= 0
               closes == r.op = "delete" \/ (r.op = "bulk delete" /\ r.id /= 0)
    <3>1. /\ \E u \in {loadData(Shown([ui EXCEPT !.error = FALSE], r.q)), loadData(NotShown(ui))} :
             ui' = CASE reopens -> Opened(u, r.id)
                     [] closes -> Finally([u EXCEPT !.mode = "closed", !.id = 0,
                                               !.selected = IF r.op \in BulkOp THEN {} ELSE @,
                                               !.bulkOpen = @ /\ r.op \notin BulkOp], r.op)
                     [] r.op = "create-next" -> Finally([u EXCEPT !.form = Reset(IF r.suite /= 0 THEN r.suite ELSE ui.suite)], r.op)
                     [] OTHER -> Finally([u EXCEPT !.selected = IF r.op \in BulkOp THEN {} ELSE @,
                                              !.bulkOpen = @ /\ r.op \notin BulkOp], r.op)
          /\ IF reopens THEN Wait(j, [r EXCEPT !.step = "open"]) ELSE EndJob(j)
      BY <1>5, Zenon DEF Refreshed
    <3>2. ~(reopens /\ closes) /\ ~(reopens /\ r.op = "create-next") /\ ~(closes /\ r.op = "create-next")
      BY DEF BulkOp
    <3> HIDE DEF reopens, closes
    <3> QED
      BY <3>1, <3>2, Zenon
  <2>3. Hooked(u) /\ Flags(u) = Flags(ui)
    BY <2>1
  <2>4. CASE ui' = Opened(u, r.id) /\ Wait(j, [r EXCEPT !.step = "open"])
    <3> DEFINE n == [r EXCEPT !.step = "open"]
    <3>1. n.op = op /\ n.step = "open" /\ n = [f \in JobField |-> n[f]]
      BY <1>j, <1>f
    <3>2. Hooked(ui') /\ Flags(ui') = Flags(ui)
      BY <2>3, <2>4, ZenonT(60) DEF Opened, Hooked, Flags, UiField
    <3>3. Wait(j, n)
      BY <2>4
    <3>4. op /= ""
      BY <1>j, <2>0
    <3> HIDE DEF n
    <3>5. JobRow(n)
      BY <1>j, <2>0, <3>1, <3>4 DEF JobRow
    <3> QED
      BY <3>1, <3>2, <3>3, <3>5 DEF GoesOn
  <2>5. ASSUME NEW w, ui' = Finally(w, op), EndJob(j),
               \/ w = [u EXCEPT !.mode = "closed", !.id = 0, !.selected = IF r.op \in BulkOp THEN {} ELSE @,
                                !.bulkOpen = @ /\ r.op \notin BulkOp]
               \/ w = [u EXCEPT !.form = Reset(IF r.suite /= 0 THEN r.suite ELSE ui.suite)]
               \/ w = [u EXCEPT !.selected = IF r.op \in BulkOp THEN {} ELSE @, !.bulkOpen = @ /\ r.op \notin BulkOp]
        PROVE  Finishes(j)
    <3>1. Hooked(w) /\ Flags(w) = Flags(ui)
      BY <2>3, <2>5, ZenonT(60) DEF Hooked, Flags, UiField
    <3> QED
      BY <1>e, <2>0, <2>5, <3>1
  <2> QED
    BY <2>2, <2>4, <2>5
<1>6. CASE Reopened(j)
  <2>0. pjob[j].step = "open" /\ op /= "select" /\ EndJob(j)
    BY <1>6, <1>j DEF Reopened
  <2>1. PICK u \in {Arrived(ui, pjob[j].id), [ui EXCEPT !.panelLoading = FALSE]} :
          ui' = Finally([u EXCEPT !.selected = IF op \in BulkOp THEN {} ELSE @, !.bulkOpen = @ /\ op \notin BulkOp], op)
    BY <1>6 DEF Reopened
  <2> DEFINE w == [u EXCEPT !.selected = IF op \in BulkOp THEN {} ELSE @, !.bulkOpen = @ /\ op \notin BulkOp]
  <2>2. Hooked(u) /\ Flags(u) = Flags(ui)
    BY <1>0, <2>1, ZenonT(60) DEF Arrived, Hooked, Flags, UiField
  <2>3. Hooked(w) /\ Flags(w) = Flags(ui)
    BY <2>2, ZenonT(60) DEF Hooked, Flags, UiField
  <2>4. ui' = Finally(w, op)
    BY <2>1
  <2> HIDE DEF w
  <2> QED
    BY <1>e, <2>0, <2>3, <2>4
<1> QED
  BY <1>1, <1>2, <1>3, <1>4, <1>5, <1>6

LEMMA NextPageInv == PageInv /\ [PageNext]_tcpVars => PageInv'
<1> SUFFICES ASSUME PageInv, [PageNext]_tcpVars PROVE PageInv'
  OBVIOUS
<1>1. CASE UNCHANGED tcpVars
  <2>1. Looks
    BY <1>1 DEF tcpVars, Looks, PageInv, PageShape, Hooked
  <2> QED
    BY <2>1, LooksKeeps
<1>2. CASE PageNext
  <2>1. \/ Looks
        \/ \E j \in PJob : \/ /\ pjob[j].op = ""
                              /\ \/ selectAllMatchingCases(j)
                                 \/ \E op \in BulkOp : \E s : handleBulkActionConfirm(j, op, s)
                                 \/ \E op \in PanelOp : handlePanelSubmit(j, op) \/ handlePanelAction(j, op)
                                 \/ \E mode : confirmSuiteDialog(j, mode)
                           \/ SelectArrives(j) \/ ServerWrites(j) \/ HandlerFails(j)
                           \/ WriteAnswered(j) \/ Refreshed(j) \/ Reopened(j)
    BY <1>2, ListLooks, ClickLooks, Zenon DEF PageNext, FreeJob
  <2> QED
    BY <2>1, LooksKeeps, PageHandlerBegins, PageHandlerMoves, BeginsKeeps, GoesOnKeeps, FinishesKeeps
<1> QED
  BY <1>1, <1>2

LEMMA OneWorking ==
  ASSUME NEW flag \in BOOLEAN, NEW ops, OneFor(flag, ops)
  PROVE  Cardinality(Working(ops)) = (IF flag THEN 1 ELSE 0)
<1>1. CASE flag
  <2>1. PICK j \in PJob : Working(ops) = {j}
    BY <1>1 DEF OneFor
  <2>2. Cardinality({j}) = 1
    BY FS_Singleton
  <2> QED
    BY <1>1, <2>1, <2>2, Zenon
<1>2. CASE ~flag
  <2>1. Working(ops) = {}
    BY <1>2 DEF OneFor
  <2>2. Cardinality({}) = 0
    BY FS_EmptySet
  <2> QED
    BY <1>2, <2>1, <2>2, Zenon
<1> QED
  BY <1>1, <1>2

LEMMA PageInvLocks == PageInv => CasePageLocks
<1> SUFFICES ASSUME PageInv PROVE CasePageLocks
  OBVIOUS
<1>1. /\ ui.saving \in BOOLEAN /\ ui.bulkSaving \in BOOLEAN /\ ui.selecting \in BOOLEAN
      /\ ui.creating \in BOOLEAN /\ ui.renaming \in BOOLEAN /\ ui.deleting \in BOOLEAN
  BY DEF PageInv, PageShape, Flags
<1>2. /\ Cardinality(Working(PanelOp)) = (IF ui.saving THEN 1 ELSE 0)
      /\ Cardinality(Working(BulkOp)) = (IF ui.bulkSaving THEN 1 ELSE 0)
      /\ Cardinality(Working({"select"})) = (IF ui.selecting THEN 1 ELSE 0)
      /\ Cardinality(Working({"add suite"})) = (IF ui.creating THEN 1 ELSE 0)
      /\ Cardinality(Working({"rename suite"})) = (IF ui.renaming THEN 1 ELSE 0)
      /\ Cardinality(Working({"delete suite"})) = (IF ui.deleting THEN 1 ELSE 0)
  BY <1>1, OneWorking DEF PageInv, FlagsTell
<1> QED
  BY <1>2 DEF CasePageLocks, Working

-----------------------------------------------------------------------------
(* The reporter.  A result that was submitted leaves a trace: its request is under way, or *)
(* its row is written, or the loss is counted; and the close waits for all of them.        *)

SubRow == [try : Nat, st : {"idle", "waiting", "evidence", "ok", "failed"}]
RunRow == [attempt : Nat, status : {"none", "stored"}]

ReporterType ==
  /\ rp \in [phase : {"idle", "resolving", "creating", "running", "draining", "closing", "done", "off", "thrown"},
             suite : PwSuite, config : {"ok", "unconfigured", "incomplete"}, ci : {"github", "local"},
             run : Nat, lost : BOOLEAN, strict : BOOLEAN, require : BOOLEAN]
  /\ sub \in [Requests -> SubRow]
  /\ wire \subseteq Requests \X Nat
  /\ pw \in [Tests -> [next : Nat \ {0}, last : Result \cup {"none"}]]
  /\ ingest \in [runs : Nat, row : [KnownCase -> RunRow]]

Stored(t) == caseIdOf(t) \in KnownCase /\ ingest.row[caseIdOf(t)].status = "stored"

\* Every attempt that has ended has its request.
AttemptsSubmitted ==
  \A t \in Tests, a \in 1..(PwRetries + 1) :
    a < pw[t].next => <<"result", t, a>> \in Requests /\ sub[<<"result", t, a>>].st /= "idle"

ResultsKept == \A q \in Requests : q[1] = "result" /\ sub[q].st \in {"ok", "evidence"} => Stored(q[2])
LossesCounted == \A q \in Requests : sub[q].st = "failed" => rp.lost
ClosedAfterAll == rp.phase \in {"closing", "done"} => \A q \in Requests : q[1] = "result" => Settled(q)

\* Before the run is open no test has ended.
NoTestBefore ==
  rp.phase \in {"idle", "resolving", "creating", "off", "thrown"} => \A t \in Tests : pw[t].next = 1
ThrownForCause == rp.phase = "thrown" => rp.config = "incomplete" \/ rp.require \/ rp.strict

ReporterInv ==
  /\ ReporterType /\ AttemptsSubmitted /\ ResultsKept /\ LossesCounted /\ ClosedAfterAll
  /\ NoTestBefore /\ ThrownForCause /\ OneRunPerSession

LEMMA RequestKinds ==
  /\ \A k \in {"resolve", "create", "close"} : <<k, 0, 0>> \in Requests
  /\ \A q \in Requests : \/ q \in {<<"resolve", 0, 0>>, <<"create", 0, 0>>, <<"close", 0, 0>>}
                         \/ q[1] = "result" /\ q[3] \in Nat
  /\ \A s \in PwSuite : \A t \in DOMAIN s, a \in 1..(PwRetries + 1) : <<"result", t, a>> \in Requests
<1>1. \A k \in {"resolve", "create", "close"} : <<k, 0, 0>> \in Requests
  BY DEF Requests
<1>2. ASSUME NEW q \in Requests
      PROVE  \/ q \in {<<"resolve", 0, 0>>, <<"create", 0, 0>>, <<"close", 0, 0>>}
             \/ q[1] = "result" /\ q[3] \in Nat
  BY ReporterAssumption DEF Requests
<1>3. ASSUME NEW s \in PwSuite, NEW t \in DOMAIN s, NEW a \in 1..(PwRetries + 1)
      PROVE  <<"result", t, a>> \in Requests
  <2>1. t \in UNION {DOMAIN u : u \in PwSuite}
    OBVIOUS
  <2> QED
    BY <2>1 DEF Requests
<1> QED
  BY <1>1, <1>2, <1>3

LEMMA InitReporter == ReporterInit => ReporterInv
<1> SUFFICES ASSUME ReporterInit PROVE ReporterInv
  OBVIOUS
<1>1. PICK config \in {"ok", "unconfigured", "incomplete"}, asks \in BOOLEAN, ci \in {"github", "local"}, s \in PwSuite :
        rp = [phase |-> "idle", suite |-> s, config |-> config, ci |-> ci, run |-> 0, lost |-> FALSE,
              strict |-> config = "ok" /\ asks, require |-> config = "unconfigured" /\ asks]
  BY DEF ReporterInit
<1>2. /\ rp.phase = "idle"
      /\ rp \in [phase : {"idle", "resolving", "creating", "running", "draining", "closing", "done", "off", "thrown"},
             suite : PwSuite, config : {"ok", "unconfigured", "incomplete"}, ci : {"github", "local"},
             run : Nat, lost : BOOLEAN, strict : BOOLEAN, require : BOOLEAN]
  <2> DEFINE strict  == config = "ok" /\ asks
             require == config = "unconfigured" /\ asks
  <2>1. strict \in BOOLEAN /\ require \in BOOLEAN
    OBVIOUS
  <2>2. rp = [phase |-> "idle", suite |-> s, config |-> config, ci |-> ci, run |-> 0, lost |-> FALSE,
              strict |-> strict, require |-> require]
    BY <1>1
  <2> HIDE DEF strict, require
  <2> QED
    BY <2>1, <2>2
<1>3. ReporterType
  BY <1>2 DEF ReporterInit, ReporterType, SubRow, RunRow, NoRow
<1>4. OneRunPerSession
  BY DEF ReporterInit, OneRunPerSession
<1> QED
  BY <1>2, <1>3, <1>4 DEF ReporterInit, ReporterInv, AttemptsSubmitted, ResultsKept, LossesCounted,
                          ClosedAfterAll, NoTestBefore, ThrownForCause

\* What a step may do to the rest while a request advances.
SameSession == rp'.suite = rp.suite /\ rp'.ci = rp.ci /\ rp'.config = rp.config
               /\ rp'.strict = rp.strict /\ rp'.require = rp.require

LEMMA CasesStay ==
  ASSUME rp'.suite = rp.suite
  PROVE  Tests' = Tests /\ \A t : caseIdOf(t)' = caseIdOf(t)
BY DEF Tests, caseIdOf, foundIds

\* A request advances: under way, or with its result, or as a counted loss.
LEMMA RequestAdvances ==
  ASSUME ReporterInv, ReporterType', SameSession, rp'.phase = rp.phase, rp.lost => rp'.lost, UNCHANGED pw,
         NEW q \in Requests, ~Settled(q), NEW s \in SubRow, sub' = [sub EXCEPT ![q] = s], s.st /= "idle",
         s.st = "failed" => rp'.lost,
         q[1] = "result" /\ s.st \in {"ok", "evidence"} => Stored(q[2])',
         \A t : Stored(t) => Stored(t)', OneRunPerSession'
  PROVE  ReporterInv'
<1>0. ReporterType /\ Tests' = Tests
  BY CasesStay DEF ReporterInv, SameSession
<1>1. \A p \in Requests : sub'[p] = IF p = q THEN s ELSE sub[p]
  BY <1>0 DEF ReporterType
<1>2. AttemptsSubmitted'
  BY <1>0, <1>1 DEF ReporterInv, AttemptsSubmitted
<1>3. ResultsKept'
  BY <1>0, <1>1 DEF ReporterInv, ResultsKept
<1>4. LossesCounted'
  BY <1>0, <1>1 DEF ReporterInv, LossesCounted
<1>5. ClosedAfterAll'
  <2>1. rp.phase \in {"closing", "done"} => q[1] /= "result"
    BY DEF ReporterInv, ClosedAfterAll
  <2> QED
    BY <1>0, <1>1, <2>1 DEF ReporterInv, ClosedAfterAll, Settled
<1>6. NoTestBefore' /\ ThrownForCause'
  BY <1>0 DEF ReporterInv, NoTestBefore, ThrownForCause, SameSession
<1> QED
  BY <1>2, <1>3, <1>4, <1>5, <1>6 DEF ReporterInv

\* The reporter moves on, with a request of its own or none.
LEMMA PhaseMoves ==
  ASSUME ReporterInv, NEW phase \in {"resolving", "creating", "running", "draining", "closing", "done", "off", "thrown"},
         NEW run \in Nat, rp' = [rp EXCEPT !.phase = phase, !.run = run], UNCHANGED <<pw, ingest>>,
         \/ UNCHANGED <<sub, wire>>
         \/ \E k \in {"resolve", "create", "close"} : sub' = Sent(<<k, 0, 0>>) /\ wire' = OnWire(<<k, 0, 0>>, 1),
         phase \in {"resolving", "creating", "off", "thrown"} => rp.phase \in {"idle", "resolving", "creating"},
         phase = "thrown" => rp.config = "incomplete" \/ rp.require \/ rp.strict,
         phase \in {"closing", "done"} => \A q \in Requests : q[1] = "result" => Settled(q)
  PROVE  ReporterInv'
<1>0. ReporterType
  BY DEF ReporterInv
<1>1. /\ SameSession /\ rp'.phase = phase /\ rp'.lost = rp.lost /\ rp'.suite = rp.suite
      /\ rp' \in [phase : {"idle", "resolving", "creating", "running", "draining", "closing", "done", "off", "thrown"},
             suite : PwSuite, config : {"ok", "unconfigured", "incomplete"}, ci : {"github", "local"},
             run : Nat, lost : BOOLEAN, strict : BOOLEAN, require : BOOLEAN]
  BY <1>0 DEF ReporterType, SameSession
<1>2. Tests' = Tests /\ \A t : Stored(t)' <=> Stored(t)
  BY <1>1, CasesStay DEF Stored
<1>3. \A q \in Requests : \/ sub'[q] = sub[q]
                          \/ q[1] \in {"resolve", "create", "close"} /\ sub'[q] = [try |-> 1, st |-> "waiting"]
  BY <1>0 DEF ReporterType, Sent
<1>4. ReporterType'
  <2>1. sub' \in [Requests -> SubRow] /\ wire' \subseteq Requests \X Nat
    <3>1. CASE UNCHANGED <<sub, wire>>
      BY <1>0, <3>1 DEF ReporterType
    <3>2. ASSUME NEW k \in {"resolve", "create", "close"}, sub' = Sent(<<k, 0, 0>>), wire' = OnWire(<<k, 0, 0>>, 1)
          PROVE  sub' \in [Requests -> SubRow] /\ wire' \subseteq Requests \X Nat
      <4> DEFINE q == <<k, 0, 0>>
      <4>1. q \in Requests
        BY RequestKinds
      <4> HIDE DEF q
      <4>2. sub \in [Requests -> SubRow] /\ wire \subseteq Requests \X Nat
        BY <1>0, Zenon DEF ReporterType
      <4>3. [try |-> 1, st |-> "waiting"] \in SubRow
        BY ONLY DEF SubRow
      <4>4. sub' = [sub EXCEPT ![q] = [try |-> 1, st |-> "waiting"]]
        BY ONLY <3>2, Zenon DEF Sent, q
      <4>5. sub' \in [Requests -> SubRow]
        BY ONLY <4>1, <4>2, <4>3, <4>4
      <4>6. wire' = wire \cup {<<q, 1>>}
        BY ONLY <3>2, Zenon DEF OnWire, q
      <4>7. wire' \subseteq Requests \X Nat
        BY ONLY <4>1, <4>2, <4>6
      <4> QED
        BY ONLY <4>5, <4>7
    <3> QED
      BY <3>1, <3>2
  <2> QED
    BY <1>0, <1>1, <1>2, <2>1 DEF ReporterType
<1>5. AttemptsSubmitted'
  BY <1>2, <1>3 DEF ReporterInv, AttemptsSubmitted
<1>6. ResultsKept' /\ LossesCounted'
  BY <1>1, <1>2, <1>3 DEF ReporterInv, ResultsKept, LossesCounted
<1>7. ClosedAfterAll'
  BY <1>1, <1>3 DEF ReporterInv, ClosedAfterAll, Settled
<1>8. NoTestBefore' /\ ThrownForCause'
  BY <1>1, <1>2 DEF ReporterInv, NoTestBefore, ThrownForCause, SameSession
<1>9. OneRunPerSession'
  BY <1>1 DEF ReporterInv, OneRunPerSession, SameSession
<1> QED
  BY <1>4, <1>5, <1>6, <1>7, <1>8, <1>9 DEF ReporterInv

LEMMA SessionSteps ==
  ASSUME ReporterInv, onBegin \/ casesResolved \/ runCreated \/ onEnd \/ drained \/ summarised
  PROVE  ReporterInv'
<1>0. ReporterType /\ rp.run \in Nat /\ ingest.runs \in Nat /\ rp = [rp EXCEPT !.run = rp.run]
  BY DEF ReporterInv, ReporterType
<1>1. ASSUME NEW phase \in {"resolving", "creating", "running", "draining", "closing", "done", "off", "thrown"},
             rp' = [rp EXCEPT !.phase = phase]
      PROVE  rp' = [rp EXCEPT !.phase = phase, !.run = rp.run]
  BY <1>0, <1>1 DEF ReporterType
<1>2. CASE onBegin
  <2>1. /\ rp.phase = "idle" /\ UNCHANGED <<pw, ingest>>
        /\ \/ /\ rp.config = "incomplete" \/ rp.require \/ rp.strict
              /\ rp' = [rp EXCEPT !.phase = "thrown"] /\ UNCHANGED <<sub, wire>>
           \/ rp' = [rp EXCEPT !.phase = "off"] /\ UNCHANGED <<sub, wire>>
           \/ /\ rp' = [rp EXCEPT !.phase = "resolving"]
              /\ sub' = Sent(<<"resolve", 0, 0>>) /\ wire' = OnWire(<<"resolve", 0, 0>>, 1)
    BY <1>2 DEF onBegin
  <2> QED
    BY <1>0, <1>1, <2>1, PhaseMoves
<1>3. CASE casesResolved
  <2>1. /\ rp.phase = "resolving" /\ UNCHANGED <<pw, ingest>>
        /\ \/ rp.strict /\ rp' = [rp EXCEPT !.phase = "thrown"] /\ UNCHANGED <<sub, wire>>
           \/ /\ rp' = [rp EXCEPT !.phase = "creating"]
              /\ sub' = Sent(<<"create", 0, 0>>) /\ wire' = OnWire(<<"create", 0, 0>>, 1)
    BY <1>3 DEF casesResolved
  <2> QED
    BY <1>0, <1>1, <2>1, PhaseMoves
<1>4. CASE runCreated
  <2> DEFINE ok == sub[<<"create", 0, 0>>].st = "ok"
             phase == IF ok THEN "running" ELSE "off"
             run == IF ok THEN ingest.runs ELSE 0
  <2>1. /\ rp.phase = "creating" /\ UNCHANGED <<sub, wire, pw, ingest>>
        /\ rp' = [rp EXCEPT !.phase = phase, !.run = run]
    BY <1>4 DEF runCreated
  <2>2. phase \in {"running", "off"} /\ run \in Nat
    BY <1>0
  <2> HIDE DEF phase, run
  <2> QED
    BY <2>1, <2>2, PhaseMoves
<1>5. CASE onEnd
  BY <1>0, <1>1, <1>5, PhaseMoves DEF onEnd
<1>6. CASE drained
  BY <1>0, <1>1, <1>6, PhaseMoves DEF drained
<1>7. CASE summarised
  <2>1. \A q \in Requests : q[1] = "result" => Settled(q)
    BY <1>7 DEF summarised, ReporterInv, ClosedAfterAll
  <2> QED
    BY <1>0, <1>1, <1>7, <2>1, PhaseMoves DEF summarised
<1> QED
  BY <1>2, <1>3, <1>4, <1>5, <1>6, <1>7

LEMMA onTestEndKeeps ==
  ASSUME ReporterInv, NEW t \in Tests, onTestEnd(t)
  PROVE  ReporterInv'
<1> DEFINE n == pw[t].next
           q == <<"result", t, n>>
<1>1. /\ rp.phase = "running" /\ UNCHANGED <<rp, ingest>> /\ n <= PwRetries + 1
      /\ sub' = [sub EXCEPT ![q] = [try |-> 1, st |-> "waiting"]] /\ wire' = wire \cup {<<q, 1>>}
  BY DEF onTestEnd, Sent, OnWire
<1>2. PICK r \in Result : pw' = [pw EXCEPT ![t] = [next |-> n + 1, last |-> r]]
  BY DEF onTestEnd
<1>3. ReporterType /\ n \in Nat \ {0}
  BY DEF ReporterInv, ReporterType
<1>4. q \in Requests
  BY <1>1, <1>3, RequestKinds, ReporterAssumption DEF ReporterType, Tests
<1>5. Tests' = Tests /\ \A u : Stored(u)' <=> Stored(u)
  BY <1>1, CasesStay DEF Stored
<1>6. \A u \in Tests : pw'[u].next = IF u = t THEN n + 1 ELSE pw[u].next
  BY <1>2, <1>3 DEF ReporterType
<1>7. q[1] = "result"
  OBVIOUS
<1>8. \A u \in Tests, a \in 1..(PwRetries + 1) : u /= t \/ a /= n => <<"result", u, a>> /= q
  OBVIOUS
<1>9. \A u \in Tests : u = t => <<"result", u, n>> = q
  OBVIOUS
<1>t. pw' \in [Tests -> [next : Nat \ {0}, last : Result \cup {"none"}]]
  BY <1>2, <1>3 DEF ReporterType
<1> HIDE DEF q
<1>10. \A p \in Requests : sub'[p] = IF p = q THEN [try |-> 1, st |-> "waiting"] ELSE sub[p]
  BY <1>1, <1>3 DEF ReporterType
<1> HIDE DEF n
<1>11. ReporterType'
  BY <1>1, <1>3, <1>4, <1>5, <1>t DEF ReporterType, SubRow
<1>12. AttemptsSubmitted'
  <2> SUFFICES ASSUME NEW u \in Tests, NEW a \in 1..(PwRetries + 1), a < pw'[u].next
               PROVE  <<"result", u, a>> \in Requests /\ sub'[<<"result", u, a>>].st /= "idle"
    BY <1>5 DEF AttemptsSubmitted
  <2>1. CASE u = t /\ a = n
    BY <1>4, <1>9, <1>10, <2>1
  <2>2. CASE ~(u = t /\ a = n)
    <3>1. pw[u].next \in Nat /\ (u = t => pw[u].next = n)
      BY <1>3 DEF ReporterType, n
    <3>2. a < pw[u].next
      BY <1>6, <2>2, <3>1
    <3>3. <<"result", u, a>> \in Requests /\ sub[<<"result", u, a>>].st /= "idle"
      BY <3>2 DEF ReporterInv, AttemptsSubmitted
    <3> QED
      BY <1>8, <1>10, <2>2, <3>3
  <2> QED
    BY <2>1, <2>2
<1>13. ResultsKept' /\ LossesCounted'
  BY <1>1, <1>5, <1>10 DEF ReporterInv, ResultsKept, LossesCounted
<1>14. ClosedAfterAll' /\ NoTestBefore' /\ ThrownForCause' /\ OneRunPerSession'
  BY <1>1 DEF ReporterInv, ClosedAfterAll, NoTestBefore, ThrownForCause, OneRunPerSession
<1> QED
  BY <1>11, <1>12, <1>13, <1>14 DEF ReporterInv

LEMMA FailsKeeps ==
  ASSUME ReporterInv, NEW q \in Requests, sub[q].st = "waiting", NEW transient \in BOOLEAN,
         NEW left \in SUBSET wire, Fails(q, transient, left), UNCHANGED <<pw, ingest>>
  PROVE  ReporterInv'
<1>0. ReporterType /\ sub[q] \in SubRow /\ sub[q].try \in Nat /\ ~Settled(q)
  BY DEF ReporterInv, ReporterType, SubRow, Settled
<1>1. CASE UNCHANGED rp /\ sub' = [sub EXCEPT ![q].try = @ + 1] /\ wire' = left \cup {<<q, sub[q].try + 1>>}
  <2> DEFINE s == [sub[q] EXCEPT !.try = @ + 1]
  <2>1. s \in SubRow /\ s.st = "waiting" /\ sub' = [sub EXCEPT ![q] = s]
    BY <1>0, <1>1 DEF SubRow
  <2> HIDE DEF s
  <2>2. SameSession /\ Tests' = Tests /\ \A t : Stored(t)' <=> Stored(t)
    BY <1>1, CasesStay DEF SameSession, Stored
  <2>3. ReporterType'
    BY <1>0, <1>1, <2>1, <2>2 DEF ReporterType
  <2>4. OneRunPerSession'
    BY <1>1 DEF ReporterInv, OneRunPerSession
  <2> QED
    BY <1>0, <1>1, <2>1, <2>2, <2>3, <2>4, RequestAdvances
<1>2. CASE sub' = [sub EXCEPT ![q].st = "failed"] /\ wire' = left /\ rp' = [rp EXCEPT !.lost = TRUE]
  <2> DEFINE s == [sub[q] EXCEPT !.st = "failed"]
  <2>1. s \in SubRow /\ s.st = "failed" /\ sub' = [sub EXCEPT ![q] = s]
    BY <1>0, <1>2 DEF SubRow
  <2> HIDE DEF s
  <2>2. SameSession /\ rp'.phase = rp.phase /\ rp'.lost
    BY <1>0, <1>2 DEF ReporterType, SameSession
  <2>3. Tests' = Tests /\ \A t : Stored(t)' <=> Stored(t)
    BY <2>2, CasesStay DEF SameSession, Stored
  <2>4. ReporterType'
    BY <1>0, <1>2, <2>1, <2>3 DEF ReporterType
  <2>5. OneRunPerSession'
    BY <2>2 DEF ReporterInv, OneRunPerSession, SameSession
  <2> QED
    BY <1>0, <2>1, <2>2, <2>3, <2>4, <2>5, RequestAdvances
<1> QED
  BY <1>1, <1>2 DEF Fails

LEMMA servedKeeps ==
  ASSUME ReporterInv, NEW m \in wire, served(m)
  PROVE  ReporterInv'
<1> DEFINE q == m[1]
           c == caseIdOf(q[2])
           row == [attempt |-> q[3], status |-> "stored"]
<1>0. ReporterType /\ q \in Requests
  BY DEF ReporterInv, ReporterType
<1>1. UNCHANGED pw /\ wire' = wire \ {m}
  BY DEF served
<1>2. \/ UNCHANGED <<sub, rp>>
      \/ /\ sub[q].st = "waiting" /\ ~(q[1] = "result" /\ c \notin KnownCase) /\ UNCHANGED rp
         /\ \/ sub' = [sub EXCEPT ![q].st = "evidence"] 
            \/ sub' = [sub EXCEPT ![q].st = "ok"]
      \/ /\ sub[q].st = "waiting" /\ sub' = [sub EXCEPT ![q].st = "failed"] /\ rp' = [rp EXCEPT !.lost = TRUE]
  BY Zenon DEF served
<1>3. \/ q[1] = "create" /\ ingest' = [ingest EXCEPT !.runs = IF externalId(rp.ci) /\ @ > 0 THEN @ ELSE @ + 1]
      \/ q[1] = "result" /\ c \in KnownCase /\ ingest' = [ingest EXCEPT !.row[c] = row]
      \/ ~(q[1] = "result" /\ c \in KnownCase) /\ UNCHANGED ingest
  BY DEF served, Applied
<1>4. q[1] = "result" => row \in RunRow
  BY <1>0, RequestKinds DEF RunRow
<1>s. row.status = "stored"
  OBVIOUS
<1> HIDE DEF q, c, row
<1>5. /\ ingest' \in [runs : Nat, row : [KnownCase -> RunRow]]
      /\ \A d \in KnownCase : ingest.row[d].status = "stored" => ingest'.row[d].status = "stored"
      /\ externalId(rp.ci) => ingest'.runs <= 1
      /\ q[1] = "result" /\ c \in KnownCase => ingest'.row[c].status = "stored"
  <2>0. ingest \in [runs : Nat, row : [KnownCase -> RunRow]] /\ (externalId(rp.ci) => ingest.runs <= 1)
    BY <1>0 DEF ReporterType, ReporterInv, OneRunPerSession
  <2>1. CASE q[1] = "create" /\ ingest' = [ingest EXCEPT !.runs = IF externalId(rp.ci) /\ @ > 0 THEN @ ELSE @ + 1]
    BY <2>0, <2>1
  <2>2. CASE q[1] = "result" /\ c \in KnownCase /\ ingest' = [ingest EXCEPT !.row[c] = row]
    BY <1>4, <1>s, <2>0, <2>2
  <2>3. CASE ~(q[1] = "result" /\ c \in KnownCase) /\ UNCHANGED ingest
    BY <2>0, <2>3
  <2> QED
    BY <1>3, <2>1, <2>2, <2>3
<1>6. /\ SameSession /\ rp'.phase = rp.phase /\ (rp.lost => rp'.lost)
      /\ rp' = rp \/ rp' = [rp EXCEPT !.lost = TRUE]
  BY <1>0, <1>2 DEF ReporterType, SameSession
<1>7. /\ Tests' = Tests /\ \A t : caseIdOf(t)' = caseIdOf(t)
      /\ \A t : Stored(t) => Stored(t)'
  BY <1>5, <1>6, CasesStay DEF SameSession, Stored
<1>8. OneRunPerSession'
  BY <1>5, <1>6 DEF OneRunPerSession, SameSession
<1>9. rp' \in [phase : {"idle", "resolving", "creating", "running", "draining", "closing", "done", "off", "thrown"},
             suite : PwSuite, config : {"ok", "unconfigured", "incomplete"}, ci : {"github", "local"},
             run : Nat, lost : BOOLEAN, strict : BOOLEAN, require : BOOLEAN]
  BY <1>0, <1>6 DEF ReporterType
<1>10. CASE UNCHANGED <<sub, rp>>
  <2>1. ReporterType'
    BY <1>0, <1>1, <1>5, <1>7, <1>10 DEF ReporterType
  <2>2. ResultsKept'
    BY <1>7, <1>10 DEF ReporterInv, ResultsKept
  <2> QED
    BY <1>1, <1>7, <1>8, <1>10, <2>1, <2>2
       DEF ReporterInv, AttemptsSubmitted, LossesCounted, ClosedAfterAll, Settled, NoTestBefore, ThrownForCause
<1>11. ASSUME NEW st \in {"evidence", "ok", "failed"}, sub[q].st = "waiting", sub' = [sub EXCEPT ![q].st = st],
              st = "failed" => rp'.lost, st /= "failed" => ~(q[1] = "result" /\ c \notin KnownCase)
       PROVE  ReporterInv'
  <2> DEFINE s == [sub[q] EXCEPT !.st = st]
  <2>0. sub[q] \in SubRow
    BY <1>0 DEF ReporterType
  <2>1. s \in SubRow /\ s.st = st /\ sub' = [sub EXCEPT ![q] = s] /\ ~Settled(q)
    BY <2>0, <1>11 DEF SubRow, Settled
  <2> HIDE DEF s
  <2>2. ReporterType'
    BY <1>0, <1>1, <1>5, <1>7, <1>9, <2>1 DEF ReporterType
  <2>3. q[1] = "result" /\ c \in KnownCase => Stored(q[2])'
    BY <1>5, <1>7 DEF Stored, c
  <2> QED
    BY <1>0, <1>1, <1>6, <1>7, <1>8, <1>11, <2>1, <2>2, <2>3, RequestAdvances
<1>12. CASE /\ sub[q].st = "waiting" /\ ~(q[1] = "result" /\ c \notin KnownCase) /\ UNCHANGED rp
            /\ \/ sub' = [sub EXCEPT ![q].st = "evidence"] 
               \/ sub' = [sub EXCEPT ![q].st = "ok"]
  BY <1>11, <1>12
<1>13. CASE /\ sub[q].st = "waiting" /\ sub' = [sub EXCEPT ![q].st = "failed"] /\ rp' = [rp EXCEPT !.lost = TRUE]
  <2>1. rp'.lost
    BY <1>0, <1>13 DEF ReporterType
  <2> QED
    BY <1>11, <1>13, <2>1
<1> QED
  BY <1>2, <1>10, <1>12, <1>13

LEMMA submitEvidenceKeeps ==
  ASSUME ReporterInv, NEW q \in Requests, submitEvidence(q)
  PROVE  ReporterInv'
<1>1. PICK fails \in BOOLEAN : rp' = [rp EXCEPT !.lost = @ \/ fails]
  BY DEF submitEvidence
<1> DEFINE lost == rp.lost \/ fails
           s == [sub[q] EXCEPT !.st = "ok"]
<1>2. /\ lost \in BOOLEAN /\ (rp.lost => lost) /\ rp' = [rp EXCEPT !.lost = lost]
      /\ UNCHANGED <<wire, pw, ingest>> /\ sub[q].st = "evidence" /\ sub' = [sub EXCEPT ![q] = s]
  BY <1>1 DEF submitEvidence
<1> HIDE DEF lost
<1>0. ReporterType /\ sub[q] \in SubRow
  BY DEF ReporterInv, ReporterType
<1>3. s \in SubRow /\ s.st = "ok" /\ ~Settled(q)
  BY <1>0, <1>2 DEF SubRow, Settled
<1> HIDE DEF s
<1>4. SameSession /\ rp'.phase = rp.phase /\ (rp.lost => rp'.lost)
  BY <1>0, <1>2 DEF ReporterType, SameSession
<1>5. Tests' = Tests /\ \A t : Stored(t)' <=> Stored(t)
  BY <1>2, <1>4, CasesStay DEF SameSession, Stored
<1>6. ReporterType'
  BY <1>0, <1>2, <1>3, <1>5 DEF ReporterType
<1>7. OneRunPerSession'
  BY <1>2, <1>4 DEF ReporterInv, OneRunPerSession, SameSession
<1>8. q[1] = "result" => Stored(q[2])'
  BY <1>2, <1>5 DEF ReporterInv, ResultsKept
<1> QED
  BY <1>2, <1>3, <1>4, <1>5, <1>6, <1>7, <1>8, RequestAdvances

LEMMA NextReporter == ReporterInv /\ [ReporterNext]_reporterVars => ReporterInv'
<1> SUFFICES ASSUME ReporterInv, [ReporterNext]_reporterVars PROVE ReporterInv'
  OBVIOUS
<1>1. CASE UNCHANGED reporterVars
  <2>1. UNCHANGED <<rp, sub, wire, pw, ingest>>
    BY <1>1 DEF reporterVars
  <2>2. Tests' = Tests /\ \A t : Stored(t)' <=> Stored(t)
    BY <2>1, CasesStay DEF Stored
  <2>3. ReporterType'
    BY <2>1, <2>2 DEF ReporterInv, ReporterType
  <2>4. ResultsKept'
    BY <2>1, <2>2 DEF ReporterInv, ResultsKept
  <2> QED
    BY <2>1, <2>2, <2>3, <2>4 DEF ReporterInv, AttemptsSubmitted, LossesCounted, ClosedAfterAll, Settled,
                                  NoTestBefore, ThrownForCause, OneRunPerSession
<1>2. ASSUME NEW q \in Requests, timesOut(q) PROVE ReporterInv'
  <2>1. PICK late \in BOOLEAN : Fails(q, TRUE, IF late THEN wire ELSE wire \ {<<q, sub[q].try>>})
    BY <1>2 DEF timesOut
  <2> DEFINE left == IF late THEN wire ELSE wire \ {<<q, sub[q].try>>}
  <2>2. left \in SUBSET wire /\ Fails(q, TRUE, left) /\ sub[q].st = "waiting" /\ UNCHANGED <<pw, ingest>>
    BY <1>2, <2>1 DEF timesOut
  <2> HIDE DEF left
  <2> QED
    BY <2>2, FailsKeeps
<1>3. ASSUME NEW q \in Requests, refused(q) PROVE ReporterInv'
  <2> DEFINE left == wire \ {<<q, sub[q].try>>}
  <2>1. PICK transient \in BOOLEAN : Fails(q, transient, left)
    BY <1>3 DEF refused
  <2>2. left \in SUBSET wire /\ sub[q].st = "waiting" /\ UNCHANGED <<pw, ingest>>
    BY <1>3 DEF refused
  <2> HIDE DEF left
  <2> QED
    BY <2>1, <2>2, FailsKeeps
<1> QED
  BY <1>1, <1>2, <1>3, SessionSteps, onTestEndKeeps, submitEvidenceKeeps, servedKeeps DEF ReporterNext

LEMMA ReporterInvHonest == ReporterInv => ReporterHonest
<1> SUFFICES ASSUME ReporterInv PROVE ReporterHonest
  OBVIOUS
<1>1. LossesReported
  <2> SUFFICES ASSUME rp.phase = "done", NEW t \in Tests, pw[t].next > 1
               PROVE  (caseIdOf(t) \in KnownCase /\ ingest.row[caseIdOf(t)] /= NoRow) \/ rp.lost
    BY DEF LossesReported
  <2> DEFINE q == <<"result", t, 1>>
  <2>1. q \in Requests /\ sub[q].st /= "idle"
    BY ReporterAssumption DEF ReporterInv, AttemptsSubmitted
  <2>2. q[1] = "result" /\ q[2] = t
    OBVIOUS
  <2> HIDE DEF q
  <2>3. sub[q].st \in {"ok", "failed"}
    BY <2>1, <2>2 DEF ReporterInv, ClosedAfterAll, Settled
  <2>4. Stored(t) \/ rp.lost
    BY <2>1, <2>2, <2>3 DEF ReporterInv, ResultsKept, LossesCounted
  <2> QED
    BY <2>4 DEF Stored, NoRow
<1>2. SuiteNeverBroken
  BY DEF ReporterInv, NoTestBefore, ThrownForCause, SuiteNeverBroken
<1> QED
  BY <1>1, <1>2 DEF ReporterInv, ReporterHonest

\* No attempt is lost without the summary saying so, a CI session opens one run whatever is lost
\* and retried, and the suite fails only before its first test and where the project asked for it.
THEOREM ReporterIsHonest == ReporterSpec => []ReporterHonest
<1> QED
  BY InitReporter, NextReporter, ReporterInvHonest, PTL DEF ReporterSpec

-----------------------------------------------------------------------------
(* TableColumns *)

Columns == Cardinality(Column)

\* Every column once.
Order == {s \in [1 .. Columns -> Column] : /\ \A c \in Column : \E i \in 1 .. Columns : s[i] = c
                                           /\ \A i, k \in 1 .. Columns : s[i] = s[k] => i = k}
AllowedVisible == {v \in [Column -> BOOLEAN] : \A c \in Locked : v[c] = TRUE}
Arrangement == [order : Order, visible : AllowedVisible]

\* What is stored is what the user last saw, and a table that has read it shows it.
ColumnInv ==
  /\ arranged \in Arrangement
  /\ table \in [mounted : BOOLEAN, ready : BOOLEAN, order : Order, visible : AllowedVisible]
  /\ loadPrefs = arranged
  /\ table.ready = TRUE => Prefs(table.order, table.visible) = arranged

\* No two columns share a place.
Places == {p \in [Column -> Nat] : \A c, d \in Column : p[c] = p[d] => c = d}

LEMMA ColumnsCounted == IsFiniteSet(Column) /\ Columns \in Nat
BY ColumnAssumption, FS_CardinalityType DEF Columns

\* The ranks of distinct places are 1 .. Columns, in the order of the places.
LEMMA RanksAreOnto ==
  ASSUME NEW p \in Places
  PROVE  /\ \A c \in Column : Rank(p, c) \in 1 .. Columns
         /\ \A c, d \in Column : Rank(p, c) = Rank(p, d) => c = d
         /\ \A i \in 1 .. Columns : \E c \in Column : Rank(p, c) = i
<1> DEFINE B(c) == {d \in Column : p[d] <= p[c]}
<1>1. \A c \in Column : IsFiniteSet(B(c)) /\ Cardinality(B(c)) \in Nat /\ Cardinality(B(c)) <= Columns
  <2> TAKE c \in Column
  <2>1. B(c) \in SUBSET Column
    OBVIOUS
  <2> HIDE DEF B
  <2> QED BY <2>1, ColumnsCounted, FS_Subset, FS_CardinalityType DEF Columns
<1>2. \A c \in Column : Cardinality(B(c)) /= 0
  <2> TAKE c \in Column
  <2>1. c \in B(c)
    BY DEF Places
  <2> HIDE DEF B
  <2> QED BY <2>1, <1>1, FS_EmptySet
<1>3. ASSUME NEW c \in Column, NEW d \in Column, p[c] < p[d]
      PROVE  Cardinality(B(c)) < Cardinality(B(d))
  <2>0. p[c] \in Nat /\ p[d] \in Nat
    BY DEF Places
  <2>1. B(c) \in SUBSET B(d)
    BY <1>3, <2>0 DEF Places
  <2>2. d \in B(d) /\ d \notin B(c)
    BY <1>3, <2>0
  <2> HIDE DEF B
  <2>3. B(c) /= B(d)
    BY <2>2
  <2>4. Cardinality(B(c)) <= Cardinality(B(d)) /\ Cardinality(B(c)) /= Cardinality(B(d))
    BY <1>1, <2>1, <2>3, FS_Subset
  <2> QED BY <2>4, <1>1
<1>4. \A c \in Column : Rank(p, c) = Cardinality(B(c))
  BY DEF Rank
<1> HIDE DEF B
<1>5. \A c \in Column : Rank(p, c) \in 1 .. Columns
  BY <1>1, <1>2, <1>4, ColumnsCounted
<1>6. ASSUME NEW c \in Column, NEW d \in Column, Rank(p, c) = Rank(p, d) PROVE c = d
  <2>0. p[c] \in Nat /\ p[d] \in Nat
    BY DEF Places
  <2>1. ~(p[c] < p[d]) /\ ~(p[d] < p[c])
    BY <1>1, <1>3, <1>4, <1>6
  <2> QED BY <2>0, <2>1 DEF Places
<1> DEFINE f == [c \in Column |-> Rank(p, c)]
<1>7. f \in Injection(Column, 1 .. Columns)
  BY <1>5, <1>6 DEF Injection, IsInjective
<1>8. \A c \in Column : f[c] = Rank(p, c)
  OBVIOUS
<1> HIDE DEF f
<1>9. IsFiniteSet(1 .. Columns) /\ Cardinality(1 .. Columns) = Columns
  BY ColumnsCounted, FS_Interval
<1>10. f \in Surjection(Column, 1 .. Columns)
  BY <1>7, <1>9, FS_Injection DEF Columns
<1>11. \A i \in 1 .. Columns : \E c \in Column : Rank(p, c) = i
  BY <1>8, <1>10 DEF Surjection
<1> QED BY <1>5, <1>6, <1>11

LEMMA SortedIsOrder ==
  ASSUME NEW p \in Places
  PROVE  ByPlace(p) \in Order /\ \A c \in Column : ByPlace(p)[Rank(p, c)] = c
<1> DEFINE s == ByPlace(p)
<1>1. \A i \in 1 .. Columns : s[i] \in Column /\ Rank(p, s[i]) = i
  BY RanksAreOnto DEF ByPlace, Columns
<1>2. s \in [1 .. Columns -> Column]
  BY <1>1 DEF ByPlace, Columns
<1> HIDE DEF s
<1>3. \A c \in Column : Rank(p, c) \in 1 .. Columns /\ s[Rank(p, c)] = c
  BY <1>1, RanksAreOnto
<1>4. s \in Order
  BY <1>1, <1>2, <1>3 DEF Order
<1> QED BY <1>3, <1>4 DEF s

\* A member of a sequence has a first place in it.
LEMMA FirstPlace ==
  ASSUME NEW s \in Seq(Nat), NEW c \in ToSet(s)
  PROVE  indexOf(s, c) \in 1 .. Len(s) /\ s[indexOf(s, c)] = c
<1> DEFINE S == {i \in 1 .. Len(s) : s[i] = c}
<1>0. Len(s) \in Nat /\ DOMAIN s = 1 .. Len(s)
  OBVIOUS
<1>1. S /= {} /\ S \subseteq Nat
  BY <1>0 DEF ToSet
<1> HIDE DEF S
<1>2. PICK i \in S : \A k \in S : ~(<<k, i>> \in OpToRel(<, Nat))
  BY <1>1, NatLessThanWellFounded, WFMin
<1>3. i \in 1 .. Len(s) /\ s[i] = c
  BY <1>2 DEF S
<1>4. ASSUME NEW k \in 1 .. i - 1 PROVE s[k] /= c
  <2>1. k \in 1 .. Len(s) /\ k < i /\ i \in Nat /\ k \in Nat
    BY <1>0, <1>3
  <2>2. <<k, i>> \in OpToRel(<, Nat)
    BY <2>1 DEF OpToRel
  <2>3. k \notin S
    BY <1>2, <2>2
  <2> QED BY <2>1, <2>3 DEF S
<1>5. \E n \in DOMAIN s : s[n] = c /\ \A k \in 1 .. n - 1 : s[k] /= c
  BY <1>0, <1>3, <1>4
<1>6. indexOf(s, c) \in DOMAIN s /\ s[indexOf(s, c)] = c
  BY <1>5 DEF indexOf
<1> QED BY <1>0, <1>6

\* Whatever was stored, normalising it gives every column once.
LEMMA NormalizedIsOrder ==
  ASSUME NEW raw \in Seq(Nat)
  PROVE  normalizeDataOrder(raw) \in Order
<1> DEFINE p == [c \in Column |-> IF c \in ToSet(raw) THEN indexOf(raw, c) ELSE Len(raw) + c]
<1>0. Len(raw) \in Nat /\ Column \subseteq Nat \ {0}
  BY ColumnAssumption
<1>1. \A c \in Column : IF c \in ToSet(raw) THEN p[c] \in 1 .. Len(raw) /\ raw[p[c]] = c
                        ELSE p[c] = Len(raw) + c
  BY FirstPlace
<1>2. p \in [Column -> Nat]
  <2>1. \A c \in Column : p[c] \in Nat
    BY <1>0, <1>1
  <2> QED BY <2>1
<1>3. normalizeDataOrder(raw) = ByPlace(p)
  BY DEF normalizeDataOrder
<1> HIDE DEF p
<1>4. ASSUME NEW c \in Column, NEW d \in Column, p[c] = p[d] PROVE c = d
  <2>1. CASE c \in ToSet(raw) /\ d \in ToSet(raw)
    BY <1>1, <1>4, <2>1
  <2>2. CASE c \notin ToSet(raw) /\ d \notin ToSet(raw)
    <3>1. Len(raw) + c = Len(raw) + d /\ c \in Nat /\ d \in Nat
      BY <1>0, <1>1, <1>4, <2>2
    <3> QED BY <1>0, <3>1
  <2>3. CASE c \in ToSet(raw) /\ d \notin ToSet(raw)
    <3>1. p[c] \in 1 .. Len(raw) /\ p[c] = Len(raw) + d /\ d \in Nat /\ d /= 0
      BY <1>0, <1>1, <1>4, <2>3
    <3> QED BY <1>0, <3>1
  <2>4. CASE c \notin ToSet(raw) /\ d \in ToSet(raw)
    <3>1. p[d] \in 1 .. Len(raw) /\ p[d] = Len(raw) + c /\ c \in Nat /\ c /= 0
      BY <1>0, <1>1, <1>4, <2>4
    <3> QED BY <1>0, <3>1
  <2> QED BY <2>1, <2>2, <2>3, <2>4
<1>5. p \in Places
  BY <1>2, <1>4 DEF Places
<1> QED BY <1>3, <1>5, SortedIsOrder

LEMMA OrderIsSeq ==
  ASSUME NEW s \in Order
  PROVE  s \in Seq(Nat) /\ Len(s) = Columns /\ DOMAIN s = 1 .. Columns /\ ToSet(s) = Column
<1>1. s \in [1 .. Columns -> Column] /\ Column \subseteq Nat
  BY ColumnAssumption DEF Order
<1>2. s \in [1 .. Columns -> Nat] /\ DOMAIN s = 1 .. Columns /\ Columns \in Nat
  BY <1>1, ColumnsCounted
<1> HIDE DEF Columns
<1>3. s \in Seq(Nat) /\ Len(s) = Columns
  BY <1>2
<1>4. /\ \A c \in Column : \E i \in 1 .. Columns : s[i] = c
      /\ \A i \in 1 .. Columns : s[i] \in Column
  BY <1>1 DEF Order
<1>5. ToSet(s) = Column
  BY <1>2, <1>4 DEF ToSet
<1> QED BY <1>2, <1>3, <1>5

\* In an order a column has one place, the one indexOf finds.
LEMMA PlaceInOrder ==
  ASSUME NEW s \in Order, NEW c \in Column
  PROVE  /\ indexOf(s, c) \in 1 .. Columns /\ s[indexOf(s, c)] = c
         /\ \A i \in 1 .. Columns : s[i] = c => indexOf(s, c) = i
<1>1. indexOf(s, c) \in 1 .. Columns /\ s[indexOf(s, c)] = c
  BY OrderIsSeq, FirstPlace
<1> QED BY <1>1 DEF Order

\* An order is its own normal form.
LEMMA OrderIsNormal ==
  ASSUME NEW s \in Order
  PROVE  normalizeDataOrder(s) = s
<1> DEFINE p == [c \in Column |-> IF c \in ToSet(s) THEN indexOf(s, c) ELSE Len(s) + c]
<1>1. \A c \in Column : p[c] = indexOf(s, c)
  BY OrderIsSeq
<1>2. normalizeDataOrder(s) = ByPlace(p)
  BY DEF normalizeDataOrder
<1>3. p = [c \in Column |-> p[c]]
  OBVIOUS
<1> HIDE DEF p
<1>4. \A c \in Column : p[c] \in 1 .. Columns /\ s[p[c]] = c
  BY <1>1, PlaceInOrder
<1>5. \A i \in 1 .. Columns : s[i] \in Column /\ p[s[i]] = i
  <2> TAKE i \in 1 .. Columns
  <2>1. s[i] \in Column
    BY DEF Order
  <2> QED BY <1>1, <2>1, PlaceInOrder
<1>6. p \in Places
  <2>1. p \in [Column -> Nat]
    BY <1>3, <1>4, ColumnsCounted
  <2> QED BY <1>4, <2>1 DEF Places
<1>7. ASSUME NEW i \in 1 .. Columns PROVE Rank(p, s[i]) = i
  <2> DEFINE T == {d \in Column : p[d] <= p[s[i]]}
             g == [k \in 1 .. i |-> s[k]]
  <2>0. i \in Nat /\ \A k \in 1 .. i : k \in 1 .. Columns /\ k <= i
    BY ColumnsCounted
  <2>1. \A d \in Column : d \in T <=> p[d] <= i
    BY <1>5
  <2>2. \A k \in 1 .. i : g[k] \in T
    <3> TAKE k \in 1 .. i
    <3>1. g[k] = s[k] /\ s[k] \in Column /\ p[s[k]] = k
      BY <1>5, <2>0
    <3> QED BY <2>0, <2>1, <3>1
  <2>3. \A k, m \in 1 .. i : g[k] = g[m] => k = m
    BY <1>5, <2>0
  <2>4. \A d \in T : \E k \in 1 .. i : g[k] = d
    <3> TAKE d \in T
    <3>1. d \in Column /\ p[d] \in 1 .. i /\ s[p[d]] = d
      BY <1>4, <2>0, <2>1
    <3> QED BY <3>1
  <2>5. g = [k \in 1 .. i |-> g[k]] /\ Rank(p, s[i]) = Cardinality(T)
    BY DEF Rank
  <2> HIDE DEF T, g
  <2>6. g \in Bijection(1 .. i, T)
    BY <2>2, <2>3, <2>4, <2>5 DEF Bijection, Injection, Surjection, IsInjective
  <2>7. Cardinality(T) = i
    BY <2>0, <2>6, FS_CountingElements DEF ExistsBijection
  <2> QED BY <2>5, <2>7
<1>8. \A i \in 1 .. Columns : ByPlace(p)[i] = s[i]
  BY <1>5, <1>6, <1>7, SortedIsOrder
<1>9. ByPlace(p) \in [1 .. Columns -> Column] /\ s \in [1 .. Columns -> Column]
  BY <1>6, SortedIsOrder DEF Order
<1>10. ByPlace(p) = s
  <2> DEFINE q == ByPlace(p)
  <2>1. q \in [1 .. Columns -> Column] /\ \A i \in 1 .. Columns : q[i] = s[i]
    BY <1>8, <1>9
  <2> HIDE DEF q
  <2>2. q = [i \in 1 .. Columns |-> q[i]] /\ s = [i \in 1 .. Columns |-> s[i]]
    BY <1>9, <2>1
  <2> QED BY <2>1, <2>2 DEF q
<1> QED BY <1>2, <1>10

\* A dragged column leaves a gap that its neighbours close: still every column once.
LEMMA DragKeepsOrder ==
  ASSUME NEW s \in Order, NEW from \in Column, NEW to \in Column, from /= to
  PROVE  Moved(s, from, to) \in Order
<1> DEFINE i == indexOf(s, from)
           j == indexOf(s, to)
           m == Moved(s, from, to)
<1>1. /\ i \in 1 .. Columns /\ s[i] = from
      /\ j \in 1 .. Columns /\ s[j] = to
  BY PlaceInOrder
<1>2. s \in [1 .. Columns -> Column] /\ DOMAIN s = 1 .. Columns
  BY DEF Order
<1>3. m = [k \in 1 .. Columns |->
             IF k = j THEN from ELSE IF i <= k /\ k < j THEN s[k + 1]
             ELSE IF j < k /\ k <= i THEN s[k - 1] ELSE s[k]]
  BY <1>2 DEF Moved
<1> HIDE DEF i, j, m
<1>4. i /= j /\ i \in Nat /\ j \in Nat /\ Columns \in Nat
  BY <1>1, ColumnsCounted
<1>5. /\ m[j] = from
      /\ \A k \in 1 .. Columns : i <= k /\ k < j => k + 1 \in 1 .. Columns /\ m[k] = s[k + 1]
      /\ \A k \in 1 .. Columns : j < k /\ k <= i => k - 1 \in 1 .. Columns /\ m[k] = s[k - 1]
      /\ \A k \in 1 .. Columns : k /= j /\ ~(i <= k /\ k < j) /\ ~(j < k /\ k <= i) => m[k] = s[k]
  BY <1>1, <1>3, <1>4
<1>6. \A k \in 1 .. Columns : m[k] \in Column
  BY <1>2, <1>5
<1>7. m \in [1 .. Columns -> Column]
  BY <1>3, <1>6
<1>8. ASSUME NEW c \in Column PROVE \E k \in 1 .. Columns : m[k] = c
  <2>1. PICK n \in 1 .. Columns : s[n] = c
    BY DEF Order
  <2>2. CASE n = i
    BY <1>1, <1>5, <2>1, <2>2
  <2>3. CASE i < n /\ n <= j
    <3>1. n - 1 \in 1 .. Columns /\ i <= n - 1 /\ n - 1 < j /\ (n - 1) + 1 = n
      BY <1>1, <1>4, <2>3
    <3> HIDE DEF Columns
    <3>2. m[n - 1] = s[n]
      BY <1>5, <3>1
    <3> QED BY <2>1, <3>1, <3>2
  <2>4. CASE j <= n /\ n < i
    <3>1. n + 1 \in 1 .. Columns /\ j < n + 1 /\ n + 1 <= i /\ (n + 1) - 1 = n
      BY <1>1, <1>4, <2>4
    <3>2. m[n + 1] = s[n]
      BY <1>5, <3>1
    <3> QED BY <2>1, <3>1, <3>2
  <2>5. CASE n /= i /\ ~(i < n /\ n <= j) /\ ~(j <= n /\ n < i)
    <3>1. n /= j /\ ~(i <= n /\ n < j) /\ ~(j < n /\ n <= i)
      BY <1>4, <2>5
    <3> QED BY <1>5, <2>1, <3>1
  <2> QED BY <2>2, <2>3, <2>4, <2>5
<1>9. m \in Surjection(1 .. Columns, Column)
  BY <1>7, <1>8 DEF Surjection
<1>10. IsFiniteSet(1 .. Columns) /\ Cardinality(1 .. Columns) = Columns
  BY ColumnsCounted, FS_Interval
<1>11. m \in Injection(1 .. Columns, Column)
  BY <1>9, <1>10, FS_SurjSameCardinalityImpliesInj DEF Columns
<1>12. m \in Order
  BY <1>7, <1>8, <1>11 DEF Order, Injection, IsInjective
<1> QED BY <1>12 DEF m

LEMMA VisibleIsShown ==
  ASSUME NEW raw, \A c \in Column \cap DOMAIN raw : raw[c] \in BOOLEAN
  PROVE  normalizeVisible(raw) \in AllowedVisible
<1> DEFINE b(c) == c \in Locked \/ (IF c \in DOMAIN raw THEN raw[c] ELSE DEFAULT_VISIBLE[c])
<1>1. \A c \in Column : b(c) \in BOOLEAN
  OBVIOUS
<1>2. \A c \in Locked : c \in Column /\ b(c) = TRUE
  BY ColumnAssumption
<1>3. normalizeVisible(raw) = [c \in Column |-> b(c)]
  BY DEF normalizeVisible
<1> HIDE DEF b
<1> QED BY <1>1, <1>2, <1>3 DEF AllowedVisible

LEMMA ShownIsNormal ==
  ASSUME NEW v \in AllowedVisible
  PROVE  normalizeVisible(v) = v
<1> DEFINE b(c) == c \in Locked \/ (IF c \in DOMAIN v THEN v[c] ELSE DEFAULT_VISIBLE[c])
<1>1. v \in [Column -> BOOLEAN] /\ DOMAIN v = Column /\ \A c \in Locked : v[c] = TRUE
  BY DEF AllowedVisible
<1>2. ASSUME NEW c \in Column PROVE b(c) = v[c]
  <2>1. v[c] \in BOOLEAN /\ (c \in Locked => v[c] = TRUE) /\ b(c) = (c \in Locked \/ v[c])
    BY <1>1
  <2> HIDE DEF b
  <2> QED BY <2>1
<1>3. normalizeVisible(v) = [c \in Column |-> b(c)]
  BY DEF normalizeVisible
<1> HIDE DEF b
<1> QED BY <1>1, <1>2, <1>3

LEMMA DefaultsArranged == Defaults \in Arrangement
<1> DEFINE p == [c \in Column |-> c]
<1>1. p \in Places
  BY ColumnAssumption DEF Places
<1>2. DEFAULT_DATA_ORDER = ByPlace(p)
  BY DEF DEFAULT_DATA_ORDER
<1> HIDE DEF p
<1>3. DEFAULT_DATA_ORDER \in Order
  BY <1>1, <1>2, SortedIsOrder
<1>4. DEFAULT_VISIBLE \in AllowedVisible
  BY ColumnAssumption DEF DEFAULT_VISIBLE, AllowedVisible
<1> QED BY <1>3, <1>4 DEF Defaults, Prefs, Arrangement

\* What the storage would give for d.
ReadBack(d) == IF d.order = <<>> THEN Defaults ELSE Prefs(normalizeDataOrder(d.order), normalizeVisible(d.visible))

\* What was written is what is read.
LEMMA StoredIsRead ==
  ASSUME NEW o \in Order, NEW v \in AllowedVisible
  PROVE  ReadBack(Prefs(o, v)) = Prefs(o, v)
<1> DEFINE d == Prefs(o, v)
<1>1. d.order = o /\ d.visible = v
  BY DEF Prefs
<1> HIDE DEF d
<1>2. CASE o = <<>>
  <2>1. o \in Seq(Nat) /\ Len(o) = Columns
    BY OrderIsSeq
  <2>2. Columns = 0
    BY <1>2, <2>1
  <2>3. Column = {}
    BY <2>2, ColumnsCounted, FS_EmptySet DEF Columns
  <2>4. ASSUME NEW a \in Order, NEW b \in Order PROVE a = b
    <3>1. a = [i \in 1 .. Columns |-> a[i]] /\ b = [i \in 1 .. Columns |-> b[i]]
      BY DEF Order
    <3>2. \A i \in 1 .. Columns : a[i] = b[i]
      BY <2>2
    <3> QED BY <3>1, <3>2
  <2>5. \A a, b \in AllowedVisible : a = b
    BY <2>3 DEF AllowedVisible
  <2>6. Defaults = Prefs(DEFAULT_DATA_ORDER, DEFAULT_VISIBLE) /\ DEFAULT_DATA_ORDER \in Order /\ DEFAULT_VISIBLE \in AllowedVisible
    BY DefaultsArranged DEF Defaults, Prefs, Arrangement
  <2>7. DEFAULT_DATA_ORDER = o /\ DEFAULT_VISIBLE = v
    BY <2>4, <2>5, <2>6
  <2>8. ReadBack(d) = Defaults
    BY <1>1, <1>2 DEF ReadBack
  <2> QED BY <2>6, <2>7, <2>8 DEF d
<1>3. CASE o /= <<>>
  <2>1. ReadBack(d) = Prefs(normalizeDataOrder(o), normalizeVisible(v))
    BY <1>1, <1>3 DEF ReadBack
  <2> QED BY <2>1, OrderIsNormal, ShownIsNormal DEF d
<1> QED BY <1>2, <1>3 DEF d

LEMMA InitColumns == ColumnsInit => ColumnInv
<1> SUFFICES ASSUME ColumnsInit PROVE ColumnInv
  OBVIOUS
<1>1. Defaults.order \in Order /\ Defaults.visible \in AllowedVisible
  BY DefaultsArranged DEF Arrangement
<1>2. loadPrefs \in Arrangement
  <2>1. CASE disk.order = <<>>
    BY <2>1, DefaultsArranged DEF loadPrefs
  <2>2. CASE disk.order /= <<>>
    <3>1. disk \in OldPrefs
      BY <2>2 DEF ColumnsInit, Prefs
    <3>2. disk.order \in Seq(Nat) /\ \A c \in Column \cap DOMAIN disk.visible : disk.visible[c] \in BOOLEAN
      BY <3>1, ColumnAssumption
    <3>3. normalizeDataOrder(disk.order) \in Order /\ normalizeVisible(disk.visible) \in AllowedVisible
      BY <3>2, NormalizedIsOrder, VisibleIsShown
    <3>4. loadPrefs = Prefs(normalizeDataOrder(disk.order), normalizeVisible(disk.visible))
      BY <2>2 DEF loadPrefs
    <3> QED BY <3>3, <3>4 DEF Prefs, Arrangement
  <2> QED BY <2>1, <2>2
<1>3. table = Hooks(FALSE, FALSE, Defaults) /\ arranged = loadPrefs
  BY DEF ColumnsInit
<1> QED BY <1>1, <1>2, <1>3 DEF ColumnInv, Hooks

\* The mount, its preferences, and the list that loads again.
LEMMA MountsKeep == ColumnInv /\ (Mount \/ PrefsArrive \/ Unmount) => ColumnInv'
<1> SUFFICES ASSUME ColumnInv, Mount \/ PrefsArrive \/ Unmount PROVE ColumnInv'
  OBVIOUS
<1> DEFINE o == arranged.order
           v == arranged.visible
<1>1. arranged = Prefs(o, v) /\ o \in Order /\ v \in AllowedVisible /\ loadPrefs = Prefs(o, v)
  BY DEF ColumnInv, Arrangement, Prefs
<1>2. arranged' = arranged
  BY DEF Mount, PrefsArrive, Unmount
<1>3. Defaults.order \in Order /\ Defaults.visible \in AllowedVisible
  BY DefaultsArranged DEF Arrangement
<1> HIDE DEF o, v
<1>4. CASE Mount \/ Unmount
  <2>1. disk' = disk
    BY <1>4 DEF Mount, Unmount, Saved, Hooks
  <2>2. loadPrefs' = loadPrefs
    BY <2>1 DEF loadPrefs
  <2>3. \E m \in BOOLEAN : table' = Hooks(m, FALSE, Defaults)
    BY <1>4 DEF Mount, Unmount
  <2>4. table'.ready = FALSE /\ table' \in [mounted : BOOLEAN, ready : BOOLEAN, order : Order, visible : AllowedVisible]
    BY <1>3, <2>3 DEF Hooks
  <2> QED BY <1>2, <2>2, <2>4 DEF ColumnInv
<1>5. CASE PrefsArrive
  <2>1. table' = [mounted |-> TRUE, ready |-> TRUE, order |-> o, visible |-> v]
    BY <1>1, <1>5 DEF PrefsArrive, Hooks, Prefs
  <2>2. table'.ready = TRUE /\ table'.order = o /\ table'.visible = v
    BY <2>1
  <2>3. disk' = Prefs(o, v)
    BY <1>5, <2>2 DEF PrefsArrive, Saved
  <2>4. loadPrefs' = Prefs(o, v)
    BY <1>1, <2>3, StoredIsRead DEF loadPrefs, ReadBack
  <2> QED BY <1>1, <1>2, <2>1, <2>4 DEF ColumnInv
<1> QED BY <1>4, <1>5

\* What the user arranges is stored and shown, and it is an arrangement.
LEMMA ArrangeKeeps ==
  ASSUME ColumnInv, NEW o \in Order, NEW v \in AllowedVisible,
         Arrange([mounted |-> table.mounted, ready |-> TRUE, order |-> o, visible |-> v])
  PROVE  ColumnInv'
<1> DEFINE t == [mounted |-> table.mounted, ready |-> TRUE, order |-> o, visible |-> v]
<1>1. t.ready = TRUE /\ t.order = o /\ t.visible = v /\ t.mounted = table.mounted
  OBVIOUS
<1>2. table.mounted \in BOOLEAN
  BY DEF ColumnInv
<1>3. t \in [mounted : BOOLEAN, ready : BOOLEAN, order : Order, visible : AllowedVisible]
  BY <1>2
<1>4. Arrange(t)
  OBVIOUS
<1> HIDE DEF t
<1>5. table' = t /\ disk' = Prefs(o, v) /\ arranged' = Prefs(o, v)
  BY <1>1, <1>4 DEF Arrange, Saved
<1>6. loadPrefs' = Prefs(o, v)
  BY <1>5, StoredIsRead DEF loadPrefs, ReadBack
<1>7. Prefs(o, v) \in Arrangement
  BY DEF Prefs, Arrangement
<1> QED BY <1>1, <1>3, <1>5, <1>6, <1>7 DEF ColumnInv

LEMMA ColumnsMoveKeeps == ColumnInv /\ (\E from, to \in Column : moveColumn(from, to)) => ColumnInv'
<1> SUFFICES ASSUME ColumnInv, NEW from \in Column, NEW to \in Column, moveColumn(from, to) PROVE ColumnInv'
  OBVIOUS
<1> DEFINE o == Moved(table.order, from, to)
<1>1. /\ table \in [mounted : BOOLEAN, ready : BOOLEAN, order : Order, visible : AllowedVisible]
      /\ table.order \in Order /\ table.visible \in AllowedVisible /\ table.ready \in BOOLEAN
  BY DEF ColumnInv
<1>2. o \in Order
  BY <1>1, DragKeepsOrder DEF moveColumn
<1>3. Arrange([table EXCEPT !.order = o])
  BY DEF moveColumn
<1>4. table.ready = TRUE
  BY <1>1, <1>3 DEF Arrange
<1> HIDE DEF o
<1>5. [table EXCEPT !.order = o] = [mounted |-> table.mounted, ready |-> TRUE, order |-> o, visible |-> table.visible]
  <2>1. PICK n \in BOOLEAN, r \in BOOLEAN, p \in Order, w \in AllowedVisible :
           table = [mounted |-> n, ready |-> r, order |-> p, visible |-> w]
    BY <1>1
  <2>2. table.mounted = n /\ table.ready = r /\ table.order = p /\ table.visible = w
    BY <2>1
  <2>3. [table EXCEPT !.order = o] = [mounted |-> n, ready |-> r, order |-> o, visible |-> w]
    BY <2>1
  <2> QED BY <1>4, <2>2, <2>3
<1>6. Arrange([mounted |-> table.mounted, ready |-> TRUE, order |-> o, visible |-> table.visible])
  BY ONLY <1>3, <1>5, Zenon
<1> QED BY <1>1, <1>2, <1>6, ArrangeKeeps

LEMMA ColumnsToggleKeeps == ColumnInv /\ (\E c \in Column : toggleColumnVisible(c)) => ColumnInv'
<1> SUFFICES ASSUME ColumnInv, NEW c \in Column, toggleColumnVisible(c) PROVE ColumnInv'
  OBVIOUS
<1> DEFINE v == [table.visible EXCEPT ![c] = ~@]
<1>1. /\ table \in [mounted : BOOLEAN, ready : BOOLEAN, order : Order, visible : AllowedVisible]
      /\ table.order \in Order /\ table.visible \in AllowedVisible /\ table.ready \in BOOLEAN
  BY DEF ColumnInv
<1>2. v \in AllowedVisible
  <2>1. /\ table.visible \in [Column -> BOOLEAN] /\ \A l \in Locked : table.visible[l] = TRUE
        /\ c \notin Locked
    BY <1>1 DEF AllowedVisible, toggleColumnVisible
  <2>2. v \in [Column -> BOOLEAN]
    BY <2>1
  <2>3. \A l \in Locked : l \in Column /\ l /= c
    BY <2>1, ColumnAssumption
  <2>4. \A l \in Locked : v[l] = TRUE
    BY <2>1, <2>3
  <2> HIDE DEF v
  <2> QED BY <2>2, <2>4 DEF AllowedVisible
<1>3. Arrange([table EXCEPT !.visible = v])
  BY <1>1 DEF toggleColumnVisible
<1>4. table.ready = TRUE
  BY <1>1, <1>3 DEF Arrange
<1> HIDE DEF v
<1>5. [table EXCEPT !.visible = v] = [mounted |-> table.mounted, ready |-> TRUE, order |-> table.order, visible |-> v]
  <2>1. PICK n \in BOOLEAN, r \in BOOLEAN, p \in Order, w \in AllowedVisible :
           table = [mounted |-> n, ready |-> r, order |-> p, visible |-> w]
    BY <1>1
  <2>2. table.mounted = n /\ table.ready = r /\ table.order = p /\ table.visible = w
    BY <2>1
  <2>3. [table EXCEPT !.visible = v] = [mounted |-> n, ready |-> r, order |-> p, visible |-> v]
    BY <2>1
  <2> QED BY <1>4, <2>2, <2>3
<1>6. Arrange([mounted |-> table.mounted, ready |-> TRUE, order |-> table.order, visible |-> v])
  BY ONLY <1>3, <1>5, Zenon
<1> QED BY <1>1, <1>2, <1>6, ArrangeKeeps

LEMMA NextColumns == ColumnInv /\ [ColumnsNext]_tcVars => ColumnInv'
<1> SUFFICES ASSUME ColumnInv, [ColumnsNext]_tcVars PROVE ColumnInv'
  OBVIOUS
<1>1. CASE UNCHANGED tcVars
  BY <1>1 DEF tcVars, ColumnInv, loadPrefs
<1> QED BY <1>1, MountsKeep, ColumnsMoveKeeps, ColumnsToggleKeeps DEF ColumnsNext

LEMMA ColumnInvKept == ColumnInv => ColumnsKept
<1> SUFFICES ASSUME ColumnInv PROVE ColumnsKept
  OBVIOUS
<1>1. table.order \in Order /\ table.visible \in AllowedVisible /\ table.ready \in BOOLEAN /\ loadPrefs = arranged
  BY DEF ColumnInv
<1>2. Len(table.order) = Cardinality(Column) /\ ToSet(table.order) = Column
  BY <1>1, OrderIsSeq DEF Columns
<1>3. table.ready = TRUE => table.visible = arranged.visible /\ table.order = arranged.order
  BY DEF ColumnInv, Prefs
<1>4. \A c \in Locked : table.visible[c]
  BY <1>1 DEF AllowedVisible
<1> QED BY <1>1, <1>2, <1>3, <1>4 DEF ColumnsKept

\* Whatever an older version stored, however columns are dragged, hidden and shown and however
\* often the list reloads: every column is there once, the locked ones are shown, and the table
\* that has read its preferences is the one the user arranged.
THEOREM ColumnsAreKept == ColumnsSpec => []ColumnsKept
<1> QED
  BY InitColumns, NextColumns, ColumnInvKept, PTL DEF ColumnsSpec

-----------------------------------------------------------------------------
(* HttpGate *)

\* A path that a call of the reporter or of an MCP client could be taken for.
NearPath(p) == Len(p) >= 3 /\ p[1] \in {":", "projects"} /\ p[2] = ":" /\ p[3] \in {":", "mcp", "automation"}
MachineRoutes == ToSet(Api!McpRoutes) \cup ToSet(Api!AutomationRoutes)
Table(s) == s \in Seq(ToSet(s)) /\ \A k \in 1 .. Len(s) : NearPath(s[k].path) => s[k] \in MachineRoutes

LEMMA TablesJoin ==
  ASSUME NEW s, NEW t, Table(s), Table(t)
  PROVE  Table(s \o t)
<1> DEFINE u == s \o t
           S == ToSet(s) \cup ToSet(t)
<1>1. s \in Seq(S) /\ t \in Seq(S)
  BY DEF Table
<1>2. Len(u) = Len(s) + Len(t) /\ u \in Seq(S) /\ Len(s) \in Nat /\ Len(t) \in Nat
  BY <1>1
<1>3. \A k \in 1 .. Len(u) : u[k] = IF k <= Len(s) THEN s[k] ELSE t[k - Len(s)]
  BY <1>1
<1> HIDE DEF u
<1>4. \A k \in 1 .. Len(u) : NearPath(u[k].path) => u[k] \in MachineRoutes
  <2> SUFFICES ASSUME NEW k \in 1 .. Len(u) PROVE NearPath(u[k].path) => u[k] \in MachineRoutes
    OBVIOUS
  <2>1. CASE k <= Len(s)
    BY <1>2, <1>3, <2>1 DEF Table
  <2>2. CASE ~(k <= Len(s))
    <3>1. k - Len(s) \in 1 .. Len(t)
      BY <1>2, <2>2
    <3> QED BY <1>3, <2>2, <3>1 DEF Table
  <2> QED BY <2>1, <2>2
<1>5. u \in Seq(ToSet(u))
  BY <1>2 DEF ToSet
<1> QED BY <1>4, <1>5 DEF Table, u

LEMMA FiveTablesJoin ==
  ASSUME NEW s, NEW a, NEW b, NEW c, NEW d, NEW e, Table(s), Table(a), Table(b), Table(c), Table(d), Table(e)
  PROVE  Table(s \o a \o b \o c \o d \o e)
<1>1. Table(s \o a \o b)
  BY TablesJoin
<1>2. Table(s \o a \o b \o c \o d)
  BY <1>1, TablesJoin
<1> QED BY <1>2, TablesJoin

\* One look at a path tells.
Far(p) == p[1] \notin {":", "projects"} \/ p[3] \notin {":", "mcp", "automation"}
LEMMA FarPaths ==
  ASSUME NEW s, NEW n, Len(s) = n, \A k \in 1 .. n : Far(s[k].path)
  PROVE  \A k \in 1 .. Len(s) : ~NearPath(s[k].path)
BY DEF Far, NearPath

\* Outside the MCP and automation controllers no route can be taken for theirs.
LEMMA RoutesTable == Table(Api!Routes)
<1>AuthRoutes. Table(Api!AuthRoutes)
  <2>1. \A k \in 1 .. Len(Api!AuthRoutes) : ~NearPath(Api!AuthRoutes[k].path)
    BY SMTT(100) DEF Api!AuthRoutes, NearPath, Api!Get, Api!Post, Api!Route, Api!Id
  <2>2. Api!AuthRoutes \in Seq(ToSet(Api!AuthRoutes))
    BY SMTT(60) DEF Api!AuthRoutes, ToSet
  <2> QED BY <2>1, <2>2 DEF Table
<1>AdminRoutes. Table(Api!AdminRoutes)
  <2>1. \A k \in 1 .. Len(Api!AdminRoutes) : ~NearPath(Api!AdminRoutes[k].path)
    BY SMTT(100) DEF Api!AdminRoutes, NearPath, Api!Get, Api!Route, Api!Id
  <2>2. Api!AdminRoutes \in Seq(ToSet(Api!AdminRoutes))
    BY SMTT(60) DEF Api!AdminRoutes, ToSet
  <2> QED BY <2>1, <2>2 DEF Table
<1>SetupRoutes. Table(Api!SetupRoutes)
  <2>1. \A k \in 1 .. Len(Api!SetupRoutes) : ~NearPath(Api!SetupRoutes[k].path)
    BY SMTT(100) DEF Api!SetupRoutes, NearPath, Api!Get, Api!Post, Api!Route, Api!Id
  <2>2. Api!SetupRoutes \in Seq(ToSet(Api!SetupRoutes))
    BY SMTT(60) DEF Api!SetupRoutes, ToSet
  <2> QED BY <2>1, <2>2 DEF Table
<1>HealthRoutes. Table(Api!HealthRoutes)
  <2>1. \A k \in 1 .. Len(Api!HealthRoutes) : ~NearPath(Api!HealthRoutes[k].path)
    BY SMTT(100) DEF Api!HealthRoutes, NearPath, Api!Get, Api!Route, Api!Id
  <2>2. Api!HealthRoutes \in Seq(ToSet(Api!HealthRoutes))
    BY SMTT(60) DEF Api!HealthRoutes, ToSet
  <2> QED BY <2>1, <2>2 DEF Table
<1>WorkspaceRoutes. Table(Api!WorkspaceRoutes)
  <2>1. \A k \in 1 .. Len(Api!WorkspaceRoutes) : ~NearPath(Api!WorkspaceRoutes[k].path)
    <3>1. \A k \in 1 .. 14 : Api!WorkspaceRoutes[k].path[1] \notin {":", "projects"}
      BY SMTT(60) DEF Api!WorkspaceRoutes, Api!Delete, Api!Get, Api!Patch, Api!Post, Api!Put, Api!Route, Api!Id
    <3>2. \A k \in 15 .. 28 : Api!WorkspaceRoutes[k].path[1] \notin {":", "projects"}
      BY SMTT(60) DEF Api!WorkspaceRoutes, Api!Delete, Api!Get, Api!Patch, Api!Post, Api!Put, Api!Route, Api!Id
    <3>3. Len(Api!WorkspaceRoutes) = 28
      BY DEF Api!WorkspaceRoutes
    <3>4. \A k \in 1 .. 28 : Far(Api!WorkspaceRoutes[k].path)
      BY <3>1, <3>2 DEF Far
    <3> QED BY ONLY <3>3, <3>4, FarPaths
  <2>2. Api!WorkspaceRoutes \in Seq(ToSet(Api!WorkspaceRoutes))
    BY SMTT(60) DEF Api!WorkspaceRoutes, ToSet
  <2> QED BY <2>1, <2>2 DEF Table
<1>ProjectRoutes. Table(Api!ProjectRoutes)
  <2>1. \A k \in 1 .. Len(Api!ProjectRoutes) : ~NearPath(Api!ProjectRoutes[k].path)
    BY SMTT(100) DEF Api!ProjectRoutes, NearPath, Api!Delete, Api!Get, Api!Patch, Api!Post, Api!Route, Api!Id
  <2>2. Api!ProjectRoutes \in Seq(ToSet(Api!ProjectRoutes))
    BY SMTT(60) DEF Api!ProjectRoutes, ToSet
  <2> QED BY <2>1, <2>2 DEF Table
<1>TestCaseRoutes. Table(Api!TestCaseRoutes)
  <2>1. \A k \in 1 .. Len(Api!TestCaseRoutes) : ~NearPath(Api!TestCaseRoutes[k].path)
    BY SMTT(100) DEF Api!TestCaseRoutes, NearPath, Api!Delete, Api!Get, Api!Post, Api!Put, Api!Route, Api!Id
  <2>2. Api!TestCaseRoutes \in Seq(ToSet(Api!TestCaseRoutes))
    BY SMTT(60) DEF Api!TestCaseRoutes, ToSet
  <2> QED BY <2>1, <2>2 DEF Table
<1>PlanRoutes. Table(Api!PlanRoutes)
  <2>1. \A k \in 1 .. Len(Api!PlanRoutes) : ~NearPath(Api!PlanRoutes[k].path)
    BY SMTT(100) DEF Api!PlanRoutes, NearPath, Api!Delete, Api!Get, Api!Patch, Api!Post, Api!Route, Api!Id
  <2>2. Api!PlanRoutes \in Seq(ToSet(Api!PlanRoutes))
    BY SMTT(60) DEF Api!PlanRoutes, ToSet
  <2> QED BY <2>1, <2>2 DEF Table
<1>CycleRoutes. Table(Api!CycleRoutes)
  <2>1. \A k \in 1 .. Len(Api!CycleRoutes) : ~NearPath(Api!CycleRoutes[k].path)
    BY SMTT(100) DEF Api!CycleRoutes, NearPath, Api!Delete, Api!Get, Api!Patch, Api!Post, Api!Route, Api!Id
  <2>2. Api!CycleRoutes \in Seq(ToSet(Api!CycleRoutes))
    BY SMTT(60) DEF Api!CycleRoutes, ToSet
  <2> QED BY <2>1, <2>2 DEF Table
<1>ScheduleRoutes. Table(Api!ScheduleRoutes)
  <2>1. \A k \in 1 .. Len(Api!ScheduleRoutes) : ~NearPath(Api!ScheduleRoutes[k].path)
    BY SMTT(100) DEF Api!ScheduleRoutes, NearPath, Api!Delete, Api!Get, Api!Patch, Api!Post, Api!Route, Api!Id
  <2>2. Api!ScheduleRoutes \in Seq(ToSet(Api!ScheduleRoutes))
    BY SMTT(60) DEF Api!ScheduleRoutes, ToSet
  <2> QED BY <2>1, <2>2 DEF Table
<1>BugRoutes. Table(Api!BugRoutes)
  <2>1. \A k \in 1 .. Len(Api!BugRoutes) : ~NearPath(Api!BugRoutes[k].path)
    BY SMTT(100) DEF Api!BugRoutes, NearPath, Api!Delete, Api!Get, Api!Patch, Api!Post, Api!Route, Api!Id
  <2>2. Api!BugRoutes \in Seq(ToSet(Api!BugRoutes))
    BY SMTT(60) DEF Api!BugRoutes, ToSet
  <2> QED BY <2>1, <2>2 DEF Table
<1>ExportRoutes. Table(Api!ExportRoutes)
  <2>1. \A k \in 1 .. Len(Api!ExportRoutes) : ~NearPath(Api!ExportRoutes[k].path)
    BY SMTT(100) DEF Api!ExportRoutes, NearPath, Api!Get, Api!Route, Api!Id
  <2>2. Api!ExportRoutes \in Seq(ToSet(Api!ExportRoutes))
    BY SMTT(60) DEF Api!ExportRoutes, ToSet
  <2> QED BY <2>1, <2>2 DEF Table
<1>ReportRoutes. Table(Api!ReportRoutes)
  <2>1. \A k \in 1 .. Len(Api!ReportRoutes) : ~NearPath(Api!ReportRoutes[k].path)
    BY SMTT(100) DEF Api!ReportRoutes, NearPath, Api!Get, Api!Route, Api!Id
  <2>2. Api!ReportRoutes \in Seq(ToSet(Api!ReportRoutes))
    BY SMTT(60) DEF Api!ReportRoutes, ToSet
  <2> QED BY <2>1, <2>2 DEF Table
<1>ZyraRoutes. Table(Api!ZyraRoutes)
  <2>1. \A k \in 1 .. Len(Api!ZyraRoutes) : ~NearPath(Api!ZyraRoutes[k].path)
    <3>1. \A k \in 1 .. 9 : Api!ZyraRoutes[k].path[3] \notin {":", "mcp", "automation"}
      BY SMTT(60) DEF Api!ZyraRoutes, Api!Delete, Api!Get, Api!Patch, Api!Post, Api!Route, Api!Id
    <3>2. \A k \in 10 .. 18 : Api!ZyraRoutes[k].path[3] \notin {":", "mcp", "automation"}
      BY SMTT(60) DEF Api!ZyraRoutes, Api!Delete, Api!Get, Api!Patch, Api!Post, Api!Route, Api!Id
    <3>3. Len(Api!ZyraRoutes) = 18
      BY DEF Api!ZyraRoutes
    <3>4. \A k \in 1 .. 18 : Far(Api!ZyraRoutes[k].path)
      BY <3>1, <3>2 DEF Far
    <3> QED BY ONLY <3>3, <3>4, FarPaths
  <2>2. Api!ZyraRoutes \in Seq(ToSet(Api!ZyraRoutes))
    BY SMTT(60) DEF Api!ZyraRoutes, ToSet
  <2> QED BY <2>1, <2>2 DEF Table
<1>KnowledgeFolderRoutes. Table(Api!KnowledgeFolderRoutes)
  <2>1. \A k \in 1 .. Len(Api!KnowledgeFolderRoutes) : ~NearPath(Api!KnowledgeFolderRoutes[k].path)
    <3>1. \A k \in 1 .. 11 : Api!KnowledgeFolderRoutes[k].path[3] \notin {":", "mcp", "automation"}
      BY SMTT(60) DEF Api!KnowledgeFolderRoutes, Api!Delete, Api!Get, Api!Patch, Api!Post, Api!Route, Api!Id
    <3>2. \A k \in 12 .. 21 : Api!KnowledgeFolderRoutes[k].path[3] \notin {":", "mcp", "automation"}
      BY SMTT(60) DEF Api!KnowledgeFolderRoutes, Api!Delete, Api!Get, Api!Patch, Api!Post, Api!Route, Api!Id
    <3>3. Len(Api!KnowledgeFolderRoutes) = 21
      BY DEF Api!KnowledgeFolderRoutes
    <3>4. \A k \in 1 .. 21 : Far(Api!KnowledgeFolderRoutes[k].path)
      BY <3>1, <3>2 DEF Far
    <3> QED BY ONLY <3>3, <3>4, FarPaths
  <2>2. Api!KnowledgeFolderRoutes \in Seq(ToSet(Api!KnowledgeFolderRoutes))
    BY SMTT(60) DEF Api!KnowledgeFolderRoutes, ToSet
  <2> QED BY <2>1, <2>2 DEF Table
<1>KnowledgeDocumentRoutes. Table(Api!KnowledgeDocumentRoutes)
  <2>1. \A k \in 1 .. Len(Api!KnowledgeDocumentRoutes) : ~NearPath(Api!KnowledgeDocumentRoutes[k].path)
    BY SMTT(100) DEF Api!KnowledgeDocumentRoutes, NearPath, Api!Delete, Api!Get, Api!Patch, Api!Post, Api!Route, Api!Id
  <2>2. Api!KnowledgeDocumentRoutes \in Seq(ToSet(Api!KnowledgeDocumentRoutes))
    BY SMTT(60) DEF Api!KnowledgeDocumentRoutes, ToSet
  <2> QED BY <2>1, <2>2 DEF Table
<1>KnowledgeItemRoutes. Table(Api!KnowledgeItemRoutes)
  <2>1. \A k \in 1 .. Len(Api!KnowledgeItemRoutes) : ~NearPath(Api!KnowledgeItemRoutes[k].path)
    BY SMTT(100) DEF Api!KnowledgeItemRoutes, NearPath, Api!Delete, Api!Get, Api!Patch, Api!Post, Api!Route, Api!Id
  <2>2. Api!KnowledgeItemRoutes \in Seq(ToSet(Api!KnowledgeItemRoutes))
    BY SMTT(60) DEF Api!KnowledgeItemRoutes, ToSet
  <2> QED BY <2>1, <2>2 DEF Table
<1>IntegrationRoutes. Table(Api!IntegrationRoutes)
  <2>1. \A k \in 1 .. Len(Api!IntegrationRoutes) : ~NearPath(Api!IntegrationRoutes[k].path)
    <3>1. \A k \in 1 .. 5 : Api!IntegrationRoutes[k].path[1] \notin {":", "projects"}
      BY SMTT(60) DEF Api!IntegrationRoutes, Api!Delete, Api!Get, Api!Post, Api!Route, Api!Id
    <3>2. \A k \in 6 .. 13 : Api!IntegrationRoutes[k].path[3] \notin {":", "mcp", "automation"}
      BY SMTT(60) DEF Api!IntegrationRoutes, Api!Delete, Api!Get, Api!Post, Api!Route, Api!Id
    <3>3. \A k \in 14 .. 21 : Api!IntegrationRoutes[k].path[3] \notin {":", "mcp", "automation"}
      BY SMTT(60) DEF Api!IntegrationRoutes, Api!Delete, Api!Get, Api!Post, Api!Route, Api!Id
    <3>4. Len(Api!IntegrationRoutes) = 21
      BY DEF Api!IntegrationRoutes
    <3>5. \A k \in 1 .. 21 : Far(Api!IntegrationRoutes[k].path)
      BY <3>1, <3>2, <3>3 DEF Far
    <3> QED BY ONLY <3>4, <3>5, FarPaths
  <2>2. Api!IntegrationRoutes \in Seq(ToSet(Api!IntegrationRoutes))
    BY SMTT(60) DEF Api!IntegrationRoutes, ToSet
  <2> QED BY <2>1, <2>2 DEF Table
<1>ActivityRoutes. Table(Api!ActivityRoutes)
  <2>1. \A k \in 1 .. Len(Api!ActivityRoutes) : ~NearPath(Api!ActivityRoutes[k].path)
    BY SMTT(100) DEF Api!ActivityRoutes, NearPath, Api!Delete, Api!Get, Api!Patch, Api!Post, Api!Route, Api!Id
  <2>2. Api!ActivityRoutes \in Seq(ToSet(Api!ActivityRoutes))
    BY SMTT(60) DEF Api!ActivityRoutes, ToSet
  <2> QED BY <2>1, <2>2 DEF Table
<1>PlaceholderRoutes. Table(Api!PlaceholderRoutes)
  <2>1. \A k \in 1 .. Len(Api!PlaceholderRoutes) : ~NearPath(Api!PlaceholderRoutes[k].path)
    BY SMTT(100) DEF Api!PlaceholderRoutes, NearPath, Api!Get, Api!Route, Api!Id
  <2>2. Api!PlaceholderRoutes \in Seq(ToSet(Api!PlaceholderRoutes))
    BY SMTT(60) DEF Api!PlaceholderRoutes, ToSet
  <2> QED BY <2>1, <2>2 DEF Table
<1>SignupRoutes. Table(Api!SignupRoutes)
  <2>1. \A k \in 1 .. Len(Api!SignupRoutes) : ~NearPath(Api!SignupRoutes[k].path)
    BY SMTT(100) DEF Api!SignupRoutes, NearPath, Api!Post, Api!Route, Api!Id
  <2>2. Api!SignupRoutes \in Seq(ToSet(Api!SignupRoutes))
    BY SMTT(60) DEF Api!SignupRoutes, ToSet
  <2> QED BY <2>1, <2>2 DEF Table
<1>CustomFieldRoutes. Table(Api!CustomFieldRoutes)
  <2>1. \A k \in 1 .. Len(Api!CustomFieldRoutes) : ~NearPath(Api!CustomFieldRoutes[k].path)
    BY SMTT(100) DEF Api!CustomFieldRoutes, NearPath, Api!Delete, Api!Get, Api!Patch, Api!Post, Api!Put, Api!Route, Api!Id
  <2>2. Api!CustomFieldRoutes \in Seq(ToSet(Api!CustomFieldRoutes))
    BY SMTT(60) DEF Api!CustomFieldRoutes, ToSet
  <2> QED BY <2>1, <2>2 DEF Table
<1>BillingRoutes. Table(Api!BillingRoutes)
  <2>1. \A k \in 1 .. Len(Api!BillingRoutes) : ~NearPath(Api!BillingRoutes[k].path)
    BY SMTT(100) DEF Api!BillingRoutes, NearPath, Api!Get, Api!Post, Api!Route, Api!Id
  <2>2. Api!BillingRoutes \in Seq(ToSet(Api!BillingRoutes))
    BY SMTT(60) DEF Api!BillingRoutes, ToSet
  <2> QED BY <2>1, <2>2 DEF Table
<1>McpRoutes. Table(Api!McpRoutes)
  BY DEF Table, MachineRoutes, Api!McpRoutes, ToSet
<1>AutomationRoutes. Table(Api!AutomationRoutes)
  <2>1. Api!AutomationRoutes \in Seq(ToSet(Api!AutomationRoutes))
    BY SMTT(60) DEF Api!AutomationRoutes, ToSet
  <2> QED BY <2>1 DEF Table, MachineRoutes, ToSet
<1> DEFINE first  == Api!AuthRoutes \o Api!AdminRoutes \o Api!SetupRoutes \o Api!HealthRoutes \o Api!WorkspaceRoutes \o Api!ProjectRoutes
           second == first \o Api!TestCaseRoutes \o Api!PlanRoutes \o Api!CycleRoutes \o Api!ScheduleRoutes \o Api!BugRoutes
           third  == second \o Api!ExportRoutes \o Api!ReportRoutes \o Api!ZyraRoutes \o Api!KnowledgeFolderRoutes \o Api!KnowledgeDocumentRoutes
           fourth == third \o Api!KnowledgeItemRoutes \o Api!IntegrationRoutes \o Api!ActivityRoutes \o Api!PlaceholderRoutes \o Api!SignupRoutes
<1>1. Api!Routes = fourth \o Api!CustomFieldRoutes \o Api!McpRoutes \o Api!BillingRoutes \o Api!AutomationRoutes
  BY DEF Api!Routes
<1>2. Table(first)
  BY <1>AuthRoutes, <1>AdminRoutes, <1>SetupRoutes, <1>HealthRoutes, <1>WorkspaceRoutes, <1>ProjectRoutes, FiveTablesJoin
<1> HIDE DEF first
<1>3. Table(second)
  BY <1>2, <1>TestCaseRoutes, <1>PlanRoutes, <1>CycleRoutes, <1>ScheduleRoutes, <1>BugRoutes, FiveTablesJoin
<1> HIDE DEF second
<1>4. Table(third)
  BY <1>3, <1>ExportRoutes, <1>ReportRoutes, <1>ZyraRoutes, <1>KnowledgeFolderRoutes, <1>KnowledgeDocumentRoutes, FiveTablesJoin
<1> HIDE DEF third
<1>5. Table(fourth)
  BY <1>4, <1>KnowledgeItemRoutes, <1>IntegrationRoutes, <1>ActivityRoutes, <1>PlaceholderRoutes, <1>SignupRoutes, FiveTablesJoin
<1> HIDE DEF fourth
<1>6. Table(fourth \o Api!CustomFieldRoutes \o Api!McpRoutes)
  BY <1>5, <1>CustomFieldRoutes, <1>McpRoutes, TablesJoin
<1>7. Table(Api!BillingRoutes) /\ Table(Api!AutomationRoutes)
  BY <1>BillingRoutes, <1>AutomationRoutes
<1> DEFINE fifth == fourth \o Api!CustomFieldRoutes \o Api!McpRoutes
<1>8. Table(fifth)
  BY <1>6
<1> HIDE DEF fifth
<1>9. Table(fifth \o Api!BillingRoutes \o Api!AutomationRoutes)
  BY <1>7, <1>8, TablesJoin
<1> QED BY <1>1, <1>9 DEF fifth

-----------------------------------------------------------------------------
MachineCalls == ToSet(Api!ReporterCalls) \cup {Api!McpCall}

\* A path below a project's automation controller.
OnAutomation(p) == /\ 3 \in DOMAIN p /\ Len(p) >= 4 /\ DOMAIN p = 1 .. Len(p)
                   /\ p[1] = "projects" /\ p[2] = ":" /\ p[3] = "automation"

\* Where a machine client's calls go: the reporter's to the automation controller, the tools' to MCP.
LEMMA ReporterPaths ==
  ASSUME NEW c \in ToSet(Api!ReporterCalls)
  PROVE  3 \in DOMAIN c.path /\ Len(c.path) >= 4 /\ DOMAIN c.path = 1 .. Len(c.path)
         /\ c.path[1] = "projects" /\ c.path[2] = ":" /\ c.path[3] = "automation"
<1>1. OnAutomation(<<"projects", ":", "automation", "cases", "resolve">>)
  BY DEF OnAutomation
<1>2. OnAutomation(<<"projects", ":", "automation", "runs">>)
  BY DEF OnAutomation
<1>3. OnAutomation(<<"projects", ":", "automation", "runs", ":", "results">>)
  BY DEF OnAutomation
<1>4. OnAutomation(<<"projects", ":", "automation", "runs", ":", "close">>)
  BY DEF OnAutomation
<1>5. OnAutomation(<<"projects", ":", "automation", "runs", ":", "results", ":", "evidence">>)
  BY DEF OnAutomation
<1>6. PICK k \in 1 .. 5 : c = Api!ReporterCalls[k]
  BY DEF ToSet, Api!ReporterCalls
<1>7. c.path \in {Api!ReporterCalls[1].path, Api!ReporterCalls[2].path, Api!ReporterCalls[3].path,
                  Api!ReporterCalls[4].path, Api!ReporterCalls[5].path}
  BY <1>6
<1>8. c.path \in {<<"projects", ":", "automation", "cases", "resolve">>, <<"projects", ":", "automation", "runs">>,
                  <<"projects", ":", "automation", "runs", ":", "results">>,
                  <<"projects", ":", "automation", "runs", ":", "close">>,
                  <<"projects", ":", "automation", "runs", ":", "results", ":", "evidence">>}
  BY <1>7 DEF Api!ReporterCalls, Api!Post, Api!Patch, Api!Route, Api!Id
<1>9. OnAutomation(c.path)
  BY ONLY <1>1, <1>2, <1>3, <1>4, <1>5, <1>8
<1> QED BY ONLY <1>9 DEF OnAutomation

LEMMA McpPath ==
  LET c == Api!McpCall IN
  /\ Len(c.path) = 3 /\ DOMAIN c.path = 1 .. 3
  /\ c.path[1] = "projects" /\ c.path[2] = ":" /\ c.path[3] = "mcp"
BY DEF Api!McpCall, Api!Post, Api!Route, Api!Id

LEMMA AutomationPaths == \A r \in ToSet(Api!AutomationRoutes) : r.path[3] = "automation"
BY SMTT(60) DEF ToSet, Api!AutomationRoutes, Api!Post, Api!Patch, Api!Get, Api!Route, Api!Id

LEMMA McpPaths == \A r \in ToSet(Api!McpRoutes) : r.path[3] = "mcp"
BY DEF ToSet, Api!McpRoutes, Api!Post, Api!Route, Api!Id

LEMMA MachineCallsLand ==
  ASSUME NEW c \in MachineCalls, NEW k \in Fitting(c)
  PROVE  IF c = Api!McpCall THEN Api!Routes[k] \in ToSet(Api!McpRoutes) /\ Api!Routes[k] \notin ToSet(Api!AutomationRoutes)
         ELSE Api!Routes[k] \in ToSet(Api!AutomationRoutes)
<1> DEFINE r == Api!Routes[k]
<1>1. /\ k \in DOMAIN Api!Routes /\ Len(r.path) = Len(c.path)
      /\ \A i \in DOMAIN c.path : r.path[i] \in {":", c.path[i]}
  BY DEF Fitting, Api!Fits, Api!Id
<1>2. NearPath(r.path) => r \in MachineRoutes
  <2>1. k \in 1 .. Len(Api!Routes)
    BY <1>1, RoutesTable DEF Table
  <2> QED BY <2>1, RoutesTable DEF Table
<1> HIDE DEF r
<1>3. CASE c = Api!McpCall
  <2>1. NearPath(r.path) /\ r.path[3] \in {":", "mcp"}
    BY <1>1, <1>3, McpPath DEF NearPath
  <2> QED BY <1>2, <1>3, <2>1, AutomationPaths, McpPaths DEF MachineRoutes, r
<1>4. CASE c /= Api!McpCall
  <2>1. c \in ToSet(Api!ReporterCalls)
    BY <1>4 DEF MachineCalls
  <2>2. /\ Len(c.path) >= 4 /\ {1, 2, 3} \subseteq DOMAIN c.path
        /\ c.path[1] = "projects" /\ c.path[2] = ":" /\ c.path[3] = "automation"
    BY <2>1, ReporterPaths
  <2>3. NearPath(r.path) /\ r.path[3] \in {":", "automation"}
    BY <1>1, <2>2 DEF NearPath
  <2> QED BY <1>2, <1>4, <2>3, McpPaths DEF MachineRoutes, r
<1> QED BY <1>3, <1>4

-----------------------------------------------------------------------------
\* What a request is known to be on each leg of its way.
GateRow(r) ==
  /\ r.bearer /= NoToken => r.call \in MachineCalls
  /\ r.tool.name /= "" => r.call = Api!McpCall
  /\ r.token \in {NoToken, r.bearer}
  /\ r.at \in {"guard", "handler"} => r.route \in Fitting(r.call)
  /\ r.at \in {"handler", "handled"} => ~(LockApplies(r.call) /\ r.locked = TRUE)
  /\ r.at = "handled" /\ r.token /= NoToken =>
       /\ r.project = r.token.project
       /\ r.tool.name = "record_execution_result" => r.owner = r.token.project

HttpRow(h) == \E at, call, cookie, bearer, project, tool, owner, user, token, route, locked :
  h = [at |-> at, call |-> call, cookie |-> cookie, bearer |-> bearer, project |-> project, tool |-> tool,
       owner |-> owner, user |-> user, token |-> token, route |-> route, locked |-> locked]

GateInv == hreq = NoRequest \/ (HttpRow(hreq) /\ GateRow(hreq))

LEMMA InitGate == HttpInit => GateInv
BY DEF HttpInit, GateInv

LEMMA SentRow ==
  ASSUME NEW c, NEW cookie, NEW bearer, NEW p, NEW tool, NEW owner,
         bearer /= NoToken => c \in MachineCalls, tool.name /= "" => c = Api!McpCall
  PROVE  LET r == HttpRequest(c, cookie, bearer, p, tool, owner) IN HttpRow(r) /\ GateRow(r)
<1> DEFINE r == HttpRequest(c, cookie, bearer, p, tool, owner)
<1>1. HttpRow(r)
  BY DEF HttpRow, HttpRequest
<1>2. r.bearer = bearer /\ r.call = c /\ r.tool = tool /\ r.token = NoToken /\ r.at = "middleware"
  BY DEF HttpRequest
<1> HIDE DEF r
<1>3. GateRow(r)
  BY <1>2 DEF GateRow
<1> QED BY <1>1, <1>3 DEF r

LEMMA GateSends == GateInv /\ (BrowserSends \/ ReporterSends \/ McpClientSends) => GateInv'
<1> SUFFICES ASSUME BrowserSends \/ ReporterSends \/ McpClientSends PROVE GateInv'
  OBVIOUS
<1>1. CASE BrowserSends
  <2>1. PICK c, cookie, p : hreq' = HttpRequest(c, cookie, NoToken, p, NoTool, p)
    BY <1>1 DEF BrowserSends
  <2>2. NoTool.name = ""
    BY DEF NoTool
  <2> QED BY <2>1, <2>2, SentRow DEF GateInv
<1>2. CASE ReporterSends
  <2>1. PICK c \in ToSet(Api!ReporterCalls) : \E t, p : hreq' = HttpRequest(c, FALSE, t, p, NoTool, p)
    BY <1>2 DEF ReporterSends
  <2>2. NoTool.name = "" /\ c \in MachineCalls
    BY DEF NoTool, MachineCalls
  <2> QED BY <2>1, <2>2, SentRow DEF GateInv
<1>3. CASE McpClientSends
  <2>1. PICK tool, t, p, owner : hreq' = HttpRequest(Api!McpCall, FALSE, t, p, tool, owner)
    BY <1>3 DEF McpClientSends
  <2>2. Api!McpCall \in MachineCalls
    BY DEF MachineCalls
  <2> QED BY <2>1, <2>2, SentRow DEF GateInv
<1> QED BY <1>1, <1>2, <1>3

\* The request as it leaves one leg of its way.
Leg(at, user, token, route, locked) ==
  [hreq EXCEPT !.at = at, !.user = user, !.token = token, !.route = route, !.locked = locked]

LEMMA Legs ==
  ASSUME HttpRow(hreq), NEW a, NEW u, NEW t, NEW k, NEW l
  PROVE  /\ [hreq EXCEPT !.at = a] = Leg(a, hreq.user, hreq.token, hreq.route, hreq.locked)
         /\ [hreq EXCEPT !.at = a, !.user = u] = Leg(a, u, hreq.token, hreq.route, hreq.locked)
         /\ [hreq EXCEPT !.at = a, !.user = u, !.token = t] = Leg(a, u, t, hreq.route, hreq.locked)
         /\ [hreq EXCEPT !.at = a, !.route = k] = Leg(a, hreq.user, hreq.token, k, hreq.locked)
         /\ [hreq EXCEPT !.locked = l, !.at = a] = Leg(a, hreq.user, hreq.token, hreq.route, l)
<1>1. PICK at0, call, cookie, bearer, project, tool, owner, user0, token0, route0, locked0 :
        hreq = [at |-> at0, call |-> call, cookie |-> cookie, bearer |-> bearer, project |-> project, tool |-> tool,
                owner |-> owner, user |-> user0, token |-> token0, route |-> route0, locked |-> locked0]
  BY DEF HttpRow
<1>2. /\ [hreq EXCEPT !.at = a] = Leg(a, hreq.user, hreq.token, hreq.route, hreq.locked)
      /\ [hreq EXCEPT !.at = a, !.user = u] = Leg(a, u, hreq.token, hreq.route, hreq.locked)
  BY <1>1, ZenonT(40) DEF Leg
<1>3. [hreq EXCEPT !.at = a, !.user = u, !.token = t] = Leg(a, u, t, hreq.route, hreq.locked)
  BY <1>1, ZenonT(40) DEF Leg
<1>4. [hreq EXCEPT !.at = a, !.route = k] = Leg(a, hreq.user, hreq.token, k, hreq.locked)
  BY <1>1, ZenonT(40) DEF Leg
<1>5. [hreq EXCEPT !.locked = l, !.at = a] = Leg(a, hreq.user, hreq.token, hreq.route, l)
  BY <1>1, ZenonT(40) DEF Leg
<1> QED BY <1>2, <1>3, <1>4, <1>5

\* What of it is new there, and what is as before.
LEMMA LegTaken ==
  ASSUME HttpRow(hreq), NEW at, NEW user, NEW token, NEW route, NEW locked,
         hreq' = Leg(at, user, token, route, locked)
  PROVE  /\ HttpRow(hreq')
         /\ hreq'.at = at /\ hreq'.token = token /\ hreq'.route = route /\ hreq'.locked = locked
         /\ hreq'.call = hreq.call /\ hreq'.bearer = hreq.bearer /\ hreq'.tool = hreq.tool
         /\ hreq'.project = hreq.project /\ hreq'.owner = hreq.owner
<1>1. PICK at0, call, cookie, bearer, project, tool, owner, user0, token0, route0, locked0 :
        hreq = [at |-> at0, call |-> call, cookie |-> cookie, bearer |-> bearer, project |-> project, tool |-> tool,
                owner |-> owner, user |-> user0, token |-> token0, route |-> route0, locked |-> locked0]
  BY DEF HttpRow
<1>2. hreq' = [at |-> at, call |-> call, cookie |-> cookie, bearer |-> bearer, project |-> project, tool |-> tool,
               owner |-> owner, user |-> user, token |-> token, route |-> route, locked |-> locked]
  BY <1>1 DEF Leg
<1>3. HttpRow(hreq')
  BY <1>2 DEF HttpRow
<1> QED BY ONLY <1>1, <1>2, <1>3

LEMMA useKeeps == GateInv /\ use => GateInv'
<1> SUFFICES ASSUME GateInv, use PROVE GateInv'
  OBVIOUS
<1>1. HttpRow(hreq) /\ GateRow(hreq)
  BY DEF GateInv, use, NoRequest
<1>2. PICK user, token : /\ token \in {NoToken, hreq.bearer}
        /\ hreq' = Leg("router", user, token, hreq.route, hreq.locked)
  <2>1. CASE hreq.cookie \/ hreq.bearer = NoToken
    <3>1. hreq' = [hreq EXCEPT !.at = "router", !.user = hreq.cookie]
      BY <2>1 DEF use
    <3>2. hreq.token = NoToken \/ hreq.token = hreq.bearer
      BY <1>1 DEF GateRow
    <3>3. hreq' = Leg("router", hreq.cookie, hreq.token, hreq.route, hreq.locked)
      BY <1>1, <3>1, Legs
    <3> QED BY <3>2, <3>3
  <2>2. CASE ~(hreq.cookie \/ hreq.bearer = NoToken)
    <3>1. hreq' = [hreq EXCEPT !.at = "router", !.user = TRUE, !.token = hreq.bearer]
      BY <2>2 DEF use
    <3>2. hreq' = Leg("router", TRUE, hreq.bearer, hreq.route, hreq.locked)
      BY <1>1, <3>1, Legs
    <3> QED BY <3>2
  <2> QED BY <2>1, <2>2
<1>3. /\ HttpRow(hreq') /\ hreq'.at = "router" /\ hreq'.token = token
      /\ hreq'.call = hreq.call /\ hreq'.bearer = hreq.bearer /\ hreq'.tool = hreq.tool
  BY <1>1, <1>2, LegTaken
<1>4. GateRow(hreq')
  BY <1>1, <1>2, <1>3 DEF GateRow
<1> QED BY <1>3, <1>4 DEF GateInv

LEMMA dispatchRouteKeeps == GateInv /\ dispatchRoute => GateInv'
<1> SUFFICES ASSUME GateInv, dispatchRoute PROVE GateInv'
  OBVIOUS
<1>1. HttpRow(hreq) /\ GateRow(hreq)
  BY DEF GateInv, dispatchRoute, NoRequest
<1>2. PICK at, route : /\ at = "not_found" \/ (at = "guard" /\ route \in Fitting(hreq.call))
        /\ hreq' = Leg(at, hreq.user, hreq.token, route, hreq.locked)
  <2> DEFINE fit == Fitting(hreq.call)
             first == CHOOSE k \in fit : \A j \in fit : k <= j
  <2>1. CASE fit = {}
    <3>1. hreq' = [hreq EXCEPT !.at = "not_found"]
      BY <2>1 DEF dispatchRoute
    <3>2. hreq' = Leg("not_found", hreq.user, hreq.token, hreq.route, hreq.locked)
      BY <1>1, <3>1, Legs
    <3> QED BY <3>2
  <2>2. CASE fit /= {}
    <3>1. hreq' = [hreq EXCEPT !.at = "guard", !.route = first]
      BY <2>2 DEF dispatchRoute
    <3>2. first \in fit
      <4>1. fit \subseteq Nat
        BY RoutesTable DEF Fitting, Table
      <4> HIDE DEF fit
      <4>2. PICK k \in fit : \A j \in fit : ~(<<j, k>> \in OpToRel(<, Nat))
        BY <2>2, <4>1, NatLessThanWellFounded, WFMin
      <4>3. \A j \in fit : k <= j
        <5> TAKE j \in fit
        <5>1. k \in Nat /\ j \in Nat /\ ~(j < k)
          BY <4>1, <4>2 DEF OpToRel
        <5> QED BY <5>1
      <4> QED BY <4>3
    <3> HIDE DEF first
    <3>3. hreq' = Leg("guard", hreq.user, hreq.token, first, hreq.locked)
      BY <1>1, <3>1, Legs
    <3> QED BY <3>2, <3>3
  <2> QED BY <2>1, <2>2
<1>3. /\ HttpRow(hreq') /\ hreq'.at = at /\ hreq'.token = hreq.token /\ hreq'.route = route
      /\ hreq'.call = hreq.call /\ hreq'.bearer = hreq.bearer /\ hreq'.tool = hreq.tool
  BY <1>1, <1>2, LegTaken
<1>4. GateRow(hreq')
  BY <1>1, <1>2, <1>3 DEF GateRow
<1> QED BY <1>3, <1>4 DEF GateInv

LEMMA canActivateKeeps == GateInv /\ canActivate => GateInv'
<1> SUFFICES ASSUME GateInv, canActivate PROVE GateInv'
  OBVIOUS
<1>1. HttpRow(hreq) /\ GateRow(hreq) /\ hreq.at = "guard"
  BY DEF GateInv, canActivate, NoRequest
<1> DEFINE shut == hreq.project \in hlocked
           at == IF LockApplies(hreq.call) /\ shut THEN "refused" ELSE "handler"
<1>2. hreq' = Leg(at, hreq.user, hreq.token, hreq.route, shut)
  <2>1. hreq' = [hreq EXCEPT !.locked = shut, !.at = at]
    BY DEF canActivate
  <2> HIDE DEF shut, at
  <2> QED BY <1>1, <2>1, Legs
<1>3. at = "refused" \/ (at = "handler" /\ ~(LockApplies(hreq.call) /\ shut = TRUE))
  OBVIOUS
<1> HIDE DEF shut, at
<1>4. /\ HttpRow(hreq') /\ hreq'.at = at /\ hreq'.token = hreq.token /\ hreq'.route = hreq.route /\ hreq'.locked = shut
      /\ hreq'.call = hreq.call /\ hreq'.bearer = hreq.bearer /\ hreq'.tool = hreq.tool
  BY <1>1, <1>2, LegTaken
<1>5. GateRow(hreq')
  BY <1>1, <1>3, <1>4 DEF GateRow
<1> QED BY <1>4, <1>5 DEF GateInv

LEMMA handleKeeps == GateInv /\ handle => GateInv'
<1> SUFFICES ASSUME GateInv, handle PROVE GateInv'
  OBVIOUS
<1>1. HttpRow(hreq) /\ GateRow(hreq) /\ hreq.at = "handler"
  BY DEF GateInv, handle, NoRequest
<1> DEFINE r == Api!Routes[hreq.route]
           may == CASE r \in ToSet(Api!AutomationRoutes) -> assertTokenScope(r.name)
                    [] r \in ToSet(Api!McpRoutes) -> mcpAllows
                    [] OTHER -> TRUE
           at == IF may THEN "handled" ELSE "refused"
<1>2. hreq' = Leg(at, hreq.user, hreq.token, hreq.route, hreq.locked)
  <2>1. hreq' = [hreq EXCEPT !.at = at]
    BY DEF handle
  <2> HIDE DEF at
  <2> QED BY <1>1, <2>1, Legs
<1>3. ASSUME at = "handled", hreq.token /= NoToken
      PROVE  /\ hreq.project = hreq.token.project
             /\ hreq.tool.name = "record_execution_result" => hreq.owner = hreq.token.project
  <2>1. hreq.call \in MachineCalls /\ hreq.route \in Fitting(hreq.call)
    BY <1>1, <1>3 DEF GateRow
  <2>2. CASE hreq.call = Api!McpCall
    <3>1. r \in ToSet(Api!McpRoutes) /\ r \notin ToSet(Api!AutomationRoutes)
      BY <2>1, <2>2, MachineCallsLand
    <3>2. may = mcpAllows
      BY <3>1
    <3>3. mcpAllows
      BY <1>3, <3>2
    <3> QED BY <3>3 DEF mcpAllows, ownsExecution
  <2>3. CASE hreq.call /= Api!McpCall
    <3>1. r \in ToSet(Api!AutomationRoutes)
      BY <2>1, <2>3, MachineCallsLand
    <3>2. r \notin ToSet(Api!McpRoutes)
      BY <3>1, AutomationPaths, McpPaths
    <3>3. may = assertTokenScope(r.name)
      BY <3>1, <3>2
    <3>4. assertTokenScope(r.name)
      BY <1>3, <3>3
    <3>5. hreq.tool.name = ""
      BY <1>1, <2>3 DEF GateRow
    <3> QED BY <1>3, <3>4, <3>5 DEF assertTokenScope
  <2> QED BY <2>2, <2>3
<1>4. at = "handled" \/ at = "refused"
  OBVIOUS
<1> HIDE DEF at
<1>5. /\ HttpRow(hreq') /\ hreq'.at = at /\ hreq'.token = hreq.token /\ hreq'.locked = hreq.locked
      /\ hreq'.call = hreq.call /\ hreq'.bearer = hreq.bearer /\ hreq'.tool = hreq.tool
      /\ hreq'.project = hreq.project /\ hreq'.owner = hreq.owner
  BY <1>1, <1>2, LegTaken
<1>6. GateRow(hreq')
  BY <1>1, <1>3, <1>4, <1>5 DEF GateRow
<1> QED BY <1>5, <1>6 DEF GateInv

LEMMA NextGate == GateInv /\ [HttpNext]_httpVars => GateInv'
<1> SUFFICES ASSUME GateInv, [HttpNext]_httpVars PROVE GateInv'
  OBVIOUS
<1>1. CASE UNCHANGED hreq
  BY <1>1 DEF GateInv
<1>2. CASE Answered
  BY <1>2 DEF Answered, GateInv
<1>3. UNCHANGED hreq \/ Answered \/ BrowserSends \/ ReporterSends \/ McpClientSends
      \/ use \/ dispatchRoute \/ canActivate \/ handle
  BY DEF HttpNext, httpVars, PlanMoves
<1> QED BY <1>1, <1>2, <1>3, GateSends, useKeeps, dispatchRouteKeeps, canActivateKeeps, handleKeeps

LEMMA GateInvHolds == GateInv => TokensStayHome /\ LockedStaysReadable
<1> SUFFICES ASSUME GateInv, hreq.at = "handled" PROVE TokensStayHome /\ LockedStaysReadable
  BY DEF TokensStayHome, LockedStaysReadable
<1>1. GateRow(hreq)
  BY DEF GateInv, NoRequest
<1> QED BY <1>1 DEF GateRow, TokensStayHome, LockedStaysReadable, LockApplies

\* Whatever the plan and the clients do while a request is on its way: what a token makes the
\* automation and MCP handlers do is done in its own project, and a project that was locked when
\* the guard looked is changed through none of its routes.
THEOREM GateKeepsProjects == HttpSpec => [](TokensStayHome /\ LockedStaysReadable)
<1> QED
  BY InitGate, NextGate, GateInvHolds, PTL DEF HttpSpec
=============================================================================
