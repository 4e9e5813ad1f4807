------------------------------ MODULE Screens -------------------------------
(***************************************************************************)
(* The screens of the web app at work: what may be clicked, what a handler  *)
(* does between two awaits, and answers that come when they come.  React    *)
(* applies the changes of a handler before the next event, so a handler is  *)
(* atomic from one await to the next.  A read is answered with the rows at  *)
(* its arrival; a request that fails has changed nothing.                   *)
(***************************************************************************)
EXTENDS Naturals, Sequences, FiniteSets, SequencesExt, ScreenScript

CONSTANTS
  SJob,        \* handlers in flight at once
  MaxPresses   \* bound: clicks of one behaviour

VARIABLES
  screen,   \* the screen that is open
  view,     \* its busy flags, its open dialogs, what it shows that is out of date
  sjob      \* the handlers in flight

screenVars == <<screen, view, sjob>>

Runs      == INSTANCE RunScreens
Knowledge == INSTANCE KnowledgeScreens
Plans     == INSTANCE PlanScreens
Agents    == INSTANCE AgentScreens
Settings  == INSTANCE SettingsScreens
Account   == INSTANCE AccountScreens

AllScreens == [run |-> Runs!RunScreen, execution |-> Runs!ExecutionScreen, runs |-> Runs!RunListScreen,
               schedules |-> Runs!ScheduleScreen,
               knowledge |-> Knowledge!KnowledgeScreen, document |-> Knowledge!DocumentScreen,
               bugs |-> Plans!BugScreen, plans |-> Plans!PlanListScreen, plan |-> Plans!PlanScreen,
               requirements |-> Plans!RequirementScreen,
               zyra |-> Agents!ZyraScreen, tasks |-> Agents!TaskBoardScreen, task |-> Agents!TaskScreen,
               zyraSettings |-> Agents!ZyraSettingsScreen,
               project |-> Settings!ProjectSettingsScreen, tokens |-> Settings!TokenScreen,
               fields |-> Settings!CustomFieldScreen, mapping |-> Settings!MappingScreen,
               trackers |-> Settings!TrackerScreen, members |-> Settings!WorkspaceMembersScreen,
               admins |-> Settings!AdminsScreen, workspace |-> Settings!WorkspaceScreen,
               keys |-> Settings!KeyScreen, billing |-> Settings!BillingScreen,
               projects |-> Account!ProjectListScreen, frame |-> Account!FrameScreen,
               import |-> Account!ImportScreen, login |-> Account!LoginScreen, signup |-> Account!SignupScreen,
               verifyOtp |-> Account!VerifyOtpScreen, forgotten |-> Account!ForgotPasswordScreen,
               reset |-> Account!ResetPasswordScreen, onboarding |-> Account!OnboardingScreen,
               invite |-> Account!InviteScreen, register |-> Account!RegisterScreen,
               setup |-> Account!SetupScreen, password |-> Account!PasswordScreen]
Dialogs  == AllScreens[screen].dialogs
Controls == AllScreens[screen].controls

NoJob == [at |-> "nothing"]

ScreensInit ==
  /\ screen \in DOMAIN AllScreens
  /\ view = [up |-> {}, open |-> {}, presses |-> 0, due |-> {}, made |-> {}, twice |-> {}, harmed |-> {},
             left |-> FALSE]
  /\ sjob = [j \in SJob |-> NoJob]

----------------------------------------------------------------------------
IsOpen(d)   == \E o \in view.open : o[1] = d
OpenedAt(d) == (CHOOSE o \in view.open : o[1] = d)[2]
Busy(f)     == \E x \in view.up : x[1] = f

\* A modal takes the clicks of what it was opened from and of the page.
Reachable(at) ==
  \/ at = Clock
  \/ /\ at \in {Page} \cup {o[1] : o \in view.open}
     /\ \A d \in Dialogs : d.covers /\ IsOpen(d.name) => d.name = at \/ (at /= Page /\ d.at /= at)

Enabled(c, row) ==
  /\ \A f \in c.h.unless : ~Busy(f)
  /\ \A f \in c.off : IF c.ofRow THEN <<f, row>> \notin view.up ELSE ~Busy(f)

Keeps(v, d) == {x \in v.open : x[1] /= d}

\* A form that its success closes: it is there to be sent once.
OneShot(job) == Hide(job.at) \in ToSet(job.h.steps)

\* One step of the handler in slot j, clicked at `born` for a row.
Effect(v, s, j, job) ==
  LET mark == <<job.h.name, job.row, job.form, job.pc>>
      owed == {<<j, job.h.name, r>> : r \in s.to}
  IN
  CASE s.do = "up"    -> [v EXCEPT !.up = {x \in @ : x[1] \notin s.to} \cup (s.to \X {job.row})]
    [] s.do = "down"  -> [v EXCEPT !.up = {x \in @ : x[1] \notin s.to}]
    [] s.do \in {"show", "hide"} ->
         LET d == CHOOSE d \in s.to : TRUE
             later == {o \in v.open : o[1] = d /\ o[2] > job.born}
         IN  [v EXCEPT !.open = Keeps(v, d) \cup (IF s.do = "show" THEN {<<d, v.presses>>} ELSE {}),
                       !.harmed = IF later = {} THEN @ ELSE @ \cup {d}]
    [] s.do = "patch" -> [v EXCEPT !.due = @ \ owed]
    [] s.do \in {"send", "load"} -> [v EXCEPT !.due = {x \in @ : x[3] \notin s.to}]
    [] s.do = "leave" -> [v EXCEPT !.left = TRUE, !.due = {}]
    [] s.do = "write" -> [v EXCEPT !.due = @ \cup owed]
    [] s.do = "make"  -> [v EXCEPT !.due = @ \cup owed, !.made = IF OneShot(job) THEN @ \cup {mark} ELSE @,
                                   !.twice = IF mark \in v.made THEN @ \cup {job.h.name} ELSE @]

\* The first step from pc on that is awaited, or the end.
NextAwait(steps, pc) ==
  LET later == {k \in pc .. Len(steps) : steps[k].do \in Awaited}
  IN  IF later = {} THEN Len(steps) + 1 ELSE CHOOSE k \in later : \A i \in later : k <= i

Through(v, j, job, steps, from, to) ==
  LET after[n \in 0 .. to + 1 - from] ==
        IF n = 0 THEN v ELSE Effect(after[n - 1], steps[from + n - 1], j, job)
  IN  after[to + 1 - from]

Lowered(v, job) == [v EXCEPT !.up = {x \in @ : x[1] \notin job.h.last}]

\* The handler runs on from step pc, to its next await or to its end.
RunsOn(v, j, job, pc) ==
  LET at == NextAwait(job.h.steps, pc)
      w  == Through(v, j, job, job.h.steps, pc, at - 1)
  IN  IF at > Len(job.h.steps)
        THEN view' = Lowered(w, job) /\ sjob' = [sjob EXCEPT ![j] = NoJob]
        ELSE view' = w /\ sjob' = [sjob EXCEPT ![j] = [job EXCEPT !.pc = at]]

Pressed == view.presses < MaxPresses
Counted == [view EXCEPT !.presses = @ + 1]
Idle(j) == sjob[j] = NoJob /\ \A i \in SJob : sjob[i] = NoJob => j <= i

\* A click on a control.
Press(c, row, j) ==
  /\ Pressed /\ Idle(j) /\ Reachable(c.at) /\ Enabled(c, row) /\ UNCHANGED screen
  /\ RunsOn(Counted, j, [h |-> c.h, at |-> c.at, row |-> row, born |-> view.presses, pc |-> 1,
                         form |-> IF c.at \in {Page, Clock} THEN 0 ELSE OpenedAt(c.at)], 1)

\* A button that only opens a dialog, and the ways to close one.
OpenDialog(d) ==
  /\ Pressed /\ Reachable(d.at) /\ ~IsOpen(d.name) /\ UNCHANGED <<screen, sjob>>
  /\ view' = [Counted EXCEPT !.open = @ \cup {<<d.name, view.presses + 1>>}]

\* Mutant: a dialog can be closed while it saves.
CloseDialogAnyTime(d) ==
  /\ Pressed /\ Reachable(d.name) /\ UNCHANGED <<screen, sjob>>
  /\ view' = [Counted EXCEPT !.open = Keeps(view, d.name), !.up = {x \in @ : x[1] \notin d.drops}]
CloseDialog(d) ==
  /\ Pressed /\ Reachable(d.name) /\ UNCHANGED <<screen, sjob>>
  /\ \A f \in d.keep : ~Busy(f)
  /\ view' = [Counted EXCEPT !.open = Keeps(view, d.name), !.up = {x \in @ : x[1] \notin d.drops}]

\* The answer to what the handler awaits.
Answer(j) ==
  /\ sjob[j] /= NoJob /\ UNCHANGED screen
  /\ RunsOn(Effect(view, sjob[j].h.steps[sjob[j].pc], j, sjob[j]), j, sjob[j], sjob[j].pc + 1)

\* An error instead: the rest of the try block is skipped.  A list that cannot be read
\* again says so, and is no longer owed.
Failure(j) ==
  /\ sjob[j] /= NoJob /\ UNCHANGED screen
  /\ sjob' = [sjob EXCEPT ![j] = NoJob]
  /\ LET h == sjob[j].h
         v == IF h.steps[sjob[j].pc].do = "load" THEN [view EXCEPT !.due = {x \in @ : x[1] /= j}] ELSE view
     IN  view' = Lowered(Through(v, j, sjob[j], h.catch, 1, Len(h.catch)), sjob[j])

ScreensNext ==
  /\ ~view.left
  /\ \/ \E c \in Controls, row \in {1, 2}, j \in SJob : (c.ofRow \/ row = 1) /\ Press(c, row, j)
     \/ \E d \in Dialogs : OpenDialog(d) \/ CloseDialog(d)
     \/ \E j \in SJob : Answer(j) \/ Failure(j)

ScreensSpec == ScreensInit /\ [][ScreensNext]_screenVars

----------------------------------------------------------------------------
\* What the code does not guard, by screen and handler.
Unlocked ==   \* no busy flag, or one that another row takes over: two clicks, two rows
  {<<"knowledge", "handleDuplicateDocument">>, <<"document", "handleDuplicate">>,
   <<"requirements", "handleGenerateFromTicket">>, <<"import", "handleImport">>}
Lagging ==    \* ends without showing all it wrote
  {<<"run", "handleRunStatusChange">>, <<"run", "handleBugSubmit">>, <<"bugs", "handleRemoveEditAttachment">>,
   <<"task", "handleDeleteSelectedDrafts">>, <<"fields", "handleSubmitEdit">>}
Remade ==     \* a later step failed and the form is sent anew, the row made a second time
  {<<"run", "handleBugSubmit">>, <<"knowledge", "handleUpload">>, <<"bugs", "handleCreate">>,
   <<"task", "handleSave">>}
Guarded ==    \* the dialogs that refuse to close while they save
  {<<"run", "picker">>, <<"knowledge", "upload">>, <<"tasks", "create">>, <<"project", "removal">>,
   <<"project", "deleteProject">>, <<"projects", "create">>, <<"frame", "logout">>}

Makes(h) == \E k \in DOMAIN h.steps : h.steps[k].do = "make"

----------------------------------------------------------------------------
(* What the scripts of all screens have in common, and why the rest of the *)
(* work can go on around them in any order.                                *)

Words == {"up", "down", "show", "hide", "patch", "send", "leave"} \cup Awaited
Steps == [do : Words, to : SUBSET STRING]
IsScript(q) == q \in Seq(Steps) /\ \A k \in DOMAIN q : q[k].do \in {"up", "down", "show", "hide"} => \E x \in q[k].to : q[k].to = {x}
IsHandler(h) == IsScript(h.steps) /\ IsScript(h.catch) /\ h.name \in STRING /\ \A k \in DOMAIN h.catch : h.catch[k].do \notin Awaited \cup {"up"}

\* However the handler ends, it has lowered the flags it raised, or left the page.
Tidy(h) ==
  \A k \in DOMAIN h.steps : h.steps[k].do = "up" =>
    \/ h.steps[k].to \subseteq h.last
    \/ /\ h.steps[Len(h.steps)] = [do |-> "down", to |-> h.steps[k].to] \/ h.steps[Len(h.steps)].do = "leave"
       /\ \E i \in DOMAIN h.catch : h.catch[i] = [do |-> "down", to |-> h.steps[k].to]

\* What it has written it shows before it ends, and before it does what may fail, or when that has failed.
Shows(s, r) == s.do = "leave" \/ (s.do \in {"patch", "send", "load"} /\ r \in s.to)
Tells(h) ==
  \A k \in DOMAIN h.steps : h.steps[k].do \in {"write", "make"} => \A r \in h.steps[k].to :
    /\ \E m \in k + 1 .. Len(h.steps) : Shows(h.steps[m], r)
    /\ \A n \in k + 1 .. Len(h.steps) : h.steps[n].do \in {"write", "make"} =>
         (\E m \in k + 1 .. n - 1 : Shows(h.steps[m], r)) \/ \E i \in DOMAIN h.catch : Shows(h.catch[i], r)

\* Flag f is a lock: who lowers it has raised it at once, and could not have started while it was up.
Lowers(h, f) == f \in h.last \/ \E s \in ToSet(h.steps) \cup ToSet(h.catch) : s.do = "down" /\ f \in s.to
Claims(c, f) ==
  /\ f \in c.h.unless \/ (f \in c.off /\ ~c.ofRow)
  /\ \E k \in 1 .. NextAwait(c.h.steps, 1) - 1 : c.h.steps[k] = Up(f)
  /\ \A s \in ToSet(c.h.steps) : s.do = "down" => f \notin s.to
IsLock(scr, f) ==
  /\ \A c \in AllScreens[scr].controls : Lowers(c.h, f) => Claims(c, f)
  /\ \A d \in AllScreens[scr].dialogs : f \notin d.drops
FlagsOf(h)   == UNION {s.to : s \in ToSet(h.steps)}
OneAtATime(scr, h) ==
  \E f \in FlagsOf(h) : IsLock(scr, f) /\ \A c \in AllScreens[scr].controls : c.h.name = h.name => Lowers(c.h, f)

\* Dialog d is opened from the page before anything is awaited, and touched later on only by
\* what it holds itself under a lock that keeps it open.
Touches(s, d) == s.do \in {"show", "hide"} /\ d \in s.to
IsHome(scr, d) ==
  /\ d \notin {Page, Clock} /\ \E x \in AllScreens[scr].dialogs : x.name = d
  /\ \E f \in UNION {x.keep : x \in AllScreens[scr].dialogs} :
       /\ IsLock(scr, f)
       /\ \A x \in AllScreens[scr].dialogs : x.name = d => f \in x.keep /\ x.covers
       /\ \A c \in AllScreens[scr].controls :
            /\ \A k \in DOMAIN c.h.steps : Touches(c.h.steps[k], d) =>
                 /\ \A i \in DOMAIN c.h.steps : Touches(c.h.steps[i], d) => i = k
                 /\ IF k < NextAwait(c.h.steps, 1) THEN c.at = Page ELSE c.at = d /\ Lowers(c.h, f)
            /\ \A k \in DOMAIN c.h.catch : Touches(c.h.catch[k], d) =>
                 /\ \A i \in DOMAIN c.h.catch : Touches(c.h.catch[i], d) => i = k
                 /\ c.at = d /\ Lowers(c.h, f)
                 /\ \A i \in DOMAIN c.h.steps : Touches(c.h.steps[i], d) => NextAwait(c.h.steps, i) > Len(c.h.steps)

\* The form goes in the same breath as its row comes, and is opened anew by a click only.
IsSentOnce(scr, c) ==
  /\ c.at \notin {Page, Clock}
  /\ OneAtATime(scr, c.h)
  /\ \A b \in AllScreens[scr].controls : b.h.name = c.h.name /\ Makes(b.h) => b.at = c.at
  /\ \A k \in DOMAIN c.h.steps : c.h.steps[k].do = "make" =>
       \E m \in k + 1 .. NextAwait(c.h.steps, k + 1) - 1 : c.h.steps[m] = Hide(c.at)
  /\ \A b \in AllScreens[scr].controls :
       /\ Show(c.at) \notin ToSet(b.h.catch)
       /\ \A k \in DOMAIN b.h.steps : b.h.steps[k] = Show(c.at) => k < NextAwait(b.h.steps, 1) /\ b.h.name /= c.h.name

ASSUME ScriptsAssumption ==
  \A scr \in DOMAIN AllScreens :
    /\ \A c \in AllScreens[scr].controls :
         /\ IsHandler(c.h) /\ Tidy(c.h)
         /\ Tells(c.h) \/ <<scr, c.h.name>> \in Lagging
         /\ Makes(c.h) => OneAtATime(scr, c.h) \/ <<scr, c.h.name>> \in Unlocked
         /\ Makes(c.h) /\ Hide(c.at) \in ToSet(c.h.steps) => IsSentOnce(scr, c) \/ <<scr, c.h.name>> \in Remade
    /\ \A g \in Guarded : g[1] = scr => IsHome(scr, g[2])

----------------------------------------------------------------------------
\* Nothing is created twice by a second click while the first is on its way.
OneCreation ==
  \A i, j \in SJob : i /= j /\ sjob[i] /= NoJob /\ sjob[j] /= NoJob /\ Makes(sjob[i].h) /\ <<screen, sjob[i].h.name>> \notin Unlocked
                     => <<sjob[i].h.name, sjob[i].row>> /= <<sjob[j].h.name, sjob[j].row>>

\* A busy flag is up only while a handler that raised it is on its way: no error and no
\* order of answers disables a button for good.
NothingStuck ==
  \A x \in view.up : view.left \/ \E j \in SJob : sjob[j] /= NoJob /\ Up(x[1]) \in ToSet(sjob[j].h.steps)

\* A handler that ends leaves no list on the screen without its change.
WritesShown == \A x \in view.due : sjob[x[1]] /= NoJob \/ <<screen, x[2]>> \in Lagging

\* A dialog that cannot be closed while it is saving is never closed or refilled by the
\* answer to what was clicked before it was opened.
AnswersLandHome == \A d \in view.harmed : <<screen, d>> \notin Guarded

\* A form that closes on success is not sent again after its row was made.
NoRemake == \A h \in view.twice : <<screen, h>> \in Remade

ScreensSound == OneCreation /\ NothingStuck /\ WritesShown /\ AnswersLandHome /\ NoRemake
=============================================================================
