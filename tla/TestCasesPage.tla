---------------------------- MODULE TestCasesPage ----------------------------
(***************************************************************************)
(* The test case repository screen: what the user clicks, what is on the   *)
(* wire, and what answers do to the screen when they arrive.  React applies *)
(* a handler's state changes before the next event, so a handler is atomic  *)
(* up to its next await.  A write takes effect before its answer arrives; a *)
(* read is answered with the rows at its arrival.  Two equal reads on the   *)
(* wire count as one.                                                       *)
(***************************************************************************)
EXTENDS Integers, FiniteSets, Sequences, SequencesExt

CONSTANTS
  PCase,      \* test cases of the project
  PSuite,     \* suites
  PJob,       \* slots for handlers that wait for an answer
  MaxEvents   \* bound: clicks and changes of one behaviour

VARIABLES
  stored,     \* the server's rows
  ui,         \* the state hooks of the page
  loads,      \* list requests on the wire
  opening,    \* cases whose details were asked for by a click on their row
  pjob,       \* handlers that wait for an answer
  events

tcpVars == <<stored, ui, loads, opening, pjob, events>>

All == 0      \* the two nodes of the suite tree that are no suites
None_ == -1
Absent == [state |-> "none", suite |-> 0, status |-> "Draft", text |-> 0]
Blank == [from |-> 0, suite |-> 0, status |-> "Draft"]
Ready == [op |-> "", step |-> "", id |-> 0, ids |-> {}, suite |-> 0, status |-> "", from |-> 0,
          q |-> [suite |-> 0, status |-> "all", page |-> 1, size |-> 1]]

PanelOp == {"create", "create-next", "update", "delete", "archive", "unarchive"}
BulkOp  == {"bulk delete", "bulk archive", "bulk move"}

PageInit ==
  /\ stored = [c \in PCase |-> IF c = 1 THEN [Absent EXCEPT !.state = "live", !.text = c] ELSE Absent]
  /\ ui = [suite |-> All, status |-> "all", page |-> 1, size |-> 1, list |-> {}, total |-> 0,
           loading |-> TRUE, error |-> FALSE, selected |-> {}, selecting |-> FALSE,
           mode |-> "closed", id |-> 0, panelLoading |-> FALSE, saving |-> FALSE, form |-> Blank,
           bulkOpen |-> FALSE, bulkSaving |-> FALSE,
           dialog |-> "", target |-> 0, creating |-> FALSE, renaming |-> FALSE, deleting |-> FALSE,
           archived |-> 0, unfiled |-> 0]
  /\ loads = {[suite |-> All, status |-> "all", page |-> 1, size |-> 1]}
  /\ opening = {}
  /\ pjob = [j \in PJob |-> Ready]
  /\ events = 0

-----------------------------------------------------------------------------
(* The server, as the page uses it *)

Known == {c \in PCase : stored[c].state = "live"}

\* Archived cases are listed only when asked for.
Matching(q) ==
  {c \in Known : /\ q.suite = All \/ (q.suite = None_ /\ stored[c].suite = 0) \/ q.suite = stored[c].suite
                 /\ IF q.status = "all" THEN stored[c].status /= "Archived" ELSE stored[c].status = q.status}

PageOf(q) ==
  LET rows == SetToSortSeq(Matching(q), <)
      from == (q.page - 1) * q.size + 1
      to   == IF from + q.size - 1 < Len(rows) THEN from + q.size - 1 ELSE Len(rows)
  IN  {rows[i] : i \in from .. to}

-----------------------------------------------------------------------------
(* What the page shows *)

Query == [suite |-> ui.suite, status |-> ui.status, page |-> ui.page, size |-> ui.size]
totalPages == IF ui.total = 0 THEN 1 ELSE (ui.total + ui.size - 1) \div ui.size
areAllCasesSelected == ui.list /= {} /\ ui.list \subseteq ui.selected
formSuiteId == IF ui.suite > 0 THEN ui.suite ELSE 0

\* The overlay of the panel and of a dialog takes every click outside of it.
Uncovered   == ui.mode = "closed" /\ ui.dialog = "" /\ ~ui.bulkOpen
TableShown  == Uncovered /\ ~ui.error /\ ~ui.loading /\ ui.total > 0
BulkBar     == Uncovered /\ ui.selected /= {}
FormShown   == ui.mode /= "closed" /\ ~ui.panelLoading
archivedHidden == ui.archived > 0 /\ ui.status /= "Archived"

User == events < MaxEvents /\ events' = events + 1

-----------------------------------------------------------------------------
(* Filters, pages and the list *)

\* A change of the filters loads the page that was open and, if that was not the
\* first, the first one too: the reset is an effect of its own.
FilteredCases(u) ==
  /\ ui' = [u EXCEPT !.page = 1, !.loading = TRUE, !.error = FALSE]
  /\ loads' = loads \cup {[suite |-> u.suite, status |-> u.status, page |-> p, size |-> u.size] : p \in {u.page, 1}}

SelectSuite(s) ==
  /\ User /\ Uncovered /\ s /= ui.suite
  /\ s = None_ => ui.unfiled > 0
  /\ FilteredCases([ui EXCEPT !.suite = s])
  /\ UNCHANGED <<stored, opening, pjob>>

SetStatusFilter(st) ==
  /\ User /\ Uncovered /\ st /= ui.status
  /\ st = "Archived" => archivedHidden
  /\ FilteredCases([ui EXCEPT !.status = st])
  /\ UNCHANGED <<stored, opening, pjob>>

clearSuiteFilters ==
  /\ User /\ Uncovered /\ ui.status /= "all"
  /\ FilteredCases([ui EXCEPT !.status = "all"])
  /\ UNCHANGED <<stored, opening, pjob>>

TurnPage(p, size) ==
  /\ User /\ TableShown
  /\ \/ size = ui.size /\ p \in {ui.page - 1, ui.page + 1} /\ p \in 1 .. totalPages
     \/ size /= ui.size /\ p = 1
  /\ ui' = [ui EXCEPT !.page = p, !.size = size, !.loading = TRUE, !.error = FALSE]
  /\ loads' = loads \cup {[suite |-> ui.suite, status |-> ui.status, page |-> p, size |-> size]}
  /\ UNCHANGED <<stored, opening, pjob>>

\* The effect on the loaded rows keeps of the selection what is on the page.
Shown(u, q) ==
  [u EXCEPT !.list = PageOf(q), !.total = Cardinality(Matching(q)), !.loading = FALSE,
            !.selected = @ \cap PageOf(q)]
NotShown(u) == [u EXCEPT !.list = {}, !.total = 0, !.error = TRUE, !.loading = FALSE, !.selected = {}]

loadSelectedSuiteCases(q) ==
  /\ q \in loads
  /\ loads' = loads \ {q}
  /\ ui' \in {Shown(ui, q), NotShown(ui)}
  /\ UNCHANGED <<stored, opening, pjob, events>>

\* loadData: the summary behind the counters.
loadData(u) == [u EXCEPT !.archived = Cardinality({c \in Known : stored[c].status = "Archived"}),
                         !.unfiled = Cardinality({c \in Known : stored[c].suite = 0})]

-----------------------------------------------------------------------------
(* Selection and bulk actions *)

toggleCaseSelection(c) ==
  /\ User /\ TableShown /\ c \in ui.list
  /\ ui' = [ui EXCEPT !.selected = IF c \in @ THEN @ \ {c} ELSE @ \cup {c}]
  /\ UNCHANGED <<stored, loads, opening, pjob>>

toggleSelectAllCases ==
  /\ User /\ TableShown
  /\ ui' = [ui EXCEPT !.selected = IF areAllCasesSelected THEN {} ELSE ui.list]
  /\ UNCHANGED <<stored, loads, opening, pjob>>

clearSelection ==
  /\ User /\ BulkBar
  /\ ui' = [ui EXCEPT !.selected = {}]
  /\ UNCHANGED <<stored, loads, opening, pjob>>

FreeJob == {j \in PJob : pjob[j].op = ""}
Wait(j, r) == pjob' = [pjob EXCEPT ![j] = r]
EndJob(j) == Wait(j, Ready)

selectAllMatchingCases(j) ==
  /\ User /\ BulkBar /\ Cardinality(ui.selected) < ui.total /\ ~ui.selecting
  /\ ui' = [ui EXCEPT !.selecting = TRUE, !.error = FALSE]
  /\ Wait(j, [Ready EXCEPT !.op = "select", !.step = "read", !.q = Query])
  /\ UNCHANGED <<stored, loads, opening>>

\* The pages of MAX_PAGE_SIZE, read one after the other, by the filters of the click.
SelectArrives(j) ==
  /\ pjob[j].op = "select"
  /\ ui' \in {[ui EXCEPT !.selected = Matching(pjob[j].q), !.selecting = FALSE],
              [ui EXCEPT !.error = TRUE, !.selecting = FALSE]}
  /\ EndJob(j)
  /\ UNCHANGED <<stored, loads, opening, events>>

openBulkActionModal ==
  /\ User /\ BulkBar
  /\ ui' = [ui EXCEPT !.bulkOpen = TRUE]
  /\ UNCHANGED <<stored, loads, opening, pjob>>

closeBulkActionModal ==
  /\ User /\ ui.bulkOpen /\ ~ui.bulkSaving
  /\ ui' = [ui EXCEPT !.bulkOpen = FALSE]
  /\ UNCHANGED <<stored, loads, opening, pjob>>

handleBulkActionConfirm(j, op, s) ==
  /\ User /\ ui.bulkOpen /\ ui.selected /= {} /\ ~ui.bulkSaving
  /\ op \in BulkOp
  /\ ui' = [ui EXCEPT !.bulkSaving = TRUE]
  /\ Wait(j, [Ready EXCEPT !.op = op, !.step = "write", !.ids = ui.selected, !.suite = s, !.q = Query,
                           !.id = IF ui.id \in ui.selected THEN ui.id ELSE 0])
  /\ UNCHANGED <<stored, loads, opening>>

-----------------------------------------------------------------------------
(* The panel *)

\* fillFormFromTestCase
Filled(c) == [from |-> stored[c].text, suite |-> IF stored[c].suite /= 0 THEN stored[c].suite ELSE formSuiteId,
              status |-> stored[c].status]
\* resetForm
Reset(s) == [Blank EXCEPT !.suite = s]

openCreatePanel(s) ==
  /\ User /\ Uncovered
  /\ s \in {formSuiteId} \cup PSuite
  /\ ui' = [ui EXCEPT !.mode = "create", !.id = 0, !.form = Reset(s)]
  /\ UNCHANGED <<stored, loads, opening, pjob>>

\* openViewPanel up to its requests
Opened(u, c) == [u EXCEPT !.mode = "edit", !.id = c, !.panelLoading = TRUE]

openViewPanel(c) ==
  /\ User /\ TableShown /\ c \in ui.list
  /\ ui' = Opened(ui, c)
  /\ opening' = opening \cup {c}
  /\ UNCHANGED <<stored, loads, pjob>>

\* The details fill the form whatever the panel shows by now.
Arrived(u, c) == [u EXCEPT !.panelLoading = FALSE, !.form = IF c \in Known THEN Filled(c) ELSE @]

DetailsArrive(c) ==
  /\ c \in opening
  /\ opening' = opening \ {c}
  /\ ui' \in {Arrived(ui, c), [ui EXCEPT !.panelLoading = FALSE]}
  /\ UNCHANGED <<stored, loads, pjob, events>>

\* Through the cross and the overlay, also while a save is on the wire.
closePanel ==
  /\ User /\ ui.mode /= "closed"
  /\ ui' = [ui EXCEPT !.mode = "closed", !.id = 0]
  /\ UNCHANGED <<stored, loads, opening, pjob>>

EditForm(s, st) ==
  /\ User /\ FormShown
  /\ \/ ui.mode = "create" /\ st = ui.form.status /\ s /= ui.form.suite
     \/ ui.mode = "edit" /\ (s /= ui.form.suite \/ st /= ui.form.status)
  /\ ui' = [ui EXCEPT !.form.suite = s, !.form.status = st]
  /\ UNCHANGED <<stored, loads, opening, pjob>>

\* Mutant: the submit buttons stay enabled.
handlePanelSubmitAgain(j, op) ==
  /\ User /\ FormShown
  /\ op \in IF ui.mode = "create" THEN {"create", "create-next"} ELSE {"update"}
  /\ ui' = [ui EXCEPT !.saving = TRUE]
  /\ Wait(j, [Ready EXCEPT !.op = op, !.step = "write", !.id = ui.id, !.suite = ui.form.suite,
                           !.status = ui.form.status, !.from = ui.form.from, !.q = Query])
  /\ UNCHANGED <<stored, loads, opening>>

\* The submit buttons are disabled while a panel write is on the wire; the handler
\* itself does not look.
handlePanelSubmit(j, op) ==
  /\ User /\ FormShown /\ ~ui.saving
  /\ op \in IF ui.mode = "create" THEN {"create", "create-next"} ELSE {"update"}
  /\ ui' = [ui EXCEPT !.saving = TRUE]
  /\ Wait(j, [Ready EXCEPT !.op = op, !.step = "write", !.id = ui.id, !.suite = ui.form.suite,
                           !.status = ui.form.status, !.from = ui.form.from, !.q = Query])
  /\ UNCHANGED <<stored, loads, opening>>

\* Delete, archive and unarchive (by the status in the form)
handlePanelAction(j, op) ==
  /\ User /\ FormShown /\ ui.mode = "edit" /\ ui.id /= 0 /\ ~ui.saving
  /\ op \in {"delete", IF ui.form.status = "Archived" THEN "unarchive" ELSE "archive"}
  /\ ui' = [ui EXCEPT !.saving = TRUE]
  /\ Wait(j, [Ready EXCEPT !.op = op, !.step = "write", !.id = ui.id, !.q = Query])
  /\ UNCHANGED <<stored, loads, opening>>

-----------------------------------------------------------------------------
(* Suites *)

openSuiteDialog(d, s) ==
  /\ User /\ Uncovered
  /\ d \in {"add", "rename", "delete", "import"} /\ (s = 0 <=> d \in {"add", "import"})
  /\ ui' = [ui EXCEPT !.dialog = d, !.target = s]
  /\ UNCHANGED <<stored, loads, opening, pjob>>

SuiteBusy == [add |-> ui.creating, rename |-> ui.renaming, delete |-> ui.deleting, import |-> FALSE]

closeSuiteDialog ==
  /\ User /\ ui.dialog /= "" /\ ~SuiteBusy[ui.dialog]
  /\ ui' = [ui EXCEPT !.dialog = "", !.target = 0]
  /\ UNCHANGED <<stored, loads, opening, pjob>>

\* The Enter key reaches handleCreateSuite and handleRenameSuiteConfirm past the
\* disabled buttons; their own guards stop the second call.
confirmSuiteDialog(j, mode) ==
  /\ User /\ ui.dialog \in {"add", "rename", "delete"} /\ ~SuiteBusy[ui.dialog]
  /\ ui' = [ui EXCEPT !.creating = @ \/ ui.dialog = "add", !.renaming = @ \/ ui.dialog = "rename",
                      !.deleting = @ \/ ui.dialog = "delete"]
  /\ Wait(j, [Ready EXCEPT !.op = [add |-> "add suite", rename |-> "rename suite", delete |-> "delete suite"][ui.dialog],
                           !.step = "write", !.id = ui.target, !.status = mode, !.q = Query])
  /\ UNCHANGED <<stored, loads, opening>>

\* onImported: the rows of the file are there; list and summary are loaded again.
imported(c) ==
  /\ User /\ ui.dialog = "import"
  /\ stored[c].state = "none" /\ \A d \in PCase : stored[d].state = "none" => c <= d
  /\ stored' = [stored EXCEPT ![c] = [Absent EXCEPT !.state = "live", !.text = c]]
  /\ ui' = [ui EXCEPT !.loading = TRUE, !.error = FALSE]
  /\ loads' = loads \cup {Query}
  /\ UNCHANGED <<opening, pjob>>

-----------------------------------------------------------------------------
(* Answers *)

\* `finally` of each handler
Finally(u, op) ==
  [u EXCEPT !.saving = @ /\ op \notin PanelOp, !.bulkSaving = @ /\ op \notin BulkOp,
            !.creating = @ /\ op /= "add suite", !.renaming = @ /\ op /= "rename suite",
            !.deleting = @ /\ op /= "delete suite"]

NewId == CHOOSE c \in PCase : stored[c].state = "none" /\ \A d \in PCase : stored[d].state = "none" => c <= d

\* The server's part of a write; a case that is gone answers 404.  Of a suite's deletion
\* the page sees that its cases are unfiled or gone.
Written(r) ==
  CASE r.op \in {"create", "create-next"} ->
         [stored EXCEPT ![NewId] = [state |-> "live", suite |-> r.suite, status |-> r.status, text |-> NewId]]
    [] r.op = "update" ->
         [stored EXCEPT ![r.id] = [@ EXCEPT !.suite = IF r.suite = 0 THEN @ ELSE r.suite,
                                             !.status = r.status, !.text = r.from]]
    [] r.op = "delete" -> [stored EXCEPT ![r.id].state = "deleted"]
    [] r.op = "archive" -> [stored EXCEPT ![r.id].status = "Archived"]
    [] r.op = "unarchive" -> [stored EXCEPT ![r.id].status = "Draft"]
    [] r.op = "bulk delete" -> [c \in PCase |-> IF c \in r.ids \cap Known THEN [stored[c] EXCEPT !.state = "deleted"] ELSE stored[c]]
    [] r.op = "bulk archive" -> [c \in PCase |-> IF c \in r.ids \cap Known THEN [stored[c] EXCEPT !.status = "Archived"] ELSE stored[c]]
    [] r.op = "bulk move" -> [c \in PCase |-> IF c \in r.ids \cap Known THEN [stored[c] EXCEPT !.suite = r.suite] ELSE stored[c]]
    [] r.op = "delete suite" ->
         [c \in PCase |-> IF c \in Known /\ stored[c].suite = r.id
                           THEN IF r.status = "deleteTestcases" THEN [stored[c] EXCEPT !.state = "deleted"]
                                ELSE [stored[c] EXCEPT !.suite = 0]
                           ELSE stored[c]]
    [] OTHER -> stored

AcceptedCase(r) == /\ r.op \in {"update", "delete", "archive", "unarchive"} => r.id \in Known
               /\ r.op \in {"create", "create-next"} => \E c \in PCase : stored[c].state = "none"

ServerWrites(j) ==
  /\ pjob[j].step = "write" /\ AcceptedCase(pjob[j])
  /\ stored' = Written(pjob[j])
  /\ Wait(j, [pjob[j] EXCEPT !.step = "answer",
                             !.id = IF pjob[j].op \in {"create", "create-next"} THEN NewId ELSE @])
  /\ UNCHANGED <<ui, loads, opening, events>>

\* An error on the way ends the handler.
HandlerFails(j) ==
  /\ pjob[j].op \notin {"", "select"} /\ pjob[j].step /= "open"
  /\ ui' = Finally(ui, pjob[j].op)
  /\ EndJob(j)
  /\ UNCHANGED <<stored, loads, opening, events>>

\* The answer to a write.  A creation clears the filters and the deletion of the suite on
\* display leaves it, which loads the list anew; dialogs close before the refresh.
WriteAnswered(j) ==
  LET op == pjob[j].op
      cleared == op \in {"create", "create-next"} /\ (ui.status /= "all" \/ ui.page /= 1)
      done == [ui EXCEPT !.dialog = IF op \in {"add suite", "rename suite", "delete suite"} THEN "" ELSE @,
                         !.target = IF op \in {"rename suite", "delete suite"} THEN 0 ELSE @]
  IN  /\ pjob[j].step = "answer"
      /\ CASE cleared -> FilteredCases([done EXCEPT !.status = "all"])
           [] op = "delete suite" /\ pjob[j].q.suite = pjob[j].id -> FilteredCases([done EXCEPT !.suite = All])
           [] OTHER -> ui' = done /\ UNCHANGED loads
      /\ Wait(j, [pjob[j] EXCEPT !.step = "refresh",
                                 !.q.page = IF op \in {"create", "create-next"} THEN 1 ELSE @])
      /\ UNCHANGED <<stored, opening, events>>

\* refreshData with the filters of the click, and what the handler does after it.
Refreshed(j) ==
  LET r == pjob[j]
      reopens == r.op \in {"create", "update", "archive", "unarchive"} \/ (r.op \in BulkOp \ {"bulk delete"} /\ r.id /= 0)
      closes == r.op = "delete" \/ (r.op = "bulk delete" /\ r.id /= 0)
  IN  /\ r.step = "refresh"
      /\ \E u \in {loadData(Shown([ui EXCEPT !.error = FALSE], r.q)), loadData(NotShown(ui))} :
         ui' = CASE reopens -> Opened(u, r.id)
                 [] closes -> Finally([u EXCEPT !.mode = "closed", !.id = 0,
                                               !.selected = IF r.op \in BulkOp THEN {} ELSE @,
                                               !.bulkOpen = @ /\ r.op \notin BulkOp], r.op)
                 [] r.op = "create-next" -> Finally([u EXCEPT !.form = Reset(IF r.suite /= 0 THEN r.suite ELSE ui.suite)], r.op)
                 [] OTHER -> Finally([u EXCEPT !.selected = IF r.op \in BulkOp THEN {} ELSE @,
                                              !.bulkOpen = @ /\ r.op \notin BulkOp], r.op)
      /\ IF reopens THEN Wait(j, [r EXCEPT !.step = "open"]) ELSE EndJob(j)
      /\ UNCHANGED <<stored, loads, opening, events>>

\* openViewPanel at the end of a handler; its own errors are caught.
Reopened(j) ==
  LET r == pjob[j]
  IN  /\ r.step = "open"
      /\ \E u \in {Arrived(ui, r.id), [ui EXCEPT !.panelLoading = FALSE]} :
         ui' = Finally([u EXCEPT !.selected = IF r.op \in BulkOp THEN {} ELSE @,
                                 !.bulkOpen = @ /\ r.op \notin BulkOp], r.op)
      /\ EndJob(j)
      /\ UNCHANGED <<stored, loads, opening, events>>

-----------------------------------------------------------------------------
PageNext ==
  \/ \E s \in {All, None_} \cup PSuite : SelectSuite(s)
  \/ \E st \in {"all", "Archived"} : SetStatusFilter(st)
  \/ clearSuiteFilters
  \/ \E p \in 1 .. Cardinality(PCase), size \in {1, Cardinality(PCase)} : TurnPage(p, size)
  \/ \E q \in loads : loadSelectedSuiteCases(q)
  \/ \E c \in PCase : toggleCaseSelection(c) \/ openViewPanel(c) \/ DetailsArrive(c)
  \/ toggleSelectAllCases \/ clearSelection
  \/ openBulkActionModal \/ closeBulkActionModal
  \/ \E s \in {0} \cup PSuite : openCreatePanel(s)
  \/ closePanel
  \/ \E s \in {0} \cup PSuite, st \in {"Draft", "Archived"} : EditForm(s, st)
  \/ \E d \in {"add", "rename", "delete", "import"}, s \in {0} \cup PSuite : openSuiteDialog(d, s)
  \/ closeSuiteDialog
  \/ \E c \in PCase : imported(c)
  \/ \E j \in PJob :
       \/ /\ j \in FreeJob /\ \A i \in FreeJob : j <= i
          /\ \/ selectAllMatchingCases(j)
             \/ \E op \in BulkOp, s \in {0} \cup PSuite : (op /= "bulk move" => s = 0) /\ handleBulkActionConfirm(j, op, s)
             \/ \E op \in PanelOp : handlePanelSubmit(j, op) \/ handlePanelAction(j, op)
             \/ \E mode \in {"moveToDefault", "deleteTestcases"} :
                  (ui.dialog /= "delete" => mode = "moveToDefault") /\ confirmSuiteDialog(j, mode)
       \/ SelectArrives(j) \/ ServerWrites(j) \/ HandlerFails(j)
       \/ WriteAnswered(j) \/ Refreshed(j) \/ Reopened(j)

-----------------------------------------------------------------------------
\* Every write is sent once and every lock is released: a busy flag is set exactly while
\* one handler of its kind is on its way, through closing and reopening the panel, other
\* dialogs, errors and answers in any order.  Two handlers under one flag would save twice;
\* a flag without a handler would disable the buttons for good.
CasePageLocks ==
  LET Count(ops) == Cardinality({j \in PJob : pjob[j].op \in ops})
      Tells(flag, ops) == Count(ops) = (IF flag THEN 1 ELSE 0)
  IN  /\ Tells(ui.saving, PanelOp)
      /\ Tells(ui.bulkSaving, BulkOp)
      /\ Tells(ui.selecting, {"select"})
      /\ Tells(ui.creating, {"add suite"})
      /\ Tells(ui.renaming, {"rename suite"})
      /\ Tells(ui.deleting, {"delete suite"})
=============================================================================
