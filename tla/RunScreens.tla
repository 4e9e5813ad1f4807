----------------------------- MODULE RunScreens -----------------------------
(***************************************************************************)
(* The screens of test runs: one run with its cases, its bug dialog and its *)
(* public link; the execution form and its evidence; the list of runs; the  *)
(* schedules.                                                               *)
(***************************************************************************)
EXTENDS ScreenScript

----------------------------------------------------------------------------
(* cycles/[cycleId]/page.tsx *)

\* What load() reads: the run, its executions, the list of runs in the left panel.
load == {"run", "executions", "runs"}

openPicker == Handler("openPicker", {},
  <<Show("picker"), Down("addInFlightRef"), Load({"cases"})>>, {})

handleAddCases == Handler("handleAddCases", {"addInFlightRef"},
  <<Up("addInFlightRef"), Up("adding"), Make({"executions", "runs"}), Hide("picker"), Send(load)>>,
  {"addInFlightRef", "adding"})

\* Some of the cases were skipped by the server: the picker stays and says so.
handleAddCasesPartly == Handler("handleAddCases", {"addInFlightRef"},
  <<Up("addInFlightRef"), Up("adding"), Make({"executions", "runs"}), Send(load)>>,
  {"addInFlightRef", "adding"})

\* A failed status asks for a bug.
handleStatusChange == Handler("handleStatusChange", {},
  <<Up("statusSaving"), Write({"executions"}), Patch({"executions"}), Show("bug")>>, {"statusSaving"})

handlePanelSave == Handler("handlePanelSave", {},
  <<Up("panelSaving"), Write({"executions"}), Patch({"executions"}), Hide("panel"), Show("bug")>>, {"panelSaving"})

prepareBugDialog == Handler("prepareBugDialog", {}, <<Show("bug")>>, {})

\* The attachments follow the bug they belong to.
handleBugSubmit == Handler("handleBugSubmit", {},
  <<Up("bugSaving"), Make({"executions"}), Write({"executions"}), Hide("bug"), Send(load)>>, {"bugSaving"})

handleLinkExistingBug == Handler("handleLinkExistingBug", {},
  <<Up("bugSaving"), Write({"executions"}), Hide("bug"), Send(load)>>, {"bugSaving"})

handleRemoveCase == Handler("handleRemoveCase", {},
  <<Write({"executions", "runs"}), Patch({"executions"}), Load({"runs"})>>, {})

handleRemoveSelectedCases == Handler("handleRemoveSelectedCases", {"bulkRemoving"},
  <<Up("bulkRemoving"), Write({"executions", "runs"}), Patch({"executions"}), Hide("bulkRemove"), Load({"runs"})>>,
  {"bulkRemoving"})

handleRunStatusChange == Handler("handleRunStatusChange", {},
  <<Write({"run", "runs"}), Patch({"run"})>>, {})

handleShareToggle == Handler("handleShareToggle", {},
  <<Up("shareToggling"), Write({"run"}), Patch({"run"})>>, {"shareToggling"})

\* The header and the table.
RunHeader == {Control(Page, handleRunStatusChange, {}), Control(Page, openPicker, {})}
RunTable  == {RowControl(Page, prepareBugDialog, {}), RowControl(Page, handleRemoveCase, {}),
              RowControl(Page, handleStatusChange, {"statusSaving"})}

\* The modals.  Escape and the backdrop close a modal past its disabled Cancel button,
\* except for the picker, which looks at `adding` itself.
BulkRemoveModal == Control("bulkRemove", handleRemoveSelectedCases, {"bulkRemoving"})

PickerModal == [dialog |-> Dialog("picker", ByHandler, {"adding"}),
                controls |-> {Control("picker", handleAddCases, {"adding"}),
                              Control("picker", handleAddCasesPartly, {"adding"})}]
BugModal    == {Control("bug", handleLinkExistingBug, {"bugSaving"}), Control("bug", handleBugSubmit, {"bugSaving"})}
ShareModal  == Control("share", handleShareToggle, {"shareToggling"})
RunPanel    == {Control("panel", handlePanelSave, {"panelSaving"}), Control("panel", prepareBugDialog, {})}

RunScreen == Screen(
  {PickerModal.dialog, Dialog("bulkRemove", Page, {}), Dialog("bug", ByHandler, {}), Dialog("share", Page, {}),
   Dialog("panel", Page, {})},
  RunHeader \cup RunTable \cup {BulkRemoveModal} \cup PickerModal.controls \cup BugModal \cup {ShareModal} \cup RunPanel)

----------------------------------------------------------------------------
(* The execution form, evidence, the list of runs, the schedules *)

\* It leaves for the run's page.
handleSave == Handler("handleSave", {}, <<Up("saving"), Write({}), Depart>>, {"saving"})

\* Files of a wrong type or size are named and left out; the others are sent.
handlePick == Handler("handlePick", {},
  <<Up("uploading"), Make({"evidence"}), Load({"evidence"})>>, {"uploading"})

ExecutionScreen == Screen({}, {Control(Page, handleSave, {"saving"}), Control(Page, handlePick, {"uploading"})})

handleCreate == Handler("handleCreate", {}, <<Up("saving"), Make({"runs"}), Hide("create"), Send({"runs"})>>, {"saving"})
handleEdit   == Handler("handleEdit", {}, <<Up("saving"), Write({"runs"}), Hide("edit"), Send({"runs"})>>, {"saving"})
handleDelete == Handler("handleDelete", {}, <<Up("saving"), Write({"runs"}), Hide("delete"), Send({"runs"})>>, {"saving"})

RunCreateModal == Control("create", handleCreate, {"saving"})
RunEditModal   == Control("edit", handleEdit, {"saving"})
RunDeleteModal == Control("delete", handleDelete, {"saving"})

RunListScreen == Screen({Dialog(d, Page, {}) : d \in {"create", "edit", "delete"}},
                        {RunCreateModal, RunEditModal, RunDeleteModal})

onCreate       == Handler("onCreate", {}, <<Up("saving"), Make({"schedules"}), Load({"schedules"})>>, {"saving"})
toggleEnabled  == Handler("toggleEnabled", {}, <<Write({"schedules"}), Load({"schedules"})>>, {})
removeSchedule == Handler("removeSchedule", {}, <<Write({"schedules"}), Load({"schedules"})>>, {})

ScheduleScreen == Screen({}, {Control(Page, onCreate, {"saving"}), RowControl(Page, toggleEnabled, {}),
                              RowControl(Page, removeSchedule, {})})
=============================================================================
