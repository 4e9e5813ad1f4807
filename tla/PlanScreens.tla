----------------------------- MODULE PlanScreens ----------------------------
(***************************************************************************)
(* The screens of bugs, test plans and requirements.                       *)
(***************************************************************************)
EXTENDS ScreenScript

----------------------------------------------------------------------------
(* bugs/page.tsx *)

load == {"bugs"}

\* The bug first, its evidence next; an error reloads the list, which may hold the bug.
handleCreateBug == HandlerC("handleCreate", {},
  <<Up("creating"), Make(load), Write(load), Hide("create"), Send(load)>>, {"creating"}, <<Send(load)>>)
handleEditSave == HandlerC("handleEditSave", {},
  <<Up("saving"), Write(load), Write(load), Hide("edit"), Send(load)>>, {"saving"}, <<Send(load)>>)

\* The attachment leaves the form; the list behind it keeps showing it.
handleRemoveEditAttachment == Handler("handleRemoveEditAttachment", {},
  <<Write(load \cup {"form"}), Patch({"form"})>>, {})

handleDeleteBug == Handler("handleDelete", {}, <<Write(load), Hide("delete"), Send(load)>>, {})

CreateBugModal == Control("create", handleCreateBug, {"creating"})
EditBugModal   == {Control("edit", handleEditSave, {"saving"}), RowControl("edit", handleRemoveEditAttachment, {})}
DeleteBugModal == Control("delete", handleDeleteBug, {})

\* The detail view leads to the edit form; the list and the board to all of them.
BugDialogs == {Dialog(d, Page, {}) : d \in {"create", "edit", "delete", "view"}}

BugScreen == Screen(BugDialogs, {CreateBugModal, DeleteBugModal} \cup EditBugModal)

----------------------------------------------------------------------------
(* plans/page.tsx *)

handleCreatePlan == Handler("handleCreate", {}, <<Up("creating"), Make({}), Depart>>, {"creating"})

\* The row goes at once and comes back, with the list as it was, when the server refuses.
handleDeletePlan == HandlerC("handleDelete", {},
  <<Patch({"plans"}), Write({})>>, {}, <<Patch({"plans"})>>)

PlanForm == Control("form", handleCreatePlan, {"creating"})
PlanGrid == RowControl(Page, handleDeletePlan, {})

PlanListScreen == Screen({Inline("form", Page, {})}, {PlanForm, PlanGrid})

----------------------------------------------------------------------------
(* plans/[planId]/page.tsx *)

loadData == {"plan", "items", "runs"}

handleCreateCycle == Handler("handleCreateCycle", {},
  <<Up("creatingCycle"), Make(loadData), Hide("createCycle"), Load(loadData)>>, {"creatingCycle"})
handleOpenAssociate == Handler("handleOpenAssociate", {},
  <<Show("associate"), Up("loadingRuns"), Load({"choices"})>>, {"loadingRuns"})
handleAssociate == Handler("handleAssociate", {},
  <<Up("associating"), Write(loadData), Hide("associate"), Load(loadData)>>, {"associating"})
handleDissociate == Handler("handleDissociate", {}, <<Write(loadData), Load(loadData)>>, {})
handleSaveEdit   == Handler("handleSaveEdit", {}, <<Write(loadData), Hide("editing"), Load(loadData)>>, {})
handleDelete     == Handler("handleDelete", {}, <<Write({}), Depart>>, {})
handleRemoveItem == Handler("handleRemoveItem", {"removingItemId"},
  <<Up("removingItemId"), Write(loadData), Load(loadData)>>, {"removingItemId"})

PlanHeader   == {Control("editing", handleSaveEdit, {}), Control(Page, handleDelete, {}),
                 Control(Page, handleOpenAssociate, {})}
PlanRunsTab  == {Control("createCycle", handleCreateCycle, {"creatingCycle"}),
                 RowControl("associate", handleAssociate, {"associating"}), RowControl(Page, handleDissociate, {})}
PlanItemsTab == RowControl(Page, handleRemoveItem, {"removingItemId"})

PlanScreen == Screen(
  {Inline("editing", Page, {}), Inline("createCycle", Page, {}), Dialog("associate", ByHandler, {})},
  PlanHeader \cup PlanRunsTab \cup {PlanItemsTab})

----------------------------------------------------------------------------
(* requirements/page.tsx *)

\* A ticket becomes a task of Zyra, and the page leaves for it.
handleGenerateFromTicket == Handler("handleGenerateFromTicket", {}, <<Up("generatingKey"), Make({}), Depart>>, {"generatingKey"})
handleSourceChange == Handler("handleSourceChange", {}, <<Load({"tickets"})>>, {})

\* The button starts the runs of the connected trackers; the list is read again when the
\* last of them settles.
handleSync    == Handler("handleSync", {}, <<Up("syncStarting"), Write({})>>, {"syncStarting"})
syncSettled   == Handler("syncSettled", {}, <<Load({"tickets"})>>, {})

RequirementControls == {Control(Page, handleSourceChange, {}), Control(Page, handleSync, {"syncStarting"}), Timer(syncSettled)}
RequirementRows     == RowControl(Page, handleGenerateFromTicket, {"generatingKey"})

RequirementScreen == Screen({}, RequirementControls \cup {RequirementRows})
=============================================================================
