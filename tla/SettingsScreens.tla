--------------------------- MODULE SettingsScreens --------------------------
(***************************************************************************)
(* The settings of a project (general, members, tokens, custom fields,      *)
(* trackers) and of the workspace (members, admins, AI keys, integrations,  *)
(* billing).                                                                *)
(***************************************************************************)
EXTENDS ScreenScript

----------------------------------------------------------------------------
(* projects/[id]/settings/page.tsx *)

loadMembers == {"members"}

handleSubmit == Handler("handleSubmit", {}, <<Up("saving"), Write({"project"}), Load({"project"})>>, {"saving"})

handleDeleteProject == Handler("handleDeleteProject", {},
  <<Up("deletingProject"), Write({}), Hide("deleteProject"), Depart>>, {"deletingProject"})

handleAddMember == Handler("handleAddMember", {},
  <<Up("addingMember"), Write(loadMembers), Load(loadMembers)>>, {"addingMember"})
handleChangeRole == Handler("handleChangeRole", {},
  <<Up("changingRoleId"), Write(loadMembers), Load(loadMembers)>>, {"changingRoleId"})

\* The dialog goes in the finally, whatever came of the removal.
handleRemoveMember == HandlerC("handleRemoveMember", {},
  <<Up("removingMemberId"), Write(loadMembers), Patch(loadMembers), Hide("removal")>>, {"removingMemberId"}, <<Hide("removal")>>)

GeneralForm   == Control(Page, handleSubmit, {"saving"})
MemberTable   == {Control(Page, handleAddMember, {"addingMember"}), RowControl(Page, handleChangeRole, {"changingRoleId"})}
RemovalModal  == [dialog |-> Dialog("removal", Page, {"removingMemberId"}),
                  control |-> Control("removal", handleRemoveMember, {"removingMemberId"})]
DeleteProjectModal == [dialog |-> Dialog("deleteProject", Page, {"deletingProject"}),
                       control |-> Control("deleteProject", handleDeleteProject, {"deletingProject"})]

ProjectSettingsScreen == Screen({RemovalModal.dialog, DeleteProjectModal.dialog},
                                {GeneralForm, RemovalModal.control, DeleteProjectModal.control} \cup MemberTable)

----------------------------------------------------------------------------
(* projects/[id]/settings/api-tokens/page.tsx *)

\* The secret is shown once; that step is left by its own button only.
handleCreateToken == Handler("handleCreateToken", {},
  <<Up("creating"), Make({"tokens"}), Patch({"tokens"}), Hide("create"), Show("reveal")>>, {"creating"})
handleRevoke == Handler("handleRevoke", {}, <<Up("revokingId"), Write({"tokens"}), Patch({"tokens"})>>, {"revokingId"})

TokenModal == Control("create", handleCreateToken, {"creating"})
TokenTable == RowControl(Page, handleRevoke, {"revokingId"})

TokenScreen == Screen({Dialog("create", Page, {}), Dialog("reveal", ByHandler, {})}, {TokenModal, TokenTable})

----------------------------------------------------------------------------
(* projects/[id]/settings/custom-fields/page.tsx and its form and list *)

loadDefinitions == {"definitions"}

handleCreateField == Handler("handleSubmit", {},
  <<Up("saving"), Make(loadDefinitions), Hide("form"), Send(loadDefinitions)>>, {"saving"})

\* The definition first, then its options one by one.
handleEditField == Handler("handleSubmitEdit", {},
  <<Up("saving"), Write(loadDefinitions), Write(loadDefinitions), Hide("form"), Send(loadDefinitions)>>, {"saving"})

\* All the actions of a row share one flag.
RowWrite(name) == Handler(name, {}, <<Up("busyId"), Write(loadDefinitions), Send(loadDefinitions)>>, {"busyId"})
move          == RowWrite("move")
toggleActive  == RowWrite("toggleActive")
archive       == RowWrite("archive")
confirmDelete == Handler("confirmDelete", {}, <<Up("busyId"), Write(loadDefinitions), Hide("delete"), Send(loadDefinitions)>>, {"busyId"})

FieldForm == {Control("form", handleCreateField, {"saving"}), Control("form", handleEditField, {"saving"})}
FieldRows == {RowControl(Page, h, {"busyId"}) : h \in {move, toggleActive, archive}}
FieldDeleteModal == Control("delete", confirmDelete, {"busyId"})

CustomFieldScreen == Screen({Dialog("form", Page, {}), Dialog("delete", Page, {})}, FieldForm \cup FieldRows \cup {FieldDeleteModal})

----------------------------------------------------------------------------
(* The trackers: ProjectIntegrationMapping, WorkspaceIntegrationConfig, IntegrationsTab *)

loadData == {"status"}

\* The browser leaves for the tracker's consent page.
handleConnect == HandlerC("handleConnect", {}, <<Up("connecting"), Load({}), Depart>>, {}, <<Down("connecting")>>)
handleSaveMapping == Handler("handleSaveMapping", {}, <<Up("saving"), Write(loadData), Load(loadData)>>, {"saving"})
refreshRun == Handler("refresh", {}, <<Load({"run"})>>, {})
startRun   == Handler("start", {}, <<Up("starting"), Write({"run"}), Patch({"run"})>>, {"starting"})

MappingControls == {Control(Page, handleConnect, {"connecting"}), Control(Page, handleSaveMapping, {"saving"}),
                    Control(Page, startRun, {"starting"}), Timer(refreshRun)}
MappingScreen == Screen({}, MappingControls)

handleDisconnect == Handler("handleDisconnect", {}, <<Up("disconnecting"), Write(loadData), Load(loadData)>>, {"disconnecting"})
handleDisconnectProvider == Handler("handleDisconnectProvider", {},
  <<Up("disconnectingProvider"), Write(loadData), Load(loadData)>>, {"disconnectingProvider"})

ConfigControls   == {Control(Page, handleConnect, {"connecting"}), Control(Page, handleDisconnect, {"disconnecting"})}
IntegrationsList == RowControl(Page, handleDisconnectProvider, {"disconnectingProvider"})
TrackerScreen    == Screen({}, ConfigControls \cup {IntegrationsList})

----------------------------------------------------------------------------
(* Workspace settings: MembersTab and AdminsTab *)

load == {"members", "invitations"}

handleInvite == Handler("handleInvite", {}, <<Up("submitting"), Write(load), Send(load), Hide("invite")>>, {"submitting"})

ActionOnRow(name) == Handler(name, {}, <<Up("actionId"), Write(load), Send(load)>>, {"actionId"})
handleChangeWorkspaceRole == ActionOnRow("handleChangeRole")
handleCancelInvite        == ActionOnRow("handleCancelInvite")
handleResendInvite        == ActionOnRow("handleResendInvite")
handleRemoveFromWorkspace == HandlerC("handleRemoveMember", {},
  <<Up("actionId"), Write(load), Send(load), Hide("removal")>>, {"actionId"}, <<Hide("removal")>>)

InviteModal == Control("invite", handleInvite, {"submitting"})
WorkspaceMemberTables == {RowControl(Page, h, {"actionId"}) : h \in {handleChangeWorkspaceRole, handleCancelInvite, handleResendInvite}}
WorkspaceRemovalModal == [dialog |-> Dialog("removal", Page, {"actionId"}),
                          control |-> Control("removal", handleRemoveFromWorkspace, {"actionId"})]

handleAddAdmin    == Handler("handleAdd", {}, <<Up("adding"), Write({"admins"}), Load({"admins"})>>, {"adding"})
handleRemoveAdmin == Handler("handleRemove", {}, <<Up("removingId"), Write({"admins"}), Patch({"admins"})>>, {"removingId"})

AdminControls == {Control(Page, handleAddAdmin, {"adding"}), RowControl(Page, handleRemoveAdmin, {"removingId"})}

WorkspaceMembersScreen == Screen({Dialog("invite", Page, {}), WorkspaceRemovalModal.dialog},
                                 {InviteModal, WorkspaceRemovalModal.control} \cup WorkspaceMemberTables)
AdminsScreen == Screen({}, AdminControls)

----------------------------------------------------------------------------
(* Workspace settings: GeneralTab, AiProvidersTab, BillingTab and PricingModal *)

handleSaveWorkspace == HandlerC("handleSubmit", {}, <<Up("saving"), Write({}), Depart>>, {}, <<Down("saving")>>)
WorkspaceForm       == Control(Page, handleSaveWorkspace, {"saving"})
WorkspaceScreen     == Screen({}, {WorkspaceForm})

loadKeys        == {"keys", "allocations"}
handleCreateKey == Handler("handleCreateKey", {}, <<Up("saving"), Make(loadKeys), Load(loadKeys)>>, {"saving"})
handleDeleteKey == Handler("handleDeleteKey", {}, <<Up("deletingKeyId"), Write(loadKeys), Load(loadKeys)>>, {"deletingKeyId"})
handleAllocate  == Handler("handleAllocate", {}, <<Up("allocatingProjectId"), Write(loadKeys), Load(loadKeys)>>, {"allocatingProjectId"})

KeyForm  == Control(Page, handleCreateKey, {"saving"})
KeyRows  == {RowControl(Page, handleDeleteKey, {"deletingKeyId"}), RowControl(Page, handleAllocate, {"allocatingProjectId"})}
KeyScreen == Screen({}, KeyRows \cup {KeyForm})

\* Both leave for Stripe's pages.
handleManageBilling == HandlerC("handleManageBilling", {}, <<Up("redirecting"), Load({}), Depart>>, {}, <<Down("redirecting")>>)
handleUpgrade       == HandlerC("handleUpgrade", {}, <<Up("submitting"), Load({}), Depart>>, {}, <<Down("submitting")>>)

BillingControls == Control(Page, handleManageBilling, {"redirecting"})
PricingModal    == Control("pricing", handleUpgrade, {"submitting"})
BillingScreen   == Screen({Dialog("pricing", Page, {})}, {BillingControls, PricingModal})
=============================================================================
