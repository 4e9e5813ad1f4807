---------------------------- MODULE AccountScreens --------------------------
(***************************************************************************)
(* The list of projects, the frame around every page, the import of test    *)
(* cases, and the pages of an account: signing in and up, invitations,      *)
(* onboarding, first-run setup, passwords.                                  *)
(***************************************************************************)
EXTENDS ScreenScript

----------------------------------------------------------------------------
(* projects/page.tsx, WorkspaceSwitcher.tsx, Sidebar.tsx, TopBar.tsx *)

\* The form is thrown away when it closes, and does not close while it saves.
closeCreate == Dialog("create", Page, {"createLoading"})
handleCreateProject == Handler("handleCreate", {},
  <<Up("createLoading"), Make({}), Hide("create"), Depart>>, {"createLoading"})
CreateProjectModal == Control("create", handleCreateProject, {"createLoading"})

ProjectListScreen == Screen({closeCreate}, {CreateProjectModal})

\* The whole app is loaded again in the other workspace.
handleSwitch == HandlerC("handleSwitch", {}, <<Up("switchingId"), Write({}), Depart>>, {}, <<Down("switchingId")>>)
handleCreateWorkspace == HandlerC("handleCreateWorkspace", {},
  <<Up("creating"), Make({}), Hide("createWorkspace"), Depart>>, {}, <<Down("creating")>>)
onLogout == HandlerC("onLogout", {"isLoggingOut"}, <<Up("isLoggingOut"), Write({}), Depart>>, {}, <<Down("isLoggingOut")>>)
loadNotifications == Handler("loadNotifications", {}, <<Up("notifLoading"), Load({"notifications"})>>, {"notifLoading"})

SwitcherMenu         == RowControl(Page, handleSwitch, {"switchingId"})
CreateWorkspaceModal == Control("createWorkspace", handleCreateWorkspace, {"creating"})
LogoutModal == [dialog |-> Dialog("logout", Page, {"isLoggingOut"}), control |-> Control("logout", onLogout, {"isLoggingOut"})]
FrameScreen == Screen({Dialog("createWorkspace", Page, {}), LogoutModal.dialog},
                      {SwitcherMenu, CreateWorkspaceModal, LogoutModal.control, Control(Page, loadNotifications, {})})

----------------------------------------------------------------------------
(* ImportTestCasesModal.tsx *)

handleUpload == Handler("handleUpload", {}, <<Up("uploading"), Load({"preview"})>>, {"uploading"})
handleImport == Handler("handleImport", {}, <<Up("importing"), Make({"cases"}), Send({"cases"})>>, {"importing"})

\* Closing the modal starts it over, the busy flags included.
resetImport  == Resetting(Dialog("import", Page, {}), {"uploading", "importing"})
ImportFooter == {Control("import", handleUpload, {"uploading"}), Control("import", handleImport, {"importing"})}
ImportScreen == Screen({resetImport}, ImportFooter)

----------------------------------------------------------------------------
(* login, signup, verify-otp, forgot-password, reset-password *)

\* What the pages of an account do: send the form and go on to the next page.
Submits(name, flag) == Handler(name, {}, <<Up(flag), Write({}), Depart>>, {flag})

LoginForm   == Control(Page, Submits("handleSubmit", "loading"), {"loading"})
LoginScreen == Screen({}, {LoginForm})

\* A code is sent, and the page asks for it.
handlePasswordFormSubmit == Handler("handlePasswordFormSubmit", {}, <<Up("submitting"), Write({}), Show("code")>>, {"submitting"})
handlePasswordCodeSubmit == Submits("handlePasswordCodeSubmit", "submitting")
handleOtpSubmit          == Submits("handleOtpSubmit", "submitting")

SignupForms  == {Control(Page, handlePasswordFormSubmit, {"submitting"}), Control("code", handlePasswordCodeSubmit, {"submitting"}),
                 Control(Page, handleOtpSubmit, {"submitting"})}
SignupScreen == Screen({Dialog("code", ByHandler, {})}, SignupForms)

handleResend    == HandlerC("handleResend", {"resendState"}, <<Up("resendState"), Write({}), Down("resendState")>>, {}, <<Down("resendState")>>)
VerifyOtpForm   == {Control(Page, Submits("handleSubmit", "loading"), {"loading"}), Control(Page, handleResend, {"resendState"})}
VerifyOtpScreen == Screen({}, VerifyOtpForm)

handleForgotten      == Handler("handleSubmit", {}, <<Up("loading"), Write({}), Show("sent")>>, {"loading"})
ForgotPasswordForm   == Control(Page, handleForgotten, {"loading"})
ForgotPasswordScreen == Screen({Dialog("sent", ByHandler, {})}, {ForgotPasswordForm})

handleReset         == Submits("handleSubmit", "loading")
ResetPasswordForm   == Control(Page, handleReset, {"loading"})
ResetPasswordScreen == Screen({}, {ResetPasswordForm})

----------------------------------------------------------------------------
(* onboarding, invite, invite/register, setup, account *)

handleFirstWorkspace == Handler("handleCreateWorkspace", {}, <<Up("loading"), Make({}), Show("team")>>, {"loading"})

\* Two colleagues, one request each.
handleTeamStep   == Handler("handleTeamStep", {}, <<Up("loading"), Write({}), Write({}), Depart>>, {"loading"})
OnboardingForms  == {Control(Page, handleFirstWorkspace, {"loading"}), Control("team", handleTeamStep, {"loading"})}
OnboardingScreen == Screen({Dialog("team", ByHandler, {})}, OnboardingForms)

handleAccept == Submits("handleAccept", "accepting")
InviteCard   == Control(Page, handleAccept, {"accepting"})
InviteScreen == Screen({}, {InviteCard})

handleOtpFormSubmit == Handler("handleOtpFormSubmit", {}, <<Up("submitting"), Write({}), Show("code")>>, {"submitting"})
handleOtpCodeSubmit == Submits("handleOtpCodeSubmit", "submitting")
RegisterForms  == {Control(Page, handlePasswordFormSubmit, {"submitting"}), Control("code", handlePasswordCodeSubmit, {"submitting"}),
                   Control(Page, handleOtpFormSubmit, {"submitting"}), Control("code", handleOtpCodeSubmit, {"submitting"})}
RegisterScreen == Screen({Dialog("code", ByHandler, {})}, RegisterForms)

finishSetup == Handler("finishSetup", {}, <<Up("loading"), Make({}), Depart>>, {"loading"})
SetupForms  == Control(Page, finishSetup, {"loading"})
SetupScreen == Screen({}, {SetupForms})

handleChangePassword == Submits("handleSubmit", "saving")
PasswordForm   == Control(Page, handleChangePassword, {"saving"})
PasswordScreen == Screen({}, {PasswordForm})
=============================================================================
