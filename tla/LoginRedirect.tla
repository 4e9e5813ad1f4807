---------------------------- MODULE LoginRedirect ---------------------------
(***************************************************************************)
(* The sign-in page and the page it sends a signed-in user on to.  The      *)
(* destination may send the user back (an edge rule that cannot see the     *)
(* session, or a session that has gone), so the page keeps a marker of its  *)
(* last redirect in the tab's storage, and a deadline on its own loading    *)
(* screen.  A check that was asked is answered whatever became of the page  *)
(* that asked it.                                                           *)
(***************************************************************************)
EXTENDS Naturals, FiniteSets

CONSTANTS
  Target,      \* destinations, "/projects" and others
  MaxSteps   \* bound: acts of the user

VARIABLES
  tab,      \* the browser tab: what is mounted, and the login page's hooks
  checks,   \* auth checks in flight; mine: of the page that is mounted
  marker,   \* the attempt in sessionStorage
  outside,  \* the session, the edge in front of the app, whether the storage works
  told      \* history: redirects since the user could act, whether the page came back

loginVars == <<tab, checks, marker, outside, told>>

NoTarget == 0
NoMarker == [target |-> NoTarget, fresh |-> FALSE]

\* A fresh mount of the page: the loading screen, and one check.
Mounted(t) == [at |-> "login", to |-> t, checking |-> TRUE, pending |-> NoTarget, alarm |-> FALSE, going |-> NoTarget]

\* locked: the page was opened for an invited address that is not the session's.
Check(t, locked) == [mine |-> TRUE, to |-> t, step |-> "setup", locked |-> locked]

LoginInit ==
  /\ outside \in [session : BOOLEAN, edge : BOOLEAN, storage : BOOLEAN]
  /\ \E t \in Target : tab = Mounted(t) /\ checks = {Check(t, FALSE)}
  /\ marker = NoMarker
  /\ told = [hops |-> 0, back |-> FALSE, late |-> FALSE, acts |-> 0]

\* readAttempt, noteRedirectAttempt and clearRedirectAttempts: a refused storage holds nothing.
noteRedirectAttempt(t) == marker' = IF outside.storage THEN [target |-> t, fresh |-> TRUE] ELSE marker
clearRedirectAttempts  == marker' = NoMarker

\* Mutant: coming back is never recognised.
NeverBounce(t) == t \notin Target
isRedirectBounce(t) == marker.target = t /\ marker.fresh

\* More than ATTEMPT_TTL_MS pass.
attemptExpires ==
  /\ marker.fresh /\ marker' = [marker EXCEPT !.fresh = FALSE]
  /\ told' = [told EXCEPT !.hops = 0] /\ UNCHANGED <<tab, checks, outside>>

Form(alarm) == [tab EXCEPT !.checking = FALSE, !.alarm = alarm]
Home(c) == tab.at = "login" /\ c.mine   \* the page that asked is still there

\* getSetupStatus: a fresh installation goes to /setup.
setupAnswered(c) ==
  /\ c.step = "setup" /\ UNCHANGED <<outside, told>>
  /\ \/ checks' = (checks \ {c}) \cup {[c EXCEPT !.step = "me"]} /\ UNCHANGED <<tab, marker>>
     \/ /\ ~outside.session /\ checks' = checks \ {c} /\ clearRedirectAttempts
        /\ tab' = [Form(tab.alarm) EXCEPT !.at = "setup", !.going = NoTarget]

\* authMe: no session or the wrong account's, a session after a bounce, or one to send onward.
meAnswered(c) ==
  /\ c.step = "me" /\ checks' = checks \ {c} /\ UNCHANGED outside
  /\ \/ /\ ~outside.session \/ c.locked
        /\ clearRedirectAttempts /\ tab' = (IF Home(c) THEN Form(tab.alarm) ELSE tab) /\ UNCHANGED told
     \/ /\ outside.session /\ ~c.locked /\ isRedirectBounce(c.to) /\ clearRedirectAttempts /\ UNCHANGED told
        /\ tab' = IF Home(c) THEN Form(TRUE) ELSE tab
     \/ /\ outside.session /\ ~c.locked /\ ~isRedirectBounce(c.to) /\ noteRedirectAttempt(c.to)
        /\ tab' = [tab EXCEPT !.going = c.to, !.pending = IF Home(c) THEN c.to ELSE @]
        /\ told' = [told EXCEPT !.hops = IF @ < 2 THEN @ + 1 ELSE @, !.back = FALSE, !.late = @ \/ ~tab.checking]

\* Either request fails: the form, without a word.
checkFails(c) ==
  /\ checks' = checks \ {c} /\ tab' = (IF Home(c) THEN Form(tab.alarm) ELSE tab)
  /\ UNCHANGED <<marker, outside, told>>

\* The deadline of the loading screen, 2.5 s after a redirect was asked for and 6 s before.
deadline ==
  /\ tab.at = "login" /\ tab.checking
  /\ clearRedirectAttempts /\ tab' = Form(tab.pending /= NoTarget)
  /\ told' = [told EXCEPT !.hops = 0, !.late = TRUE] /\ UNCHANGED <<checks, outside>>

Arrives(t) ==
  /\ tab' = Mounted(t)
  /\ checks' = {[c EXCEPT !.mine = FALSE] : c \in checks} \cup {Check(t, FALSE)}

\* The navigation commits.  The edge answers it with /login?redirect=, which mounts the page
\* anew or only renders the same one again.
navigates ==
  /\ tab.going /= NoTarget /\ UNCHANGED <<marker, outside>>
  /\ \/ outside.edge /\ Arrives(tab.going) /\ told' = [told EXCEPT !.back = TRUE]
     \/ outside.edge /\ tab.at = "login" /\ tab' = [tab EXCEPT !.going = NoTarget] /\ UNCHANGED <<checks, told>>
     \/ ~outside.edge /\ tab' = [tab EXCEPT !.at = "gate", !.to = tab.going, !.going = NoTarget] /\ UNCHANGED <<checks, told>>

\* AppDataProvider: the app behind a session, or back to the sign-in page.
gateAnswered ==
  /\ tab.at = "gate" /\ UNCHANGED <<marker, outside>>
  /\ IF outside.session THEN tab' = [tab EXCEPT !.at = "inside"] /\ UNCHANGED <<checks, told>>
     ELSE Arrives(tab.to) /\ told' = [told EXCEPT !.back = TRUE]

----------------------------------------------------------------------------
(* The user, and the session that runs out. *)

Acts == told.acts < MaxSteps
Acted == [told EXCEPT !.hops = 0, !.acts = @ + 1]

\* handleSubmit: a deliberate sign-in starts the redirect budget over, whether it succeeds
\* or not; the code of the one-time-password path ends in the same redirect.
handleSubmit ==
  /\ Acts /\ tab.at = "login" /\ ~tab.checking /\ tab.going = NoTarget
  /\ clearRedirectAttempts /\ told' = Acted /\ UNCHANGED checks
  /\ \E accepted \in BOOLEAN :
       /\ outside' = [outside EXCEPT !.session = @ \/ accepted]
       /\ tab' = [tab EXCEPT !.going = IF accepted THEN tab.to ELSE @, !.alarm = FALSE]

\* The address bar: the app's state goes with the page, and its checks too.
visitLogin(t) ==
  /\ Acts /\ tab.at \in {"inside", "gate", "login", "setup"} /\ UNCHANGED <<marker, outside>>
  /\ tab' = Mounted(t) /\ \E locked \in BOOLEAN : checks' = {Check(t, locked)}
  /\ told' = [Acted EXCEPT !.back = TRUE]

sessionEnds ==
  /\ Acts /\ outside.session /\ outside' = [outside EXCEPT !.session = FALSE]
  /\ told' = [told EXCEPT !.acts = @ + 1] /\ UNCHANGED <<tab, checks, marker>>

LoginNext ==
  \/ \E c \in checks : setupAnswered(c) \/ meAnswered(c) \/ checkFails(c)
  \/ attemptExpires \/ deadline \/ navigates \/ gateAnswered \/ handleSubmit \/ sessionEnds
  \/ \E t \in Target : visitLogin(t)

LoginSpec == LoginInit /\ [][LoginNext]_loginVars

----------------------------------------------------------------------------
\* The page sends nobody onward twice: between two acts of the user it redirects once,
\* whatever the destination answers, unless a check outlived its deadline.
RedirectsOnce == outside.storage /\ ~told.late => told.hops <= 1

\* "We could not open it" is said only to a user who was sent back, came back, or waited for
\* the deadline.
AlarmsTrue == tab.alarm => told.back \/ told.late

LoginSettles == RedirectsOnce /\ AlarmsTrue
=============================================================================
