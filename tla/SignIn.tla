------------------------------- MODULE SignIn -------------------------------
(***************************************************************************)
(* Accounts, passwords, one-time codes, reset links, pending sign-ups and   *)
(* browser sessions (AuthService, OtpService, PasswordService,              *)
(* PasswordResetService, SignupService).  Every statement of a handler is a *)
(* step of its own: none of these flows runs in a transaction, except the   *)
(* creation of the account.  A password is the number of its version (0 for *)
(* an account without one), and a caller presents the version they know.    *)
(***************************************************************************)
EXTENDS Naturals, FiniteSets

CONSTANTS
  Email,      \* e-mail addresses
  Session,    \* ids of sessions rows
  Secret,     \* ids of otp_codes and password_reset_tokens rows
  Pending,    \* ids of pending_signups rows
  Booth,      \* requests that may be in flight at once
  MaxVisits   \* requests ever made

ASSUME SignInConstants ==
  /\ Session \subseteq Nat \ {0} /\ Secret \subseteq Nat \ {0} /\ Pending \subseteq Nat \ {0}
  /\ Booth \subseteq Nat \ {0} /\ MaxVisits \in Nat

VARIABLES
  user,      \* users: whether the address has an account, and its password
  session,   \* sessions; "knew" is the password in force when the sign-in was verified, and
             \* "straddled" whether another one was by the time the session was written
  secret,    \* codes and reset links; "spent" counts the requests they let through and "shared"
             \* says that two of them held it at once
  pending,   \* pending_signups, newest last
  booth,     \* the requests in flight
  visits     \* requests made so far

signInVars == <<user, session, secret, pending, booth, visits>>

NoSession == [state |-> "none", who |-> 0, knew |-> 0, straddled |-> FALSE]
NoSecret  == [state |-> "none", who |-> 0, kind |-> "code", spent |-> 0, shared |-> FALSE]
NoPending == [state |-> "none", who |-> 0, kind |-> "self", pw |-> 0]
AtRest    == [op |-> "idle", who |-> 0, id |-> 0, goal |-> "none", knew |-> 0]

SignInInit ==
  /\ user \in [Email -> {[has |-> FALSE, pw |-> 0], [has |-> TRUE, pw |-> 1]}]
  /\ session = [s \in Session |-> NoSession]
  /\ secret = [x \in Secret |-> NoSecret]
  /\ pending = [p \in Pending |-> NoPending]
  /\ booth = [b \in Booth |-> AtRest]
  /\ visits = 0

NextFree(S, row) == {n \in S : row[n].state = "none" /\ \A k \in S : row[k].state = "none" => n <= k}
Visit == visits < MaxVisits /\ visits' = visits + 1
Enters(b, r) ==
  /\ Visit /\ booth[b].op = "idle" /\ \A a \in Booth : a < b => booth[a].op /= "idle"
  /\ booth' = [booth EXCEPT ![b] = r]
Step(b, op) == booth' = [booth EXCEPT ![b].op = op]
Exits(b)    == booth' = [booth EXCEPT ![b] = AtRest]

-----------------------------------------------------------------------------
(* Codes and links *)

Issued(e, kind) ==
  \E x \in NextFree(Secret, secret) :
    secret' = [secret EXCEPT ![x] = [state |-> "live", who |-> e, kind |-> kind, spent |-> 0, shared |-> FALSE]]

\* OtpService.requestOtp: any address may ask for a code.
requestOtp(e) ==
  /\ Visit /\ Issued(e, "code")
  /\ UNCHANGED <<user, session, pending, booth>>

\* PasswordResetService.requestReset: only an address with an account.
requestReset(e) ==
  /\ Visit /\ user[e].has /\ Issued(e, "link")
  /\ UNCHANGED <<user, session, pending, booth>>

\* Sign-up, self-serve or from an invitation: the address has no account; the pending row
\* is written and a code sent to it.
startSignup(e) ==
  /\ Visit /\ ~user[e].has
  /\ \E p \in NextFree(Pending, pending), kind \in {"self", "invite"}, pw \in {0, 1} :
       /\ kind = "self" => pw = 1
       /\ pending' = [pending EXCEPT ![p] = [state |-> "live", who |-> e, kind |-> kind, pw |-> pw]]
  /\ Issued(e, "code")
  /\ UNCHANGED <<user, session, booth>>

\* Time passes: a code, a link, a pending sign-up or a session runs out.
RunsOut ==
  /\ \/ \E x \in Secret : secret[x].state = "live" /\ secret' = [secret EXCEPT ![x].state = "gone"]
                          /\ UNCHANGED <<session, pending>>
     \/ \E p \in Pending : pending[p].state = "live" /\ pending' = [pending EXCEPT ![p].state = "gone"]
                           /\ UNCHANGED <<session, secret>>
     \/ \E s \in Session : session[s].state = "live" /\ session' = [session EXCEPT ![s].state = "gone"]
                           /\ UNCHANGED <<secret, pending>>
  /\ Visit /\ UNCHANGED <<user, booth>>

\* The lookups: not used, not expired.
findValidToken(e) == {x \in Secret : secret[x].state = "live" /\ secret[x].who = e /\ secret[x].kind = "link"}
LiveCodes(e)      == {x \in Secret : secret[x].state = "live" /\ secret[x].who = e /\ secret[x].kind = "code"}

HeldBy(b, x) == \E a \in Booth \ {b} : booth[a].id = x
\* A request takes hold of a code or a link it found.
Grabs(b, x) == secret' = [secret EXCEPT ![x].spent = @ + 1, ![x].shared = @ \/ HeldBy(b, x)]

-----------------------------------------------------------------------------
(* Sign-in *)

\* PasswordService.verifyLogin reads the hash and compares.
verifyLogin(b, e) ==
  /\ user[e].has /\ user[e].pw > 0
  /\ Enters(b, [op |-> "session", who |-> e, id |-> 0, goal |-> "login", knew |-> user[e].pw])
  /\ UNCHANGED <<user, session, secret, pending>>

\* OtpService.verifyOtpCode, called to sign in or to complete a sign-up: the newest matching
\* code is found first and marked used after.
verifyOtpCode(b, e) ==
  /\ \E x \in LiveCodes(e), goal \in {"login", "self", "invite"} :
       /\ Enters(b, [op |-> "mark", who |-> e, id |-> x, goal |-> goal, knew |-> user[e].pw])
       /\ Grabs(b, x)
  /\ UNCHANGED <<user, session, pending>>

markOtpUsed(b) ==
  /\ booth[b].op = "mark"
  /\ secret' = [secret EXCEPT ![booth[b].id].state = "used"]
  /\ booth' = [booth EXCEPT ![b].op = IF booth[b].goal = "login" THEN "account" ELSE "create", ![b].id = 0]
  /\ UNCHANGED <<user, session, pending, visits>>

\* Signing in with a code makes the account when there is none; ON CONFLICT DO NOTHING and
\* a second look settle two of these.
findOrCreateUser(b) ==
  /\ booth[b].op = "account"
  /\ user' = [user EXCEPT ![booth[b].who].has = TRUE]
  /\ booth' = [booth EXCEPT ![b].op = "session", ![b].knew = user[booth[b].who].pw]
  /\ UNCHANGED <<session, secret, pending, visits>>

\* The newest live pending row of that kind; the account and the consumption of the row are
\* one transaction, refused when the address has an account by now.
findPendingSignup(e, kind) ==
  {p \in Pending : /\ pending[p].state = "live" /\ pending[p].who = e /\ pending[p].kind = kind
                   /\ \A q \in Pending : q > p /\ pending[q].who = e /\ pending[q].kind = kind
                                         => pending[q].state /= "live"}

createUserFromPending(b) ==
  LET e == booth[b].who
      found == findPendingSignup(e, booth[b].goal)
  IN /\ booth[b].op = "create"
     /\ IF found = {} \/ user[e].has
        THEN Exits(b) /\ UNCHANGED <<user, pending>>
        ELSE \E p \in found :
               /\ user' = [user EXCEPT ![e] = [has |-> TRUE, pw |-> pending[p].pw]]
               /\ pending' = [pending EXCEPT ![p].state = "used"]
               /\ booth' = [booth EXCEPT ![b].op = "session", ![b].knew = pending[p].pw]
     /\ UNCHANGED <<session, secret, visits>>

createSession(b) ==
  LET e == booth[b].who IN
  /\ booth[b].op = "session"
  /\ \E s \in NextFree(Session, session) :
       session' = [session EXCEPT ![s] = [state |-> "live", who |-> e, knew |-> booth[b].knew,
                                          straddled |-> booth[b].knew /= user[e].pw]]
  /\ Exits(b)
  /\ UNCHANGED <<user, secret, pending, visits>>

logout(s) ==
  /\ Visit /\ session[s].state = "live"
  /\ session' = [session EXCEPT ![s].state = "gone"]
  /\ UNCHANGED <<user, secret, pending, booth>>

-----------------------------------------------------------------------------
(* A new password *)

\* From a reset link.
resetPassword(b, e) ==
  /\ \E x \in findValidToken(e) :
       /\ Enters(b, [op |-> "set", who |-> e, id |-> x, goal |-> "reset", knew |-> 0])
       /\ Grabs(b, x)
  /\ UNCHANGED <<user, session, pending>>

\* From a session, with the current password if there is one.
changePassword(b, s) ==
  /\ session[s].state = "live"
  /\ Enters(b, [op |-> "set", who |-> session[s].who, id |-> 0, goal |-> "change", knew |-> 0])
  /\ UNCHANGED <<user, session, secret, pending>>

setPassword(b) ==
  /\ booth[b].op = "set"
  /\ user' = [user EXCEPT ![booth[b].who].pw = @ + 1]
  /\ Step(b, IF booth[b].goal = "reset" THEN "spend" ELSE "signOut")
  /\ UNCHANGED <<session, secret, pending, visits>>

SpendLink(b) ==
  /\ booth[b].op = "spend"
  /\ secret' = [secret EXCEPT ![booth[b].id].state = "used"]
  /\ Step(b, "signOut")
  /\ UNCHANGED <<user, session, pending, visits>>

\* Mutant: one session, the caller's, is deleted.
invalidateOneSession(b) ==
  /\ booth[b].op = "signOut"
  /\ \E s \in Session : session' = [session EXCEPT ![s].state = "gone"]
  /\ Exits(b)
  /\ UNCHANGED <<user, secret, pending, visits>>

\* Every session of the account, the caller's included.
invalidateAllSessions(b) ==
  /\ booth[b].op = "signOut"
  /\ session' = [s \in Session |-> IF session[s].state = "live" /\ session[s].who = booth[b].who
                                   THEN [session[s] EXCEPT !.state = "gone"] ELSE session[s]]
  /\ Exits(b)
  /\ UNCHANGED <<user, secret, pending, visits>>

-----------------------------------------------------------------------------

SignInNext ==
  \/ \E e \in Email : requestOtp(e) \/ requestReset(e) \/ startSignup(e)
  \/ RunsOut
  \/ \E b \in Booth, e \in Email : verifyLogin(b, e) \/ verifyOtpCode(b, e) \/ resetPassword(b, e)
  \/ \E b \in Booth : \/ markOtpUsed(b) \/ findOrCreateUser(b) \/ createUserFromPending(b)
                      \/ createSession(b) \/ setPassword(b) \/ SpendLink(b) \/ invalidateAllSessions(b)
  \/ \E s \in Session : logout(s) \/ \E b \in Booth : changePassword(b, s)

SignInSpec == SignInInit /\ [][SignInNext]_signInVars

-----------------------------------------------------------------------------
(* Properties *)

SessionsKnowThePassword ==
  \A s \in Session : session[s].state = "live" =>
    \/ session[s].knew = user[session[s].who].pw
    \/ session[s].straddled
    \/ \E b \in Booth : booth[b].who = session[s].who /\ booth[b].op \in {"spend", "signOut"}
SecretsSpentOnce == \A x \in Secret : secret[x].spent > 1 => secret[x].shared

\* Once a reset or a change of the password is through, no session of before it is left
\* (changePassword: "Every session is invalidated"), except one whose sign-in was itself
\* under way across the change; and a code or a reset link lets a second request through
\* only if both held it at once.
CredentialsHold == SessionsKnowThePassword /\ SecretsSpentOnce
=============================================================================
