------------------------------- MODULE Access -------------------------------
(***************************************************************************)
(* Workspaces, their members, invitations and projects (LegacyService and   *)
(* SignupService): who belongs where, and what each may reach.              *)
(*                                                                         *)
(* A request that reads, decides and then writes is two steps, with other   *)
(* requests in between; a database transaction is one.  A person stands for *)
(* an e-mail address and for the account under it.  Billing is enabled and  *)
(* the workspaces are on the Launch plan.                                   *)
(***************************************************************************)
EXTENDS Naturals, FiniteSets, FiniteSetsExt

CONSTANTS
  Person,        \* e-mail addresses, with or without an account
  Org,           \* ids of organizations rows, in creation order
  Project,       \* ids of projects rows, in creation order
  Invite,        \* ids of invitations rows
  Clerk,         \* requests that may be in flight at once
  ProjectLimit,  \* PROJECT_LIMITS.launch
  KeyAttempts,   \* insertProjectWithUniqueKey's attempts (3)
  MaxRequests    \* requests ever made

\* The setup made a person and a workspace; a process serves, and rows are finitely many.
ASSUME AccessConstants ==
  /\ Person \subseteq Nat \ {0} /\ Org \subseteq Nat \ {0} /\ Project \subseteq Nat \ {0}
  /\ Invite \subseteq Nat \ {0} /\ Clerk \subseteq Nat \ {0}
  /\ Person /= {} /\ Org /= {} /\ Clerk /= {}
  /\ IsFiniteSet(Project) /\ IsFiniteSet(Clerk)
  /\ ProjectLimit \in Nat \ {0} /\ KeyAttempts \in Nat \ {0} /\ MaxRequests \in Nat

VARIABLES
  account,     \* the persons with a users row
  orgMember,   \* organization_members: the role of each person in each workspace, or "none"
  active,      \* users.active_organization_id, or 0
  project,     \* projects: state, workspace and key (the numeric suffix of one base)
  projMember,  \* project_members: the role of each person in each project, or "none"
  invite,      \* invitations
  clerk,       \* the requests in flight
  requests,    \* requests made so far
  founder,     \* history: who created the workspace or the project
  atOwnersWord,     \* history: who was made manager at the word of an owner
  raced        \* history: project memberships written after the workspace membership was gone

accessVars == <<account, orgMember, active, project, projMember, invite, clerk, requests,
                founder, atOwnersWord, raced>>

Role == {"qa_engineer", "manager", "owner"}

NoProject == [state |-> "none", org |-> 0, key |-> 0]
NoInvite  == [status |-> "none", org |-> 0, who |-> 0, role |-> "none", projects |-> {},
              by |-> 0, word |-> "none", late |-> FALSE]
NoErrand  == [op |-> "idle", by |-> 0, org |-> 0, who |-> 0, role |-> "none", proj |-> 0,
              inv |-> 0, word |-> "none", key |-> 0, attempt |-> 0]

\* First-run setup has made the first person owner of the first workspace, with or without
\* the demo project.
AccessInit ==
  \E demo \in BOOLEAN :
    LET first == Min(Person)
        home  == Min(Org)
        shown == {p \in Project : demo /\ p = Min(Project)}
    IN /\ account = {first}
       /\ orgMember = [o \in Org |-> [u \in Person |-> IF o = home /\ u = first THEN "owner" ELSE "none"]]
       /\ active = [u \in Person |-> 0]
       /\ project = [p \in Project |-> IF p \in shown THEN [state |-> "live", org |-> home, key |-> 1]
                                       ELSE NoProject]
       /\ projMember = [p \in Project |-> [u \in Person |-> IF p \in shown /\ u = first THEN "owner" ELSE "none"]]
       /\ invite = [i \in Invite |-> NoInvite]
       /\ clerk = [c \in Clerk |-> NoErrand]
       /\ requests = 0
       /\ founder = [org |-> [o \in Org |-> IF o = home THEN first ELSE 0],
                     project |-> [p \in Project |-> IF p \in shown THEN first ELSE 0]]
       /\ atOwnersWord = {} /\ raced = {}

Lowest(S) == {n \in S : \A k \in S : n <= k}
FreeOrg     == Lowest({o \in Org : founder.org[o] = 0})
FreeProject == Lowest({p \in Project : project[p].state = "none"})
FreeInvite  == Lowest({i \in Invite : invite[i].status = "none"})
OpenProjects(o) == {p \in Project : project[p].state = "live" /\ project[p].org = o}

\* The workspace a request acts in: the active one if the caller belongs to it, and the
\* earliest of the caller's memberships otherwise (0: "Workspace not found").
workspace(u) ==
  LET mine == {o \in Org : orgMember[o][u] /= "none"}
  IN IF active[u] \in mine THEN active[u] ELSE IF mine = {} THEN 0 ELSE Min(mine)

CallerRole(u) == orgMember[workspace(u)][u]

\* A live project of the caller's workspace that the caller is a member of.
requireProjectAccess(u, p) ==
  /\ workspace(u) /= 0
  /\ project[p].state = "live" /\ project[p].org = workspace(u)
  /\ projMember[p][u] /= "none"

\* What the projects list shows the caller, by a query of its own.
listProjects(u) ==
  {p \in Project : projMember[p][u] /= "none" /\ project[p].org = workspace(u) /\ project[p].state = "live"}

\* The access matrix of the settings: every member of the workspace with the role held in
\* each project the caller lists; not for QA engineers.
workspaceProjectAccess(u) ==
  IF workspace(u) = 0 \/ CallerRole(u) = "qa_engineer" THEN {}
  ELSE {x \in Person \X listProjects(u) :
          orgMember[workspace(u)][x[1]] /= "none" /\ projMember[x[2]][x[1]] /= "none"}

\* A request of u arrives at clerk c.  Resolving the workspace also makes it the active one.
Asks(c, u) ==
  /\ clerk[c].op = "idle" /\ \A d \in Clerk : d < c => clerk[d].op /= "idle"
  /\ requests < MaxRequests /\ requests' = requests + 1
  /\ u \in account
AsksIn(c, u) ==
  /\ Asks(c, u) /\ workspace(u) /= 0
  /\ active' = [active EXCEPT ![u] = workspace(u)]
Hand(c, op, u, who, role, o, p, i, word) ==
  clerk' = [clerk EXCEPT ![c] = [op |-> op, by |-> u, org |-> o, who |-> who, role |-> role,
                                 proj |-> p, inv |-> i, word |-> word, key |-> 0, attempt |-> 0]]
Done(c) == clerk' = [clerk EXCEPT ![c] = NoErrand]

\* Who is manager in a place at the word of an owner, after a role was written there.
OwnersWord(place, who, role, word) ==
  IF role = "manager" /\ word = "owner" THEN atOwnersWord \cup {<<place, who>>}
  ELSE atOwnersWord \ {<<place, who>>}

-----------------------------------------------------------------------------
(* Workspaces *)

\* An account made outside any workspace: self-serve sign-up, or a first code sign-in.
SignUp(u) ==
  /\ requests < MaxRequests /\ requests' = requests + 1
  /\ u \notin account /\ account' = account \cup {u}
  /\ UNCHANGED <<orgMember, active, project, projMember, invite, clerk, founder, atOwnersWord, raced>>

\* One transaction: the workspace, its owner, and the caller's active workspace.
createWorkspace(c, u) ==
  /\ Asks(c, u)
  /\ \E o \in FreeOrg :
       /\ orgMember' = [orgMember EXCEPT ![o][u] = "owner"]
       /\ active' = [active EXCEPT ![u] = o]
       /\ founder' = [founder EXCEPT !.org[o] = u]
  /\ UNCHANGED <<account, project, projMember, invite, clerk, atOwnersWord, raced>>

\* One transaction: the workspace and its first project; the active workspace stays.
createOrgAndProject(c, u) ==
  /\ Asks(c, u)
  /\ \E o \in FreeOrg, p \in FreeProject :
       /\ orgMember' = [orgMember EXCEPT ![o][u] = "owner"]
       /\ project' = [project EXCEPT ![p] = [state |-> "live", org |-> o, key |-> 1]]
       /\ projMember' = [projMember EXCEPT ![p][u] = "owner"]
       /\ founder' = [founder EXCEPT !.org[o] = u, !.project[p] = u]
  /\ UNCHANGED <<account, active, invite, clerk, atOwnersWord, raced>>

\* The membership is checked, then the active workspace written.
switchWorkspace(c, u) ==
  /\ Asks(c, u)
  /\ \E o \in Org : orgMember[o][u] /= "none" /\ o /= active[u]
       /\ Hand(c, "switch", u, u, "none", o, 0, 0, "none")
  /\ UNCHANGED <<account, orgMember, active, project, projMember, invite, founder, atOwnersWord, raced>>

Switched(c) ==
  /\ clerk[c].op = "switch"
  /\ active' = [active EXCEPT ![clerk[c].by] = clerk[c].org]
  /\ Done(c)
  /\ UNCHANGED <<account, orgMember, project, projMember, invite, requests, founder, atOwnersWord, raced>>

-----------------------------------------------------------------------------
(* Members *)

\* Mutant: a manager grants what an owner may.
MayGrantPeers(mine, role) == mine /= "qa_engineer" /\ role /= "owner"

\* A QA engineer adds nobody, a manager only QA engineers, and nobody adds an owner.
MayGrant(mine, role) == mine /= "qa_engineer" /\ role /= "owner" /\ (mine = "manager" => role = "qa_engineer")

\* The target may be named by an address without an account: upsertUser makes one.
addWorkspaceMember(c, u) ==
  /\ AsksIn(c, u)
  /\ \E who \in Person \ {u}, role \in {r \in Role : MayGrant(CallerRole(u), r)} :
       /\ account' = account \cup {who}
       /\ Hand(c, "add", u, who, role, workspace(u), 0, 0, CallerRole(u))
  /\ UNCHANGED <<orgMember, project, projMember, invite, founder, atOwnersWord, raced>>

\* INSERT ... ON CONFLICT DO UPDATE SET role: also what an existing member becomes.
AddedMember(c) ==
  LET e == clerk[c] IN
  /\ e.op = "add"
  /\ orgMember' = [orgMember EXCEPT ![e.org][e.who] = e.role]
  /\ atOwnersWord' = OwnersWord(<<"org", e.org>>, e.who, e.role, e.word)
  /\ Done(c)
  /\ UNCHANGED <<account, active, project, projMember, invite, requests, founder, raced>>

\* Only an owner removes, never themselves and never the last owner.
removeWorkspaceMember(c, u) ==
  /\ AsksIn(c, u)
  /\ \E who \in Person \ {u} :
       LET o == workspace(u) IN
       /\ orgMember[o][who] /= "none"
       /\ orgMember[o][who] = "owner" => Cardinality({x \in Person : orgMember[o][x] = "owner"}) > 1
       /\ CallerRole(u) = "owner"
       /\ Hand(c, "remove", u, who, "none", o, 0, 0, "owner")
  /\ UNCHANGED <<account, orgMember, project, projMember, invite, founder, atOwnersWord, raced>>

\* Mutant: the project memberships are left behind.
RemovedMemberOnly(c) ==
  LET e == clerk[c] IN
  /\ e.op = "remove"
  /\ orgMember' = [orgMember EXCEPT ![e.org][e.who] = "none"]
  /\ Done(c)
  /\ UNCHANGED <<account, active, project, projMember, invite, requests, founder, atOwnersWord, raced>>

RemovedMember(c) ==
  LET e == clerk[c] IN
  /\ e.op = "remove"
  /\ orgMember' = [orgMember EXCEPT ![e.org][e.who] = "none"]
  /\ projMember' = [p \in Project |-> IF project[p].org = e.org
                                      THEN [projMember[p] EXCEPT ![e.who] = "none"] ELSE projMember[p]]
  /\ raced' = {x \in raced : x[2] /= e.who \/ project[x[1]].org /= e.org}
  /\ Done(c)
  /\ UNCHANGED <<account, active, project, invite, requests, founder, atOwnersWord>>

\* Only an owner changes a role, not their own, not an owner's, and not into owner.
changeWorkspaceMemberRole(c, u) ==
  /\ AsksIn(c, u) /\ CallerRole(u) = "owner"
  /\ \E who \in Person \ {u}, role \in Role \ {"owner"} :
       /\ orgMember[workspace(u)][who] \notin {"none", "owner"}
       /\ Hand(c, "role", u, who, role, workspace(u), 0, 0, "owner")
  /\ UNCHANGED <<account, orgMember, project, projMember, invite, founder, atOwnersWord, raced>>

\* UPDATE ... WHERE organization_id and user_id: nothing when the row is gone by now.
ChangedRole(c) ==
  LET e == clerk[c] IN
  /\ e.op = "role"
  /\ IF orgMember[e.org][e.who] = "none" THEN UNCHANGED <<orgMember, atOwnersWord>>
     ELSE /\ orgMember' = [orgMember EXCEPT ![e.org][e.who] = e.role]
          /\ atOwnersWord' = OwnersWord(<<"org", e.org>>, e.who, e.role, e.word)
  /\ Done(c)
  /\ UNCHANGED <<account, active, project, projMember, invite, requests, founder, raced>>

-----------------------------------------------------------------------------
(* Invitations *)

\* The address is no member's and has no pending invitation; the projects are live and the
\* workspace's.  Then the row is inserted.
createInvitation(c, u) ==
  /\ AsksIn(c, u)
  /\ \E who \in Person \ {u}, role \in {r \in Role : MayGrant(CallerRole(u), r)},
        p \in {0} \cup OpenProjects(workspace(u)) :
       /\ orgMember[workspace(u)][who] = "none"
       /\ \A i \in Invite : ~(invite[i].status = "pending" /\ invite[i].org = workspace(u) /\ invite[i].who = who)
       /\ FreeInvite /= {}
       /\ Hand(c, "invite", u, who, role, workspace(u), p, 0, CallerRole(u))
  /\ UNCHANGED <<account, orgMember, project, projMember, invite, founder, atOwnersWord, raced>>

Invited(c) ==
  LET e == clerk[c] IN
  /\ e.op = "invite"
  /\ invite' = [i \in Invite |-> IF i \in FreeInvite
                 THEN [status |-> "pending", org |-> e.org, who |-> e.who, role |-> e.role,
                       projects |-> {e.proj} \ {0}, by |-> e.by, word |-> e.word, late |-> FALSE]
                 ELSE invite[i]]
  /\ Done(c)
  /\ UNCHANGED <<account, orgMember, active, project, projMember, requests, founder, atOwnersWord, raced>>

\* Seven days pass.
InviteLapses(i) ==
  /\ invite[i].status = "pending" /\ ~invite[i].late
  /\ requests < MaxRequests /\ requests' = requests + 1
  /\ invite' = [invite EXCEPT ![i].late = TRUE]
  /\ UNCHANGED <<account, orgMember, active, project, projMember, clerk, founder, atOwnersWord, raced>>

\* Listing the invitations, opening one and registering from one mark what has lapsed.
ExpireLapsed(i) ==
  /\ invite[i].status = "pending" /\ invite[i].late
  /\ invite' = [invite EXCEPT ![i].status = "expired"]
  /\ UNCHANGED <<account, orgMember, active, project, projMember, clerk, requests, founder, atOwnersWord, raced>>

\* An owner, or whoever sent it, cancels or resends a pending invitation.
HandlesInvite(u, i) ==
  /\ invite[i].status = "pending" /\ invite[i].org = workspace(u)
  /\ CallerRole(u) = "owner" \/ invite[i].by = u

cancelInvitation(c, u) ==
  /\ AsksIn(c, u)
  /\ \E i \in Invite : HandlesInvite(u, i) /\ Hand(c, "cancel", u, 0, "none", workspace(u), 0, i, "none")
  /\ UNCHANGED <<account, orgMember, project, projMember, invite, founder, atOwnersWord, raced>>

Cancelled(c) ==
  /\ clerk[c].op = "cancel"
  /\ invite' = [invite EXCEPT ![clerk[c].inv].status = "cancelled"]
  /\ Done(c)
  /\ UNCHANGED <<account, orgMember, active, project, projMember, requests, founder, atOwnersWord, raced>>

resendInvitation(c, u) ==
  /\ AsksIn(c, u)
  /\ \E i \in Invite : HandlesInvite(u, i) /\ invite[i].late
       /\ Hand(c, "resend", u, 0, "none", workspace(u), 0, i, "none")
  /\ UNCHANGED <<account, orgMember, project, projMember, invite, founder, atOwnersWord, raced>>

Resent(c) ==
  /\ clerk[c].op = "resend"
  /\ invite' = [invite EXCEPT ![clerk[c].inv].late = FALSE]
  /\ Done(c)
  /\ UNCHANGED <<account, orgMember, active, project, projMember, requests, founder, atOwnersWord, raced>>

\* The invited person, signed in under the invited address.
acceptInvitation(c, u) ==
  /\ Asks(c, u)
  /\ \E i \in Invite : invite[i].status = "pending" /\ ~invite[i].late /\ invite[i].who = u
       /\ Hand(c, "accept", u, u, invite[i].role, invite[i].org, 0, i, invite[i].word)
  /\ UNCHANGED <<account, orgMember, active, project, projMember, invite, founder, atOwnersWord, raced>>

\* The invited person without an account, with a password or with the code sent to the
\* address (getInvitationRowOrThrow and assertEmailNotTaken).
registerInvited(c, u) ==
  /\ clerk[c].op = "idle" /\ \A d \in Clerk : d < c => clerk[d].op /= "idle"
  /\ requests < MaxRequests /\ requests' = requests + 1
  /\ u \notin account
  /\ \E i \in Invite : invite[i].status = "pending" /\ ~invite[i].late /\ invite[i].who = u
       /\ Hand(c, "register", u, u, invite[i].role, invite[i].org, 0, i, invite[i].word)
  /\ UNCHANGED <<account, orgMember, active, project, projMember, invite, founder, atOwnersWord, raced>>

\* The transaction both end in: membership of the workspace and of the invited projects.
Joins(c) ==
  LET e == clerk[c]
      into == invite[e.inv].projects
      places == {<<"org", e.org>>} \cup {<<"project", p>> : p \in into}
  IN /\ orgMember' = [orgMember EXCEPT ![e.org][e.who] = e.role]
     /\ projMember' = [p \in Project |-> IF p \in into THEN [projMember[p] EXCEPT ![e.who] = e.role]
                                         ELSE projMember[p]]
     /\ atOwnersWord' = IF e.role = "manager" /\ e.word = "owner"
                        THEN atOwnersWord \cup {<<x, e.who>> : x \in places}
                        ELSE atOwnersWord \ {<<x, e.who>> : x \in places}
     /\ active' = [active EXCEPT ![e.who] = e.org]
     /\ invite' = [invite EXCEPT ![e.inv].status = "accepted"]
     /\ Done(c)

Accepted(c) ==
  /\ clerk[c].op = "accept" /\ Joins(c)
  /\ UNCHANGED <<account, project, requests, founder, raced>>

completeInviteRegistration(c) ==
  /\ clerk[c].op = "register" /\ clerk[c].who \notin account
  /\ account' = account \cup {clerk[c].who}
  /\ Joins(c)
  /\ UNCHANGED <<project, requests, founder, raced>>

\* The address got its account meanwhile: the unique index refuses the insert.
RegistrationConflict(c) ==
  /\ clerk[c].op = "register" /\ clerk[c].who \in account
  /\ Done(c)
  /\ UNCHANGED <<account, orgMember, active, project, projMember, invite, requests, founder, atOwnersWord, raced>>

-----------------------------------------------------------------------------
(* Projects *)

\* Mutant: off by one.
assertCanCreateOneMore(o) == Cardinality(OpenProjects(o)) <= ProjectLimit

\* The Launch plan's count is read here and the project inserted later.
assertCanCreateProject(o) == Cardinality(OpenProjects(o)) < ProjectLimit

createProject(c, u) ==
  /\ AsksIn(c, u) /\ CallerRole(u) /= "qa_engineer"
  /\ assertCanCreateProject(workspace(u))
  /\ Hand(c, "project", u, u, "owner", workspace(u), 0, 0, "none")
  /\ UNCHANGED <<account, orgMember, project, projMember, invite, founder, atOwnersWord, raced>>

TakenKeys(o) == {project[p].key : p \in {q \in Project : project[q].org = o}}

\* The first free suffix of the key's base, archived projects' keys included.
nextFreeProjectKey(c) ==
  /\ clerk[c].op = "project" /\ clerk[c].key = 0
  /\ clerk' = [clerk EXCEPT ![c].key = Min((1 .. Cardinality(Project) + 1) \ TakenKeys(clerk[c].org)),
                            ![c].attempt = clerk[c].attempt + 1]
  /\ UNCHANGED <<account, orgMember, active, project, projMember, invite, requests, founder, atOwnersWord, raced>>

\* The transaction: the project, its owner and its knowledge base; a key taken meanwhile
\* fails it on the unique index, and it is tried again.
insertProjectWithUniqueKey(c) ==
  LET e == clerk[c] IN
  /\ e.op = "project" /\ e.key /= 0
  /\ IF e.key \in TakenKeys(e.org)
     THEN /\ clerk' = [clerk EXCEPT ![c] = IF e.attempt >= KeyAttempts THEN NoErrand ELSE [e EXCEPT !.key = 0]]
          /\ UNCHANGED <<project, projMember, founder, raced>>
     ELSE \E p \in FreeProject :
          /\ project' = [project EXCEPT ![p] = [state |-> "live", org |-> e.org, key |-> e.key]]
          /\ projMember' = [projMember EXCEPT ![p][e.by] = "owner"]
          /\ founder' = [founder EXCEPT !.project[p] = e.by]
          /\ raced' = IF orgMember[e.org][e.by] = "none" THEN raced \cup {<<p, e.by>>} ELSE raced
          /\ Done(c)
  /\ UNCHANGED <<account, orgMember, active, invite, requests, atOwnersWord>>

\* Archiving: the project leaves every list and keeps its key.
deleteProjectForUser(c, u) ==
  /\ AsksIn(c, u)
  /\ \E p \in Project : /\ requireProjectAccess(u, p) /\ projMember[p][u] /= "qa_engineer"
                        /\ project' = [project EXCEPT ![p].state = "archived"]
  /\ UNCHANGED <<account, orgMember, projMember, invite, clerk, founder, atOwnersWord, raced>>

\* The target belongs to the workspace and is not the project's owner; nobody changes their
\* own role, and a manager no manager's.
addProjectMember(c, u) ==
  /\ AsksIn(c, u)
  /\ \E p \in Project, who \in Person, role \in Role :
       /\ requireProjectAccess(u, p) /\ MayGrant(projMember[p][u], role)
       /\ orgMember[project[p].org][who] /= "none"
       /\ projMember[p][who] /= "owner"
       /\ projMember[p][who] /= "none" => who /= u /\ ~(projMember[p][u] = "manager" /\ projMember[p][who] = "manager")
       /\ Hand(c, "enrol", u, who, role, project[p].org, p, 0, projMember[p][u])
  /\ UNCHANGED <<account, orgMember, project, projMember, invite, founder, atOwnersWord, raced>>

EnrolledMember(c) ==
  LET e == clerk[c] IN
  /\ e.op = "enrol"
  /\ projMember' = [projMember EXCEPT ![e.proj][e.who] = e.role]
  /\ atOwnersWord' = OwnersWord(<<"project", e.proj>>, e.who, e.role, e.word)
  /\ raced' = IF orgMember[e.org][e.who] = "none" THEN raced \cup {<<e.proj, e.who>>} ELSE raced
  /\ Done(c)
  /\ UNCHANGED <<account, orgMember, active, project, invite, requests, founder>>

removeProjectMember(c, u) ==
  /\ AsksIn(c, u)
  /\ \E p \in Project, who \in Person \ {u} :
       /\ requireProjectAccess(u, p) /\ projMember[p][u] /= "qa_engineer"
       /\ projMember[p][who] /= "none"
       /\ projMember[p][who] = "owner" => Cardinality({x \in Person : projMember[p][x] = "owner"}) > 1
       /\ projMember' = [projMember EXCEPT ![p][who] = "none"]
       /\ raced' = raced \ {<<p, who>>}
  /\ UNCHANGED <<account, orgMember, project, invite, clerk, founder, atOwnersWord>>

-----------------------------------------------------------------------------

AccessNext ==
  \/ \E u \in Person : SignUp(u)
  \/ \E i \in Invite : InviteLapses(i) \/ ExpireLapsed(i)
  \/ \E c \in Clerk, u \in Person :
       \/ createWorkspace(c, u) \/ createOrgAndProject(c, u) \/ switchWorkspace(c, u)
       \/ addWorkspaceMember(c, u) \/ removeWorkspaceMember(c, u) \/ changeWorkspaceMemberRole(c, u)
       \/ createInvitation(c, u) \/ cancelInvitation(c, u) \/ resendInvitation(c, u)
       \/ acceptInvitation(c, u) \/ registerInvited(c, u)
       \/ createProject(c, u) \/ deleteProjectForUser(c, u)
       \/ addProjectMember(c, u) \/ removeProjectMember(c, u)
  \/ \E c \in Clerk :
       \/ Switched(c) \/ AddedMember(c) \/ RemovedMember(c) \/ ChangedRole(c)
       \/ Invited(c) \/ Cancelled(c) \/ Resent(c) \/ Accepted(c)
       \/ completeInviteRegistration(c) \/ RegistrationConflict(c)
       \/ nextFreeProjectKey(c) \/ insertProjectWithUniqueKey(c) \/ EnrolledMember(c)

AccessSpec == AccessInit /\ [][AccessNext]_accessVars

-----------------------------------------------------------------------------
(* Properties *)

OwnersAreFounders ==
  /\ \A o \in Org, u \in Person : orgMember[o][u] = "owner" => founder.org[o] = u
  /\ \A p \in Project, u \in Person : projMember[p][u] = "owner" => founder.project[p] = u
ManagersNeedAnOwner ==
  /\ \A o \in Org, u \in Person : orgMember[o][u] = "manager" => <<<<"org", o>>, u>> \in atOwnersWord
  /\ \A p \in Project, u \in Person : projMember[p][u] = "manager" => <<<<"project", p>>, u>> \in atOwnersWord

\* Nobody rises by a sequence of grants, invitations and role changes, however the requests
\* interleave: an owner of a workspace or a project is whoever created it
\* (addWorkspaceMember: "nobody grants owner"), and a manager was made one at the word of an
\* owner of that place, directly or through an invitation.
RolesAreGranted == OwnersAreFounders /\ ManagersNeedAnOwner

ReachStaysInWorkspace ==
  \A u \in Person :
    LET opened == {p \in Project : requireProjectAccess(u, p)}
        within == {project[p].org : p \in opened}
    IN /\ Cardinality(within) <= 1 /\ \A o \in within : orgMember[o][u] /= "none"
       /\ workspace(u) /= 0 => listProjects(u) = opened
       /\ \A x \in workspaceProjectAccess(u) : x[2] \in opened /\ orgMember[project[x[2]].org][x[1]] /= "none"
OrphansOnlyByRace ==
  \A p \in Project, u \in Person :
    projMember[p][u] /= "none" /\ orgMember[project[p].org][u] = "none" => <<p, u>> \in raced

\* All the projects a person can reach at a moment belong to one workspace the person is a
\* member of (requireProjectAccess: "switching workspaces fully isolates data"), the lists and
\* the access matrix show those and no others, and nobody who has left; and someone
\* outside a workspace is listed on its projects only if a request that had checked the
\* membership before the removal wrote the listing after it (removeWorkspaceMember).
WorkspaceBoundary == ReachStaysInWorkspace /\ OrphansOnlyByRace

\* The Launch plan's project limit is overshot by concurrent requests at most: by one for
\* each request that can be past its count when another one inserts.
ProjectLimitSlack ==
  \A o \in Org : Cardinality(OpenProjects(o)) <= ProjectLimit + Cardinality(Clerk) - 1

=============================================================================
