---------------------------- MODULE AccessProofs ----------------------------
(***************************************************************************)
(* Proofs about Access and SignIn, for any number of people, workspaces,   *)
(* projects, invitations, addresses, sessions, codes and requests in       *)
(* flight.                                                                 *)
(*   AccessType  types;                                                    *)
(*   AccessFacts what the rows and the requests in flight refer to exists, *)
(*               a workspace without a founder is empty, and a request     *)
(*               carries no more than its caller could grant;              *)
(*   AccessInv   both, with the properties about roles and memberships;    *)
(*   Reserved    the count behind the project limit: what is open and what *)
(*               is on its way;                                            *)
(*   CredentialType, CredentialFacts  types, and who holds which secret;   *)
(*   CredentialInv  with them, the properties of SignIn.                   *)
(***************************************************************************)
EXTENDS Access, SignIn, FiniteSetTheorems, TLAPS

HeldRole == Role \cup {"none"}

OrgRow     == [state : {"none", "live", "archived"}, org : Org \cup {0}, key : Nat]
InviteRow  == [status : {"none", "pending", "expired", "cancelled", "accepted"}, org : Org \cup {0},
               who : Person \cup {0}, role : HeldRole, projects : SUBSET Project, by : Person \cup {0},
               word : HeldRole, late : BOOLEAN]
Errand     == [op : {"idle", "switch", "add", "remove", "role", "invite", "cancel", "resend", "accept",
                     "register", "project", "enrol"},
               by : Person \cup {0}, org : Org \cup {0}, who : Person \cup {0}, role : HeldRole,
               proj : Project \cup {0}, inv : Invite \cup {0}, word : HeldRole, key : Nat, attempt : Nat]

AccessType ==
  /\ account \subseteq Person
  /\ orgMember \in [Org -> [Person -> HeldRole]]
  /\ active \in [Person -> Org \cup {0}]
  /\ project \in [Project -> OrgRow]
  /\ projMember \in [Project -> [Person -> HeldRole]]
  /\ invite \in [Invite -> InviteRow]
  /\ clerk \in [Clerk -> Errand]
  /\ requests \in Nat
  /\ founder \in [org : [Org -> Person \cup {0}], project : [Project -> Person \cup {0}]]

Founded(o) == o \in Org /\ founder.org[o] /= 0

\* A role that somebody asked to be granted: never owner, and manager at an owner's word.
Granted(r) == r.role \in {"qa_engineer", "manager"} /\ (r.role = "manager" => r.word = "owner")

InviteSound(i) ==
  LET v == invite[i] IN
  v.status /= "none" =>
    /\ Founded(v.org) /\ v.who \in Person /\ Granted(v)
    /\ \A p \in v.projects : project[p].state /= "none" /\ project[p].org = v.org

ErrandSound(c) ==
  LET e == clerk[c] IN
  /\ e.op = "switch" => e.org \in Org /\ e.by \in Person
  /\ e.op = "remove" => e.org \in Org /\ e.who \in Person
  /\ e.op \in {"add", "role", "invite", "accept", "register", "enrol"} =>
       Founded(e.org) /\ e.who \in Person /\ Granted(e)
  /\ e.op = "invite" /\ e.proj /= 0 => project[e.proj].state /= "none" /\ project[e.proj].org = e.org
  /\ e.op \in {"cancel", "resend", "accept", "register"} => e.inv \in Invite /\ invite[e.inv].status /= "none"
  /\ e.op \in {"accept", "register"} => invite[e.inv].org = e.org
  /\ e.op = "project" => Founded(e.org) /\ e.by \in Person
  /\ e.op = "enrol" => e.proj \in Project /\ project[e.proj].state /= "none" /\ project[e.proj].org = e.org

\* Nothing hangs from a workspace that nobody founded, or from a project that is no row.
Rooted ==
  /\ \A o \in Org, u \in Person : orgMember[o][u] /= "none" => Founded(o)
  /\ \A p \in Project : project[p].state /= "none" => Founded(project[p].org)
  /\ \A p \in Project, u \in Person : projMember[p][u] /= "none" => project[p].state /= "none"

AccessFacts ==
  /\ Rooted
  /\ \A i \in Invite : InviteSound(i)
  /\ \A c \in Clerk : ErrandSound(c)

AccessInv == AccessType /\ AccessFacts /\ RolesAreGranted /\ OrphansOnlyByRace

\* The projects about to be made in a workspace.
Making(o) == {c \in Clerk : clerk[c].op = "project" /\ clerk[c].org = o}

Reserved ==
  \A o \in Org :
    Cardinality(OpenProjects(o)) + Cardinality(Making(o)) <= ProjectLimit - 1 + Cardinality(Clerk)

-----------------------------------------------------------------------------
(* Lemmas about the operators *)

\* A non-empty set of numbers has a least element, and Min is it.
LEMMA MinIn ==
  ASSUME NEW S, S \subseteq Nat, S /= {}
  PROVE  Min(S) \in S /\ \A y \in S : Min(S) <= y
<1>1. PICK x \in S : \A y \in S : ~(<<y, x>> \in OpToRel(<, Nat))
  BY NatLessThanWellFounded, WFMin
<1>2. ASSUME NEW y \in S PROVE x <= y
  <2>1. <<y, x>> \in Nat \X Nat /\ <<y, x>>[1] = y /\ <<y, x>>[2] = x
    OBVIOUS
  <2>2. ~(y < x)
    BY <1>1, <2>1 DEF OpToRel
  <2> QED BY <2>2
<1> QED BY <1>2 DEF Min

LEMMA LowestIn == ASSUME NEW S PROVE Lowest(S) \subseteq S
  BY DEF Lowest

\* The workspace of a request is one its caller belongs to.
LEMMA WorkspaceFacts ==
  ASSUME AccessType, NEW u \in Person
  PROVE  /\ workspace(u) \in Org \cup {0}
         /\ workspace(u) /= 0 => CallerRole(u) \in Role
<1> DEFINE mine == {o \in Org : orgMember[o][u] /= "none"}
<1>1. mine \subseteq Nat
  BY AccessConstants
<1>2. ASSUME NEW o \in mine PROVE o \in Org /\ orgMember[o][u] \in Role
  BY DEF AccessType, HeldRole
<1>3. mine /= {} => Min(mine) \in mine
  BY <1>1, MinIn
<1>4. workspace(u) = IF active[u] \in mine THEN active[u] ELSE IF mine = {} THEN 0 ELSE Min(mine)
  BY DEF workspace
<1> HIDE DEF mine
<1>5. workspace(u) \in mine \cup {0}
  BY <1>3, <1>4
<1> QED BY <1>2, <1>5 DEF CallerRole

\* Among as many suffixes as projects and one more, one is free.
LEMMA FreeKey ==
  ASSUME NEW o
  PROVE  Min((1 .. Cardinality(Project) + 1) \ TakenKeys(o)) \in Nat
<1> DEFINE n == Cardinality(Project)
           Q == {q \in Project : project[q].org = o}
           f == [q \in Q |-> project[q].key]
           S == (1 .. n + 1) \ TakenKeys(o)
<1>1. IsFiniteSet(Q) /\ Cardinality(Q) <= n /\ n \in Nat /\ Cardinality(Q) \in Nat
  BY AccessConstants, FS_Subset, FS_CardinalityType
<1>2. f \in Surjection(Q, TakenKeys(o))
  BY DEF TakenKeys, Surjection
<1>3. IsFiniteSet(TakenKeys(o)) /\ Cardinality(TakenKeys(o)) <= Cardinality(Q)
  BY <1>1, <1>2, FS_Surjection
<1>4. Cardinality(1 .. n + 1) = n + 1
  BY <1>1, FS_Interval
<1>5. S /= {}
  <2> SUFFICES ASSUME (1 .. n + 1) \subseteq TakenKeys(o) PROVE FALSE
    OBVIOUS
  <2>1. Cardinality(1 .. n + 1) <= Cardinality(TakenKeys(o)) /\ Cardinality(TakenKeys(o)) \in Nat
    BY <1>3, FS_Subset, FS_CardinalityType
  <2> HIDE DEF n
  <2> QED BY <1>1, <1>3, <1>4, <2>1
<1>6. S \subseteq Nat
  BY <1>1
<1> QED BY <1>5, <1>6, MinIn

\* What a grant may carry, by the role of whoever makes it.
LEMMA GrantFacts ==
  ASSUME NEW mine \in Role, NEW role \in Role, MayGrant(mine, role)
  PROVE  role \in {"qa_engineer", "manager"} /\ (role = "manager" => mine = "owner")
  BY DEF MayGrant, Role

-----------------------------------------------------------------------------
(* Types *)

LEMMA InitAccessType == AccessInit => AccessType
<1> SUFFICES ASSUME AccessInit PROVE AccessType
  OBVIOUS
<1>1. PICK demo \in BOOLEAN :
        LET first == Min(Person)
            home  == Min(Org)
            shown == {p \in Project : demo /\ p = Min(Project)}
        IN /\ account = {first}
           /\ orgMember = [o \in Org |-> [u \in Person |-> IF o = home /\ u = first THEN "owner" ELSE "none"]]
           /\ active = [u \in Person |-> 0]
           /\ project = [p \in Project |-> IF p \in shown THEN [state |-> "live", org |-> home, key |-> 1]
                                           ELSE NoProject]
           /\ projMember = [p \in Project |-> [u \in Person |-> IF p \in shown /\ u = first THEN "owner" ELSE "none"]]
           /\ founder = [org |-> [o \in Org |-> IF o = home THEN first ELSE 0],
                         project |-> [p \in Project |-> IF p \in shown THEN first ELSE 0]]
  BY DEF AccessInit
<1>2. Min(Person) \in Person /\ Min(Org) \in Org
  BY AccessConstants, MinIn
<1>3. NoProject \in OrgRow /\ [state |-> "live", org |-> Min(Org), key |-> 1] \in OrgRow
  BY <1>2 DEF NoProject, OrgRow
<1>4. project \in [Project -> OrgRow]
  BY <1>1, <1>3
<1>5. NoInvite \in InviteRow /\ NoErrand \in Errand
  BY DEF NoInvite, InviteRow, NoErrand, Errand, HeldRole
<1>6. invite \in [Invite -> InviteRow] /\ clerk \in [Clerk -> Errand] /\ requests \in Nat
  BY <1>5 DEF AccessInit
<1>7. founder \in [org : [Org -> Person \cup {0}], project : [Project -> Person \cup {0}]]
  BY <1>1, <1>2
<1>8. orgMember \in [Org -> [Person -> HeldRole]] /\ projMember \in [Project -> [Person -> HeldRole]]
  BY <1>1 DEF HeldRole, Role
<1> QED BY <1>1, <1>2, <1>4, <1>6, <1>7, <1>8 DEF AccessType

-----------------------------------------------------------------------------
(* What holds of rows and requests keeps holding while rows are only added *)

Grows ==
  /\ \A o \in Org : founder.org[o] /= 0 => founder'.org[o] = founder.org[o]
  /\ \A p \in Project : project[p].state /= "none" =>
       project'[p].state /= "none" /\ project'[p].org = project[p].org
  /\ \A i \in Invite : invite[i].status /= "none" =>
       invite'[i].status /= "none" /\ invite'[i].org = invite[i].org

LEMMA StandingGrows == ASSUME UNCHANGED <<founder, project, invite>> PROVE Grows
  BY DEF Grows

LEMMA ErrandKept ==
  ASSUME AccessType, Grows, NEW c \in Clerk, ErrandSound(c), clerk'[c] = clerk[c]
  PROVE  ErrandSound(c)'
<1>1. clerk[c] \in Errand
  BY DEF AccessType
<1> QED BY <1>1 DEF Grows, ErrandSound, Founded, Granted, Errand

\* Two states of an invitation that offer the same.
SameOffer(v, w) ==
  /\ v.org = w.org /\ v.who = w.who /\ v.role = w.role /\ v.word = w.word /\ v.projects = w.projects
  /\ (v.status = "none") = (w.status = "none")

LEMMA InviteKept ==
  ASSUME AccessType, Grows, NEW i \in Invite, InviteSound(i), SameOffer(invite'[i], invite[i])
  PROVE  InviteSound(i)'
<1>1. invite[i].projects \subseteq Project
  BY DEF AccessType, InviteRow
<1> QED BY <1>1 DEF Grows, InviteSound, Founded, Granted, SameOffer

\* One request changes, and no table.
LEMMA ErrandStep ==
  ASSUME AccessInv, NEW c \in Clerk, NEW e \in Errand, clerk' = [clerk EXCEPT ![c] = e],
         ErrandSound(c)', account' \subseteq Person, active' \in [Person -> Org \cup {0}], requests' \in Nat,
         UNCHANGED <<orgMember, project, projMember, invite, founder, atOwnersWord, raced>>
  PROVE  AccessInv'
<1>1. AccessType'
  BY DEF AccessInv, AccessType
<1>2. \A d \in Clerk : ErrandSound(d)'
  <2>1. ASSUME NEW d \in Clerk, d /= c PROVE ErrandSound(d)'
    <3>1. clerk'[d] = clerk[d]
      BY <2>1 DEF AccessInv, AccessType
    <3> QED BY <3>1, ErrandKept, StandingGrows DEF AccessInv, AccessFacts
  <2> QED BY <2>1
<1>3. \A i \in Invite : InviteSound(i)'
  BY DEF AccessInv, AccessFacts, InviteSound, Founded, Granted
<1>4. Rooted'
  BY DEF AccessInv, AccessFacts, Rooted, Founded
<1>5. RolesAreGranted' /\ OrphansOnlyByRace'
  BY DEF AccessInv, RolesAreGranted, OwnersAreFounders, ManagersNeedAnOwner, OrphansOnlyByRace
<1> QED BY <1>1, <1>2, <1>3, <1>4, <1>5 DEF AccessInv, AccessFacts

\* The same for a step that writes tables: the other requests are as sound as they were.
LEMMA TableStep ==
  ASSUME AccessInv, AccessType', Grows, Rooted', \A i \in Invite : InviteSound(i)',
         NEW c \in Clerk, \A d \in Clerk \ {c} : clerk'[d] = clerk[d],
         clerk'[c] = clerk[c] \/ clerk'[c] = NoErrand
  PROVE  AccessFacts'
<1>1. ASSUME NEW d \in Clerk, clerk'[d] = clerk[d] PROVE ErrandSound(d)'
  BY <1>1, ErrandKept DEF AccessInv, AccessFacts
<1>2. ASSUME clerk'[c] = NoErrand PROVE ErrandSound(c)'
  BY <1>2 DEF ErrandSound, NoErrand
<1> QED BY <1>1, <1>2 DEF AccessFacts

LEMMA InvitesStand ==
  ASSUME AccessInv, Grows, UNCHANGED invite
  PROVE  \A i \in Invite : InviteSound(i)'
<1> SUFFICES ASSUME NEW i \in Invite PROVE InviteSound(i)'
  OBVIOUS
<1>1. SameOffer(invite'[i], invite[i])
  BY DEF SameOffer
<1> QED BY <1>1, InviteKept DEF AccessInv, AccessFacts

LEMMA DoneFacts ==
  ASSUME AccessType, NEW c \in Clerk, Done(c)
  PROVE  /\ clerk' \in [Clerk -> Errand] /\ clerk'[c] = NoErrand
         /\ \A d \in Clerk \ {c} : clerk'[d] = clerk[d]
<1>1. NoErrand \in Errand
  BY DEF NoErrand, Errand, HeldRole
<1> QED BY <1>1 DEF Done, AccessType

-----------------------------------------------------------------------------
(* The requests that arrive and decide *)

LEMMA AsksInFacts ==
  ASSUME AccessInv, NEW c \in Clerk, NEW u \in Person, AsksIn(c, u)
  PROVE  /\ workspace(u) \in Org /\ Founded(workspace(u)) /\ CallerRole(u) \in Role
         /\ active' \in [Person -> Org \cup {0}] /\ requests' \in Nat
<1>1. workspace(u) \in Org /\ CallerRole(u) \in Role /\ requests' \in Nat
  BY WorkspaceFacts DEF AsksIn, Asks, AccessInv, AccessType
<1>2. orgMember[workspace(u)][u] /= "none"
  BY <1>1 DEF CallerRole, Role
<1> QED BY <1>1, <1>2 DEF AsksIn, AccessInv, AccessType, AccessFacts, Rooted

\* What is handed to the later step of a request.
LEMMA HandStep ==
  ASSUME AccessInv, NEW c \in Clerk, NEW u \in Person,
         NEW op \in {"switch", "add", "remove", "role", "invite", "cancel", "resend", "accept", "register",
                     "project", "enrol"},
         NEW who \in Person \cup {0}, NEW role \in HeldRole, NEW o \in Org, NEW p \in Project \cup {0},
         NEW i \in Invite \cup {0}, NEW word \in HeldRole, Hand(c, op, u, who, role, o, p, i, word),
         op = "remove" => who \in Person,
         op \in {"add", "role", "invite", "accept", "register", "enrol"} =>
           /\ Founded(o) /\ who \in Person
           /\ role \in {"qa_engineer", "manager"} /\ (role = "manager" => word = "owner"),
         op = "invite" /\ p /= 0 => project[p].state /= "none" /\ project[p].org = o,
         op \in {"cancel", "resend", "accept", "register"} => i \in Invite /\ invite[i].status /= "none",
         op \in {"accept", "register"} => invite[i].org = o,
         op = "project" => Founded(o),
         op = "enrol" => p \in Project /\ project[p].state /= "none" /\ project[p].org = o,
         account' \subseteq Person, active' \in [Person -> Org \cup {0}], requests' \in Nat,
         UNCHANGED <<orgMember, project, projMember, invite, founder, atOwnersWord, raced>>
  PROVE  AccessInv'
<1> DEFINE e == [op |-> op, by |-> u, org |-> o, who |-> who, role |-> role,
                 proj |-> p, inv |-> i, word |-> word, key |-> 0, attempt |-> 0]
<1>1. e \in Errand
  BY DEF Errand
<1>2. clerk' = [clerk EXCEPT ![c] = e]
  BY DEF Hand
<1>3. clerk'[c] = e
  BY <1>2 DEF AccessInv, AccessType
<1>4. ErrandSound(c)'
  BY <1>3 DEF ErrandSound, Founded, Granted
<1> HIDE DEF e
<1> QED BY <1>1, <1>2, <1>4, ErrandStep

\* createWorkspace and the other actions that write at once are below, with the tables.
LEMMA AskerStep ==
  ASSUME AccessInv, NEW c \in Clerk, NEW u \in Person,
         \/ switchWorkspace(c, u) \/ addWorkspaceMember(c, u) \/ removeWorkspaceMember(c, u)
         \/ changeWorkspaceMemberRole(c, u) \/ createInvitation(c, u) \/ cancelInvitation(c, u)
         \/ resendInvitation(c, u) \/ acceptInvitation(c, u) \/ registerInvited(c, u)
         \/ createProject(c, u) \/ addProjectMember(c, u)
  PROVE  AccessInv'
<1> DEFINE o == workspace(u)
<1>0. AccessType /\ Role \subseteq HeldRole /\ {"none", "owner", "qa_engineer", "manager"} \subseteq HeldRole
      /\ {"owner", "qa_engineer", "manager"} = Role
  BY DEF AccessInv, HeldRole, Role
<1>1. CASE switchWorkspace(c, u)
  <2>1. PICK w \in Org : Hand(c, "switch", u, u, "none", w, 0, 0, "none")
    BY <1>1 DEF switchWorkspace
  <2>2. active' = active /\ requests' \in Nat /\ account' = account
    BY <1>1, <1>0 DEF switchWorkspace, Asks, AccessType
  <2> QED BY <1>1, <1>0, <2>1, <2>2, HandStep, ZenonT(60) DEF switchWorkspace, AccessType
<1>2. CASE addWorkspaceMember(c, u)
  <2>1. PICK who \in Person \ {u}, role \in {r \in Role : MayGrant(CallerRole(u), r)} :
             account' = account \cup {who} /\ Hand(c, "add", u, who, role, o, 0, 0, CallerRole(u))
    BY <1>2 DEF addWorkspaceMember
  <2>2. AsksIn(c, u) /\ UNCHANGED <<orgMember, project, projMember, invite, founder, atOwnersWord, raced>>
    BY <1>2 DEF addWorkspaceMember
  <2>3. account' \subseteq Person
    BY <1>0, <2>1 DEF AccessType
  <2> HIDE DEF o
  <2>4. o \in Org /\ Founded(o) /\ CallerRole(u) \in Role /\ active' \in [Person -> Org \cup {0}] /\ requests' \in Nat
    BY <2>2, AsksInFacts DEF o
  <2>5. role \in {"qa_engineer", "manager"} /\ (role = "manager" => CallerRole(u) = "owner")
    BY <2>4, GrantFacts
  <2> QED BY <1>0, <2>1, <2>2, <2>3, <2>4, <2>5, HandStep, ZenonT(60)
<1>3. CASE removeWorkspaceMember(c, u)
  <2>1. PICK who \in Person \ {u} : Hand(c, "remove", u, who, "none", o, 0, 0, "owner")
    BY <1>3 DEF removeWorkspaceMember
  <2>2. AsksIn(c, u) /\ UNCHANGED <<account, orgMember, project, projMember, invite, founder, atOwnersWord, raced>>
    BY <1>3 DEF removeWorkspaceMember
  <2> HIDE DEF o
  <2>3. o \in Org /\ active' \in [Person -> Org \cup {0}] /\ requests' \in Nat /\ account' \subseteq Person
    BY <1>0, <2>2, AsksInFacts DEF o, AccessType
  <2> QED BY <1>0, <2>1, <2>2, <2>3, HandStep, ZenonT(60)
<1>4. CASE changeWorkspaceMemberRole(c, u)
  <2>1. PICK who \in Person \ {u}, role \in Role \ {"owner"} : Hand(c, "role", u, who, role, o, 0, 0, "owner")
    BY <1>4 DEF changeWorkspaceMemberRole
  <2>2. AsksIn(c, u) /\ UNCHANGED <<account, orgMember, project, projMember, invite, founder, atOwnersWord, raced>>
    BY <1>4 DEF changeWorkspaceMemberRole
  <2> HIDE DEF o
  <2>3. o \in Org /\ Founded(o) /\ active' \in [Person -> Org \cup {0}] /\ requests' \in Nat /\ account' \subseteq Person
    BY <1>0, <2>2, AsksInFacts DEF o, AccessType
  <2> QED BY <1>0, <2>1, <2>2, <2>3, HandStep
<1>5. CASE createInvitation(c, u)
  <2>1. PICK who \in Person \ {u}, role \in {r \in Role : MayGrant(CallerRole(u), r)}, p \in {0} \cup OpenProjects(o) :
             Hand(c, "invite", u, who, role, o, p, 0, CallerRole(u))
    BY <1>5 DEF createInvitation
  <2>2. AsksIn(c, u) /\ UNCHANGED <<account, orgMember, project, projMember, invite, founder, atOwnersWord, raced>>
    BY <1>5 DEF createInvitation
  <2> HIDE DEF o
  <2>3. o \in Org /\ Founded(o) /\ CallerRole(u) \in Role /\ active' \in [Person -> Org \cup {0}] /\ requests' \in Nat
        /\ account' \subseteq Person
    BY <1>0, <2>2, AsksInFacts DEF o, AccessType
  <2>4. role \in {"qa_engineer", "manager"} /\ (role = "manager" => CallerRole(u) = "owner")
    BY <2>3, GrantFacts
  <2>5. p \in Project \cup {0} /\ (p /= 0 => project[p].state /= "none" /\ project[p].org = o)
    BY DEF OpenProjects
  <2> QED BY <1>0, <2>1, <2>2, <2>3, <2>4, <2>5, HandStep, ZenonT(60)
<1>6. CASE cancelInvitation(c, u) \/ resendInvitation(c, u)
  <2>1. PICK i \in Invite, op \in {"cancel", "resend"} :
             HandlesInvite(u, i) /\ Hand(c, op, u, 0, "none", o, 0, i, "none")
    BY <1>6 DEF cancelInvitation, resendInvitation
  <2>2. AsksIn(c, u) /\ UNCHANGED <<account, orgMember, project, projMember, invite, founder, atOwnersWord, raced>>
    BY <1>6 DEF cancelInvitation, resendInvitation
  <2>3. invite[i].status /= "none"
    BY <2>1 DEF HandlesInvite
  <2> HIDE DEF o
  <2>4. o \in Org /\ active' \in [Person -> Org \cup {0}] /\ requests' \in Nat /\ account' \subseteq Person
    BY <1>0, <2>2, AsksInFacts DEF o, AccessType
  <2>5. Hand(c, op, u, 0, "none", o, 0, i, "none") /\ 0 \in Person \cup {0} /\ 0 \in Project \cup {0}
        /\ "none" \in HeldRole /\ i \in Invite \cup {0}
    BY <2>1 DEF HeldRole
  <2>6. op \in {"switch", "add", "remove", "role", "invite", "cancel", "resend", "accept", "register",
                "project", "enrol"}
        /\ op \notin {"add", "role", "invite", "accept", "register", "enrol", "remove"}
    OBVIOUS
  <2> QED BY <1>0, <2>2, <2>3, <2>4, <2>5, <2>6, HandStep, ZenonT(60)
<1>7. CASE acceptInvitation(c, u) \/ registerInvited(c, u)
  <2>1. PICK i \in Invite, op \in {"accept", "register"} :
             /\ invite[i].status = "pending"
             /\ Hand(c, op, u, u, invite[i].role, invite[i].org, 0, i, invite[i].word)
    BY <1>7 DEF acceptInvitation, registerInvited
  <2>2. Founded(invite[i].org) /\ Granted(invite[i]) /\ invite[i] \in InviteRow
    BY <1>0, <2>1 DEF AccessInv, AccessFacts, InviteSound, AccessType
  <2>3. invite[i].org \in Org /\ invite[i].role \in HeldRole /\ invite[i].word \in HeldRole
    BY <2>2 DEF Founded, InviteRow
  <2>4. active' = active /\ requests' \in Nat /\ account' = account
        /\ UNCHANGED <<orgMember, project, projMember, invite, founder, atOwnersWord, raced>>
    BY <1>7, <1>0 DEF acceptInvitation, registerInvited, Asks, AccessType
  <2>5. active' \in [Person -> Org \cup {0}] /\ account' \subseteq Person
    BY <1>0, <2>4 DEF AccessType
  <2>6. invite[i].role \in {"qa_engineer", "manager"} /\ (invite[i].role = "manager" => invite[i].word = "owner")
    BY <2>2 DEF Granted
  <2>7. Hand(c, "accept", u, u, invite[i].role, invite[i].org, 0, i, invite[i].word) => AccessInv'
    BY <2>1, <2>2, <2>3, <2>4, <2>5, <2>6, HandStep, ZenonT(60)
  <2>8. Hand(c, "register", u, u, invite[i].role, invite[i].org, 0, i, invite[i].word) => AccessInv'
    BY <2>1, <2>2, <2>3, <2>4, <2>5, <2>6, HandStep, ZenonT(60)
  <2> QED BY <2>1, <2>7, <2>8
<1>8. CASE createProject(c, u)
  <2>1. Hand(c, "project", u, u, "owner", o, 0, 0, "none")
    BY <1>8 DEF createProject
  <2>2. AsksIn(c, u) /\ UNCHANGED <<account, orgMember, project, projMember, invite, founder, atOwnersWord, raced>>
    BY <1>8 DEF createProject
  <2> HIDE DEF o
  <2>3. o \in Org /\ Founded(o) /\ active' \in [Person -> Org \cup {0}] /\ requests' \in Nat /\ account' \subseteq Person
    BY <1>0, <2>2, AsksInFacts DEF o, AccessType
  <2> QED BY <1>0, <2>1, <2>2, <2>3, HandStep
<1>9. CASE addProjectMember(c, u)
  <2>1. PICK p \in Project, who \in Person, role \in Role :
             /\ requireProjectAccess(u, p) /\ MayGrant(projMember[p][u], role)
             /\ Hand(c, "enrol", u, who, role, project[p].org, p, 0, projMember[p][u])
    BY <1>9 DEF addProjectMember
  <2>2. AsksIn(c, u) /\ UNCHANGED <<account, orgMember, project, projMember, invite, founder, atOwnersWord, raced>>
    BY <1>9 DEF addProjectMember
  <2>3. o \in Org /\ Founded(o) /\ active' \in [Person -> Org \cup {0}] /\ requests' \in Nat /\ account' \subseteq Person
    BY <1>0, <2>2, AsksInFacts DEF AccessType
  <2>4. project[p].state = "live" /\ project[p].org = o /\ projMember[p][u] \in Role
    BY <1>0, <2>1 DEF requireProjectAccess, AccessType, HeldRole
  <2>5. role \in {"qa_engineer", "manager"} /\ (role = "manager" => projMember[p][u] = "owner")
    BY <2>1, <2>4, GrantFacts
  <2> HIDE DEF o
  <2> QED BY <1>0, <2>1, <2>2, <2>3, <2>4, <2>5, HandStep, SMTT(60)
<1> QED BY <1>1, <1>2, <1>3, <1>4, <1>5, <1>6, <1>7, <1>8, <1>9

-----------------------------------------------------------------------------
(* The steps that write tables *)

\* One entry of a table of roles changes.
LEMMA RoleWritten ==
  ASSUME NEW S, NEW f \in [S -> [Person -> HeldRole]], NEW x \in S, NEW u \in Person, NEW r \in HeldRole
  PROVE  /\ [f EXCEPT ![x][u] = r] \in [S -> [Person -> HeldRole]]
         /\ \A y \in S, w \in Person : [f EXCEPT ![x][u] = r][y][w] = IF y = x /\ w = u THEN r ELSE f[y][w]
  OBVIOUS

LEMMA SignUpStep ==
  ASSUME AccessInv, NEW u \in Person, SignUp(u)
  PROVE  AccessInv'
<1>1. AccessType'
  BY DEF SignUp, AccessInv, AccessType
<1>2. AccessFacts'
  BY DEF SignUp, AccessInv, AccessFacts, Rooted, InviteSound, ErrandSound, Founded, Granted
<1>3. RolesAreGranted' /\ OrphansOnlyByRace'
  BY DEF SignUp, AccessInv, RolesAreGranted, OwnersAreFounders, ManagersNeedAnOwner, OrphansOnlyByRace
<1> QED BY <1>1, <1>2, <1>3 DEF AccessInv

\* A workspace is made: nobody was in it.
LEMMA NewOrgFacts ==
  ASSUME AccessInv, NEW o \in FreeOrg
  PROVE  /\ o \in Org /\ founder.org[o] = 0 /\ ~Founded(o)
         /\ \A u \in Person : orgMember[o][u] = "none"
         /\ \A p \in Project : project[p].state /= "none" => project[p].org /= o
<1>1. o \in Org /\ founder.org[o] = 0
  BY LowestIn DEF FreeOrg
<1> QED BY <1>1 DEF AccessInv, AccessFacts, Rooted, Founded

LEMMA NewProjectFacts ==
  ASSUME AccessInv, NEW p \in FreeProject
  PROVE  /\ p \in Project /\ project[p].state = "none"
         /\ \A u \in Person : projMember[p][u] = "none"
<1>1. p \in Project /\ project[p].state = "none"
  BY LowestIn DEF FreeProject
<1> QED BY <1>1 DEF AccessInv, AccessFacts, Rooted

LEMMA createWorkspaceStep ==
  ASSUME AccessInv, NEW c \in Clerk, NEW u \in Person, createWorkspace(c, u)
  PROVE  AccessInv'
<1>1. PICK o \in FreeOrg :
        /\ orgMember' = [orgMember EXCEPT ![o][u] = "owner"]
        /\ active' = [active EXCEPT ![u] = o]
        /\ founder' = [founder EXCEPT !.org[o] = u]
  BY DEF createWorkspace
<1>2. UNCHANGED <<account, project, projMember, invite, clerk, atOwnersWord, raced>> /\ requests' \in Nat
  BY DEF createWorkspace, Asks, AccessInv, AccessType
<1>3. o \in Org /\ founder.org[o] = 0 /\ \A w \in Person : orgMember[o][w] = "none"
  BY NewOrgFacts
<1>4. u \in Nat \ {0} /\ AccessType
  BY AccessConstants DEF AccessInv
<1>5. /\ orgMember' \in [Org -> [Person -> HeldRole]]
      /\ \A y \in Org, w \in Person : orgMember'[y][w] = IF y = o /\ w = u THEN "owner" ELSE orgMember[y][w]
  <2>1. orgMember \in [Org -> [Person -> HeldRole]] /\ "owner" \in HeldRole
    BY <1>4 DEF AccessType, HeldRole, Role
  <2> QED BY <1>1, <1>3, <2>1, RoleWritten
<1>6. /\ founder' \in [org : [Org -> Person \cup {0}], project : [Project -> Person \cup {0}]]
      /\ founder'.project = founder.project
      /\ \A y \in Org : founder'.org[y] = IF y = o THEN u ELSE founder.org[y]
  BY <1>1, <1>3, <1>4 DEF AccessType
<1>7. AccessType'
  BY <1>1, <1>2, <1>3, <1>4, <1>5, <1>6 DEF AccessType
<1>8. Grows
  BY <1>2, <1>3, <1>6 DEF Grows
<1>9. Rooted'
  BY <1>2, <1>3, <1>4, <1>5, <1>6 DEF AccessInv, AccessFacts, Rooted, Founded
<1>10. AccessFacts'
  BY <1>2, <1>7, <1>8, <1>9, InvitesStand, TableStep
<1>11. RolesAreGranted'
  BY <1>2, <1>3, <1>5, <1>6 DEF AccessInv, RolesAreGranted, OwnersAreFounders, ManagersNeedAnOwner
<1>12. OrphansOnlyByRace'
  <2>1. \A p \in Project, w \in Person : projMember[p][w] /= "none" => project[p].org \in Org
    BY DEF AccessInv, AccessFacts, Rooted, Founded
  <2> QED BY <1>2, <1>5, <2>1 DEF AccessInv, OrphansOnlyByRace
<1> QED BY <1>7, <1>10, <1>11, <1>12 DEF AccessInv

LEMMA createOrgAndProjectStep ==
  ASSUME AccessInv, NEW c \in Clerk, NEW u \in Person, createOrgAndProject(c, u)
  PROVE  AccessInv'
<1>1. PICK o \in FreeOrg, p \in FreeProject :
        /\ orgMember' = [orgMember EXCEPT ![o][u] = "owner"]
        /\ project' = [project EXCEPT ![p] = [state |-> "live", org |-> o, key |-> 1]]
        /\ projMember' = [projMember EXCEPT ![p][u] = "owner"]
        /\ founder' = [founder EXCEPT !.org[o] = u, !.project[p] = u]
  BY DEF createOrgAndProject
<1>2. UNCHANGED <<account, active, invite, clerk, atOwnersWord, raced>> /\ requests' \in Nat
  BY DEF createOrgAndProject, Asks, AccessInv, AccessType
<1>3. o \in Org /\ founder.org[o] = 0 /\ \A w \in Person : orgMember[o][w] = "none"
  BY NewOrgFacts
<1>4. u \in Nat \ {0} /\ AccessType
  BY AccessConstants DEF AccessInv
<1>5. p \in Project /\ project[p].state = "none" /\ \A w \in Person : projMember[p][w] = "none"
  BY NewProjectFacts
<1>6. /\ orgMember' \in [Org -> [Person -> HeldRole]]
      /\ \A y \in Org, w \in Person : orgMember'[y][w] = IF y = o /\ w = u THEN "owner" ELSE orgMember[y][w]
  <2>1. orgMember \in [Org -> [Person -> HeldRole]] /\ "owner" \in HeldRole
    BY <1>4 DEF AccessType, HeldRole, Role
  <2> QED BY <1>1, <1>3, <2>1, RoleWritten
<1>7. /\ projMember' \in [Project -> [Person -> HeldRole]]
      /\ \A y \in Project, w \in Person : projMember'[y][w] = IF y = p /\ w = u THEN "owner" ELSE projMember[y][w]
  <2>1. projMember \in [Project -> [Person -> HeldRole]] /\ "owner" \in HeldRole
    BY <1>4 DEF AccessType, HeldRole, Role
  <2> QED BY <1>1, <1>5, <2>1, RoleWritten
<1>8. /\ founder' \in [org : [Org -> Person \cup {0}], project : [Project -> Person \cup {0}]]
      /\ \A y \in Org : founder'.org[y] = IF y = o THEN u ELSE founder.org[y]
      /\ \A y \in Project : founder'.project[y] = IF y = p THEN u ELSE founder.project[y]
  BY <1>1, <1>3, <1>4, <1>5 DEF AccessType
<1>9. /\ project' \in [Project -> OrgRow]
      /\ project'[p].state = "live" /\ project'[p].org = o
      /\ \A y \in Project \ {p} : project'[y] = project[y]
  BY <1>1, <1>3, <1>4, <1>5 DEF AccessType, OrgRow
<1>10. AccessType'
  BY <1>2, <1>4, <1>6, <1>7, <1>8, <1>9 DEF AccessType
<1>11. Grows
  BY <1>2, <1>3, <1>5, <1>8, <1>9 DEF Grows
<1>12. Rooted'
  <2>1. \A y \in Org : Founded(y)' <=> Founded(y) \/ y = o
    BY <1>3, <1>4, <1>8 DEF Founded
  <2>2. \A y \in Org, w \in Person : orgMember'[y][w] /= "none" => Founded(y)'
    BY <1>6, <2>1 DEF AccessInv, AccessFacts, Rooted
  <2>3. ASSUME NEW y \in Project, project'[y].state /= "none" PROVE Founded(project[y].org)'
    BY <1>3, <1>9, <2>1, <2>3 DEF AccessInv, AccessFacts, Rooted, Founded
  <2>4. \A y \in Project, w \in Person : projMember'[y][w] /= "none" => project'[y].state /= "none"
    BY <1>7, <1>9 DEF AccessInv, AccessFacts, Rooted
  <2> QED BY <2>2, <2>3, <2>4 DEF Rooted
<1>13. AccessFacts'
  BY <1>2, <1>10, <1>11, <1>12, InvitesStand, TableStep
<1>14. RolesAreGranted'
  <2>1. OwnersAreFounders'
    <3>1. ASSUME NEW y \in Org, NEW w \in Person, orgMember'[y][w] = "owner" PROVE founder'.org[y] = w
      BY <1>3, <1>6, <1>8, <3>1 DEF AccessInv, RolesAreGranted, OwnersAreFounders
    <3>2. ASSUME NEW y \in Project, NEW w \in Person, projMember'[y][w] = "owner" PROVE founder'.project[y] = w
      BY <1>5, <1>7, <1>8, <3>2 DEF AccessInv, RolesAreGranted, OwnersAreFounders
    <3> QED BY <3>1, <3>2 DEF OwnersAreFounders
  <2>2. ManagersNeedAnOwner'
    BY <1>2, <1>6, <1>7 DEF AccessInv, RolesAreGranted, ManagersNeedAnOwner
  <2> QED BY <2>1, <2>2 DEF RolesAreGranted
<1>15. OrphansOnlyByRace'
  <2>1. \A q \in Project, w \in Person : projMember[q][w] /= "none" => project[q].org \in Org
    BY DEF AccessInv, AccessFacts, Rooted, Founded
  <2> QED BY <1>2, <1>3, <1>5, <1>6, <1>7, <1>9, <2>1, SMTT(60) DEF AccessInv, OrphansOnlyByRace
<1> QED BY <1>10, <1>13, <1>14, <1>15 DEF AccessInv

\* A grant lands: the role of one person in one workspace is written.
LEMMA GrantLands ==
  ASSUME AccessInv, NEW c \in Clerk, NEW o \in Org, NEW w \in Person, NEW r \in {"qa_engineer", "manager"},
         NEW word, r = "manager" => word = "owner", Founded(o),
         orgMember' = [orgMember EXCEPT ![o][w] = r],
         atOwnersWord' = OwnersWord(<<"org", o>>, w, r, word), Done(c),
         UNCHANGED <<account, active, project, projMember, invite, requests, founder, raced>>
  PROVE  AccessInv'
<1>1. AccessType /\ r \in HeldRole
  BY DEF AccessInv, HeldRole, Role
<1>2. /\ orgMember' \in [Org -> [Person -> HeldRole]]
      /\ \A y \in Org, x \in Person : orgMember'[y][x] = IF y = o /\ x = w THEN r ELSE orgMember[y][x]
  <2>1. orgMember \in [Org -> [Person -> HeldRole]]
    BY <1>1 DEF AccessType
  <2> QED BY <1>1, <2>1, RoleWritten
<1>3. AccessType'
  BY <1>1, <1>2, DoneFacts DEF AccessType
<1>4. Rooted'
  BY <1>2 DEF AccessInv, AccessFacts, Rooted, Founded
<1>5. AccessFacts'
  BY <1>1, <1>3, <1>4, DoneFacts, StandingGrows, InvitesStand, TableStep
<1>6. OwnersAreFounders'
  BY <1>2 DEF AccessInv, RolesAreGranted, OwnersAreFounders
<1>7. ManagersNeedAnOwner'
  BY <1>2 DEF AccessInv, RolesAreGranted, ManagersNeedAnOwner, OwnersWord
<1>8. OrphansOnlyByRace'
  <2>1. \A p \in Project, x \in Person : projMember[p][x] /= "none" => project[p].org \in Org
    BY DEF AccessInv, AccessFacts, Rooted, Founded
  <2> QED BY <1>2, <2>1 DEF AccessInv, OrphansOnlyByRace
<1> QED BY <1>3, <1>5, <1>6, <1>7, <1>8 DEF AccessInv, RolesAreGranted

LEMMA AddedMemberStep ==
  ASSUME AccessInv, NEW c \in Clerk, AddedMember(c)
  PROVE  AccessInv'
<1>1. Founded(clerk[c].org) /\ clerk[c].who \in Person /\ Granted(clerk[c])
  BY DEF AddedMember, AccessInv, AccessFacts, ErrandSound
<1> QED BY <1>1, GrantLands DEF AddedMember, Founded, Granted

LEMMA ChangedRoleStep ==
  ASSUME AccessInv, NEW c \in Clerk, ChangedRole(c)
  PROVE  AccessInv'
<1>1. Founded(clerk[c].org) /\ clerk[c].who \in Person /\ Granted(clerk[c])
  BY DEF ChangedRole, AccessInv, AccessFacts, ErrandSound
<1>2. CASE orgMember[clerk[c].org][clerk[c].who] = "none"
  <2>1. clerk' = [clerk EXCEPT ![c] = NoErrand]
        /\ UNCHANGED <<account, orgMember, active, project, projMember, invite, requests, founder, atOwnersWord, raced>>
    BY <1>2 DEF ChangedRole, Done
  <2>2. NoErrand \in Errand /\ ErrandSound(c)'
    BY <2>1, DoneFacts DEF AccessInv, AccessType, NoErrand, Errand, HeldRole, ErrandSound
  <2> QED BY <2>1, <2>2, ErrandStep DEF AccessInv, AccessType
<1>3. CASE orgMember[clerk[c].org][clerk[c].who] /= "none"
  BY <1>1, <1>3, GrantLands DEF ChangedRole, Founded, Granted
<1> QED BY <1>2, <1>3

LEMMA RemovedMemberStep ==
  ASSUME AccessInv, NEW c \in Clerk, RemovedMember(c)
  PROVE  AccessInv'
<1> DEFINE o == clerk[c].org
           w == clerk[c].who
<1>1. o \in Org /\ w \in Person /\ AccessType /\ "none" \in HeldRole
  BY DEF RemovedMember, AccessInv, AccessFacts, ErrandSound, HeldRole
<1>2. UNCHANGED <<account, active, project, invite, requests, founder, atOwnersWord>> /\ Done(c)
  BY DEF RemovedMember
<1> HIDE DEF o, w
<1>3. /\ orgMember' \in [Org -> [Person -> HeldRole]]
      /\ \A y \in Org, x \in Person : orgMember'[y][x] = IF y = o /\ x = w THEN "none" ELSE orgMember[y][x]
  <2>1. orgMember \in [Org -> [Person -> HeldRole]] /\ orgMember' = [orgMember EXCEPT ![o][w] = "none"]
    BY <1>1 DEF AccessType, RemovedMember, o, w
  <2> QED BY <1>1, <2>1, RoleWritten
<1>4. /\ projMember' \in [Project -> [Person -> HeldRole]]
      /\ \A p \in Project, x \in Person :
           projMember'[p][x] = IF project[p].org = o /\ x = w THEN "none" ELSE projMember[p][x]
  <2>1. projMember' = [p \in Project |-> IF project[p].org = o
                                         THEN [projMember[p] EXCEPT ![w] = "none"] ELSE projMember[p]]
    BY DEF RemovedMember, o, w
  <2>2. \A p \in Project : projMember[p] \in [Person -> HeldRole]
    BY <1>1 DEF AccessType
  <2> QED BY <1>1, <2>1, <2>2
<1>5. AccessType'
  BY <1>1, <1>2, <1>3, <1>4, DoneFacts DEF AccessType
<1>6. Rooted'
  BY <1>2, <1>3, <1>4 DEF AccessInv, AccessFacts, Rooted, Founded
<1>7. AccessFacts'
  BY <1>1, <1>2, <1>5, <1>6, DoneFacts, StandingGrows, InvitesStand, TableStep
<1>8. OwnersAreFounders' /\ ManagersNeedAnOwner'
  BY <1>2, <1>3, <1>4 DEF AccessInv, RolesAreGranted, OwnersAreFounders, ManagersNeedAnOwner
<1>9. OrphansOnlyByRace'
  <2>1. \A p \in Project, x \in Person : projMember[p][x] /= "none" => project[p].org \in Org
    BY DEF AccessInv, AccessFacts, Rooted, Founded
  <2>2. raced' = {x \in raced : x[2] /= w \/ project[x[1]].org /= o}
    BY DEF RemovedMember, o, w
  <2>3. ASSUME NEW p \in Project, NEW x \in Person, projMember'[p][x] /= "none", orgMember'[project[p].org][x] = "none"
        PROVE  <<p, x>> \in raced'
    <3>1. ~(project[p].org = o /\ x = w) /\ projMember[p][x] /= "none"
      BY <1>4, <2>3
    <3>2. <<p, x>> \in raced
      BY <1>3, <2>1, <2>3, <3>1 DEF AccessInv, OrphansOnlyByRace
    <3> QED BY <2>2, <3>1, <3>2
  <2> QED BY <1>2, <2>3 DEF OrphansOnlyByRace
<1> QED BY <1>5, <1>7, <1>8, <1>9 DEF AccessInv, RolesAreGranted

\* Only the status or the lateness of one invitation changes.
LEMMA InviteStep ==
  ASSUME AccessInv, NEW i \in Invite, NEW v \in InviteRow, SameOffer(v, invite[i]),
         invite' = [invite EXCEPT ![i] = v]
  PROVE  /\ invite' \in [Invite -> InviteRow]
         /\ UNCHANGED <<founder, project>> => Grows /\ \A j \in Invite : InviteSound(j)'
<1>1. invite' \in [Invite -> InviteRow]
  BY DEF AccessInv, AccessType
<1>2. \A j \in Invite : SameOffer(invite'[j], invite[j])
  BY DEF AccessInv, AccessType, SameOffer
<1>3. ASSUME UNCHANGED <<founder, project>> PROVE Grows
  BY <1>2, <1>3 DEF Grows, SameOffer
<1>4. ASSUME UNCHANGED <<founder, project>> PROVE \A j \in Invite : InviteSound(j)'
  BY <1>2, <1>3, <1>4, InviteKept DEF AccessInv, AccessFacts
<1> QED BY <1>1, <1>3, <1>4

\* An invitation ages, lapses, is cancelled or sent again.
LEMMA InviteMarked ==
  ASSUME AccessInv, NEW i \in Invite, invite[i].status /= "none", NEW c \in Clerk,
         \/ invite' = [invite EXCEPT ![i].status = "expired"]
         \/ invite' = [invite EXCEPT ![i].status = "cancelled"]
         \/ \E late \in BOOLEAN : invite' = [invite EXCEPT ![i].late = late],
         clerk' = clerk \/ Done(c), requests' \in Nat,
         UNCHANGED <<account, orgMember, active, project, projMember, founder, atOwnersWord, raced>>
  PROVE  AccessInv'
<1>1. invite[i] \in InviteRow
  BY DEF AccessInv, AccessType
<1>2. PICK v \in InviteRow : SameOffer(v, invite[i]) /\ invite' = [invite EXCEPT ![i] = v]
  <2>1. ASSUME NEW st \in {"expired", "cancelled"}, invite' = [invite EXCEPT ![i].status = st]
        PROVE  \E v \in InviteRow : SameOffer(v, invite[i]) /\ invite' = [invite EXCEPT ![i] = v]
    <3> DEFINE v == [invite[i] EXCEPT !.status = st]
    <3>1. v \in InviteRow /\ SameOffer(v, invite[i])
      BY <1>1 DEF InviteRow, SameOffer
    <3> QED BY <2>1, <3>1
  <2>2. ASSUME NEW late \in BOOLEAN, invite' = [invite EXCEPT ![i].late = late]
        PROVE  \E v \in InviteRow : SameOffer(v, invite[i]) /\ invite' = [invite EXCEPT ![i] = v]
    <3> DEFINE v == [invite[i] EXCEPT !.late = late]
    <3>1. v \in InviteRow /\ SameOffer(v, invite[i])
      BY <1>1 DEF InviteRow, SameOffer
    <3> QED BY <2>2, <3>1
  <2> QED BY <2>1, <2>2
<1>3. invite' \in [Invite -> InviteRow] /\ Grows /\ \A j \in Invite : InviteSound(j)'
  BY <1>2, InviteStep
<1>4. /\ clerk' \in [Clerk -> Errand] /\ clerk'[c] \in {clerk[c], NoErrand}
      /\ \A d \in Clerk \ {c} : clerk'[d] = clerk[d]
  BY DoneFacts DEF AccessInv, AccessType
<1>5. AccessType'
  BY <1>3, <1>4 DEF AccessInv, AccessType
<1>6. Rooted'
  BY DEF AccessInv, AccessFacts, Rooted, Founded
<1>7. AccessFacts'
  BY <1>3, <1>4, <1>5, <1>6, TableStep
<1>8. RolesAreGranted' /\ OrphansOnlyByRace'
  BY DEF AccessInv, RolesAreGranted, OwnersAreFounders, ManagersNeedAnOwner, OrphansOnlyByRace
<1> QED BY <1>5, <1>7, <1>8 DEF AccessInv

LEMMA InviteStatusStep ==
  ASSUME AccessInv, NEW c \in Clerk, NEW i \in Invite,
         InviteLapses(i) \/ ExpireLapsed(i) \/ Cancelled(c) \/ Resent(c)
  PROVE  AccessInv'
<1>1. CASE InviteLapses(i) \/ ExpireLapsed(i)
  <2>1. invite[i].status /= "none" /\ requests' \in Nat
    BY <1>1 DEF InviteLapses, ExpireLapsed, AccessInv, AccessType
  <2> QED BY <1>1, <2>1, InviteMarked DEF InviteLapses, ExpireLapsed
<1>2. CASE Cancelled(c) \/ Resent(c)
  <2>1. clerk[c].inv \in Invite /\ invite[clerk[c].inv].status /= "none" /\ requests' \in Nat
    BY <1>2 DEF Cancelled, Resent, AccessInv, AccessType, AccessFacts, ErrandSound
  <2> QED BY <1>2, <2>1, InviteMarked DEF Cancelled, Resent
<1> QED BY <1>1, <1>2

LEMMA InvitedStep ==
  ASSUME AccessInv, NEW c \in Clerk, Invited(c)
  PROVE  AccessInv'
<1> DEFINE e == clerk[c]
           v == [status |-> "pending", org |-> e.org, who |-> e.who, role |-> e.role,
                 projects |-> {e.proj} \ {0}, by |-> e.by, word |-> e.word, late |-> FALSE]
<1>1. /\ e \in Errand /\ Founded(e.org) /\ e.who \in Person /\ Granted(e)
      /\ e.proj /= 0 => project[e.proj].state /= "none" /\ project[e.proj].org = e.org
  BY DEF Invited, AccessInv, AccessType, AccessFacts, ErrandSound
<1>2. v \in InviteRow /\ v.org = e.org /\ v.status = "pending" /\ Founded(v.org) /\ v.who \in Person /\ Granted(v)
      /\ \A p \in v.projects : project[p].state /= "none" /\ project[p].org = v.org
  BY <1>1 DEF InviteRow, Errand, Founded, Granted
<1>3. \A i \in FreeInvite : i \in Invite /\ invite[i].status = "none"
  BY LowestIn DEF FreeInvite
<1>4. invite' = [i \in Invite |-> IF i \in FreeInvite THEN v ELSE invite[i]]
  BY DEF Invited
<1>5. UNCHANGED <<account, orgMember, active, project, projMember, requests, founder, atOwnersWord, raced>> /\ Done(c)
  BY DEF Invited
<1> HIDE DEF v, e
<1>6. invite' \in [Invite -> InviteRow]
  BY <1>2, <1>4 DEF AccessInv, AccessType
<1>7. AccessType'
  BY <1>5, <1>6, DoneFacts DEF AccessInv, AccessType
<1>8. Grows
  BY <1>3, <1>4, <1>5 DEF Grows
<1>9. ASSUME NEW i \in Invite PROVE InviteSound(i)'
  <2>1. CASE i \in FreeInvite
    <3>1. invite'[i] = v
      BY <1>4, <2>1
    <3> QED BY <1>2, <1>5, <3>1 DEF InviteSound, Founded, Granted
  <2>2. CASE i \notin FreeInvite
    <3>1. SameOffer(invite'[i], invite[i])
      BY <1>4, <2>2 DEF SameOffer
    <3> QED BY <1>8, <3>1, InviteKept DEF AccessInv, AccessFacts
  <2> QED BY <2>1, <2>2
<1>10. Rooted'
  BY <1>5 DEF AccessInv, AccessFacts, Rooted, Founded
<1>11. AccessFacts'
  BY <1>5, <1>7, <1>8, <1>9, <1>10, DoneFacts, TableStep DEF AccessInv
<1>12. RolesAreGranted' /\ OrphansOnlyByRace'
  BY <1>5 DEF AccessInv, RolesAreGranted, OwnersAreFounders, ManagersNeedAnOwner, OrphansOnlyByRace
<1> QED BY <1>7, <1>11, <1>12 DEF AccessInv

\* The transaction an invitation ends in: the workspace and its invited projects at once.
LEMMA JoinsStep ==
  ASSUME AccessInv, NEW c \in Clerk, clerk[c].op \in {"accept", "register"}, Joins(c),
         account' \subseteq Person, UNCHANGED <<project, requests, founder, raced>>
  PROVE  AccessInv'
<1> DEFINE e == clerk[c]
           i == e.inv
           o == e.org
           w == e.who
           r == e.role
           into == invite[i].projects
           places == {<<"org", o>>} \cup {<<"project", p>> : p \in into}
<1>1. /\ e \in Errand /\ Founded(o) /\ o \in Org /\ w \in Person /\ Granted(e) /\ r \in {"qa_engineer", "manager"}
      /\ r = "manager" => e.word = "owner"
      /\ i \in Invite /\ invite[i].status /= "none" /\ invite[i].org = o
  BY DEF AccessInv, AccessType, AccessFacts, ErrandSound, Founded, Granted
<1>2. into \subseteq Project /\ \A p \in into : project[p].state /= "none" /\ project[p].org = o
  BY <1>1 DEF AccessInv, AccessType, InviteRow, AccessFacts, InviteSound
<1>3. /\ orgMember' = [orgMember EXCEPT ![o][w] = r]
      /\ projMember' = [p \in Project |-> IF p \in into THEN [projMember[p] EXCEPT ![w] = r] ELSE projMember[p]]
      /\ atOwnersWord' = IF r = "manager" /\ e.word = "owner"
                         THEN atOwnersWord \cup {<<x, w>> : x \in places}
                         ELSE atOwnersWord \ {<<x, w>> : x \in places}
      /\ active' = [active EXCEPT ![w] = o]
      /\ invite' = [invite EXCEPT ![i].status = "accepted"]
      /\ Done(c)
  BY DEF Joins
<1>4. AccessType /\ orgMember \in [Org -> [Person -> HeldRole]] /\ r \in HeldRole
  BY <1>1 DEF AccessInv, AccessType, HeldRole, Role
<1> HIDE DEF into, r, w, o, i
<1>5. /\ orgMember' \in [Org -> [Person -> HeldRole]]
      /\ \A y \in Org, x \in Person : orgMember'[y][x] = IF y = o /\ x = w THEN r ELSE orgMember[y][x]
  BY <1>1, <1>3, <1>4, RoleWritten
<1>6. /\ projMember' \in [Project -> [Person -> HeldRole]]
      /\ \A p \in Project, x \in Person : projMember'[p][x] = IF p \in into /\ x = w THEN r ELSE projMember[p][x]
  <2>1. \A p \in Project : projMember[p] \in [Person -> HeldRole]
    BY <1>4 DEF AccessType
  <2> QED BY <1>1, <1>3, <1>4, <2>1
<1>7. invite' \in [Invite -> InviteRow] /\ Grows /\ \A j \in Invite : InviteSound(j)'
  <2> DEFINE v == [invite[i] EXCEPT !.status = "accepted"]
  <2>1. v \in InviteRow /\ SameOffer(v, invite[i])
    BY <1>1, <1>4, ZenonT(60) DEF AccessType, InviteRow, SameOffer
  <2>2. invite' = [invite EXCEPT ![i] = v]
    BY <1>3
  <2> HIDE DEF v
  <2> QED BY <1>1, <2>1, <2>2, InviteStep
<1>8. active' \in [Person -> Org \cup {0}]
  BY <1>1, <1>3, <1>4 DEF AccessType
<1>9. AccessType'
  BY <1>3, <1>4, <1>5, <1>6, <1>7, <1>8, DoneFacts DEF AccessType
<1>10. Rooted'
  <2>1. \A y \in Org : Founded(y)' <=> Founded(y)
    BY DEF Founded
  <2>2. \A y \in Org, x \in Person : orgMember'[y][x] /= "none" => Founded(y)'
    BY <1>1, <1>5, <2>1 DEF AccessInv, AccessFacts, Rooted
  <2>3. \A p \in Project : project'[p].state /= "none" => Founded(project[p].org)'
    BY DEF AccessInv, AccessFacts, Rooted, Founded
  <2>4. \A p \in Project, x \in Person : projMember'[p][x] /= "none" => project'[p].state /= "none"
    BY <1>2, <1>6 DEF AccessInv, AccessFacts, Rooted
  <2> QED BY <2>2, <2>3, <2>4 DEF Rooted
<1>11. AccessFacts'
  BY <1>3, <1>4, <1>7, <1>9, <1>10, DoneFacts, TableStep
<1>12. OwnersAreFounders'
  BY <1>1, <1>5, <1>6, SMTT(60) DEF AccessInv, RolesAreGranted, OwnersAreFounders
<1>13. ManagersNeedAnOwner'
  <2>1. ASSUME NEW y \in Org, NEW x \in Person, orgMember'[y][x] = "manager"
        PROVE  <<<<"org", y>>, x>> \in atOwnersWord'
    <3>1. CASE y = o /\ x = w
      BY <1>1, <1>3, <1>5, <2>1, <3>1
    <3>2. CASE ~(y = o /\ x = w)
      <4>1. <<<<"org", y>>, x>> \in atOwnersWord
        BY <1>5, <2>1, <3>2 DEF AccessInv, RolesAreGranted, ManagersNeedAnOwner
      <4> QED BY <1>3, <3>2, <4>1
    <3> QED BY <3>1, <3>2
  <2>2. ASSUME NEW p \in Project, NEW x \in Person, projMember'[p][x] = "manager"
        PROVE  <<<<"project", p>>, x>> \in atOwnersWord'
    <3>1. CASE p \in into /\ x = w
      BY <1>1, <1>3, <1>6, <2>2, <3>1
    <3>2. CASE ~(p \in into /\ x = w)
      <4>1. <<<<"project", p>>, x>> \in atOwnersWord
        BY <1>6, <2>2, <3>2 DEF AccessInv, RolesAreGranted, ManagersNeedAnOwner
      <4> QED BY <1>3, <3>2, <4>1
    <3> QED BY <3>1, <3>2
  <2> QED BY <2>1, <2>2 DEF ManagersNeedAnOwner
<1>14. OrphansOnlyByRace'
  <2>1. \A p \in Project, x \in Person : projMember[p][x] /= "none" => project[p].org \in Org
    BY DEF AccessInv, AccessFacts, Rooted, Founded
  <2>2. ASSUME NEW p \in Project, NEW x \in Person, projMember'[p][x] /= "none", orgMember'[project[p].org][x] = "none"
        PROVE  <<p, x>> \in raced
    <3>1. ~(p \in into /\ x = w)
      BY <1>1, <1>2, <1>5, <2>2
    <3>2. projMember[p][x] /= "none" /\ orgMember[project[p].org][x] = "none"
      BY <1>1, <1>5, <1>6, <2>1, <2>2, <3>1
    <3> QED BY <3>2 DEF AccessInv, OrphansOnlyByRace
  <2> QED BY <2>2 DEF OrphansOnlyByRace
<1> QED BY <1>9, <1>11, <1>12, <1>13, <1>14 DEF AccessInv, RolesAreGranted

LEMMA ErrandKeyed ==
  ASSUME NEW e \in Errand, NEW k \in Nat, NEW n \in Nat
  PROVE  LET d == [e EXCEPT !.key = k, !.attempt = n]
         IN  d \in Errand /\ d.op = e.op /\ d.org = e.org /\ d.by = e.by
  BY DEF Errand

\* A registration overtaken by another account, a switch that lands, a key that is drawn.
LEMMA SmallStep ==
  ASSUME AccessInv, NEW c \in Clerk, Switched(c) \/ RegistrationConflict(c) \/ nextFreeProjectKey(c)
  PROVE  AccessInv'
<1>1. AccessType /\ clerk[c] \in Errand /\ NoErrand \in Errand
  BY DEF AccessInv, AccessType, NoErrand, Errand, HeldRole
<1>2. ASSUME Done(c) PROVE ErrandSound(c)'
  BY <1>1, <1>2, DoneFacts DEF ErrandSound, NoErrand
<1>3. CASE Switched(c)
  <2>1. active' \in [Person -> Org \cup {0}]
    BY <1>1, <1>3 DEF Switched, AccessInv, AccessType, AccessFacts, ErrandSound
  <2> QED BY <1>1, <1>2, <1>3, <2>1, ErrandStep DEF Switched, Done, AccessType
<1>4. CASE RegistrationConflict(c)
  BY <1>1, <1>2, <1>4, ErrandStep DEF RegistrationConflict, Done, AccessType
<1>5. CASE nextFreeProjectKey(c)
  <2> DEFINE k == Min((1 .. Cardinality(Project) + 1) \ TakenKeys(clerk[c].org))
             e == [clerk[c] EXCEPT !.key = k, !.attempt = clerk[c].attempt + 1]
  <2>1. k \in Nat
    BY FreeKey
  <2>2. clerk' = [clerk EXCEPT ![c] = e]
    <3>1. clerk' = [clerk EXCEPT ![c].key = k, ![c].attempt = clerk[c].attempt + 1]
      BY <1>5 DEF nextFreeProjectKey
    <3> HIDE DEF k
    <3> QED BY <1>1, <3>1 DEF AccessType, Errand
  <2> HIDE DEF k
  <2>3. e \in Errand /\ e.op = "project" /\ e.org = clerk[c].org /\ e.by = clerk[c].by
    <3>1. clerk[c].op = "project"
      BY <1>5 DEF nextFreeProjectKey
    <3>2. clerk[c].attempt + 1 \in Nat
      BY <1>1 DEF Errand
    <3> QED BY <1>1, <2>1, <3>1, <3>2, ErrandKeyed, ZenonT(60)
  <2>4. clerk'[c] = e
    BY <1>1, <2>2 DEF AccessType
  <2> HIDE DEF e
  <2>5. Founded(clerk[c].org) /\ clerk[c].by \in Person /\ founder' = founder
    BY <1>5 DEF nextFreeProjectKey, AccessInv, AccessFacts, ErrandSound
  <2>6. ErrandSound(c)'
    BY <2>3, <2>4, <2>5 DEF ErrandSound, Founded
  <2> QED BY <1>1, <1>5, <2>2, <2>3, <2>6, ErrandStep DEF nextFreeProjectKey, AccessType
<1> QED BY <1>3, <1>4, <1>5

\* A project's table entry is written: by creation, enrolment or removal.
LEMMA insertProjectStep ==
  ASSUME AccessInv, NEW c \in Clerk, insertProjectWithUniqueKey(c)
  PROVE  AccessInv'
<1> DEFINE e == clerk[c]
<1>1. /\ AccessType /\ e \in Errand /\ e.op = "project" /\ Founded(e.org) /\ e.org \in Org
      /\ e.by \in Person /\ NoErrand \in Errand
  BY DEF insertProjectWithUniqueKey, AccessInv, AccessType, AccessFacts, ErrandSound, Founded, NoErrand, Errand, HeldRole
<1>2. UNCHANGED <<account, orgMember, active, invite, requests, atOwnersWord>>
  BY DEF insertProjectWithUniqueKey
<1>3. CASE e.key \in TakenKeys(e.org)
  <2> DEFINE n == IF e.attempt >= KeyAttempts THEN NoErrand ELSE [e EXCEPT !.key = 0]
  <2>1. clerk' = [clerk EXCEPT ![c] = n] /\ UNCHANGED <<project, projMember, founder, raced>>
    BY <1>3 DEF insertProjectWithUniqueKey
  <2>2. n \in Errand /\ (n.op = "idle" \/ (n.op = "project" /\ n.org = e.org /\ n.by = e.by))
    BY <1>1 DEF Errand, NoErrand
  <2> HIDE DEF n
  <2>3. ErrandSound(c)'
    <3>1. clerk'[c] = n
      BY <1>1, <2>1 DEF AccessType
    <3> HIDE DEF e
    <3> QED BY <1>1, <2>1, <2>2, <3>1 DEF ErrandSound, Founded
  <2> QED BY <1>1, <1>2, <2>1, <2>2, <2>3, ErrandStep DEF AccessType
<1>4. CASE e.key \notin TakenKeys(e.org)
  <2>1. PICK p \in FreeProject :
          /\ project' = [project EXCEPT ![p] = [state |-> "live", org |-> e.org, key |-> e.key]]
          /\ projMember' = [projMember EXCEPT ![p][e.by] = "owner"]
          /\ founder' = [founder EXCEPT !.project[p] = e.by]
          /\ raced' = IF orgMember[e.org][e.by] = "none" THEN raced \cup {<<p, e.by>>} ELSE raced
          /\ Done(c)
    BY <1>4 DEF insertProjectWithUniqueKey
  <2>2. p \in Project /\ project[p].state = "none" /\ \A w \in Person : projMember[p][w] = "none"
    BY NewProjectFacts
  <2>3. e.key \in Nat
    BY <1>1 DEF Errand
  <2> DEFINE o == e.org
             u == e.by
  <2> HIDE DEF e
  <2>4. /\ projMember' \in [Project -> [Person -> HeldRole]]
        /\ \A y \in Project, w \in Person : projMember'[y][w] = IF y = p /\ w = u THEN "owner" ELSE projMember[y][w]
    <3>1. projMember \in [Project -> [Person -> HeldRole]] /\ "owner" \in HeldRole
      BY <1>1 DEF AccessType, HeldRole, Role
    <3> QED BY <1>1, <2>1, <2>2, <3>1, RoleWritten
  <2>5. /\ founder' \in [org : [Org -> Person \cup {0}], project : [Project -> Person \cup {0}]]
        /\ founder'.org = founder.org
        /\ \A y \in Project : founder'.project[y] = IF y = p THEN u ELSE founder.project[y]
    BY <1>1, <2>1, <2>2 DEF AccessType
  <2>6. /\ project' \in [Project -> OrgRow]
        /\ project'[p].state = "live" /\ project'[p].org = o
        /\ \A y \in Project \ {p} : project'[y] = project[y]
    BY <1>1, <2>1, <2>2, <2>3 DEF AccessType, OrgRow
  <2>7. AccessType'
    BY <1>1, <1>2, <2>1, <2>4, <2>5, <2>6, DoneFacts DEF AccessType
  <2>8. Grows
    BY <1>2, <2>2, <2>5, <2>6 DEF Grows
  <2>9. Rooted'
    <3>1. \A y \in Org : Founded(y)' <=> Founded(y)
      BY <2>5 DEF Founded
    <3>2. \A y \in Org, w \in Person : orgMember'[y][w] /= "none" => Founded(y)'
      BY <1>2, <3>1 DEF AccessInv, AccessFacts, Rooted
    <3>3. ASSUME NEW y \in Project, project'[y].state /= "none" PROVE Founded(project[y].org)'
      BY <1>1, <2>6, <3>1, <3>3 DEF AccessInv, AccessFacts, Rooted, Founded
    <3>4. \A y \in Project, w \in Person : projMember'[y][w] /= "none" => project'[y].state /= "none"
      BY <2>4, <2>6 DEF AccessInv, AccessFacts, Rooted
    <3> QED BY <3>2, <3>3, <3>4 DEF Rooted
  <2>10. AccessFacts'
    BY <1>1, <1>2, <2>1, <2>7, <2>8, <2>9, DoneFacts, InvitesStand, TableStep
  <2>11. OwnersAreFounders'
    <3>1. ASSUME NEW y \in Project, NEW w \in Person, projMember'[y][w] = "owner" PROVE founder'.project[y] = w
      BY <2>2, <2>4, <2>5, <3>1 DEF AccessInv, RolesAreGranted, OwnersAreFounders
    <3> QED BY <1>2, <2>5, <3>1 DEF AccessInv, RolesAreGranted, OwnersAreFounders
  <2>12. ManagersNeedAnOwner'
    BY <1>2, <2>4 DEF AccessInv, RolesAreGranted, ManagersNeedAnOwner
  <2>13. OrphansOnlyByRace'
    <3>1. ASSUME NEW y \in Project, NEW w \in Person, projMember'[y][w] /= "none",
                 orgMember[project'[y].org][w] = "none"
          PROVE  <<y, w>> \in raced'
      <4>1. CASE y = p
        BY <2>1, <2>2, <2>4, <2>6, <3>1, <4>1
      <4>2. CASE y /= p
        BY <2>1, <2>4, <2>6, <3>1, <4>2 DEF AccessInv, OrphansOnlyByRace
      <4> QED BY <4>1, <4>2
    <3> QED BY <1>2, <3>1 DEF OrphansOnlyByRace
  <2> QED BY <2>7, <2>10, <2>11, <2>12, <2>13 DEF AccessInv, RolesAreGranted
<1> QED BY <1>3, <1>4

LEMMA EnrolledMemberStep ==
  ASSUME AccessInv, NEW c \in Clerk, EnrolledMember(c)
  PROVE  AccessInv'
<1> DEFINE e == clerk[c]
<1>1. /\ AccessType /\ e \in Errand /\ Founded(e.org) /\ e.who \in Person /\ Granted(e)
      /\ e.proj \in Project /\ project[e.proj].state /= "none" /\ project[e.proj].org = e.org
      /\ e.role \in {"qa_engineer", "manager"} /\ e.role \in HeldRole
  BY DEF EnrolledMember, AccessInv, AccessType, AccessFacts, ErrandSound, Granted, HeldRole, Role
<1>2. /\ UNCHANGED <<account, orgMember, active, project, invite, requests, founder>> /\ Done(c)
      /\ projMember' = [projMember EXCEPT ![e.proj][e.who] = e.role]
      /\ atOwnersWord' = OwnersWord(<<"project", e.proj>>, e.who, e.role, e.word)
      /\ raced' = IF orgMember[e.org][e.who] = "none" THEN raced \cup {<<e.proj, e.who>>} ELSE raced
  BY DEF EnrolledMember
<1> HIDE DEF e
<1>3. /\ projMember' \in [Project -> [Person -> HeldRole]]
      /\ \A y \in Project, x \in Person :
           projMember'[y][x] = IF y = e.proj /\ x = e.who THEN e.role ELSE projMember[y][x]
  <2>1. projMember \in [Project -> [Person -> HeldRole]]
    BY <1>1 DEF AccessType
  <2> QED BY <1>1, <1>2, <2>1, RoleWritten
<1>4. AccessType'
  BY <1>1, <1>2, <1>3, DoneFacts DEF AccessType
<1>5. Rooted'
  BY <1>1, <1>2, <1>3 DEF AccessInv, AccessFacts, Rooted, Founded
<1>6. AccessFacts'
  BY <1>1, <1>2, <1>4, <1>5, DoneFacts, StandingGrows, InvitesStand, TableStep
<1>7. OwnersAreFounders'
  BY <1>1, <1>2, <1>3 DEF AccessInv, RolesAreGranted, OwnersAreFounders
<1>8. ManagersNeedAnOwner'
  BY <1>1, <1>2, <1>3 DEF AccessInv, RolesAreGranted, ManagersNeedAnOwner, OwnersWord, Granted
<1>9. OrphansOnlyByRace'
  <2>1. ASSUME NEW y \in Project, NEW x \in Person, projMember'[y][x] /= "none", orgMember[project[y].org][x] = "none"
        PROVE  <<y, x>> \in raced'
    BY <1>1, <1>2, <1>3, <2>1 DEF AccessInv, OrphansOnlyByRace
  <2> QED BY <1>2, <2>1 DEF OrphansOnlyByRace
<1> QED BY <1>4, <1>6, <1>7, <1>8, <1>9 DEF AccessInv, RolesAreGranted

LEMMA ProjectChangeStep ==
  ASSUME AccessInv, NEW c \in Clerk, NEW u \in Person, deleteProjectForUser(c, u) \/ removeProjectMember(c, u)
  PROVE  AccessInv'
<1>0. AccessType /\ active' \in [Person -> Org \cup {0}] /\ requests' \in Nat
  BY AsksInFacts DEF deleteProjectForUser, removeProjectMember, AccessInv
<1>1. CASE deleteProjectForUser(c, u)
  <2>1. PICK p \in Project : requireProjectAccess(u, p) /\ project' = [project EXCEPT ![p].state = "archived"]
    BY <1>1 DEF deleteProjectForUser
  <2>2. UNCHANGED <<account, orgMember, projMember, invite, clerk, founder, atOwnersWord, raced>>
    BY <1>1 DEF deleteProjectForUser
  <2>3. /\ project' \in [Project -> OrgRow]
        /\ \A q \in Project : project'[q].org = project[q].org /\ (project'[q].state = "none") = (project[q].state = "none")
    BY <1>0, <2>1, ZenonT(60) DEF requireProjectAccess, AccessType, OrgRow
  <2>4. AccessType'
    BY <1>0, <2>2, <2>3 DEF AccessType
  <2>5. Grows /\ Rooted'
    BY <2>2, <2>3 DEF Grows, AccessInv, AccessFacts, Rooted, Founded
  <2>6. AccessFacts'
    BY <2>2, <2>4, <2>5, InvitesStand, TableStep
  <2>7. RolesAreGranted' /\ OrphansOnlyByRace'
    BY <2>2, <2>3 DEF AccessInv, RolesAreGranted, OwnersAreFounders, ManagersNeedAnOwner, OrphansOnlyByRace
  <2> QED BY <2>4, <2>6, <2>7 DEF AccessInv
<1>2. CASE removeProjectMember(c, u)
  <2>1. PICK p \in Project, who \in Person \ {u} :
          projMember' = [projMember EXCEPT ![p][who] = "none"] /\ raced' = raced \ {<<p, who>>}
    BY <1>2 DEF removeProjectMember
  <2>2. UNCHANGED <<account, orgMember, project, invite, clerk, founder, atOwnersWord>>
    BY <1>2 DEF removeProjectMember
  <2>3. /\ projMember' \in [Project -> [Person -> HeldRole]]
        /\ \A y \in Project, x \in Person : projMember'[y][x] = IF y = p /\ x = who THEN "none" ELSE projMember[y][x]
    <3>1. projMember \in [Project -> [Person -> HeldRole]] /\ "none" \in HeldRole
      BY <1>0 DEF AccessType, HeldRole
    <3> QED BY <2>1, <3>1, RoleWritten
  <2>4. AccessType'
    BY <1>0, <2>2, <2>3 DEF AccessType
  <2>5. Rooted'
    BY <2>2, <2>3 DEF AccessInv, AccessFacts, Rooted, Founded
  <2>6. AccessFacts'
    BY <2>2, <2>4, <2>5, StandingGrows, InvitesStand, TableStep
  <2>7. OwnersAreFounders' /\ ManagersNeedAnOwner'
    BY <2>2, <2>3 DEF AccessInv, RolesAreGranted, OwnersAreFounders, ManagersNeedAnOwner
  <2>8. OrphansOnlyByRace'
    BY <2>1, <2>2, <2>3 DEF AccessInv, OrphansOnlyByRace
  <2> QED BY <2>4, <2>6, <2>7, <2>8 DEF AccessInv, RolesAreGranted
<1> QED BY <1>1, <1>2

-----------------------------------------------------------------------------
(* The invariant, and what follows from it *)

LEMMA InitAccessInv == AccessInit => AccessInv
<1> SUFFICES ASSUME AccessInit PROVE AccessInv
  OBVIOUS
<1>1. PICK demo \in BOOLEAN :
        LET first == Min(Person)
            home  == Min(Org)
            shown == {p \in Project : demo /\ p = Min(Project)}
        IN /\ orgMember = [o \in Org |-> [u \in Person |-> IF o = home /\ u = first THEN "owner" ELSE "none"]]
           /\ project = [p \in Project |-> IF p \in shown THEN [state |-> "live", org |-> home, key |-> 1]
                                           ELSE NoProject]
           /\ projMember = [p \in Project |-> [u \in Person |-> IF p \in shown /\ u = first THEN "owner" ELSE "none"]]
           /\ founder = [org |-> [o \in Org |-> IF o = home THEN first ELSE 0],
                         project |-> [p \in Project |-> IF p \in shown THEN first ELSE 0]]
  BY DEF AccessInit
<1> DEFINE first == Min(Person)
           home == Min(Org)
           shown == {p \in Project : demo /\ p = Min(Project)}
<1>2. first \in Person /\ home \in Org /\ first /= 0
  BY AccessConstants, MinIn
<1> HIDE DEF first, home, shown
<1>3. /\ \A o \in Org, u \in Person : orgMember[o][u] = IF o = home /\ u = first THEN "owner" ELSE "none"
      /\ \A p \in Project : project[p] = IF p \in shown THEN [state |-> "live", org |-> home, key |-> 1] ELSE NoProject
      /\ \A p \in Project, u \in Person : projMember[p][u] = IF p \in shown /\ u = first THEN "owner" ELSE "none"
      /\ \A o \in Org : founder.org[o] = IF o = home THEN first ELSE 0
      /\ \A p \in Project : founder.project[p] = IF p \in shown THEN first ELSE 0
  BY <1>1 DEF first, home, shown
<1>4. \A p \in Project : /\ p \in shown => project[p].state = "live" /\ project[p].org = home
                         /\ p \notin shown => project[p].state = "none"
  BY <1>3 DEF NoProject
<1>5. Rooted
  BY <1>2, <1>3, <1>4 DEF Rooted, Founded
<1>6. \A i \in Invite : InviteSound(i)
  BY DEF AccessInit, InviteSound, NoInvite
<1>7. \A c \in Clerk : ErrandSound(c)
  BY DEF AccessInit, ErrandSound, NoErrand
<1>8. OwnersAreFounders /\ ManagersNeedAnOwner
  BY <1>3 DEF OwnersAreFounders, ManagersNeedAnOwner
<1>9. OrphansOnlyByRace
  BY <1>2, <1>3, <1>4 DEF OrphansOnlyByRace
<1> QED BY InitAccessType, <1>5, <1>6, <1>7, <1>8, <1>9 DEF AccessInv, AccessFacts, RolesAreGranted

LEMMA NextAccessInv == AccessInv /\ [AccessNext]_accessVars => AccessInv'
<1> SUFFICES ASSUME AccessInv, [AccessNext]_accessVars PROVE AccessInv'
  OBVIOUS
<1>1. CASE UNCHANGED accessVars
  <2> USE <1>1 DEF accessVars
  <2>1. AccessType'
    BY DEF AccessInv, AccessType
  <2>2. AccessFacts'
    BY DEF AccessInv, AccessFacts, Rooted, InviteSound, ErrandSound, Founded, Granted
  <2>3. RolesAreGranted' /\ OrphansOnlyByRace'
    BY DEF AccessInv, RolesAreGranted, OwnersAreFounders, ManagersNeedAnOwner, OrphansOnlyByRace
  <2> QED BY <2>1, <2>2, <2>3 DEF AccessInv
<1>2. ASSUME NEW u \in Person, SignUp(u) PROVE AccessInv'
  BY <1>2, SignUpStep
<1>3. ASSUME NEW i \in Invite, InviteLapses(i) \/ ExpireLapsed(i) PROVE AccessInv'
  <2>1. PICK c \in Clerk : TRUE
    BY AccessConstants
  <2> QED BY <1>3, <2>1, InviteStatusStep
<1>4. ASSUME NEW c \in Clerk, NEW u \in Person,
             \/ createWorkspace(c, u) \/ createOrgAndProject(c, u) \/ switchWorkspace(c, u)
             \/ addWorkspaceMember(c, u) \/ removeWorkspaceMember(c, u) \/ changeWorkspaceMemberRole(c, u)
             \/ createInvitation(c, u) \/ cancelInvitation(c, u) \/ resendInvitation(c, u)
             \/ acceptInvitation(c, u) \/ registerInvited(c, u)
             \/ createProject(c, u) \/ deleteProjectForUser(c, u)
             \/ addProjectMember(c, u) \/ removeProjectMember(c, u)
      PROVE  AccessInv'
  <2>1. CASE createWorkspace(c, u)
    BY <2>1, createWorkspaceStep
  <2>2. CASE createOrgAndProject(c, u)
    BY <2>2, createOrgAndProjectStep
  <2>3. CASE deleteProjectForUser(c, u) \/ removeProjectMember(c, u)
    BY <2>3, ProjectChangeStep
  <2> QED BY <1>4, <2>1, <2>2, <2>3, AskerStep
<1>5. ASSUME NEW c \in Clerk,
             \/ Switched(c) \/ AddedMember(c) \/ RemovedMember(c) \/ ChangedRole(c)
             \/ Invited(c) \/ Cancelled(c) \/ Resent(c) \/ Accepted(c)
             \/ completeInviteRegistration(c) \/ RegistrationConflict(c)
             \/ nextFreeProjectKey(c) \/ insertProjectWithUniqueKey(c) \/ EnrolledMember(c)
      PROVE  AccessInv'
  <2>1. CASE Switched(c) \/ RegistrationConflict(c) \/ nextFreeProjectKey(c)
    BY <2>1, SmallStep
  <2>2. CASE AddedMember(c)
    BY <2>2, AddedMemberStep
  <2>3. CASE RemovedMember(c)
    BY <2>3, RemovedMemberStep
  <2>4. CASE ChangedRole(c)
    BY <2>4, ChangedRoleStep
  <2>5. CASE Invited(c)
    BY <2>5, InvitedStep
  <2>6. CASE Cancelled(c) \/ Resent(c)
    <3>1. clerk[c].inv \in Invite
      BY <2>6 DEF Cancelled, Resent, AccessInv, AccessFacts, ErrandSound
    <3> QED BY <2>6, <3>1, InviteStatusStep
  <2>7. CASE Accepted(c)
    BY <2>7, JoinsStep DEF Accepted, AccessInv, AccessType
  <2>8. CASE completeInviteRegistration(c)
    <3>1. clerk[c].who \in Person /\ account \subseteq Person
      BY <2>8 DEF completeInviteRegistration, AccessInv, AccessType, AccessFacts, ErrandSound
    <3>2. clerk[c].op = "register" /\ account' = account \cup {clerk[c].who} /\ Joins(c)
          /\ UNCHANGED <<project, requests, founder, raced>>
      BY <2>8 DEF completeInviteRegistration
    <3> QED BY <3>1, <3>2, JoinsStep
  <2>9. CASE insertProjectWithUniqueKey(c)
    BY <2>9, insertProjectStep
  <2>10. CASE EnrolledMember(c)
    BY <2>10, EnrolledMemberStep
  <2> QED BY <1>5, <2>1, <2>2, <2>3, <2>4, <2>5, <2>6, <2>7, <2>8, <2>9, <2>10
<1> QED BY <1>1, <1>2, <1>3, <1>4, <1>5 DEF AccessNext

\* All that a person can reach lies in the one workspace the person's requests act in.
LEMMA Reach == AccessInv => ReachStaysInWorkspace
<1> SUFFICES ASSUME AccessInv, NEW u \in Person
             PROVE  LET opened == {p \in Project : requireProjectAccess(u, p)}
                        within == {project[p].org : p \in opened}
                    IN /\ Cardinality(within) <= 1 /\ \A o \in within : orgMember[o][u] /= "none"
                       /\ workspace(u) /= 0 => listProjects(u) = opened
                       /\ \A x \in workspaceProjectAccess(u) :
                            x[2] \in opened /\ orgMember[project[x[2]].org][x[1]] /= "none"
  BY DEF ReachStaysInWorkspace
<1> DEFINE opened == {p \in Project : requireProjectAccess(u, p)}
           within == {project[p].org : p \in opened}
<1>1. workspace(u) /= 0 => workspace(u) \in Org /\ orgMember[workspace(u)][u] \in Role
  BY WorkspaceFacts DEF AccessInv, CallerRole
<1>2. \A p \in opened : workspace(u) /= 0 /\ project[p].org = workspace(u)
  BY DEF requireProjectAccess
<1>3. \A o \in within : o = workspace(u) /\ orgMember[o][u] /= "none"
  BY <1>1, <1>2 DEF Role
<1>4. Cardinality(within) <= 1
  <2>1. within \subseteq {workspace(u)}
    BY <1>3
  <2>2. IsFiniteSet({workspace(u)}) /\ Cardinality({workspace(u)}) = 1
    BY FS_Singleton
  <2> HIDE DEF within
  <2> QED BY <2>1, <2>2, FS_Subset
<1>5. workspace(u) /= 0 => listProjects(u) = opened
  BY DEF listProjects, requireProjectAccess
<1>6. ASSUME NEW x \in workspaceProjectAccess(u)
      PROVE  x[2] \in opened /\ orgMember[project[x[2]].org][x[1]] /= "none"
  <2>1. /\ workspace(u) /= 0 /\ x \in Person \X listProjects(u)
        /\ orgMember[workspace(u)][x[1]] /= "none"
    BY <1>6 DEF workspaceProjectAccess
  <2>2. x[2] \in opened
    BY <1>5, <2>1
  <2>3. project[x[2]].org = workspace(u)
    BY <1>2, <2>2
  <2> QED BY <2>1, <2>2, <2>3
<1> QED BY <1>3, <1>4, <1>5, <1>6

\* The roles people hold and the projects they are listed on, in every state of every run.
THEOREM AccessSafe == AccessSpec => [](RolesAreGranted /\ WorkspaceBoundary)
<1>1. AccessInit => AccessInv
  BY InitAccessInv
<1>2. AccessInv /\ [AccessNext]_accessVars => AccessInv'
  BY NextAccessInv
<1>3. AccessInv => RolesAreGranted /\ WorkspaceBoundary
  BY Reach DEF AccessInv, WorkspaceBoundary
<1> QED BY <1>1, <1>2, <1>3, PTL DEF AccessSpec

-----------------------------------------------------------------------------
(* The project limit *)

LEMMA CountFacts ==
  ASSUME NEW o
  PROVE  /\ IsFiniteSet(OpenProjects(o)) /\ Cardinality(OpenProjects(o)) \in Nat
         /\ IsFiniteSet(Making(o)) /\ Cardinality(Making(o)) \in Nat
         /\ Cardinality(Making(o)) <= Cardinality(Clerk) /\ Cardinality(Clerk) \in Nat \ {0}
<1>1. OpenProjects(o) \subseteq Project /\ Making(o) \subseteq Clerk
  BY DEF OpenProjects, Making
<1>2. Cardinality(Clerk) \in Nat /\ Cardinality(Clerk) /= 0
  BY AccessConstants, FS_CardinalityType, FS_EmptySet
<1> QED BY <1>1, <1>2, AccessConstants, FS_Subset, FS_CardinalityType

LEMMA CountFactsNext ==
  ASSUME NEW o
  PROVE  /\ IsFiniteSet(OpenProjects(o)') /\ Cardinality(OpenProjects(o)') \in Nat
         /\ IsFiniteSet(Making(o)') /\ Cardinality(Making(o)') \in Nat
         /\ Cardinality(Making(o)') <= Cardinality(Clerk)
<1>1. OpenProjects(o)' \subseteq Project /\ Making(o)' \subseteq Clerk
  BY DEF OpenProjects, Making
<1> QED BY <1>1, AccessConstants, FS_Subset, FS_CardinalityType

\* Most steps open no project and start none.
LEMMA NoneMade ==
  ASSUME Reserved,
         \A p \in Project : project'[p].state = "live" => project[p].state = "live" /\ project'[p].org = project[p].org,
         \A d \in Clerk : clerk'[d].op = "project" => clerk[d].op = "project" /\ clerk'[d].org = clerk[d].org
  PROVE  Reserved'
<1> SUFFICES ASSUME NEW o \in Org
             PROVE  Cardinality(OpenProjects(o)') + Cardinality(Making(o)') <= ProjectLimit - 1 + Cardinality(Clerk)
  BY DEF Reserved
<1>1. OpenProjects(o)' \subseteq OpenProjects(o) /\ Making(o)' \subseteq Making(o)
  BY DEF OpenProjects, Making
<1>2. Cardinality(OpenProjects(o)') <= Cardinality(OpenProjects(o)) /\ Cardinality(Making(o)') <= Cardinality(Making(o))
  BY <1>1, CountFacts, FS_Subset
<1>3. Cardinality(OpenProjects(o)) + Cardinality(Making(o)) <= ProjectLimit - 1 + Cardinality(Clerk)
  BY DEF Reserved
<1> QED BY <1>2, <1>3, CountFacts, CountFactsNext, AccessConstants

LEMMA AskerMakesNone ==
  ASSUME AccessInv, Reserved, NEW c \in Clerk, NEW u \in Person,
         \/ switchWorkspace(c, u) \/ addWorkspaceMember(c, u) \/ removeWorkspaceMember(c, u)
         \/ changeWorkspaceMemberRole(c, u) \/ createInvitation(c, u) \/ cancelInvitation(c, u)
         \/ resendInvitation(c, u) \/ acceptInvitation(c, u) \/ registerInvited(c, u) \/ addProjectMember(c, u)
  PROVE  Reserved'
<1>1. \E op \in {"switch", "add", "remove", "role", "invite", "cancel", "resend", "accept", "register", "enrol"} :
        \E who, role, o, p, i, word : Hand(c, op, u, who, role, o, p, i, word)
  BY DEF switchWorkspace, addWorkspaceMember, removeWorkspaceMember, changeWorkspaceMemberRole, createInvitation,
         cancelInvitation, resendInvitation, acceptInvitation, registerInvited, addProjectMember
<1>2. \A d \in Clerk : clerk'[d].op = "project" => clerk'[d] = clerk[d]
  BY <1>1 DEF Hand, AccessInv, AccessType
<1>3. project' = project
  BY DEF switchWorkspace, addWorkspaceMember, removeWorkspaceMember, changeWorkspaceMemberRole, createInvitation,
         cancelInvitation, resendInvitation, acceptInvitation, registerInvited, addProjectMember
<1> QED BY <1>2, <1>3, NoneMade

LEMMA createProjectReserves ==
  ASSUME AccessInv, Reserved, NEW c \in Clerk, NEW u \in Person, createProject(c, u)
  PROVE  Reserved'
<1> SUFFICES ASSUME NEW o \in Org
             PROVE  Cardinality(OpenProjects(o)') + Cardinality(Making(o)') <= ProjectLimit - 1 + Cardinality(Clerk)
  BY DEF Reserved
<1>1. /\ assertCanCreateProject(workspace(u)) /\ project' = project
      /\ clerk' = [clerk EXCEPT ![c] = [op |-> "project", by |-> u, org |-> workspace(u), who |-> u, role |-> "owner",
                                        proj |-> 0, inv |-> 0, word |-> "none", key |-> 0, attempt |-> 0]]
  BY DEF createProject, Hand
<1>2. OpenProjects(o)' = OpenProjects(o)
  BY <1>1 DEF OpenProjects
<1>3. CASE o = workspace(u)
  BY <1>1, <1>2, <1>3, CountFacts, CountFactsNext, AccessConstants DEF assertCanCreateProject
<1>4. CASE o /= workspace(u)
  <2>1. Making(o)' \subseteq Making(o)
    BY <1>1, <1>4 DEF Making, AccessInv, AccessType
  <2>2. Cardinality(Making(o)') <= Cardinality(Making(o))
    BY <2>1, CountFacts, FS_Subset
  <2> QED BY <1>2, <2>2, CountFacts, CountFactsNext, AccessConstants DEF Reserved
<1> QED BY <1>3, <1>4

\* A founded workspace's first project: nothing was open in it, and nothing on its way.
LEMMA createOrgAndProjectReserves ==
  ASSUME AccessInv, Reserved, NEW c \in Clerk, NEW u \in Person, createOrgAndProject(c, u)
  PROVE  Reserved'
<1> SUFFICES ASSUME NEW o \in Org
             PROVE  Cardinality(OpenProjects(o)') + Cardinality(Making(o)') <= ProjectLimit - 1 + Cardinality(Clerk)
  BY DEF Reserved
<1>1. PICK n \in FreeOrg, p \in FreeProject : project' = [project EXCEPT ![p] = [state |-> "live", org |-> n, key |-> 1]]
  BY DEF createOrgAndProject
<1>2. clerk' = clerk
  BY DEF createOrgAndProject
<1>3. Making(o)' = Making(o)
  BY <1>2 DEF Making
<1>4. n \in Org /\ ~Founded(n) /\ \A q \in Project : project[q].state /= "none" => project[q].org /= n
  BY NewOrgFacts
<1>5. CASE o = n
  <2>1. OpenProjects(o)' \subseteq {p}
    BY <1>1, <1>4, <1>5 DEF OpenProjects, AccessInv, AccessType
  <2>2. Cardinality(OpenProjects(o)') <= 1
    <3>1. IsFiniteSet({p}) /\ Cardinality({p}) = 1
      BY FS_Singleton
    <3> QED BY <2>1, <3>1, FS_Subset
  <2>3. Making(o) = {}
    BY <1>4, <1>5 DEF Making, AccessInv, AccessFacts, ErrandSound
  <2> QED BY <1>3, <2>2, <2>3, CountFacts, CountFactsNext, FS_EmptySet, AccessConstants
<1>6. CASE o /= n
  <2>1. OpenProjects(o)' \subseteq OpenProjects(o)
    BY <1>1, <1>6 DEF OpenProjects, AccessInv, AccessType
  <2>2. Cardinality(OpenProjects(o)') <= Cardinality(OpenProjects(o))
    BY <2>1, CountFacts, FS_Subset
  <2> QED BY <1>3, <2>2, CountFacts, CountFactsNext, AccessConstants DEF Reserved
<1> QED BY <1>5, <1>6

\* The project on its way becomes the project that is there.
LEMMA insertReserves ==
  ASSUME AccessInv, Reserved, NEW c \in Clerk, insertProjectWithUniqueKey(c)
  PROVE  Reserved'
<1> DEFINE e == clerk[c]
<1>1. AccessType /\ e.op = "project"
  BY DEF insertProjectWithUniqueKey, AccessInv
<1>2. CASE e.key \in TakenKeys(e.org)
  <2>1. /\ project' = project
        /\ clerk' = [clerk EXCEPT ![c] = IF e.attempt >= KeyAttempts THEN NoErrand ELSE [e EXCEPT !.key = 0]]
    BY <1>2 DEF insertProjectWithUniqueKey
  <2>2. \A d \in Clerk : clerk'[d].op = "project" => clerk[d].op = "project" /\ clerk'[d].org = clerk[d].org
    BY <1>1, <2>1 DEF AccessType, Errand, NoErrand
  <2> QED BY <2>1, <2>2, NoneMade
<1>3. CASE e.key \notin TakenKeys(e.org)
  <2>1. PICK p \in FreeProject :
          project' = [project EXCEPT ![p] = [state |-> "live", org |-> e.org, key |-> e.key]] /\ Done(c)
    BY <1>3 DEF insertProjectWithUniqueKey
  <2> SUFFICES ASSUME NEW o \in Org
               PROVE  Cardinality(OpenProjects(o)') + Cardinality(Making(o)') <= ProjectLimit - 1 + Cardinality(Clerk)
    BY DEF Reserved
  <2>2. clerk'[c] = NoErrand /\ \A d \in Clerk \ {c} : clerk'[d] = clerk[d]
    BY <1>1, <2>1, DoneFacts
  <2>3. Cardinality(OpenProjects(o)) + Cardinality(Making(o)) <= ProjectLimit - 1 + Cardinality(Clerk)
    BY DEF Reserved
  <2>4. CASE o = e.org
    <3>1. OpenProjects(o)' \subseteq OpenProjects(o) \cup {p}
      BY <1>1, <2>1 DEF OpenProjects, AccessType
    <3>2. Making(o)' = Making(o) \ {c} /\ c \in Making(o)
      BY <1>1, <2>2, <2>4 DEF Making, NoErrand
    <3>3. /\ IsFiniteSet(OpenProjects(o) \cup {p})
          /\ Cardinality(OpenProjects(o) \cup {p}) <= Cardinality(OpenProjects(o)) + 1
          /\ Cardinality(OpenProjects(o) \cup {p}) \in Nat
      <4> DEFINE S == OpenProjects(o)
      <4>1. IsFiniteSet(S) /\ Cardinality(S) \in Nat
        BY CountFacts
      <4> HIDE DEF S
      <4>2. /\ IsFiniteSet(S \cup {p})
            /\ Cardinality(S \cup {p}) = IF p \in S THEN Cardinality(S) ELSE Cardinality(S) + 1
        BY <4>1, FS_AddElement
      <4>3. Cardinality(S \cup {p}) <= Cardinality(S) + 1 /\ Cardinality(S \cup {p}) \in Nat
        BY <4>1, <4>2
      <4> QED BY <4>2, <4>3 DEF S
    <3>4. Cardinality(OpenProjects(o)') <= Cardinality(OpenProjects(o)) + 1
      BY <3>1, <3>3, CountFacts, CountFactsNext, FS_Subset
    <3>5. Cardinality(Making(o)') = Cardinality(Making(o)) - 1
      BY <3>2, CountFacts, FS_RemoveElement, ZenonT(60)
    <3> QED BY <2>3, <3>4, <3>5, CountFacts, CountFactsNext, AccessConstants
  <2>5. CASE o /= e.org
    <3>1. OpenProjects(o)' \subseteq OpenProjects(o)
      BY <1>1, <2>1, <2>5 DEF OpenProjects, AccessType
    <3>2. Making(o)' \subseteq Making(o)
      BY <2>2 DEF Making, NoErrand
    <3>3. Cardinality(OpenProjects(o)') <= Cardinality(OpenProjects(o)) /\ Cardinality(Making(o)') <= Cardinality(Making(o))
      BY <3>1, <3>2, CountFacts, FS_Subset
    <3> QED BY <2>3, <3>3, CountFacts, CountFactsNext, AccessConstants
  <2> QED BY <2>4, <2>5
<1> QED BY <1>2, <1>3

LEMMA InitReserved == AccessInit => Reserved
<1> SUFFICES ASSUME AccessInit, NEW o \in Org
             PROVE  Cardinality(OpenProjects(o)) + Cardinality(Making(o)) <= ProjectLimit - 1 + Cardinality(Clerk)
  BY DEF Reserved
<1>1. OpenProjects(o) \subseteq {Min(Project)}
  BY DEF AccessInit, OpenProjects, NoProject
<1>2. Making(o) = {}
  BY DEF AccessInit, Making, NoErrand
<1>3. Cardinality(OpenProjects(o)) <= 1
  <2>1. IsFiniteSet({Min(Project)}) /\ Cardinality({Min(Project)}) = 1
    BY FS_Singleton
  <2> QED BY <1>1, <2>1, FS_Subset
<1> QED BY <1>2, <1>3, CountFacts, FS_EmptySet, AccessConstants

LEMMA NextReserved == AccessInv /\ Reserved /\ [AccessNext]_accessVars => Reserved'
<1> SUFFICES ASSUME AccessInv, Reserved, [AccessNext]_accessVars PROVE Reserved'
  OBVIOUS
<1>0. AccessType
  BY DEF AccessInv
<1>1. ASSUME UNCHANGED <<project, clerk>> PROVE Reserved'
  BY <1>1, NoneMade
<1>2. ASSUME NEW c \in Clerk, Done(c), UNCHANGED project PROVE Reserved'
  BY <1>0, <1>2, DoneFacts, NoneMade DEF NoErrand
<1>3. CASE UNCHANGED accessVars
  BY <1>1, <1>3 DEF accessVars
<1>4. ASSUME NEW u \in Person, SignUp(u) PROVE Reserved'
  BY <1>1, <1>4 DEF SignUp
<1>5. ASSUME NEW i \in Invite, InviteLapses(i) \/ ExpireLapsed(i) PROVE Reserved'
  BY <1>1, <1>5 DEF InviteLapses, ExpireLapsed
<1>6. ASSUME NEW c \in Clerk, NEW u \in Person,
             \/ createWorkspace(c, u) \/ createOrgAndProject(c, u) \/ switchWorkspace(c, u)
             \/ addWorkspaceMember(c, u) \/ removeWorkspaceMember(c, u) \/ changeWorkspaceMemberRole(c, u)
             \/ createInvitation(c, u) \/ cancelInvitation(c, u) \/ resendInvitation(c, u)
             \/ acceptInvitation(c, u) \/ registerInvited(c, u)
             \/ createProject(c, u) \/ deleteProjectForUser(c, u)
             \/ addProjectMember(c, u) \/ removeProjectMember(c, u)
      PROVE  Reserved'
  <2>1. CASE createWorkspace(c, u) \/ removeProjectMember(c, u)
    BY <1>1, <2>1 DEF createWorkspace, removeProjectMember
  <2>2. CASE createOrgAndProject(c, u)
    BY <2>2, createOrgAndProjectReserves
  <2>3. CASE createProject(c, u)
    BY <2>3, createProjectReserves
  <2>4. CASE deleteProjectForUser(c, u)
    <3>1. PICK p \in Project : project' = [project EXCEPT ![p].state = "archived"]
      BY <2>4 DEF deleteProjectForUser
    <3>2. \A q \in Project : project'[q].state = "live" => project[q].state = "live" /\ project'[q].org = project[q].org
      BY <1>0, <3>1 DEF AccessType, OrgRow
    <3>3. clerk' = clerk
      BY <2>4 DEF deleteProjectForUser
    <3> QED BY <3>2, <3>3, NoneMade
  <2> QED BY <1>6, <2>1, <2>2, <2>3, <2>4, AskerMakesNone
<1>7. ASSUME NEW c \in Clerk,
             \/ Switched(c) \/ AddedMember(c) \/ RemovedMember(c) \/ ChangedRole(c)
             \/ Invited(c) \/ Cancelled(c) \/ Resent(c) \/ Accepted(c)
             \/ completeInviteRegistration(c) \/ RegistrationConflict(c)
             \/ nextFreeProjectKey(c) \/ insertProjectWithUniqueKey(c) \/ EnrolledMember(c)
      PROVE  Reserved'
  <2>1. CASE nextFreeProjectKey(c)
    <3>1. project' = project /\ \E k, n : clerk' = [clerk EXCEPT ![c].key = k, ![c].attempt = n]
      BY <2>1 DEF nextFreeProjectKey
    <3>2. \A d \in Clerk : clerk'[d].op = "project" => clerk[d].op = "project" /\ clerk'[d].org = clerk[d].org
      BY <1>0, <3>1 DEF AccessType, Errand
    <3> QED BY <3>1, <3>2, NoneMade
  <2>2. CASE insertProjectWithUniqueKey(c)
    BY <2>2, insertReserves
  <2>3. CASE Accepted(c) \/ completeInviteRegistration(c)
    BY <1>2, <2>3 DEF Accepted, completeInviteRegistration, Joins
  <2> QED BY <1>2, <1>7, <2>1, <2>2, <2>3
          DEF Switched, AddedMember, RemovedMember, ChangedRole, Invited, Cancelled, Resent, RegistrationConflict,
              EnrolledMember
<1> QED BY <1>3, <1>4, <1>5, <1>6, <1>7 DEF AccessNext

LEMMA ReservedSlack == Reserved => ProjectLimitSlack
<1> SUFFICES ASSUME Reserved, NEW o \in Org
             PROVE  Cardinality(OpenProjects(o)) <= ProjectLimit + Cardinality(Clerk) - 1
  BY DEF ProjectLimitSlack
<1>1. Cardinality(OpenProjects(o)) + Cardinality(Making(o)) <= ProjectLimit - 1 + Cardinality(Clerk)
  BY DEF Reserved
<1> QED BY <1>1, CountFacts, AccessConstants

\* Concurrent creations exceed the project limit by fewer than there are requests in flight.
THEOREM AccessLimit == AccessSpec => []ProjectLimitSlack
<1>1. AccessInit => AccessInv /\ Reserved
  BY InitAccessInv, InitReserved
<1>2. AccessInv /\ Reserved /\ [AccessNext]_accessVars => (AccessInv /\ Reserved)'
  BY NextAccessInv, NextReserved
<1> QED BY <1>1, <1>2, ReservedSlack, PTL DEF AccessSpec

-----------------------------------------------------------------------------
(* SignIn: accounts, sessions, codes and links *)

UserRow    == [has : BOOLEAN, pw : Nat]
SessionRow == [state : {"none", "live", "gone"}, who : Email \cup {0}, knew : Nat, straddled : BOOLEAN]
SecretRow  == [state : {"none", "live", "gone", "used"}, who : Email \cup {0}, kind : {"code", "link"},
               spent : Nat, shared : BOOLEAN]
PendingRow == [state : {"none", "live", "gone", "used"}, who : Email \cup {0}, kind : {"self", "invite"}, pw : Nat]
BoothRow   == [op : {"idle", "session", "mark", "account", "create", "set", "spend", "signOut"},
               who : Email \cup {0}, id : Secret \cup {0},
               goal : {"none", "login", "self", "invite", "reset", "change"}, knew : Nat]

CredentialType ==
  /\ user \in [Email -> UserRow]
  /\ session \in [Session -> SessionRow]
  /\ secret \in [Secret -> SecretRow]
  /\ pending \in [Pending -> PendingRow]
  /\ booth \in [Booth -> BoothRow]
  /\ visits \in Nat

\* A request that is under way is for an address.
Addressed == \A b \in Booth : booth[b].op /= "idle" => booth[b].who \in Email

\* A session, or a request about to write one, is for an address with an account.
SessionsOfAccounts ==
  /\ \A b \in Booth : booth[b].op = "session" => user[booth[b].who].has
  /\ \A s \in Session : session[s].state /= "none" => session[s].who \in Email /\ user[session[s].who].has

\* Who holds a code or a link: the request that found it, until it has marked it used.
HoldersAtWork ==
  \A b \in Booth : booth[b].id /= 0 =>
    \/ booth[b].op = "mark"
    \/ booth[b].op \in {"set", "spend"} /\ booth[b].goal = "reset"
    \/ booth[b].op = "signOut" /\ secret[booth[b].id].state \in {"gone", "used"}

\* A secret that is still good has been taken only by those who hold it, or was shared.
SpentIsHeld ==
  \A x \in Secret : secret[x].state = "live" /\ secret[x].spent > 0 =>
    secret[x].shared \/ \E b \in Booth : booth[b].id = x

CredentialFacts == Addressed /\ SessionsOfAccounts /\ HoldersAtWork /\ SpentIsHeld
CredentialInv   == CredentialType /\ CredentialFacts /\ CredentialsHold

-----------------------------------------------------------------------------
(* SignIn: the initial states *)

LEMMA InitCredentials == SignInInit => CredentialInv
<1> SUFFICES ASSUME SignInInit PROVE CredentialInv
  OBVIOUS
<1> USE DEF SignInInit, NoSession, NoSecret, NoPending, AtRest
<1>1. CredentialType
  <2>1. user \in [Email -> UserRow]
    <3>1. {[has |-> FALSE, pw |-> 0], [has |-> TRUE, pw |-> 1]} \subseteq UserRow
      BY DEF UserRow
    <3> QED
      BY <3>1
  <2>2. session \in [Session -> SessionRow]
    BY DEF SessionRow
  <2>3. secret \in [Secret -> SecretRow]
    BY DEF SecretRow
  <2>4. pending \in [Pending -> PendingRow]
    BY DEF PendingRow
  <2>5. booth \in [Booth -> BoothRow]
    BY DEF BoothRow
  <2> QED
    BY <2>1, <2>2, <2>3, <2>4, <2>5 DEF CredentialType
<1>2. CredentialFacts
  BY DEF CredentialFacts, Addressed, SessionsOfAccounts, HoldersAtWork, SpentIsHeld
<1>3. CredentialsHold
  BY DEF CredentialsHold, SessionsKnowThePassword, SecretsSpentOnce
<1> QED
  BY <1>1, <1>2, <1>3 DEF CredentialInv

-----------------------------------------------------------------------------
(* SignIn: the steps *)

\* A code or a link that is sent is a new one; the others stay as they are.
LEMMA IssuedIsNew ==
  ASSUME CredentialType, NEW e \in Email, NEW kind \in {"code", "link"}, Issued(e, kind)
  PROVE  /\ secret' \in [Secret -> SecretRow]
         /\ \A x \in Secret :
              \/ secret'[x] = secret[x]
              \/ secret[x].state = "none" /\ secret'[x].state = "live" /\ secret'[x].spent = 0
<1> DEFINE r == [state |-> "live", who |-> e, kind |-> kind, spent |-> 0, shared |-> FALSE]
<1>1. r \in SecretRow /\ r.state = "live" /\ r.spent = 0
  BY DEF SecretRow
<1>2. PICK x \in Secret : secret[x].state = "none" /\ secret' = [secret EXCEPT ![x] = r]
  BY DEF Issued, NextFree
<1> HIDE DEF r
<1> QED
  BY <1>1, <1>2 DEF CredentialType

\* A code or a link that a request takes hold of: one more has it, and they know if they share it.
LEMMA GrabbedIsCounted ==
  ASSUME CredentialType, NEW b \in Booth, NEW x \in Secret, Grabs(b, x)
  PROVE  /\ secret' \in [Secret -> SecretRow]
         /\ \A y \in Secret \ {x} : secret'[y] = secret[y]
         /\ secret'[x].state = secret[x].state /\ secret'[x].spent = secret[x].spent + 1
         /\ secret'[x].shared <=> secret[x].shared \/ HeldBy(b, x)
<1> DEFINE held == secret[x].shared \/ HeldBy(b, x)
           r == [secret[x] EXCEPT !.spent = @ + 1, !.shared = held]
<1>1. held \in BOOLEAN
  BY DEF CredentialType, SecretRow, HeldBy
<1>2. secret' = [y \in Secret |-> IF y = x THEN r ELSE secret[y]]
  BY DEF Grabs, CredentialType
<1> HIDE DEF held
<1>3. /\ r \in SecretRow /\ r.state = secret[x].state
      /\ r.spent = secret[x].spent + 1 /\ r.shared = held
  <2> DEFINE old == secret[x]
             n == old.spent + 1
  <2>1. old \in SecretRow /\ old.spent \in Nat
    BY DEF CredentialType, SecretRow
  <2>2. n \in Nat
    BY <2>1
  <2> HIDE DEF old, n
  <2>3. /\ [old EXCEPT !.spent = n, !.shared = held] \in SecretRow
        /\ [old EXCEPT !.spent = n, !.shared = held].state = old.state
        /\ [old EXCEPT !.spent = n, !.shared = held].spent = n
        /\ [old EXCEPT !.spent = n, !.shared = held].shared = held
    BY <1>1, <2>1, <2>2 DEF SecretRow
  <2> QED
    BY <2>3 DEF old, n
<1> HIDE DEF r
<1> QED
  BY <1>2, <1>3 DEF CredentialType, held

LEMMA requestOtpKeeps ==
  ASSUME CredentialInv, NEW e \in Email, requestOtp(e)
  PROVE  CredentialInv'
<1> USE SignInConstants DEF CredentialInv, CredentialType, CredentialFacts, requestOtp, Visit
<1>0. /\ secret' \in [Secret -> SecretRow]
      /\ \A x \in Secret :
           \/ secret'[x] = secret[x]
           \/ secret[x].state = "none" /\ secret'[x].state = "live" /\ secret'[x].spent = 0
  BY IssuedIsNew
<1>1. CredentialType'
  <2>1. user' \in [Email -> UserRow]
    BY DEF UserRow, PendingRow
  <2>2. session' \in [Session -> SessionRow]
    BY DEF SessionRow, BoothRow, Addressed
  <2>3. secret' \in [Secret -> SecretRow]
    BY <1>0 DEF SecretRow
  <2>4. pending' \in [Pending -> PendingRow]
    BY DEF PendingRow
  <2>5. booth' \in [Booth -> BoothRow]
    BY DEF BoothRow, SessionRow, UserRow, SessionsOfAccounts
  <2>6. visits' \in Nat
    OBVIOUS
  <2> QED
    BY <2>1, <2>2, <2>3, <2>4, <2>5, <2>6
<1>2. Addressed'
  BY DEF Addressed, SessionsOfAccounts, BoothRow
<1>3. SessionsOfAccounts'
  BY DEF Addressed, SessionsOfAccounts, UserRow, SessionRow, BoothRow
<1>4. HoldersAtWork'
  BY <1>0 DEF HoldersAtWork, SecretRow, BoothRow
<1>5. SpentIsHeld'
  BY <1>0 DEF HoldersAtWork, SpentIsHeld, SecretRow, BoothRow
<1>6. SessionsKnowThePassword'
  BY DEF CredentialsHold, Addressed, SessionsOfAccounts, SessionsKnowThePassword, UserRow, SessionRow, BoothRow
<1>7. SecretsSpentOnce'
  BY <1>0 DEF CredentialsHold, SecretsSpentOnce, SpentIsHeld, HoldersAtWork, SecretRow, BoothRow
<1> QED
  BY <1>1, <1>2, <1>3, <1>4, <1>5, <1>6, <1>7 DEF CredentialsHold

LEMMA requestResetKeeps ==
  ASSUME CredentialInv, NEW e \in Email, requestReset(e)
  PROVE  CredentialInv'
<1> USE SignInConstants DEF CredentialInv, CredentialType, CredentialFacts, requestReset, Visit
<1>0. /\ secret' \in [Secret -> SecretRow]
      /\ \A x \in Secret :
           \/ secret'[x] = secret[x]
           \/ secret[x].state = "none" /\ secret'[x].state = "live" /\ secret'[x].spent = 0
  BY IssuedIsNew
<1>1. CredentialType'
  <2>1. user' \in [Email -> UserRow]
    BY DEF UserRow, PendingRow
  <2>2. session' \in [Session -> SessionRow]
    BY DEF SessionRow, BoothRow, Addressed
  <2>3. secret' \in [Secret -> SecretRow]
    BY <1>0 DEF SecretRow
  <2>4. pending' \in [Pending -> PendingRow]
    BY DEF PendingRow
  <2>5. booth' \in [Booth -> BoothRow]
    BY DEF BoothRow, SessionRow, UserRow, SessionsOfAccounts
  <2>6. visits' \in Nat
    OBVIOUS
  <2> QED
    BY <2>1, <2>2, <2>3, <2>4, <2>5, <2>6
<1>2. Addressed'
  BY DEF Addressed, SessionsOfAccounts, BoothRow
<1>3. SessionsOfAccounts'
  BY DEF Addressed, SessionsOfAccounts, UserRow, SessionRow, BoothRow
<1>4. HoldersAtWork'
  BY <1>0 DEF HoldersAtWork, SecretRow, BoothRow
<1>5. SpentIsHeld'
  BY <1>0 DEF HoldersAtWork, SpentIsHeld, SecretRow, BoothRow
<1>6. SessionsKnowThePassword'
  BY DEF CredentialsHold, Addressed, SessionsOfAccounts, SessionsKnowThePassword, UserRow, SessionRow, BoothRow
<1>7. SecretsSpentOnce'
  BY <1>0 DEF CredentialsHold, SecretsSpentOnce, SpentIsHeld, HoldersAtWork, SecretRow, BoothRow
<1> QED
  BY <1>1, <1>2, <1>3, <1>4, <1>5, <1>6, <1>7 DEF CredentialsHold

LEMMA startSignupKeeps ==
  ASSUME CredentialInv, NEW e \in Email, startSignup(e)
  PROVE  CredentialInv'
<1> USE SignInConstants DEF CredentialInv, CredentialType, CredentialFacts, startSignup, Visit
<1>0. /\ secret' \in [Secret -> SecretRow]
      /\ \A x \in Secret :
           \/ secret'[x] = secret[x]
           \/ secret[x].state = "none" /\ secret'[x].state = "live" /\ secret'[x].spent = 0
  BY IssuedIsNew
<1>1. CredentialType'
  <2>1. user' \in [Email -> UserRow]
    BY DEF UserRow, PendingRow
  <2>2. session' \in [Session -> SessionRow]
    BY DEF SessionRow, BoothRow, Addressed
  <2>3. secret' \in [Secret -> SecretRow]
    BY <1>0 DEF SecretRow
  <2>4. pending' \in [Pending -> PendingRow]
    BY DEF PendingRow, NextFree
  <2>5. booth' \in [Booth -> BoothRow]
    BY DEF BoothRow, SessionRow, UserRow, SessionsOfAccounts
  <2>6. visits' \in Nat
    OBVIOUS
  <2> QED
    BY <2>1, <2>2, <2>3, <2>4, <2>5, <2>6
<1>2. Addressed'
  BY DEF Addressed, SessionsOfAccounts, BoothRow
<1>3. SessionsOfAccounts'
  BY DEF Addressed, SessionsOfAccounts, UserRow, SessionRow, BoothRow
<1>4. HoldersAtWork'
  BY <1>0 DEF HoldersAtWork, SecretRow, BoothRow
<1>5. SpentIsHeld'
  BY <1>0 DEF HoldersAtWork, SpentIsHeld, SecretRow, BoothRow
<1>6. SessionsKnowThePassword'
  BY DEF CredentialsHold, Addressed, SessionsOfAccounts, SessionsKnowThePassword, UserRow, SessionRow, BoothRow
<1>7. SecretsSpentOnce'
  BY <1>0 DEF CredentialsHold, SecretsSpentOnce, SpentIsHeld, HoldersAtWork, SecretRow, BoothRow
<1> QED
  BY <1>1, <1>2, <1>3, <1>4, <1>5, <1>6, <1>7 DEF CredentialsHold

LEMMA RunsOutKeeps ==
  ASSUME CredentialInv, RunsOut
  PROVE  CredentialInv'
<1> USE SignInConstants DEF CredentialInv, CredentialType, CredentialFacts, RunsOut, Visit
<1>1. CredentialType'
  <2>1. user' \in [Email -> UserRow]
    BY DEF UserRow, PendingRow
  <2>2. session' \in [Session -> SessionRow]
    BY DEF SessionRow, BoothRow, Addressed
  <2>3. secret' \in [Secret -> SecretRow]
    BY DEF SecretRow
  <2>4. pending' \in [Pending -> PendingRow]
    BY DEF PendingRow
  <2>5. booth' \in [Booth -> BoothRow]
    BY DEF BoothRow, SessionRow, UserRow, SessionsOfAccounts
  <2>6. visits' \in Nat
    OBVIOUS
  <2> QED
    BY <2>1, <2>2, <2>3, <2>4, <2>5, <2>6
<1>2. Addressed'
  BY DEF Addressed, SessionsOfAccounts, BoothRow
<1>3. SessionsOfAccounts'
  BY DEF Addressed, SessionsOfAccounts, UserRow, SessionRow, BoothRow
<1>4. HoldersAtWork'
  BY DEF HoldersAtWork, SecretRow, BoothRow
<1>5. SpentIsHeld'
  BY DEF HoldersAtWork, SpentIsHeld, SecretRow, BoothRow
<1>6. SessionsKnowThePassword'
  BY DEF CredentialsHold, Addressed, SessionsOfAccounts, SessionsKnowThePassword, UserRow, SessionRow, BoothRow
<1>7. SecretsSpentOnce'
  BY DEF CredentialsHold, SecretsSpentOnce, SpentIsHeld, HoldersAtWork, SecretRow, BoothRow
<1> QED
  BY <1>1, <1>2, <1>3, <1>4, <1>5, <1>6, <1>7 DEF CredentialsHold

LEMMA verifyLoginKeeps ==
  ASSUME CredentialInv, NEW b \in Booth, NEW e \in Email, verifyLogin(b, e)
  PROVE  CredentialInv'
<1> USE SignInConstants DEF CredentialInv, CredentialType, CredentialFacts, verifyLogin, Visit, Enters
<1>1. CredentialType'
  <2>1. user' \in [Email -> UserRow]
    BY DEF UserRow, PendingRow
  <2>2. session' \in [Session -> SessionRow]
    BY DEF SessionRow, BoothRow, Addressed
  <2>3. secret' \in [Secret -> SecretRow]
    BY DEF SecretRow
  <2>4. pending' \in [Pending -> PendingRow]
    BY DEF PendingRow
  <2>5. booth' \in [Booth -> BoothRow]
    BY DEF BoothRow, SessionRow, UserRow, SessionsOfAccounts
  <2>6. visits' \in Nat
    OBVIOUS
  <2> QED
    BY <2>1, <2>2, <2>3, <2>4, <2>5, <2>6
<1>2. Addressed'
  BY DEF Addressed, SessionsOfAccounts, BoothRow
<1>3. SessionsOfAccounts'
  BY DEF Addressed, SessionsOfAccounts, UserRow, SessionRow, BoothRow
<1>4. HoldersAtWork'
  BY DEF HoldersAtWork, SecretRow, BoothRow
<1>5. SpentIsHeld'
  BY DEF HoldersAtWork, SpentIsHeld, SecretRow, BoothRow
<1>6. SessionsKnowThePassword'
  BY DEF CredentialsHold, Addressed, SessionsOfAccounts, SessionsKnowThePassword, UserRow, SessionRow, BoothRow
<1>7. SecretsSpentOnce'
  BY DEF CredentialsHold, SecretsSpentOnce, SpentIsHeld, HoldersAtWork, SecretRow, BoothRow
<1> QED
  BY <1>1, <1>2, <1>3, <1>4, <1>5, <1>6, <1>7 DEF CredentialsHold

LEMMA verifyOtpCodeKeeps ==
  ASSUME CredentialInv, NEW b \in Booth, NEW e \in Email, verifyOtpCode(b, e)
  PROVE  CredentialInv'
<1> USE SignInConstants DEF CredentialInv, CredentialType, CredentialFacts, verifyOtpCode, Visit, Enters, LiveCodes, HeldBy, Grabs
<1>1. CredentialType'
  <2>1. user' \in [Email -> UserRow]
    BY DEF UserRow, PendingRow
  <2>2. session' \in [Session -> SessionRow]
    BY DEF SessionRow, BoothRow, Addressed
  <2>3. secret' \in [Secret -> SecretRow]
    BY GrabbedIsCounted, ZenonT(60) DEF LiveCodes, findValidToken
  <2>4. pending' \in [Pending -> PendingRow]
    BY DEF PendingRow
  <2>5. booth' \in [Booth -> BoothRow]
    BY DEF BoothRow, SessionRow, UserRow, SessionsOfAccounts
  <2>6. visits' \in Nat
    OBVIOUS
  <2> QED
    BY <2>1, <2>2, <2>3, <2>4, <2>5, <2>6
<1>2. Addressed'
  BY DEF Addressed, SessionsOfAccounts, BoothRow
<1>3. SessionsOfAccounts'
  BY DEF Addressed, SessionsOfAccounts, UserRow, SessionRow, BoothRow
<1>4. HoldersAtWork'
  BY DEF HoldersAtWork, SecretRow, BoothRow
<1>5. SpentIsHeld'
  BY DEF HoldersAtWork, SpentIsHeld, SecretRow, BoothRow
<1>6. SessionsKnowThePassword'
  BY SMTT(60) DEF CredentialsHold, Addressed, SessionsOfAccounts, SessionsKnowThePassword, UserRow, SessionRow, BoothRow
<1>7. SecretsSpentOnce'
  BY SMTT(60) DEF CredentialsHold, SecretsSpentOnce, SpentIsHeld, HoldersAtWork, SecretRow, BoothRow
<1> QED
  BY <1>1, <1>2, <1>3, <1>4, <1>5, <1>6, <1>7 DEF CredentialsHold

LEMMA resetPasswordKeeps ==
  ASSUME CredentialInv, NEW b \in Booth, NEW e \in Email, resetPassword(b, e)
  PROVE  CredentialInv'
<1> USE SignInConstants DEF CredentialInv, CredentialType, CredentialFacts, resetPassword, Visit, Enters, findValidToken, HeldBy, Grabs
<1>1. CredentialType'
  <2>1. user' \in [Email -> UserRow]
    BY DEF UserRow, PendingRow
  <2>2. session' \in [Session -> SessionRow]
    BY DEF SessionRow, BoothRow, Addressed
  <2>3. secret' \in [Secret -> SecretRow]
    BY GrabbedIsCounted, ZenonT(60) DEF LiveCodes, findValidToken
  <2>4. pending' \in [Pending -> PendingRow]
    BY DEF PendingRow
  <2>5. booth' \in [Booth -> BoothRow]
    BY DEF BoothRow, SessionRow, UserRow, SessionsOfAccounts
  <2>6. visits' \in Nat
    OBVIOUS
  <2> QED
    BY <2>1, <2>2, <2>3, <2>4, <2>5, <2>6
<1>2. Addressed'
  BY DEF Addressed, SessionsOfAccounts, BoothRow
<1>3. SessionsOfAccounts'
  BY DEF Addressed, SessionsOfAccounts, UserRow, SessionRow, BoothRow
<1>4. HoldersAtWork'
  BY DEF HoldersAtWork, SecretRow, BoothRow
<1>5. SpentIsHeld'
  BY DEF HoldersAtWork, SpentIsHeld, SecretRow, BoothRow
<1>6. SessionsKnowThePassword'
  <2>1. \A a \in Booth : booth[a].op \in {"spend", "signOut"} => booth'[a] = booth[a]
    BY DEF BoothRow
  <2> QED
    BY <2>1 DEF CredentialsHold, SessionsKnowThePassword
<1>7. SecretsSpentOnce'
  BY DEF CredentialsHold, SecretsSpentOnce, SpentIsHeld, HoldersAtWork, SecretRow, BoothRow
<1> QED
  BY <1>1, <1>2, <1>3, <1>4, <1>5, <1>6, <1>7 DEF CredentialsHold

LEMMA markOtpUsedKeeps ==
  ASSUME CredentialInv, NEW b \in Booth, markOtpUsed(b)
  PROVE  CredentialInv'
<1> USE SignInConstants DEF CredentialInv, CredentialType, CredentialFacts, markOtpUsed
<1>1. CredentialType'
  <2>1. user' \in [Email -> UserRow]
    BY DEF UserRow, PendingRow
  <2>2. session' \in [Session -> SessionRow]
    BY DEF SessionRow, BoothRow, Addressed
  <2>3. secret' \in [Secret -> SecretRow]
    BY ZenonT(60) DEF SecretRow
  <2>4. pending' \in [Pending -> PendingRow]
    BY DEF PendingRow
  <2>5. booth' \in [Booth -> BoothRow]
    <3> DEFINE op == IF booth[b].goal = "login" THEN "account" ELSE "create"
               r == [booth[b] EXCEPT !.op = op, !.id = 0]
    <3>1. booth' = [a \in Booth |-> IF a = b THEN r ELSE booth[a]]
      OBVIOUS
    <3>2. r \in BoothRow
      BY ZenonT(60) DEF BoothRow
    <3> QED
      BY <3>1, <3>2
  <2>6. visits' \in Nat
    OBVIOUS
  <2> QED
    BY <2>1, <2>2, <2>3, <2>4, <2>5, <2>6
<1>2. Addressed'
  BY DEF Addressed, SessionsOfAccounts, BoothRow
<1>3. SessionsOfAccounts'
  BY DEF Addressed, SessionsOfAccounts, UserRow, SessionRow, BoothRow
<1>4. HoldersAtWork'
  BY DEF HoldersAtWork, SecretRow, BoothRow
<1>5. SpentIsHeld'
  BY SMTT(60) DEF HoldersAtWork, SpentIsHeld, SecretRow, BoothRow
<1>6. SessionsKnowThePassword'
  BY DEF CredentialsHold, Addressed, SessionsOfAccounts, SessionsKnowThePassword, UserRow, SessionRow, BoothRow
<1>7. SecretsSpentOnce'
  BY DEF CredentialsHold, SecretsSpentOnce, SpentIsHeld, HoldersAtWork, SecretRow, BoothRow
<1> QED
  BY <1>1, <1>2, <1>3, <1>4, <1>5, <1>6, <1>7 DEF CredentialsHold

LEMMA findOrCreateUserKeeps ==
  ASSUME CredentialInv, NEW b \in Booth, findOrCreateUser(b)
  PROVE  CredentialInv'
<1> USE SignInConstants DEF CredentialInv, CredentialType, CredentialFacts, findOrCreateUser
<1>1. CredentialType'
  <2>1. user' \in [Email -> UserRow]
    BY ZenonT(60) DEF UserRow, PendingRow
  <2>2. session' \in [Session -> SessionRow]
    BY DEF SessionRow, BoothRow, Addressed
  <2>3. secret' \in [Secret -> SecretRow]
    BY DEF SecretRow
  <2>4. pending' \in [Pending -> PendingRow]
    BY DEF PendingRow
  <2>5. booth' \in [Booth -> BoothRow]
    <3> DEFINE r == [booth[b] EXCEPT !.op = "session", !.knew = user[booth[b].who].pw]
    <3>1. booth' = [a \in Booth |-> IF a = b THEN r ELSE booth[a]]
      OBVIOUS
    <3>2. r \in BoothRow
      BY ZenonT(60) DEF Addressed, BoothRow, UserRow
    <3> QED
      BY <3>1, <3>2
  <2>6. visits' \in Nat
    OBVIOUS
  <2> QED
    BY <2>1, <2>2, <2>3, <2>4, <2>5, <2>6
<1>2. Addressed'
  BY DEF Addressed, SessionsOfAccounts, BoothRow
<1>3. SessionsOfAccounts'
  BY DEF Addressed, SessionsOfAccounts, UserRow, SessionRow, BoothRow
<1>4. HoldersAtWork'
  BY DEF HoldersAtWork, SecretRow, BoothRow
<1>5. SpentIsHeld'
  BY SMTT(60) DEF HoldersAtWork, SpentIsHeld, SecretRow, BoothRow
<1>6. SessionsKnowThePassword'
  <2>1. \A a \in Booth : booth[a].op \in {"spend", "signOut"} => booth'[a] = booth[a]
    BY DEF BoothRow
  <2>2. \A e \in Email : user'[e].pw = user[e].pw
    BY DEF UserRow
  <2> QED
    BY <2>1, <2>2 DEF CredentialsHold, SessionsOfAccounts, SessionsKnowThePassword
<1>7. SecretsSpentOnce'
  BY DEF CredentialsHold, SecretsSpentOnce, SpentIsHeld, HoldersAtWork, SecretRow, BoothRow
<1> QED
  BY <1>1, <1>2, <1>3, <1>4, <1>5, <1>6, <1>7 DEF CredentialsHold

LEMMA createUserFromPendingKeeps ==
  ASSUME CredentialInv, NEW b \in Booth, createUserFromPending(b)
  PROVE  CredentialInv'
<1> USE SignInConstants DEF CredentialInv, CredentialType, CredentialFacts
<1> DEFINE e == booth[b].who
<1>1. booth[b].op = "create" /\ e \in Email /\ booth[b].id = 0
  BY DEF createUserFromPending, Addressed, HoldersAtWork
<1>2. UNCHANGED <<session, secret, visits>>
  BY DEF createUserFromPending
<1>3. \A x \in Secret : \A a \in Booth : booth[a].id = x => a /= b
  BY <1>1
<1>4. CASE Exits(b) /\ UNCHANGED <<user, pending>>
  <2>1. booth' = [booth EXCEPT ![b] = AtRest] /\ AtRest \in BoothRow /\ AtRest.op = "idle" /\ AtRest.id = 0
    BY <1>4 DEF Exits, AtRest, BoothRow
  <2>2. CredentialType'
    BY <1>2, <1>4, <2>1
  <2>3. CredentialFacts'
    BY <1>1, <1>2, <1>3, <1>4, <2>1 DEF Addressed, SessionsOfAccounts, HoldersAtWork, SpentIsHeld
  <2>4. CredentialsHold'
    BY <1>1, <1>2, <1>4, <2>1 DEF CredentialsHold, SessionsKnowThePassword, SecretsSpentOnce
  <2> QED
    BY <2>2, <2>3, <2>4
<1>5. CASE ~user[e].has /\ \E p \in Pending :
             /\ user' = [user EXCEPT ![e] = [has |-> TRUE, pw |-> pending[p].pw]]
             /\ pending' = [pending EXCEPT ![p].state = "used"]
             /\ booth' = [booth EXCEPT ![b].op = "session", ![b].knew = pending[p].pw]
  <2>1. PICK p \in Pending :
             /\ user' = [user EXCEPT ![e] = [has |-> TRUE, pw |-> pending[p].pw]]
             /\ pending' = [pending EXCEPT ![p].state = "used"]
             /\ booth' = [booth EXCEPT ![b].op = "session", ![b].knew = pending[p].pw]
    BY <1>5
  <2> DEFINE u == [has |-> TRUE, pw |-> pending[p].pw]
             r == [booth[b] EXCEPT !.op = "session", !.knew = pending[p].pw]
  <2>2. u \in UserRow /\ u.has
    BY DEF UserRow, PendingRow
  <2>3. r \in BoothRow /\ r.op = "session" /\ r.who = e /\ r.id = 0
    <3>1. booth[b] \in BoothRow /\ pending[p].pw \in Nat
      BY DEF PendingRow
    <3> QED
      BY <1>1, <3>1 DEF BoothRow
  <2>4. user' = [user EXCEPT ![e] = u] /\ booth' = [booth EXCEPT ![b] = r]
    BY <2>1
  <2>5. pending' \in [Pending -> PendingRow]
    BY <2>1 DEF PendingRow
  <2> HIDE DEF u, r
  <2>6. CredentialType'
    BY <1>1, <1>2, <2>2, <2>3, <2>4, <2>5
  <2>7. \A a \in Booth : a /= b => booth'[a] = booth[a]
    BY <2>4
  <2>8. booth'[b].op = "session" /\ booth'[b].who = e /\ booth'[b].id = 0
    BY <2>3, <2>4
  <2>9. \A f \in Email : user[f].has => user'[f] = user[f]
    BY <1>5, <2>4
  <2>10. user'[e].has
    BY <1>1, <2>2, <2>4
  <2>11. CredentialFacts'
    <3>1. Addressed'
      BY <1>1, <2>7, <2>8 DEF Addressed
    <3>2. SessionsOfAccounts'
      BY <1>1, <1>2, <2>7, <2>8, <2>9, <2>10 DEF Addressed, SessionsOfAccounts
    <3>3. HoldersAtWork' /\ SpentIsHeld'
      BY <1>1, <1>2, <1>3, <2>7, <2>8 DEF HoldersAtWork, SpentIsHeld
    <3> QED
      BY <3>1, <3>2, <3>3
  <2>12. CredentialsHold'
    <3>1. SecretsSpentOnce'
      BY <1>1, <1>2, <2>7, <2>8 DEF CredentialsHold, SecretsSpentOnce
    <3>2. SessionsKnowThePassword'
      <4>1. /\ \A x \in Session : session'[x] = session[x] /\ (session[x].state = "live" => session[x].who \in Email)
            /\ \A x \in Session : session[x].state = "live" => user[session[x].who].has
        BY <1>1, <1>2 DEF SessionsOfAccounts
      <4>2. \A a \in Booth : booth[a].op \in {"spend", "signOut"} => booth'[a] = booth[a]
        BY <1>1, <2>7
      <4> QED
        BY <2>9, <4>1, <4>2 DEF CredentialsHold, SessionsKnowThePassword
    <3> QED
      BY <3>1, <3>2 DEF CredentialsHold
  <2> QED
    BY <2>6, <2>11, <2>12
<1> QED
  BY <1>4, <1>5 DEF createUserFromPending, findPendingSignup

LEMMA createSessionKeeps ==
  ASSUME CredentialInv, NEW b \in Booth, createSession(b)
  PROVE  CredentialInv'
<1> USE SignInConstants DEF CredentialInv, CredentialType, CredentialFacts, createSession, NextFree, Exits, AtRest
<1>1. CredentialType'
  <2>1. user' \in [Email -> UserRow]
    BY DEF UserRow, PendingRow
  <2>2. session' \in [Session -> SessionRow]
    BY DEF SessionRow, BoothRow, Addressed
  <2>3. secret' \in [Secret -> SecretRow]
    BY DEF SecretRow
  <2>4. pending' \in [Pending -> PendingRow]
    BY DEF PendingRow
  <2>5. booth' \in [Booth -> BoothRow]
    BY DEF BoothRow, SessionRow, UserRow, SessionsOfAccounts
  <2>6. visits' \in Nat
    OBVIOUS
  <2> QED
    BY <2>1, <2>2, <2>3, <2>4, <2>5, <2>6
<1>2. Addressed'
  BY DEF Addressed, SessionsOfAccounts, BoothRow
<1>3. SessionsOfAccounts'
  BY DEF Addressed, SessionsOfAccounts, UserRow, SessionRow, BoothRow
<1>4. HoldersAtWork'
  BY DEF HoldersAtWork, SecretRow, BoothRow
<1>5. SpentIsHeld'
  BY DEF HoldersAtWork, SpentIsHeld, SecretRow, BoothRow
<1>6. SessionsKnowThePassword'
  BY DEF CredentialsHold, Addressed, SessionsOfAccounts, SessionsKnowThePassword, UserRow, SessionRow, BoothRow
<1>7. SecretsSpentOnce'
  BY DEF CredentialsHold, SecretsSpentOnce, SpentIsHeld, HoldersAtWork, SecretRow, BoothRow
<1> QED
  BY <1>1, <1>2, <1>3, <1>4, <1>5, <1>6, <1>7 DEF CredentialsHold

LEMMA setPasswordKeeps ==
  ASSUME CredentialInv, NEW b \in Booth, setPassword(b)
  PROVE  CredentialInv'
<1> USE SignInConstants DEF CredentialInv, CredentialType, CredentialFacts, setPassword, Step
<1>1. CredentialType'
  <2>1. user' \in [Email -> UserRow]
    <3> DEFINE r == [user[booth[b].who] EXCEPT !.pw = @ + 1]
    <3>1. user' = [user EXCEPT ![booth[b].who] = r] /\ booth[b].who \in Email
      BY DEF Addressed
    <3>2. r \in UserRow
      BY <3>1 DEF UserRow
    <3> HIDE DEF r
    <3> QED
      BY <3>1, <3>2
  <2>2. session' \in [Session -> SessionRow]
    BY DEF SessionRow, BoothRow, Addressed
  <2>3. secret' \in [Secret -> SecretRow]
    BY DEF SecretRow
  <2>4. pending' \in [Pending -> PendingRow]
    BY DEF PendingRow
  <2>5. booth' \in [Booth -> BoothRow]
    BY SMTT(60) DEF BoothRow, SessionRow, UserRow, SessionsOfAccounts
  <2>6. visits' \in Nat
    OBVIOUS
  <2> QED
    BY <2>1, <2>2, <2>3, <2>4, <2>5, <2>6
<1>2. Addressed'
  BY DEF Addressed, SessionsOfAccounts, BoothRow
<1>3. SessionsOfAccounts'
  BY DEF Addressed, SessionsOfAccounts, UserRow, SessionRow, BoothRow
<1>4. HoldersAtWork'
  BY DEF HoldersAtWork, SecretRow, BoothRow
<1>5. SpentIsHeld'
  BY DEF HoldersAtWork, SpentIsHeld, SecretRow, BoothRow
<1>6. SessionsKnowThePassword'
  BY DEF CredentialsHold, Addressed, SessionsOfAccounts, SessionsKnowThePassword, UserRow, SessionRow, BoothRow
<1>7. SecretsSpentOnce'
  BY DEF CredentialsHold, SecretsSpentOnce, SpentIsHeld, HoldersAtWork, SecretRow, BoothRow
<1> QED
  BY <1>1, <1>2, <1>3, <1>4, <1>5, <1>6, <1>7 DEF CredentialsHold

LEMMA SpendLinkKeeps ==
  ASSUME CredentialInv, NEW b \in Booth, SpendLink(b)
  PROVE  CredentialInv'
<1> USE SignInConstants DEF CredentialInv, CredentialType, CredentialFacts, SpendLink, Step
<1>1. CredentialType'
  <2>1. user' \in [Email -> UserRow]
    BY DEF UserRow, PendingRow
  <2>2. session' \in [Session -> SessionRow]
    BY DEF SessionRow, BoothRow, Addressed
  <2>3. secret' \in [Secret -> SecretRow]
    BY ZenonT(60) DEF SecretRow
  <2>4. pending' \in [Pending -> PendingRow]
    BY DEF PendingRow
  <2>5. booth' \in [Booth -> BoothRow]
    BY DEF BoothRow, SessionRow, UserRow, SessionsOfAccounts
  <2>6. visits' \in Nat
    OBVIOUS
  <2> QED
    BY <2>1, <2>2, <2>3, <2>4, <2>5, <2>6
<1>2. Addressed'
  BY DEF Addressed, SessionsOfAccounts, BoothRow
<1>3. SessionsOfAccounts'
  BY DEF Addressed, SessionsOfAccounts, UserRow, SessionRow, BoothRow
<1>4. HoldersAtWork'
  BY DEF HoldersAtWork, SecretRow, BoothRow
<1>5. SpentIsHeld'
  BY DEF HoldersAtWork, SpentIsHeld, SecretRow, BoothRow
<1>6. SessionsKnowThePassword'
  BY DEF CredentialsHold, Addressed, SessionsOfAccounts, SessionsKnowThePassword, UserRow, SessionRow, BoothRow
<1>7. SecretsSpentOnce'
  BY DEF CredentialsHold, SecretsSpentOnce, SpentIsHeld, HoldersAtWork, SecretRow, BoothRow
<1> QED
  BY <1>1, <1>2, <1>3, <1>4, <1>5, <1>6, <1>7 DEF CredentialsHold

LEMMA invalidateAllSessionsKeeps ==
  ASSUME CredentialInv, NEW b \in Booth, invalidateAllSessions(b)
  PROVE  CredentialInv'
<1> USE SignInConstants DEF CredentialInv, CredentialType, CredentialFacts, invalidateAllSessions, Exits, AtRest
<1>1. CredentialType'
  <2>1. user' \in [Email -> UserRow]
    BY DEF UserRow, PendingRow
  <2>2. session' \in [Session -> SessionRow]
    BY DEF SessionRow, BoothRow, Addressed
  <2>3. secret' \in [Secret -> SecretRow]
    BY DEF SecretRow
  <2>4. pending' \in [Pending -> PendingRow]
    BY DEF PendingRow
  <2>5. booth' \in [Booth -> BoothRow]
    BY DEF BoothRow, SessionRow, UserRow, SessionsOfAccounts
  <2>6. visits' \in Nat
    OBVIOUS
  <2> QED
    BY <2>1, <2>2, <2>3, <2>4, <2>5, <2>6
<1>2. Addressed'
  BY DEF Addressed, SessionsOfAccounts, BoothRow
<1>3. SessionsOfAccounts'
  BY DEF Addressed, SessionsOfAccounts, UserRow, SessionRow, BoothRow
<1>4. HoldersAtWork'
  BY DEF HoldersAtWork, SecretRow, BoothRow
<1>5. SpentIsHeld'
  BY DEF HoldersAtWork, SpentIsHeld, SecretRow, BoothRow
<1>6. SessionsKnowThePassword'
  BY DEF CredentialsHold, Addressed, SessionsOfAccounts, SessionsKnowThePassword, UserRow, SessionRow, BoothRow
<1>7. SecretsSpentOnce'
  BY DEF CredentialsHold, SecretsSpentOnce, SpentIsHeld, HoldersAtWork, SecretRow, BoothRow
<1> QED
  BY <1>1, <1>2, <1>3, <1>4, <1>5, <1>6, <1>7 DEF CredentialsHold

LEMMA logoutKeeps ==
  ASSUME CredentialInv, NEW s \in Session, logout(s)
  PROVE  CredentialInv'
<1> USE SignInConstants DEF CredentialInv, CredentialType, CredentialFacts, logout, Visit
<1>1. CredentialType'
  <2>1. user' \in [Email -> UserRow]
    BY DEF UserRow, PendingRow
  <2>2. session' \in [Session -> SessionRow]
    BY DEF SessionRow, BoothRow, Addressed
  <2>3. secret' \in [Secret -> SecretRow]
    BY DEF SecretRow
  <2>4. pending' \in [Pending -> PendingRow]
    BY DEF PendingRow
  <2>5. booth' \in [Booth -> BoothRow]
    BY DEF BoothRow, SessionRow, UserRow, SessionsOfAccounts
  <2>6. visits' \in Nat
    OBVIOUS
  <2> QED
    BY <2>1, <2>2, <2>3, <2>4, <2>5, <2>6
<1>2. Addressed'
  BY DEF Addressed, SessionsOfAccounts, BoothRow
<1>3. SessionsOfAccounts'
  BY DEF Addressed, SessionsOfAccounts, UserRow, SessionRow, BoothRow
<1>4. HoldersAtWork'
  BY DEF HoldersAtWork, SecretRow, BoothRow
<1>5. SpentIsHeld'
  BY DEF HoldersAtWork, SpentIsHeld, SecretRow, BoothRow
<1>6. SessionsKnowThePassword'
  BY DEF CredentialsHold, Addressed, SessionsOfAccounts, SessionsKnowThePassword, UserRow, SessionRow, BoothRow
<1>7. SecretsSpentOnce'
  BY DEF CredentialsHold, SecretsSpentOnce, SpentIsHeld, HoldersAtWork, SecretRow, BoothRow
<1> QED
  BY <1>1, <1>2, <1>3, <1>4, <1>5, <1>6, <1>7 DEF CredentialsHold

LEMMA changePasswordKeeps ==
  ASSUME CredentialInv, NEW s \in Session, NEW b \in Booth, changePassword(b, s)
  PROVE  CredentialInv'
<1> USE SignInConstants DEF CredentialInv, CredentialType, CredentialFacts, changePassword, Visit, Enters
<1>1. CredentialType'
  <2>1. user' \in [Email -> UserRow]
    BY DEF UserRow, PendingRow
  <2>2. session' \in [Session -> SessionRow]
    BY DEF SessionRow, BoothRow, Addressed
  <2>3. secret' \in [Secret -> SecretRow]
    BY DEF SecretRow
  <2>4. pending' \in [Pending -> PendingRow]
    BY DEF PendingRow
  <2>5. booth' \in [Booth -> BoothRow]
    BY DEF BoothRow, SessionRow, UserRow, SessionsOfAccounts
  <2>6. visits' \in Nat
    OBVIOUS
  <2> QED
    BY <2>1, <2>2, <2>3, <2>4, <2>5, <2>6
<1>2. Addressed'
  BY DEF Addressed, SessionsOfAccounts, BoothRow
<1>3. SessionsOfAccounts'
  BY DEF Addressed, SessionsOfAccounts, UserRow, SessionRow, BoothRow
<1>4. HoldersAtWork'
  BY DEF HoldersAtWork, SecretRow, BoothRow
<1>5. SpentIsHeld'
  BY DEF HoldersAtWork, SpentIsHeld, SecretRow, BoothRow
<1>6. SessionsKnowThePassword'
  BY DEF CredentialsHold, Addressed, SessionsOfAccounts, SessionsKnowThePassword, UserRow, SessionRow, BoothRow
<1>7. SecretsSpentOnce'
  BY DEF CredentialsHold, SecretsSpentOnce, SpentIsHeld, HoldersAtWork, SecretRow, BoothRow
<1> QED
  BY <1>1, <1>2, <1>3, <1>4, <1>5, <1>6, <1>7 DEF CredentialsHold


-----------------------------------------------------------------------------
(* SignIn: the theorem *)

LEMMA NextCredentials == CredentialInv /\ [SignInNext]_signInVars => CredentialInv'
<1> SUFFICES ASSUME CredentialInv, [SignInNext]_signInVars PROVE CredentialInv'
  OBVIOUS
<1>1. CASE UNCHANGED signInVars
  BY <1>1 DEF signInVars, CredentialInv, CredentialType, CredentialFacts, Addressed, SessionsOfAccounts,
              HoldersAtWork, SpentIsHeld, CredentialsHold, SessionsKnowThePassword, SecretsSpentOnce
<1>2. CASE SignInNext
  <2>1. ASSUME NEW e \in Email, requestOtp(e) \/ requestReset(e) \/ startSignup(e)
        PROVE  CredentialInv'
    BY <2>1, requestOtpKeeps, requestResetKeeps, startSignupKeeps
  <2>2. CASE RunsOut
    BY <2>2, RunsOutKeeps
  <2>3. ASSUME NEW b \in Booth, NEW e \in Email, verifyLogin(b, e) \/ verifyOtpCode(b, e) \/ resetPassword(b, e)
        PROVE  CredentialInv'
    BY <2>3, verifyLoginKeeps, verifyOtpCodeKeeps, resetPasswordKeeps
  <2>4. ASSUME NEW b \in Booth,
               \/ markOtpUsed(b) \/ findOrCreateUser(b) \/ createUserFromPending(b)
               \/ createSession(b) \/ setPassword(b) \/ SpendLink(b) \/ invalidateAllSessions(b)
        PROVE  CredentialInv'
    BY <2>4, markOtpUsedKeeps, findOrCreateUserKeeps, createUserFromPendingKeeps, createSessionKeeps,
       setPasswordKeeps, SpendLinkKeeps, invalidateAllSessionsKeeps
  <2>5. ASSUME NEW s \in Session, logout(s) \/ \E b \in Booth : changePassword(b, s)
        PROVE  CredentialInv'
    BY <2>5, logoutKeeps, changePasswordKeeps
  <2> QED
    BY <1>2, <2>1, <2>2, <2>3, <2>4, <2>5 DEF SignInNext
<1> QED
  BY <1>1, <1>2

\* Once a reset or a change of the password is through, no session of before it is left but one
\* whose own sign-in straddled it, and no code or link lets a second request through unless two
\* held it at once (AuthService, PasswordResetService, OtpService): for any number of addresses,
\* sessions, codes and requests in flight.
THEOREM CredentialsAreSound == SignInSpec => []CredentialsHold
<1>1. CredentialInv => CredentialsHold
  BY DEF CredentialInv
<1> QED
  BY InitCredentials, NextCredentials, <1>1, PTL DEF SignInSpec
=============================================================================
