--------------------------- MODULE WorkspaceProofs --------------------------
(***************************************************************************)
(* The safety of each area carried to the whole workspace, whose behaviours *)
(* play out in one area each: a step is a step of that area or leaves it.   *)
(***************************************************************************)
EXTENDS MCWorkspace, AccessProofs, RepositoryProofs, ClientProofs, AgentProofs

\* Every variable of the workspace.
workspaceVars == <<area, repoVars, cfVars, accessVars, signInVars, kbVars, ztVars, zcVars, ztnVars,
                   httpVars, reporterVars, tcpVars, tcVars, screenVars, loginVars>>

\* A step that leaves the other areas still is a step in its area, and does not leave it.
LEMMA StillIn == \A a : Still(a) => area = a /\ UNCHANGED area
BY DEF Still

\* A behaviour stays in its area.
LEMMA AreaStays == [MCNext]_workspaceVars => UNCHANGED area
BY StillIn, SMTT(60) DEF MCNext, workspaceVars

LEMMA AccessSteps == [MCNext]_workspaceVars /\ area = "access" => [AccessNext]_accessVars
BY StillIn, SMTT(60) DEF MCNext, workspaceVars

LEMMA SignInSteps == [MCNext]_workspaceVars /\ area = "sign_in" => [SignInNext]_signInVars
BY StillIn, SMTT(60) DEF MCNext, workspaceVars

LEMMA TaskSteps == [MCNext]_workspaceVars /\ area = "tasks" => [ZyraTasksNext]_ztVars
BY StillIn, SMTT(60) DEF MCNext, workspaceVars

LEMMA ChatSteps == [MCNext]_workspaceVars /\ area = "chat" => [ZyraChatNext]_zcVars
BY StillIn, SMTT(60) DEF MCNext, workspaceVars

LEMMA LoginSteps == [MCNext]_workspaceVars /\ area = "login" => [LoginNext]_loginVars
BY StillIn, SMTT(60) DEF MCNext, workspaceVars

\* The whole workspace, its users, requests and agents in any order, grants no role that no one
\* entitled to has granted, keeps project members inside the project's workspace and exceeds the
\* project limit by at most the creations that were under way.
THEOREM AccessInTheWorkspace == MCSpec => []AccessHolds
<1> DEFINE Inv == area = "access" => AccessInv /\ Reserved
<1>1. MCInit => Inv
  BY InitAccessInv, InitReserved DEF MCInit
<1>2. Inv /\ [MCNext]_workspaceVars => Inv'
  BY AreaStays, AccessSteps, NextAccessInv, NextReserved
<1>3. Inv => AccessHolds
  BY ReservedSlack, Reach DEF AccessHolds, AccessInv, WorkspaceBoundary
<1> QED
  BY <1>1, <1>2, <1>3, PTL DEF MCSpec, workspaceVars

\* No code, link or session answers once its credential is spent, replaced or withdrawn.
THEOREM SignInInTheWorkspace == MCSpec => []SignInHolds
<1> DEFINE Inv == area = "sign_in" => CredentialInv
<1>1. MCInit => Inv
  BY InitCredentials DEF MCInit
<1>2. Inv /\ [MCNext]_workspaceVars => Inv'
  BY AreaStays, SignInSteps, NextCredentials
<1>3. Inv => SignInHolds
  BY DEF SignInHolds, CredentialInv
<1> QED
  BY <1>1, <1>2, <1>3, PTL DEF MCSpec, workspaceVars

\* A settled task stays settled and every waiting one is answered by exactly one generation.
THEOREM TasksInTheWorkspace == MCSpec => []TasksHold
<1> DEFINE Inv == area = "tasks" => TasksInv
<1>1. MCInit => Inv
  BY InitTasks DEF MCInit
<1>2. Inv /\ [MCNext]_workspaceVars => Inv'
  BY AreaStays, TaskSteps, NextTasks
<1>3. Inv => TasksHold
  BY TasksInvSound DEF TasksHold
<1> QED
  BY <1>1, <1>2, <1>3, PTL DEF MCSpec, workspaceVars

\* No scenario of a plan is skipped or counted twice, and a running plan has a loop at work.
THEOREM PlanInTheWorkspace == MCSpec => []PlanHolds
<1> DEFINE Inv == area = "chat" => PlanInv
<1>1. MCInit => Inv
  BY InitPlan DEF MCInit
<1>2. Inv /\ [MCNext]_workspaceVars => Inv'
  BY AreaStays, ChatSteps, NextPlan
<1>3. Inv => PlanHolds
  BY PlanInvSound DEF PlanHolds
<1> QED
  BY <1>1, <1>2, <1>3, PTL DEF MCSpec, workspaceVars

LEMMA TurnSteps == [MCNext]_workspaceVars /\ area = "turn" => [ZyraTurnNext]_ztnVars
BY StillIn, SMTT(60) DEF MCNext, workspaceVars

\* The agent's words stand uncorrected only if all the operations they report were carried out.
THEOREM ReplyInTheWorkspace == MCSpec => []ReplyHolds
<1> DEFINE Inv == area = "turn" => TurnInv
<1>1. MCInit => Inv
  BY InitTurn DEF MCInit
<1>2. Inv /\ [MCNext]_workspaceVars => Inv'
  BY AreaStays, TurnSteps, NextTurn
<1>3. Inv => ReplyHolds
  BY TurnInvHonest DEF ReplyHolds
<1> QED
  BY <1>1, <1>2, <1>3, PTL DEF MCSpec, workspaceVars

LEMMA RepositorySteps == [MCNext]_workspaceVars /\ area = "repository" => [RepositoryNext]_repoVars
BY StillIn, SMTT(60) DEF MCNext, workspaceVars

\* An id drawn under the lock stays free of other locked writers, an import answers for every row
\* of its file without twins, and the suite tree, the table and the export show the same cases.
THEOREM RepositoryInTheWorkspace == MCSpec => []RepositoryAgrees
<1> DEFINE Inv == area = "repository" => RepoInv
<1>1. MCInit => Inv
  BY RepoInit DEF MCInit
<1>2. Inv /\ [MCNext]_workspaceVars => Inv'
  BY AreaStays, RepositorySteps, RepoNext
<1>3. Inv => RepositoryAgrees
  BY RepoSafe DEF RepositoryAgrees
<1> QED
  BY <1>1, <1>2, <1>3, PTL DEF MCSpec, workspaceVars

\* The sign-in page sends a user onward once and gives up only on one who came back.
THEOREM LoginInTheWorkspace == MCSpec => []LoginHolds
<1> DEFINE Inv == area = "login" => LoginType /\ LoginInv
<1>1. MCInit => Inv
  BY InitLogin DEF MCInit
<1>2. Inv /\ [MCNext]_workspaceVars => Inv'
  BY AreaStays, LoginSteps, NextLogin
<1>3. Inv => LoginHolds
  BY LoginInvSettles, SMTT(60) DEF LoginHolds
<1> QED
  BY <1>1, <1>2, <1>3, PTL DEF MCSpec, workspaceVars

LEMMA PageSteps == [MCNext]_workspaceVars /\ area = "page" => [PageNext]_tcpVars
BY StillIn, SMTT(60) DEF MCNext, workspaceVars

\* Every write of the test-case page is sent once and no button stays disabled.
THEOREM PageInTheWorkspace == MCSpec => []PageHolds
<1> DEFINE Inv == area = "page" => PageInv
<1>1. MCInit => Inv
  BY InitPageInv DEF MCInit
<1>2. Inv /\ [MCNext]_workspaceVars => Inv'
  BY AreaStays, PageSteps, NextPageInv
<1>3. Inv => PageHolds
  BY PageInvLocks DEF PageHolds
<1> QED
  BY <1>1, <1>2, <1>3, PTL DEF MCSpec, workspaceVars

-----------------------------------------------------------------------------
(* Custom fields: labels are distinct in a definition and in the list that a request is about *)
(* to write back, and a request that passed normalizeValues still knows every requirement that *)
(* the history vouches for.                                                                    *)

OptionRow == [label : Label \cup {""}, active : BOOLEAN]
FieldRow  == [status : {"none", "active", "inactive", "archived", "gone"}, required : BOOLEAN,
              options : [Option -> OptionRow], default : Option \cup {0}]
DeskRow   == [op : {"free", "update", "status", "delete", "values"}, field : Field \cup {0}, item : Item \cup {0},
              def : FieldRow, sent : SUBSET (Field \X (Option \cup {0})), ctx : SUBSET (Field \X FieldRow),
              had : SUBSET (Field \X (Option \cup {0}))]

FieldsType ==
  /\ field \in [Field -> FieldRow]
  /\ item \in [Item -> BOOLEAN]
  /\ value \in [Item -> [Field -> Option \cup {0}]]
  /\ proOn \in BOOLEAN
  /\ desk \in [Desk -> DeskRow]
  /\ vouched \subseteq Item \X Field

Distinct(def) == \A o, p \in Options(def) : o /= p => def.options[o].label /= def.options[p].label

\* The list a request is about to write back has distinct labels, as the one it found.
DefinitionsDistinct ==
  /\ \A f \in Field : Distinct(field[f])
  /\ \A d \in Desk : Distinct(desk[d].def)

OnePerField(S) == \A s, t \in S : s[1] = t[1] => s = t

\* A request that passed normalizeValues is still about a case that exists.
Admitted(r) ==
  r.op = "values" => /\ r.item \in Item /\ item[r.item]
                     /\ OnePerField(r.sent) /\ normalizeValues(r.sent, r.ctx, r.had)
RequestsAdmitted == \A d \in Desk : Admitted(desk[d])

\* What the history vouches for, with the requests that could still take it away: each of
\* them knows that the field is required.
VouchedKept ==
  \A v \in vouched :
    /\ item[v[1]] /\ value[v[1]][v[2]] /= 0
    /\ field[v[2]].status = "active" /\ field[v[2]].required
    /\ \A d \in Desk : desk[d].op = "values" /\ desk[d].item = v[1] => v[2] \in Required(desk[d].ctx)

FieldsInv == FieldsType /\ DefinitionsDistinct /\ RequestsAdmitted /\ VouchedKept

LEMMA NoFieldRow == NoField \in FieldRow /\ Distinct(NoField) /\ Distinct([NoField EXCEPT !.status = "gone"])
BY DEF NoField, NoOption, FieldRow, OptionRow, Distinct, Options

LEMMA FreeRow == Free \in DeskRow /\ Free.op = "free" /\ Distinct(Free.def)
BY NoFieldRow DEF Free, DeskRow

LEMMA InitFields == CustomFieldsInit => FieldsInv
<1> SUFFICES ASSUME CustomFieldsInit PROVE FieldsInv
  OBVIOUS
<1>1. FieldsType
  BY NoFieldRow, FreeRow DEF CustomFieldsInit, FieldsType
<1>2. DefinitionsDistinct
  BY NoFieldRow, FreeRow DEF CustomFieldsInit, DefinitionsDistinct
<1>3. RequestsAdmitted /\ VouchedKept
  BY FreeRow DEF CustomFieldsInit, RequestsAdmitted, Admitted, VouchedKept
<1> QED
  BY <1>1, <1>2, <1>3 DEF FieldsInv

-----------------------------------------------------------------------------
(* What normalizeValues promises of the values that are written *)

LEMMA RequiredIsWritten ==
  ASSUME NEW sent, NEW ctx, NEW had, OnePerField(sent), normalizeValues(sent, ctx, had), NEW f \in Required(ctx)
  PROVE  /\ \A s \in Normalized(sent, ctx, had) : s[1] = f => s[2] /= 0
         /\ (\E s \in Normalized(sent, ctx, had) : s[1] = f) \/ (\E h \in had : h[1] = f)
<1>1. PICK c \in ctx : c[1] = f /\ c[2].status = "active" /\ c[2].required
  BY DEF Required
<1>2. \/ \E s \in sent : s[1] = f /\ s[2] /= 0
      \/ /\ \A s \in sent : s[1] /= f
         /\ (\E h \in had : h[1] = f) \/ c[2].default /= 0
  BY <1>1 DEF normalizeValues
<1> DEFINE x == <<c[1], c[2].default>>
<1>3. x[1] = f /\ x[2] = c[2].default
  BY <1>1
<1>4. (\A s \in sent \cup had : s[1] /= f) /\ c[2].default /= 0 => x \in Normalized(sent, ctx, had)
  BY <1>1 DEF Normalized
<1>5. ASSUME NEW s \in Normalized(sent, ctx, had), s[1] = f
      PROVE  s \in sent \/ (s[2] /= 0 /\ \A t \in sent \cup had : t[1] /= f)
  <2>1. CASE s \in sent
    BY <2>1
  <2>2. CASE \E e \in ctx : /\ s = <<e[1], e[2].default>> /\ e[2].default /= 0
                            /\ \A t \in sent \cup had : t[1] /= e[1]
    BY <1>5, <2>2
  <2> QED
    BY <2>1, <2>2 DEF Normalized
<1> HIDE DEF x
<1>6. CASE \E s \in sent : s[1] = f /\ s[2] /= 0
  <2>1. PICK s \in sent : s[1] = f /\ s[2] /= 0
    BY <1>6
  <2>2. s \in Normalized(sent, ctx, had)
    BY DEF Normalized
  <2> QED
    BY <1>5, <2>1, <2>2 DEF OnePerField
<1>7. CASE (\A s \in sent : s[1] /= f) /\ ((\E h \in had : h[1] = f) \/ c[2].default /= 0)
  BY <1>3, <1>4, <1>5, <1>7
<1> QED
  BY <1>2, <1>6, <1>7

LEMMA NormalizedRows ==
  ASSUME NEW sent \in SUBSET (Field \X (Option \cup {0})), NEW ctx \in SUBSET (Field \X FieldRow), NEW had
  PROVE  Normalized(sent, ctx, had) \subseteq Field \X (Option \cup {0})
BY DEF Normalized, FieldRow

LEMMA ContextRows ==
  ASSUME FieldsType
  PROVE  /\ loadWriteContext \in SUBSET (Field \X FieldRow)
         /\ \A f \in Required(loadWriteContext) : f \in Field /\ field[f].status = "active" /\ field[f].required
         /\ \A f \in Field : proOn /\ field[f].status = "active" /\ field[f].required
                               => f \in Required(loadWriteContext)
<1>1. loadWriteContext \in SUBSET (Field \X FieldRow)
  BY DEF FieldsType, loadWriteContext, Defined
<1>2. ASSUME NEW f \in Required(loadWriteContext) PROVE f \in Field /\ field[f].status = "active" /\ field[f].required
  <2>1. PICK c \in loadWriteContext : c[1] = f /\ c[2].status = "active" /\ c[2].required
    BY DEF Required
  <2>2. PICK g \in Defined : c = <<g, field[g]>>
    BY <2>1 DEF loadWriteContext
  <2> QED
    BY <2>1, <2>2 DEF Defined
<1>3. ASSUME NEW f \in Field, proOn, field[f].status = "active", field[f].required
      PROVE  f \in Required(loadWriteContext)
  <2> DEFINE c == <<f, field[f]>>
  <2>1. c \in loadWriteContext
    BY <1>3 DEF loadWriteContext, Defined
  <2>2. c[1] = f /\ c[2] = field[f]
    OBVIOUS
  <2> HIDE DEF c
  <2> QED
    BY <1>3, <2>1, <2>2 DEF Required
<1> QED
  BY <1>1, <1>2, <1>3

LEMMA HeldRows == FieldsType => \A i \in Item : /\ Held(i) \in SUBSET (Field \X (Option \cup {0}))
                                                /\ \A h \in Held(i) : h[1] \in Field /\ value[i][h[1]] /= 0
<1> SUFFICES ASSUME FieldsType, NEW i \in Item
             PROVE  /\ Held(i) \in SUBSET (Field \X (Option \cup {0}))
                    /\ \A h \in Held(i) : h[1] \in Field /\ value[i][h[1]] /= 0
  OBVIOUS
<1>1. ASSUME NEW h \in Held(i) PROVE h \in Field \X (Option \cup {0}) /\ h[1] \in Field /\ value[i][h[1]] /= 0
  <2>1. PICK g \in Field : value[i][g] /= 0 /\ h = <<g, value[i][g]>>
    BY DEF Held
  <2> QED
    BY <2>1 DEF FieldsType
<1> QED
  BY <1>1

\* SetValues leaves the other cases and fields alone.
LEMMA SetRows ==
  ASSUME FieldsType, NEW i \in Item, NEW written \in SUBSET (Field \X (Option \cup {0})), SetValues(i, written)
  PROVE  /\ value' \in [Item -> [Field -> Option \cup {0}]]
         /\ \A j \in Item : j /= i => value'[j] = value[j]
         /\ \A f \in Field : \/ \E s \in written : s[1] = f /\ value'[i][f] = s[2]
                             \/ (\A s \in written : s[1] /= f) /\ value'[i][f] = value[i][f]
<1> DEFINE row == [f \in Field |-> IF \E s \in written : s[1] = f
                                   THEN (CHOOSE s \in written : s[1] = f)[2] ELSE value[i][f]]
<1>1. value' = [value EXCEPT ![i] = row]
  BY DEF SetValues, FieldsType
<1>2. ASSUME NEW f \in Field
      PROVE  \/ \E s \in written : s[1] = f /\ row[f] = s[2]
             \/ (\A s \in written : s[1] /= f) /\ row[f] = value[i][f]
  <2>1. CASE \E s \in written : s[1] = f
    <3> DEFINE t == CHOOSE s \in written : s[1] = f
    <3>1. t \in written /\ t[1] = f
      BY <2>1
    <3>2. row[f] = t[2]
      BY <2>1
    <3> HIDE DEF t, row
    <3> QED
      BY <3>1, <3>2
  <2>2. CASE \A s \in written : s[1] /= f
    BY <2>2
  <2> QED
    BY <2>1, <2>2
<1>3. row = [f \in Field |-> row[f]]
  OBVIOUS
<1> HIDE DEF row
<1>4. \A f \in Field : row[f] \in Option \cup {0}
  BY <1>2 DEF FieldsType
<1>5. row \in [Field -> Option \cup {0}]
  BY <1>3, <1>4
<1> QED
  BY <1>1, <1>2, <1>5 DEF FieldsType

-----------------------------------------------------------------------------
(* The steps *)

\* A definition that keeps its requirement takes nothing from the values.
LEMMA DefinitionChanges ==
  ASSUME FieldsInv, NEW f \in Field, NEW def \in FieldRow, Distinct(def), field' = [field EXCEPT ![f] = def],
         UNCHANGED <<item, value, proOn, desk, vouched>>,
         field[f].status = "active" => def.status = "active" /\ def.required = field[f].required
  PROVE  FieldsInv'
<1>1. FieldsType'
  BY DEF FieldsInv, FieldsType
<1>2. DefinitionsDistinct'
  <2>1. \A g \in Field : field'[g] = IF g = f THEN def ELSE field[g]
    BY DEF FieldsInv, FieldsType
  <2> QED
    BY <2>1 DEF FieldsInv, DefinitionsDistinct
<1>3. RequestsAdmitted'
  BY DEF FieldsInv, RequestsAdmitted, Admitted
<1>4. VouchedKept'
  <2>1. \A v \in vouched : v[2] \in Field
    BY DEF FieldsInv, FieldsType
  <2>2. \A g \in Field : field[g].status = "active" /\ field[g].required
                           => field'[g].status = "active" /\ field'[g].required
    BY DEF FieldsInv, FieldsType
  <2> QED
    BY <2>1, <2>2 DEF FieldsInv, VouchedKept
<1> QED
  BY <1>1, <1>2, <1>3, <1>4 DEF FieldsInv

LEMMA createDefinitionKeeps ==
  ASSUME FieldsInv, NEW f \in Field, NEW l \in Label, NEW r \in BOOLEAN, NEW dflt \in BOOLEAN,
         createDefinition(f, l, r, dflt)
  PROVE  FieldsInv'
<1> DEFINE o    == CHOOSE x \in Option : \A y \in Option : x <= y
           opts == [x \in Option |-> IF x = o THEN [label |-> l, active |-> TRUE] ELSE NoOption]
           dv   == IF dflt THEN o ELSE 0
           def  == [status |-> "active", required |-> r, default |-> dv, options |-> opts]
<1>1. /\ field[f].status = "none" /\ field' = [field EXCEPT ![f] = def] /\ validateConfigShape(def)
      /\ UNCHANGED <<item, value, proOn, desk, vouched>>
  BY Zenon DEF createDefinition
<1> HIDE DEF o
<1>3. opts \in [Option -> OptionRow]
  BY DEF OptionRow, NoOption
<1> HIDE DEF opts, dv
<1>4. dv \in Option \cup {0} /\ Distinct(def)
  BY <1>1 DEF validateConfigShape, Active, Distinct
<1>5. def \in FieldRow
  BY <1>3, <1>4 DEF FieldRow
<1>6. def.status = "active"
  OBVIOUS
<1> HIDE DEF def
<1> QED
  BY <1>1, <1>4, <1>5, DefinitionChanges

\* Options replaced by others of the same labels, or with one more.
LEMMA OptionsChange ==
  ASSUME FieldsInv, NEW f \in Field, NEW opts \in [Option -> OptionRow],
         \A o, p \in Option : o /= p /\ opts[o].label /= "" => opts[o].label /= opts[p].label,
         field' = [field EXCEPT ![f] = [field[f] EXCEPT !.options = opts]],
         UNCHANGED <<item, value, proOn, desk, vouched>>
  PROVE  FieldsInv'
<1> DEFINE def == [field[f] EXCEPT !.options = opts]
<1>1. field[f] \in FieldRow
  BY DEF FieldsInv, FieldsType
<1>2. def \in FieldRow /\ def.status = field[f].status /\ def.required = field[f].required /\ def.options = opts
  BY <1>1 DEF FieldRow
<1>3. field' = [field EXCEPT ![f] = def]
  OBVIOUS
<1> HIDE DEF def
<1>4. Distinct(def)
  BY <1>2 DEF Distinct, Options
<1> QED
  BY <1>2, <1>3, <1>4, DefinitionChanges

LEMMA addOptionKeeps ==
  ASSUME FieldsInv, NEW f \in Field, NEW l \in Label, addOption(f, l)
  PROVE  FieldsInv'
<1> DEFINE o    == CHOOSE x \in Option \ Options(field[f]) : \A y \in Option \ Options(field[f]) : x <= y
           was  == field[f].options
           opts == [was EXCEPT ![o] = [label |-> l, active |-> TRUE]]
<1>1. /\ field' = [field EXCEPT ![f] = [field[f] EXCEPT !.options = opts]]
      /\ \A p \in Option : was[p].label /= "" => was[p].label /= l
      /\ UNCHANGED <<item, value, proOn, desk, vouched>>
  BY DEF addOption, NewLabel, Options
<1>2. was \in [Option -> OptionRow] /\ Distinct(field[f])
  BY DEF FieldsInv, FieldsType, DefinitionsDistinct, FieldRow
<1>3. \A p, q \in Option : p /= q /\ was[p].label /= "" => was[p].label /= was[q].label
  BY <1>2 DEF Distinct, Options
<1> HIDE DEF o, was
<1>4. opts \in [Option -> OptionRow] /\ \A p \in Option : opts[p].label = IF p = o THEN l ELSE was[p].label
  BY <1>2 DEF OptionRow
<1> HIDE DEF opts
<1>5. \A p, q \in Option : p /= q /\ opts[p].label /= "" => opts[p].label /= opts[q].label
  BY <1>1, <1>3, <1>4, CustomFieldsConstants
<1> QED
  BY <1>1, <1>4, <1>5, OptionsChange

LEMMA setOptionActiveKeeps ==
  ASSUME FieldsInv, NEW f \in Field, NEW o \in Option, setOptionActive(f, o)
  PROVE  FieldsInv'
<1> DEFINE was  == field[f].options
           on   == ~was[o].active
           opt  == [was[o] EXCEPT !.active = on]
           opts == [was EXCEPT ![o] = opt]
<1>1. field' = [field EXCEPT ![f] = [field[f] EXCEPT !.options = opts]] /\ UNCHANGED <<item, value, proOn, desk, vouched>>
  BY DEF setOptionActive
<1>2. was \in [Option -> OptionRow] /\ Distinct(field[f])
  BY DEF FieldsInv, FieldsType, DefinitionsDistinct, FieldRow
<1>3. \A p, q \in Option : p /= q /\ was[p].label /= "" => was[p].label /= was[q].label
  BY <1>2 DEF Distinct, Options
<1> HIDE DEF was
<1>4. on \in BOOLEAN
  OBVIOUS
<1> HIDE DEF on
<1>5. opt \in OptionRow /\ opt.label = was[o].label
  BY <1>2, <1>4 DEF OptionRow
<1> HIDE DEF opt
<1>6. opts \in [Option -> OptionRow] /\ \A p \in Option : opts[p].label = was[p].label
  BY <1>2, <1>5
<1> HIDE DEF opts
<1>7. \A p, q \in Option : p /= q /\ opts[p].label /= "" => opts[p].label /= opts[q].label
  BY <1>3, <1>6
<1> QED
  BY <1>1, <1>6, <1>7, OptionsChange

\* A write of the definition takes it out of the history.
LEMMA DefinitionWritten ==
  ASSUME FieldsInv, NEW d \in Desk, NEW f \in Field \cup {0}, Redefined(f), Leave(d),
         field' \in [Field -> FieldRow], \A g \in Field : Distinct(field'[g]),
         \A g \in Field : g /= f => field'[g] = field[g],
         value' \in [Item -> [Field -> Option \cup {0}]],
         \A i \in Item : \A g \in Field : g /= f => value'[i][g] = value[i][g],
         UNCHANGED <<item, proOn>>
  PROVE  FieldsInv'
<1>1. FieldsType' /\ \A e \in Desk : desk'[e] = IF e = d THEN Free ELSE desk[e]
  BY FreeRow DEF FieldsInv, FieldsType, Leave, Redefined
<1>2. DefinitionsDistinct'
  BY <1>1, FreeRow DEF FieldsInv, DefinitionsDistinct
<1>3. RequestsAdmitted'
  BY <1>1, FreeRow DEF FieldsInv, RequestsAdmitted, Admitted
<1>4. VouchedKept'
  <2>1. \A v \in vouched' : v \in vouched /\ v[2] /= f /\ v[1] \in Item /\ v[2] \in Field
    BY DEF Redefined, FieldsInv, FieldsType
  <2> QED
    BY <1>1, <2>1, FreeRow DEF FieldsInv, VouchedKept
<1> QED
  BY <1>1, <1>2, <1>3, <1>4 DEF FieldsInv

LEMMA DefinitionWrites ==
  ASSUME FieldsInv, NEW d \in Desk, UpdateWrite(d) \/ StatusWrite(d) \/ DeleteWrite(d)
  PROVE  FieldsInv'
<1> DEFINE r == desk[d]
<1>0. r \in DeskRow /\ Distinct(r.def) /\ field \in [Field -> FieldRow] /\ value \in [Item -> [Field -> Option \cup {0}]]
  BY DEF FieldsInv, FieldsType, DefinitionsDistinct
<1> HIDE DEF r
<1>t. r.field \in Field \cup {0} /\ r.def \in FieldRow /\ Defined \subseteq Field
  BY <1>0 DEF DeskRow, Defined
<1>f. \A g \in Field : field[g] \in FieldRow /\ Distinct(field[g])
  BY DEF FieldsInv, FieldsType, DefinitionsDistinct
<1>1. CASE UpdateWrite(d)
  <2> DEFINE def == [r.def EXCEPT !.status = field[r.field].status]
  <2>1. /\ field' = IF r.field \in Defined THEN [field EXCEPT ![r.field] = def] ELSE field
        /\ Redefined(r.field) /\ Leave(d) /\ UNCHANGED <<item, value, proOn>>
    BY <1>1 DEF UpdateWrite, r
  <2>2. r.field \in Field => def \in FieldRow /\ Distinct(def)
    <3> SUFFICES ASSUME r.field \in Field PROVE def \in FieldRow /\ Distinct(def)
      OBVIOUS
    <3>1. def \in FieldRow
      BY <1>t, <1>f DEF FieldRow
    <3>2. def.options = r.def.options
      BY <1>t, <1>f DEF FieldRow
    <3> HIDE DEF def
    <3> QED
      BY <1>0, <1>f, <3>1, <3>2 DEF Distinct, Options
  <2> HIDE DEF def
  <2>3. field' \in [Field -> FieldRow] /\ \A g \in Field : Distinct(field'[g]) /\ (g /= r.field => field'[g] = field[g])
    BY <1>0, <1>t, <1>f, <2>1, <2>2
  <2> QED
    BY <1>0, <1>t, <2>1, <2>3, DefinitionWritten
<1>2. CASE StatusWrite(d)
  <2> DEFINE def == [field[r.field] EXCEPT !.status = r.def.status]
  <2>1. /\ field' = IF r.field \in Defined THEN [field EXCEPT ![r.field] = def] ELSE field
        /\ Redefined(r.field) /\ Leave(d) /\ UNCHANGED <<item, value, proOn>>
    BY <1>2 DEF StatusWrite, r
  <2>2. r.field \in Field => def \in FieldRow /\ Distinct(def)
    <3> SUFFICES ASSUME r.field \in Field PROVE def \in FieldRow /\ Distinct(def)
      OBVIOUS
    <3>1. def \in FieldRow
      BY <1>t, <1>f DEF FieldRow
    <3>2. def.options = field[r.field].options
      BY <1>t, <1>f DEF FieldRow
    <3> HIDE DEF def
    <3> QED
      BY <1>0, <1>f, <3>1, <3>2, ZenonT(60) DEF Distinct, Options
  <2> HIDE DEF def
  <2>3. field' \in [Field -> FieldRow] /\ \A g \in Field : Distinct(field'[g]) /\ (g /= r.field => field'[g] = field[g])
    BY <1>0, <1>t, <1>f, <2>1, <2>2
  <2> QED
    BY <1>0, <1>t, <2>1, <2>3, DefinitionWritten
<1>3. CASE DeleteWrite(d)
  <2> DEFINE def == [NoField EXCEPT !.status = "gone"]
  <2>1. /\ field' = [field EXCEPT ![r.field] = def]
        /\ value' = [i \in Item |-> [value[i] EXCEPT ![r.field] = 0]]
        /\ Redefined(r.field) /\ Leave(d) /\ UNCHANGED <<item, proOn>>
    BY <1>3 DEF DeleteWrite, r
  <2>2. def \in FieldRow /\ Distinct(def)
    BY NoFieldRow DEF FieldRow
  <2> HIDE DEF def
  <2>3. field' \in [Field -> FieldRow] /\ \A g \in Field : Distinct(field'[g]) /\ (g /= r.field => field'[g] = field[g])
    BY <1>0, <1>f, <2>1, <2>2
  <2>4. /\ value' \in [Item -> [Field -> Option \cup {0}]]
        /\ \A i \in Item : \A g \in Field : g /= r.field => value'[i][g] = value[i][g]
    BY <1>0, <2>1
  <2> QED
    BY <1>t, <2>1, <2>3, <2>4, DefinitionWritten
<1> QED
  BY <1>1, <1>2, <1>3

\* A request is taken in: one that will write values has been answered for what it read, and
\* knows of every requirement there is.
LEMMA RequestEnters ==
  ASSUME FieldsInv, NEW d \in Desk, NEW r \in DeskRow, Distinct(r.def), Admitted(r), Enter(d, r),
         r.op = "values" => \A f \in Field : field[f].status = "active" /\ field[f].required => f \in Required(r.ctx),
         UNCHANGED <<field, item, value, proOn, vouched>>
  PROVE  FieldsInv'
<1>1. FieldsType' /\ \A e \in Desk : desk'[e] = IF e = d THEN r ELSE desk[e]
  BY DEF FieldsInv, FieldsType, Enter
<1>2. DefinitionsDistinct'
  BY <1>1 DEF FieldsInv, DefinitionsDistinct
<1>3. RequestsAdmitted'
  BY <1>1 DEF FieldsInv, RequestsAdmitted, Admitted
<1>4. VouchedKept'
  <2>1. \A v \in vouched : v[2] \in Field
    BY DEF FieldsInv, FieldsType
  <2> QED
    BY <1>1, <2>1 DEF FieldsInv, VouchedKept
<1> QED
  BY <1>1, <1>2, <1>3, <1>4 DEF FieldsInv

LEMMA DefinitionRequests ==
  ASSUME FieldsInv, NEW d \in Desk, NEW f \in Field,
         \/ \E drop : \E r \in BOOLEAN, dflt \in Option \cup {0} : updateDefinition(d, f, r, dflt, drop)
         \/ \E st \in {"active", "inactive", "archived"} : setStatus(d, f, st)
         \/ deleteDefinition(d, f)
  PROVE  FieldsInv'
<1>0. Free \in DeskRow /\ Free.op = "free" /\ Free.def \in FieldRow /\ Distinct(Free.def) /\ NoField \in FieldRow
  BY FreeRow, NoFieldRow DEF DeskRow
\* A request that carries a definition.
<1>1. ASSUME NEW def \in FieldRow, Distinct(def), NEW op \in {"update", "status", "delete"},
             Enter(d, [Free EXCEPT !.op = op, !.field = f, !.def = def]),
             UNCHANGED <<field, item, value, proOn, vouched>>
      PROVE  FieldsInv'
  <2> DEFINE r == [Free EXCEPT !.op = op, !.field = f, !.def = def]
  <2>1. r \in DeskRow /\ r.op = op /\ r.def = def
    BY <1>0 DEF DeskRow
  <2>2. Enter(d, r)
    BY <1>1
  <2> HIDE DEF r
  <2> QED
    BY <1>1, <2>1, <2>2, RequestEnters DEF Admitted
<1>2. ASSUME NEW r \in BOOLEAN, NEW dflt \in Option \cup {0}, NEW drop, updateDefinition(d, f, r, dflt, drop)
      PROVE  FieldsInv'
  <2> DEFINE opts == [o \in Option |-> IF o \in drop THEN NoOption ELSE field[f].options[o]]
             def  == [field[f] EXCEPT !.required = r, !.default = dflt, !.options = opts]
  <2>1. /\ validateConfigShape(def) /\ Enter(d, [Free EXCEPT !.op = "update", !.field = f, !.def = def])
        /\ UNCHANGED <<field, item, value, proOn, vouched>>
    <3>1. field[f] = [status |-> field[f].status, required |-> field[f].required,
                      options |-> field[f].options, default |-> field[f].default]
      BY DEF FieldsInv, FieldsType, FieldRow
    <3>2. def = [field[f] EXCEPT !.required = r, !.default = dflt,
                    !.options = [o \in Option |-> IF o \in drop THEN NoOption ELSE @[o]]]
      BY <3>1
    <3> QED
      BY <1>2, <3>2, Zenon DEF updateDefinition
  <2>2. opts \in [Option -> OptionRow]
    <3>1. field[f].options \in [Option -> OptionRow] /\ NoOption \in OptionRow
      BY DEF FieldsInv, FieldsType, FieldRow, NoOption, OptionRow
    <3> QED
      BY <3>1
  <2> HIDE DEF opts
  <2>3. def \in FieldRow
    BY <2>2, ZenonT(60) DEF FieldsInv, FieldsType, FieldRow
  <2> HIDE DEF def
  <2>4. Distinct(def)
    BY <2>1 DEF validateConfigShape, Distinct
  <2> QED
    BY <1>1, <2>1, <2>3, <2>4
<1>3. ASSUME NEW st \in {"active", "inactive", "archived"}, setStatus(d, f, st) PROVE FieldsInv'
  <2> DEFINE def == [NoField EXCEPT !.status = st]
  <2>1. Enter(d, [Free EXCEPT !.op = "status", !.field = f, !.def = def]) /\ UNCHANGED <<field, item, value, proOn, vouched>>
    BY <1>3 DEF setStatus
  <2>2. def \in FieldRow /\ def.options = NoField.options
    BY <1>0 DEF FieldRow
  <2> HIDE DEF def
  <2>3. Distinct(def)
    BY <2>2, NoFieldRow DEF Distinct, Options
  <2> QED
    BY <1>1, <2>1, <2>2, <2>3
<1>4. ASSUME deleteDefinition(d, f) PROVE FieldsInv'
  <2>1. /\ Enter(d, [Free EXCEPT !.op = "delete", !.field = f])
        /\ UNCHANGED <<field, item, value, proOn, vouched>>
    BY <1>4 DEF deleteDefinition
  <2> DEFINE r == [Free EXCEPT !.op = "delete", !.field = f]
  <2>2. r \in DeskRow /\ r.op = "delete" /\ r.def = Free.def
    BY <1>0 DEF DeskRow
  <2>3. Enter(d, r)
    BY <2>1
  <2> HIDE DEF r
  <2> QED
    BY <1>0, <2>1, <2>2, <2>3, RequestEnters DEF Admitted
<1> QED
  BY <1>2, <1>3, <1>4

LEMMA setValuesForTestCaseKeeps ==
  ASSUME FieldsInv, NEW d \in Desk, NEW i \in Item, NEW sent \in SUBSET (Field \X (Option \cup {0})), OnePerField(sent),
         setValuesForTestCase(d, i, sent)
  PROVE  FieldsInv'
<1> DEFINE r == [Free EXCEPT !.op = "values", !.item = i, !.sent = sent, !.ctx = loadWriteContext, !.had = Held(i)]
<1>1. /\ proOn /\ item[i] /\ normalizeValues(sent, loadWriteContext, Held(i)) /\ Enter(d, r)
      /\ UNCHANGED <<field, item, value, proOn, vouched>>
  BY DEF setValuesForTestCase
<1>2. /\ loadWriteContext \in SUBSET (Field \X FieldRow) /\ Held(i) \in SUBSET (Field \X (Option \cup {0}))
      /\ \A f \in Field : proOn /\ field[f].status = "active" /\ field[f].required => f \in Required(loadWriteContext)
  BY ContextRows, HeldRows DEF FieldsInv
<1>3. /\ r \in DeskRow /\ r.op = "values" /\ r.item = i /\ r.sent = sent /\ r.ctx = loadWriteContext /\ r.had = Held(i)
      /\ r.def = Free.def
  BY <1>2, FreeRow DEF DeskRow
<1> HIDE DEF r
<1>4. Distinct(r.def) /\ Admitted(r)
  BY <1>1, <1>3, FreeRow DEF Admitted
<1> QED
  BY <1>1, <1>2, <1>3, <1>4, RequestEnters

\* The values of a case are written, and the history vouches for what the write's context required.
LEMMA ValuesWritten ==
  ASSUME FieldsInv, NEW i \in Item, NEW d \in Desk \cup {0},
         NEW ctx \in SUBSET (Field \X FieldRow), vouched' = Vouch(d, i, ctx),
         value' \in [Item -> [Field -> Option \cup {0}]], \A j \in Item : j /= i => value'[j] = value[j],
         item' \in [Item -> BOOLEAN], item'[i], \A j \in Item : item[j] => item'[j],
         \/ d = 0 /\ desk' = desk
         \/ d \in Desk /\ Leave(d),
         \A f \in Required(ctx) : field[f].status = "active" /\ field[f].required => value'[i][f] /= 0,
         UNCHANGED <<field, proOn>>
  PROVE  FieldsInv'
<1>0. 0 \notin Desk
  BY CustomFieldsConstants
<1>r. Required(ctx) \subseteq Field
  BY DEF Required
<1>d. desk' \in [Desk -> DeskRow] /\ \A e \in Desk : desk'[e] = IF e = d THEN Free ELSE desk[e]
  BY <1>0, FreeRow DEF FieldsInv, FieldsType, Leave
<1>1. FieldsType'
  <2>1. vouched' \subseteq Item \X Field
    BY <1>r DEF Vouch, FieldsInv, FieldsType
  <2> QED
    BY <1>d, <2>1 DEF FieldsInv, FieldsType
<1>2. DefinitionsDistinct'
  BY <1>d, FreeRow DEF FieldsInv, DefinitionsDistinct
<1>3. RequestsAdmitted'
  BY <1>d, FreeRow DEF FieldsInv, RequestsAdmitted, Admitted
<1>4. VouchedKept'
  <2> SUFFICES ASSUME NEW v \in vouched'
               PROVE  /\ item'[v[1]] /\ value'[v[1]][v[2]] /= 0
                      /\ field[v[2]].status = "active" /\ field[v[2]].required
                      /\ \A e \in Desk : desk'[e].op = "values" /\ desk'[e].item = v[1] => v[2] \in Required(desk'[e].ctx)
    BY DEF VouchedKept
  <2>1. CASE v \in vouched /\ v[1] /= i
    <3>1. v[1] \in Item /\ v[2] \in Field
      BY <2>1 DEF FieldsInv, FieldsType
    <3> QED
      BY <1>d, <2>1, <3>1, FreeRow DEF FieldsInv, VouchedKept
  <2>2. CASE \E f \in Field : /\ v = <<i, f>> /\ f \in Required(ctx)
                              /\ field[f].status = "active" /\ field[f].required
                              /\ \A e \in Desk \ {d} : desk[e].op = "values" /\ desk[e].item = i
                                                       => f \in Required(desk[e].ctx)
    <3>1. PICK f \in Field : /\ v = <<i, f>> /\ f \in Required(ctx)
                             /\ field[f].status = "active" /\ field[f].required
                             /\ \A e \in Desk \ {d} : desk[e].op = "values" /\ desk[e].item = i
                                                       => f \in Required(desk[e].ctx)
      BY <2>2
    <3>2. v[1] = i /\ v[2] = f
      BY <3>1
    <3>3. value'[i][f] /= 0
      BY <3>1
    <3> QED
      BY <1>d, <3>1, <3>2, <3>3, FreeRow
  <2>3. \/ v \in vouched /\ v[1] /= i
        \/ \E f \in Field : /\ v = <<i, f>> /\ f \in Required(ctx)
                            /\ field[f].status = "active" /\ field[f].required
                            /\ \A e \in Desk \ {d} : desk[e].op = "values" /\ desk[e].item = i
                                                     => f \in Required(desk[e].ctx)
    BY <1>r DEF Vouch
  <2> QED
    BY <2>1, <2>2, <2>3
<1> QED
  BY <1>1, <1>2, <1>3, <1>4 DEF FieldsInv

LEMMA saveTestCaseKeeps ==
  ASSUME FieldsInv, NEW i \in Item, NEW sent \in SUBSET (Field \X (Option \cup {0})), OnePerField(sent),
         saveTestCase(i, sent)
  PROVE  FieldsInv'
<1> DEFINE ctx == loadWriteContext
<1>0. FieldsType /\ item' = [item EXCEPT ![i] = TRUE] /\ UNCHANGED <<field, proOn, desk>>
  BY DEF saveTestCase, FieldsInv
<1>1. item' \in [Item -> BOOLEAN] /\ item'[i] /\ \A j \in Item : item[j] => item'[j]
  BY <1>0 DEF FieldsType
<1>2. CASE proOn
  <2>1. /\ normalizeValues(sent, ctx, Held(i)) /\ SetValues(i, Normalized(sent, ctx, Held(i)))
        /\ vouched' = Vouch(0, i, ctx)
    BY <1>2 DEF saveTestCase
  <2>2. ctx \in SUBSET (Field \X FieldRow) /\ \A h \in Held(i) : h[1] \in Field /\ value[i][h[1]] /= 0
    BY <1>0, ContextRows, HeldRows
  <2> HIDE DEF ctx
  <2> DEFINE written == Normalized(sent, ctx, Held(i))
  <2>3. written \in SUBSET (Field \X (Option \cup {0}))
    BY <2>2, NormalizedRows
  <2>4. /\ value' \in [Item -> [Field -> Option \cup {0}]]
        /\ \A j \in Item : j /= i => value'[j] = value[j]
        /\ \A f \in Field : \/ \E s \in written : s[1] = f /\ value'[i][f] = s[2]
                            \/ (\A s \in written : s[1] /= f) /\ value'[i][f] = value[i][f]
    BY <1>0, <2>1, <2>3, SetRows
  <2>5. ASSUME NEW f \in Required(ctx) PROVE value'[i][f] /= 0
    <3>1. f \in Field
      BY <2>2 DEF Required
    <3>2. /\ \A s \in written : s[1] = f => s[2] /= 0
          /\ (\E s \in written : s[1] = f) \/ (\E h \in Held(i) : h[1] = f)
      BY <2>1, RequiredIsWritten
    <3> HIDE DEF written
    <3> QED
      BY <2>2, <2>4, <3>1, <3>2
  <2> QED
    BY <1>0, <1>1, <2>1, <2>2, <2>4, <2>5, ValuesWritten, ZenonT(60)
<1>3. CASE ~proOn
  <2>1. UNCHANGED <<value, vouched>>
    BY <1>3 DEF saveTestCase
  <2>2. FieldsType'
    BY <1>0, <1>1, <2>1 DEF FieldsType
  <2>3. DefinitionsDistinct'
    BY <1>0 DEF FieldsInv, DefinitionsDistinct
  <2>4. RequestsAdmitted'
    BY <1>0, <1>1 DEF FieldsInv, RequestsAdmitted, Admitted
  <2>5. VouchedKept'
    BY <1>0, <1>1, <2>1 DEF FieldsInv, VouchedKept, FieldsType
  <2> QED
    BY <2>2, <2>3, <2>4, <2>5 DEF FieldsInv
<1> QED
  BY <1>0, <1>2, <1>3 DEF FieldsType

LEMMA setValuesWithContextKeeps ==
  ASSUME FieldsInv, NEW d \in Desk, setValuesWithContext(d)
  PROVE  FieldsInv'
<1> DEFINE r == desk[d]
           i == r.item
           all == Normalized(r.sent, r.ctx, r.had)
           written == {s \in all : s \notin r.had /\ s[1] \in Defined}
           ctx == IF Held(i) = r.had THEN r.ctx ELSE {}
<1>1. /\ r.op = "values" /\ SetValues(i, written) /\ vouched' = Vouch(d, i, ctx) /\ Leave(d)
      /\ UNCHANGED <<field, item, proOn>>
  BY DEF setValuesWithContext
<1>2. r \in DeskRow /\ Admitted(r) /\ FieldsType
  BY DEF FieldsInv, FieldsType, RequestsAdmitted
<1> HIDE DEF r
<1>3. /\ i \in Item /\ item[i] /\ OnePerField(r.sent) /\ normalizeValues(r.sent, r.ctx, r.had)
      /\ r.sent \in SUBSET (Field \X (Option \cup {0})) /\ r.ctx \in SUBSET (Field \X FieldRow)
  BY <1>1, <1>2 DEF Admitted, DeskRow
<1>4. all \in SUBSET (Field \X (Option \cup {0}))
  BY <1>3, NormalizedRows
<1>5. \A f \in Required(r.ctx) : /\ \A s \in all : s[1] = f => s[2] /= 0
                                 /\ (\E s \in all : s[1] = f) \/ (\E h \in r.had : h[1] = f)
  BY <1>3, RequiredIsWritten
<1>6. \A h \in Held(i) : h[1] \in Field /\ value[i][h[1]] /= 0
  BY <1>2, <1>3, HeldRows
<1> HIDE DEF all, i
<1>7. written \in SUBSET (Field \X (Option \cup {0}))
  BY <1>4
<1>8. /\ value' \in [Item -> [Field -> Option \cup {0}]]
      /\ \A j \in Item : j /= i => value'[j] = value[j]
      /\ \A f \in Field : \/ \E s \in written : s[1] = f /\ value'[i][f] = s[2]
                          \/ (\A s \in written : s[1] /= f) /\ value'[i][f] = value[i][f]
  <2> HIDE DEF written
  <2> QED
    BY <1>1, <1>2, <1>3, <1>7, SetRows
<1>9. ASSUME NEW f \in Required(ctx), field[f].status = "active" PROVE value'[i][f] /= 0
  <2>1. Held(i) = r.had /\ f \in Required(r.ctx)
    BY DEF Required
  <2>2. f \in Field /\ f \in Defined
    BY <1>3, <1>9, <2>1 DEF Required, Defined
  <2>3. CASE \E s \in written : s[1] = f /\ value'[i][f] = s[2]
    <3>1. PICK s \in written : s[1] = f /\ value'[i][f] = s[2]
      BY <2>3
    <3>2. s \in all
      BY <3>1
    <3>3. s[1] = f => s[2] /= 0
      BY <1>5, <2>1, <3>2
    <3> QED
      BY <3>1, <3>3
  <2>4. CASE (\A s \in written : s[1] /= f) /\ value'[i][f] = value[i][f]
    <3>1. \A s \in all : s[1] = f => s \in r.had
      BY <2>2, <2>4
    <3>2. \E h \in Held(i) : h[1] = f
      BY <1>5, <2>1, <3>1
    <3> QED
      BY <1>6, <2>4, <3>2
  <2> QED
    BY <1>8, <2>2, <2>3, <2>4
<1>10. ctx \in SUBSET (Field \X FieldRow)
  BY <1>3
<1>11. item' \in [Item -> BOOLEAN] /\ item'[i] /\ \A j \in Item : item[j] => item'[j]
  BY <1>1, <1>2, <1>3 DEF FieldsType
<1> HIDE DEF ctx, written
<1> QED
  BY <1>1, <1>3, <1>8, <1>9, <1>10, <1>11, ValuesWritten

LEMMA copyValuesKeeps ==
  ASSUME FieldsInv, NEW i \in Item, NEW j \in Item, copyValues(i, j)
  PROVE  FieldsInv'
<1>1. /\ ~item[j] /\ item' = [item EXCEPT ![j] = TRUE] /\ value' = [value EXCEPT ![j] = value[i]]
      /\ UNCHANGED <<field, proOn, desk, vouched>>
  BY DEF copyValues
<1>2. FieldsType'
  BY <1>1 DEF FieldsInv, FieldsType
<1>3. DefinitionsDistinct'
  BY <1>1 DEF FieldsInv, DefinitionsDistinct
<1>4. RequestsAdmitted'
  BY <1>1 DEF FieldsInv, FieldsType, RequestsAdmitted, Admitted
<1>5. VouchedKept'
  <2>1. \A v \in vouched : v[1] \in Item /\ v[1] /= j
    BY <1>1 DEF FieldsInv, FieldsType, VouchedKept
  <2> QED
    BY <1>1, <2>1 DEF FieldsInv, FieldsType, VouchedKept
<1> QED
  BY <1>2, <1>3, <1>4, <1>5 DEF FieldsInv

-----------------------------------------------------------------------------
LEMMA NextFields == FieldsInv /\ [CustomFieldsNext]_cfVars => FieldsInv'
<1> SUFFICES ASSUME FieldsInv, [CustomFieldsNext]_cfVars PROVE FieldsInv'
  OBVIOUS
<1>1. CASE UNCHANGED <<field, item, value, desk, vouched>> /\ proOn' \in BOOLEAN
  BY <1>1 DEF FieldsInv, FieldsType, DefinitionsDistinct, RequestsAdmitted, Admitted, VouchedKept
<1>2. CASE UNCHANGED cfVars
  BY <1>1, <1>2 DEF cfVars, FieldsInv, FieldsType
<1>3. CASE TogglePlan
  BY <1>1, <1>3 DEF TogglePlan
<1>4. \A s \in Sendable : s \in SUBSET (Field \X (Option \cup {0})) /\ OnePerField(s)
  BY DEF Sendable, OnePerField
<1>5. CASE \E i \in Item, s \in Sendable : saveTestCase(i, s)
  BY <1>4, <1>5, saveTestCaseKeeps
<1>6. CASE \E d \in Desk : \E i \in Item, f \in Field, o \in Option \cup {0} : setValuesForTestCase(d, i, {<<f, o>>})
  <2>1. PICK d \in Desk, i \in Item, f \in Field, o \in Option \cup {0} : setValuesForTestCase(d, i, {<<f, o>>})
    BY <1>6
  <2> DEFINE s == {<<f, o>>}
  <2>2. s \in SUBSET (Field \X (Option \cup {0})) /\ OnePerField(s)
    BY DEF OnePerField
  <2>3. setValuesForTestCase(d, i, s)
    BY <2>1
  <2> HIDE DEF s
  <2> QED
    BY <2>2, <2>3, setValuesForTestCaseKeeps
<1>7. CASE \E f \in Field, l \in Label, r, dflt \in BOOLEAN : createDefinition(f, l, r, dflt)
  BY <1>7, createDefinitionKeeps
<1>8. CASE \E f \in Field, l \in Label : addOption(f, l)
  BY <1>8, addOptionKeeps
<1>9. CASE \E f \in Field, o \in Option : setOptionActive(f, o)
  BY <1>9, setOptionActiveKeeps
<1>10. CASE \E i, j \in Item : copyValues(i, j)
  BY <1>10, copyValuesKeeps
<1>11. ASSUME NEW d \in Desk,
             \/ \E f \in Field, r \in BOOLEAN, dflt \in Option \cup {0}, drop \in {{}} \cup {{o} : o \in Option} :
                  updateDefinition(d, f, r, dflt, drop)
             \/ \E f \in Field, st \in {"active", "inactive", "archived"} : setStatus(d, f, st)
             \/ \E f \in Field : deleteDefinition(d, f)
       PROVE FieldsInv'
  BY <1>11, DefinitionRequests
<1>12. ASSUME NEW d \in Desk, UpdateWrite(d) \/ StatusWrite(d) \/ DeleteWrite(d) \/ setValuesWithContext(d)
       PROVE  FieldsInv'
  BY <1>12, DefinitionWrites, setValuesWithContextKeeps
<1>13. CASE \E d \in Desk :
             \/ \E f \in Field, r \in BOOLEAN, dflt \in Option \cup {0}, drop \in {{}} \cup {{o} : o \in Option} :
                  updateDefinition(d, f, r, dflt, drop)
             \/ \E f \in Field, st \in {"active", "inactive", "archived"} : setStatus(d, f, st)
             \/ \E f \in Field : deleteDefinition(d, f)
             \/ \E i \in Item, f \in Field, o \in Option \cup {0} : setValuesForTestCase(d, i, {<<f, o>>})
             \/ UpdateWrite(d) \/ StatusWrite(d) \/ DeleteWrite(d) \/ setValuesWithContext(d)
  BY <1>6, <1>11, <1>12, <1>13, Zenon
<1>14. CustomFieldsNext \/ UNCHANGED cfVars
  OBVIOUS
<1> QED
  BY <1>2, <1>3, <1>5, <1>7, <1>8, <1>9, <1>10, <1>13, <1>14, ZenonT(60) DEF CustomFieldsNext

LEMMA FieldsInvSound == FieldsInv => OptionLabelsDistinct /\ RequiredStaysFilled /\ FiltersSplit
<1> SUFFICES ASSUME FieldsInv PROVE OptionLabelsDistinct /\ RequiredStaysFilled /\ FiltersSplit
  OBVIOUS
<1>1. OptionLabelsDistinct
  BY DEF FieldsInv, DefinitionsDistinct, Distinct, OptionLabelsDistinct
<1>2. RequiredStaysFilled
  BY DEF FieldsInv, VouchedKept, RequiredStaysFilled
<1>3. FiltersSplit
  <2> SUFFICES ASSUME NEW f \in Field, NEW o \in Option, NEW i \in Item
               PROVE  /\ buildOperatorClause("is", value[i][f], o) <=> ~buildOperatorClause("is_not", value[i][f], o)
                      /\ buildOperatorClause("is_empty", value[i][f], o) <=> ~buildOperatorClause("is_not_empty", value[i][f], o)
    BY SMTT(60) DEF FiltersSplit, Filtered
  <2> QED
    BY CustomFieldsConstants DEF buildOperatorClause
<1> QED
  BY <1>1, <1>2, <1>3

LEMMA FieldsSteps == [MCNext]_workspaceVars /\ area = "fields" => [CustomFieldsNext]_cfVars
BY StillIn, SMTT(60) DEF MCNext, workspaceVars

\* The labels of a field stay distinct under writes of a list read before, a required field of a
\* saved case keeps a value, and the filters split the cases.
THEOREM FieldsInTheWorkspace == MCSpec => []FieldsSound
<1> DEFINE Inv == area = "fields" => FieldsInv
<1>1. MCInit => Inv
  BY InitFields DEF MCInit
<1>2. Inv /\ [MCNext]_workspaceVars => Inv'
  BY AreaStays, FieldsSteps, NextFields
<1>3. Inv => FieldsSound
  BY FieldsInvSound DEF FieldsSound
<1> QED
  BY <1>1, <1>2, <1>3, PTL DEF MCSpec, workspaceVars

LEMMA ReporterSteps == [MCNext]_workspaceVars /\ area = "reporter" => [ReporterNext]_reporterVars
BY StillIn, SMTT(60) DEF MCNext, workspaceVars

\* The reporter owns up to every loss, opens one run per CI session and never breaks a suite.
THEOREM ReporterInTheWorkspace == MCSpec => []ReporterHolds
<1> DEFINE Inv == area = "reporter" => ReporterInv
<1>1. MCInit => Inv
  BY InitReporter DEF MCInit
<1>2. Inv /\ [MCNext]_workspaceVars => Inv'
  BY AreaStays, ReporterSteps, NextReporter
<1>3. Inv => ReporterHolds
  BY ReporterInvHonest DEF ReporterHolds
<1> QED
  BY <1>1, <1>2, <1>3, PTL DEF MCSpec, workspaceVars

LEMMA KnowledgeSteps == [MCNext]_workspaceVars /\ area = "knowledge" => [KnowledgeNext]_kbVars
BY StillIn, SMTT(60) DEF MCNext, workspaceVars

\* Whatever moves, deletions, restorations and stale writes overlap in the whole workspace, what
\* the Knowledge Base was given is kept and found.
THEOREM KnowledgeInTheWorkspace == MCSpec => []KnowledgeHolds
<1> DEFINE Inv == area = "knowledge" => KnowledgeInv
<1>1. MCInit => Inv
  BY InitKnowledge DEF MCInit
<1>2. Inv /\ [MCNext]_workspaceVars => Inv'
  BY AreaStays, KnowledgeSteps, NextKnowledge
<1>3. Inv => KnowledgeHolds
  BY KnowledgeInvKept DEF KnowledgeHolds
<1> QED
  BY <1>1, <1>2, <1>3, PTL DEF MCSpec, workspaceVars

LEMMA ColumnSteps == [MCNext]_workspaceVars /\ area = "columns" => [ColumnsNext]_tcVars
BY StillIn, SMTT(60) DEF MCNext, workspaceVars

\* The columns of the repository table, lost and doubled by no drag, no reload and no preferences
\* of an older version, in the whole workspace.
THEOREM ColumnsInTheWorkspace == MCSpec => []ColumnsHold
<1> DEFINE Inv == area = "columns" => ColumnInv
<1>1. MCInit => Inv
  BY InitColumns DEF MCInit
<1>2. Inv /\ [MCNext]_workspaceVars => Inv'
  BY AreaStays, ColumnSteps, NextColumns
<1>3. Inv => ColumnsHold
  BY ColumnInvKept DEF ColumnsHold
<1> QED
  BY <1>1, <1>2, <1>3, PTL DEF MCSpec, workspaceVars

LEMMA GateSteps == [MCNext]_workspaceVars /\ area = "http" => [HttpNext]_httpVars
BY StillIn, SMTT(60) DEF MCNext, workspaceVars

\* A token acts in its own project and a locked project is changed by none of its routes, in the
\* whole workspace.
THEOREM GateInTheWorkspace == MCSpec => [](area = "http" => TokensStayHome /\ LockedStaysReadable)
<1> DEFINE Inv == area = "http" => GateInv
<1>1. MCInit => Inv
  BY InitGate DEF MCInit
<1>2. Inv /\ [MCNext]_workspaceVars => Inv'
  BY AreaStays, GateSteps, NextGate
<1>3. Inv => (area = "http" => TokensStayHome /\ LockedStaysReadable)
  BY GateInvHolds
<1> QED
  BY <1>1, <1>2, <1>3, PTL DEF MCSpec, workspaceVars

LEMMA ScreenSteps == [MCNext]_workspaceVars /\ area = "screens" => [ScreensNext]_screenVars
BY StillIn, SMTT(60) DEF MCNext, workspaceVars

\* On every screen, whatever is clicked while answers are under way and in whichever order they
\* come or fail: nothing is created twice by a second click, no busy flag stays up, what was
\* written is shown, no answer closes a dialog opened after it, and no form is sent again after
\* its row was made, but for the handlers the code leaves unguarded, listed by name.
THEOREM ScreensInTheWorkspace == MCSpec => []ScreensHold
<1> DEFINE Inv == area = "screens" => WorkInv(screen, view, sjob)
<1>1. MCInit => Inv
  BY WorkInit DEF MCInit
<1>2. Inv /\ [MCNext]_workspaceVars => Inv'
  BY AreaStays, ScreenSteps, WorkKept
<1>3. Inv => ScreensHold
  BY WorkIsSound DEF ScreensHold
<1> QED
  BY <1>1, <1>2, <1>3, PTL DEF MCSpec, workspaceVars
=============================================================================
