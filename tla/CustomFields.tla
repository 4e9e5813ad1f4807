---------------------------- MODULE CustomFields ----------------------------
(***************************************************************************)
(* Custom fields of test cases (CustomFieldsService): definitions with      *)
(* their options, the values that test cases hold, and the filters over     *)
(* them.                                                                    *)
(*                                                                         *)
(* Fields are single selects, the type whose admissible values other        *)
(* requests change; the other types check a value against a constant        *)
(* configuration.  A handler that reads before it writes outside of a       *)
(* transaction that locks the row is two steps.  Saving a test case         *)
(* (createTestCase, updateTestCase) holds the row's lock from its UPDATE to  *)
(* its commit; the endpoint for values alone holds none.                    *)
(***************************************************************************)
EXTENDS Naturals, FiniteSets

CONSTANTS
  Field, Item,     \* ids of custom_field_definitions and of testcases
  Label,           \* option labels, case-folded
  Option,          \* option ids, an initial segment of 1, 2, ...
  Desk,            \* requests that may be in flight at once
  MaxAsks          \* requests ever made

ASSUME CustomFieldsConstants ==
  /\ Option \subseteq Nat \ {0} /\ Desk \subseteq Nat \ {0} /\ MaxAsks \in Nat
  /\ "" \notin Label

VARIABLES
  field,      \* definitions: status, required, options (label and whether active), default
  item,       \* whether the test case exists
  value,      \* custom_field_values: an option id, or 0 for no row
  proOn,      \* the plan has custom fields enabled
  desk,       \* requests in flight
  asks,       \* requests made so far
  vouched     \* history: the last save of the case saw the field required, as it still is

cfVars == <<field, item, value, proOn, desk, asks, vouched>>

NoOption == [label |-> "", active |-> FALSE]
NoField  == [status |-> "none", required |-> FALSE, options |-> [o \in Option |-> NoOption],
             default |-> 0]
Free     == [op |-> "free", field |-> 0, item |-> 0, def |-> NoField, sent |-> {}, ctx |-> {},
             had |-> {}]

CustomFieldsInit ==
  /\ field = [f \in Field |-> NoField]
  /\ item = [i \in Item |-> FALSE]
  /\ value = [i \in Item |-> [f \in Field |-> 0]]
  /\ proOn = TRUE
  /\ desk = [d \in Desk |-> Free]
  /\ asks = 0
  /\ vouched = {}

Defined == {f \in Field : field[f].status \notin {"none", "gone"}}
Options(def) == {o \in Option : def.options[o].label /= ""}
Active(def)  == {o \in Option : def.options[o].active}

Ask == asks < MaxAsks /\ asks' = asks + 1
Enter(d, r) ==
  /\ Ask
  /\ desk[d].op = "free"
  /\ \A e \in Desk : e < d => desk[e].op /= "free"
  /\ desk' = [desk EXCEPT ![d] = r]
Leave(d) == desk' = [desk EXCEPT ![d] = Free]

\* What a change of the definition takes back from the history.
Redefined(f) == vouched' = {v \in vouched : v[2] /= f}

-----------------------------------------------------------------------------
(* Definitions; requireConfigAccess wants the plan, and a role above QA engineer *)

requireConfigAccess == proOn

\* The plan changes under the service (Billing).
TogglePlan ==
  /\ Ask /\ proOn' = ~proOn
  /\ UNCHANGED <<field, item, value, desk, vouched>>

\* At least one option, distinct labels, an active default.
validateConfigShape(def) ==
  /\ Options(def) /= {}
  /\ \A o, p \in Options(def) : o /= p => def.options[o].label /= def.options[p].label
  /\ def.default \in Active(def) \cup {0}

createDefinition(f, label, required, default) ==
  LET o   == CHOOSE x \in Option : \A y \in Option : x <= y
      def == [status |-> "active", required |-> required, default |-> IF default THEN o ELSE 0,
              options |-> [x \in Option |-> IF x = o THEN [label |-> label, active |-> TRUE] ELSE NoOption]]
  IN
  /\ Ask /\ requireConfigAccess
  /\ field[f].status = "none"
  /\ validateConfigShape(def)
  /\ field' = [field EXCEPT ![f] = def]
  /\ UNCHANGED <<item, value, proOn, desk, vouched>>

\* The row is read without a lock; the merged config is validated and written whole.
updateDefinition(d, f, required, default, dropped) ==
  LET def == [field[f] EXCEPT !.required = required, !.default = default,
                              !.options = [o \in Option |-> IF o \in dropped THEN NoOption ELSE @[o]]]
  IN
  /\ requireConfigAccess /\ f \in Defined
  /\ field[f].status /= "archived"
  /\ validateConfigShape(def) /\ def /= field[f]
  /\ Enter(d, [Free EXCEPT !.op = "update", !.field = f, !.def = def])
  /\ UNCHANGED <<field, item, value, proOn, vouched>>

\* The UPDATE leaves the status alone.
UpdateWrite(d) ==
  LET r == desk[d] IN
  /\ r.op = "update"
  /\ field' = IF r.field \in Defined
              THEN [field EXCEPT ![r.field] = [r.def EXCEPT !.status = field[r.field].status]] ELSE field
  /\ Redefined(r.field) /\ Leave(d)
  /\ UNCHANGED <<item, value, proOn, asks>>

\* SELECT ... FOR UPDATE and the write in one transaction.
\* Mutant: the labels there are not looked at.
NewLabelAny(def, label) == TRUE

NewLabel(def, label) == \A o \in Options(def) : def.options[o].label /= label

addOption(f, label) ==
  LET o == CHOOSE x \in Option \ Options(field[f]) : \A y \in Option \ Options(field[f]) : x <= y
  IN
  /\ Ask /\ requireConfigAccess
  /\ f \in Defined /\ field[f].status /= "archived"
  /\ Option \ Options(field[f]) /= {}
  /\ NewLabel(field[f], label)
  /\ field' = [field EXCEPT ![f].options[o] = [label |-> label, active |-> TRUE]]
  /\ UNCHANGED <<item, value, proOn, desk, vouched>>

\* The default is not looked at: it may name an option that is no longer active.
setOptionActive(f, o) ==
  /\ Ask /\ requireConfigAccess
  /\ f \in Defined /\ field[f].status /= "archived"
  /\ o \in Options(field[f])
  /\ field' = [field EXCEPT ![f].options[o].active = ~@]
  /\ UNCHANGED <<item, value, proOn, desk, vouched>>

setStatus(d, f, status) ==
  /\ requireConfigAccess /\ f \in Defined
  /\ field[f].status \notin {"archived", status}
  /\ Enter(d, [Free EXCEPT !.op = "status", !.field = f, !.def = [NoField EXCEPT !.status = status]])
  /\ UNCHANGED <<field, item, value, proOn, vouched>>

StatusWrite(d) ==
  LET r == desk[d] IN
  /\ r.op = "status"
  /\ field' = IF r.field \in Defined THEN [field EXCEPT ![r.field].status = r.def.status] ELSE field
  /\ Redefined(r.field) /\ Leave(d)
  /\ UNCHANGED <<item, value, proOn, asks>>

\* isUsed is read first; values written meanwhile go with the cascade.
deleteDefinition(d, f) ==
  /\ requireConfigAccess /\ f \in Defined
  /\ \A i \in Item : value[i][f] = 0
  /\ Enter(d, [Free EXCEPT !.op = "delete", !.field = f])
  /\ UNCHANGED <<field, item, value, proOn, vouched>>

DeleteWrite(d) ==
  LET f == desk[d].field IN
  /\ desk[d].op = "delete"
  /\ field' = [field EXCEPT ![f] = [NoField EXCEPT !.status = "gone"]]
  /\ value' = [i \in Item |-> [value[i] EXCEPT ![f] = 0]]
  /\ Redefined(f) /\ Leave(d)
  /\ UNCHANGED <<item, proOn, asks>>

-----------------------------------------------------------------------------
(* Values: sent is the set of <<field, option or 0>> a request carries *)

\* loadWriteContext: the definitions as <<field, definition>>; nothing when the plan has
\* custom fields off.
loadWriteContext == IF proOn THEN {<<f, field[f]>> : f \in Defined} ELSE {}

\* Mutant: only the fields that were sent can be missing.
normalizeValuesOfSent(sent, ctx, had) ==
  /\ \A s \in sent : \E c \in ctx : c[1] = s[1] /\ c[2].status /= "archived"
                                    /\ (s[2] = 0 \/ s[2] \in Active(c[2]))
  /\ \A c \in ctx : c[2].status = "active" /\ c[2].required => <<c[1], 0>> \notin sent

\* A known field that is not archived, an active option, and a value for every required
\* field: sent, held already, or the default.
normalizeValues(sent, ctx, had) ==
  /\ \A s \in sent : \E c \in ctx : c[1] = s[1] /\ c[2].status /= "archived"
                                    /\ (s[2] = 0 \/ s[2] \in Active(c[2]))
  /\ \A c \in ctx : c[2].status = "active" /\ c[2].required =>
       \/ \E s \in sent : s[1] = c[1] /\ s[2] /= 0
       \/ /\ \A s \in sent : s[1] /= c[1]
          /\ (\E h \in had : h[1] = c[1]) \/ c[2].default /= 0

Held(i) == {<<f, value[i][f]>> : f \in {g \in Field : value[i][g] /= 0}}

\* The values written: those sent, and the defaults of active fields neither sent nor held.
Normalized(sent, ctx, had) ==
  sent \cup {<<c[1], c[2].default>> :
             c \in {x \in ctx : /\ x[2].status = "active" /\ x[2].default /= 0
                                /\ \A s \in sent \cup had : s[1] /= x[1]}}

Required(ctx) == {c[1] : c \in {x \in ctx : x[2].status = "active" /\ x[2].required}}

\* The write vouches for the fields its context requires, unless a request that does not know
\* of the requirement is still about to write the case.
Vouch(d, i, ctx) ==
  {v \in vouched : v[1] /= i} \cup
  {<<i, f>> : f \in {g \in Required(ctx) :
                     /\ field[g].status = "active" /\ field[g].required
                     /\ \A e \in Desk \ {d} : desk[e].op = "values" /\ desk[e].item = i
                                              => g \in Required(desk[e].ctx)}}

SetValues(i, written) ==
  value' = [value EXCEPT ![i] = [f \in Field |->
              IF \E s \in written : s[1] = f THEN (CHOOSE s \in written : s[1] = f)[2] ELSE @[f]]]

\* createTestCase and updateTestCase: in the transaction that inserts the row or holds its
\* lock; a violated foreign key or a refused value rolls the save back.
saveTestCase(i, sent) ==
  LET ctx == loadWriteContext IN
  /\ Ask
  /\ normalizeValues(sent, ctx, Held(i)) \/ ~proOn
  /\ item' = [item EXCEPT ![i] = TRUE]
  /\ IF proOn THEN SetValues(i, Normalized(sent, ctx, Held(i))) /\ vouched' = Vouch(0, i, ctx)
              ELSE UNCHANGED <<value, vouched>>
  /\ item'[i] /= item[i] \/ value' /= value
  /\ UNCHANGED <<field, proOn, desk>>

\* PUT .../custom-field-values: the definitions and the values held are read first.
setValuesForTestCase(d, i, sent) ==
  LET ctx == loadWriteContext IN
  /\ proOn /\ item[i]
  /\ normalizeValues(sent, ctx, Held(i))
  /\ Enter(d, [Free EXCEPT !.op = "values", !.item = i, !.sent = sent, !.ctx = ctx, !.had = Held(i)])
  /\ UNCHANGED <<field, item, value, proOn, vouched>>

\* Each changed value is a statement of its own; one whose definition is gone fails, and
\* here there is one such statement for each field.  A value equal to the one read is not
\* written, so a request vouches for nothing when the values have changed since it read them.
setValuesWithContext(d) ==
  LET r == desk[d]
      written == {s \in Normalized(r.sent, r.ctx, r.had) : s \notin r.had /\ s[1] \in Defined}
  IN
  /\ r.op = "values"
  /\ SetValues(r.item, written)
  /\ vouched' = Vouch(d, r.item, IF Held(r.item) = r.had THEN r.ctx ELSE {}) /\ Leave(d)
  /\ UNCHANGED <<field, item, proOn, asks>>

\* duplicateTestCase: every value is copied, whatever its definition's status.
copyValues(i, j) ==
  /\ Ask /\ item[i] /\ ~item[j]
  /\ item' = [item EXCEPT ![j] = TRUE]
  /\ value' = [value EXCEPT ![j] = value[i]]
  /\ UNCHANGED <<field, proOn, desk, vouched>>

-----------------------------------------------------------------------------
(* Filters of the repository table; 0 is a missing row of the LEFT JOIN *)

\* Mutant: a case without a value is not "something else".
buildOperatorClauseStrict(op, v, x) ==
  CASE op = "is_empty" -> v = 0 [] op = "is_not_empty" -> v /= 0
    [] op = "is" -> v = x      [] op = "is_not" -> v /= 0 /\ v /= x

buildOperatorClause(op, v, x) ==
  CASE op = "is_empty" -> v = 0 [] op = "is_not_empty" -> v /= 0
    [] op = "is" -> v = x      [] op = "is_not" -> v = 0 \/ v /= x

Filtered(f, op, x) == {i \in Item : item[i] /\ buildOperatorClause(op, value[i][f], x)}

-----------------------------------------------------------------------------
\* A save carries at most one value here.
Sendable == {{}} \cup {{<<f, o>>} : f \in Field, o \in Option \cup {0}}

CustomFieldsNext ==
  \/ TogglePlan
  \/ \E f \in Field, l \in Label, r, dflt \in BOOLEAN : createDefinition(f, l, r, dflt)
  \/ \E f \in Field, l \in Label : addOption(f, l)
  \/ \E f \in Field, o \in Option : setOptionActive(f, o)
  \/ \E i \in Item, s \in Sendable : saveTestCase(i, s)
  \/ \E i, j \in Item : copyValues(i, j)
  \/ \E d \in Desk :
       \/ \E f \in Field, r \in BOOLEAN, dflt \in Option \cup {0}, drop \in {{}} \cup {{o} : o \in Option} :
            updateDefinition(d, f, r, dflt, drop)
       \/ \E f \in Field, st \in {"active", "inactive", "archived"} : setStatus(d, f, st)
       \/ \E f \in Field : deleteDefinition(d, f)
       \/ \E i \in Item, f \in Field, o \in Option \cup {0} : setValuesForTestCase(d, i, {<<f, o>>})
       \/ UpdateWrite(d) \/ StatusWrite(d) \/ DeleteWrite(d) \/ setValuesWithContext(d)

CustomFieldsSpec == CustomFieldsInit /\ [][CustomFieldsNext]_cfVars

-----------------------------------------------------------------------------
\* Labels of a field's options stay distinct, though addOption changes the options under a
\* row lock while updateDefinition writes back a list it read without one.
OptionLabelsDistinct ==
  \A f \in Field : \A o, p \in Options(field[f]) :
    o /= p => field[f].options[o].label /= field[f].options[p].label

\* A case whose last save saw a required field has a value for it for as long as the field
\* stays as it was: no save that sends other fields, no concurrent request for values and no
\* duplicate leaves it empty (normalizeValues, setValuesWithContext).
RequiredStaysFilled ==
  \A v \in vouched : field[v[2]].status = "active" /\ field[v[2]].required => value[v[1]][v[2]] /= 0

\* "is" and "is not", "is empty" and "is not empty" split the cases: a case without a value
\* is found by the negations (buildOperatorClause).
FiltersSplit ==
  \A f \in Field, o \in Option : \A pair \in {<<"is", "is_not">>, <<"is_empty", "is_not_empty">>} :
    /\ Filtered(f, pair[1], o) \cap Filtered(f, pair[2], o) = {}
    /\ Filtered(f, pair[1], o) \cup Filtered(f, pair[2], o) = {i \in Item : item[i]}
=============================================================================
