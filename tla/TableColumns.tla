----------------------------- MODULE TableColumns -----------------------------
(***************************************************************************)
(* The columns of the repository table: their order and which are shown,   *)
(* kept in the browser's storage.  The table is unmounted whenever the list *)
(* loads and starts from the defaults; the stored preferences come in a      *)
(* later task, so for a moment the defaults are what the table holds.        *)
(***************************************************************************)
EXTENDS Integers, Sequences, SequencesExt, FiniteSets

CONSTANTS
  Column,      \* the data columns, numbered in their default order
  Locked,      \* LOCKED_COLUMN_IDS
  Unshown,     \* the columns that DEFAULT_VISIBLE hides
  OldPrefs,    \* what an older version may have stored
  MaxDrags     \* bound: drags and toggles

ASSUME ColumnAssumption ==
  /\ Column \subseteq Nat \ {0} /\ IsFiniteSet(Column)
  /\ Locked \subseteq Column /\ Unshown \cap Locked = {}
  /\ \A p \in OldPrefs : /\ p.order \in Seq(Nat)
                         /\ \A c \in Column \cap DOMAIN p.visible : p.visible[c] \in BOOLEAN

VARIABLES
  disk,        \* what the storage holds
  table,       \* the hooks of the mounted table
  arranged,    \* history: the columns as the user last saw them
  drags

tcVars == <<disk, table, arranged, drags>>

\* The columns by their places.
Rank(place, c)  == Cardinality({d \in Column : place[d] <= place[c]})
ByPlace(place)  == [i \in 1 .. Cardinality(Column) |-> CHOOSE c \in Column : Rank(place, c) = i]
indexOf(seq, c) == CHOOSE i \in DOMAIN seq : seq[i] = c /\ \A k \in 1 .. i - 1 : seq[k] /= c

DEFAULT_DATA_ORDER == ByPlace([c \in Column |-> c])
DEFAULT_VISIBLE    == [c \in Column |-> c \notin Unshown]
Prefs(order, visible) == [order |-> order, visible |-> visible]
Defaults == Prefs(DEFAULT_DATA_ORDER, DEFAULT_VISIBLE)

\* Known columns in stored order, each once, and the missing ones behind them.
normalizeDataOrder(raw) ==
  ByPlace([c \in Column |-> IF c \in ToSet(raw) THEN indexOf(raw, c) ELSE Len(raw) + c])

normalizeVisible(raw) == [c \in Column |-> c \in Locked \/ (IF c \in DOMAIN raw THEN raw[c] ELSE DEFAULT_VISIBLE[c])]

\* An empty order stands for an empty storage.
loadPrefs ==
  IF disk.order = <<>> THEN Defaults
  ELSE Prefs(normalizeDataOrder(disk.order), normalizeVisible(disk.visible))

Hooks(mounted, ready, p) == [mounted |-> mounted, ready |-> ready, order |-> p.order, visible |-> p.visible]

\* Mutant: the defaults of a fresh mount are written too.
SavedAlways(t) == Prefs(t.order, t.visible)

\* The effect that stores every change, once the preferences have been read.
Saved(t) == IF t.ready THEN Prefs(t.order, t.visible) ELSE disk

ColumnsInit ==
  /\ disk \in {Prefs(<<>>, DEFAULT_VISIBLE)} \cup OldPrefs
  /\ table = Hooks(FALSE, FALSE, Defaults)
  /\ arranged = loadPrefs
  /\ drags = 0

Mount ==
  /\ ~table.mounted
  /\ table' = Hooks(TRUE, FALSE, Defaults)
  /\ disk' = Saved(table')
  /\ UNCHANGED <<arranged, drags>>

PrefsArrive ==
  /\ table.mounted /\ ~table.ready
  /\ table' = Hooks(TRUE, TRUE, loadPrefs)
  /\ disk' = Saved(table')
  /\ UNCHANGED <<arranged, drags>>

\* The list is loading again: the table goes, before or after its preferences came.
Unmount ==
  /\ table.mounted
  /\ table' = Hooks(FALSE, FALSE, Defaults)
  /\ UNCHANGED <<disk, arranged, drags>>

\* splice out at i, in at j: the dragged column takes the place of the one it is dropped on.
Moved(order, from, to) ==
  LET i == indexOf(order, from)
      j == indexOf(order, to)
  IN  [k \in DOMAIN order |-> IF k = j THEN from ELSE IF i <= k /\ k < j THEN order[k + 1]
                              ELSE IF j < k /\ k <= i THEN order[k - 1] ELSE order[k]]

\* Nobody can drag within the task between the mount and the preferences.
Arrange(t) ==
  /\ table.ready /\ drags < MaxDrags
  /\ table' = t
  /\ disk' = Saved(t)
  /\ arranged' = Prefs(t.order, t.visible)
  /\ drags' = drags + 1

moveColumn(from, to) == from /= to /\ Arrange([table EXCEPT !.order = Moved(@, from, to)])
toggleColumnVisible(c) == c \notin Locked /\ Arrange([table EXCEPT !.visible[c] = ~@])

ColumnsNext ==
  \/ Mount \/ PrefsArrive \/ Unmount
  \/ \E from, to \in Column : moveColumn(from, to)
  \/ \E c \in Column : toggleColumnVisible(c)

ColumnsSpec == ColumnsInit /\ [][ColumnsNext]_tcVars

-----------------------------------------------------------------------------
\* No column is lost or doubled and the locked ones are shown, whatever an older version
\* stored and however columns are dragged (normalizeDataOrder, moveColumn); and what the
\* user arranged is there again after every reload of the list: no mount overwrites it.
ColumnsKept ==
  /\ Len(table.order) = Cardinality(Column) /\ ToSet(table.order) = Column
  /\ table.ready => table.visible = arranged.visible /\ table.order = arranged.order
  /\ table.ready => \A c \in Locked : table.visible[c]
  /\ loadPrefs = arranged
=============================================================================
