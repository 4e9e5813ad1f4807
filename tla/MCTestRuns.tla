----------------------------- MODULE MCTestRuns -----------------------------
(* TestRuns with its reports on a small instance: two cases, one of them in a *)
(* suite, and two runs.                                                       *)
EXTENDS Reports

CONSTANTS c1, c2, p1, b1

MCSuiteOf == [c \in Case |-> IF c = c1 THEN 1 ELSE None]

\* Slots are alike, so that of the two handlers' slots only the set matters.
MCView == <<rows, {slot[s] : s \in Slot}, requests, owed>>
=============================================================================
