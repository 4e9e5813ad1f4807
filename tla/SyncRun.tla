------------------------------- MODULE SyncRun -------------------------------
(***************************************************************************)
(* What a sync run promises, without jobs, counters or pages: at most one  *)
(* run is in flight; a run finds some tickets; each of them lands once,    *)
(* well or badly; the run settles when all have landed and its final       *)
(* status says whether one landed badly; a run may also be given up.       *)
(* IntegrationSync implements this as long as nothing crashes.             *)
(***************************************************************************)
EXTENDS Integers

CONSTANTS Run, Ticket

VARIABLES status,  \* of each run
          found,   \* tickets the run has to land
          well,    \* tickets that landed well
          badly    \* tickets that landed badly

vars == <<status, found, well, badly>>

InFlight == {"queued", "running"}

Init ==
  /\ status = [r \in Run |-> "absent"]
  /\ found = [r \in Run |-> {}]
  /\ well = [r \in Run |-> {}]
  /\ badly = [r \in Run |-> {}]

Insert(r) ==
  /\ status[r] = "absent"
  /\ \A s \in Run : status[s] \notin InFlight
  /\ status' = [status EXCEPT ![r] = "queued"]
  /\ UNCHANGED <<found, well, badly>>

Begin(r) ==
  /\ status[r] = "queued"
  /\ status' = [status EXCEPT ![r] = "running"]
  /\ UNCHANGED <<found, well, badly>>

Find(r, S) ==
  /\ status[r] = "running"
  /\ found[r] = {}
  /\ found' = [found EXCEPT ![r] = S]
  /\ UNCHANGED <<status, well, badly>>

Land(r, t) ==
  /\ t \in found[r] \ (well[r] \cup badly[r])
  /\ \/ well' = [well EXCEPT ![r] = @ \cup {t}] /\ UNCHANGED badly
     \/ badly' = [badly EXCEPT ![r] = @ \cup {t}] /\ UNCHANGED well
  /\ UNCHANGED <<status, found>>

Settle(r) ==
  /\ status[r] = "running"
  /\ found[r] = well[r] \cup badly[r]
  /\ status' = [status EXCEPT ![r] = IF badly[r] = {} THEN "succeeded" ELSE "partial"]
  /\ UNCHANGED <<found, well, badly>>

GiveUp(r) ==
  /\ status[r] = "running"
  /\ status' = [status EXCEPT ![r] = "failed"]
  /\ UNCHANGED <<found, well, badly>>

Next ==
  \E r \in Run :
    \/ Insert(r) \/ Begin(r) \/ Settle(r) \/ GiveUp(r)
    \/ \E S \in SUBSET Ticket : Find(r, S)
    \/ \E t \in Ticket : Land(r, t)

Spec == Init /\ [][Next]_vars
=============================================================================
