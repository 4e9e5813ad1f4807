------------------------------ MODULE MCBilling ------------------------------
(* Instances of Billing for TLC: one or two subscriptions, one or two tabs. *)
EXTENDS Billing

MCOne == 1 .. 1
MCTwo == 1 .. 2
=============================================================================
