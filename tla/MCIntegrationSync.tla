-------------------------- MODULE MCIntegrationSync --------------------------
(***************************************************************************)
(* IntegrationSync on small instances.                                     *)
(***************************************************************************)
EXTENDS IntegrationSync, TLC

CONSTANTS t1, t2, t3

MCTicket == {t1}
MCTickets == {t1, t2}
MCTickets3 == {t1, t2, t3}
MCSymmetry == Permutations(Ticket)
=============================================================================
