-------------------------- MODULE MCResultDelivery --------------------------
(***************************************************************************)
(* Instances of ResultDelivery for TLC.                                    *)
(***************************************************************************)
EXTENDS ResultDelivery

CONSTANTS a, b, c, n1, n2, sweeper, none
=============================================================================
