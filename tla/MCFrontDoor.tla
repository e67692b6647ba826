---------------------------- MODULE MCFrontDoor -----------------------------
(***************************************************************************)
(* Instances of FrontDoor for TLC.                                         *)
(***************************************************************************)
EXTENDS FrontDoor, TLC

CONSTANTS j1, j2, j3, k1, k2

TheKbs == (j1 :> k1) @@ (j2 :> k1) @@ (j3 :> k2)
=============================================================================
