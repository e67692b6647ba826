--------------------------- MODULE MCIngestQueue ---------------------------
(***************************************************************************)
(* Instances of IngestQueue for TLC.                                       *)
(***************************************************************************)
EXTENDS IngestQueueRefines

CONSTANTS j1, j2, j3, kb1, kb2

\* Two uploads to one knowledge base and one to another, so that cancelling a
\* knowledge base cancels several jobs and leaves one alone.
TwoKBs == (j1 :> kb1) @@ (j2 :> kb1) @@ (j3 :> kb2)

OneKB == (j1 :> kb1) @@ (j2 :> kb1)
=============================================================================
