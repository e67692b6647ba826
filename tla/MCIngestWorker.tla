--------------------------- MODULE MCIngestWorker ---------------------------
(***************************************************************************)
(* Instances of IngestWorker for TLC.                                      *)
(***************************************************************************)
EXTENDS IngestWorkerRefines, TLC

CONSTANTS a, b, kb, n1, n2, sweeper, none

OneKB == [j \in Jobs |-> kb]
=============================================================================
