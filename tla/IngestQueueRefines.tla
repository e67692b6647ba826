------------------------- MODULE IngestQueueRefines -------------------------
(***************************************************************************)
(* The executor implements IngestPromise.                                  *)
(***************************************************************************)
EXTENDS IngestQueue

Promise == INSTANCE IngestPromise WITH
  Capacity  <- WaitingMax,
  Slots     <- MaxWorkers,
  open      <- phase = "running",
  backlog   <- ToSet(waiting),
  executing <- {j \in Jobs : task[j] \notin {"none", "ended"}},
  asked     <- cancelled,
  outcome   <- [j \in Jobs |-> IF j \in Reported THEN status[j] ELSE "none"]

\* Every behaviour of the executor is one the promise allows: the dispatcher,
\* the controller and the event loop are invisible from outside.
KeepsPromise == Promise!Spec

\* With a fair event loop the promised progress is made as well.
KeepsFairPromise == Promise!FairSpec
=============================================================================
