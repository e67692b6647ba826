------------------------- MODULE IngestWorkerRefines -------------------------
(***************************************************************************)
(* What the executor promises of progress, kept inside the worker: among   *)
(* requests, notifiers, sweep and stop() on one event loop.                *)
(***************************************************************************)
EXTENDS IngestWorker

Refinement == INSTANCE IngestQueueRefines

\* The executor inside the worker keeps the promise with its progress: while it
\* is open the backlog moves on, and whatever executes is reported, although the
\* loop is shared with the deliveries (queue.py:187-211 with :326-391).
KeepsFairPromise == Refinement!KeepsFairPromise

\* stop() returns, wherever the dispatcher, the tasks and the deliveries stand
\* when it is called (queue.py:135-161), on a Python whose wait_for does not
\* swallow a cancellation.
StopTerminates == Queue!StopTerminates
=============================================================================
