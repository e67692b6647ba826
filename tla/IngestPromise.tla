--------------------------- MODULE IngestPromise ---------------------------
(***************************************************************************)
(* What the executor of src/jobs/queue.py promises to whoever submits a    *)
(* job and to whoever reads the completion queue, with no dispatcher, no   *)
(* controller, no asyncio task and no event: a bounded backlog, a bounded  *)
(* number of jobs executing at once, exactly one outcome per job, and      *)
(* "cancelled" as the outcome of a job whose cancellation was accepted.    *)
(* IngestQueue implements it (IngestQueueRefines).                         *)
(***************************************************************************)
EXTENDS Integers, FiniteSets

CONSTANTS
  Jobs,
  Capacity,  (* the backlog: waiting_max                                     *)
  Slots      (* how many jobs may execute at once: max_workers               *)

VARIABLES
  open,      (* jobs are accepted                                            *)
  backlog,   (* accepted, not yet executing                                  *)
  executing,
  asked,     (* cancellation accepted, outcome not yet known                 *)
  outcome    (* what was reported of each job                                *)

vars == <<open, backlog, executing, asked, outcome>>

Outcomes == {"completed", "failed", "cancelled"}

Init ==
  /\ open = FALSE
  /\ backlog = {}
  /\ executing = {}
  /\ asked = {}
  /\ outcome = [j \in Jobs |-> "none"]

Open ==
  /\ ~open
  /\ open' = TRUE
  /\ UNCHANGED <<backlog, executing, asked, outcome>>

Accept(j) ==
  /\ open
  /\ j \notin backlog \cup executing \cup asked
  /\ outcome[j] = "none"
  /\ Cardinality(backlog) < Capacity
  /\ backlog' = backlog \cup {j}
  /\ UNCHANGED <<open, executing, asked, outcome>>

Ask(S) ==
  /\ S \subseteq backlog \cup executing \cup asked
  /\ asked' = asked \cup S
  /\ UNCHANGED <<open, backlog, executing, outcome>>

Execute(j) ==
  /\ j \in backlog
  /\ Cardinality(executing) < Slots
  /\ backlog' = backlog \ {j}
  /\ executing' = executing \cup {j}
  /\ UNCHANGED <<open, asked, outcome>>

Report(j, o) ==
  /\ j \in executing
  /\ j \in asked => o = "cancelled"
  /\ o = "cancelled" => j \in asked
  /\ executing' = executing \ {j}
  /\ asked' = asked \ {j}
  /\ outcome' = [outcome EXCEPT ![j] = o]
  /\ UNCHANGED <<open, backlog>>

\* The exception to "exactly one outcome": a job cancelled in the instant
\* between its admission and its first step, or when the worker stops, leaves
\* without one.  A cancelled job stays marked.
Strand(j) ==
  /\ j \in executing
  /\ j \in asked \/ ~open
  /\ executing' = executing \ {j}
  /\ UNCHANGED <<open, backlog, asked, outcome>>

Close ==
  /\ open
  /\ open' = FALSE
  /\ UNCHANGED <<backlog, executing, asked, outcome>>

Next ==
  \/ Open
  \/ \E j \in Jobs : Accept(j) \/ Execute(j) \/ Strand(j)
  \/ \E j \in Jobs, o \in Outcomes : Report(j, o)
  \/ \E S \in SUBSET Jobs : Ask(S)
  \/ Close

Spec == Init /\ [][Next]_vars

\* Backlog moves on while the worker is open, and what executes ends.
Fairness ==
  /\ WF_vars(open /\ \E j \in Jobs : Execute(j))
  /\ \A j \in Jobs : WF_vars(Strand(j) \/ \E o \in Outcomes : Report(j, o))

FairSpec == Spec /\ Fairness
=============================================================================
