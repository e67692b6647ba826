---------------------------- MODULE IngestQueue ----------------------------
(***************************************************************************)
(* The elastic executor of src/jobs/queue.py (class IngestQueue): a        *)
(* bounded waiting queue, a dispatcher that admits jobs while fewer than   *)
(* `target' are in flight, a controller that floats `target' with the      *)
(* system load, one asyncio task per admitted job, cancellation by job and *)
(* by KB, and stop().  Finished jobs are handed to the completion queue;   *)
(* what the notifiers do with them is module ResultDelivery.               *)
(*                                                                         *)
(* Everything runs on one event loop, so a coroutine is interrupted only   *)
(* where it suspends.  An action is what a coroutine does from one         *)
(* suspension to the next.  The dispatcher is the one coroutine that can   *)
(* do a long uninterrupted run (it admits as many jobs as it may before it *)
(* suspends): that run is a sequence of steps during which dispatcher =    *)
(* "admit", and every other action waits for LoopIsFree.                   *)
(***************************************************************************)
EXTENDS Integers, FiniteSets, Sequences, SequencesExt

CONSTANTS
  Jobs,            (* the ids of the jobs that may be submitted              *)
  KBs,             (* the knowledge bases                                    *)
  KbOf,            (* the knowledge base of each job                         *)
  WaitingSetting,  (* waiting_max, min_workers, max_workers and initial as   *)
  MinSetting,      (* configured: the constructor clamps them                *)
  MaxSetting,
  InitialSetting,
  SwallowsCancel   (* asyncio.wait_for of the deployed Python (3.11) returns *)
                   (* instead of raising when it is cancelled after the      *)
                   (* awaited event was set; later versions do not           *)

ASSUME QueueAssumption ==
  /\ IsFiniteSet(Jobs)
  /\ KbOf \in [Jobs -> KBs]
  /\ WaitingSetting \in Int
  /\ MinSetting \in Int
  /\ MaxSetting \in Int
  /\ InitialSetting \in Int
  /\ SwallowsCancel \in BOOLEAN

AtLeast(low, n) == IF n < low THEN low ELSE n
AtMost(high, n) == IF n > high THEN high ELSE n

\* The limits the constructor computes.
WaitingMax    == AtLeast(1, WaitingSetting)
MinWorkers    == AtLeast(1, MinSetting)
MaxWorkers    == AtLeast(MinWorkers, MaxSetting)
InitialTarget == AtMost(MaxWorkers, AtLeast(MinWorkers, InitialSetting))

VARIABLES
  phase,       (* "new", "running", "stopping" (inside stop()), "stopped"    *)
  target,      (* _target                                                    *)
  waiting,     (* _queue                                                     *)
  dispatcher,  (* where the dispatcher coroutine is                          *)
  slotFreed,   (* the event _slot_freed                                      *)
  task,        (* the asyncio task of each job                               *)
  active,      (* the keys of _active_jobs                                   *)
  cancelled,   (* _cancelled                                                 *)
  status,      (* job.status                                                 *)
  completion,  (* _completion                                                *)
  taken        (* the jobs a notifier has taken from _completion             *)

poolVars == <<target, waiting, dispatcher, slotFreed, task>>
jobVars  == <<active, cancelled, status>>
vars     == <<phase, poolVars, jobVars, completion, taken>>

\* A task is "created" until its first step; "doomed" if it was cancelled
\* before that step, "cancelling" if it was cancelled after; "ended" from its
\* last step until the event loop calls _on_job_done.
TaskState  == {"none", "created", "doomed", "running", "cancelling", "ended"}
Terminal   == {"completed", "failed", "cancelled"}
Status     == {"absent", "queued", "processing"} \cup Terminal
Phase      == {"new", "running", "stopping", "stopped"}
\* The dispatcher is about to start, parked in wait_for(_slot_freed), parked
\* in _queue.get(), running, or gone.
Dispatcher == {"off", "start", "slot", "get", "admit"}
Loads      == {"high", "moderate", "low"}

\* _inflight, and the keys of _task_by_job: both change at the same places.
Inflight == {j \in Jobs : task[j] # "none"}

\* The jobs handed over for delivery.
Reported == ToSet(completion) \cup taken

TypeOK ==
  /\ phase \in Phase
  /\ target \in MinWorkers..MaxWorkers
  /\ waiting \in Seq(Jobs)
  /\ Len(waiting) <= WaitingMax
  /\ dispatcher \in Dispatcher
  /\ slotFreed \in BOOLEAN
  /\ task \in [Jobs -> TaskState]
  /\ active \subseteq Jobs
  /\ cancelled \subseteq Jobs
  /\ status \in [Jobs -> Status]
  /\ completion \in Seq(Jobs)
  /\ taken \subseteq Jobs

Init ==
  /\ phase = "new"
  /\ target = InitialTarget
  /\ waiting = <<>>
  /\ dispatcher = "off"
  /\ slotFreed = FALSE
  /\ task = [j \in Jobs |-> "none"]
  /\ active = {}
  /\ cancelled = {}
  /\ status = [j \in Jobs |-> "absent"]
  /\ completion = <<>>
  /\ taken = {}

LoopIsFree == dispatcher # "admit"

-----------------------------------------------------------------------------
(* Requests                                                                *)

Start ==
  /\ LoopIsFree
  /\ phase = "new"
  /\ phase' = "running"
  /\ dispatcher' = "start"
  /\ UNCHANGED <<target, waiting, slotFreed, task, jobVars, completion, taken>>

\* submit(): a full queue raises QueueFull and changes nothing.
Submit(j) ==
  /\ LoopIsFree
  /\ phase = "running"
  /\ status[j] = "absent"
  /\ Len(waiting) < WaitingMax
  /\ waiting' = Append(waiting, j)
  /\ active' = active \cup {j}
  /\ status' = [status EXCEPT ![j] = "queued"]
  /\ UNCHANGED <<phase, target, dispatcher, slotFreed, task, cancelled,
                 completion, taken>>

\* task.cancel(): a task that has not taken its first step never runs its
\* body; a running one gets CancelledError where it is suspended.
TaskCancelled(state) ==
  CASE state = "created" -> "doomed"
    [] state = "running" -> "cancelling"
    [] OTHER             -> state

CancelTasks(S) ==
  task' = [j \in Jobs |-> IF j \in S THEN TaskCancelled(task[j]) ELSE task[j]]

\* cancel() of every job of S: recorded for all of them, signalled to those
\* that have a task.
CancelJobs(S) ==
  /\ LoopIsFree
  /\ phase = "running"
  /\ cancelled' = cancelled \cup S
  /\ CancelTasks(S)
  /\ UNCHANGED <<phase, target, waiting, dispatcher, slotFreed, active,
                 status, completion, taken>>

Cancel(j) ==
  /\ j \in active
  /\ CancelJobs({j})

\* cancel_by_kb() passes over "ready", "failed" and "cancelled" jobs; no job of
\* the worker is ever "ready", and a "completed" one is not passed over.
CancelByKb(kb) ==
  CancelJobs({j \in active :
                KbOf[j] = kb /\ status[j] \notin {"failed", "cancelled"}})

-----------------------------------------------------------------------------
(* The dispatcher                                                          *)

\* The dispatcher takes the item at the head of the queue and creates its task.
AdmitHead ==
  /\ waiting # <<>>
  /\ task' = [task EXCEPT ![Head(waiting)] = "created"]
  /\ waiting' = Tail(waiting)
  /\ dispatcher' = "admit"
  /\ UNCHANGED <<phase, target, slotFreed, jobVars, completion, taken>>

DispatcherStarts ==
  /\ dispatcher = "start"
  /\ dispatcher' = "admit"
  /\ UNCHANGED <<phase, target, waiting, slotFreed, task, jobVars, completion,
                 taken>>

DispatcherWakes ==
  /\ dispatcher = "slot"
  /\ slotFreed
  /\ dispatcher' = "admit"
  /\ UNCHANGED <<phase, target, waiting, slotFreed, task, jobVars, completion,
                 taken>>

\* The 0.5 s timeout of wait_for.
DispatcherTimesOut ==
  /\ dispatcher = "slot"
  /\ ~slotFreed
  /\ dispatcher' = "admit"
  /\ UNCHANGED <<phase, target, waiting, slotFreed, task, jobVars, completion,
                 taken>>

\* get() returns: the item is admitted without another look at the target.
DispatcherGetsItem ==
  /\ dispatcher = "get"
  /\ AdmitHead

\* Mutant: the loop condition is `>' instead of `>='.
DispatcherAdmitsOneMore ==
  /\ dispatcher = "admit"
  /\ Cardinality(Inflight) <= target
  /\ AdmitHead

\* The top of the loop, when a slot and an item are there: get() does not
\* suspend.
DispatcherAdmits ==
  /\ dispatcher = "admit"
  /\ Cardinality(Inflight) < target
  /\ AdmitHead

\* The event is cleared and waited for in one step.
DispatcherParksForSlot ==
  /\ dispatcher = "admit"
  /\ Cardinality(Inflight) >= target
  /\ slotFreed' = FALSE
  /\ dispatcher' = "slot"
  /\ UNCHANGED <<phase, target, waiting, task, jobVars, completion, taken>>

DispatcherParksForItem ==
  /\ dispatcher = "admit"
  /\ Cardinality(Inflight) < target
  /\ waiting = <<>>
  /\ dispatcher' = "get"
  /\ UNCHANGED <<phase, target, waiting, slotFreed, task, jobVars, completion,
                 taken>>

DispatcherRuns ==
  \/ DispatcherAdmits
  \/ DispatcherParksForSlot
  \/ DispatcherParksForItem

DispatcherResumes ==
  \/ DispatcherStarts
  \/ DispatcherWakes
  \/ DispatcherGetsItem

-----------------------------------------------------------------------------
(* The job's task: _run_one and _on_job_done                               *)

\* Mutant: a cancelled job returns without the hand-over.
EndJobUnreported(j, outcome) ==
  /\ LoopIsFree
  /\ status' = [status EXCEPT ![j] = outcome]
  /\ task' = [task EXCEPT ![j] = "ended"]
  /\ active' = active \ {j}
  /\ cancelled' = cancelled \ {j}
  /\ completion' = IF outcome = "cancelled" THEN completion
                                            ELSE Append(completion, j)
  /\ UNCHANGED <<phase, target, waiting, dispatcher, slotFreed, taken>>

\* Mutant: the cancellation mark is never discarded.
EndJobStillMarked(j, outcome) ==
  /\ LoopIsFree
  /\ status' = [status EXCEPT ![j] = outcome]
  /\ task' = [task EXCEPT ![j] = "ended"]
  /\ active' = active \ {j}
  /\ completion' = Append(completion, j)
  /\ UNCHANGED <<phase, target, waiting, dispatcher, slotFreed, cancelled,
                 taken>>

\* The finally clause of _run_one, with the status its branch has set.
EndJob(j, outcome) ==
  /\ LoopIsFree
  /\ status' = [status EXCEPT ![j] = outcome]
  /\ task' = [task EXCEPT ![j] = "ended"]
  /\ active' = active \ {j}
  /\ cancelled' = cancelled \ {j}
  /\ completion' = Append(completion, j)
  /\ UNCHANGED <<phase, target, waiting, dispatcher, slotFreed, taken>>

\* First step of a job cancelled while it was waiting.
TaskSkips(j) ==
  /\ task[j] = "created"
  /\ j \in cancelled
  /\ EndJob(j, "cancelled")

\* Mutant: the pre-run check of _cancelled is missing.
TaskBeginsUnchecked(j) ==
  /\ LoopIsFree
  /\ task[j] = "created"
  /\ status' = [status EXCEPT ![j] = "processing"]
  /\ task' = [task EXCEPT ![j] = "running"]
  /\ UNCHANGED <<phase, target, waiting, dispatcher, slotFreed, active,
                 cancelled, completion, taken>>

TaskBegins(j) ==
  /\ LoopIsFree
  /\ task[j] = "created"
  /\ j \notin cancelled
  /\ status' = [status EXCEPT ![j] = "processing"]
  /\ task' = [task EXCEPT ![j] = "running"]
  /\ UNCHANGED <<phase, target, waiting, dispatcher, slotFreed, active,
                 cancelled, completion, taken>>

\* process_job() has the outcome, and goes on to ask for the storage snapshot.
TaskConcludes(j) ==
  /\ LoopIsFree
  /\ task[j] = "running"
  /\ status[j] = "processing"
  /\ \E outcome \in {"completed", "failed"} :
       status' = [status EXCEPT ![j] = outcome]
  /\ UNCHANGED <<phase, poolVars, active, cancelled, completion, taken>>

\* run() returns with the outcome it recorded, or raises ("failed").
TaskFinishes(j) ==
  /\ task[j] = "running"
  /\ \E outcome \in {"completed", "failed"} :
       /\ status[j] \in {"processing", outcome}
       /\ EndJob(j, outcome)

\* Mutant: the branch for a user's cancellation does not set the status.
TaskInterruptedUnmarked(j) ==
  /\ task[j] = "cancelling"
  /\ EndJob(j, IF j \in cancelled THEN status[j] ELSE "failed")

\* CancelledError inside run(): asked for by a user, or by stop().
TaskInterrupted(j) ==
  /\ task[j] = "cancelling"
  /\ EndJob(j, IF j \in cancelled THEN "cancelled" ELSE "failed")

\* A task cancelled before its first step ends without entering _run_one, so
\* neither a branch nor the finally clause runs.
TaskNeverRuns(j) ==
  /\ LoopIsFree
  /\ task[j] = "doomed"
  /\ task' = [task EXCEPT ![j] = "ended"]
  /\ UNCHANGED <<phase, target, waiting, dispatcher, slotFreed, jobVars,
                 completion, taken>>

\* Mutant: the callback frees the slot without setting the event.
OnJobDoneSilent(j) ==
  /\ LoopIsFree
  /\ task[j] = "ended"
  /\ task' = [task EXCEPT ![j] = "none"]
  /\ UNCHANGED <<phase, target, waiting, dispatcher, slotFreed, jobVars,
                 completion, taken>>

OnJobDone(j) ==
  /\ LoopIsFree
  /\ task[j] = "ended"
  /\ task' = [task EXCEPT ![j] = "none"]
  /\ slotFreed' = TRUE
  /\ UNCHANGED <<phase, target, waiting, dispatcher, jobVars, completion,
                 taken>>

TaskSteps(j) ==
  \/ TaskSkips(j)
  \/ TaskBegins(j)
  \/ TaskConcludes(j)
  \/ TaskFinishes(j)
  \/ TaskInterrupted(j)
  \/ TaskNeverRuns(j)
  \/ OnJobDone(j)

-----------------------------------------------------------------------------
(* The controller                                                          *)

Grows(load) ==
  /\ load = "low"
  /\ waiting # <<>>
  /\ target < MaxWorkers

\* Mutant: the floor is not checked under pressure.
ShrinksBelowFloor(load) ==
  \/ load = "high"
  \/ /\ target > MinWorkers
     /\ waiting = <<>>
     /\ Cardinality(Inflight) < target

\* Mutant: no idle release.
ShrinksWithBacklogOnly(load) ==
  /\ target > MinWorkers
  /\ load = "high"
  /\ waiting # <<>>

\* Under pressure, or with idle capacity and no backlog.
Shrinks(load) ==
  /\ target > MinWorkers
  /\ \/ load = "high"
     \/ waiting = <<>> /\ Cardinality(Inflight) < target

NextTarget(load) ==
  IF Grows(load) THEN target + 1
  ELSE IF Shrinks(load) THEN target - 1
  ELSE target

\* Mutant: the dispatcher is not told that the target has changed.
ControlTickSilent(load) ==
  /\ LoopIsFree
  /\ phase = "running"
  /\ target' = NextTarget(load)
  /\ UNCHANGED <<phase, waiting, dispatcher, slotFreed, task, jobVars,
                 completion, taken>>

ControlTick(load) ==
  /\ LoopIsFree
  /\ phase = "running"
  /\ target' = NextTarget(load)
  /\ slotFreed' = (slotFreed \/ target' # target)
  /\ UNCHANGED <<phase, waiting, dispatcher, task, jobVars, completion, taken>>

-----------------------------------------------------------------------------
(* Hand-over and shutdown                                                  *)

\* A notifier's get() on the completion queue.
TakeCompletion ==
  /\ LoopIsFree
  /\ phase = "running"
  /\ completion # <<>>
  /\ taken' = taken \cup {Head(completion)}
  /\ completion' = Tail(completion)
  /\ UNCHANGED <<phase, poolVars, jobVars>>

\* Mutant: the dispatcher is awaited but not cancelled.
StopBeginsForgetsDispatcher ==
  /\ LoopIsFree
  /\ phase = "running"
  /\ phase' = "stopping"
  /\ CancelTasks(Jobs)
  /\ UNCHANGED <<target, waiting, dispatcher, slotFreed, jobVars, completion,
                 taken>>

\* stop() cancels the dispatcher, the controller, the notifiers and every
\* task in flight, then waits for each of them.  A dispatcher parked for a
\* slot may swallow the cancellation if the event was already set.
StopBegins ==
  /\ LoopIsFree
  /\ phase = "running"
  /\ phase' = "stopping"
  /\ CancelTasks(Jobs)
  /\ \/ dispatcher' = "off"
     \/ /\ SwallowsCancel
        /\ dispatcher = "slot"
        /\ slotFreed
        /\ UNCHANGED dispatcher
  /\ UNCHANGED <<target, waiting, slotFreed, jobVars, completion, taken>>

StopReturns ==
  /\ LoopIsFree
  /\ phase = "stopping"
  /\ dispatcher = "off"
  /\ \A j \in Jobs : task[j] \in {"none", "ended"}
  /\ phase' = "stopped"
  /\ task' = [j \in Jobs |-> "none"]
  /\ UNCHANGED <<target, waiting, dispatcher, slotFreed, jobVars, completion,
                 taken>>

\* Nothing is left to do once stop() has returned.
Stopped == phase = "stopped" /\ UNCHANGED vars

-----------------------------------------------------------------------------

Requests ==
  \/ Start
  \/ \E j \in Jobs : Submit(j) \/ Cancel(j)
  \/ \E kb \in KBs : CancelByKb(kb)

Next ==
  \/ Requests
  \/ DispatcherRuns
  \/ DispatcherResumes
  \/ DispatcherTimesOut
  \/ \E j \in Jobs : TaskSteps(j)
  \/ \E load \in Loads : ControlTick(load)
  \/ TakeCompletion
  \/ StopBegins
  \/ StopReturns
  \/ Stopped

Spec == Init /\ [][Next]_vars

\* The event loop runs whatever is ready: the dispatcher once it is woken, the
\* tasks (a job's run() returns: its calls have timeouts), the callbacks, the
\* controller's timer and the notifiers.  Their fairness is strong because what
\* is ready only waits while the dispatcher runs, and stays ready.
\* Nothing is assumed of requests, of the dispatcher's 0.5 s timeout, nor of
\* the load: of the controller's rules only the idle one is relied on, and it
\* makes the same step under every load.
Fairness ==
  /\ WF_vars(DispatcherRuns)
  /\ WF_vars(DispatcherResumes)
  /\ \A j \in Jobs : SF_vars(TaskSteps(j))
  /\ SF_vars(ControlTick("moderate"))
  /\ SF_vars(TakeCompletion)
  /\ SF_vars(StopReturns)

FairSpec == Spec /\ Fairness

-----------------------------------------------------------------------------
(* Safety                                                                  *)

\* Never more jobs in flight than max_workers, although an item that arrives
\* while the dispatcher waits in get() is admitted whatever the target has
\* become in the meantime.
InflightBounded == Cardinality(Inflight) <= MaxWorkers

\* A dispatcher parked for a slot while a slot is free has its event set: no
\* wake-up is lost between clear() and wait(), and the 0.5 s timeout of the
\* dispatcher is never what makes it progress.
NoLostWakeup ==
  dispatcher = "slot" /\ Cardinality(Inflight) < target => slotFreed

\* A job whose task was cancelled before its first step: it is gone from the
\* pool, and stays in _active_jobs and _cancelled for ever.
Stranded(j) ==
  /\ j \in active
  /\ j \in cancelled
  /\ j \notin ToSet(waiting)
  /\ task[j] \in {"none", "ended"}

\* A job is handed over once, with a final status, after every trace of it has
\* left the cancellation bookkeeping; and only known jobs are marked cancelled.
ReportedIsSettled ==
  /\ \A j \in Reported : status[j] \in Terminal /\ j \notin active
  /\ IsInjective(completion)
  /\ ToSet(completion) \cap taken = {}
  /\ cancelled \subseteq active

\* Once a cancellation has been accepted the job ends "cancelled" and nothing
\* else, whether it was waiting, running or caught by stop(); in particular a
\* job cancelled while it waits never starts processing.
CancelWins ==
  [][\A j \in cancelled :
       status'[j] # status[j] => status'[j] = "cancelled"]_vars

-----------------------------------------------------------------------------
(* Liveness                                                                *)

\* When the work is done the pool shrinks back to its floor: a finite number
\* of jobs cannot leave it enlarged.
PoolRelaxes == <>[](phase = "running") => <>[](target = MinWorkers)

\* stop() returns.
StopTerminates == phase = "stopping" ~> phase = "stopped"

-----------------------------------------------------------------------------
(* What the documentation says and the code does not do                    *)

\* main.py:1231-1233: "Either way the job reports completion (status
\* `cancelled`)".
CancelledReports ==
  [][\A j \in cancelled : task[j] # "none" /\ task'[j] = "none"
                            /\ phase = "running" => j \in Reported]_vars
=============================================================================
