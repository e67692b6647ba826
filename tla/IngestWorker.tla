---------------------------- MODULE IngestWorker ----------------------------
(***************************************************************************)
(* The worker process: the executor (IngestQueue) and the delivery of its  *)
(* results (ResultDelivery) on one event loop, sharing the completion      *)
(* queue, from start() to the return of stop().                            *)
(*                                                                         *)
(* A step of the worker is a step of one of the two, except where they     *)
(* meet: a notifier takes a job from the completion queue, and stop()      *)
(* cancels the coroutines of both.                                         *)
(***************************************************************************)
EXTENDS Integers, FiniteSets, Sequences, SequencesExt

CONSTANTS
  Jobs, KBs, KbOf,
  WaitingSetting, MinSetting, MaxSetting, InitialSetting, SwallowsCancel,
  WithUrl, Refused, Notifiers, Sweeper, NoJob, MaxAttempts, MaxAge

\* What the two components assume of their settings.
ASSUME WorkerAssumption ==
  /\ IsFiniteSet(Jobs)
  /\ KbOf \in [Jobs -> KBs]
  /\ {WaitingSetting, MinSetting, MaxSetting, InitialSetting} \subseteq Int
  /\ SwallowsCancel \in BOOLEAN
  /\ IsFiniteSet(Notifiers)
  /\ WithUrl \subseteq Jobs
  /\ Refused \subseteq Jobs
  /\ NoJob \notin Jobs
  /\ Sweeper \notin Notifiers
  /\ MaxAttempts \in Int
  /\ MaxAge \in Nat

VARIABLES
  phase, target, waiting, dispatcher, slotFreed, task,
  active, cancelled, status,
  completion, taken,
  holds, posting, attempts, parked, age, sweep, sweepAge,
  deliveryStatus, deliveredTotal, undeliveredTotal, abandonedTotal, seen,
  dropped   (* history: the results notifiers had in hand when stop() began *)

Queue    == INSTANCE IngestQueue
Delivery == INSTANCE ResultDelivery

\* What belongs to one of the two alone.
queueVars    == <<phase, target, waiting, dispatcher, slotFreed, task, active,
                  cancelled, status>>
deliveryVars == <<holds, posting, attempts, parked, age, sweep, sweepAge,
                  deliveryStatus, deliveredTotal, undeliveredTotal,
                  abandonedTotal, seen>>
vars         == <<queueVars, completion, taken, deliveryVars, dropped>>

TypeOK ==
  /\ Queue!TypeOK
  /\ Delivery!TypeOK
  /\ dropped \subseteq Jobs

Init ==
  /\ Queue!Init
  /\ Delivery!Init
  /\ dropped = {}

-----------------------------------------------------------------------------

Requests         == Queue!Requests
DispatcherRuns   == Queue!DispatcherRuns
DispatcherWakes  == Queue!DispatcherResumes
DispatcherTimer  == Queue!DispatcherTimesOut
Task(j)          == Queue!TaskSteps(j)
Controller       == \E load \in Queue!Loads : Queue!ControlTick(load)
StopReturns      == Queue!StopReturns

\* A step of the executor, while the sweep is not running.
QueueStep(action) ==
  /\ Delivery!LoopIsFree
  /\ action
  /\ UNCHANGED <<deliveryVars, dropped>>

\* A step of the delivery, while the dispatcher is not running and stop() has
\* not cancelled the notifiers and the sweep.
DeliveryStep(action) ==
  /\ phase = "running"
  /\ Queue!LoopIsFree
  /\ action
  /\ UNCHANGED <<queueVars, dropped>>

\* A notifier takes the next finished job.
Notifier(n) ==
  /\ Queue!TakeCompletion
  /\ Delivery!NotifierSteps(n)
  /\ UNCHANGED dropped

Deliverer(d) == DeliveryStep(Delivery!DelivererSteps(d))
Sweep        == DeliveryStep(Delivery!SweepSteps)
Tick         == DeliveryStep(Delivery!Tick)

\* stop() cancels the notifiers and the sweep together with the tasks of the
\* executor.  CancelledError leaves deliver_result, _deliver and the loops
\* without parking the result; a POST in flight may have been received.
StopBegins ==
  /\ Delivery!LoopIsFree
  /\ Queue!StopBegins
  /\ holds' = [d \in Delivery!Deliverers |-> NoJob]
  /\ attempts' = [d \in Delivery!Deliverers |-> 0]
  /\ posting' = {}
  /\ dropped' = {holds[n] : n \in Notifiers} \ {NoJob}
  /\ sweep' = {}
  /\ \E received \in SUBSET {holds[d] : d \in posting} :
       seen' = seen \cup (received \ Refused)
  /\ UNCHANGED <<parked, age, sweepAge, deliveryStatus, deliveredTotal,
                 undeliveredTotal, abandonedTotal>>

Stopped == phase = "stopped" /\ UNCHANGED vars

Next ==
  \/ QueueStep(Requests)
  \/ QueueStep(DispatcherRuns)
  \/ QueueStep(DispatcherWakes)
  \/ QueueStep(DispatcherTimer)
  \/ \E j \in Jobs : QueueStep(Task(j))
  \/ QueueStep(Controller)
  \/ \E n \in Notifiers : Notifier(n)
  \/ \E d \in Delivery!Deliverers : Deliverer(d)
  \/ Sweep
  \/ Tick
  \/ StopBegins
  \/ QueueStep(StopReturns)
  \/ Stopped

Spec == Init /\ [][Next]_vars

\* The executor's share of the event loop.
QueueFairness ==
  /\ WF_vars(QueueStep(DispatcherRuns))
  /\ SF_vars(QueueStep(DispatcherWakes))
  /\ \A j \in Jobs : SF_vars(QueueStep(Task(j)))
  /\ SF_vars(QueueStep(Queue!ControlTick("moderate")))
  /\ SF_vars(QueueStep(StopReturns))
  /\ WF_vars(Sweep /\ ~Delivery!LoopIsFree)

\* And the delivery's.
DeliveryFairness ==
  /\ \A d \in Delivery!Deliverers : SF_vars(Deliverer(d))
  /\ SF_vars(\E n \in Notifiers : Notifier(n))
  /\ SF_vars(Sweep)
  /\ SF_vars(Tick)

FairSpec == Spec /\ QueueFairness /\ DeliveryFairness

-----------------------------------------------------------------------------
(* Safety                                                                  *)

\* A job is only delivered once it has ended: whatever a notifier or the sweep
\* holds, and whatever core-api has received, has a final status.
OnlyEndedJobsAreDelivered ==
  \A j \in Jobs :
    j \in seen \/ (\E d \in Delivery!Calls : holds[d] = j)
      => status[j] \in Queue!Terminal

\* Every accepted job is somewhere: in the executor, on the completion queue,
\* with a notifier, delivered, parked or given up.  While the worker runs the
\* jobs stranded by a cancellation are the only ones that are nowhere; when it
\* stops, these and the results the notifiers had in hand, and the jobs whose
\* task had not begun.
NothingIsForgotten ==
  \A j \in Jobs : status[j] # "absent" =>
    \/ j \in ToSet(waiting)
    \/ task[j] \notin {"none", "ended"}
    \/ j \in ToSet(completion)
    \/ \E d \in Delivery!Calls : holds[d] = j
    \/ j \in parked
    \/ Delivery!Done(j)
    \/ j \in taken /\ Delivery!Abandoned(j)
    \/ Queue!Stranded(j)
    \/ phase # "running" /\ (j \in dropped \/ (status[j] = "queued" /\ j \in active))

-----------------------------------------------------------------------------
(* Liveness                                                                *)

\* End to end: every accepted job is eventually settled with core-api, or
\* given up, or stranded, or the worker is stopped.
EveryJobSettles ==
  \A j \in Jobs : status[j] = "queued" ~>
    \/ Delivery!Done(j)
    \/ j \in taken /\ Delivery!Abandoned(j)
    \/ Queue!Stranded(j)
    \/ phase # "running"
=============================================================================
