------------------------- MODULE IngestWorkerProofs -------------------------
(***************************************************************************)
(* Proofs about the whole worker.  Nothing about the executor or about     *)
(* delivery is proved again here: the invariants of IngestQueueProofs and  *)
(* ResultDeliveryProofs are used as they are, each step of the worker      *)
(* being a step or a stutter of either, except stop(), which cancels the   *)
(* coroutines of the delivery from outside.                                *)
(***************************************************************************)
EXTENDS IngestWorker, FiniteSetTheorems, SequenceTheorems, TLAPS

QueueProofs    == INSTANCE IngestQueueProofs
DeliveryProofs == INSTANCE ResultDeliveryProofs

\* The components' assumptions hold in the worker.
LEMMA PartsAssumed ==
  /\ QueueProofs!QueueAssumption
  /\ DeliveryProofs!DeliveryAssumption
BY WorkerAssumption
   DEF QueueProofs!QueueAssumption, DeliveryProofs!DeliveryAssumption,
       IsFiniteSet, QueueProofs!IsFiniteSet, DeliveryProofs!IsFiniteSet

(***************************************************************************)
(* The worker's steps are the components' steps                            *)
(***************************************************************************)

\* The proof modules are instantiated with the variables of the worker, so
\* that their actions are those of Queue and Delivery.
LEMMA SameRequests == Queue!Requests <=> QueueProofs!Requests
BY DEF Queue!Requests, QueueProofs!Requests, Queue!Start, QueueProofs!Start,
       Queue!Submit, QueueProofs!Submit, Queue!Cancel, QueueProofs!Cancel,
       Queue!CancelByKb, QueueProofs!CancelByKb, Queue!CancelJobs,
       QueueProofs!CancelJobs, Queue!CancelTasks, QueueProofs!CancelTasks,
       Queue!TaskCancelled, QueueProofs!TaskCancelled, Queue!LoopIsFree,
       QueueProofs!LoopIsFree, Queue!jobVars, QueueProofs!jobVars,
       Queue!WaitingMax, QueueProofs!WaitingMax, Queue!AtLeast,
       QueueProofs!AtLeast

LEMMA SameDispatcher ==
  /\ Queue!DispatcherRuns <=> QueueProofs!DispatcherRuns
  /\ Queue!DispatcherResumes <=> QueueProofs!DispatcherResumes
  /\ Queue!DispatcherTimesOut <=> QueueProofs!DispatcherTimesOut
BY DEF Queue!DispatcherRuns, QueueProofs!DispatcherRuns,
       Queue!DispatcherAdmits, QueueProofs!DispatcherAdmits,
       Queue!DispatcherParksForSlot, QueueProofs!DispatcherParksForSlot,
       Queue!DispatcherParksForItem, QueueProofs!DispatcherParksForItem,
       Queue!DispatcherResumes, QueueProofs!DispatcherResumes,
       Queue!DispatcherStarts, QueueProofs!DispatcherStarts,
       Queue!DispatcherWakes, QueueProofs!DispatcherWakes,
       Queue!DispatcherGetsItem, QueueProofs!DispatcherGetsItem,
       Queue!DispatcherTimesOut, QueueProofs!DispatcherTimesOut,
       Queue!AdmitHead, QueueProofs!AdmitHead, Queue!Inflight,
       QueueProofs!Inflight, Queue!jobVars, QueueProofs!jobVars,
       Queue!Cardinality, QueueProofs!Cardinality

LEMMA SameTask ==
  \A j \in Jobs : Queue!TaskSteps(j) <=> QueueProofs!TaskSteps(j)
BY DEF Queue!TaskSteps, QueueProofs!TaskSteps, Queue!TaskSkips,
       QueueProofs!TaskSkips, Queue!TaskBegins, QueueProofs!TaskBegins,
       Queue!TaskConcludes, QueueProofs!TaskConcludes, Queue!TaskFinishes,
       QueueProofs!TaskFinishes, Queue!TaskInterrupted,
       QueueProofs!TaskInterrupted, Queue!TaskNeverRuns,
       QueueProofs!TaskNeverRuns, Queue!OnJobDone, QueueProofs!OnJobDone,
       Queue!EndJob, QueueProofs!EndJob, Queue!LoopIsFree,
       QueueProofs!LoopIsFree, Queue!poolVars, QueueProofs!poolVars,
       Queue!jobVars, QueueProofs!jobVars

LEMMA SameController ==
  /\ Queue!Loads = QueueProofs!Loads
  /\ \A load \in Queue!Loads :
       Queue!ControlTick(load) <=> QueueProofs!ControlTick(load)
BY DEF Queue!Loads, QueueProofs!Loads, Queue!ControlTick,
       QueueProofs!ControlTick, Queue!NextTarget, QueueProofs!NextTarget,
       Queue!Grows, QueueProofs!Grows, Queue!Shrinks, QueueProofs!Shrinks,
       Queue!MinWorkers, QueueProofs!MinWorkers, Queue!MaxWorkers,
       QueueProofs!MaxWorkers, Queue!AtLeast, QueueProofs!AtLeast,
       Queue!Inflight, QueueProofs!Inflight, Queue!Cardinality,
       QueueProofs!Cardinality, Queue!LoopIsFree, QueueProofs!LoopIsFree,
       Queue!jobVars, QueueProofs!jobVars

LEMMA SameHandOver ==
  /\ Queue!TakeCompletion <=> QueueProofs!TakeCompletion
  /\ Queue!StopBegins <=> QueueProofs!StopBegins
  /\ Queue!StopReturns <=> QueueProofs!StopReturns
BY DEF Queue!TakeCompletion, QueueProofs!TakeCompletion, Queue!StopBegins,
       QueueProofs!StopBegins, Queue!StopReturns, QueueProofs!StopReturns,
       Queue!CancelTasks, QueueProofs!CancelTasks, Queue!TaskCancelled,
       QueueProofs!TaskCancelled, Queue!LoopIsFree, QueueProofs!LoopIsFree,
       Queue!poolVars, QueueProofs!poolVars, Queue!jobVars,
       QueueProofs!jobVars

LEMMA SameDeliverer ==
  /\ Delivery!Deliverers = DeliveryProofs!Deliverers
  /\ Delivery!LoopIsFree <=> DeliveryProofs!LoopIsFree
  /\ \A d \in Delivery!Deliverers :
       Delivery!DelivererSteps(d) <=> DeliveryProofs!DelivererSteps(d)
BY DEF Delivery!Deliverers, DeliveryProofs!Deliverers,
       Delivery!DelivererSteps, DeliveryProofs!DelivererSteps,
       Delivery!PostSucceeds, DeliveryProofs!PostSucceeds,
       Delivery!PostRejected, DeliveryProofs!PostRejected,
       Delivery!PostFails, DeliveryProofs!PostFails, Delivery!PostAgain,
       DeliveryProofs!PostAgain, Delivery!Land, DeliveryProofs!Land,
       Delivery!Park, DeliveryProofs!Park, Delivery!EndCall,
       DeliveryProofs!EndCall, Delivery!AttemptLimit,
       DeliveryProofs!AttemptLimit, Delivery!LoopIsFree,
       DeliveryProofs!LoopIsFree, Delivery!parkVars,
       DeliveryProofs!parkVars, Delivery!sweepVars,
       DeliveryProofs!sweepVars, Delivery!countVars,
       DeliveryProofs!countVars

LEMMA SameNotifier ==
  \A n \in Notifiers :
    Delivery!NotifierSteps(n) <=> DeliveryProofs!NotifierSteps(n)
BY DEF Delivery!NotifierSteps, DeliveryProofs!NotifierSteps,
       Delivery!NotifierDelivers, DeliveryProofs!NotifierDelivers,
       Delivery!NotifierSkips, DeliveryProofs!NotifierSkips, Delivery!Take,
       DeliveryProofs!Take, Delivery!BeginCall, DeliveryProofs!BeginCall,
       Delivery!LoopIsFree, DeliveryProofs!LoopIsFree, Delivery!callVars,
       DeliveryProofs!callVars, Delivery!parkVars, DeliveryProofs!parkVars,
       Delivery!sweepVars, DeliveryProofs!sweepVars, Delivery!countVars,
       DeliveryProofs!countVars

LEMMA SameSweep ==
  /\ Delivery!SweepSteps <=> DeliveryProofs!SweepSteps
  /\ Delivery!Tick <=> DeliveryProofs!Tick
BY DEF Delivery!SweepSteps, DeliveryProofs!SweepSteps, Delivery!SweepBegins,
       DeliveryProofs!SweepBegins, Delivery!SweepAbandons,
       DeliveryProofs!SweepAbandons, Delivery!SweepRedelivers,
       DeliveryProofs!SweepRedelivers, Delivery!SweepNext,
       DeliveryProofs!SweepNext, Delivery!BeginCall,
       DeliveryProofs!BeginCall, Delivery!Tick, DeliveryProofs!Tick,
       Delivery!LoopIsFree, DeliveryProofs!LoopIsFree, Delivery!callVars,
       DeliveryProofs!callVars, Delivery!parkVars, DeliveryProofs!parkVars,
       Delivery!sweepVars, DeliveryProofs!sweepVars, Delivery!countVars,
       DeliveryProofs!countVars

QueueNext    == QueueProofs!Next
DeliveryNext == DeliveryProofs!Next

\* What a step of the executor does that the delivery can see: it hands over
\* at most one job, one that was not handed over before, and takes none.
LEMMA QueueStepSeen ==
  ASSUME QueueProofs!TypeOK, QueueProofs!PlaceInv,
         \/ Queue!Requests \/ Queue!DispatcherRuns \/ Queue!DispatcherResumes
         \/ Queue!DispatcherTimesOut \/ \E j \in Jobs : Queue!TaskSteps(j)
         \/ \E load \in Queue!Loads : Queue!ControlTick(load)
         \/ Queue!StopReturns
  PROVE  /\ QueueNext
         /\ taken' = taken
         /\ \/ completion' = completion
            \/ \E j \in Jobs : /\ completion' = Append(completion, j)
                               /\ j \notin ToSet(completion) \cup taken
         /\ phase \in {"stopping", "stopped"} => phase' \in {"stopping", "stopped"}
<1>1. QueueNext
  BY SameRequests, SameDispatcher, SameTask, SameController, SameHandOver
     DEF QueueNext, QueueProofs!Next
<1>2. CASE Queue!Requests
  BY <1>1, <1>2 DEF Queue!Requests, Queue!Start, Queue!Submit, Queue!Cancel,
                    Queue!CancelByKb, Queue!CancelJobs
<1>3. CASE \/ Queue!DispatcherRuns \/ Queue!DispatcherResumes
           \/ Queue!DispatcherTimesOut
  BY <1>1, <1>3
     DEF Queue!DispatcherRuns, Queue!DispatcherAdmits,
         Queue!DispatcherParksForSlot, Queue!DispatcherParksForItem,
         Queue!DispatcherResumes, Queue!DispatcherStarts,
         Queue!DispatcherWakes, Queue!DispatcherGetsItem,
         Queue!DispatcherTimesOut, Queue!AdmitHead
<1>4. ASSUME NEW j \in Jobs, Queue!TaskSteps(j)
      PROVE  /\ UNCHANGED <<phase, taken>>
             /\ \/ completion' = completion
                \/ completion' = Append(completion, j) /\ task[j] # "none" /\ task[j] # "ended"
  BY <1>4 DEF Queue!TaskSteps, Queue!TaskSkips, Queue!TaskBegins,
              Queue!TaskConcludes, Queue!TaskFinishes, Queue!TaskInterrupted,
              Queue!TaskNeverRuns, Queue!OnJobDone, Queue!EndJob,
              Queue!poolVars
<1>5. ASSUME NEW j \in Jobs, task[j] # "none", task[j] # "ended"
      PROVE  j \notin ToSet(completion) \cup taken
  BY <1>5 DEF QueueProofs!TypeOK, QueueProofs!TaskState,
              QueueProofs!PlaceInv, QueueProofs!PlaceOf, QueueProofs!Reported,
              ToSet, QueueProofs!ToSet
<1>6. CASE \E load \in Queue!Loads : Queue!ControlTick(load)
  BY <1>1, <1>6 DEF Queue!ControlTick
<1>7. CASE Queue!StopReturns
  BY <1>1, <1>7 DEF Queue!StopReturns
<1>8. QED
  BY <1>1, <1>2, <1>3, <1>4, <1>5, <1>6, <1>7

\* The delivery takes it as the arrival of a job, or as nothing.
LEMMA QueueStepDelivers ==
  ASSUME Delivery!LoopIsFree, UNCHANGED deliveryVars, taken' = taken,
         \/ completion' = completion
         \/ \E j \in Jobs : /\ completion' = Append(completion, j)
                            /\ j \notin ToSet(completion) \cup taken
  PROVE  [DeliveryNext]_(DeliveryProofs!vars)
<1>1. CASE completion' = completion
  BY <1>1 DEF deliveryVars, DeliveryProofs!vars, DeliveryProofs!callVars,
              DeliveryProofs!parkVars, DeliveryProofs!sweepVars,
              DeliveryProofs!countVars
<1>2. ASSUME NEW j \in Jobs, completion' = Append(completion, j),
             j \notin ToSet(completion) \cup taken
      PROVE  DeliveryProofs!Finish(j)
  BY <1>2, SameDeliverer
     DEF deliveryVars, DeliveryProofs!Finish, DeliveryProofs!Arrived,
         DeliveryProofs!callVars, DeliveryProofs!parkVars,
         DeliveryProofs!sweepVars, DeliveryProofs!countVars, ToSet,
         DeliveryProofs!ToSet
<1>3. QED
  BY <1>1, <1>2 DEF DeliveryNext, DeliveryProofs!Next

\* A step of the delivery leaves the completion queue to the notifiers.
LEMMA DeliveryStepSeen ==
  ASSUME \/ \E d \in Delivery!Deliverers : Delivery!DelivererSteps(d)
         \/ Delivery!SweepSteps \/ Delivery!Tick
  PROVE  /\ DeliveryNext
         /\ UNCHANGED <<completion, taken>>
<1>1. DeliveryNext
  BY SameDeliverer, SameSweep DEF DeliveryNext, DeliveryProofs!Next
<1>2. UNCHANGED <<completion, taken>>
  BY DEF Delivery!DelivererSteps, Delivery!PostSucceeds,
         Delivery!PostRejected, Delivery!PostFails, Delivery!PostAgain,
         Delivery!SweepSteps, Delivery!SweepBegins, Delivery!SweepAbandons,
         Delivery!SweepRedelivers, Delivery!SweepNext, Delivery!Tick
<1>3. QED
  BY <1>1, <1>2

(***************************************************************************)
(* The invariant of the worker                                             *)
(***************************************************************************)

QueueInv == QueueProofs!TypeOK /\ QueueProofs!PlaceInv
PostInv  == DeliveryProofs!DeliveryInv /\ DeliveryProofs!StatusInv

\* What relates the two: core-api has seen results that notifiers have taken,
\* and a result that was taken and has no outcome yet is with a notifier, or
\* was when stop() began.
LinkInv ==
  /\ dropped \subseteq Jobs
  /\ seen \subseteq taken
  /\ \A j \in taken : deliveryStatus[j] = "pending" =>
       \/ \E n \in DeliveryProofs!Calls \cap Notifiers : holds[n] = j
       \/ phase \in {"stopping", "stopped"} /\ j \in dropped

WorkerInv == QueueInv /\ PostInv /\ LinkInv

LEMMA QueueInvKept == QueueInv /\ [QueueNext]_(QueueProofs!vars) => QueueInv'
BY QueueProofs!TypeStep, QueueProofs!PlaceStep, PartsAssumed
   DEF QueueInv, QueueNext

LEMMA PostInvKept == PostInv /\ [DeliveryNext]_(DeliveryProofs!vars) => PostInv'
<1> SUFFICES ASSUME PostInv, [DeliveryNext]_(DeliveryProofs!vars)
             PROVE  PostInv'
  OBVIOUS
<1>1. DeliveryProofs!TypeOK'
  BY DeliveryProofs!TypeStep, PartsAssumed DEF PostInv, DeliveryNext
<1>2. DeliveryProofs!CallInv'
  BY DeliveryProofs!CallInvStep, PartsAssumed DEF PostInv, DeliveryNext
<1>3. DeliveryProofs!StatusInv'
  BY DeliveryProofs!StatusStep, PartsAssumed DEF PostInv, DeliveryNext
<1>4. QED
  BY <1>1, <1>2, <1>3 DEF PostInv, DeliveryProofs!DeliveryInv

\* A step of the executor.
LEMMA WorkerQueueStep ==
  ASSUME WorkerInv, Delivery!LoopIsFree, UNCHANGED <<deliveryVars, dropped>>,
         \/ Queue!Requests \/ Queue!DispatcherRuns \/ Queue!DispatcherResumes
         \/ Queue!DispatcherTimesOut \/ \E j \in Jobs : Queue!TaskSteps(j)
         \/ \E load \in Queue!Loads : Queue!ControlTick(load)
         \/ Queue!StopReturns
  PROVE  WorkerInv'
<1>1. /\ QueueNext
      /\ taken' = taken
      /\ \/ completion' = completion
         \/ \E j \in Jobs : /\ completion' = Append(completion, j)
                            /\ j \notin ToSet(completion) \cup taken
      /\ phase \in {"stopping", "stopped"} => phase' \in {"stopping", "stopped"}
  BY QueueStepSeen DEF WorkerInv, QueueInv
<1>2. QueueInv'
  BY <1>1, QueueInvKept DEF WorkerInv
<1>3. PostInv'
  BY <1>1, QueueStepDelivers, PostInvKept DEF WorkerInv
<1>4. LinkInv'
  BY <1>1 DEF WorkerInv, LinkInv, deliveryVars, DeliveryProofs!Calls,
              DeliveryProofs!Deliverers
<1>5. QED
  BY <1>2, <1>3, <1>4 DEF WorkerInv

\* Whatever a POST of a deliverer brings to core-api, it had a taken job.
LEMMA SeenWasTaken ==
  ASSUME PostInv, seen \subseteq taken, taken \subseteq taken',
         \/ \E d \in Delivery!Deliverers : Delivery!DelivererSteps(d)
         \/ seen' = seen
  PROVE  seen' \subseteq taken'
<1>1. ASSUME NEW d \in Delivery!Deliverers, d \in posting
      PROVE  holds[d] \in taken
  <2>1. d \in DeliveryProofs!Calls
    BY <1>1 DEF PostInv, DeliveryProofs!DeliveryInv, DeliveryProofs!CallInv
  <2>2. QED
    BY <2>1, DeliveryProofs!CallHolds, PartsAssumed DEF PostInv
<1>2. ASSUME NEW d \in Delivery!Deliverers, Delivery!DelivererSteps(d)
      PROVE  seen' \subseteq taken'
  BY <1>1, <1>2 DEF Delivery!DelivererSteps, Delivery!PostSucceeds,
                    Delivery!PostRejected, Delivery!PostFails,
                    Delivery!PostAgain
<1>3. QED
  BY <1>2

\* A step of the delivery, and of the executor too when a notifier takes a job.
LEMMA WorkerDeliveryStep ==
  ASSUME WorkerInv, phase = "running", phase' = phase, dropped' = dropped,
         taken \subseteq taken', DeliveryNext,
         [QueueNext]_(QueueProofs!vars),
         \/ \E d \in Delivery!Deliverers : Delivery!DelivererSteps(d)
         \/ seen' = seen
  PROVE  WorkerInv'
<1>1. QueueInv' /\ PostInv'
  BY QueueInvKept, PostInvKept DEF WorkerInv
<1>2. seen' \subseteq taken'
  BY SeenWasTaken DEF WorkerInv, LinkInv
<1>3. DeliveryProofs!HeldInv
  BY DEF WorkerInv, LinkInv, DeliveryProofs!HeldInv
<1>4. DeliveryProofs!HeldInv'
  BY <1>3, DeliveryProofs!HeldStep, PartsAssumed
     DEF WorkerInv, PostInv, DeliveryNext
<1>5. LinkInv'
  BY <1>2, <1>4 DEF WorkerInv, LinkInv, DeliveryProofs!HeldInv
<1>6. QED
  BY <1>1, <1>5 DEF WorkerInv

\* stop() takes the results in hand from the notifiers without a word: they are
\* neither parked nor counted, which leaves the rest of the books true.
LEMMA WorkerStopBegins ==
  ASSUME WorkerInv, StopBegins
  PROVE  WorkerInv'
<1> USE DEF WorkerInv, PostInv, DeliveryProofs!DeliveryInv
<1>1. QueueInv'
  BY SameHandOver, QueueInvKept DEF StopBegins, QueueNext, QueueProofs!Next
<1>2. /\ UNCHANGED <<completion, taken, parked, age, sweepAge, deliveryStatus,
                     deliveredTotal, undeliveredTotal, abandonedTotal>>
      /\ phase' = "stopping"
      /\ holds' = [d \in DeliveryProofs!Deliverers |-> NoJob]
      /\ attempts' = [d \in DeliveryProofs!Deliverers |-> 0]
      /\ posting' = {}
      /\ sweep' = {}
      /\ dropped' = {holds[n] : n \in Notifiers} \ {NoJob}
  BY SameDeliverer DEF StopBegins, Queue!StopBegins, Queue!jobVars
<1>3. DeliveryProofs!Calls' = {}
  BY <1>2 DEF DeliveryProofs!Calls
<1>4. \A d \in posting : holds[d] \in taken
  BY DeliveryProofs!CallHolds, PartsAssumed DEF DeliveryProofs!CallInv
<1>5. seen \subseteq seen' /\ seen' \subseteq taken'
  BY <1>2, <1>4 DEF StopBegins, LinkInv
<1>6. /\ DeliveryProofs!AttemptLimit \in Nat
      /\ Sweeper \in DeliveryProofs!Deliverers
      /\ Notifiers \subseteq DeliveryProofs!Deliverers
  BY DeliveryProofs!Parties, PartsAssumed
<1>7. DeliveryProofs!TypeOK'
  BY <1>2, <1>5, <1>6 DEF DeliveryProofs!TypeOK
<1>8. DeliveryProofs!CallInv'
  <2>1. DeliveryProofs!OneDelivererPerResult'
    BY <1>2, <1>3, <1>6 DEF DeliveryProofs!OneDelivererPerResult
  <2>2. QED
    BY <1>2, <1>3, <2>1 DEF DeliveryProofs!CallInv
<1>9. DeliveryProofs!StatusInv'
  BY <1>2, <1>3, <1>5 DEF DeliveryProofs!StatusInv
<1>10. LinkInv'
  <2>1. dropped' \subseteq Jobs
    BY <1>2, <1>6 DEF DeliveryProofs!TypeOK
  <2>2. ASSUME NEW j \in taken, deliveryStatus[j] = "pending"
        PROVE  j \in dropped'
    <3>1. phase = "running"
      BY DEF StopBegins, Queue!StopBegins
    <3>2. PICK n \in DeliveryProofs!Calls \cap Notifiers : holds[n] = j
      BY <2>2, <3>1 DEF LinkInv
    <3>3. QED
      BY <1>2, <3>2 DEF DeliveryProofs!Calls
  <2>3. QED
    BY <1>2, <1>5, <2>1, <2>2 DEF LinkInv
<1>11. QED
  BY <1>1, <1>7, <1>8, <1>9, <1>10

LEMMA WorkerStep == WorkerInv /\ [Next]_vars => WorkerInv'
<1> SUFFICES ASSUME WorkerInv, [Next]_vars PROVE WorkerInv'
  OBVIOUS
<1>1. CASE \/ QueueStep(Requests) \/ QueueStep(DispatcherRuns)
           \/ QueueStep(DispatcherWakes) \/ QueueStep(DispatcherTimer)
           \/ \E j \in Jobs : QueueStep(Task(j))
           \/ QueueStep(Controller) \/ QueueStep(StopReturns)
  BY <1>1, WorkerQueueStep
     DEF QueueStep, Requests, DispatcherRuns, DispatcherWakes,
         DispatcherTimer, Task, Controller, StopReturns
<1>2. ASSUME UNCHANGED <<queueVars, completion, taken>>
      PROVE  UNCHANGED QueueProofs!vars /\ phase' = phase
  BY <1>2 DEF queueVars, QueueProofs!vars, QueueProofs!poolVars,
              QueueProofs!jobVars
<1>3. ASSUME NEW d \in Delivery!Deliverers, Deliverer(d) PROVE WorkerInv'
  BY <1>2, <1>3, DeliveryStepSeen, WorkerDeliveryStep
     DEF Deliverer, DeliveryStep
<1>4. CASE Sweep \/ Tick
  <2>1. seen' = seen
    BY <1>4 DEF Sweep, Tick, DeliveryStep, Delivery!SweepSteps,
                Delivery!SweepBegins, Delivery!SweepAbandons,
                Delivery!SweepRedelivers, Delivery!SweepNext, Delivery!Tick
  <2>2. QED
    BY <1>2, <1>4, <2>1, DeliveryStepSeen, WorkerDeliveryStep
       DEF Sweep, Tick, DeliveryStep
<1>5. ASSUME NEW n \in Notifiers, Notifier(n) PROVE WorkerInv'
  <2>1. QueueNext
    BY <1>5, SameHandOver DEF Notifier, QueueNext, QueueProofs!Next
  <2>2. DeliveryNext
    BY <1>5, SameNotifier DEF Notifier, DeliveryNext, DeliveryProofs!Next
  <2>3. /\ phase = "running"
        /\ phase' = phase
        /\ taken \subseteq taken'
        /\ dropped' = dropped
    BY <1>5 DEF Notifier, Queue!TakeCompletion
  <2>4. seen' = seen
    BY <1>5 DEF Notifier, Delivery!NotifierSteps, Delivery!NotifierDelivers,
                Delivery!NotifierSkips
  <2>5. QED
    BY <2>1, <2>2, <2>3, <2>4, WorkerDeliveryStep
<1>6. CASE StopBegins
  BY <1>6, WorkerStopBegins
<1>7. CASE UNCHANGED vars
  <2>1. UNCHANGED <<queueVars, completion, taken, deliveryVars, dropped>>
    BY <1>7 DEF vars
  <2>2. QueueInv' /\ PostInv'
    BY <1>2, <2>1, QueueInvKept, PostInvKept
       DEF WorkerInv, deliveryVars, DeliveryProofs!vars,
           DeliveryProofs!callVars, DeliveryProofs!parkVars,
           DeliveryProofs!sweepVars, DeliveryProofs!countVars
  <2>3. LinkInv'
    BY <2>1 DEF WorkerInv, LinkInv, queueVars, deliveryVars,
                DeliveryProofs!Calls, DeliveryProofs!Deliverers
  <2>4. QED
    BY <2>2, <2>3 DEF WorkerInv
<1>8. QED
  BY <1>1, <1>3, <1>4, <1>5, <1>6, <1>7 DEF Next, Stopped

LEMMA WorkerInit == Init => WorkerInv
<1> SUFFICES ASSUME Init PROVE WorkerInv
  OBVIOUS
<1>1. QueueProofs!Init
  BY DEF Init, Queue!Init, QueueProofs!Init, Queue!InitialTarget,
         QueueProofs!InitialTarget, Queue!MinWorkers, QueueProofs!MinWorkers,
         Queue!MaxWorkers, QueueProofs!MaxWorkers, Queue!AtLeast,
         QueueProofs!AtLeast, Queue!AtMost, QueueProofs!AtMost
<1>2. DeliveryProofs!Init
  BY DEF Init, Delivery!Init, DeliveryProofs!Init, Delivery!Deliverers,
         DeliveryProofs!Deliverers
<1>3. QueueInv
  BY <1>1, QueueProofs!TypeInit, QueueProofs!PlaceInit, PartsAssumed
     DEF QueueInv
<1>4. PostInv
  BY <1>2, DeliveryProofs!DeliveryInit, DeliveryProofs!StatusInit,
     PartsAssumed DEF PostInv
<1>5. LinkInv
  BY DEF Init, Delivery!Init, LinkInv
<1>6. QED
  BY <1>3, <1>4, <1>5 DEF WorkerInv

LEMMA WorkerKept == Spec => []WorkerInv
BY WorkerInit, WorkerStep, PTL DEF Spec

(***************************************************************************)
(* The worker                                                              *)
(***************************************************************************)

\* Whatever core-api receives, and whatever is on its way there, is the result
\* of a job that has ended: for any number of jobs, workers and notifiers, and
\* across stop().
THEOREM OnlyEndedJobsDelivered == Spec => []OnlyEndedJobsAreDelivered
<1>1. ASSUME WorkerInv, NEW j \in Jobs,
             j \in seen \/ \E d \in Delivery!Calls : holds[d] = j
      PROVE  status[j] \in Queue!Terminal
  <2>1. j \in taken
    BY <1>1, DeliveryProofs!CallHolds, PartsAssumed
       DEF WorkerInv, LinkInv, PostInv, Delivery!Calls,
           DeliveryProofs!Calls, Delivery!Deliverers,
           DeliveryProofs!Deliverers
  <2>2. QED
    BY <1>1, <2>1 DEF WorkerInv, QueueInv, QueueProofs!PlaceInv,
       QueueProofs!PlaceOf, QueueProofs!Reported, QueueProofs!Terminal,
       Queue!Terminal
<1>2. WorkerInv => OnlyEndedJobsAreDelivered
  BY <1>1 DEF OnlyEndedJobsAreDelivered
<1>3. QED
  BY <1>2, WorkerKept, PTL

\* A job that was handed over is on the completion queue, or was taken; and a
\* taken one is delivered, parked, given up, with a notifier or was with one
\* when stop() began.
LEMMA HandedOverIsSomewhere ==
  ASSUME WorkerInv, NEW j \in QueueProofs!Reported, j \in Jobs
  PROVE  \/ j \in ToSet(completion)
         \/ \E d \in Delivery!Calls : holds[d] = j
         \/ j \in parked
         \/ Delivery!Done(j)
         \/ j \in taken /\ Delivery!Abandoned(j)
         \/ phase # "running" /\ j \in dropped
<1>1. CASE j \in ToSet(completion)
  BY <1>1
<1>2. CASE j \in taken /\ deliveryStatus[j] = "pending"
  BY <1>2 DEF WorkerInv, LinkInv, Delivery!Calls, DeliveryProofs!Calls,
              Delivery!Deliverers, DeliveryProofs!Deliverers
<1>3. CASE j \in taken /\ deliveryStatus[j] = "undelivered"
  BY <1>3, WorkerAssumption DEF Delivery!Abandoned, Delivery!Calls
<1>4. CASE deliveryStatus[j] \in {"delivered", "skipped"}
  BY <1>4 DEF Delivery!Done
<1>5. QED
  BY <1>1, <1>2, <1>3, <1>4
     DEF QueueProofs!Reported, QueueProofs!ToSet, ToSet, WorkerInv, PostInv,
         DeliveryProofs!DeliveryInv, DeliveryProofs!TypeOK

\* Every job the worker has accepted can be found in one of the places it
\* passes through, in every state from submit() to the return of stop(); the
\* exceptions are named: a stranded job, and what stop() cuts off.
THEOREM NothingForgotten == Spec => []NothingIsForgotten
<1>1. ASSUME WorkerInv, NEW j \in Jobs, j \in active
      PROVE  \/ j \in ToSet(waiting)
             \/ task[j] \notin {"none", "ended"}
             \/ Queue!Stranded(j)
             \/ phase # "running" /\ status[j] = "queued" /\ j \in active
  BY <1>1 DEF WorkerInv, QueueInv, QueueProofs!PlaceInv,
     QueueProofs!PlaceOf, QueueProofs!MarkOf, QueueProofs!ToSet, ToSet,
     Queue!Stranded, Queue!ToSet
<1>2. ASSUME WorkerInv, NEW j \in Jobs, status[j] # "absent"
      PROVE  j \in active \/ j \in QueueProofs!Reported
  BY <1>2 DEF WorkerInv, QueueInv, QueueProofs!PlaceInv, QueueProofs!PlaceOf
<1>3. WorkerInv => NothingIsForgotten
  BY <1>1, <1>2, HandedOverIsSomewhere DEF NothingIsForgotten
<1>4. QED
  BY <1>3, WorkerKept, PTL

(***************************************************************************)
(* What the parts promise, in the worker                                   *)
(***************************************************************************)

LEMMA SameInit == Queue!Init <=> QueueProofs!Init
BY DEF Queue!Init, QueueProofs!Init, Queue!InitialTarget,
       QueueProofs!InitialTarget, Queue!MinWorkers, QueueProofs!MinWorkers,
       Queue!MaxWorkers, QueueProofs!MaxWorkers, Queue!AtLeast,
       QueueProofs!AtLeast, Queue!AtMost, QueueProofs!AtMost

LEMMA SameVars ==
  /\ UNCHANGED Queue!vars <=> UNCHANGED QueueProofs!vars
  /\ UNCHANGED Delivery!vars <=> UNCHANGED DeliveryProofs!vars
BY DEF Queue!vars, QueueProofs!vars, Queue!poolVars, QueueProofs!poolVars,
       Queue!jobVars, QueueProofs!jobVars, Delivery!vars, DeliveryProofs!vars,
       Delivery!callVars, DeliveryProofs!callVars, Delivery!parkVars,
       DeliveryProofs!parkVars, Delivery!sweepVars, DeliveryProofs!sweepVars,
       Delivery!countVars, DeliveryProofs!countVars

LEMMA SameFinish == \A j \in Jobs : Delivery!Finish(j) <=> DeliveryProofs!Finish(j)
BY SameDeliverer
   DEF Delivery!Finish, DeliveryProofs!Finish, Delivery!Arrived,
       DeliveryProofs!Arrived, Delivery!ToSet, DeliveryProofs!ToSet,
       Delivery!callVars, DeliveryProofs!callVars, Delivery!parkVars,
       DeliveryProofs!parkVars, Delivery!sweepVars, DeliveryProofs!sweepVars,
       Delivery!countVars, DeliveryProofs!countVars

LEMMA SameNext ==
  /\ Queue!Next <=> QueueNext
  /\ Delivery!Next <=> DeliveryNext
<1>1. Queue!Stopped <=> QueueProofs!Stopped
  BY SameVars DEF Queue!Stopped, QueueProofs!Stopped
<1>2. Queue!Next <=> QueueNext
  BY <1>1, SameRequests, SameDispatcher, SameTask, SameController, SameHandOver
     DEF Queue!Next, QueueNext, QueueProofs!Next
<1>3. Delivery!Next <=> DeliveryNext
  BY SameFinish, SameDeliverer, SameNotifier, SameSweep
     DEF Delivery!Next, DeliveryNext, DeliveryProofs!Next
<1>4. QED
  BY <1>2, <1>3

LEMMA QueueSteps == [Next]_vars => [QueueNext]_(QueueProofs!vars)
<1> SUFFICES ASSUME [Next]_vars PROVE [QueueNext]_(QueueProofs!vars)
  OBVIOUS
<1>1. CASE \/ QueueStep(Requests) \/ QueueStep(DispatcherRuns)
           \/ QueueStep(DispatcherWakes) \/ QueueStep(DispatcherTimer)
           \/ \E j \in Jobs : QueueStep(Task(j))
           \/ QueueStep(Controller) \/ QueueStep(StopReturns)
  BY <1>1, SameRequests, SameDispatcher, SameTask, SameController, SameHandOver
     DEF QueueStep, Requests, DispatcherRuns, DispatcherWakes,
         DispatcherTimer, Task, Controller, StopReturns, QueueNext,
         QueueProofs!Next
<1>2. CASE (\E n \in Notifiers : Notifier(n)) \/ StopBegins
  BY <1>2, SameHandOver DEF Notifier, StopBegins, QueueNext, QueueProofs!Next
<1>3. CASE (\E d \in Delivery!Deliverers : Deliverer(d)) \/ Sweep \/ Tick
  <2>1. UNCHANGED <<queueVars, completion, taken>>
    BY <1>3, DeliveryStepSeen DEF Deliverer, Sweep, Tick, DeliveryStep
  <2>2. QED
    BY <2>1 DEF queueVars, QueueProofs!vars, QueueProofs!poolVars, QueueProofs!jobVars
<1>4. CASE UNCHANGED vars
  BY <1>4 DEF vars, queueVars, QueueProofs!vars, QueueProofs!poolVars,
              QueueProofs!jobVars
<1>5. QED
  BY <1>1, <1>2, <1>3, <1>4 DEF Next, Stopped

\* But for stop(), each step of the worker is one of the delivery, or none of
\* its business.
LEMMA DeliverySteps ==
  WorkerInv /\ [Next]_vars => [DeliveryNext \/ StopBegins]_(DeliveryProofs!vars)
<1> SUFFICES ASSUME WorkerInv, [Next]_vars
             PROVE  [DeliveryNext \/ StopBegins]_(DeliveryProofs!vars)
  OBVIOUS
<1>1. CASE \/ QueueStep(Requests) \/ QueueStep(DispatcherRuns)
           \/ QueueStep(DispatcherWakes) \/ QueueStep(DispatcherTimer)
           \/ \E j \in Jobs : QueueStep(Task(j))
           \/ QueueStep(Controller) \/ QueueStep(StopReturns)
  <2>1. /\ Delivery!LoopIsFree /\ UNCHANGED <<deliveryVars, dropped>>
        /\ \/ Queue!Requests \/ Queue!DispatcherRuns \/ Queue!DispatcherResumes
           \/ Queue!DispatcherTimesOut \/ \E j \in Jobs : Queue!TaskSteps(j)
           \/ \E load \in Queue!Loads : Queue!ControlTick(load)
           \/ Queue!StopReturns
    BY <1>1 DEF QueueStep, Requests, DispatcherRuns, DispatcherWakes,
                DispatcherTimer, Task, Controller, StopReturns
  <2>2. QED
    BY <2>1, QueueStepSeen, QueueStepDelivers DEF WorkerInv, QueueInv
<1>2. CASE \E n \in Notifiers : Notifier(n)
  BY <1>2, SameNotifier DEF Notifier, DeliveryNext, DeliveryProofs!Next
<1>3. CASE (\E d \in Delivery!Deliverers : Deliverer(d)) \/ Sweep \/ Tick
  BY <1>3, DeliveryStepSeen DEF Deliverer, Sweep, Tick, DeliveryStep
<1>4. CASE UNCHANGED vars
  BY <1>4 DEF vars, deliveryVars, DeliveryProofs!vars, DeliveryProofs!callVars,
              DeliveryProofs!parkVars, DeliveryProofs!sweepVars,
              DeliveryProofs!countVars
<1>5. QED
  BY <1>1, <1>2, <1>3, <1>4 DEF Next, Stopped

\* The worker is an executor: whatever the notifiers and the sweep do to the
\* loop they share with it, it does nothing that the executor alone does not.
THEOREM WorkerIsAnExecutor == Spec => Queue!Spec
<1>1. Init => Queue!Init
  BY DEF Init
<1>2. [Next]_vars => [Queue!Next]_(Queue!vars)
  BY QueueSteps, SameNext, SameVars
<1>3. QED
  BY <1>1, <1>2, PTL DEF Spec, Queue!Spec

LEMMA ExecutorBehaves == Spec => QueueProofs!Spec
<1>1. Init => QueueProofs!Init
  BY SameInit DEF Init
<1>2. [Next]_vars => [QueueProofs!Next]_(QueueProofs!vars)
  BY QueueSteps DEF QueueNext
<1>3. QED
  BY <1>1, <1>2, PTL DEF Spec, QueueProofs!Spec

\* So what the executor promises on its own it keeps in the worker: no wake-up
\* is lost, the pool stays within its limit, a job is handed over once and
\* settled, and a cancellation that was accepted wins.
THEOREM ExecutorKeepsItsWord ==
  Spec => /\ []Queue!NoLostWakeup
          /\ []Queue!InflightBounded
          /\ []Queue!ReportedIsSettled
          /\ Queue!CancelWins
<1>1. QueueProofs!Spec => /\ []QueueProofs!NoLostWakeup
                          /\ []QueueProofs!InflightBounded
                          /\ []QueueProofs!ReportedIsSettled
                          /\ QueueProofs!CancelWins
  BY QueueProofs!WakeupNeverLost, QueueProofs!PoolNeverOverflows,
     QueueProofs!HandedOverSettled, QueueProofs!CancellationWins, PartsAssumed
<1>2. QueueProofs!NoLostWakeup => Queue!NoLostWakeup
  BY DEF Queue!NoLostWakeup, QueueProofs!NoLostWakeup, Queue!Inflight,
         QueueProofs!Inflight, Queue!Cardinality, QueueProofs!Cardinality
<1>3. QueueProofs!InflightBounded => Queue!InflightBounded
  BY DEF Queue!InflightBounded, QueueProofs!InflightBounded, Queue!Inflight,
         QueueProofs!Inflight, Queue!Cardinality, QueueProofs!Cardinality,
         Queue!MaxWorkers, QueueProofs!MaxWorkers, Queue!MinWorkers,
         QueueProofs!MinWorkers, Queue!AtLeast, QueueProofs!AtLeast
<1>4. QueueProofs!ReportedIsSettled => Queue!ReportedIsSettled
  BY DEF Queue!ReportedIsSettled, QueueProofs!ReportedIsSettled,
         Queue!Reported, QueueProofs!Reported, Queue!Terminal,
         QueueProofs!Terminal, Queue!IsInjective, QueueProofs!IsInjective,
         Queue!ToSet, QueueProofs!ToSet
<1>5. QueueProofs!CancelWins => Queue!CancelWins
  <2>1. [\A j \in cancelled : status'[j] # status[j] => status'[j] = "cancelled"]_(QueueProofs!vars)
          => [\A j \in cancelled : status'[j] # status[j] => status'[j] = "cancelled"]_(Queue!vars)
    BY SameVars
  <2>2. QED
    BY <2>1, PTL DEF QueueProofs!CancelWins, Queue!CancelWins
<1>6. QED
  BY <1>1, <1>2, <1>3, <1>4, <1>5, ExecutorBehaves, PTL

\* From outside, all that core-api sees of the worker's jobs is what
\* IngestPromise allows.
THEOREM WorkerKeepsPromise == Spec => QueueProofs!KeepsPromise
BY ExecutorBehaves, QueueProofs!ExecutorKeepsPromise, PartsAssumed, PTL

\* And the delivery does in the worker what it does alone, until stop() takes
\* its coroutines from it; what it says of a result stays true even then, and a
\* result never has two deliverers.
THEOREM DeliveryKeepsItsWord ==
  Spec => /\ [][Delivery!Next \/ StopBegins]_(Delivery!vars)
          /\ []Delivery!OneDelivererPerResult
          /\ []Delivery!StatusIsTrue
<1>1. WorkerInv /\ [Next]_vars => [Delivery!Next \/ StopBegins]_(Delivery!vars)
  BY DeliverySteps, SameNext, SameVars
<1>2. WorkerInv => Delivery!OneDelivererPerResult
  BY DEF WorkerInv, PostInv, DeliveryProofs!DeliveryInv, DeliveryProofs!CallInv,
         Delivery!OneDelivererPerResult, DeliveryProofs!OneDelivererPerResult,
         Delivery!Calls, DeliveryProofs!Calls, Delivery!Deliverers,
         DeliveryProofs!Deliverers
<1>3. WorkerInv => Delivery!StatusIsTrue
  <2> SUFFICES ASSUME WorkerInv, NEW j \in Jobs
               PROVE  /\ deliveryStatus[j] = "delivered" =>
                           j \in seen /\ j \notin parked
                      /\ deliveryStatus[j] = "skipped" =>
                           j \notin WithUrl \cup parked
                      /\ j \in parked => deliveryStatus[j] = "undelivered"
                      /\ deliveryStatus[j] = "pending" => j \notin parked
    BY DEF Delivery!StatusIsTrue
  <2>1. deliveryStatus[j] \in {"pending", "delivered", "undelivered", "skipped"}
    BY DEF WorkerInv, PostInv, DeliveryProofs!DeliveryInv, DeliveryProofs!TypeOK
  <2>2. QED
    BY <2>1 DEF WorkerInv, PostInv, DeliveryProofs!StatusInv
<1>4. QED
  BY <1>1, <1>2, <1>3, WorkerKept, PTL DEF Spec

\* Each variable of the worker has its type.
THEOREM WorkerTyped == Spec => []TypeOK
<1>1. QueueProofs!TypeOK => Queue!TypeOK
  BY DEF QueueProofs!TypeOK, Queue!TypeOK, Queue!Phase, QueueProofs!Phase,
         Queue!Dispatcher, QueueProofs!Dispatcher, Queue!TaskState,
         QueueProofs!TaskState, Queue!Status, QueueProofs!Status,
         Queue!Terminal, QueueProofs!Terminal, Queue!MinWorkers,
         QueueProofs!MinWorkers, Queue!MaxWorkers, QueueProofs!MaxWorkers,
         Queue!WaitingMax, QueueProofs!WaitingMax, Queue!AtLeast,
         QueueProofs!AtLeast, Queue!ToSet, QueueProofs!ToSet
<1>2. DeliveryProofs!TypeOK => Delivery!TypeOK
  BY SameDeliverer DEF DeliveryProofs!TypeOK, Delivery!TypeOK,
         Delivery!Deliverers, DeliveryProofs!Deliverers, Delivery!Ages,
         DeliveryProofs!Ages, Delivery!AttemptLimit, DeliveryProofs!AttemptLimit
<1>3. WorkerInv => TypeOK
  BY <1>1, <1>2 DEF WorkerInv, QueueInv, PostInv, LinkInv, TypeOK,
                    DeliveryProofs!DeliveryInv
<1>4. QED
  BY <1>3, WorkerKept, PTL
=============================================================================
