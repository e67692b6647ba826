------------------------- MODULE IngestQueueProofs -------------------------
(***************************************************************************)
(* Proofs about the executor, for every set of jobs and every setting.     *)
(***************************************************************************)
EXTENDS IngestQueueRefines, FiniteSetTheorems, SequenceTheorems, TLAPS

(***************************************************************************)
(* asyncio.Queue is a sequence, of which the proofs need the elements,     *)
(* their number and their repetitions.                                     *)
(***************************************************************************)

\* The elements of a queue, and how put() and get() change them.
LEMMA ToSetEmpty == ToSet(<<>>) = {}
BY DEF ToSet

LEMMA ToSetAppend ==
  ASSUME NEW S, NEW s \in Seq(S), NEW x \in S
  PROVE  ToSet(Append(s, x)) = ToSet(s) \cup {x}
<1>1. /\ Append(s, x) \in Seq(S)
      /\ Len(Append(s, x)) = Len(s) + 1
      /\ \A i \in 1..Len(s) : Append(s, x)[i] = s[i]
      /\ Append(s, x)[Len(s) + 1] = x
  BY AppendProperties
<1>2. DOMAIN s = 1..Len(s) /\ DOMAIN Append(s, x) = 1..(Len(s) + 1)
  BY <1>1
<1>3. Len(s) \in Nat
  OBVIOUS
<1>4. ASSUME NEW e \in ToSet(Append(s, x)) PROVE e \in ToSet(s) \cup {x}
  BY <1>1, <1>2, <1>3 DEF ToSet
<1>5. ASSUME NEW e \in ToSet(s) \cup {x} PROVE e \in ToSet(Append(s, x))
  BY <1>1, <1>2, <1>3 DEF ToSet
<1>6. QED
  BY <1>4, <1>5

\* A queue without repetitions stays one when a new element is put.
LEMMA InjectiveAppend ==
  ASSUME NEW S, NEW s \in Seq(S), NEW x \in S, IsInjective(s), x \notin ToSet(s)
  PROVE  IsInjective(Append(s, x))
<1>1. /\ Len(Append(s, x)) = Len(s) + 1
      /\ \A i \in 1..Len(s) : Append(s, x)[i] = s[i]
      /\ Append(s, x)[Len(s) + 1] = x
  BY AppendProperties
<1>2. DOMAIN s = 1..Len(s) /\ DOMAIN Append(s, x) = 1..(Len(s) + 1)
  BY AppendProperties
<1>3. Len(s) \in Nat
  OBVIOUS
<1>4. \A i \in 1..Len(s) : s[i] # x
  BY <1>2 DEF ToSet
<1>5. QED
  BY <1>1, <1>2, <1>3, <1>4 DEF IsInjective

\* What get() takes, and what it leaves.
LEMMA TailProperties ==
  ASSUME NEW S, NEW s \in Seq(S), s # <<>>
  PROVE  /\ Tail(s) \in Seq(S)
         /\ Len(Tail(s)) = Len(s) - 1
         /\ Head(s) \in ToSet(s)
         /\ ToSet(Tail(s)) \subseteq ToSet(s)
         /\ ToSet(s) = ToSet(Tail(s)) \cup {Head(s)}
         /\ IsInjective(s) => IsInjective(Tail(s)) /\ Head(s) \notin ToSet(Tail(s))
<1>1. /\ Tail(s) \in Seq(S)
      /\ Len(Tail(s)) = Len(s) - 1
      /\ \A i \in 1..Len(Tail(s)) : Tail(s)[i] = s[i + 1]
  BY HeadTailProperties
<1>2. DOMAIN s = 1..Len(s) /\ DOMAIN Tail(s) = 1..(Len(s) - 1)
  BY <1>1
<1>3. Len(s) \in Nat /\ Len(s) >= 1
  BY EmptySeq
<1>4. Head(s) = s[1]
  OBVIOUS
<1>5. Head(s) \in ToSet(s)
  BY <1>2, <1>3, <1>4 DEF ToSet
<1>6. ToSet(Tail(s)) \subseteq ToSet(s)
  <2>1. \A i \in DOMAIN Tail(s) : i + 1 \in DOMAIN s /\ Tail(s)[i] = s[i + 1]
    BY <1>1, <1>2, <1>3
  <2>2. QED
    BY <2>1 DEF ToSet
<1>7. ToSet(s) \subseteq ToSet(Tail(s)) \cup {Head(s)}
  <2>1. \A i \in DOMAIN s : i = 1 \/ (i - 1 \in DOMAIN Tail(s) /\ s[i] = Tail(s)[i - 1])
    BY <1>1, <1>2, <1>3
  <2>2. QED
    BY <2>1, <1>4 DEF ToSet
<1>8. IsInjective(s) => IsInjective(Tail(s))
  BY <1>1, <1>2, <1>3 DEF IsInjective
<1>9. IsInjective(s) => Head(s) \notin ToSet(Tail(s))
  BY <1>1, <1>2, <1>3, <1>4 DEF IsInjective, ToSet
<1>10. QED
  BY <1>1, <1>5, <1>6, <1>7, <1>8, <1>9

\* A sequence has no more elements than places.
LEMMA ToSetCardinality ==
  ASSUME NEW S, NEW s \in Seq(S)
  PROVE  /\ IsFiniteSet(ToSet(s))
         /\ Cardinality(ToSet(s)) \in Nat
         /\ Cardinality(ToSet(s)) <= Len(s)
<1>1. Len(s) \in Nat /\ DOMAIN s = 1..Len(s)
  OBVIOUS
<1>2. s \in Surjection(1..Len(s), ToSet(s))
  BY <1>1 DEF Surjection, ToSet
<1>3. IsFiniteSet(1..Len(s)) /\ Cardinality(1..Len(s)) = Len(s)
  BY <1>1, FS_Interval
<1>4. QED
  BY <1>2, <1>3, FS_Surjection, FS_CardinalityType

(***************************************************************************)
(* Limits                                                                  *)
(***************************************************************************)

\* What the constructor makes of any settings.
LEMMA Limits ==
  /\ WaitingMax \in Nat /\ WaitingMax >= 1
  /\ MinWorkers \in Nat /\ MinWorkers >= 1
  /\ MaxWorkers \in Nat /\ MaxWorkers >= MinWorkers
  /\ InitialTarget \in MinWorkers..MaxWorkers
BY QueueAssumption DEF WaitingMax, MinWorkers, MaxWorkers, InitialTarget,
                       AtLeast, AtMost

(***************************************************************************)
(* Type correctness                                                        *)
(***************************************************************************)

\* One step per handler; the pieces of TypeOK that a handler can disturb are
\* the sequences, the target and the functions it updates.
LEMMA TypeStep == TypeOK /\ [Next]_vars => TypeOK'
<1> SUFFICES ASSUME TypeOK, [Next]_vars PROVE TypeOK'
  OBVIOUS
<1> USE Limits DEF TypeOK, Phase, Dispatcher, TaskState, Status, Terminal
<1>1. CASE Start
  BY <1>1 DEF Start, jobVars
<1>2. ASSUME NEW j \in Jobs, Submit(j) PROVE TypeOK'
  <2>1. Append(waiting, j) \in Seq(Jobs) /\ Len(Append(waiting, j)) = Len(waiting) + 1
    BY AppendProperties
  <2>2. QED
    BY <1>2, <2>1 DEF Submit
<1>3. ASSUME NEW S \in SUBSET Jobs, CancelTasks(S) PROVE task' \in [Jobs -> TaskState]
  BY <1>3 DEF CancelTasks, TaskCancelled
<1>4. ASSUME NEW S \in SUBSET Jobs, CancelJobs(S) PROVE TypeOK'
  BY <1>3, <1>4 DEF CancelJobs
<1>5. ASSUME NEW j \in Jobs, Cancel(j) PROVE TypeOK'
  BY <1>4, <1>5 DEF Cancel
<1>6. ASSUME NEW kb \in KBs, CancelByKb(kb) PROVE TypeOK'
  <2>1. {j \in active : KbOf[j] = kb /\ status[j] \notin Terminal} \in SUBSET Jobs
    OBVIOUS
  <2>2. QED
    BY <1>4, <1>6, <2>1 DEF CancelByKb
<1>7. CASE Requests
  BY <1>1, <1>2, <1>5, <1>6, <1>7 DEF Requests
<1>8. ASSUME AdmitHead PROVE TypeOK'
  <2>1. waiting # <<>> /\ Head(waiting) \in Jobs /\ Tail(waiting) \in Seq(Jobs)
        /\ Len(Tail(waiting)) = Len(waiting) - 1
    BY <1>8, HeadTailProperties DEF AdmitHead
  <2>2. QED
    BY <1>8, <2>1 DEF AdmitHead, jobVars
<1>9. CASE DispatcherRuns
  BY <1>8, <1>9 DEF DispatcherRuns, DispatcherAdmits, DispatcherParksForSlot,
                    DispatcherParksForItem, jobVars
<1>10. CASE DispatcherResumes
  BY <1>8, <1>10 DEF DispatcherResumes, DispatcherStarts, DispatcherWakes,
                     DispatcherGetsItem, jobVars
<1>11. CASE DispatcherTimesOut
  BY <1>11 DEF DispatcherTimesOut, jobVars
<1>12. ASSUME NEW j \in Jobs, NEW outcome \in Status, EndJob(j, outcome)
       PROVE  TypeOK'
  <2>1. Append(completion, j) \in Seq(Jobs)
    BY AppendProperties
  <2>2. QED
    BY <1>12, <2>1 DEF EndJob
<1>13. ASSUME NEW j \in Jobs, TaskSteps(j) PROVE TypeOK'
  <2>1. CASE TaskSkips(j)
    BY <1>12, <2>1 DEF TaskSkips
  <2>2. CASE TaskBegins(j)
    BY <2>2 DEF TaskBegins
  <2>3. CASE TaskFinishes(j)
    BY <1>12, <2>3 DEF TaskFinishes
  <2>4. CASE TaskInterrupted(j)
    BY <1>12, <2>4 DEF TaskInterrupted
  <2>5. CASE TaskNeverRuns(j)
    BY <2>5 DEF TaskNeverRuns, jobVars
  <2>6. CASE OnJobDone(j)
    BY <2>6 DEF OnJobDone, jobVars
  <2>7. CASE TaskConcludes(j)
    BY <2>7 DEF TaskConcludes, poolVars
  <2>8. QED
    BY <1>13, <2>1, <2>2, <2>3, <2>4, <2>5, <2>6, <2>7 DEF TaskSteps
<1>14. ASSUME NEW load \in Loads, ControlTick(load) PROVE TypeOK'
  <2>1. NextTarget(load) \in MinWorkers..MaxWorkers
    BY DEF NextTarget, Grows, Shrinks
  <2>2. (slotFreed \/ target' # target) \in BOOLEAN
    OBVIOUS
  <2>3. QED
    BY <1>14, <2>1, <2>2 DEF ControlTick, jobVars
<1>15. CASE TakeCompletion
  <2>1. Head(completion) \in Jobs /\ Tail(completion) \in Seq(Jobs)
    BY <1>15, HeadTailProperties DEF TakeCompletion
  <2>2. QED
    BY <1>15, <2>1 DEF TakeCompletion, poolVars, jobVars
<1>16. CASE StopBegins
  BY <1>3, <1>16 DEF StopBegins, jobVars
<1>17. CASE StopReturns
  BY <1>17 DEF StopReturns, jobVars
<1>18. CASE UNCHANGED vars
  BY <1>18 DEF vars, poolVars, jobVars
<1>19. QED
  BY <1>7, <1>9, <1>10, <1>11, <1>13, <1>14, <1>15, <1>16, <1>17, <1>18
     DEF Next, Stopped

LEMMA TypeInit == Init => TypeOK
<1> SUFFICES ASSUME Init PROVE TypeOK
  OBVIOUS
<1>1. waiting \in Seq(Jobs) /\ completion \in Seq(Jobs) /\ Len(waiting) = 0
  BY EmptySeq DEF Init
<1>2. target \in MinWorkers..MaxWorkers /\ Len(waiting) <= WaitingMax
  BY Limits, <1>1 DEF Init
<1>3. /\ task \in [Jobs -> TaskState]
      /\ status \in [Jobs -> Status]
  BY DEF Init, TaskState, Status
<1>4. QED
  BY <1>1, <1>2, <1>3 DEF Init, TypeOK, Phase, Dispatcher

\* Every reachable state of the executor is well typed: in particular the
\* controller keeps the target between min_workers and max_workers, and the
\* waiting queue never exceeds waiting_max.
THEOREM TypeCorrect == Spec => []TypeOK
BY TypeInit, TypeStep, PTL DEF Spec

(***************************************************************************)
(* The number of jobs in flight                                            *)
(***************************************************************************)

\* InflightBounded is not inductive: a dispatcher that waits in get() admits
\* the next item whatever happens to the target, so what must be remembered is
\* that it had found a slot below max_workers when it began to wait, and that
\* nobody but the dispatcher adds to the jobs in flight.
BoundInv ==
  /\ Cardinality(Inflight) <= MaxWorkers
  /\ dispatcher = "get" => Cardinality(Inflight) < MaxWorkers

LEMMA InflightFinite ==
  /\ IsFiniteSet(Inflight)
  /\ Cardinality(Inflight) \in Nat
BY QueueAssumption, FS_Subset, FS_CardinalityType DEF Inflight

\* A step that gives nobody a task keeps the bound.
LEMMA InflightShrinks ==
  ASSUME BoundInv, \A j \in Jobs : task[j] = "none" => task'[j] = "none",
         dispatcher' = "get" => dispatcher = "get"
  PROVE  BoundInv'
<1>1. Inflight' \subseteq Inflight
  BY DEF Inflight
<1>2. /\ IsFiniteSet(Inflight')
      /\ Cardinality(Inflight') <= Cardinality(Inflight)
  BY <1>1, InflightFinite, FS_Subset
<1>3. Cardinality(Inflight') \in Nat
  BY <1>2, FS_CardinalityType
<1>4. QED
  BY <1>2, <1>3, InflightFinite, Limits DEF BoundInv

\* Admitting one item when there is room for it.
LEMMA AdmitBounded ==
  ASSUME TypeOK, AdmitHead, Cardinality(Inflight) < MaxWorkers
  PROVE  BoundInv'
<1> DEFINE h == Head(waiting)
<1>1. h \in Jobs
  BY HeadTailProperties DEF AdmitHead, TypeOK
<1>2. Inflight' = Inflight \cup {h}
  BY <1>1 DEF AdmitHead, Inflight, TypeOK
<1>3. Cardinality(Inflight') <= Cardinality(Inflight) + 1
  <2>1. Cardinality(Inflight \cup {h}) =
          IF h \in Inflight THEN Cardinality(Inflight) ELSE Cardinality(Inflight) + 1
    BY InflightFinite, FS_AddElement
  <2>2. QED
    BY <1>2, <2>1, InflightFinite
<1>4. Cardinality(Inflight') \in Nat
  BY <1>2, InflightFinite, FS_AddElement, FS_CardinalityType
<1>5. dispatcher' = "admit"
  BY DEF AdmitHead
<1>6. QED
  BY <1>3, <1>4, <1>5, InflightFinite, Limits DEF BoundInv

LEMMA BoundStep == TypeOK /\ BoundInv /\ [Next]_vars => BoundInv'
<1> SUFFICES ASSUME TypeOK, BoundInv, [Next]_vars PROVE BoundInv'
  OBVIOUS
<1> USE DEF TypeOK
<1>1. CASE Start
  BY <1>1, InflightShrinks DEF Start
<1>2. ASSUME NEW j \in Jobs, Submit(j) PROVE BoundInv'
  BY <1>2, InflightShrinks DEF Submit
<1>3. ASSUME NEW S, CancelTasks(S)
      PROVE  \A j \in Jobs : task[j] = "none" => task'[j] = "none"
  BY <1>3 DEF CancelTasks, TaskCancelled
<1>4. ASSUME NEW S, CancelJobs(S) PROVE BoundInv'
  BY <1>3, <1>4, InflightShrinks DEF CancelJobs
<1>5. CASE Requests
  BY <1>1, <1>2, <1>4, <1>5 DEF Requests, Cancel, CancelByKb
<1>6. CASE DispatcherAdmits
  <2>1. Cardinality(Inflight) < MaxWorkers
    BY <1>6, InflightFinite, Limits DEF DispatcherAdmits
  <2>2. QED
    BY <1>6, <2>1, AdmitBounded DEF DispatcherAdmits
<1>7. CASE DispatcherParksForSlot
  BY <1>7, InflightShrinks DEF DispatcherParksForSlot
\* The only step that begins the wait in get(): it has just seen a slot.
<1>8. CASE DispatcherParksForItem
  <2>1. Cardinality(Inflight) < MaxWorkers
    BY <1>8, InflightFinite, Limits DEF DispatcherParksForItem
  <2>2. Inflight' = Inflight
    BY <1>8 DEF DispatcherParksForItem, Inflight
  <2>3. QED
    BY <2>1, <2>2, InflightFinite, Limits DEF BoundInv
<1>9. CASE DispatcherGetsItem
  BY <1>9, AdmitBounded DEF DispatcherGetsItem, BoundInv
<1>10. CASE DispatcherStarts \/ DispatcherWakes \/ DispatcherTimesOut
  BY <1>10, InflightShrinks
     DEF DispatcherStarts, DispatcherWakes, DispatcherTimesOut
<1>11. ASSUME NEW j \in Jobs, NEW outcome, EndJob(j, outcome), task[j] # "none"
       PROVE  BoundInv'
  BY <1>11, InflightShrinks DEF EndJob
<1>12. ASSUME NEW j \in Jobs, TaskSteps(j) PROVE BoundInv'
  <2>1. CASE TaskSkips(j) \/ TaskFinishes(j) \/ TaskInterrupted(j)
    BY <1>11, <2>1 DEF TaskSkips, TaskFinishes, TaskInterrupted
  <2>2. CASE TaskBegins(j)
    BY <2>2, InflightShrinks DEF TaskBegins
  <2>3. CASE TaskNeverRuns(j)
    BY <2>3, InflightShrinks DEF TaskNeverRuns
  <2>4. CASE OnJobDone(j)
    BY <2>4, InflightShrinks DEF OnJobDone
  <2>5. CASE TaskConcludes(j)
    BY <2>5, InflightShrinks DEF TaskConcludes, poolVars
  <2>6. QED
    BY <1>12, <2>1, <2>2, <2>3, <2>4, <2>5 DEF TaskSteps
<1>13. ASSUME NEW load \in Loads, ControlTick(load) PROVE BoundInv'
  BY <1>13, InflightShrinks DEF ControlTick
<1>14. CASE TakeCompletion
  BY <1>14, InflightShrinks DEF TakeCompletion, poolVars
<1>15. CASE StopBegins
  BY <1>3, <1>15, InflightShrinks DEF StopBegins
<1>16. CASE StopReturns
  BY <1>16, InflightShrinks DEF StopReturns
<1>17. CASE UNCHANGED vars
  BY <1>17, InflightShrinks DEF vars, poolVars
<1>18. QED
  BY <1>5, <1>6, <1>7, <1>8, <1>9, <1>10, <1>12, <1>13, <1>14, <1>15, <1>16,
     <1>17 DEF Next, DispatcherRuns, DispatcherResumes, Stopped

LEMMA PoolBounded == Spec => []BoundInv
<1>1. Init => BoundInv
  <2> SUFFICES ASSUME Init PROVE BoundInv
    OBVIOUS
  <2>1. Inflight = {}
    BY DEF Init, Inflight
  <2>2. QED
    BY <2>1, FS_EmptySet, Limits DEF Init, BoundInv
<1>2. QED
  BY <1>1, BoundStep, TypeCorrect, PTL DEF Spec

\* At no time are more than max_workers jobs in flight, however the target
\* floats and whenever the items arrive.
THEOREM PoolNeverOverflows == Spec => []InflightBounded
<1>1. BoundInv => InflightBounded
  BY DEF BoundInv, InflightBounded
<1>2. QED
  BY <1>1, PoolBounded, PTL

(***************************************************************************)
(* The dispatcher's event                                                  *)
(***************************************************************************)

\* A step that leaves the jobs in flight and the target alone, sends nobody to
\* wait for a slot and clears no event.
LEMMA WakeupKept ==
  ASSUME NoLostWakeup, Inflight' = Inflight, target' = target,
         dispatcher' = "slot" => dispatcher = "slot", slotFreed => slotFreed'
  PROVE  NoLostWakeup'
BY DEF NoLostWakeup

\* Task.cancel() gives nobody a task and takes nobody's away.
LEMMA CancelKeepsInflight ==
  ASSUME TypeOK, NEW S, CancelTasks(S)
  PROVE  Inflight' = Inflight
BY DEF CancelTasks, TaskCancelled, Inflight, TypeOK, TaskState

LEMMA WakeupStep == TypeOK /\ NoLostWakeup /\ [Next]_vars => NoLostWakeup'
<1> SUFFICES ASSUME TypeOK, NoLostWakeup, [Next]_vars PROVE NoLostWakeup'
  OBVIOUS
<1> USE DEF TypeOK
<1>1. CASE Start
  BY <1>1 DEF Start, NoLostWakeup
<1>2. ASSUME NEW j \in Jobs, Submit(j) PROVE NoLostWakeup'
  BY <1>2, WakeupKept DEF Submit, Inflight
<1>3. ASSUME NEW S, CancelJobs(S) PROVE NoLostWakeup'
  BY <1>3, WakeupKept, CancelKeepsInflight DEF CancelJobs
<1>4. CASE Requests
  BY <1>1, <1>2, <1>3, <1>4 DEF Requests, Cancel, CancelByKb
\* The one step that clears the event has just seen that there is no slot.
<1>5. CASE DispatcherParksForSlot
  <2>1. Inflight' = Inflight
    BY <1>5 DEF DispatcherParksForSlot, Inflight
  <2>2. ~(Cardinality(Inflight') < target')
    BY <1>5, <2>1, InflightFinite, Limits DEF DispatcherParksForSlot
  <2>3. QED
    BY <2>2 DEF NoLostWakeup
<1>6. CASE DispatcherAdmits \/ DispatcherParksForItem \/ DispatcherResumes
             \/ DispatcherTimesOut
  BY <1>6 DEF DispatcherAdmits, DispatcherParksForItem, DispatcherResumes,
              DispatcherStarts, DispatcherWakes, DispatcherGetsItem, AdmitHead,
              DispatcherTimesOut, NoLostWakeup
<1>7. ASSUME NEW j \in Jobs, TaskSteps(j) PROVE NoLostWakeup'
  <2>1. ASSUME NEW outcome, EndJob(j, outcome), task[j] # "none"
        PROVE  NoLostWakeup'
    BY <2>1, WakeupKept DEF EndJob, Inflight
  <2>2. CASE TaskSkips(j) \/ TaskFinishes(j) \/ TaskInterrupted(j)
    BY <2>1, <2>2 DEF TaskSkips, TaskFinishes, TaskInterrupted
  <2>3. CASE TaskBegins(j) \/ TaskConcludes(j) \/ TaskNeverRuns(j)
    BY <2>3, WakeupKept
       DEF TaskBegins, TaskConcludes, TaskNeverRuns, Inflight, poolVars
  \* The callback frees the slot and sets the event.
  <2>4. CASE OnJobDone(j)
    BY <2>4 DEF OnJobDone, NoLostWakeup
  <2>5. QED
    BY <1>7, <2>2, <2>3, <2>4 DEF TaskSteps
\* A target that moves sets the event as well.
<1>8. ASSUME NEW load \in Loads, ControlTick(load) PROVE NoLostWakeup'
  <2>1. CASE target' = target
    BY <1>8, <2>1, WakeupKept DEF ControlTick, Inflight
  <2>2. CASE target' # target
    BY <1>8, <2>2 DEF ControlTick, NoLostWakeup
  <2>3. QED
    BY <2>1, <2>2
<1>9. CASE TakeCompletion
  BY <1>9, WakeupKept DEF TakeCompletion, Inflight, poolVars
<1>10. CASE StopBegins
  BY <1>10, WakeupKept, CancelKeepsInflight DEF StopBegins
<1>11. CASE StopReturns
  BY <1>11 DEF StopReturns, NoLostWakeup
<1>12. CASE UNCHANGED vars
  BY <1>12, WakeupKept DEF vars, poolVars, Inflight
<1>13. QED
  BY <1>4, <1>5, <1>6, <1>7, <1>8, <1>9, <1>10, <1>11, <1>12
     DEF Next, DispatcherRuns, Stopped

\* Whatever the jobs and the settings, a dispatcher parked for a slot while one
\* is free has been told: the 0.5 s timeout of wait_for is only a precaution.
THEOREM WakeupNeverLost == Spec => []NoLostWakeup
<1>1. Init => NoLostWakeup
  BY DEF Init, NoLostWakeup
<1>2. QED
  BY <1>1, WakeupStep, TypeCorrect, PTL DEF Spec

(***************************************************************************)
(* Where a job is                                                          *)
(***************************************************************************)

\* ReportedIsSettled says what is true of a job when it is handed over.  That
\* it stays true rests on where every job is before: what each place (unknown,
\* in the queue, with a task in one of its states, handed over) implies of the
\* job's status, of _active_jobs and of _cancelled.
PlaceOf(j) ==
  /\ status[j] = "absent" =>
       j \notin ToSet(waiting) /\ j \notin active /\ task[j] = "none"
  /\ j \in ToSet(waiting) =>
       status[j] = "queued" /\ j \in active /\ task[j] = "none"
  /\ task[j] \in {"created", "doomed"} => status[j] = "queued" /\ j \in active
  /\ task[j] = "running" => j \in active /\ j \notin cancelled
  /\ task[j] = "cancelling" => j \in active
  /\ j \in Reported => status[j] \in Terminal /\ j \notin active
  /\ status[j] # "absent" => j \in active \/ j \in Reported
  /\ j \in active /\ j \notin ToSet(waiting) /\ task[j] \in {"none", "ended"} =>
       status[j] = "queued"

\* Marked jobs are known ones; while the worker is open, a task cancelled
\* before its first step was cancelled by a user, and a known job that is
\* neither waiting nor executing is one of those.
MarkOf(j) ==
  /\ j \in cancelled => j \in active
  /\ phase = "running" /\ task[j] = "doomed" => j \in cancelled
  /\ phase = "running" /\ j \in active =>
       \/ j \in ToSet(waiting)
       \/ task[j] \notin {"none", "ended"}
       \/ j \in cancelled
  /\ phase = "new" => j \notin active

PlaceInv ==
  /\ IsInjective(waiting)
  /\ IsInjective(completion)
  /\ ToSet(completion) \cap taken = {}
  /\ \A j \in Jobs : PlaceOf(j) /\ MarkOf(j)

\* A step that changes neither of the two queues nor what was taken.
LEMMA PlaceKept ==
  ASSUME PlaceInv, UNCHANGED <<waiting, completion, taken>>,
         \A k \in Jobs : PlaceOf(k)' /\ MarkOf(k)'
  PROVE  PlaceInv'
BY DEF PlaceInv

\* A submitted job was unknown: it is in no place yet.
LEMMA PlaceSubmit ==
  ASSUME TypeOK, PlaceInv, NEW j \in Jobs, Submit(j)
  PROVE  PlaceInv'
<1> USE DEF TypeOK
<1>1. /\ j \notin ToSet(waiting)
      /\ j \notin Reported
      /\ task[j] = "none"
  BY DEF Submit, PlaceInv, PlaceOf, Terminal
<1>2. ToSet(waiting') = ToSet(waiting) \cup {j} /\ IsInjective(waiting')
  BY <1>1, ToSetAppend, InjectiveAppend DEF Submit, PlaceInv
<1>3. Reported' = Reported
  BY DEF Submit, Reported
<1>4. ASSUME NEW k \in Jobs PROVE PlaceOf(k)' /\ MarkOf(k)'
  BY <1>1, <1>2, <1>3 DEF Submit, PlaceInv, PlaceOf, MarkOf
<1>5. QED
  BY <1>2, <1>4 DEF Submit, PlaceInv

\* Only known jobs are marked, and a mark reaches the task of each.
LEMMA PlaceCancel ==
  ASSUME TypeOK, PlaceInv, NEW S \in SUBSET active, CancelJobs(S)
  PROVE  PlaceInv'
<1>1. Reported' = Reported
  BY DEF CancelJobs, Reported
<1>2. ASSUME NEW k \in Jobs PROVE PlaceOf(k)' /\ MarkOf(k)'
  BY <1>1 DEF TypeOK, CancelJobs, CancelTasks, TaskCancelled, PlaceInv,
              PlaceOf, MarkOf
<1>3. QED
  BY <1>2, PlaceKept DEF CancelJobs

\* The job at the head leaves the queue, where it was once, and gets a task.
LEMMA PlaceAdmit ==
  ASSUME TypeOK, PlaceInv, AdmitHead
  PROVE  PlaceInv'
<1> DEFINE h == Head(waiting)
<1>1. /\ h \in Jobs
      /\ IsInjective(waiting')
      /\ ToSet(waiting) = ToSet(waiting') \cup {h}
      /\ h \notin ToSet(waiting')
  BY TailProperties, HeadTailProperties DEF AdmitHead, TypeOK, PlaceInv
<1>2. Reported' = Reported
  BY DEF AdmitHead, Reported
<1>3. ASSUME NEW k \in Jobs PROVE PlaceOf(k)' /\ MarkOf(k)'
  <2>1. task' = [task EXCEPT ![h] = "created"]
    BY DEF AdmitHead
  <2>2. status[h] = "queued" /\ h \in active /\ h \notin Reported
    BY <1>1 DEF PlaceInv, PlaceOf, Terminal
  <2>3. PlaceOf(k) /\ MarkOf(k)
    BY DEF PlaceInv
  <2>4. UNCHANGED <<phase, active, cancelled, status>>
    BY DEF AdmitHead, jobVars
  <2> HIDE DEF h
  <2>5. CASE k = h
    BY <1>1, <1>2, <2>1, <2>2, <2>3, <2>4, <2>5 DEF TypeOK, PlaceOf, MarkOf
  <2>6. CASE k # h
    BY <1>1, <1>2, <2>1, <2>3, <2>4, <2>6 DEF TypeOK, PlaceOf, MarkOf
  <2>7. QED
    BY <2>5, <2>6
<1>4. QED
  BY <1>1, <1>3 DEF AdmitHead, PlaceInv

\* The finally clause hands over a job that is known, so never one that was
\* handed over before.
LEMMA PlaceEnd ==
  ASSUME TypeOK, PlaceInv, NEW j \in Jobs, NEW outcome \in Terminal,
         task[j] \in {"created", "running", "cancelling"}, EndJob(j, outcome)
  PROVE  PlaceInv'
<1> USE DEF TypeOK
<1>1. j \in active /\ j \notin Reported /\ j \notin ToSet(waiting)
  BY DEF PlaceInv, PlaceOf
<1>2. ToSet(completion') = ToSet(completion) \cup {j} /\ IsInjective(completion')
  BY <1>1, ToSetAppend, InjectiveAppend DEF EndJob, PlaceInv, Reported
<1>3. Reported' = Reported \cup {j}
  BY <1>2 DEF EndJob, Reported
<1>4. ToSet(completion') \cap taken' = {}
  BY <1>1, <1>2 DEF EndJob, PlaceInv, Reported
<1>5. ASSUME NEW k \in Jobs PROVE PlaceOf(k)' /\ MarkOf(k)'
  <2>1. CASE k = j
    BY <1>1, <1>3, <2>1 DEF EndJob, PlaceInv, PlaceOf, MarkOf, Terminal
  <2>2. CASE k # j
    BY <1>3, <2>2 DEF EndJob, PlaceInv, PlaceOf, MarkOf
  <2>3. QED
    BY <2>1, <2>2
<1>6. QED
  BY <1>2, <1>4, <1>5 DEF EndJob, PlaceInv

LEMMA PlaceTask ==
  ASSUME TypeOK, PlaceInv, NEW j \in Jobs, TaskSteps(j)
  PROVE  PlaceInv'
<1> USE DEF TypeOK
<1>1. CASE TaskSkips(j)
  BY <1>1, PlaceEnd DEF TaskSkips, Terminal
<1>2. CASE TaskFinishes(j)
  BY <1>2, PlaceEnd DEF TaskFinishes, Terminal
<1>3. CASE TaskInterrupted(j)
  BY <1>3, PlaceEnd DEF TaskInterrupted, Terminal
<1>4. ASSUME TaskBegins(j) \/ TaskConcludes(j) \/ TaskNeverRuns(j) \/ OnJobDone(j)
      PROVE  UNCHANGED <<phase, waiting, active, cancelled, completion, taken>>
  BY <1>4 DEF TaskBegins, TaskConcludes, TaskNeverRuns, OnJobDone, jobVars,
              poolVars
<1>5. CASE TaskBegins(j)
  <2>1. ASSUME NEW k \in Jobs PROVE PlaceOf(k)' /\ MarkOf(k)'
    BY <1>4, <1>5 DEF TaskBegins, PlaceInv, PlaceOf, MarkOf, Reported, Terminal
  <2>2. QED
    BY <1>4, <1>5, <2>1, PlaceKept
<1>6. CASE TaskConcludes(j)
  <2>1. j \notin Reported /\ j \notin ToSet(waiting)
    BY <1>6 DEF TaskConcludes, PlaceInv, PlaceOf, Terminal
  <2>2. ASSUME NEW k \in Jobs PROVE PlaceOf(k)' /\ MarkOf(k)'
    BY <1>4, <1>6, <2>1
       DEF TaskConcludes, PlaceInv, PlaceOf, MarkOf, Reported, poolVars
  <2>3. QED
    BY <1>4, <1>6, <2>2, PlaceKept
<1>7. CASE TaskNeverRuns(j)
  <2>1. ASSUME NEW k \in Jobs PROVE PlaceOf(k)' /\ MarkOf(k)'
    BY <1>4, <1>7
       DEF TaskNeverRuns, PlaceInv, PlaceOf, MarkOf, Reported, jobVars
  <2>2. QED
    BY <1>4, <1>7, <2>1, PlaceKept
<1>8. CASE OnJobDone(j)
  <2>1. ASSUME NEW k \in Jobs PROVE PlaceOf(k)' /\ MarkOf(k)'
    BY <1>4, <1>8 DEF OnJobDone, PlaceInv, PlaceOf, MarkOf, Reported, jobVars
  <2>2. QED
    BY <1>4, <1>8, <2>1, PlaceKept
<1>9. QED
  BY <1>1, <1>2, <1>3, <1>5, <1>6, <1>7, <1>8 DEF TaskSteps

\* A notifier moves the head of the completion queue: it stays reported.
LEMMA PlaceTake ==
  ASSUME TypeOK, PlaceInv, TakeCompletion
  PROVE  PlaceInv'
<1>1. /\ IsInjective(completion')
      /\ ToSet(completion) = ToSet(completion') \cup {Head(completion)}
      /\ Head(completion) \notin ToSet(completion')
  BY TailProperties DEF TakeCompletion, TypeOK, PlaceInv
<1>2. Reported' = Reported /\ ToSet(completion') \cap taken' = {}
  BY <1>1 DEF TakeCompletion, PlaceInv, Reported
<1>3. QED
  BY <1>1, <1>2 DEF TakeCompletion, PlaceInv, PlaceOf, MarkOf, poolVars, jobVars

LEMMA PlaceStep == TypeOK /\ PlaceInv /\ [Next]_vars => PlaceInv'
<1> SUFFICES ASSUME TypeOK, PlaceInv, [Next]_vars PROVE PlaceInv'
  OBVIOUS
<1>1. ASSUME UNCHANGED <<waiting, task, active, cancelled, status, completion,
                         taken>>,
             phase' = phase \/ (phase' = "running" /\ phase = "new")
      PROVE  PlaceInv'
  <2>1. ASSUME NEW k \in Jobs PROVE PlaceOf(k)' /\ MarkOf(k)'
    BY <1>1 DEF PlaceInv, PlaceOf, MarkOf, Reported
  <2>2. QED
    BY <1>1, <2>1, PlaceKept
<1>2. CASE Requests
  <2>1. CASE Start
    BY <1>1, <2>1 DEF Start, jobVars
  <2>2. ASSUME NEW j \in Jobs, Cancel(j) PROVE PlaceInv'
    BY <2>2, PlaceCancel DEF Cancel
  <2>3. ASSUME NEW kb \in KBs, CancelByKb(kb) PROVE PlaceInv'
    BY <2>3, PlaceCancel DEF CancelByKb
  <2>4. QED
    BY <1>2, <2>1, <2>2, <2>3, PlaceSubmit DEF Requests
<1>3. CASE DispatcherRuns \/ DispatcherResumes \/ DispatcherTimesOut
  <2>1. CASE AdmitHead
    BY <2>1, PlaceAdmit
  <2>2. CASE \/ DispatcherParksForSlot \/ DispatcherParksForItem
             \/ DispatcherStarts \/ DispatcherWakes \/ DispatcherTimesOut
    BY <1>1, <2>2 DEF DispatcherParksForSlot, DispatcherParksForItem,
                      DispatcherStarts, DispatcherWakes, DispatcherTimesOut,
                      jobVars
  <2>3. QED
    BY <1>3, <2>1, <2>2 DEF DispatcherRuns, DispatcherResumes,
                            DispatcherAdmits, DispatcherGetsItem
<1>4. ASSUME NEW j \in Jobs, TaskSteps(j) PROVE PlaceInv'
  BY <1>4, PlaceTask
<1>5. ASSUME NEW load \in Loads, ControlTick(load) PROVE PlaceInv'
  BY <1>1, <1>5 DEF ControlTick, jobVars
<1>6. CASE TakeCompletion
  BY <1>6, PlaceTake
<1>7. CASE StopBegins
  <2>1. ASSUME NEW k \in Jobs PROVE PlaceOf(k)' /\ MarkOf(k)'
    BY <1>7 DEF StopBegins, CancelTasks, TaskCancelled, jobVars, TypeOK,
                PlaceInv, PlaceOf, MarkOf, Reported
  <2>2. QED
    BY <1>7, <2>1, PlaceKept DEF StopBegins
<1>8. CASE StopReturns
  <2>1. ASSUME NEW k \in Jobs PROVE PlaceOf(k)' /\ MarkOf(k)'
    BY <1>8 DEF StopReturns, jobVars, TypeOK, PlaceInv, PlaceOf, MarkOf,
                Reported
  <2>2. QED
    BY <1>8, <2>1, PlaceKept DEF StopReturns
<1>9. CASE UNCHANGED vars
  BY <1>1, <1>9 DEF vars, poolVars, jobVars
<1>10. QED
  BY <1>2, <1>3, <1>4, <1>5, <1>6, <1>7, <1>8, <1>9 DEF Next, Stopped

LEMMA PlaceInit == Init => PlaceInv
<1> SUFFICES ASSUME Init PROVE PlaceInv
  OBVIOUS
<1>1. ToSet(waiting) = {} /\ ToSet(completion) = {}
  BY ToSetEmpty DEF Init
<1>2. IsInjective(waiting) /\ IsInjective(completion)
  BY DEF Init, IsInjective
<1>3. ASSUME NEW k \in Jobs PROVE PlaceOf(k) /\ MarkOf(k)
  BY <1>1 DEF Init, PlaceOf, MarkOf, Reported
<1>4. QED
  BY <1>1, <1>2, <1>3 DEF PlaceInv

LEMMA Placed == Spec => []PlaceInv
BY PlaceInit, PlaceStep, TypeCorrect, PTL DEF Spec

\* A job handed over for delivery has its final status and has left the
\* cancellation bookkeeping; it is handed over once, whatever is submitted,
\* cancelled or stopped in between.
THEOREM HandedOverSettled == Spec => []ReportedIsSettled
<1>1. TypeOK /\ PlaceInv => ReportedIsSettled
  <2> SUFFICES ASSUME TypeOK, PlaceInv PROVE ReportedIsSettled
    OBVIOUS
  <2>1. ToSet(completion) \subseteq Jobs
    BY DEF TypeOK, ToSet
  <2>2. ASSUME NEW j \in Reported PROVE status[j] \in Terminal /\ j \notin active
    BY <2>1 DEF TypeOK, PlaceInv, PlaceOf, Reported
  <2>3. cancelled \subseteq active
    BY DEF TypeOK, PlaceInv, MarkOf
  <2>4. QED
    BY <2>2, <2>3 DEF ReportedIsSettled, PlaceInv
<1>2. QED
  BY <1>1, Placed, TypeCorrect, PTL

\* The status of a job whose cancellation was accepted only ever becomes
\* "cancelled": the step that would make it anything else needs a job that is
\* unknown, or a task that nobody has cancelled.
LEMMA CancelWinsStep ==
  ASSUME TypeOK, PlaceInv, [Next]_vars, NEW j \in cancelled,
         status'[j] # status[j]
  PROVE  status'[j] = "cancelled"
<1> USE DEF TypeOK
<1>1. j \in Jobs /\ j \in active /\ task[j] # "running" /\ status[j] # "absent"
  BY DEF PlaceInv, PlaceOf, MarkOf
<1>2. CASE Requests
  BY <1>1, <1>2 DEF Requests, Start, Submit, Cancel, CancelByKb, CancelJobs,
                    jobVars
<1>3. CASE DispatcherRuns \/ DispatcherResumes \/ DispatcherTimesOut
  BY <1>3 DEF DispatcherRuns, DispatcherAdmits, DispatcherParksForSlot,
              DispatcherParksForItem, DispatcherResumes, DispatcherStarts,
              DispatcherWakes, DispatcherGetsItem, AdmitHead,
              DispatcherTimesOut, jobVars
<1>4. ASSUME NEW k \in Jobs, TaskSteps(k) PROVE status'[j] = "cancelled"
  <2>1. CASE TaskSkips(k)
    BY <2>1 DEF TaskSkips, EndJob
  <2>2. CASE TaskBegins(k)
    BY <2>2 DEF TaskBegins
  <2>3. CASE TaskFinishes(k)
    BY <1>1, <2>3 DEF TaskFinishes, EndJob
  <2>4. CASE TaskInterrupted(k)
    BY <2>4 DEF TaskInterrupted, EndJob
  <2>5. CASE TaskConcludes(k)
    BY <1>1, <2>5 DEF TaskConcludes
  <2>6. CASE TaskNeverRuns(k) \/ OnJobDone(k)
    BY <2>6 DEF TaskNeverRuns, OnJobDone, jobVars
  <2>7. QED
    BY <1>4, <2>1, <2>2, <2>3, <2>4, <2>5, <2>6 DEF TaskSteps
<1>5. CASE \/ \E load \in Loads : ControlTick(load)
           \/ TakeCompletion \/ StopBegins \/ StopReturns \/ UNCHANGED vars
  BY <1>5 DEF ControlTick, TakeCompletion, StopBegins, StopReturns, vars,
              jobVars
<1>6. QED
  BY <1>2, <1>3, <1>4, <1>5 DEF Next, Stopped

\* An accepted cancellation decides the outcome, waiting, running or caught by
\* stop(), for any number of jobs and knowledge bases.
THEOREM CancellationWins == Spec => CancelWins
<1>1. TypeOK /\ PlaceInv /\ [Next]_vars =>
        [\A j \in cancelled :
           status'[j] # status[j] => status'[j] = "cancelled"]_vars
  BY CancelWinsStep
<1>2. QED
  BY <1>1, Placed, TypeCorrect, PTL DEF Spec, CancelWins

(***************************************************************************)
(* That the executor implements IngestPromise: the initial states map to   *)
(* initial states, and each step maps to a step of the promise or to a     *)
(* stutter.                                                                *)
(***************************************************************************)

\* What IngestPromise calls executing and outcome.
Executing  == {j \in Jobs : task[j] \notin {"none", "ended"}}
OutcomeMap == [j \in Jobs |-> IF j \in Reported THEN status[j] ELSE "none"]

\* Every executing job has a task, so there are at most as many of them.
LEMMA ExecutingBounded ==
  /\ IsFiniteSet(Executing)
  /\ Cardinality(Executing) \in Nat
  /\ Cardinality(Executing) <= Cardinality(Inflight)
<1>1. Executing \subseteq Inflight
  BY DEF Executing, Inflight
<1>2. QED
  BY <1>1, InflightFinite, FS_Subset, FS_CardinalityType

\* The invariants the steps below rest on.
RefineInv == TypeOK /\ BoundInv /\ PlaceInv

\* IngestPromise counts with its own instance of FiniteSets.
LEMMA SameCardinality == \A S : Promise!Cardinality(S) = Cardinality(S)
BY DEF Cardinality, Promise!Cardinality

LEMMA RefineSubmit ==
  ASSUME RefineInv, NEW j \in Jobs, Submit(j)
  PROVE  Promise!Accept(j)
<1> USE DEF RefineInv, TypeOK
<1>1. /\ j \notin ToSet(waiting)
      /\ task[j] = "none"
      /\ j \notin cancelled
      /\ j \notin Reported
  BY DEF Submit, PlaceInv, PlaceOf, MarkOf, Terminal
<1>2. ToSet(waiting') = ToSet(waiting) \cup {j}
  BY ToSetAppend DEF Submit
<1>3. Cardinality(ToSet(waiting)) < WaitingMax
  BY ToSetCardinality, Limits DEF Submit
<1>4. Reported' = Reported /\ Executing' = Executing
  BY DEF Submit, Reported, Executing
<1>5. OutcomeMap' = OutcomeMap
  BY <1>1, <1>4 DEF Submit, OutcomeMap
<1>6. QED
  BY <1>1, <1>2, <1>3, <1>4, <1>5, SameCardinality
     DEF Submit, Promise!Accept, Executing, OutcomeMap

LEMMA RefineCancel ==
  ASSUME RefineInv, NEW S \in SUBSET active, CancelJobs(S)
  PROVE  \E T \in SUBSET Jobs : Promise!Ask(T)
<1> USE DEF RefineInv, TypeOK
<1>1. S \in SUBSET Jobs
  OBVIOUS
<1>2. S \subseteq ToSet(waiting) \cup Executing \cup cancelled
  BY DEF CancelJobs, PlaceInv, MarkOf, Executing
<1>3. Executing' = Executing
  BY DEF CancelJobs, CancelTasks, TaskCancelled, Executing
<1>4. OutcomeMap' = OutcomeMap
  BY DEF CancelJobs, OutcomeMap, Reported
<1>5. Promise!Ask(S)
  BY <1>2, <1>3, <1>4 DEF CancelJobs, Promise!Ask, Executing, OutcomeMap
<1>6. QED
  BY <1>1, <1>5

LEMMA RefineAdmit ==
  ASSUME RefineInv, AdmitHead, Cardinality(Inflight) < MaxWorkers
  PROVE  \E j \in Jobs : Promise!Execute(j)
<1> USE DEF RefineInv, TypeOK
<1> PICK h \in Jobs : h = Head(waiting)
  BY HeadTailProperties DEF AdmitHead
<1>1. /\ h \in ToSet(waiting)
      /\ ToSet(waiting') = ToSet(waiting) \ {h}
  BY TailProperties DEF AdmitHead, PlaceInv
<1>2. Cardinality(Executing) < MaxWorkers
  BY ExecutingBounded, InflightFinite, Limits
<1>3. Executing' = Executing \cup {h}
  BY <1>1 DEF AdmitHead, Executing
<1>4. OutcomeMap' = OutcomeMap
  BY DEF AdmitHead, OutcomeMap, Reported, jobVars
<1>5. UNCHANGED <<phase, cancelled>>
  BY DEF AdmitHead, jobVars
<1>6. Promise!Execute(h)
  BY <1>1, <1>2, <1>3, <1>4, <1>5, SameCardinality
     DEF Promise!Execute, Executing, OutcomeMap
<1>7. QED
  BY <1>6

LEMMA RefineEnd ==
  ASSUME RefineInv, NEW j \in Jobs, NEW outcome \in Terminal,
         task[j] \in {"created", "running", "cancelling"}, EndJob(j, outcome),
         j \in cancelled <=> outcome = "cancelled"
  PROVE  Promise!Report(j, outcome)
<1> USE DEF RefineInv, TypeOK
<1>1. j \notin Reported
  BY DEF PlaceInv, PlaceOf
<1>2. Reported' = Reported \cup {j}
  BY ToSetAppend DEF EndJob, Reported
<1>3. Executing' = Executing \ {j} /\ j \in Executing
  BY DEF EndJob, Executing
<1>4. OutcomeMap' = [OutcomeMap EXCEPT ![j] = outcome]
  BY <1>2 DEF EndJob, OutcomeMap
<1>5. QED
  BY <1>3, <1>4 DEF EndJob, Promise!Report, Executing, OutcomeMap

\* What a step must leave alone to be a stutter of the promise.
LEMMA RefineStutter ==
  ASSUME UNCHANGED <<phase, ToSet(waiting), Executing, cancelled, OutcomeMap>>
  PROVE  UNCHANGED Promise!vars
BY DEF Promise!vars, Executing, OutcomeMap

LEMMA RefineTask ==
  ASSUME RefineInv, NEW j \in Jobs, TaskSteps(j)
  PROVE  \/ \E o \in Promise!Outcomes : Promise!Report(j, o)
         \/ Promise!Strand(j)
         \/ UNCHANGED Promise!vars
<1> USE DEF RefineInv, TypeOK
<1>1. ASSUME NEW o \in Terminal, Promise!Report(j, o)
      PROVE  \E p \in Promise!Outcomes : Promise!Report(j, p)
  BY <1>1 DEF Terminal, Promise!Outcomes
<1>2. CASE TaskSkips(j)
  BY <1>1, <1>2, RefineEnd DEF TaskSkips, Terminal
\* A running task belongs to a job that nobody has cancelled.
<1>3. CASE TaskFinishes(j)
  <2>1. PICK o \in {"completed", "failed"} : EndJob(j, o)
    BY <1>3 DEF TaskFinishes
  <2>2. task[j] = "running" /\ j \notin cancelled
    BY <1>3 DEF TaskFinishes, PlaceInv, PlaceOf
  <2>3. Promise!Report(j, o)
    BY <2>1, <2>2, RefineEnd DEF Terminal
  <2>4. QED
    BY <1>1, <2>3 DEF Terminal
<1>4. CASE TaskInterrupted(j)
  <2>1. PICK o \in Terminal : o = IF j \in cancelled THEN "cancelled" ELSE "failed"
    BY DEF Terminal
  <2>2. Promise!Report(j, o)
    BY <1>4, <2>1, RefineEnd DEF TaskInterrupted
  <2>3. QED
    BY <1>1, <2>2
\* The status of a job that is not reported yet is invisible.
<1>5. CASE TaskBegins(j) \/ TaskConcludes(j)
  <2>1. j \notin Reported
    BY <1>5 DEF TaskBegins, TaskConcludes, PlaceInv, PlaceOf
  <2>2. Reported' = Reported
    BY <1>5 DEF TaskBegins, TaskConcludes, Reported
  <2>3. OutcomeMap' = OutcomeMap
    BY <1>5, <2>1, <2>2 DEF TaskBegins, TaskConcludes, OutcomeMap
  <2>4. Executing' = Executing
    BY <1>5 DEF TaskBegins, TaskConcludes, Executing, poolVars
  <2>5. QED
    BY <1>5, <2>3, <2>4, RefineStutter
       DEF TaskBegins, TaskConcludes, poolVars
\* While the worker is open, such a task was cancelled by a user.
<1>6. CASE TaskNeverRuns(j)
  <2>1. j \in cancelled \/ phase # "running"
    BY <1>6 DEF TaskNeverRuns, PlaceInv, MarkOf
  <2>2. Executing' = Executing \ {j} /\ j \in Executing
    BY <1>6 DEF TaskNeverRuns, Executing
  <2>3. OutcomeMap' = OutcomeMap
    BY <1>6 DEF TaskNeverRuns, OutcomeMap, Reported, jobVars
  <2>4. Promise!Strand(j)
    BY <1>6, <2>1, <2>2, <2>3
       DEF TaskNeverRuns, jobVars, Promise!Strand, Executing, OutcomeMap
  <2>5. QED
    BY <2>4
<1>7. CASE OnJobDone(j)
  <2>1. Executing' = Executing
    BY <1>7 DEF OnJobDone, Executing
  <2>2. OutcomeMap' = OutcomeMap
    BY <1>7 DEF OnJobDone, OutcomeMap, Reported, jobVars
  <2>3. QED
    BY <1>7, <2>1, <2>2, RefineStutter DEF OnJobDone, jobVars
<1>8. QED
  BY <1>2, <1>3, <1>4, <1>5, <1>6, <1>7 DEF TaskSteps

LEMMA RefineStep == RefineInv /\ [Next]_vars => [Promise!Next]_(Promise!vars)
<1> SUFFICES ASSUME RefineInv, [Next]_vars
             PROVE  Promise!Next \/ UNCHANGED Promise!vars
  OBVIOUS
<1>1. ASSUME UNCHANGED <<phase, waiting, task, cancelled, status, completion,
                         taken>>
      PROVE  UNCHANGED Promise!vars
  BY <1>1, RefineStutter DEF Executing, OutcomeMap, Reported
<1>2. CASE Requests
  <2>1. CASE Start
    BY <2>1 DEF Start, jobVars, Promise!Next, Promise!Open, Reported
  <2>2. ASSUME NEW j \in Jobs, Submit(j) PROVE Promise!Next
    BY <2>2, RefineSubmit DEF Promise!Next
  <2>3. ASSUME NEW S \in SUBSET active, CancelJobs(S) PROVE Promise!Next
    BY <2>3, RefineCancel DEF Promise!Next
  <2>4. QED
    BY <1>2, <2>1, <2>2, <2>3 DEF Requests, Cancel, CancelByKb
<1>3. CASE DispatcherRuns \/ DispatcherResumes \/ DispatcherTimesOut
  <2>1. ASSUME AdmitHead, DispatcherAdmits \/ DispatcherGetsItem
        PROVE  Promise!Next
    <3>1. Cardinality(Inflight) < MaxWorkers
      BY <2>1, InflightFinite, Limits
         DEF DispatcherAdmits, DispatcherGetsItem, RefineInv, TypeOK, BoundInv
    <3>2. QED
      BY <2>1, <3>1, RefineAdmit DEF Promise!Next
  <2>2. CASE \/ DispatcherParksForSlot \/ DispatcherParksForItem
             \/ DispatcherStarts \/ DispatcherWakes \/ DispatcherTimesOut
    BY <1>1, <2>2 DEF DispatcherParksForSlot, DispatcherParksForItem,
                      DispatcherStarts, DispatcherWakes, DispatcherTimesOut,
                      jobVars
  <2>3. QED
    BY <1>3, <2>1, <2>2 DEF DispatcherRuns, DispatcherResumes,
                            DispatcherAdmits, DispatcherGetsItem
<1>4. ASSUME NEW j \in Jobs, TaskSteps(j)
      PROVE  Promise!Next \/ UNCHANGED Promise!vars
  BY <1>4, RefineTask DEF Promise!Next
<1>5. CASE \E load \in Loads : ControlTick(load)
  BY <1>1, <1>5 DEF ControlTick, jobVars
\* A result that a notifier has taken is still reported.
<1>6. CASE TakeCompletion
  <2>1. Reported' = Reported
    BY <1>6, TailProperties DEF TakeCompletion, Reported, RefineInv, TypeOK
  <2>2. UNCHANGED <<phase, waiting, task, cancelled, status>>
    BY <1>6 DEF TakeCompletion, poolVars, jobVars
  <2>3. QED
    BY <2>1, <2>2, RefineStutter DEF Executing, OutcomeMap
<1>7. CASE StopBegins
  <2>1. Executing' = Executing
    BY <1>7 DEF StopBegins, CancelTasks, TaskCancelled, Executing, RefineInv,
                TypeOK
  <2>2. OutcomeMap' = OutcomeMap
    BY <1>7 DEF StopBegins, OutcomeMap, Reported, jobVars
  <2>3. Promise!Close
    BY <1>7, <2>1, <2>2
       DEF StopBegins, jobVars, Promise!Close, Executing, OutcomeMap
  <2>4. QED
    BY <2>3 DEF Promise!Next
<1>8. CASE StopReturns
  <2>1. Executing' = Executing
    BY <1>8 DEF StopReturns, Executing
  <2>2. OutcomeMap' = OutcomeMap
    BY <1>8 DEF StopReturns, OutcomeMap, Reported, jobVars
  <2>3. UNCHANGED <<phase = "running", ToSet(waiting), cancelled>>
    BY <1>8 DEF StopReturns, jobVars
  <2>4. QED
    BY <2>1, <2>2, <2>3 DEF Promise!vars, Executing, OutcomeMap
<1>9. CASE UNCHANGED vars
  BY <1>1, <1>9 DEF vars, poolVars, jobVars
<1>10. QED
  BY <1>2, <1>3, <1>4, <1>5, <1>6, <1>7, <1>8, <1>9 DEF Next, Stopped

\* Whatever the jobs, the limits and the load, the executor is the bounded
\* backlog of IngestPromise: it accepts within its capacity, executes within
\* its slots, reports each job at most once, reports "cancelled" exactly for
\* the jobs whose cancellation it accepted, and leaves without an outcome only
\* jobs that were cancelled or caught by stop().
THEOREM ExecutorKeepsPromise == Spec => KeepsPromise
<1>1. Init => Promise!Init
  BY ToSetEmpty DEF Init, Promise!Init, Reported
<1>2. Spec => []RefineInv
  BY TypeCorrect, PoolBounded, Placed, PTL DEF RefineInv
<1>3. QED
  BY <1>1, <1>2, RefineStep, PTL DEF Spec, KeepsPromise, Promise!Spec
=============================================================================
