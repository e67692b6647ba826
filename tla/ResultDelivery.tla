--------------------------- MODULE ResultDelivery ---------------------------
(***************************************************************************)
(* How the terminal result of a job reaches core-api: deliver_result and   *)
(* _post of src/jobs/webhook.py, retry_async of src/retry, and the         *)
(* notifiers and the redelivery sweep of src/jobs/queue.py.                *)
(*                                                                         *)
(* The finished jobs arrive on the completion queue.  Two notifiers take   *)
(* them and call deliver_result, which POSTs with a bounded number of      *)
(* attempts; a result that does not land is parked in _undelivered, and    *)
(* one slow sweep re-sends the parked results until they are too old.      *)
(* core-api and the network are the environment: a POST can be answered,   *)
(* rejected, lost, or received although the caller gets an error.          *)
(*                                                                         *)
(* Time is the age of each parked result, in units of an arbitrary tick    *)
(* and saturating just above the limit, so that every delay, timeout and   *)
(* sweep interval is possible between two ticks.                           *)
(***************************************************************************)
EXTENDS Integers, FiniteSets, Sequences, SequencesExt

CONSTANTS
  Jobs,         (* the jobs that may finish                                  *)
  WithUrl,      (* those submitted with a webhook_url                        *)
  Refused,      (* those core-api rejects for good (4xx): a bad token, say   *)
  Notifiers,    (* the completion-queue consumers                            *)
  Sweeper,      (* the redelivery loop                                       *)
  NoJob,
  MaxAttempts,  (* webhook_max_attempts, as configured                       *)
  MaxAge        (* redelivery_max_age, in ticks                              *)

ASSUME DeliveryAssumption ==
  /\ IsFiniteSet(Jobs)
  /\ IsFiniteSet(Notifiers)
  /\ WithUrl \subseteq Jobs
  /\ Refused \subseteq Jobs
  /\ NoJob \notin Jobs
  /\ Sweeper \notin Notifiers
  /\ MaxAttempts \in Int
  /\ MaxAge \in Nat

VARIABLES
  completion,      (* _completion                                            *)
  taken,           (* history: the jobs the notifiers have taken from it     *)
  holds,           (* the job each deliverer is delivering                   *)
  posting,         (* the deliverers with a POST in flight (the others that  *)
                   (* hold a job are in the backoff sleep)                   *)
  attempts,        (* POSTs made in each deliverer's current call            *)
  parked,          (* the keys of _undelivered                               *)
  age,             (* time since a parked result first failed                *)
  sweep,           (* the jobs the current sweep has still to visit          *)
  sweepAge,        (* their ages when the sweep took its snapshot            *)
  deliveryStatus,  (* job.delivery_status                                    *)
  deliveredTotal,  (* the three counters of /queue/stats                     *)
  undeliveredTotal,
  abandonedTotal,
  seen             (* the results core-api has received                      *)

callVars   == <<holds, posting, attempts>>
parkVars   == <<parked, age>>
sweepVars  == <<sweep, sweepAge>>
countVars  == <<deliveredTotal, undeliveredTotal, abandonedTotal>>
vars       == <<completion, taken, callVars, parkVars, sweepVars,
                deliveryStatus, countVars, seen>>

Deliverers == Notifiers \cup {Sweeper}
Ages       == 0..(MaxAge + 1)

\* max_retries = max(0, max_attempts - 1), and one attempt more than that.
AttemptLimit == IF MaxAttempts < 1 THEN 1 ELSE MaxAttempts

TypeOK ==
  /\ completion \in Seq(Jobs)
  /\ taken \subseteq Jobs
  /\ holds \in [Deliverers -> Jobs \cup {NoJob}]
  /\ posting \subseteq Deliverers
  /\ attempts \in [Deliverers -> 0..AttemptLimit]
  /\ parked \subseteq Jobs
  /\ age \in [Jobs -> Ages]
  /\ sweep \subseteq Jobs
  /\ sweepAge \in [Jobs -> Ages]
  /\ deliveryStatus \in
       [Jobs -> {"pending", "delivered", "undelivered", "skipped"}]
  /\ deliveredTotal \in Nat
  /\ undeliveredTotal \in Nat
  /\ abandonedTotal \in Nat
  /\ seen \subseteq Jobs

Init ==
  /\ completion = <<>>
  /\ taken = {}
  /\ holds = [d \in Deliverers |-> NoJob]
  /\ posting = {}
  /\ attempts = [d \in Deliverers |-> 0]
  /\ parked = {}
  /\ age = [j \in Jobs |-> 0]
  /\ sweep = {}
  /\ sweepAge = [j \in Jobs |-> 0]
  /\ deliveryStatus = [j \in Jobs |-> "pending"]
  /\ deliveredTotal = 0
  /\ undeliveredTotal = 0
  /\ abandonedTotal = 0
  /\ seen = {}

Arrived == ToSet(completion) \cup taken

\* Between two items of a sweep the redelivery loop does not suspend.
LoopIsFree == sweep = {} \/ holds[Sweeper] # NoJob

-----------------------------------------------------------------------------
(* The executor hands a finished job over: module IngestQueue               *)

Finish(j) ==
  /\ LoopIsFree
  /\ j \notin Arrived
  /\ completion' = Append(completion, j)
  /\ UNCHANGED <<taken, callVars, parkVars, sweepVars, deliveryStatus,
                 countVars, seen>>

-----------------------------------------------------------------------------
(* deliver_result                                                          *)

\* The first POST of a call.
BeginCall(d, j) ==
  /\ holds' = [holds EXCEPT ![d] = j]
  /\ attempts' = [attempts EXCEPT ![d] = 1]
  /\ posting' = posting \cup {d}

EndCall(d) ==
  /\ holds' = [holds EXCEPT ![d] = NoJob]
  /\ attempts' = [attempts EXCEPT ![d] = 0]
  /\ posting' = posting \ {d}

\* Mutant: a redelivered result stays in the redelivery set.
LandStillParked(j) ==
  /\ deliveryStatus' = [deliveryStatus EXCEPT ![j] = "delivered"]
  /\ deliveredTotal' = deliveredTotal + 1
  /\ UNCHANGED <<parkVars, undeliveredTotal, abandonedTotal>>

\* Mutant: the status is not written.
LandUnrecorded(j) ==
  /\ deliveredTotal' = deliveredTotal + 1
  /\ parked' = parked \ {j}
  /\ UNCHANGED <<age, deliveryStatus, undeliveredTotal, abandonedTotal>>

\* _deliver after a success.
Land(j) ==
  /\ deliveryStatus' = [deliveryStatus EXCEPT ![j] = "delivered"]
  /\ deliveredTotal' = deliveredTotal + 1
  /\ parked' = parked \ {j}
  /\ UNCHANGED <<age, undeliveredTotal, abandonedTotal>>

\* _deliver after a failure: _mark_undelivered leaves a job that is already
\* parked alone, so that it ages from its first failure.
Park(j) ==
  /\ deliveryStatus' = [deliveryStatus EXCEPT ![j] = "undelivered"]
  /\ UNCHANGED <<deliveredTotal, abandonedTotal>>
  /\ \/ /\ j \in parked
        /\ UNCHANGED <<parkVars, undeliveredTotal>>
     \/ /\ j \notin parked
        /\ parked' = parked \cup {j}
        /\ age' = [age EXCEPT ![j] = 0]
        /\ undeliveredTotal' = undeliveredTotal + 1

\* < 300.
PostSucceeds(d) ==
  LET j == holds[d] IN
  /\ LoopIsFree
  /\ d \in posting
  /\ j \notin Refused
  /\ seen' = seen \cup {j}
  /\ Land(j)
  /\ EndCall(d)
  /\ UNCHANGED <<completion, taken, sweepVars>>

\* A 4xx is not retried by this call.
PostRejected(d) ==
  LET j == holds[d] IN
  /\ LoopIsFree
  /\ d \in posting
  /\ j \in Refused
  /\ Park(j)
  /\ EndCall(d)
  /\ UNCHANGED <<completion, taken, sweepVars, seen>>

\* Mutant: a result is parked at its first failed attempt, while the call goes
\* on retrying.
PostFailsParksEarly(d) ==
  LET j == holds[d] IN
  /\ LoopIsFree
  /\ d \in posting
  /\ Park(j)
  /\ \/ /\ attempts[d] < AttemptLimit
        /\ posting' = posting \ {d}
        /\ UNCHANGED <<holds, attempts>>
     \/ /\ attempts[d] = AttemptLimit
        /\ EndCall(d)
  /\ UNCHANGED <<completion, taken, sweepVars, seen>>

\* A transport error, a timeout, a 5xx or a 429: core-api may have received
\* the result all the same.  Another attempt follows, if one is left.
PostFails(d) ==
  LET j == holds[d] IN
  /\ LoopIsFree
  /\ d \in posting
  /\ \/ UNCHANGED seen
     \/ j \notin Refused /\ seen' = seen \cup {j}
  /\ \/ /\ attempts[d] < AttemptLimit
        /\ posting' = posting \ {d}
        /\ UNCHANGED <<holds, attempts, parkVars, deliveryStatus, countVars>>
     \/ /\ attempts[d] = AttemptLimit
        /\ Park(j)
        /\ EndCall(d)
  /\ UNCHANGED <<completion, taken, sweepVars>>

\* The backoff sleep ends.
PostAgain(d) ==
  /\ LoopIsFree
  /\ holds[d] # NoJob
  /\ d \notin posting
  /\ posting' = posting \cup {d}
  /\ attempts' = [attempts EXCEPT ![d] = @ + 1]
  /\ UNCHANGED <<completion, taken, holds, parkVars, sweepVars,
                 deliveryStatus, countVars, seen>>

-----------------------------------------------------------------------------
(* The notifiers                                                           *)

Take(n) ==
  /\ LoopIsFree
  /\ holds[n] = NoJob
  /\ completion # <<>>
  /\ completion' = Tail(completion)
  /\ taken' = taken \cup {Head(completion)}

NotifierDelivers(n) ==
  /\ Take(n)
  /\ Head(completion) \in WithUrl
  /\ BeginCall(n, Head(completion))
  /\ UNCHANGED <<parkVars, sweepVars, deliveryStatus, countVars, seen>>

\* Without a webhook_url there is nothing to deliver, and it counts as done.
NotifierSkips(n) ==
  /\ Take(n)
  /\ Head(completion) \notin WithUrl
  /\ deliveryStatus' = [deliveryStatus EXCEPT ![Head(completion)] = "skipped"]
  /\ deliveredTotal' = deliveredTotal + 1
  /\ UNCHANGED <<callVars, parkVars, sweepVars, undeliveredTotal,
                 abandonedTotal, seen>>

-----------------------------------------------------------------------------
(* The redelivery sweep                                                    *)

\* The sweep takes a snapshot of the parked results and of the clock.
SweepBegins ==
  /\ LoopIsFree
  /\ holds[Sweeper] = NoJob
  /\ parked # {}
  /\ sweep' = parked
  /\ sweepAge' = age
  /\ UNCHANGED <<completion, taken, callVars, parkVars, deliveryStatus,
                 countVars, seen>>

\* Results are visited in the order in which they were parked.
SweepNext(j) ==
  /\ holds[Sweeper] = NoJob
  /\ j \in sweep
  /\ \A k \in sweep : sweepAge[k] <= sweepAge[j]
  /\ sweep' = sweep \ {j}
  /\ UNCHANGED <<completion, taken, sweepAge, age, deliveryStatus,
                 deliveredTotal, undeliveredTotal, seen>>

\* Mutant: the age limit itself is already too old.
SweepAbandonsEarly(j) ==
  /\ SweepNext(j)
  /\ sweepAge[j] >= MaxAge
  /\ parked' = parked \ {j}
  /\ abandonedTotal' = abandonedTotal + 1
  /\ UNCHANGED callVars

\* Mutant: an abandoned result is not counted.
SweepAbandonsSilently(j) ==
  /\ SweepNext(j)
  /\ sweepAge[j] > MaxAge
  /\ parked' = parked \ {j}
  /\ UNCHANGED <<callVars, abandonedTotal>>

SweepAbandons(j) ==
  /\ SweepNext(j)
  /\ sweepAge[j] > MaxAge
  /\ parked' = parked \ {j}
  /\ abandonedTotal' = abandonedTotal + 1
  /\ UNCHANGED callVars

SweepRedelivers(j) ==
  /\ SweepNext(j)
  /\ sweepAge[j] <= MaxAge
  /\ BeginCall(Sweeper, j)
  /\ UNCHANGED <<parked, abandonedTotal>>

-----------------------------------------------------------------------------

\* Time passes.
Tick ==
  /\ LoopIsFree
  /\ parked # {}
  /\ age' = [j \in Jobs |-> IF j \in parked /\ age[j] <= MaxAge
                            THEN age[j] + 1 ELSE age[j]]
  /\ UNCHANGED <<completion, taken, callVars, parked, sweepVars,
                 deliveryStatus, countVars, seen>>

DelivererSteps(d) ==
  \/ PostSucceeds(d)
  \/ PostRejected(d)
  \/ PostFails(d)
  \/ PostAgain(d)

NotifierSteps(n) ==
  \/ NotifierDelivers(n)
  \/ NotifierSkips(n)

SweepSteps ==
  \/ SweepBegins
  \/ \E j \in Jobs : SweepAbandons(j) \/ SweepRedelivers(j)

Next ==
  \/ \E j \in Jobs : Finish(j)
  \/ \E d \in Deliverers : DelivererSteps(d)
  \/ \E n \in Notifiers : NotifierSteps(n)
  \/ SweepSteps
  \/ Tick

Spec == Init /\ [][Next]_vars

\* A POST ends (it has a timeout) and a backoff ends, an idle notifier takes
\* what is there, the sweep comes round and time passes.  Strong fairness
\* because all of them only wait while the sweep visits an item.  Nothing is
\* assumed of the answers: core-api may stay away for ever.
Fairness ==
  /\ \A d \in Deliverers : SF_vars(DelivererSteps(d))
  /\ SF_vars(\E n \in Notifiers : NotifierSteps(n))
  /\ WF_vars(SweepSteps)
  /\ SF_vars(Tick)

FairSpec == Spec /\ Fairness

-----------------------------------------------------------------------------
(* Safety                                                                  *)

Done(j)  == deliveryStatus[j] \in {"delivered", "skipped"}
Calls    == {d \in Deliverers : holds[d] # NoJob}

\* A result has at most one deliverer at a time: a notifier's is not parked
\* yet and is in no sweep, the sweep's is still parked and no longer in the
\* rest of the sweep.
OneDelivererPerResult ==
  /\ \A d, e \in Calls : holds[d] = holds[e] => d = e
  /\ \A n \in Calls \cap Notifiers : holds[n] \in taken \ parked
  /\ holds[Sweeper] # NoJob => holds[Sweeper] \in parked \ sweep
  /\ sweep \subseteq parked

\* Nothing is dropped: every result a notifier has taken is being delivered
\* for the first time, or delivered, or parked, or was abandoned, and the
\* counters of /queue/stats add up to exactly that.
ResultsAreConserved ==
  /\ Cardinality(taken) = deliveredTotal + Cardinality(parked)
                            + abandonedTotal + Cardinality(Calls \ {Sweeper})
  /\ undeliveredTotal >= Cardinality(parked) + abandonedTotal
  /\ deliveredTotal = Cardinality({j \in Jobs : Done(j)})

\* delivery_status is the truth: "delivered" means core-api has the result,
\* "skipped" means nobody asked for it, a parked result is "undelivered", and
\* what is neither parked nor settled has never been through a full call.
StatusIsTrue ==
  \A j \in Jobs :
    /\ deliveryStatus[j] = "delivered" => j \in seen /\ j \notin parked
    /\ deliveryStatus[j] = "skipped" => j \notin WithUrl \cup parked
    /\ j \in parked => deliveryStatus[j] = "undelivered"
    /\ deliveryStatus[j] = "pending" => j \notin parked

\* A parked result leaves the redelivery set only by being delivered, or after
\* more than redelivery_max_age.
GivesUpOnlyWhenOld ==
  [][\A j \in parked \ parked' :
       deliveryStatus'[j] = "delivered" \/ age[j] > MaxAge]_vars

-----------------------------------------------------------------------------
(* Liveness                                                                *)

Abandoned(j) ==
  /\ deliveryStatus[j] = "undelivered"
  /\ j \notin parked
  /\ \A d \in Deliverers : holds[d] # j

\* Whatever core-api does, a finished job's result is eventually delivered or
\* given up; none is retried for ever and none is forgotten.
EveryResultSettles ==
  \A j \in Jobs : j \in Arrived ~> Done(j) \/ Abandoned(j)
=============================================================================
