------------------------ MODULE ResultDeliveryProofs ------------------------
(***************************************************************************)
(* Proofs about result delivery, for every set of jobs and notifiers,      *)
(* every number of attempts and every age limit.                           *)
(***************************************************************************)
EXTENDS ResultDelivery, FiniteSetTheorems, SequenceTheorems, TLAPS

\* Everything under way belongs to one place.  completion, taken and the calls
\* are kept apart as OneDelivererPerResult says, a POST is in flight only for a
\* deliverer that holds a job, and one that sleeps has an attempt left.
CallInv ==
  /\ IsInjective(completion)
  /\ ToSet(completion) \cap taken = {}
  /\ parked \subseteq taken
  /\ posting \subseteq Calls
  /\ \A d \in Calls \ posting : attempts[d] < AttemptLimit
  /\ OneDelivererPerResult

\* What delivery_status says in each place.
StatusInv ==
  \A j \in Jobs :
    /\ deliveryStatus[j] = "pending" => j \notin parked
    /\ deliveryStatus[j] = "delivered" => j \in seen /\ j \in taken \ parked
    /\ deliveryStatus[j] = "skipped" =>
         j \notin WithUrl /\ j \in taken \ parked
    /\ deliveryStatus[j] = "undelivered" => j \in taken
    /\ \A n \in Calls \cap Notifiers :
         holds[n] = j => deliveryStatus[j] = "pending"

\* A result that was taken and is still pending is some notifier's.
HeldInv ==
  \A j \in taken :
    deliveryStatus[j] = "pending" => \E n \in Calls \cap Notifiers : holds[n] = j

\* The ages a sweep goes by were read when it began, and time only passes.
AgeInv == \A j \in sweep : sweepAge[j] <= age[j]

DeliveryInv == TypeOK /\ CallInv

(***************************************************************************)
(* asyncio.Queue is a sequence, of which the proofs need the elements,     *)
(* their number and their repetitions.                                     *)
(***************************************************************************)

\* The elements of a queue, and how put() and get() change them.
LEMMA ToSetEmpty == ToSet(<<>>) = {}
BY DEF ToSet

LEMMA ToSetAppend ==
  ASSUME NEW S, NEW s \in Seq(S), NEW x \in S
  PROVE  ToSet(Append(s, x)) = ToSet(s) \cup {x}
<1>1. /\ Append(s, x) \in Seq(S)
      /\ Len(Append(s, x)) = Len(s) + 1
      /\ \A i \in 1..Len(s) : Append(s, x)[i] = s[i]
      /\ Append(s, x)[Len(s) + 1] = x
  BY AppendProperties
<1>2. DOMAIN s = 1..Len(s) /\ DOMAIN Append(s, x) = 1..(Len(s) + 1)
  BY <1>1
<1>3. Len(s) \in Nat
  OBVIOUS
<1>4. ASSUME NEW e \in ToSet(Append(s, x)) PROVE e \in ToSet(s) \cup {x}
  BY <1>1, <1>2, <1>3 DEF ToSet
<1>5. ASSUME NEW e \in ToSet(s) \cup {x} PROVE e \in ToSet(Append(s, x))
  BY <1>1, <1>2, <1>3 DEF ToSet
<1>6. QED
  BY <1>4, <1>5

\* A queue without repetitions stays one when a new element is put.
LEMMA InjectiveAppend ==
  ASSUME NEW S, NEW s \in Seq(S), NEW x \in S, IsInjective(s), x \notin ToSet(s)
  PROVE  IsInjective(Append(s, x))
<1>1. /\ Len(Append(s, x)) = Len(s) + 1
      /\ \A i \in 1..Len(s) : Append(s, x)[i] = s[i]
      /\ Append(s, x)[Len(s) + 1] = x
  BY AppendProperties
<1>2. DOMAIN s = 1..Len(s) /\ DOMAIN Append(s, x) = 1..(Len(s) + 1)
  BY AppendProperties
<1>3. Len(s) \in Nat
  OBVIOUS
<1>4. \A i \in 1..Len(s) : s[i] # x
  BY <1>2 DEF ToSet
<1>5. QED
  BY <1>1, <1>2, <1>3, <1>4 DEF IsInjective

\* What get() takes, and what it leaves.
LEMMA TailProperties ==
  ASSUME NEW S, NEW s \in Seq(S), s # <<>>
  PROVE  /\ Tail(s) \in Seq(S)
         /\ Len(Tail(s)) = Len(s) - 1
         /\ Head(s) \in ToSet(s)
         /\ ToSet(Tail(s)) \subseteq ToSet(s)
         /\ ToSet(s) = ToSet(Tail(s)) \cup {Head(s)}
         /\ IsInjective(s) => IsInjective(Tail(s)) /\ Head(s) \notin ToSet(Tail(s))
<1>1. /\ Tail(s) \in Seq(S)
      /\ Len(Tail(s)) = Len(s) - 1
      /\ \A i \in 1..Len(Tail(s)) : Tail(s)[i] = s[i + 1]
  BY HeadTailProperties
<1>2. DOMAIN s = 1..Len(s) /\ DOMAIN Tail(s) = 1..(Len(s) - 1)
  BY <1>1
<1>3. Len(s) \in Nat /\ Len(s) >= 1
  BY EmptySeq
<1>4. Head(s) = s[1]
  OBVIOUS
<1>5. Head(s) \in ToSet(s)
  BY <1>2, <1>3, <1>4 DEF ToSet
<1>6. ToSet(Tail(s)) \subseteq ToSet(s)
  <2>1. \A i \in DOMAIN Tail(s) : i + 1 \in DOMAIN s /\ Tail(s)[i] = s[i + 1]
    BY <1>1, <1>2, <1>3
  <2>2. QED
    BY <2>1 DEF ToSet
<1>7. ToSet(s) \subseteq ToSet(Tail(s)) \cup {Head(s)}
  <2>1. \A i \in DOMAIN s : i = 1 \/ (i - 1 \in DOMAIN Tail(s) /\ s[i] = Tail(s)[i - 1])
    BY <1>1, <1>2, <1>3
  <2>2. QED
    BY <2>1, <1>4 DEF ToSet
<1>8. IsInjective(s) => IsInjective(Tail(s))
  BY <1>1, <1>2, <1>3 DEF IsInjective
<1>9. IsInjective(s) => Head(s) \notin ToSet(Tail(s))
  BY <1>1, <1>2, <1>3, <1>4 DEF IsInjective, ToSet
<1>10. QED
  BY <1>1, <1>5, <1>6, <1>7, <1>8, <1>9

(***************************************************************************)
(* Calls                                                                   *)
(***************************************************************************)

LEMMA Parties ==
  /\ AttemptLimit \in Nat /\ AttemptLimit >= 1
  /\ Sweeper \in Deliverers
  /\ Notifiers \subseteq Deliverers
  /\ \A d \in Deliverers : d \in Notifiers \/ d = Sweeper
BY DeliveryAssumption DEF AttemptLimit, Deliverers

\* A call holds a job, which a notifier has taken.
LEMMA CallHolds ==
  ASSUME DeliveryInv, NEW d \in Calls
  PROVE  /\ d \in Deliverers
         /\ holds[d] \in Jobs
         /\ holds[d] \in taken
BY Parties DEF DeliveryInv, TypeOK, CallInv, OneDelivererPerResult, Calls

LEMMA CallBegins ==
  ASSUME DeliveryInv, NEW d \in Deliverers, NEW j \in Jobs, BeginCall(d, j)
  PROVE  /\ Calls' = Calls \cup {d}
         /\ holds'[d] = j
         /\ \A e \in Deliverers \ {d} : /\ holds'[e] = holds[e]
                                        /\ attempts'[e] = attempts[e]
BY DeliveryAssumption DEF DeliveryInv, TypeOK, BeginCall, Calls

LEMMA CallEnds ==
  ASSUME DeliveryInv, NEW d \in Deliverers, EndCall(d)
  PROVE  /\ Calls' = Calls \ {d}
         /\ \A e \in Deliverers \ {d} : /\ holds'[e] = holds[e]
                                        /\ attempts'[e] = attempts[e]
BY DEF DeliveryInv, TypeOK, EndCall, Calls

(***************************************************************************)
(* One deliverer per result                                                *)
(***************************************************************************)

\* The end of a call, landed or parked: nobody else was delivering that job,
\* so whether it leaves the redelivery set or enters it concerns nobody else.
LEMMA CallInvEnd ==
  ASSUME DeliveryInv, NEW d \in posting, EndCall(d),
         UNCHANGED <<completion, taken, sweepVars>>,
         \/ parked' = parked \ {holds[d]}
         \/ parked' = parked /\ holds[d] \in parked
         \/ parked' = parked \cup {holds[d]} /\ holds[d] \notin parked
  PROVE  CallInv'
<1>1. d \in Calls /\ d \in Deliverers /\ holds[d] \in taken
  BY CallHolds DEF DeliveryInv, CallInv
<1>2. UNCHANGED <<completion, taken, sweep>>
  BY DEF sweepVars
<1>3. /\ Calls' = Calls \ {d}
      /\ posting' = posting \ {d}
      /\ \A e \in Calls' : holds'[e] = holds[e] /\ attempts'[e] = attempts[e]
  BY <1>1, CallEnds, CallHolds DEF EndCall
<1>4. \A e \in Calls' : holds[e] # holds[d]
  BY <1>1, <1>3 DEF DeliveryInv, CallInv, OneDelivererPerResult
<1>5. OneDelivererPerResult'
  <2>1. \A e, f \in Calls' : holds'[e] = holds'[f] => e = f
    BY <1>3 DEF DeliveryInv, CallInv, OneDelivererPerResult
  <2>2. ASSUME NEW n \in Calls' \cap Notifiers
        PROVE  holds'[n] \in taken' \ parked'
    BY <1>2, <1>3, <1>4 DEF DeliveryInv, CallInv, OneDelivererPerResult
  <2>3. ASSUME holds'[Sweeper] # NoJob
        PROVE  holds'[Sweeper] \in parked' \ sweep'
    <3>1. Sweeper \in Calls'
      BY <2>3, Parties DEF Calls
    <3>2. QED
      BY <1>2, <1>3, <1>4, <2>3, <3>1
         DEF DeliveryInv, CallInv, OneDelivererPerResult
  <2>4. sweep' \subseteq parked'
    <3>1. holds[d] \notin sweep
      BY <1>1, Parties DEF DeliveryInv, CallInv, OneDelivererPerResult, Calls
    <3>2. QED
      BY <1>2, <3>1 DEF DeliveryInv, CallInv, OneDelivererPerResult
  <2>5. QED
    BY <2>1, <2>2, <2>3, <2>4 DEF OneDelivererPerResult
<1>6. parked' \subseteq taken'
  BY <1>1, <1>2 DEF DeliveryInv, CallInv
<1>7. posting' \subseteq Calls'
  BY <1>3 DEF DeliveryInv, CallInv
<1>8. \A e \in Calls' \ posting' : attempts'[e] < AttemptLimit
  BY <1>3 DEF DeliveryInv, CallInv
<1>9. QED
  BY <1>2, <1>5, <1>6, <1>7, <1>8 DEF DeliveryInv, CallInv

\* The head of the completion queue is in no other place.
LEMMA TakeFacts ==
  ASSUME DeliveryInv, NEW n \in Notifiers, Take(n)
  PROVE  /\ Head(completion) \in Jobs
         /\ Head(completion) \notin taken
         /\ taken' = taken \cup {Head(completion)}
         /\ IsInjective(completion')
         /\ ToSet(completion') \cap taken' = {}
<1> USE DEF DeliveryInv, TypeOK, CallInv
<1>1. /\ Head(completion) \in Jobs
      /\ Head(completion) \in ToSet(completion)
      /\ ToSet(completion') \subseteq ToSet(completion)
      /\ IsInjective(completion')
      /\ Head(completion) \notin ToSet(completion')
  BY TailProperties, HeadTailProperties DEF Take
<1>2. QED
  BY <1>1 DEF Take

LEMMA CallInvStep ==
  ASSUME DeliveryInv, [Next]_vars
  PROVE  CallInv'
<1> USE DEF DeliveryInv
<1>1. ASSUME UNCHANGED <<taken, callVars, parked, sweep>>,
             IsInjective(completion'), ToSet(completion') \cap taken = {}
      PROVE  CallInv'
  BY <1>1 DEF callVars, CallInv, OneDelivererPerResult, Calls
<1>2. ASSUME NEW j \in Jobs, Finish(j) PROVE CallInv'
  <2>1. IsInjective(completion') /\ ToSet(completion') = ToSet(completion) \cup {j}
    BY <1>2, ToSetAppend, InjectiveAppend DEF Finish, Arrived, TypeOK, CallInv
  <2>2. QED
    BY <1>1, <1>2, <2>1 DEF Finish, Arrived, parkVars, sweepVars, CallInv
<1>3. ASSUME NEW d \in Deliverers, DelivererSteps(d) PROVE CallInv'
  <2>1. CASE PostSucceeds(d)
    BY <2>1, CallInvEnd DEF PostSucceeds, Land
  <2>2. ASSUME d \in posting, Park(holds[d]), EndCall(d),
               UNCHANGED <<completion, taken, sweepVars>>
        PROVE  CallInv'
    BY <2>2, CallInvEnd DEF Park, parkVars
  <2>3. CASE PostRejected(d)
    BY <2>2, <2>3 DEF PostRejected
  <2>4. CASE PostFails(d)
    <3>1. CASE /\ attempts[d] < AttemptLimit
               /\ posting' = posting \ {d}
               /\ UNCHANGED <<completion, taken, holds, attempts, parkVars,
                              sweepVars>>
      BY <3>1 DEF CallInv, OneDelivererPerResult, Calls, parkVars, sweepVars
    <3>2. QED
      BY <2>2, <2>4, <3>1 DEF PostFails
  <2>5. CASE PostAgain(d)
    <3>1. /\ UNCHANGED <<completion, taken, holds, parked, sweep>>
          /\ posting' = posting \cup {d}
          /\ \A e \in Deliverers \ {d} : attempts'[e] = attempts[e]
          /\ d \in Calls
      BY <2>5 DEF PostAgain, parkVars, sweepVars, TypeOK, Calls
    <3>2. QED
      BY <3>1 DEF CallInv, OneDelivererPerResult, Calls
  <2>6. QED
    BY <1>3, <2>1, <2>3, <2>4, <2>5 DEF DelivererSteps
\* A notifier's new job was nobody's.
<1>4. ASSUME NEW n \in Notifiers, NotifierDelivers(n) PROVE CallInv'
  <2> DEFINE h == Head(completion)
  <2>1. /\ h \in Jobs
        /\ h \notin taken
        /\ taken' = taken \cup {h}
        /\ IsInjective(completion')
        /\ ToSet(completion') \cap taken' = {}
        /\ UNCHANGED <<parked, sweep>>
    BY <1>4, TakeFacts DEF NotifierDelivers, parkVars, sweepVars
  <2>2. /\ Calls' = Calls \cup {n}
        /\ holds'[n] = h
        /\ \A e \in Deliverers \ {n} : /\ holds'[e] = holds[e]
                                       /\ attempts'[e] = attempts[e]
        /\ posting' = posting \cup {n}
    BY <1>4, <2>1, CallBegins, Parties DEF NotifierDelivers, BeginCall
  <2>3. \A e \in Calls \ {n} : holds'[e] = holds[e] /\ holds[e] \in taken
    BY <2>2, CallHolds
  <2>4. holds[n] = NoJob /\ n # Sweeper
    BY <1>4, DeliveryAssumption DEF NotifierDelivers, Take
  <2>5. n \notin Calls
    BY <2>4 DEF Calls
  <2> HIDE DEF h
  <2>6. OneDelivererPerResult'
    <3>1. \A d, e \in Calls' : holds'[d] = holds'[e] => d = e
      BY <2>1, <2>2, <2>3 DEF CallInv, OneDelivererPerResult
    <3>2. \A m \in Calls' \cap Notifiers : holds'[m] \in taken' \ parked'
      BY <2>1, <2>2, <2>3 DEF CallInv, OneDelivererPerResult
    <3>3. holds'[Sweeper] = holds[Sweeper]
      BY <2>2, <2>4, Parties
    <3>4. QED
      BY <2>1, <3>1, <3>2, <3>3 DEF CallInv, OneDelivererPerResult
  <2>7. \A e \in Calls' \ posting' : attempts'[e] < AttemptLimit
    BY <2>2, CallHolds DEF CallInv
  <2>8. QED
    BY <2>1, <2>2, <2>6, <2>7 DEF CallInv
<1>5. ASSUME NEW n \in Notifiers, NotifierSkips(n) PROVE CallInv'
  <2>1. /\ taken \subseteq taken'
        /\ IsInjective(completion')
        /\ ToSet(completion') \cap taken' = {}
        /\ UNCHANGED <<holds, posting, attempts, parked, sweep>>
    BY <1>5, TakeFacts DEF NotifierSkips, callVars, parkVars, sweepVars
  <2>2. QED
    BY <2>1 DEF CallInv, OneDelivererPerResult, Calls
<1>6. CASE SweepBegins
  BY <1>6 DEF SweepBegins, callVars, parkVars, CallInv, OneDelivererPerResult,
              Calls
<1>7. ASSUME NEW j \in Jobs, SweepAbandons(j) PROVE CallInv'
  BY <1>7 DEF SweepAbandons, SweepNext, callVars, CallInv,
              OneDelivererPerResult, Calls
\* The sweep's new job is parked, so no notifier's, and has left the sweep.
<1>8. ASSUME NEW j \in Jobs, SweepRedelivers(j) PROVE CallInv'
  <2>1. /\ j \in parked
        /\ sweep' = sweep \ {j}
        /\ holds[Sweeper] = NoJob
        /\ UNCHANGED <<completion, taken, parked>>
    BY <1>8 DEF SweepRedelivers, SweepNext, CallInv, OneDelivererPerResult
  <2>2. /\ Calls' = Calls \cup {Sweeper}
        /\ holds'[Sweeper] = j
        /\ \A e \in Deliverers \ {Sweeper} : /\ holds'[e] = holds[e]
                                             /\ attempts'[e] = attempts[e]
        /\ posting' = posting \cup {Sweeper}
    BY <1>8, CallBegins, Parties DEF SweepRedelivers, BeginCall
  <2>3. Calls \subseteq Notifiers /\ Sweeper \notin Notifiers
    BY <2>1, Parties, DeliveryAssumption DEF Calls
  <2>4. \A e \in Calls : holds'[e] = holds[e] /\ holds[e] # j
    BY <2>1, <2>2, <2>3, Parties DEF CallInv, OneDelivererPerResult
  <2>5. OneDelivererPerResult'
    BY <2>1, <2>2, <2>3, <2>4 DEF CallInv, OneDelivererPerResult
  <2>6. \A e \in Calls' \ posting' : attempts'[e] < AttemptLimit
    BY <2>2, CallHolds DEF CallInv
  <2>7. QED
    BY <2>1, <2>2, <2>5, <2>6 DEF CallInv
<1>9. CASE Tick \/ UNCHANGED vars
  BY <1>1, <1>9 DEF Tick, vars, sweepVars, parkVars, CallInv
<1>10. QED
  BY <1>2, <1>3, <1>4, <1>5, <1>6, <1>7, <1>8, <1>9
     DEF Next, NotifierSteps, SweepSteps

(***************************************************************************)
(* Types                                                                   *)
(***************************************************************************)

\* TypeOK is not inductive alone: that a deliverer never makes more attempts
\* than it may rests on CallInv.
LEMMA TypeStep ==
  ASSUME DeliveryInv, [Next]_vars
  PROVE  TypeOK'
<1> USE Parties DEF DeliveryInv, TypeOK
<1>1. ASSUME NEW j \in Jobs, Finish(j) PROVE TypeOK'
  <2>1. Append(completion, j) \in Seq(Jobs)
    BY AppendProperties
  <2>2. QED
    BY <1>1, <2>1 DEF Finish, callVars, parkVars, sweepVars, countVars
<1>2. ASSUME NEW d \in Deliverers, NEW j \in Jobs, BeginCall(d, j)
      PROVE  /\ holds' \in [Deliverers -> Jobs \cup {NoJob}]
             /\ posting' \subseteq Deliverers
             /\ attempts' \in [Deliverers -> 0..AttemptLimit]
  BY <1>2 DEF BeginCall
<1>3. ASSUME NEW d \in Deliverers, EndCall(d)
      PROVE  /\ holds' \in [Deliverers -> Jobs \cup {NoJob}]
             /\ posting' \subseteq Deliverers
             /\ attempts' \in [Deliverers -> 0..AttemptLimit]
  BY <1>3 DEF EndCall
<1>4. ASSUME NEW j \in Jobs, Land(j) \/ Park(j)
      PROVE  /\ parked' \subseteq Jobs
             /\ age' \in [Jobs -> Ages]
             /\ deliveryStatus' \in
                  [Jobs -> {"pending", "delivered", "undelivered", "skipped"}]
             /\ deliveredTotal' \in Nat
             /\ undeliveredTotal' \in Nat
             /\ abandonedTotal' \in Nat
  <2>1. CASE Land(j)
    BY <2>1 DEF Land
  <2>2. CASE Park(j)
    <3>1. /\ deliveryStatus' = [deliveryStatus EXCEPT ![j] = "undelivered"]
          /\ UNCHANGED <<deliveredTotal, abandonedTotal>>
      BY <2>2 DEF Park
    <3>2. CASE UNCHANGED <<parkVars, undeliveredTotal>>
      BY <3>1, <3>2 DEF parkVars
    <3>3. CASE /\ parked' = parked \cup {j}
               /\ age' = [age EXCEPT ![j] = 0]
               /\ undeliveredTotal' = undeliveredTotal + 1
      <4>1. 0 \in Ages
        BY DeliveryAssumption DEF Ages
      <4>2. QED
        BY <3>1, <3>3, <4>1
    <3>4. QED
      BY <2>2, <3>2, <3>3 DEF Park
  <2>3. QED
    BY <1>4, <2>1, <2>2
<1>5. ASSUME NEW d \in Deliverers, DelivererSteps(d) PROVE TypeOK'
  <2>1. d \in posting => holds[d] \in Jobs
    BY CallHolds DEF CallInv
  <2>2. CASE PostSucceeds(d)
    BY <1>3, <1>4, <2>1, <2>2 DEF PostSucceeds, sweepVars
  <2>3. CASE PostRejected(d)
    BY <1>3, <1>4, <2>1, <2>3 DEF PostRejected, sweepVars
  <2>4. CASE PostFails(d)
    <3>1. /\ UNCHANGED <<completion, taken, sweep, sweepAge>>
          /\ seen' \subseteq Jobs
      BY <2>1, <2>4 DEF PostFails, sweepVars
    <3>2. CASE Park(holds[d]) /\ EndCall(d)
      BY <1>3, <1>4, <2>1, <2>4, <3>1, <3>2 DEF PostFails
    <3>3. CASE /\ posting' = posting \ {d}
               /\ UNCHANGED <<holds, attempts, parkVars, deliveryStatus,
                              countVars>>
      BY <3>1, <3>3 DEF parkVars, countVars
    <3>4. QED
      BY <2>4, <3>2, <3>3 DEF PostFails
  <2>5. CASE PostAgain(d)
    <3>1. attempts[d] < AttemptLimit
      BY <2>5 DEF PostAgain, CallInv, Calls
    <3>2. attempts' \in [Deliverers -> 0..AttemptLimit]
      BY <2>5, <3>1 DEF PostAgain
    <3>3. QED
      BY <2>5, <3>2 DEF PostAgain, parkVars, sweepVars, countVars
  <2>6. QED
    BY <1>5, <2>2, <2>3, <2>4, <2>5 DEF DelivererSteps
<1>6. ASSUME NEW n \in Notifiers, NotifierSteps(n) PROVE TypeOK'
  <2>1. ASSUME Take(n)
        PROVE  /\ Head(completion) \in Jobs
               /\ completion' \in Seq(Jobs)
               /\ taken' \subseteq Jobs
    BY <2>1, HeadTailProperties DEF Take
  <2>2. CASE NotifierDelivers(n)
    BY <1>2, <2>1, <2>2
       DEF NotifierDelivers, parkVars, sweepVars, countVars
  <2>3. CASE NotifierSkips(n)
    BY <2>1, <2>3 DEF NotifierSkips, callVars, parkVars, sweepVars
  <2>4. QED
    BY <1>6, <2>2, <2>3 DEF NotifierSteps
<1>7. CASE SweepBegins
  BY <1>7 DEF SweepBegins, callVars, parkVars, countVars
<1>8. ASSUME NEW j \in Jobs, SweepAbandons(j) PROVE TypeOK'
  BY <1>8 DEF SweepAbandons, SweepNext, callVars
<1>9. ASSUME NEW j \in Jobs, SweepRedelivers(j) PROVE TypeOK'
  BY <1>2, <1>9 DEF SweepRedelivers, SweepNext
<1>10. CASE Tick
  <2>1. age' \in [Jobs -> Ages]
    BY <1>10, DeliveryAssumption DEF Tick, Ages
  <2>2. QED
    BY <1>10, <2>1 DEF Tick, callVars, sweepVars, countVars
<1>11. CASE UNCHANGED vars
  BY <1>11 DEF vars, callVars, parkVars, sweepVars, countVars
<1>12. QED
  BY <1>1, <1>5, <1>6, <1>7, <1>8, <1>9, <1>10, <1>11 DEF Next, SweepSteps

LEMMA DeliveryInit == Init => DeliveryInv
<1> SUFFICES ASSUME Init PROVE DeliveryInv
  OBVIOUS
<1>1. Calls = {} /\ ToSet(completion) = {} /\ IsInjective(completion)
  BY ToSetEmpty, Parties DEF Init, Calls, IsInjective
<1>2. OneDelivererPerResult
  BY <1>1, Parties DEF Init, OneDelivererPerResult
<1>3. CallInv
  BY <1>1, <1>2 DEF Init, CallInv
<1>4. TypeOK
  BY Parties, DeliveryAssumption DEF Init, TypeOK, Ages
<1>5. QED
  BY <1>3, <1>4 DEF DeliveryInv

LEMMA Delivering == Spec => []DeliveryInv
<1>1. DeliveryInv /\ [Next]_vars => DeliveryInv'
  BY CallInvStep, TypeStep DEF DeliveryInv
<1>2. QED
  BY <1>1, DeliveryInit, PTL DEF Spec

\* Types, for any number of jobs, notifiers, attempts and ticks: no deliverer
\* ever makes more POSTs in a call than max(1, webhook_max_attempts).
THEOREM DeliveryTyped == Spec => []TypeOK
BY Delivering, PTL DEF DeliveryInv

\* Notifiers and sweep never deliver the same result at the same time,
\* although all of them run on the one loop with no lock between them.
THEOREM NeverDeliveredTwiceAtOnce == Spec => []OneDelivererPerResult
BY Delivering, PTL DEF DeliveryInv, CallInv

(***************************************************************************)
(* What delivery_status says                                               *)
(***************************************************************************)

\* The job of a call that ends is pending, if a notifier delivers it, or
\* parked, if the sweep does; either way it was not done before.
LEMMA NotDoneBefore ==
  ASSUME DeliveryInv, StatusInv, NEW d \in Calls
  PROVE  ~Done(holds[d])
<1>1. holds[d] \in Jobs /\ (d \in Notifiers \/ d = Sweeper)
  BY CallHolds, Parties
<1>2. CASE d \in Notifiers
  BY <1>1, <1>2 DEF StatusInv, Done
<1>3. CASE d = Sweeper
  <2>1. holds[d] \in parked
    BY <1>3 DEF DeliveryInv, CallInv, OneDelivererPerResult, Calls
  <2>2. QED
    BY <1>1, <2>1 DEF StatusInv, Done
<1>4. QED
  BY <1>1, <1>2, <1>3

LEMMA StatusStep ==
  ASSUME DeliveryInv, StatusInv, [Next]_vars
  PROVE  StatusInv'
<1> USE DEF DeliveryInv
<1>1. ASSUME UNCHANGED <<taken, holds, deliveryStatus>>,
             seen \subseteq seen', parked' \subseteq parked
      PROVE  StatusInv'
  BY <1>1 DEF StatusInv, Calls
<1>2. ASSUME NEW d \in Deliverers, DelivererSteps(d) PROVE StatusInv'
  <2> DEFINE j == holds[d]
  <2>1. ASSUME d \in posting, EndCall(d), taken' = taken,
               seen \subseteq seen',
               \/ Land(j) /\ j \in seen'
               \/ Park(j)
        PROVE  StatusInv'
    <3>1. d \in Calls /\ j \in Jobs /\ j \in taken
      BY <2>1, CallHolds DEF CallInv
    <3>2. /\ \A e \in Calls' : e \in Calls /\ holds'[e] = holds[e] /\ holds[e] # j
      BY <1>2, <2>1, <3>1, CallEnds, CallHolds DEF CallInv, OneDelivererPerResult
    <3>3. \A k \in Jobs \ {j} : deliveryStatus'[k] = deliveryStatus[k]
      BY <2>1, <3>1 DEF Land, Park, TypeOK
    <3>4. CASE Land(j) /\ j \in seen'
      <4>1. deliveryStatus'[j] = "delivered" /\ parked' = parked \ {j}
        BY <3>1, <3>4 DEF Land, TypeOK
      <4> HIDE DEF j
      <4>2. QED
        BY <2>1, <3>1, <3>2, <3>3, <3>4, <4>1 DEF StatusInv
    <3>5. CASE Park(j)
      <4>1. deliveryStatus'[j] = "undelivered" /\ parked' \subseteq parked \cup {j}
        BY <3>1, <3>5 DEF Park, TypeOK, parkVars
      <4> HIDE DEF j
      <4>2. QED
        BY <2>1, <3>1, <3>2, <3>3, <4>1 DEF StatusInv
    <3>6. QED
      BY <2>1, <3>4, <3>5
  <2>2. CASE PostSucceeds(d)
    BY <2>1, <2>2 DEF PostSucceeds
  <2>3. CASE PostRejected(d)
    BY <2>1, <2>3 DEF PostRejected
  <2>4. CASE PostFails(d)
    <3>1. d \in posting /\ taken' = taken /\ seen \subseteq seen'
      BY <2>4 DEF PostFails
    <3>2. QED
      BY <1>1, <2>1, <2>4, <3>1 DEF PostFails, parkVars
  <2>5. CASE PostAgain(d)
    BY <1>1, <2>5 DEF PostAgain, parkVars
  <2>6. QED
    BY <1>2, <2>2, <2>3, <2>4, <2>5 DEF DelivererSteps
\* A job nobody had taken is pending.
<1>3. ASSUME NEW n \in Notifiers, NotifierSteps(n) PROVE StatusInv'
  <2> DEFINE h == Head(completion)
  <2>1. Take(n) /\ UNCHANGED <<parked, seen>>
    BY <1>3 DEF NotifierSteps, NotifierDelivers, NotifierSkips, parkVars
  <2>2. h \in Jobs /\ h \notin taken /\ taken' = taken \cup {h}
    BY <2>1, TakeFacts
  <2>3. h \notin parked /\ deliveryStatus[h] = "pending"
    BY <2>2 DEF StatusInv, TypeOK, CallInv
  <2>4. CASE NotifierDelivers(n)
    <3>1. /\ Calls' = Calls \cup {n}
          /\ holds'[n] = h
          /\ \A e \in Deliverers \ {n} : holds'[e] = holds[e]
      BY <2>2, <2>4, CallBegins, Parties DEF NotifierDelivers
    <3>2. deliveryStatus' = deliveryStatus
      BY <2>4 DEF NotifierDelivers
    <3> HIDE DEF h
    <3>3. QED
      BY <2>1, <2>2, <2>3, <3>1, <3>2, CallHolds DEF StatusInv
  <2>5. CASE NotifierSkips(n)
    <3>1. /\ h \notin WithUrl
          /\ deliveryStatus' = [deliveryStatus EXCEPT ![h] = "skipped"]
          /\ holds' = holds
      BY <2>5 DEF NotifierSkips, callVars
    <3>2. \A e \in Calls : holds[e] # h
      BY <2>2, CallHolds
    <3> HIDE DEF h
    <3>3. QED
      BY <2>1, <2>2, <2>3, <3>1, <3>2 DEF StatusInv, TypeOK, Calls
  <2>6. QED
    BY <1>3, <2>4, <2>5 DEF NotifierSteps
<1>4. ASSUME NEW j \in Jobs, SweepRedelivers(j) PROVE StatusInv'
  <2>1. \A n \in Notifiers : holds'[n] = holds[n]
    BY <1>4, CallBegins, Parties, DeliveryAssumption DEF SweepRedelivers
  <2>2. Calls' \cap Notifiers = Calls \cap Notifiers
    BY <1>4, CallBegins, Parties, DeliveryAssumption DEF SweepRedelivers
  <2>3. UNCHANGED <<taken, parked, deliveryStatus, seen>>
    BY <1>4 DEF SweepRedelivers, SweepNext
  <2>4. QED
    BY <2>1, <2>2, <2>3 DEF StatusInv
<1>5. CASE \/ \E j \in Jobs : Finish(j) \/ SweepAbandons(j)
           \/ SweepBegins \/ Tick \/ UNCHANGED vars
  BY <1>1, <1>5 DEF Finish, SweepAbandons, SweepNext, SweepBegins, Tick, vars,
                    callVars, parkVars
<1>6. QED
  BY <1>2, <1>3, <1>4, <1>5 DEF Next, SweepSteps

LEMMA StatusInit == Init => StatusInv
<1> SUFFICES ASSUME Init PROVE StatusInv
  OBVIOUS
<1>1. Calls = {}
  BY DEF Init, Calls
<1>2. QED
  BY <1>1 DEF Init, StatusInv

LEMMA Recorded == Spec => []StatusInv
BY StatusInit, StatusStep, Delivering, PTL DEF Spec

LEMMA HeldStep ==
  ASSUME DeliveryInv, StatusInv, HeldInv, [Next]_vars
  PROVE  HeldInv'
<1> USE DEF DeliveryInv, TypeOK
<1>1. ASSUME UNCHANGED <<taken, holds, deliveryStatus>> PROVE HeldInv'
  BY <1>1 DEF HeldInv, Calls
\* The call that ends was for a job that is no longer pending.
<1>2. ASSUME NEW d \in Deliverers, DelivererSteps(d) PROVE HeldInv'
  <2>1. ASSUME d \in posting, EndCall(d), taken' = taken,
               Land(holds[d]) \/ Park(holds[d])
        PROVE  HeldInv'
    <3>1. /\ holds[d] \in Jobs
          /\ Calls' = Calls \ {d}
          /\ \A e \in Calls' : holds'[e] = holds[e]
      BY <2>1, CallHolds, CallEnds DEF CallInv
    <3>2. /\ deliveryStatus'[holds[d]] # "pending"
          /\ \A k \in Jobs \ {holds[d]} : deliveryStatus'[k] = deliveryStatus[k]
      BY <2>1, <3>1 DEF Land, Park
    <3>3. QED
      BY <2>1, <3>1, <3>2 DEF HeldInv
  <2>2. CASE PostSucceeds(d)
    BY <2>1, <2>2 DEF PostSucceeds
  <2>3. CASE PostRejected(d)
    BY <2>1, <2>3 DEF PostRejected
  <2>4. CASE PostFails(d)
    BY <1>1, <2>1, <2>4 DEF PostFails
  <2>5. CASE PostAgain(d)
    BY <1>1, <2>5 DEF PostAgain
  <2>6. QED
    BY <1>2, <2>2, <2>3, <2>4, <2>5 DEF DelivererSteps
<1>3. ASSUME NEW n \in Notifiers, NotifierSteps(n) PROVE HeldInv'
  <2> DEFINE h == Head(completion)
  <2>1. Take(n)
    BY <1>3 DEF NotifierSteps, NotifierDelivers, NotifierSkips
  <2>2. h \in Jobs /\ taken' = taken \cup {h}
    BY <2>1, TakeFacts
  <2>3. CASE NotifierDelivers(n)
    <3>1. /\ Calls' = Calls \cup {n}
          /\ holds'[n] = h
          /\ \A e \in Deliverers \ {n} : holds'[e] = holds[e]
      BY <2>2, <2>3, CallBegins, Parties DEF NotifierDelivers
    <3>2. deliveryStatus' = deliveryStatus /\ n \notin Calls
      BY <2>1, <2>3 DEF NotifierDelivers, Take, Calls
    <3> HIDE DEF h
    <3>3. QED
      BY <2>2, <3>1, <3>2, CallHolds DEF HeldInv
  <2>4. CASE NotifierSkips(n)
    BY <2>2, <2>4 DEF NotifierSkips, callVars, HeldInv, Calls
  <2>5. QED
    BY <1>3, <2>3, <2>4 DEF NotifierSteps
<1>4. ASSUME NEW j \in Jobs, SweepRedelivers(j) PROVE HeldInv'
  <2>1. /\ Calls' \cap Notifiers = Calls \cap Notifiers
        /\ \A n \in Notifiers : holds'[n] = holds[n]
    BY <1>4, CallBegins, Parties, DeliveryAssumption DEF SweepRedelivers
  <2>2. UNCHANGED <<taken, deliveryStatus>>
    BY <1>4 DEF SweepRedelivers, SweepNext
  <2>3. QED
    BY <2>1, <2>2 DEF HeldInv
<1>5. CASE \/ \E j \in Jobs : Finish(j) \/ SweepAbandons(j)
           \/ SweepBegins \/ Tick \/ UNCHANGED vars
  BY <1>1, <1>5 DEF Finish, SweepAbandons, SweepNext, SweepBegins, Tick, vars,
                    callVars
<1>6. QED
  BY <1>2, <1>3, <1>4, <1>5 DEF Next, SweepSteps

\* delivery_status, as /ingest/{job_id} shows it, never claims what is not so:
\* whatever is lost, refused or retried, "delivered" means core-api has it.
THEOREM StatusNeverLies == Spec => []StatusIsTrue
<1>1. DeliveryInv /\ StatusInv => StatusIsTrue
  <2> SUFFICES ASSUME DeliveryInv, StatusInv, NEW j \in Jobs
               PROVE  /\ deliveryStatus[j] = "delivered" =>
                           j \in seen /\ j \notin parked
                      /\ deliveryStatus[j] = "skipped" =>
                           j \notin WithUrl \cup parked
                      /\ j \in parked => deliveryStatus[j] = "undelivered"
                      /\ deliveryStatus[j] = "pending" => j \notin parked
    BY DEF StatusIsTrue
  <2>1. deliveryStatus[j] \in {"pending", "delivered", "undelivered", "skipped"}
    BY DEF DeliveryInv, TypeOK
  <2>2. QED
    BY <2>1 DEF StatusInv
<1>2. QED
  BY <1>1, Delivering, Recorded, PTL

(***************************************************************************)
(* Giving up                                                               *)
(***************************************************************************)

LEMMA AgeStep ==
  ASSUME DeliveryInv, AgeInv, [Next]_vars
  PROVE  AgeInv'
<1> USE DeliveryAssumption DEF DeliveryInv, TypeOK, Ages
<1>1. ASSUME UNCHANGED <<sweep, sweepAge, age>> PROVE AgeInv'
  BY <1>1 DEF AgeInv
<1>2. ASSUME NEW d \in Deliverers, DelivererSteps(d) PROVE AgeInv'
  <2>1. UNCHANGED <<sweep, sweepAge>>
    BY <1>2 DEF DelivererSteps, PostSucceeds, PostRejected, PostFails,
                PostAgain, sweepVars
  \* Park resets the age of a job that is not parked, so in no sweep.
  <2>2. ASSUME Park(holds[d]) PROVE \A j \in sweep : age'[j] = age[j]
    BY <2>2 DEF Park, parkVars, CallInv, OneDelivererPerResult
  <2>3. \A j \in sweep : age'[j] = age[j]
    BY <1>2, <2>2 DEF DelivererSteps, PostSucceeds, Land, PostRejected,
                      PostFails, PostAgain, parkVars
  <2>4. QED
    BY <2>1, <2>3 DEF AgeInv
<1>3. CASE SweepBegins
  BY <1>3 DEF SweepBegins, AgeInv, parkVars
<1>4. ASSUME NEW j \in Jobs, SweepNext(j) PROVE AgeInv'
  BY <1>4 DEF SweepNext, AgeInv
<1>5. CASE Tick
  BY <1>5 DEF Tick, sweepVars, AgeInv
<1>6. CASE \/ \E j \in Jobs : Finish(j)
           \/ \E n \in Notifiers : NotifierSteps(n)
           \/ UNCHANGED vars
  BY <1>1, <1>6 DEF Finish, NotifierSteps, NotifierDelivers, NotifierSkips,
                    vars, parkVars, sweepVars
<1>7. QED
  BY <1>2, <1>3, <1>4, <1>5, <1>6
     DEF Next, SweepSteps, SweepAbandons, SweepRedelivers

LEMMA Aged == Spec => []AgeInv
<1>1. Init => AgeInv
  BY DEF Init, AgeInv
<1>2. QED
  BY <1>1, AgeStep, Delivering, PTL DEF Spec

LEMMA GiveUpStep ==
  ASSUME DeliveryInv, AgeInv, [Next]_vars, NEW j \in parked \ parked'
  PROVE  deliveryStatus'[j] = "delivered" \/ age[j] > MaxAge
<1> USE DEF DeliveryInv, TypeOK
<1>1. ASSUME NEW d \in Deliverers, DelivererSteps(d)
      PROVE  deliveryStatus'[j] = "delivered"
  <2>1. Land(holds[d])
    BY <1>1 DEF DelivererSteps, PostSucceeds, PostRejected, PostFails,
                PostAgain, Park, parkVars
  <2>2. QED
    BY <2>1 DEF Land
<1>2. ASSUME NEW k \in Jobs, SweepAbandons(k) PROVE age[j] > MaxAge
  <2>1. j = k /\ k \in sweep /\ sweepAge[k] > MaxAge
    BY <1>2 DEF SweepAbandons, SweepNext
  <2>2. QED
    BY <2>1, DeliveryAssumption DEF AgeInv, Ages
<1>3. CASE \/ \E k \in Jobs : Finish(k) \/ SweepRedelivers(k)
           \/ \E n \in Notifiers : NotifierSteps(n)
           \/ SweepBegins \/ Tick \/ UNCHANGED vars
  BY <1>3 DEF Finish, SweepRedelivers, NotifierSteps, NotifierDelivers,
              NotifierSkips, SweepBegins, Tick, vars, parkVars
<1>4. QED
  BY <1>1, <1>2, <1>3 DEF Next, SweepSteps

\* A parked result is retried until it lands or is too old by its age now, not
\* only by the age the sweep read when it began.
THEOREM RedeliveredUntilOld == Spec => GivesUpOnlyWhenOld
<1>1. DeliveryInv /\ AgeInv /\ [Next]_vars =>
        [\A j \in parked \ parked' :
           deliveryStatus'[j] = "delivered" \/ age[j] > MaxAge]_vars
  BY GiveUpStep
<1>2. QED
  BY <1>1, Delivering, Aged, PTL DEF Spec, GivesUpOnlyWhenOld

(***************************************************************************)
(* The counters                                                            *)
(***************************************************************************)

InFirstCall == Calls \ {Sweeper}
DoneJobs    == {j \in Jobs : Done(j)}

\* The four sets that are counted.
LEMMA CountedSets ==
  ASSUME DeliveryInv
  PROVE  /\ IsFiniteSet(taken) /\ Cardinality(taken) \in Nat
         /\ IsFiniteSet(parked) /\ Cardinality(parked) \in Nat
         /\ IsFiniteSet(InFirstCall) /\ Cardinality(InFirstCall) \in Nat
         /\ IsFiniteSet(DoneJobs) /\ Cardinality(DoneJobs) \in Nat
<1>1. /\ taken \subseteq Jobs
      /\ parked \subseteq Jobs
      /\ DoneJobs \subseteq Jobs
      /\ InFirstCall \subseteq Notifiers
  BY Parties DEF DeliveryInv, TypeOK, DoneJobs, InFirstCall, Calls
<1>2. QED
  BY <1>1, DeliveryAssumption, FS_Subset, FS_CardinalityType

\* ResultsAreConserved with names for the sets it counts.
Balanced ==
  /\ Cardinality(taken) = deliveredTotal + Cardinality(parked)
                            + abandonedTotal + Cardinality(InFirstCall)
  /\ undeliveredTotal >= Cardinality(parked) + abandonedTotal
  /\ deliveredTotal = Cardinality(DoneJobs)

\* What is added up are numbers.
Counted ==
  /\ Cardinality(taken) \in Nat /\ Cardinality(parked) \in Nat
  /\ Cardinality(InFirstCall) \in Nat /\ Cardinality(DoneJobs) \in Nat
  /\ deliveredTotal \in Nat /\ abandonedTotal \in Nat /\ undeliveredTotal \in Nat

LEMMA NumbersCounted == ASSUME DeliveryInv PROVE Counted
BY CountedSets DEF Counted, DeliveryInv, TypeOK

LEMMA BalancedIsConserved == ResultsAreConserved <=> Balanced
BY DEF ResultsAreConserved, Balanced, InFirstCall, DoneJobs

\* A step that changes none of the sets and none of the counters.
LEMMA CountsKept ==
  ASSUME Balanced,
         UNCHANGED <<taken, parked, InFirstCall, DoneJobs, countVars>>
  PROVE  Balanced'
BY DEF Balanced, countVars

\* The end of a first call moves one job from the calls to the delivered or to
\* the parked; the end of a redelivery moves one from the parked to the
\* delivered, or nothing.
LEMMA CountsEnd ==
  ASSUME DeliveryInv, StatusInv, Balanced, NEW d \in posting,
         EndCall(d), taken' = taken, Land(holds[d]) \/ Park(holds[d])
  PROVE  Balanced'
<1> DEFINE j == holds[d]
<1>0. Counted
  BY NumbersCounted
<1> USE DEF DeliveryInv, TypeOK
<1>1. /\ d \in Calls /\ d \in Deliverers /\ j \in Jobs
      /\ Calls' = Calls \ {d}
      /\ j \notin DoneJobs
  BY CallHolds, CallEnds, NotDoneBefore DEF CallInv, DoneJobs
<1>2. /\ d # Sweeper => j \notin parked
      /\ d = Sweeper => j \in parked
  BY <1>1, Parties DEF CallInv, OneDelivererPerResult, Calls
<1>3. /\ d # Sweeper => Cardinality(InFirstCall') = Cardinality(InFirstCall) - 1
      /\ d = Sweeper => Cardinality(InFirstCall') = Cardinality(InFirstCall)
  <2>1. InFirstCall' = InFirstCall \ {d}
    BY <1>1 DEF InFirstCall
  <2>2. d \in InFirstCall <=> d # Sweeper
    BY <1>1 DEF InFirstCall
  <2>3. QED
    BY <2>1, <2>2, CountedSets, FS_RemoveElement
<1>4. CASE Land(j)
  <2>1. DoneJobs' = DoneJobs \cup {j} /\ parked' = parked \ {j}
    BY <1>1, <1>4 DEF Land, DoneJobs, Done
  <2>2. Cardinality(DoneJobs') = Cardinality(DoneJobs) + 1
    BY <1>1, <2>1, CountedSets, FS_AddElement
  <2>3. Cardinality(parked') =
          IF j \in parked THEN Cardinality(parked) - 1 ELSE Cardinality(parked)
    BY <2>1, CountedSets, FS_RemoveElement
  <2>4. /\ deliveredTotal' = deliveredTotal + 1
        /\ UNCHANGED <<undeliveredTotal, abandonedTotal>>
    BY <1>4 DEF Land
  <2> HIDE DEF j, DeliveryInv, TypeOK
  <2>5. QED
    BY <1>0, <1>2, <1>3, <2>2, <2>3, <2>4 DEF Balanced, Counted
<1>5. CASE Park(j)
  <2>1. DoneJobs' = DoneJobs
    BY <1>1, <1>5 DEF Park, DoneJobs, Done
  <2>2. UNCHANGED <<deliveredTotal, abandonedTotal>>
    BY <1>5 DEF Park
  <2>3. CASE d = Sweeper
    <3>1. UNCHANGED <<parked, undeliveredTotal>>
      BY <1>2, <1>5, <2>3 DEF Park, parkVars
    <3>2. QED
      BY <1>3, <2>1, <2>2, <2>3, <3>1, CountedSets
         DEF Balanced
  <2>4. CASE d # Sweeper
    <3>1. /\ parked' = parked \cup {j}
          /\ undeliveredTotal' = undeliveredTotal + 1
      BY <1>2, <1>5, <2>4 DEF Park
    <3>2. Cardinality(parked') = Cardinality(parked) + 1
      BY <1>2, <2>4, <3>1, CountedSets, FS_AddElement
    <3> HIDE DEF j, DeliveryInv, TypeOK
    <3>3. QED
      BY <1>0, <1>3, <2>1, <2>2, <2>4, <3>1, <3>2 DEF Balanced, Counted
  <2>5. QED
    BY <2>3, <2>4
<1>6. QED
  BY <1>4, <1>5

LEMMA CountsStep ==
  ASSUME DeliveryInv, StatusInv, Balanced, [Next]_vars
  PROVE  Balanced'
<1>0. Counted
  BY NumbersCounted
<1> USE DEF DeliveryInv, TypeOK
<1>1. ASSUME UNCHANGED <<taken, parked, holds, deliveryStatus, countVars>>
      PROVE  Balanced'
  BY <1>1, CountsKept DEF InFirstCall, Calls, DoneJobs, Done
<1>2. ASSUME NEW d \in Deliverers, DelivererSteps(d) PROVE Balanced'
  <2>1. CASE PostSucceeds(d)
    BY <2>1, CountsEnd DEF PostSucceeds
  <2>2. CASE PostRejected(d)
    BY <2>2, CountsEnd DEF PostRejected
  <2>3. CASE PostFails(d)
    BY <1>1, <2>3, CountsEnd DEF PostFails, parkVars
  <2>4. CASE PostAgain(d)
    BY <1>1, <2>4 DEF PostAgain, parkVars
  <2>5. QED
    BY <1>2, <2>1, <2>2, <2>3, <2>4 DEF DelivererSteps
<1>3. ASSUME NEW n \in Notifiers, NotifierSteps(n) PROVE Balanced'
  <2> DEFINE h == Head(completion)
  <2>1. Take(n) /\ UNCHANGED <<parked, undeliveredTotal, abandonedTotal>>
    BY <1>3 DEF NotifierSteps, NotifierDelivers, NotifierSkips, parkVars,
                countVars
  <2>2. h \in Jobs /\ h \notin taken /\ taken' = taken \cup {h}
    BY <2>1, TakeFacts
  <2>3. Cardinality(taken') = Cardinality(taken) + 1
    BY <2>2, CountedSets, FS_AddElement
  <2>4. CASE NotifierDelivers(n)
    <3>1. n \notin InFirstCall /\ InFirstCall' = InFirstCall \cup {n}
      BY <2>1, <2>2, <2>4, CallBegins, Parties, DeliveryAssumption
         DEF NotifierDelivers, Take, InFirstCall, Calls
    <3>2. Cardinality(InFirstCall') = Cardinality(InFirstCall) + 1
      BY <3>1, CountedSets, FS_AddElement
    <3>3. UNCHANGED <<DoneJobs, deliveredTotal>>
      BY <2>4 DEF NotifierDelivers, DoneJobs, Done, countVars
    <3> HIDE DEF h
    <3>4. QED
      BY <2>1, <2>3, <3>2, <3>3, CountedSets
         DEF Balanced
  <2>5. CASE NotifierSkips(n)
    <3>1. /\ deliveryStatus' = [deliveryStatus EXCEPT ![h] = "skipped"]
          /\ holds' = holds
      BY <2>5 DEF NotifierSkips, callVars
    <3>2. h \notin DoneJobs
      BY <2>2 DEF StatusInv, DoneJobs, Done
    <3>3. DoneJobs' = DoneJobs \cup {h}
      BY <2>2, <3>1 DEF DoneJobs, Done
    <3>4. Cardinality(DoneJobs') = Cardinality(DoneJobs) + 1
      BY <3>2, <3>3, CountedSets, FS_AddElement
    <3>5. Cardinality(InFirstCall') = Cardinality(InFirstCall)
      BY <3>1 DEF InFirstCall, Calls
    <3>6. deliveredTotal' = deliveredTotal + 1
      BY <2>5 DEF NotifierSkips
    <3> HIDE DEF h, DeliveryInv, TypeOK
    <3>7. QED
      BY <1>0, <2>1, <2>3, <3>4, <3>5, <3>6 DEF Balanced, Counted
  <2>6. QED
    BY <1>3, <2>4, <2>5 DEF NotifierSteps
\* An abandoned result was parked until then.
<1>4. ASSUME NEW j \in Jobs, SweepAbandons(j) PROVE Balanced'
  <2>1. /\ j \in parked
        /\ parked' = parked \ {j}
        /\ abandonedTotal' = abandonedTotal + 1
        /\ UNCHANGED <<taken, holds, deliveryStatus, deliveredTotal,
                       undeliveredTotal>>
    BY <1>4 DEF SweepAbandons, SweepNext, callVars, CallInv,
                OneDelivererPerResult
  <2>2. Cardinality(parked') = Cardinality(parked) - 1
    BY <2>1, CountedSets, FS_RemoveElement
  <2>3. UNCHANGED <<InFirstCall, DoneJobs>>
    BY <2>1 DEF InFirstCall, Calls, DoneJobs, Done
  <2> HIDE DEF DeliveryInv, TypeOK
  <2>4. QED
    BY <1>0, <2>1, <2>2, <2>3 DEF Balanced, Counted
<1>5. ASSUME NEW j \in Jobs, SweepRedelivers(j) PROVE Balanced'
  <2>1. InFirstCall' = InFirstCall
    BY <1>5, CallBegins, Parties DEF SweepRedelivers, InFirstCall
  <2>2. UNCHANGED <<taken, parked, DoneJobs, countVars>>
    BY <1>5 DEF SweepRedelivers, SweepNext, DoneJobs, Done, countVars
  <2>3. QED
    BY <2>1, <2>2, CountsKept
<1>6. CASE \/ \E j \in Jobs : Finish(j)
           \/ SweepBegins \/ Tick \/ UNCHANGED vars
  BY <1>1, <1>6 DEF Finish, SweepBegins, Tick, vars, callVars, parkVars
<1>7. QED
  BY <1>2, <1>3, <1>4, <1>5, <1>6 DEF Next, SweepSteps

\* The books of /queue/stats balance in every state: no result that a notifier
\* has taken is ever neither under way, nor delivered, nor parked, nor counted
\* as abandoned.
THEOREM BooksBalance == Spec => []ResultsAreConserved
<1>1. Init => Balanced
  <2> SUFFICES ASSUME Init PROVE Balanced
    OBVIOUS
  <2>1. taken = {} /\ parked = {} /\ InFirstCall = {} /\ DoneJobs = {}
    BY DEF Init, InFirstCall, DoneJobs, Calls, Done
  <2>2. QED
    BY <2>1, FS_EmptySet DEF Init, Balanced
<1>2. QED
  BY <1>1, CountsStep, BalancedIsConserved, Delivering, Recorded, PTL DEF Spec
=============================================================================
