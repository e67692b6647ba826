--------------------------- MODULE FrontDoorProofs ---------------------------
(***************************************************************************)
(* Proofs about the endpoints and the registries, for every number of      *)
(* processes, requests and knowledge bases, every limit of the backlog and *)
(* of the pool, and any number of restarts.                                *)
(***************************************************************************)
EXTENDS FrontDoor, FiniteSetTheorems, SequenceTheorems, TLAPS

\* The jobs an executor has.
InPool == [w \in Workers |-> Range(backlog[w]) \cup active[w]]

\* What the state of a request says of its job: which status it can have, and
\* whether its outcome has gone anywhere yet.
RequestOf(j) ==
  /\ request[j] \in {"none", "fetching"} => status[j] = "none"
  /\ request[j] = "reading" => status[j] = "queued"
  /\ request[j] = "running" => status[j] = "processing"
  /\ request[j] = "refused" => status[j] \in {"none", "queued"}
  /\ request[j] = "dropped" => status[j] \notin Terminal
  /\ request[j] = "accepted" => status[j] # "none"
  /\ request[j] = "answered" => status[j] \in Terminal
  /\ j \in skipped <=> request[j] = "answered"
  /\ j \in reported <=> request[j] = "accepted" /\ status[j] \in Terminal

\* Where a job can be found: only accepted jobs are in an executor, a registry
\* has the jobs created in its process, since its last restart, and a queued
\* one among these that was accepted is in the executor or stranded.
PlaceOf(w, j) ==
  /\ j \in InPool[w] => request[j] = "accepted"
  /\ j \in registry[w] =>
       /\ home[j] = w
       /\ request[j] \notin {"none", "fetching", "dropped"}
       /\ status[j] = "queued" /\ request[j] = "accepted" =>
            j \in InPool[w] \cup stranded

RouteInv ==
  \A j \in Jobs : RequestOf(j) /\ \A w \in Workers : PlaceOf(w, j)

\* Without the numbers of TypeOK.
TypeInv ==
  /\ home \in [Jobs -> Workers \cup {Nowhere}]
  /\ request \in [Jobs -> {"none"} \cup Open \cup Settled]
  /\ status \in [Jobs -> {"none", "queued", "processing"} \cup Terminal]
  /\ registry \in [Workers -> SUBSET Jobs]
  /\ active \in [Workers -> SUBSET Jobs]
  /\ cancelled \in [Workers -> SUBSET Jobs]
  /\ backlog \in [Workers -> Seq(Jobs)]
  /\ stranded \subseteq Jobs
  /\ reported \subseteq Jobs
  /\ skipped \subseteq Jobs

\* Dispatch never fills a pool beyond its size, nor submit a backlog.
SizeInv ==
  /\ \A w \in Workers : /\ Len(backlog[w]) <= WaitingMax
                        /\ IsFiniteSet(active[w])
                        /\ Cardinality(active[w]) <= Pool
  /\ restarts \in 0..MaxRestarts
(***************************************************************************)
(* The executors' contents                                                 *)
(***************************************************************************)

\* What put() adds to a queue.
LEMMA RangeAppend ==
  ASSUME NEW S, NEW s \in Seq(S), NEW x \in S
  PROVE  Range(Append(s, x)) = Range(s) \cup {x}
<1>1. /\ Len(s) \in Nat /\ DOMAIN s = 1..Len(s)
      /\ DOMAIN Append(s, x) = 1..(Len(s) + 1)
      /\ \A i \in 1..Len(s) : Append(s, x)[i] = s[i]
      /\ Append(s, x)[Len(s) + 1] = x
  BY AppendProperties
<1>2. \A i \in DOMAIN Append(s, x) : i \in DOMAIN s \/ i = Len(s) + 1
  BY <1>1
<1>3. DOMAIN s \subseteq DOMAIN Append(s, x) /\ Len(s) + 1 \in DOMAIN Append(s, x)
  BY <1>1
<1>4. \A e : e \in Range(Append(s, x)) <=> e \in Range(s) \cup {x}
  BY <1>1, <1>2, <1>3 DEF Range
<1>5. QED
  BY <1>4

\* What get() takes from it.
LEMMA RangeTail ==
  ASSUME NEW S, NEW s \in Seq(S), s # <<>>
  PROVE  Range(s) = Range(Tail(s)) \cup {Head(s)}
<1>1. /\ Len(s) \in Nat \ {0} /\ DOMAIN s = 1..Len(s) /\ Head(s) = s[1]
      /\ DOMAIN Tail(s) = 1..(Len(s) - 1)
      /\ \A i \in 1..(Len(s) - 1) : Tail(s)[i] = s[i + 1]
  BY HeadTailProperties, EmptySeq
<1>2. \A i \in DOMAIN s :
        i = 1 \/ (i - 1 \in DOMAIN Tail(s) /\ s[i] = Tail(s)[i - 1])
  BY <1>1
<1>3. \A i \in DOMAIN Tail(s) : i + 1 \in DOMAIN s /\ s[i + 1] = Tail(s)[i]
  BY <1>1
<1>4. Range(s) \subseteq Range(Tail(s)) \cup {Head(s)}
  BY <1>1, <1>2 DEF Range
<1>5. 1 \in DOMAIN s /\ Head(s) = s[1]
  BY <1>1
<1>6. Range(Tail(s)) \cup {Head(s)} \subseteq Range(s)
  BY <1>3, <1>5 DEF Range
<1>7. QED
  BY <1>4, <1>6

\* A submitted job is in the executor, or was refused; nothing else changes.
LEMMA SubmitAdds ==
  ASSUME TypeInv, NEW w \in Workers, NEW j \in Jobs, Submit(w, j)
  PROVE  /\ backlog' \in [Workers -> Seq(Jobs)]
         /\ \/ /\ request' = [request EXCEPT ![j] = "accepted"]
               /\ j \in InPool'[w]
               /\ \A v \in Workers : /\ InPool[v] \subseteq InPool'[v]
                                     /\ InPool'[v] \subseteq InPool[v] \cup {j}
            \/ /\ request' = [request EXCEPT ![j] = "refused"]
               /\ \A v \in Workers : InPool'[v] = InPool[v]
<1> USE DEF TypeInv
<1>1. CASE UNCHANGED backlog /\ Answer(j, "refused")
  BY <1>1 DEF Submit, Answer, InPool
<1>2. CASE /\ backlog' = [backlog EXCEPT ![w] = Append(@, j)]
           /\ Answer(j, "accepted")
  <2>1. backlog[w] \in Seq(Jobs)
    OBVIOUS
  <2>2. /\ Append(backlog[w], j) \in Seq(Jobs)
        /\ Range(Append(backlog[w], j)) = Range(backlog[w]) \cup {j}
    BY <2>1, AppendProperties, RangeAppend
  <2>3. /\ backlog'[w] = Append(backlog[w], j)
        /\ \A v \in Workers \ {w} : backlog'[v] = backlog[v]
        /\ backlog' \in [Workers -> Seq(Jobs)]
    BY <1>2, <2>2
  <2>4. active' = active
    BY DEF Submit
  <2>5. \A v \in Workers : InPool'[v] = InPool[v] \cup (IF v = w THEN {j} ELSE {})
    BY <2>2, <2>3, <2>4 DEF InPool
  <2>6. QED
    BY <1>2, <2>3, <2>5 DEF Answer
<1>3. QED
  BY <1>1, <1>2 DEF Submit

\* The dispatcher moves a job within the executor.
LEMMA DispatchMoves ==
  ASSUME TypeInv, NEW w \in Workers, Dispatch(w)
  PROVE  /\ backlog' \in [Workers -> Seq(Jobs)]
         /\ active' \in [Workers -> SUBSET Jobs]
         /\ \A v \in Workers : InPool'[v] = InPool[v]
<1> USE DEF TypeInv
<1>1. backlog[w] \in Seq(Jobs) /\ backlog[w] # <<>>
  BY DEF Dispatch
<1>2. /\ Tail(backlog[w]) \in Seq(Jobs)
      /\ Head(backlog[w]) \in Jobs
      /\ Range(backlog[w]) = Range(Tail(backlog[w])) \cup {Head(backlog[w])}
  BY <1>1, HeadTailProperties, RangeTail
<1>3. /\ backlog'[w] = Tail(backlog[w])
      /\ active'[w] = active[w] \cup {Head(backlog[w])}
      /\ \A v \in Workers \ {w} : backlog'[v] = backlog[v] /\ active'[v] = active[v]
      /\ backlog' \in [Workers -> Seq(Jobs)]
      /\ active' \in [Workers -> SUBSET Jobs]
  BY <1>2 DEF Dispatch
<1>4. QED
  BY <1>2, <1>3 DEF InPool

\* A job's task, or a cancellation, takes nothing but jobs out of it.
LEMMA TaskLeaves ==
  ASSUME TypeInv, NEW w \in Workers, NEW j \in Jobs, Begins(w, j) \/ Ends(w, j)
  PROVE  /\ active' \in [Workers -> SUBSET Jobs]
         /\ cancelled' \in [Workers -> SUBSET Jobs]
         /\ \A v \in Workers : /\ InPool'[v] \subseteq InPool[v]
                               /\ InPool[v] \subseteq InPool'[v] \cup {j}
         /\ status'[j] = "processing" => \A v \in Workers : InPool'[v] = InPool[v]
<1> USE DEF TypeInv
<1>1. backlog' = backlog
  BY DEF Begins, Ends
<1>2. \/ active' = active /\ cancelled' = cancelled
      \/ /\ active' = [active EXCEPT ![w] = @ \ {j}]
         /\ cancelled' = [cancelled EXCEPT ![w] = @ \ {j}]
         /\ status'[j] # "processing"
  BY DEF Begins, Ends, Terminal
<1>3. CASE active' = active /\ cancelled' = cancelled
  BY <1>1, <1>3 DEF InPool
<1>4. CASE /\ active' = [active EXCEPT ![w] = @ \ {j}]
           /\ cancelled' = [cancelled EXCEPT ![w] = @ \ {j}]
           /\ status'[j] # "processing"
  <2>1. /\ active' \in [Workers -> SUBSET Jobs]
        /\ cancelled' \in [Workers -> SUBSET Jobs]
        /\ active'[w] = active[w] \ {j}
        /\ \A v \in Workers \ {w} : active'[v] = active[v]
    BY <1>4
  <2>2. QED
    BY <1>1, <1>4, <2>1 DEF InPool
<1>5. QED
  BY <1>2, <1>3, <1>4

LEMMA CancelLeaves ==
  ASSUME TypeInv, NEW w \in Workers, NEW kb \in Kbs, CancelKb(w, kb)
  PROVE  /\ active' \in [Workers -> SUBSET Jobs]
         /\ cancelled' \in [Workers -> SUBSET Jobs]
         /\ stranded \subseteq stranded' /\ stranded' \subseteq Jobs
         /\ \A v \in Workers : /\ InPool'[v] \subseteq InPool[v]
                               /\ InPool[v] \subseteq InPool'[v] \cup stranded'
<1> USE DEF TypeInv
<1>1. Range(backlog[w]) \subseteq Jobs
  BY DEF Range
<1>2. PICK found \in SUBSET Jobs, fresh \in SUBSET Jobs :
        /\ cancelled' = [cancelled EXCEPT ![w] = @ \cup found]
        /\ active' = [active EXCEPT ![w] = @ \ fresh]
        /\ stranded' = stranded \cup fresh
        /\ backlog' = backlog
  <2> DEFINE found == {j \in Range(backlog[w]) \cup active[w] : KbOf[j] = kb}
             fresh == {j \in found \cap active[w] : status[j] = "queued"}
  <2>1. found \in SUBSET Jobs /\ fresh \in SUBSET Jobs
    BY <1>1
  <2>2. QED
    BY <2>1 DEF CancelKb
<1>3. QED
  BY <1>2 DEF InPool

(***************************************************************************)
(* Types                                                                   *)
(***************************************************************************)

LEMMA TypeStep == TypeInv /\ [Next]_vars => TypeInv'
<1> SUFFICES ASSUME TypeInv, [Next]_vars PROVE TypeInv'
  OBVIOUS
<1> USE DEF TypeInv, Open, Settled, Terminal
<1>1. ASSUME NEW w \in Workers, NEW j \in Jobs, NEW s \in {"queued", "processing"},
             Create(w, j, s)
      PROVE  /\ registry' \in [Workers -> SUBSET Jobs]
             /\ status' \in [Jobs -> {"none", "queued", "processing"} \cup Terminal]
  BY <1>1 DEF Create
<1>2. ASSUME NEW w \in Workers, NEW j \in Jobs,
             \/ RefusedEarly(w, j) \/ IngestBadType(w, j) \/ FileBegins(w, j)
             \/ SourceBegins(w, j) \/ SyncBegins(w, j)
      PROVE  TypeInv'
  <2>1. /\ UNCHANGED <<backlog, active, cancelled, stranded, reported, skipped>>
        /\ home' \in [Jobs -> Workers \cup {Nowhere}]
        /\ request' \in [Jobs -> {"none"} \cup Open \cup Settled]
    <3>1. /\ UNCHANGED <<backlog, active, cancelled, stranded, reported, skipped>>
          /\ home' = [home EXCEPT ![j] = w]
          /\ \E a \in Open \cup Settled : request' = [request EXCEPT ![j] = a]
      <4>1. CASE RefusedEarly(w, j) \/ SourceBegins(w, j)
        BY <4>1 DEF RefusedEarly, SourceBegins, Arrives, Answer, queueVars,
                    Open, Settled
      <4>2. CASE IngestBadType(w, j) \/ FileBegins(w, j) \/ SyncBegins(w, j)
        BY <4>2 DEF IngestBadType, FileBegins, SyncBegins, Arrives, Answer,
                    queueVars, Open, Settled
      <4>3. QED
        BY <1>2, <4>1, <4>2
    <3>2. QED
      BY <3>1
  <2>2. \/ \E s \in {"queued", "processing"} : Create(w, j, s)
        \/ UNCHANGED <<registry, status>>
    BY <1>2 DEF RefusedEarly, IngestBadType, FileBegins, SourceBegins,
                SyncBegins
  <2>3. QED
    BY <1>1, <2>1, <2>2
<1>3. ASSUME NEW w \in Workers, NEW j \in Jobs,
             Ingest(w, j) \/ FileRead(w, j) \/ SourceRead(w, j)
      PROVE  TypeInv'
  <2>1. Submit(w, j)
    BY <1>3 DEF Ingest, FileRead, SourceRead
  <2>2. /\ backlog' \in [Workers -> Seq(Jobs)]
        /\ request' \in [Jobs -> {"none"} \cup Open \cup Settled]
    BY <2>1, SubmitAdds
  <2>3. UNCHANGED <<active, cancelled, stranded, reported, skipped>>
    BY <2>1 DEF Submit
  <2>4. \/ Create(w, j, "queued")
        \/ UNCHANGED <<registry, status>>
    BY <1>3 DEF Ingest, FileRead, SourceRead
  <2>5. home' \in [Jobs -> Workers \cup {Nowhere}]
    BY <1>3 DEF Ingest, FileRead, SourceRead, Arrives
  <2>6. QED
    BY <1>1, <2>2, <2>3, <2>4, <2>5
<1>4. ASSUME NEW w \in Workers, NEW j \in Jobs,
             FileTooLarge(w, j) \/ SourceFails(w, j) \/ SyncEnds(w, j)
      PROVE  TypeInv'
  <2>1. /\ UNCHANGED <<home, registry, backlog, active, cancelled, stranded,
                       reported>>
        /\ skipped' \subseteq Jobs
        /\ request' \in [Jobs -> {"none"} \cup Open \cup Settled]
        /\ status' \in [Jobs -> {"none", "queued", "processing"} \cup Terminal]
    <3>1. CASE FileTooLarge(w, j) \/ SourceFails(w, j)
      BY <3>1 DEF FileTooLarge, SourceFails, Answer, queueVars
    <3>2. CASE SyncEnds(w, j)
      BY <3>2 DEF SyncEnds, Answer, queueVars
    <3>3. QED
      BY <1>4, <3>1, <3>2
  <2>2. QED
    BY <2>1
<1>5. ASSUME NEW w \in Workers, NEW j \in Jobs, Begins(w, j) \/ Ends(w, j)
      PROVE  TypeInv'
  <2>1. /\ UNCHANGED <<home, request, registry, backlog, stranded, skipped>>
        /\ reported' \subseteq Jobs
        /\ status' \in [Jobs -> {"none", "queued", "processing"} \cup Terminal]
    BY <1>5 DEF Begins, Ends
  <2>2. QED
    BY <1>5, <2>1, TaskLeaves
<1>6. ASSUME NEW w \in Workers, Dispatch(w) PROVE TypeInv'
  BY <1>6, DispatchMoves DEF Dispatch
<1>7. ASSUME NEW w \in Workers, NEW kb \in Kbs, CancelKb(w, kb) PROVE TypeInv'
  <2>1. UNCHANGED <<home, request, status, registry, backlog, reported, skipped>>
    BY <1>7 DEF CancelKb
  <2>2. /\ active' \in [Workers -> SUBSET Jobs]
        /\ cancelled' \in [Workers -> SUBSET Jobs]
        /\ stranded' \subseteq Jobs
    BY <1>7, CancelLeaves
  <2>3. QED
    BY <2>1, <2>2
<1>8. ASSUME NEW w \in Workers, Restart(w) PROVE TypeInv'
  <2>1. /\ UNCHANGED <<home, status, stranded, reported, skipped>>
        /\ request' \in [Jobs -> {"none"} \cup Open \cup Settled]
    BY <1>8 DEF Restart
  <2>2. <<>> \in Seq(Jobs) /\ {} \in SUBSET Jobs
    OBVIOUS
  <2>3. /\ backlog' \in [Workers -> Seq(Jobs)]
        /\ registry' \in [Workers -> SUBSET Jobs]
        /\ active' \in [Workers -> SUBSET Jobs]
        /\ cancelled' \in [Workers -> SUBSET Jobs]
    BY <1>8, <2>2 DEF Restart
  <2>4. QED
    BY <2>1, <2>3
<1>9. CASE UNCHANGED vars
  BY <1>9 DEF vars, queueVars
<1>10. QED
  BY <1>2, <1>3, <1>4, <1>5, <1>6, <1>7, <1>8, <1>9 DEF Next, RequestSteps

(***************************************************************************)
(* Where each job is                                                       *)
(***************************************************************************)

\* A request that is refused, or that begins: it has no outcome yet, and is in
\* no executor before and after.
LEMMA RouteBegins ==
  ASSUME TypeInv, RouteInv, NEW w \in Workers, NEW j \in Jobs,
         \/ RefusedEarly(w, j) \/ IngestBadType(w, j) \/ FileBegins(w, j)
         \/ SourceBegins(w, j) \/ SyncBegins(w, j)
         \/ FileTooLarge(w, j) \/ SourceFails(w, j)
  PROVE  RouteInv'
<1> USE DEF TypeInv
<1>1. /\ \A v \in Workers : InPool'[v] = InPool[v]
      /\ UNCHANGED <<stranded, reported, skipped>>
      /\ \A k \in Jobs \ {j} :
           /\ home'[k] = home[k] /\ request'[k] = request[k]
           /\ status'[k] = status[k]
           /\ \A v \in Workers : k \in registry'[v] <=> k \in registry[v]
  <2>1. UNCHANGED <<backlog, active, stranded, reported, skipped>>
    BY DEF RefusedEarly, IngestBadType, FileBegins, SourceBegins, SyncBegins,
           FileTooLarge, SourceFails, queueVars
  <2>2. InPool' = InPool
    BY <2>1 DEF InPool
  <2>3. /\ home' = [home EXCEPT ![j] = w] \/ home' = home
        /\ \E a \in Settled \cup Open : Answer(j, a)
        /\ \/ UNCHANGED <<status, registry>>
           \/ \E st \in {"queued", "processing"} : Create(w, j, st)
    <3>1. CASE RefusedEarly(w, j) \/ SourceBegins(w, j)
      BY <3>1 DEF RefusedEarly, SourceBegins, Arrives, Settled, Open
    <3>2. CASE IngestBadType(w, j) \/ FileBegins(w, j) \/ SyncBegins(w, j)
      BY <3>2 DEF IngestBadType, FileBegins, SyncBegins, Arrives, Settled, Open
    <3>3. CASE FileTooLarge(w, j) \/ SourceFails(w, j)
      BY <3>3 DEF FileTooLarge, SourceFails, Settled, Open
    <3>4. QED
      BY <3>1, <3>2, <3>3
  <2>4. \A k \in Jobs \ {j} : home'[k] = home[k]
    BY <2>3
  <2>5. \A k \in Jobs \ {j} : request'[k] = request[k]
    BY <2>3 DEF Answer
  <2>6. \A k \in Jobs \ {j} :
          /\ status'[k] = status[k]
          /\ \A v \in Workers : k \in registry'[v] <=> k \in registry[v]
    BY <2>3 DEF Create
  <2>7. QED
    BY <2>1, <2>2, <2>4, <2>5, <2>6
<1>2. ASSUME NEW k \in Jobs \ {j}, NEW v \in Workers
      PROVE  RequestOf(k)' /\ PlaceOf(v, k)'
  <2>1. RequestOf(k) /\ PlaceOf(v, k)
    BY DEF RouteInv
  <2>2. RequestOf(k)'
    BY <1>1, <2>1 DEF RequestOf
  <2>3. PlaceOf(v, k)'
    BY <1>1, <2>1 DEF PlaceOf
  <2>4. QED
    BY <2>2, <2>3
<1>3. ASSUME NEW v \in Workers PROVE RequestOf(j)' /\ PlaceOf(v, j)'
  <2>1. RequestOf(j) /\ PlaceOf(v, j)
    BY DEF RouteInv
  <2>2. CASE RefusedEarly(w, j) \/ SourceBegins(w, j)
    BY <1>1, <2>1, <2>2 DEF RefusedEarly, SourceBegins, Arrives, Answer,
                            RequestOf, PlaceOf, Terminal
  <2>3. CASE IngestBadType(w, j) \/ FileBegins(w, j) \/ SyncBegins(w, j)
    BY <1>1, <2>1, <2>3 DEF IngestBadType, FileBegins, SyncBegins, Arrives,
                            Answer, Create, RequestOf, PlaceOf, Terminal
  <2>4. CASE FileTooLarge(w, j) \/ SourceFails(w, j)
    BY <1>1, <2>1, <2>4 DEF FileTooLarge, SourceFails, Answer, RequestOf,
                            PlaceOf, Terminal
  <2>5. QED
    BY <2>2, <2>3, <2>4
<1>4. ASSUME NEW k \in Jobs, NEW v \in Workers
      PROVE  RequestOf(k)' /\ PlaceOf(v, k)'
  <2>1. CASE k \in Jobs \ {j}
    BY <1>2, <2>1
  <2>2. CASE k = j
    BY <1>3, <2>2 DEF RequestOf, PlaceOf
  <2>3. QED
    BY <2>1, <2>2
<1>5. QED
  BY <1>4 DEF RouteInv

\* A request that reaches submit: its job is new, or was created before the
\* upload was read, and is in no executor yet.
LEMMA RouteSubmits ==
  ASSUME TypeInv, RouteInv, NEW w \in Workers, NEW j \in Jobs,
         Ingest(w, j) \/ FileRead(w, j) \/ SourceRead(w, j)
  PROVE  RouteInv'
<1> USE DEF TypeInv
<1>1. Submit(w, j)
  BY DEF Ingest, FileRead, SourceRead
<1>2. /\ UNCHANGED <<stranded, reported, skipped>>
      /\ \/ request' = [request EXCEPT ![j] = "accepted"] /\ j \in InPool'[w]
         \/ request' = [request EXCEPT ![j] = "refused"]
      /\ \A k \in Jobs \ {j} : \A v \in Workers : k \in InPool'[v] <=> k \in InPool[v]
      /\ request'[j] = "refused" => \A v \in Workers : InPool'[v] = InPool[v]
  <2>1. UNCHANGED <<stranded, reported, skipped>>
    BY <1>1 DEF Submit
  <2>2. CASE /\ request' = [request EXCEPT ![j] = "accepted"]
             /\ j \in InPool'[w]
             /\ \A v \in Workers : /\ InPool[v] \subseteq InPool'[v]
                                   /\ InPool'[v] \subseteq InPool[v] \cup {j}
    BY <2>1, <2>2
  <2>3. CASE /\ request' = [request EXCEPT ![j] = "refused"]
             /\ \A v \in Workers : InPool'[v] = InPool[v]
    BY <2>1, <2>3
  <2>4. QED
    BY <1>1, <2>2, <2>3, SubmitAdds
<1>3. /\ request[j] \in {"none", "reading", "fetching"}
      /\ status'[j] = "queued"
      /\ home'[j] = w
      /\ \A v \in Workers : j \in registry'[v] => j \in registry[v] \/ v = w
      /\ \A k \in Jobs \ {j} :
           /\ home'[k] = home[k]
           /\ status'[k] = status[k]
           /\ \A v \in Workers : k \in registry'[v] <=> k \in registry[v]
  <2>1. RequestOf(j)
    BY DEF RouteInv
  <2>2. QED
    <3>1. CASE Ingest(w, j)
      BY <3>1 DEF Ingest, Arrives, Create
    <3>2. CASE FileRead(w, j)
      BY <2>1, <3>2 DEF FileRead, RequestOf
    <3>3. CASE SourceRead(w, j)
      BY <3>3 DEF SourceRead, Create
    <3>4. QED
      BY <3>1, <3>2, <3>3
<1>4. ASSUME NEW k \in Jobs \ {j}, NEW v \in Workers
      PROVE  RequestOf(k)' /\ PlaceOf(v, k)'
  BY <1>2, <1>3 DEF RouteInv, RequestOf, PlaceOf
<1>5. ASSUME NEW v \in Workers PROVE RequestOf(j)' /\ PlaceOf(v, j)'
  <2>1. RequestOf(j) /\ PlaceOf(v, j)
    BY DEF RouteInv
  <2>2. request'[j] \in {"accepted", "refused"}
    BY <1>2
  <2>3. RequestOf(j)'
    BY <1>2, <1>3, <2>1, <2>2 DEF RequestOf, Terminal
  <2>4. j \in registry'[v] => v = w
    <3>1. j \in registry[v] => home[j] = v /\ request[j] = "reading"
      BY <1>3, <2>1 DEF PlaceOf
    <3>2. request[j] = "reading" => home[j] = w
      BY DEF Ingest, FileRead, SourceRead, Arrives
    <3>3. QED
      BY <1>3, <3>1, <3>2
  <2>5. PlaceOf(v, j)'
    BY <1>2, <1>3, <2>1, <2>2, <2>4 DEF PlaceOf
  <2>6. QED
    BY <2>3, <2>5
<1>6. ASSUME NEW k \in Jobs, NEW v \in Workers
      PROVE  RequestOf(k)' /\ PlaceOf(v, k)'
  <2>1. CASE k \in Jobs \ {j}
    BY <1>4, <2>1
  <2>2. CASE k = j
    BY <1>5, <2>2 DEF RequestOf, PlaceOf
  <2>3. QED
    BY <2>1, <2>2
<1>7. QED
  BY <1>6 DEF RouteInv

\* /ingest/sync answers with the outcome itself.
LEMMA RouteSyncEnds ==
  ASSUME TypeInv, RouteInv, NEW w \in Workers, NEW j \in Jobs, SyncEnds(w, j)
  PROVE  RouteInv'
<1> USE DEF TypeInv
<1>1. /\ UNCHANGED <<home, registry, stranded, reported>>
      /\ skipped' = skipped \cup {j}
      /\ request' = [request EXCEPT ![j] = "answered"]
      /\ status'[j] \in Terminal
      /\ \A k \in Jobs \ {j} : status'[k] = status[k]
      /\ request[j] = "running"
  BY DEF SyncEnds, Answer, queueVars, Terminal
<1>2. InPool' = InPool
  BY DEF SyncEnds, queueVars, InPool
<1>3. ASSUME NEW k \in Jobs \ {j}, NEW v \in Workers
      PROVE  RequestOf(k)' /\ PlaceOf(v, k)'
  BY <1>1, <1>2 DEF RouteInv, RequestOf, PlaceOf
<1>4. ASSUME NEW v \in Workers PROVE RequestOf(j)' /\ PlaceOf(v, j)'
  BY <1>1, <1>2 DEF RouteInv, RequestOf, PlaceOf, Terminal
<1>5. QED
  BY <1>3, <1>4 DEF RouteInv, RequestOf, PlaceOf

\* A job in an executor begins, or is reported with its outcome.
LEMMA RouteTask ==
  ASSUME TypeInv, RouteInv, NEW w \in Workers, NEW j \in Jobs,
         Begins(w, j) \/ Ends(w, j)
  PROVE  RouteInv'
<1> USE DEF TypeInv
<1>1. /\ UNCHANGED <<home, request, registry, stranded, skipped>>
      /\ j \in InPool[w]
      /\ \A k \in Jobs \ {j} : status'[k] = status[k]
      /\ \/ status'[j] = "processing" /\ reported' = reported
         \/ status'[j] \in Terminal /\ reported' = reported \cup {j}
      /\ status[j] \in {"queued", "processing"}
  <2>1. CASE Begins(w, j)
    BY <2>1 DEF Begins, InPool, Terminal
  <2>2. CASE Ends(w, j)
    <3>1. PICK st \in Terminal : status' = [status EXCEPT ![j] = st]
      BY <2>2 DEF Ends, Terminal
    <3>2. QED
      BY <2>2, <3>1 DEF Ends, InPool, Terminal
  <2>3. QED
    BY <2>1, <2>2
<1>2. /\ \A v \in Workers : InPool'[v] \subseteq InPool[v]
      /\ \A v \in Workers : InPool[v] \subseteq InPool'[v] \cup {j}
  BY TaskLeaves
<1>3. ASSUME NEW k \in Jobs \ {j}, NEW v \in Workers
      PROVE  RequestOf(k)' /\ PlaceOf(v, k)'
  BY <1>1, <1>2 DEF RouteInv, RequestOf, PlaceOf
<1>4. request[j] = "accepted"
  BY <1>1 DEF RouteInv, PlaceOf
<1>5. ASSUME NEW k \in {j}, NEW v \in Workers
      PROVE  RequestOf(k)' /\ PlaceOf(v, k)'
  BY <1>1, <1>2, <1>4 DEF RouteInv, RequestOf, PlaceOf, Terminal
<1>6. ASSUME NEW k \in Jobs, NEW v \in Workers
      PROVE  RequestOf(k)' /\ PlaceOf(v, k)'
  <2>1. k \in Jobs \ {j} \/ k \in {j}
    OBVIOUS
  <2>2. QED
    BY <1>3, <1>5, <2>1
<1>7. QED
  BY <1>6 DEF RouteInv, RequestOf, PlaceOf

\* What concerns no single job.
LEMMA RouteProcess ==
  ASSUME TypeInv, RouteInv, NEW w \in Workers,
         \/ Dispatch(w) \/ Restart(w) \/ \E kb \in Kbs : CancelKb(w, kb)
  PROVE  RouteInv'
<1> USE DEF TypeInv
<1>1. CASE Dispatch(w)
  <2>1. /\ UNCHANGED <<home, request, status, registry, stranded, reported, skipped>>
        /\ \A v \in Workers : InPool'[v] = InPool[v]
    BY <1>1, DispatchMoves DEF Dispatch
  <2>2. QED
    BY <2>1 DEF RouteInv, RequestOf, PlaceOf
<1>2. ASSUME NEW kb \in Kbs, CancelKb(w, kb) PROVE RouteInv'
  <2>1. UNCHANGED <<home, request, status, registry, reported, skipped>>
    BY <1>2 DEF CancelKb
  <2>2. /\ stranded \subseteq stranded'
        /\ \A v \in Workers : InPool'[v] \subseteq InPool[v]
        /\ \A v \in Workers : InPool[v] \subseteq InPool'[v] \cup stranded'
    BY <1>2, CancelLeaves
  <2>3. QED
    BY <2>1, <2>2 DEF RouteInv, RequestOf, PlaceOf
<1>3. CASE Restart(w)
  <2>1. /\ UNCHANGED <<home, status, stranded, reported, skipped>>
        /\ registry'[w] = {}
        /\ \A v \in Workers \ {w} : registry'[v] = registry[v]
        /\ \A k \in Jobs :
             \/ request'[k] = request[k]
             \/ /\ home[k] = w
                /\ request[k] \in Open
                /\ request'[k] = "dropped"
    BY <1>3 DEF Restart
  <2>2. /\ InPool'[w] = {}
        /\ \A v \in Workers \ {w} : InPool'[v] = InPool[v]
    BY <1>3 DEF Restart, InPool, Range
  <2>3. ASSUME NEW k \in Jobs, NEW v \in Workers
        PROVE  RequestOf(k)' /\ PlaceOf(v, k)'
    <3>1. RequestOf(k) /\ PlaceOf(v, k)
      BY DEF RouteInv
    <3>2. RequestOf(k)'
      BY <2>1, <3>1 DEF RequestOf, Open, Terminal
    <3>3. PlaceOf(v, k)'
      BY <2>1, <2>2, <3>1 DEF PlaceOf, Open
    <3>4. QED
      BY <3>2, <3>3
  <2>4. QED
    BY <2>3 DEF RouteInv, RequestOf, PlaceOf
<1>4. QED
  BY <1>1, <1>2, <1>3

LEMMA RouteStep == TypeInv /\ RouteInv /\ [Next]_vars => RouteInv'
<1> SUFFICES ASSUME TypeInv, RouteInv, [Next]_vars PROVE RouteInv'
  OBVIOUS
<1>1. CASE UNCHANGED vars
  BY <1>1 DEF vars, queueVars, RouteInv, RequestOf, PlaceOf, InPool
<1>2. CASE Next
  BY <1>2, RouteBegins, RouteSubmits, RouteSyncEnds, RouteTask, RouteProcess
     DEF Next, RequestSteps
<1>3. QED
  BY <1>1, <1>2

LEMMA Routed == Spec => [](TypeInv /\ RouteInv)
<1>1. Init => TypeInv /\ RouteInv
  <2> SUFFICES ASSUME Init PROVE TypeInv /\ RouteInv
    OBVIOUS
  <2>1. TypeInv
    BY DEF Init, TypeInv
  <2>2. \A w \in Workers : InPool[w] = {}
    BY DEF Init, InPool, Range
  <2>3. RouteInv
    BY <2>2 DEF Init, RouteInv, RequestOf, PlaceOf, Terminal
  <2>4. QED
    BY <2>1, <2>3
<1>2. QED
  BY <1>1, TypeStep, RouteStep, PTL DEF Spec

(***************************************************************************)
(* Sizes                                                                   *)
(***************************************************************************)

\* A pool from which jobs have gone.
LEMMA SmallerPool ==
  ASSUME SizeInv, NEW w \in Workers, NEW S, S \subseteq active[w], Pool \in Nat
  PROVE  IsFiniteSet(S) /\ Cardinality(S) <= Pool
<1>1. /\ IsFiniteSet(S)
      /\ Cardinality(S) <= Cardinality(active[w])
      /\ Cardinality(S) \in Nat /\ Cardinality(active[w]) \in Nat
  BY FS_Subset, FS_CardinalityType DEF SizeInv
<1>2. QED
  BY <1>1 DEF SizeInv

LEMMA SizeStep == TypeInv /\ SizeInv /\ [Next]_vars => SizeInv'
<1> SUFFICES ASSUME TypeInv, SizeInv, [Next]_vars PROVE SizeInv'
  OBVIOUS
<1> USE ConstantsOK DEF TypeInv, SizeInv
<1>1. ASSUME UNCHANGED <<backlog, active, restarts>> PROVE SizeInv'
  BY <1>1
<1>2. ASSUME NEW w \in Workers, NEW j \in Jobs, Submit(w, j) PROVE SizeInv'
  <2>1. /\ Append(backlog[w], j) \in Seq(Jobs)
        /\ Len(Append(backlog[w], j)) = Len(backlog[w]) + 1
    BY AppendProperties
  <2>2. UNCHANGED <<active, restarts>>
    BY <1>2 DEF Submit
  <2>3. \A v \in Workers : Len(backlog'[v]) <= WaitingMax
    <3>1. CASE backlog' = backlog
      BY <3>1
    <3>2. CASE /\ Len(backlog[w]) < WaitingMax
               /\ backlog' = [backlog EXCEPT ![w] = Append(@, j)]
      <4>1. /\ backlog'[w] = Append(backlog[w], j)
            /\ \A v \in Workers \ {w} : backlog'[v] = backlog[v]
        BY <3>2
      <4>2. Len(backlog[w]) + 1 <= WaitingMax
        <5>1. backlog[w] \in Seq(Jobs) /\ Len(backlog[w]) \in Nat
          OBVIOUS
        <5>2. QED
          BY <3>2, <5>1
      <4>3. QED
        BY <2>1, <4>1, <4>2
    <3>3. QED
      BY <1>2, <3>1, <3>2 DEF Submit
  <2>4. QED
    BY <2>2, <2>3
<1>3. ASSUME NEW w \in Workers, NEW j \in Jobs, Begins(w, j) \/ Ends(w, j)
      PROVE  SizeInv'
  <2>1. UNCHANGED <<backlog, restarts>>
    BY <1>3 DEF Begins, Ends
  <2>2. active' = active \/ active' = [active EXCEPT ![w] = @ \ {j}]
    BY <1>3 DEF Begins, Ends
  <2>3. \A v \in Workers : active'[v] \subseteq active[v]
    BY <2>2
  <2>4. QED
    BY <2>1, <2>3, SmallerPool
<1>4. ASSUME NEW w \in Workers, NEW kb \in Kbs, CancelKb(w, kb) PROVE SizeInv'
  <2>1. UNCHANGED <<backlog, restarts>>
    BY <1>4 DEF CancelKb
  <2>2. \A v \in Workers : active'[v] \subseteq active[v]
    BY <1>4 DEF CancelKb
  <2>3. QED
    BY <2>1, <2>2, SmallerPool
<1>5. ASSUME NEW w \in Workers, Dispatch(w) PROVE SizeInv'
  <2>1. /\ backlog[w] \in Seq(Jobs) /\ backlog[w] # <<>>
        /\ Cardinality(active[w]) < Pool
        /\ restarts' = restarts
    BY <1>5 DEF Dispatch
  <2>2. Len(Tail(backlog[w])) = Len(backlog[w]) - 1 /\ Len(backlog[w]) \in Nat
    BY <2>1, HeadTailProperties, EmptySeq
  <2>3. /\ IsFiniteSet(active[w] \cup {Head(backlog[w])})
        /\ Cardinality(active[w] \cup {Head(backlog[w])}) <= Pool
    <3>1. IsFiniteSet(active[w]) /\ Cardinality(active[w]) \in Nat
      BY FS_CardinalityType
    <3>2. /\ IsFiniteSet(active[w] \cup {Head(backlog[w])})
          /\ \/ Cardinality(active[w] \cup {Head(backlog[w])}) = Cardinality(active[w])
             \/ Cardinality(active[w] \cup {Head(backlog[w])}) = Cardinality(active[w]) + 1
      BY <3>1, FS_AddElement
    <3>3. QED
      BY <2>1, <3>1, <3>2
  <2>4. /\ backlog'[w] = Tail(backlog[w])
        /\ active'[w] = active[w] \cup {Head(backlog[w])}
        /\ \A v \in Workers \ {w} : backlog'[v] = backlog[v] /\ active'[v] = active[v]
    BY <1>5 DEF Dispatch
  <2>5. Len(backlog'[w]) <= WaitingMax
    BY <2>2, <2>4
  <2>6. QED
    BY <2>1, <2>3, <2>4, <2>5
<1>6. ASSUME NEW w \in Workers, Restart(w) PROVE SizeInv'
  <2>1. /\ backlog'[w] = <<>> /\ active'[w] = {}
        /\ \A v \in Workers \ {w} : backlog'[v] = backlog[v] /\ active'[v] = active[v]
        /\ restarts' \in 0..MaxRestarts
    BY <1>6 DEF Restart
  <2>2. /\ Len(backlog'[w]) <= WaitingMax
        /\ Cardinality(active'[w]) <= Pool
        /\ IsFiniteSet(active'[w])
    BY <2>1, FS_EmptySet
  <2>3. QED
    BY <2>1, <2>2
<1>7. QED
  BY <1>1, <1>2, <1>3, <1>4, <1>5, <1>6
     DEF Next, RequestSteps, RefusedEarly, Ingest, IngestBadType, FileBegins,
         FileTooLarge, FileRead, SourceBegins, SourceFails, SourceRead,
         SyncBegins, SyncEnds, queueVars, vars

\* Types, and the limits: no backlog grows beyond waiting_max, no executor runs
\* more than its pool holds.
THEOREM FrontDoorTyped == Spec => []TypeOK
<1>1. Init => SizeInv
  BY ConstantsOK, FS_EmptySet DEF Init, SizeInv
<1>2. TypeInv /\ SizeInv => TypeOK
  BY DEF TypeInv, SizeInv, TypeOK
<1>3. QED
  BY <1>1, <1>2, SizeStep, Routed, PTL DEF Spec

(***************************************************************************)
(* What clients and core-api can rely on                                   *)
(***************************************************************************)

\* The registry's view: a job it shows as queued is on its way in the process
\* that shows it, or is one of the two kinds the endpoints leave behind, or
\* stranded.
THEOREM QueuedIsOnItsWay == Spec => []QueuedIsWaitingOrRefused
<1>1. TypeInv /\ RouteInv => QueuedIsWaitingOrRefused
  <2> SUFFICES ASSUME TypeInv, RouteInv, NEW w \in Workers,
                      NEW j \in registry[w], status[j] = "queued"
               PROVE  \/ j \in Range(backlog[w]) \cup active[w] \cup stranded
                      \/ request[j] \in {"reading", "refused"}
    BY DEF QueuedIsWaitingOrRefused
  <2>1. j \in Jobs
    BY DEF TypeInv
  <2>2. RequestOf(j) /\ PlaceOf(w, j)
    BY <2>1 DEF RouteInv
  <2>3. request[j] \in {"none", "refused", "accepted", "answered", "dropped",
                        "fetching", "reading", "running"}
    BY <2>1 DEF TypeInv, Open, Settled
  <2>4. QED
    BY <2>2, <2>3 DEF RequestOf, PlaceOf, InPool, Terminal
<1>2. QED
  BY <1>1, Routed, PTL

\* A refusal is final, whichever endpoint gave it and whatever had been created
\* before: the job runs in no process and reports nothing.
THEOREM RefusedStaysOut == Spec => []RefusedNeverRuns
<1>1. TypeInv /\ RouteInv => RefusedNeverRuns
  BY DEF RouteInv, RequestOf, PlaceOf, InPool, RefusedNeverRuns
<1>2. QED
  BY <1>1, Routed, PTL

\* Every outcome is told once, by delivery or in the answer.
THEOREM OneWayForOutcomes == Spec => []OutcomeGoesOneWay
<1>1. TypeInv /\ RouteInv => OutcomeGoesOneWay
  <2> SUFFICES ASSUME TypeInv, RouteInv, NEW j \in Jobs
               PROVE  /\ ~(j \in reported /\ j \in skipped)
                      /\ status[j] \in Terminal =>
                           (j \in reported) #
                             (request[j] = "answered" /\ j \in skipped)
    BY Zenon DEF OutcomeGoesOneWay
  <2>1. /\ status[j] \in Terminal /\ request[j] # "accepted" =>
             request[j] = "answered"
        /\ j \in skipped <=> request[j] = "answered"
        /\ j \in reported <=> request[j] = "accepted" /\ status[j] \in Terminal
    BY DEF TypeInv, RouteInv, RequestOf, Open, Settled, Terminal
  <2>2. QED
    BY <2>1
<1>2. QED
  BY <1>1, Routed, PTL

=============================================================================
