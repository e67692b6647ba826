----------------------------- MODULE FrontDoor ------------------------------
(***************************************************************************)
(* The ingest endpoints (src/main.py) and the job registry                 *)
(* (src/jobs/manager.py) in the uvicorn processes of one worker container  *)
(* (Dockerfile: four of them behind one port).  Every process has its own  *)
(* registry and executor; a request goes to one of them, whichever accepts *)
(* its connection.  A request creates its job, in most endpoints before it *)
(* is known whether the job can be run.                                    *)
(*                                                                         *)
(* The executor is reduced to what IngestPromise.tla says of it: a bounded *)
(* backlog, jobs that run and end, cancelled ones that end as cancelled.   *)
(***************************************************************************)
EXTENDS Integers, FiniteSets, Sequences, SequencesExt

CONSTANTS
  Workers,     (* processes                                                   *)
  Jobs,        (* ingest requests, and the jobs they create                   *)
  Kbs, KbOf,   (* knowledge bases; that of each request                       *)
  WaitingMax,  (* the backlog's limit                                         *)
  Pool,        (* jobs an executor runs at once                               *)
  MaxRestarts, (* bound: restarts of processes                                *)
  Nowhere

ASSUME ConstantsOK ==
  /\ KbOf \in [Jobs -> Kbs]
  /\ {WaitingMax, Pool} \subseteq Nat \ {0}
  /\ MaxRestarts \in Nat
  /\ Nowhere \notin Workers

VARIABLES
  home,      (* the process a request has reached                             *)
  request,   (* where a request is                                            *)
  status,    (* job.status, "none" before the job exists                      *)
  registry,  (* job_manager._jobs of every process                            *)
  backlog, active, cancelled,  (* the executor of every process               *)
  stranded,  (* jobs whose task was cancelled before it began                 *)
  reported,  (* jobs handed over to the completion queue                      *)
  skipped,   (* jobs whose delivery_status is "skipped"                       *)
  restarts

queueVars == <<backlog, active, cancelled, stranded>>
vars == <<home, request, status, registry, queueVars, reported, skipped,
          restarts>>

Open     == {"fetching", "reading", "running"}
Settled  == {"refused", "accepted", "answered", "dropped"}
Terminal == {"completed", "failed", "cancelled"}

TypeOK ==
  /\ home \in [Jobs -> Workers \cup {Nowhere}]
  /\ request \in [Jobs -> {"none"} \cup Open \cup Settled]
  /\ status \in [Jobs -> {"none", "queued", "processing"} \cup Terminal]
  /\ {registry, active, cancelled} \subseteq [Workers -> SUBSET Jobs]
  /\ \A w \in Workers :
       /\ backlog[w] \in Seq(Jobs) /\ Len(backlog[w]) <= WaitingMax
       /\ Cardinality(active[w]) <= Pool
  /\ {stranded, reported, skipped} \subseteq SUBSET Jobs
  /\ restarts \in 0..MaxRestarts

Init ==
  /\ home = [j \in Jobs |-> Nowhere]
  /\ request = [j \in Jobs |-> "none"]
  /\ status = [j \in Jobs |-> "none"]
  /\ registry = [w \in Workers |-> {}]
  /\ backlog = [w \in Workers |-> <<>>]
  /\ active = [w \in Workers |-> {}]
  /\ cancelled = [w \in Workers |-> {}]
  /\ stranded = {}
  /\ reported = {}
  /\ skipped = {}
  /\ restarts = 0

-----------------------------------------------------------------------------
(* Requests                                                                *)

Arrives(w, j) ==
  /\ request[j] = "none"
  /\ home' = [home EXCEPT ![j] = w]

Answer(j, a) == request' = [request EXCEPT ![j] = a]

\* job_manager.create_job.
Create(w, j, s) ==
  /\ registry' = [registry EXCEPT ![w] = @ \cup {j}]
  /\ status' = [status EXCEPT ![j] = s]

\* Caps, object key, source: refused before there is a job.
RefusedEarly(w, j) ==
  /\ Arrives(w, j)
  /\ Answer(j, "refused")
  /\ UNCHANGED <<status, registry, queueVars, reported, skipped, restarts>>

\* _submit_to_queue: 429 when the backlog is full.
Submit(w, j) ==
  /\ IF Len(backlog[w]) < WaitingMax
     THEN /\ backlog' = [backlog EXCEPT ![w] = Append(@, j)]
          /\ Answer(j, "accepted")
     ELSE UNCHANGED backlog /\ Answer(j, "refused")
  /\ UNCHANGED <<active, cancelled, stranded, reported, skipped, restarts>>

\* /ingest and /ingest/r2 do not suspend between the creation and submit.
Ingest(w, j) ==
  /\ Arrives(w, j)
  /\ Create(w, j, "queued")
  /\ Submit(w, j)

\* /ingest: an unknown doc_type raises after the job has been created.
IngestBadType(w, j) ==
  /\ Arrives(w, j)
  /\ Create(w, j, "queued")
  /\ Answer(j, "refused")
  /\ UNCHANGED <<queueVars, reported, skipped, restarts>>

\* /ingest/file: the job is created, then the uploads are read one by one,
FileBegins(w, j) ==
  /\ Arrives(w, j)
  /\ Create(w, j, "queued")
  /\ Answer(j, "reading")
  /\ UNCHANGED <<queueVars, reported, skipped, restarts>>

\* Mutant: what has been read is enqueued before it is measured.
FileEnqueuedTooLarge(w, j) ==
  /\ request[j] = "reading" /\ home[j] = w
  /\ Len(backlog[w]) < WaitingMax
  /\ backlog' = [backlog EXCEPT ![w] = Append(@, j)]
  /\ Answer(j, "refused")
  /\ UNCHANGED <<home, status, registry, active, cancelled, stranded, reported,
                 skipped, restarts>>

\* and a file, or all of them, may be too large.
FileTooLarge(w, j) ==
  /\ request[j] = "reading" /\ home[j] = w
  /\ Answer(j, "refused")
  /\ UNCHANGED <<home, status, registry, queueVars, reported, skipped,
                 restarts>>

FileRead(w, j) ==
  /\ request[j] = "reading" /\ home[j] = w
  /\ Submit(w, j)
  /\ UNCHANGED <<home, status, registry>>

\* /ingest/url, /database, /api: the source is read first.
SourceBegins(w, j) ==
  /\ Arrives(w, j)
  /\ Answer(j, "fetching")
  /\ UNCHANGED <<status, registry, queueVars, reported, skipped, restarts>>

\* The source cannot be read, or has nothing: there is no job yet.
SourceFails(w, j) ==
  /\ request[j] = "fetching" /\ home[j] = w
  /\ Answer(j, "refused")
  /\ UNCHANGED <<home, status, registry, queueVars, reported, skipped,
                 restarts>>

SourceRead(w, j) ==
  /\ request[j] = "fetching" /\ home[j] = w
  /\ Create(w, j, "queued")
  /\ Submit(w, j)
  /\ UNCHANGED home

\* /ingest/sync runs the job in the request, beside the executor.
SyncBegins(w, j) ==
  /\ Arrives(w, j)
  /\ Create(w, j, "processing")
  /\ Answer(j, "running")
  /\ UNCHANGED <<queueVars, reported, skipped, restarts>>

\* Mutant: the result is left to be delivered.
SyncEndsUndelivered(w, j) ==
  /\ request[j] = "running" /\ home[j] = w
  /\ \E s \in {"completed", "failed"} : status' = [status EXCEPT ![j] = s]
  /\ Answer(j, "answered")
  /\ UNCHANGED <<home, registry, queueVars, reported, skipped, restarts>>

SyncEnds(w, j) ==
  /\ request[j] = "running" /\ home[j] = w
  /\ \E s \in {"completed", "failed"} : status' = [status EXCEPT ![j] = s]
  /\ skipped' = skipped \cup {j}
  /\ Answer(j, "answered")
  /\ UNCHANGED <<home, registry, queueVars, reported, restarts>>

-----------------------------------------------------------------------------
(* The executor of a process                                               *)

\* A task is created for the head of the backlog.
Dispatch(w) ==
  /\ backlog[w] # <<>>
  /\ Cardinality(active[w]) < Pool
  /\ active' = [active EXCEPT ![w] = @ \cup {Head(backlog[w])}]
  /\ backlog' = [backlog EXCEPT ![w] = Tail(@)]
  /\ UNCHANGED <<home, request, status, registry, cancelled, stranded,
                 reported, skipped, restarts>>

\* Mutant: a cancelled job is passed over in silence.
BeginsOrDrops(w, j) ==
  /\ j \in active[w]
  /\ status[j] = "queued"
  /\ IF j \in cancelled[w]
     THEN /\ active' = [active EXCEPT ![w] = @ \ {j}]
          /\ cancelled' = [cancelled EXCEPT ![w] = @ \ {j}]
          /\ UNCHANGED status
     ELSE /\ status' = [status EXCEPT ![j] = "processing"]
          /\ UNCHANGED <<active, cancelled>>
  /\ UNCHANGED <<home, request, registry, backlog, stranded, reported, skipped,
                 restarts>>

\* The task begins: a job that has been cancelled is reported, not run.
Begins(w, j) ==
  /\ j \in active[w]
  /\ status[j] = "queued"
  /\ IF j \in cancelled[w]
     THEN /\ status' = [status EXCEPT ![j] = "cancelled"]
          /\ reported' = reported \cup {j}
          /\ active' = [active EXCEPT ![w] = @ \ {j}]
          /\ cancelled' = [cancelled EXCEPT ![w] = @ \ {j}]
     ELSE /\ status' = [status EXCEPT ![j] = "processing"]
          /\ UNCHANGED <<reported, active, cancelled>>
  /\ UNCHANGED <<home, request, registry, backlog, stranded, skipped, restarts>>

\* Mutant: a job that is done keeps its place in the pool.
EndsInPlace(w, j) ==
  /\ j \in active[w]
  /\ status[j] = "processing"
  /\ \E s \in IF j \in cancelled[w] THEN {"cancelled"}
              ELSE {"completed", "failed"} :
       status' = [status EXCEPT ![j] = s]
  /\ cancelled' = [cancelled EXCEPT ![w] = @ \ {j}]
  /\ reported' = reported \cup {j}
  /\ UNCHANGED <<home, request, registry, backlog, active, stranded, skipped,
                 restarts>>

\* A job ends: it is reported, whatever its outcome.
Ends(w, j) ==
  /\ j \in active[w]
  /\ status[j] = "processing"
  /\ \E s \in IF j \in cancelled[w] THEN {"cancelled"}
              ELSE {"completed", "failed"} :
       status' = [status EXCEPT ![j] = s]
  /\ active' = [active EXCEPT ![w] = @ \ {j}]
  /\ cancelled' = [cancelled EXCEPT ![w] = @ \ {j}]
  /\ reported' = reported \cup {j}
  /\ UNCHANGED <<home, request, registry, backlog, stranded, skipped, restarts>>

\* POST /kb/{kb_id}/cancel, in the process it reaches.  A job whose task has not
\* begun is lost to the executor: see CancelledReports in IngestQueue.tla.
CancelKb(w, k) ==
  LET found == {j \in Range(backlog[w]) \cup active[w] : KbOf[j] = k}
      fresh == {j \in found \cap active[w] : status[j] = "queued"}
  IN  /\ cancelled' = [cancelled EXCEPT ![w] = @ \cup found]
      /\ active' = [active EXCEPT ![w] = @ \ fresh]
      /\ stranded' = stranded \cup fresh
      /\ UNCHANGED <<home, request, status, registry, backlog, reported,
                     skipped, restarts>>

\* A process dies and is started again: registry and executor are in memory.
Restart(w) ==
  /\ restarts < MaxRestarts
  /\ restarts' = restarts + 1
  /\ registry' = [registry EXCEPT ![w] = {}]
  /\ backlog' = [backlog EXCEPT ![w] = <<>>]
  /\ active' = [active EXCEPT ![w] = {}]
  /\ cancelled' = [cancelled EXCEPT ![w] = {}]
  /\ request' = [j \in Jobs |-> IF home[j] = w /\ request[j] \in Open
                                THEN "dropped" ELSE request[j]]
  /\ UNCHANGED <<home, status, stranded, reported, skipped>>

-----------------------------------------------------------------------------

RequestSteps(w, j) ==
  \/ FileTooLarge(w, j)
  \/ FileRead(w, j)
  \/ SourceFails(w, j)
  \/ SourceRead(w, j)
  \/ SyncEnds(w, j)

Next ==
  \E w \in Workers :
    \/ \E j \in Jobs :
         \/ RefusedEarly(w, j)
         \/ Ingest(w, j)
         \/ IngestBadType(w, j)
         \/ FileBegins(w, j)
         \/ SourceBegins(w, j)
         \/ SyncBegins(w, j)
         \/ RequestSteps(w, j)
         \/ Begins(w, j)
         \/ Ends(w, j)
    \/ Dispatch(w)
    \/ \E k \in Kbs : CancelKb(w, k)
    \/ Restart(w)

Spec == Init /\ [][Next]_vars

\* Requests are served, executors keep their promise.
FairSpec ==
  /\ Spec
  /\ \A w \in Workers :
       /\ WF_vars(Dispatch(w))
       /\ \A j \in Jobs :
            /\ WF_vars(RequestSteps(w, j))
            /\ WF_vars(Begins(w, j))
            /\ WF_vars(Ends(w, j))

-----------------------------------------------------------------------------
(* Properties                                                              *)

\* A job a process shows as queued is in its executor, or its request is still
\* being read, or its request was refused: the endpoints create the job first,
\* and a refusal leaves it behind.  But for the stranded ones (IngestQueue.tla)
\* no other job looks queued for ever.
QueuedIsWaitingOrRefused ==
  \A w \in Workers : \A j \in registry[w] :
    status[j] = "queued" =>
      \/ j \in Range(backlog[w]) \cup active[w] \cup stranded
      \/ request[j] \in {"reading", "refused"}

\* A client that was refused may send its request again: the refused one never
\* runs and reports nothing to core-api.
RefusedNeverRuns ==
  \A j \in Jobs :
    request[j] = "refused" =>
      /\ status[j] \in {"none", "queued"}
      /\ j \notin reported
      /\ \A w \in Workers : j \notin Range(backlog[w]) \cup active[w]

\* The outcome of a job goes one way: over the completion queue, or in the
\* answer of /ingest/sync, which then says that no delivery follows.
OutcomeGoesOneWay ==
  \A j \in Jobs :
    /\ ~(j \in reported /\ j \in skipped)
    /\ status[j] \in Terminal =>
         (j \in reported) # (request[j] = "answered" /\ j \in skipped)

\* Every request is answered, and every job a client was promised ends, unless
\* it was stranded or its process restarted.
EveryRequestSettles ==
  \A j \in Jobs :
    /\ request[j] \in Open ~> request[j] \in Settled
    /\ request[j] = "accepted" ~>
         status[j] \in Terminal \/ j \in stranded \/ restarts > 0
=============================================================================
