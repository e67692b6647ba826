# Verification of the ingestion worker

The ingestion worker takes documents from many sources over HTTP, turns them
into embedded chunks in a vector store, and reports each job's outcome to
core-api. This directory holds TLA+ models of the parts of it that decide
whether that works when things overlap and fail, the TLC runs that check them
and the proofs that hold for every size. `PROJECT.json` lists, for every
definition, the lines of the source it stands for; here is what the models
say and why.

## 1. The system

One container runs four uvicorn processes behind one port
(`Dockerfile:120-129`); each has its own event loop, job registry and executor,
and nothing is shared between them but the vector store and core-api.

| Part | Source | State | Operations |
|---|---|---|---|
| Ingest endpoints | `main.py` | none of their own | `/ingest`, `/ingest/file`, `/ingest/r2`, `/ingest/url`, `/ingest/database`, `/ingest/api`, `/ingest/sync`, cancel, documents, chunks, knowledge bases |
| Job registry | `src/jobs/manager.py` | `_jobs` | create, look up, update status |
| Executor | `src/jobs/queue.py` | `_queue`, `_inflight`, `_target`, `_slot_freed`, `_active_jobs`, `_cancelled`, `_completion` | start, submit, dispatch, run, cancel (job, knowledge base), control tick, stop |
| Result delivery | `src/jobs/queue.py`, `src/jobs/webhook.py`, `src/retry` | `_undelivered`, three counters, `job.delivery_status` | notifiers, `deliver_result`, redelivery sweep |
| Pipeline, indexer | `src/pipeline.py`, `src/indexer`, `src/extractor/delivery.py` | the job's counters, the list of extracted rows | ingest a batch, ingest a document, index in batches, deliver rows |
| Vector store | `src/vectorstore` | one collection per knowledge base | upsert, delete by filter, edit a chunk, read |
| Streaming | `src/streaming.py` | decoder, unfinished line, chunk buffer, batch, totals | feed, finalize, flush |
| Extractor | `src/extractor` | `document.metadata["_extracted"]`, the list of rows | judge, clip, render, ask the model, map; `/extract` |
| Chunker, cleaner | `src/chunker`, `src/cleaner` | the loop's variables | four strategies |
| Sources | `src/sources` | `_robots_cache`, `_robots_lock`, the crawl's queue | single page, crawl, database, API |
| Parser, fetcher, embedder | `src/parser` … | none | functions and calls on services |

How they interact: an endpoint registers a job and submits a coroutine to the
executor of its process. The dispatcher turns it into an asyncio task when a
slot is free. The task runs the pipeline, which reads, chunks and embeds
document by document, writes batches to the store and POSTs progress. Whatever
way the task ends, the job goes on the completion queue; one of two notifiers
takes it and POSTs the result to core-api; what cannot be delivered is parked
for a sweep.

What is hard to get right here:

- **coroutines on one loop**: state is checked before an await and used after
  it (the target of the pool, `_undelivered`, the robots cache);
- **cancellation**, which may hit a coroutine before its first step, in any
  await, or during shutdown;
- **four processes on one store**: jobs and requests interleave between any two
  store calls;
- **partial failure**: batches, documents and deliveries fail on their own and
  the rest goes on;
- **retries** at two levels with bounds that must not reset each other;
- **cutting**: a stream, a character, a line, a page, a section may be cut
  anywhere;
- **order within a document**: what is read for its fields before the guardrails
  redact it is chunked after, on three routes that differ.

`PROJECT.json` lists each such place at its line under "hazards", with the
properties that would catch it going wrong.

## 2. Modules

| Module | What it models |
|---|---|
| `IngestQueue` | the executor |
| `IngestPromise` | what the executor promises, abstractly |
| `IngestQueueRefines` | the mapping that shows `IngestQueue` implements `IngestPromise` |
| `IngestQueueProofs` | theorems about the executor, and that it implements its promise |
| `ResultDelivery` | notifiers, bounded retries, redelivery sweep |
| `IngestWorker` | executor and delivery composed on one event loop |
| `IngestWorkerRefines` | the executor's promise of progress, and the end of `stop()`, inside `IngestWorker` |
| `FrontDoor` | endpoints and registries of several processes |
| `KnowledgeBase` | pipeline jobs, requests and the rows of one collection |
| `StreamIngest` | the streaming path of one large object |
| `Chunking` | the chunker's four strategies |
| `Extraction` | how one document is read against a category, on its three routes |
| `Document` | `Extraction` and `Chunking` composed: one document from arrival to the store |
| `Crawl` | page fetches, crawl and robots.txt |
| `MC…` | instances of the above for TLC |
| `ResultDeliveryProofs`, `IngestWorkerProofs`, `FrontDoorProofs`, `KnowledgeBaseProofs`, `StreamIngestProofs`, `DocumentProofs`, `CrawlProofs` | theorems about the module each is named after (section 6) |

**Event loop.** In `IngestQueue`, `ResultDelivery` and `IngestWorker` an action
is what a coroutine does from one suspension to the next. Two coroutines can do
several things in one run: the dispatcher, which admits jobs until it must wait,
and the sweep, which drops old results. Such a run is a sequence of steps, and
`LoopIsFree` keeps everything else out until the coroutine suspends.

**`IngestQueue`.** `waiting`, `target`, `slotFreed`, `active`, `cancelled` and
`completion` are the attributes of the class. `task` says how far the asyncio
task of a job is: `created`, `running`, cancelled before its first step
(`doomed`) or after it (`cancelling`), `ended` with its done-callback still to
run.
`dispatcher` says where the dispatcher stands: about to start, waiting for
`_slot_freed` (`slot`), waiting in `get()`, admitting, or over (`off`). `Cancel` and
`CancelByKb` cancel tasks as `task.cancel()` does, which only takes effect when
the task is next run; hence `TaskNeverRuns`, a task that is cancelled before its
first step and never enters `_run_one`. `SwallowsCancel` stands for the
behaviour of `asyncio.wait_for` before Python 3.12, which the image runs: a
cancellation that arrives after the event was set is lost.

**`ResultDelivery`.** A deliverer (a notifier or the sweep) holds at most one
result and is either posting or sleeping between attempts. A POST may be
accepted, refused for good, lost, or received although the caller sees an error
(`seen` records what core-api has). The sweep works on the snapshot it took
(`sweep`, `sweepAge`).

**`IngestWorker`** instantiates both, sharing `completion` and `taken`. A step is
a step of one of them, except that a notifier takes from the completion queue
and begins a delivery in one step, and `stop()` ends the coroutines of both.

**`FrontDoor`.** Every endpoint is a pair or triple of actions, cut where the
handler suspends: `/ingest/file` reads uploads with its job already registered,
the source endpoints read before there is a job, `/ingest/sync` runs the job
inside the request. A request reaches any process. The executor appears as
`IngestPromise` describes it.

**`KnowledgeBase`.** `rows` maps a chunk id to the text and the vector stored
under it. A job is at one of its suspension points or store calls; a batch
upsert is one action, and it or its failure is followed by the next batch.
`counted` remembers the positions a job has counted as processed. A
document with a `source_url` may not be fetched (`FetchFails`), which the pipeline
does not notice: it goes on as an empty one (`missing`). Edits,
deletions of chunks, documents and the collection come at any time from other
processes. `holes` remembers the chunks that failed batches or requests removed.

**`StreamIngest`.** Text is a sequence of letters, blanks, newlines and a keyword
that guardrails exclude. `ReadUnit` takes any number of characters up to `MaxUnit`:
the windows, pages and rows of the readers are all special cases. Some letters
are two bytes wide, and a window may end between them (`half`): the incremental
decoder keeps the first for the next window. The filter, the
cleaner and the rolling chunker are operators; the emission of chunks, flushing
and the failures are actions.

**`Chunking`.** Units (sentences or paragraphs) are lengths. One action is one
turn of the loop in the code. `Joined` is the length of units put together with
their separators; `Taken` are the units a strategy takes, `Wanted` those of a
section, and `Gathered` those its chunks hold, which the properties compare.

**`Extraction`.** Text is a sequence of words, some of them facts; lengths count
characters. A document is a list of pages, each with a text layer, what can be
seen on its picture, and whether it can be rendered. `stage` says how far it is:
parsing (or streaming page by page), judged, with the model, read, with the
chunker, or ended. The model is an adversary: it may fail, answer nothing, say
it cannot see, or report any of the facts it was shown, in any order and under
its own spelling of the keys. `Split` is the loop that maps the findings into the
row and `Put` one turn of it. A document without a row has `NoRow` in its place.
`/ingest/file` buffers PDFs too, but has no spec to read them by (`ReadingInit`).

**`Document`** puts the two together as `ingest_document` does: a buffered document
that has been read is redacted and handed to the chunker, and every chunk is
stored with the document's metadata, the row in it. Documents nobody asked to
read start at the chunker, in the shapes `Chunking` is checked on.

**`Crawl`.** A request is deciding about a page, waiting for the robots lock,
loading robots.txt, fetching, or picking the next page. The site, with its links
and redirects, and each answer for robots.txt are chosen by TLC. The HTTP client
follows redirects by itself, so a request for one URL may land on another
(`landed` remembers where): that one is in neither `seen` nor checked. The loop
over a page's links stops at a malformed one, when the page has been collected
(`Readable`). `Worthwhile` is that loop; `Within` says, in the property only,
which of the collected pages are within how many links.

Loops that the code runs inside one action are recursive functions on `0..n`,
whose values are those of the loop's variable after each turn: TLC evaluates
them, and the proofs can follow them (section 6).

Every definition named `…Unchecked`, `…Silent` and the like, marked *Mutant*, is
a plausible mistake in the definition it stands before; no specification uses
it. It is there to show that the property it is paired with in `PROJECT.json`
notices the mistake.

## 3. What the runs check

### `queue` — `IngestQueue.cfg`
Three jobs of two knowledge bases, a backlog of two, a pool of one to two, the
settings chosen out of range so that the constructor's clamping matters, and the
old `wait_for`. Every interleaving of requests, dispatcher, tasks, controller
and `stop()`.
- `TypeOK`: in particular the target stays between its limits.
- `InflightBounded`: the dispatcher checks the target, waits in `get()`, and
  admits against that stale check; the pool's hard limit holds all the same. The
  *target* may be exceeded in this way, by one job.
- `NoLostWakeup`: `clear()`, the check and `wait()` never leave the dispatcher
  asleep beside a free slot.
- `ReportedIsSettled`: a job is handed over once, with a final status, when no
  trace of it is left in `_active_jobs` and `_cancelled`.
- `CancelWins`: a job whose cancellation was accepted ends `cancelled`, wherever
  it was.
- `KeepsPromise`: the executor implements `IngestPromise`: bounded backlog,
  bounded pool, one outcome per job or a stranded job.

- `PoolRelaxes`: with a fair event loop a finite number of jobs cannot leave the
  pool enlarged: it returns to its floor.

Three jobs are one more than the pool, two more than its floor, and fill the
backlog while a third runs; a fourth adds no new relation between any two.

### `delivery` — `ResultDelivery.cfg`
Three results: one deliverable, one core-api refuses, one nobody asked for; two
notifiers, the sweep, two attempts per call, an age limit of one tick.
- `OneDelivererPerResult`: no result is in two hands, nor parked by one while
  another delivers it.
- `ResultsAreConserved`: taken = delivered + parked + given up + in hand, by the
  very counters `/queue/stats` reports.
- `StatusIsTrue`: `delivery_status` says what happened.
- `GivesUpOnlyWhenOld`: the sweep drops nothing before its age.
- `EveryResultSettles`: whatever core-api does, each result is delivered or given
  up; a result that fails again keeps the time of its first failure, or it would
  be retried for ever.

### `worker` — `IngestWorker.cfg`
Two jobs, one with a callback, through executor and delivery, from start to
stop, with fairness and a `wait_for` that raises; deadlock is checked.
- `OnlyEndedJobsAreDelivered`.
- `NothingIsForgotten`: every accepted job is somewhere: in the executor, in a
  notifier's hand, delivered, parked, given up, or stranded; once `stop()` has
  begun there are two more kinds of lost jobs and no others, the results the
  notifiers held and the jobs whose task had not begun.
- `EveryJobSettles`: end to end.
- `KeepsFairPromise` (`IngestWorkerRefines`): among deliveries and sweep on the
  same loop the executor still makes the progress it promises: the backlog moves
  on while the worker is open, and whatever executes is reported.
- `StopTerminates`: `stop()` returns, whatever it finds.

### `frontdoor` — `FrontDoor.cfg`
Three requests, each to any endpoint of two processes with a backlog and a pool
of one, cancellations, one restart.
- `QueuedIsWaitingOrRefused`: the endpoints register before they know whether the
  job can run; the jobs that look queued and are not are those of refused
  requests, and no others.
- `RefusedNeverRuns`: a client that was refused may repeat its request.
- `OutcomeGoesOneWay`: over the completion queue or in the answer of
  `/ingest/sync`, never both, never neither.
- `EveryRequestSettles`.

### `kb` — `KnowledgeBase.cfg`
Two jobs ingest overlapping documents in different versions while a chunk is
edited and chunks, documents and the collection are deleted; fetches, batches,
embedder and row deliveries fail; jobs are cancelled and processes killed.
- `VectorMatchesText`: what is searched is what was embedded.
- `ProcessedIsStored`: every document a job has counted as processed, whether or
  not others of the job failed, is stored but for the chunks of failed batches,
  those requests removed, and documents that were never fetched. It says nothing
  of `chunks_created`, which counts more than is stored (see below).
- `OnlyIngestionAddsRows`: an edit that was being embedded while its chunk was
  deleted brings nothing back.
- `DeliveredOrLost`: a slice of rows that is given up does not take the others
  with it.

### `stream` — `StreamIngest.cfg`
Eight texts, with and without guardrails, cut in every way into units of up to
five characters, in the middle of a wide character too; chunks of three, overlap
one, or three, which the constructor makes two; batches of two, lines of up to
four characters.
- `MemoryIsBounded`: line, buffer, batch and pending chunks do not grow with the
  object.
- `LinesAreJudgedWhole`: however lines and characters are cut, the guardrails see
  each line whole, unless it outgrew the filter, and nothing of it is lost.
- `RowsAreTheStream`: chunk *i* is what stands at *i*·step of the cleaned stream.
- `StoredIsPrefix`: whenever the run stops, the rows are a prefix, less the failed
  batches; when it is done, of the whole stream but for less than a minimal chunk.

The texts put a line boundary, a keyword and a line that is too long at every
place relative to a unit, a chunk and a batch.

### `document` — `Document.cfg`
PDFs (printed, scanned, mixed, stamped, damaged, without a page, with more text
or pages than model, stream or renderer take), and those of them with text as
slides and as plain text, on every route they can take, asked for or not,
with and without guardrails. The category has two fields of one normal form; the
facts include two for one field, one nobody asked for and two whose different
keys have no latin letter, and two are personal. And every chunking strategy on every
document of up to four units of lengths 0, 1, 2, 4, 7 in one section, pairs of
sections of up to two units, and texts of up to twenty characters; chunks of at
most six. The lengths are an empty unit, ones that fit together in several ways,
and one too large for a chunk.
- `RowTellsTheTruth`: a row that notes no truncation and no failure comes from a
  model that was shown, unredacted, all of the text layers if the document was
  shown as text, and else every page that renders; one that says "scanned" is of
  a document without a page to show. It relates the judgement, four limits and the
  order of the pipeline's steps. It does not promise more than the code does: a
  scanned page among pages of text and a page that cannot be rendered go unread
  without a note, and a stream of a scan with a stamp says "scanned" although there
  are pages to show (observations below).
- `FindingsAreKept`: every finding is in the row, in its field or among the
  unmapped, or a later one whose key has the same normal form has replaced it;
  two different keys without a latin letter that nobody asked for replace each
  other never.
- `OneRowPerDocument`: for who asked, one row on the buffered route whatever the
  model or the embedder does, and for a streamed PDF whatever the model does;
  never two, none for who did not ask. No row: a document that cannot be fetched
  or parsed or whose job is cancelled, a streamed PDF whose embedding or storing
  failed, every other stream.
- `ChunksAreRedacted`: no chunk's text has what the guardrails took out (its
  metadata may: `document_unredacted`).
- `PackingIsTight`: a chunk is too large only when it is a single unit that is, and
  a section is not cut where the next unit would have fitted. The unit of the
  recursive strategy is the paragraph, however long.
- `TextIsCovered`: every unit once and in order; for the fixed strategy, windows
  that overlap by `chunk_overlap` and leave no gap; but for a short piece at the
  end of a section.
- `DocumentEnds`: without the help of a failure or a cancellation. The chunker's
  loops share one thread with everything else; the fixed strategy rests on
  `ChunkOverlap < ChunkSize`, which the model assumes and no setting enforces.

### `crawl` — `Crawl.cfg`
A crawl and a single fetch on one of two sites, each of five pages and one on
another host. The first site has the same page over ways of different length; the
second has redirects, to a page of its own and to the other host, and a malformed
link. At each load robots.txt is one of three files or not to be had; rules grow
too old twice; depth two, four pages at most.
- `ConsentIsCurrent`: a URL is cleared for its request only by rules within their
  TTL that permit it, to the worker or to anyone (`Permits`, as
  `politeness.py:113`). It is about the decision: the request may come later, after
  a `Crawl-delay`, and may be led on by a redirect nobody decides about.
- `NothingIsAskedTwice`: no URL is requested twice for one ingestion, however
  pages link; and robots.txt once per lifetime of its rules, however many requests
  wait for it. A page that redirects lead to may still answer more than once.
- `CrawlIsComplete`: a crawl that did not stop at `max_pages` visited every page
  within `max_depth` readable links and none beyond. It rests on the order of the
  queue: a page first met on a long way would be cut off with what is behind it.
- `RequestsEnd`.

### Runs that show a disagreement
- `queue_stranded`: a job cancelled between the creation of its task and the
  task's first step is never reported, although `main.py:1232-1233` says it
  always is. `_run_one` is not entered, so its `finally` never runs; the job
  stays queued, in `_active_jobs` and `_cancelled`, for ever.
- `queue_stop_hangs`: with Python 3.11 the dispatcher can swallow the
  cancellation of `stop()` and go on to wait in `get()`; `stop()` awaits it for
  ever.
- `stream_glued`: `feed()` cleans, and thereby strips, each unit by itself, so the
  words on the two sides of a unit boundary are glued together, although
  `streaming.py:18-20` promises the rows of the normal pipeline.
- `document_unredacted`: the row, read before the guardrails, is put on the
  document's metadata (`pipeline.py:229`), which the chunker copies onto every
  chunk: values the guardrails redacted are stored with each vector, although
  `pipeline.py:130-131` says they redact "before chunking, permanently, for
  everything downstream of it".

### Observations without a run of their own
- A result core-api refuses with a 4xx is parked like any other and sent again
  at every sweep until its age limit; `README.md:126` says a 4xx is not retried.
- `stop()` cancels the notifiers first. Results on the completion queue or in
  their hands are dropped; the shutdown log (`queue.py:153`) names only the
  parked ones, `README.md:136-137` reads as if it named all.
- `cancel_kb_ingestion` and job look-ups see only the process they reach.
- `ingest_document` returns `len(chunks)` though batches may have failed, so
  `chunks_created` can count rows that do not exist, although `pipeline.py:96` says
  it "Returns number of chunks created". What is proved of it is what it counts:
  `CreatedIsWhatWasMade`.
- The error of a fetch and the status of its answer are not looked at
  (`pipeline.py:103-106`, `fetcher/__init__.py:172-180`): a document that cannot be
  reached counts as processed with no chunks, or an error page is ingested as it.
- A job running while its knowledge base is deleted makes the collection again
  with its next batch, without the indexes `create_collection` gives it.
- A streamed PDF keeps its bytes for the pictures only if *no* page had text
  (`streaming.py:305`): a scan with a stamp is judged unreadable and cannot be
  shown, although `extractor/__init__.py:111-120` renders such documents. A page
  that cannot be rendered is left out without a note (`pages.py:78-81`). A document
  with text enough on some pages is shown as text, and its scanned pages go
  unread without a note.
- Findings under keys of one normal form overwrite each other, asked for or not,
  and of two fields with one normal form the first stays empty, although
  `mapping.py:8` says NOTHING IS DISCARDED.
- The text and office streams carry the extract spec and never read it, which
  `main.py:771-775` warns of; a streamed PDF whose embedding fails is never read,
  where the buffered route keeps its row because, as `pipeline.py:304-307` says,
  losing it "would throw away the more expensive half of the work".
- The recursive strategy never splits a paragraph: the docstring
  (`chunker/__init__.py:187`) says it "splits by headers, then paragraphs, then
  sentences". A paragraph larger than `chunk_size` is one chunk. Nor does it read
  `chunk_overlap`, though the class promises "Recursive chunking with overlap"
  (`:18`).
- A crawl appends a page before it parses its links, in one `try`
  (`sources/__init__.py:165-173`): a malformed link keeps the page and loses the
  links behind it.
- The clients of `fetch_url` follow redirects (`sources/__init__.py:132`, `:144`).
  Where they lead is neither looked up in `seen` nor in robots.txt.
- `politeness.py:113` lets a page be fetched if the rules permit it to the worker
  *or* to `*`. A page denied to ShielvaBot alone is fetched, although the module
  means to "fetch only what the publisher permits" (`politeness.py:8-10`) and the
  function to raise "when robots.txt forbids this URL" (`:105`). `Permits` is the
  code's rule, and `ConsentIsCurrent` holds for it.
- A re-ingested document id with fewer chunks keeps its old tail rows.
- `_ingest_source_docs` attaches no guardrails, while `pipeline.py:29-31` says
  they run on every ingest, url, db and api included.
- `clone_kb` (`main.py:1120`) calls `clone_collection`, which the store does not
  define.
- The fixed strategy does not end when `chunk_overlap >= chunk_size`, and keeps
  nothing when `min_chunk_size > chunk_size`; no setting forbids either
  (`chunker/__init__.py:45-72`). `ConstantsOK` of `Chunking` leaves both out. The
  streaming chunker guards against the first.
- `CircuitBreaker` can stay in `HALF_OPEN`, refusing every call, when its trial
  calls are cancelled. Nothing uses it.

## 4. Bounds

Every bound is a constant with "bound" in its comment: `MaxRestarts`,
`MaxExpiries`, `MaxUnit`, and in `MCDocument` `MaxUnits` and `MaxText`; the ages of `ResultDelivery` saturate one above
`MaxAge`. The others (`MaxPages`, `ChunkSize`, `EmbedBatch`, …) are the program's
own limits, made small enough to be reached. Jobs are submitted once each, so a
finite set of jobs is a finite number of submissions; a job id is a fresh UUID in
the code.

## 5. Fairness

- The event loop runs what is ready. `IngestQueue` assumes it for the dispatcher
  once it is woken, tasks (every call a job makes has a timeout), the notifiers,
  and the controller's timer. Strong fairness is used where a step may be held up
  by the run of another coroutine, and not refused by it: asyncio's ready queue is
  first in, first out.
- Nothing is assumed of requests, of the load, or of the dispatcher's 0.5 s
  timeout: `NoLostWakeup` and `KeepsFairPromise` hold without it. `IngestWorker`
  takes over these assumptions and those of `ResultDelivery`.
- `ResultDelivery` assumes that a POST ends and a back-off ends, and that the
  sweep and time go on; nothing about what core-api answers.
- `FrontDoor`: a request's reads end, the executor is fair. `Crawl`: a fetch has a
  timeout and `asyncio.Lock` is first come, first served.
- `Document` assumes that the model call ends, which has a timeout, and that loops
  and library calls go on; not that anything fails or is cancelled.
- `KnowledgeBase` and `StreamIngest` state safety only.

## 6. Proofs

Every invariant and every action property of the passing runs is proved, for
all values of the constants: any sets of jobs, requests, documents, pages and
processes, any limits and sizes, any contents. So is the refinement. TLC agrees
with each module's inductive invariants on the instance of its run.

In each module an invariant is inductive: it holds initially, a lemma `…Step`
shows that every step keeps it (one step of the proof per action, and a lemma
of its own where an action disturbs much), and the theorem draws the property
from it. The invariants are needed because the properties are not inductive as
they stand; what they add is said here.

**`IngestQueueProofs`** (assuming a finite set of jobs, each with a knowledge
base, and integer settings: `QueueAssumption`). `Limits` derives what the
constructor makes of any integers.
- `TypeCorrect`: the target and the backlog stay within the limits.
- `PoolNeverOverflows`: `DispatcherGetsItem` admits without looking at the pool.
  What must be remembered (`BoundInv`) is that the dispatcher saw room before it
  began to wait in `get()`, and that nobody else adds to the pool meanwhile.
- `WakeupNeverLost`: `NoLostWakeup` is inductive together with `TypeOK`.
- `HandedOverSettled`: `PlaceInv` says what each place of a job (unknown, in the
  queue, with a task in one of its states, handed over) implies of its status, of
  `_active_jobs` and of `_cancelled` (`PlaceOf`), and what a mark in `_cancelled` can
  mean (`MarkOf`). `CancellationWins` is an action property of these states.
- `ExecutorKeepsPromise`: the initial states of `IngestQueue` are states of
  `IngestPromise`, and each step is a step of it or a stutter, one lemma `Refine…`
  per step of the promise. `Executing` and `OutcomeMap` are the refinement mapping;
  `RefineInv`, the three invariants above together, is what makes it work.

**`ResultDeliveryProofs`** (finite sets of jobs and notifiers, an integer limit of
attempts, a number as age limit).
- `DeliveryTyped`, `NeverDeliveredTwiceAtOnce`: `CallInv` keeps the completion queue,
  what was taken and what each deliverer holds apart.
- `StatusNeverLies`: `StatusInv` says what `delivery_status` can be in each place, and
  `HeldInv` that a pending result which was taken is in some notifier's hand.
- `RedeliveredUntilOld`: the ages a sweep goes by are not younger than now (`AgeInv`).
- `BooksBalance`: `Balanced` is `ResultsAreConserved` with names for the four sets
  that are counted; each step moves one element between two of them, so that the
  library's facts on cardinality suffice.

**`IngestWorkerProofs`** proves nothing about the parts again. It instantiates the two
proof modules above; `PartsAssumed` derives their assumptions from
`WorkerAssumption`, and the lemmas `Same…` say that their actions are those of the
instances the worker is made of.
- `OnlyEndedJobsDelivered`, `NothingForgotten`: `WorkerInv` joins the parts' invariants
  with `LinkInv`: core-api has seen only results that were taken, and one taken
  and still pending is with a notifier, or was when `stop()` began.
- `WorkerTyped`.
- `WorkerIsAnExecutor`: each behaviour of the worker satisfies `Queue!Spec`. Hence
  `ExecutorKeepsItsWord` and `WorkerKeepsPromise`: all that is proved of the executor
  alone, the refinement included, holds in the composition.
- `DeliveryKeepsItsWord`: the delivery takes its own steps and one more, `stop()`
  ending its coroutines from outside.

**`FrontDoorProofs`** (positive backlog and pool, any number of processes).
- `FrontDoorTyped`: with `SizeInv`, which bounds each process's backlog and pool.
- `QueuedIsOnItsWay`, `RefusedStaysOut`, `OneWayForOutcomes`: `RouteInv` relates where
  a request is to its job's status and outcome (`RequestOf`), and to the executor and
  registry of each process (`PlaceOf`).

**`KnowledgeBaseProofs`** (any documents and versions with a bounded number of
chunks, positive batch, slice and number of attempts). `JobWay` sums up the jobs'
actions by what they do to the counters and the position.
- `JobsAreSound`, `EveryDocumentCounts`: types, and that a job which has walked
  through its documents counted each once as processed or failed. `AccountInv`
  says how far the count is at each place, `OtherInv` has the rest of `TypeOK`.
- `WhatIsSearchedWasEmbedded`, `EditsBringNothingBack`, `NoSliceTakesAnother`.
- `ProcessedIsAccountedFor`: `StoredInv` follows a job through its documents and the
  batches of the one at hand (`Covered`: stored, or missing for a known reason), for
  every document it has counted, in jobs with failed documents too.
- `CreatedIsWhatWasMade`: `chunks_created` is the number of chunks *made* of these
  documents (`Made`), by `CreatedInv`; no run checks it.

**`StreamIngestProofs`** (texts, guardrails, sizes and overlaps of any kind).
- `MemoryStaysBounded`: `HeldInv`, the bound itself with the types.
- `RowsArePieces`, `StoredInOrder`: `CountInv` numbers what is stored, lost, batched
  and yielded without a gap; `CutInv` says that each is its `Piece` of the cleaned
  stream, and the buffer what follows the place where the next one starts.
- `WholeLines`: `LineInv`: before the object is read, the filter has let through
  `Guard` of the complete lines and holds the rest. It rests on `GuardConcat`:
  judging two texts apart or together is the same if the first ends with a line.
- `StreamTyped`.

**`DocumentProofs`** (`ReadingConstantsOK`, `FilesOK`, and `ConstantsOK` and `DocumentsOK` of
the chunker).
- `DocumentTyped`, `DocumentRow` (`RowInv`), `DocumentRedacted` (`GuardInv`: a text is
  redacted before the chunker has it; of the text only), `DocumentFindings`
  (`SplitFacts` on the loop over the findings). Each states the property of section
  3, with the exceptions named there.
- `DocumentTruth`: `ReadInv` says what is at hand when a document is judged. The
  stream must be allowed more characters than the model is shown
  (`StreamCap > MaxChars`, as `streaming.py` and `extractor/__init__.py` have it), or a
  stream cut at its cap would not be noted as cut.
- `DocumentPacks`: `TightInv`, that the first unit of what is gathered did not fit
  into the chunk before it. `DocumentCovers`: `CoverInv`, that a section's chunks and
  what is gathered are the units the loop has passed, and `SlideInv` for the window.

**`CrawlProofs`** (any site, any answers for robots.txt).
- `AskedOnce`: `LoadInv` ties each load of robots.txt to the lock and an expiry,
  `VisitInv` the URLs asked for to those seen. `ConsentHeld` follows from `LoadInv`.
  Both are of URLs as they are requested, wherever redirects lead.
- `CrawlReachesAll`: `ReachInv` says of the queue that it is in order of depth and
  spans two depths (`Level`), that a page is no further from the seed than its entry
  says (`Traced`), and that links of collected pages have been followed or are queued
  (`Ahead`); links are those before a malformed one (`ReadableFacts`). So no page collected later brings an earlier one nearer: `Near`, the
  pages within *n* links, is settled up to the depth at hand (`Full`, `NearGrows`).
- `CrawlTyped`: with `RoomInv`: a crawl requests only URLs of its own host, whatever
  they redirect to, and stops in time.

**Loops.** The prover cannot apply the library's induction theorems, nor recursive
function definitions. `NatMin`, that a set of numbers has a least element, does
instead: `Upwards` and `Alike` draw from it that what each turn of a loop keeps holds
after all of them, and `Iterated` that the values of a loop exist. With these, what
`Split`, `Joined`, `Taken`, `Gathered`, `Worthwhile` and `Within` compute is proved for
inputs of any length.

**Only model-checked.** Liveness under fairness is beyond the proof system:
`PoolRelaxes`, `StopTerminates`, `KeepsFairPromise`, `EveryResultSettles`,
`EveryJobSettles`, `EveryRequestSettles`, `DocumentEnds`, `RequestsEnd`. The four
disagreements of section 3 are counterexamples, which TLC finds.

`TypeOK` is a property of the run `queue` only. That of the other modules documents
the variables' domains, and is proved with them (`DeliveryTyped`, `WorkerTyped`,
`FrontDoorTyped`, `EveryDocumentCounts`, `StreamTyped`, `DocumentTyped`, `CrawlTyped`).

## 7. Not modelled

- What libraries and services do: the text the parsers get out of a format, the
  protocols of the fetcher, the embedder's providers, the extractor's prompts and
  the parsing of its JSON. Their failures and refusals are actions.
- Making a collection and its indexes, and the store's reads. Search, keyword
  search and deletion by id are called by nothing in `src/`.
- Settings, error formatting, authentication and rate limiting; building the
  components and fetching the guardrails at start.
- `CircuitBreaker`, the domain, application and infrastructure layers, the
  placeholder worker and the scripts, which no request reaches.

`PROJECT.json` gives the status of each component.

## 8. Plan

In order of importance, and what is done:

1. The executor, its promise, the first theorems — done.
2. Delivery and the composed worker — done.
3. The store under concurrent jobs and requests; streaming; endpoints; crawl —
   done for safety, and for liveness where named above.
4. The extractor on its three routes, composed with the chunker into a document —
   done, with termination.
5. Theorems: the safety invariants, the action properties, the refinement, the
   composition and the types of all modules — done.
6. Left: the liveness properties stay with TLC. What could be proved further:
   - that an `IngestPromise` is what `FrontDoor` assumes of an executor, so that the
     endpoints could be composed with `IngestQueue` itself;
   - the safety halves of the liveness properties, as decreasing measures: a turn
     of the chunker and a page of the crawl bring the end nearer.
