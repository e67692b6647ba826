--------------------------- MODULE KnowledgeBase ---------------------------
(***************************************************************************)
(* The rows of one knowledge base in the vector store, written by          *)
(* ingestion jobs and changed by requests.                                 *)
(*                                                                         *)
(* src/pipeline.py takes a job through its documents one after the other:  *)
(* parse, extract when asked, chunk, embed, index in batches, report       *)
(* progress; then it delivers the extracted rows to core-api in slices     *)
(* (src/extractor/delivery.py).  The worker runs several uvicorn processes *)
(* (Dockerfile), so a call on the store is one step and the calls of       *)
(* different jobs and requests interleave.  Inside a process the calls on  *)
(* the store do not suspend, nor does the default embedder, hence the      *)
(* points where a job can be cancelled; a process can be killed anywhere.  *)
(***************************************************************************)
EXTENDS Integers, FiniteSets, Sequences, SequencesExt

CONSTANTS
  Jobs,
  Docs,
  Versions,    (* what a document of a given id contains, over time           *)
  DocsOf,      (* job -> sequence of [doc, version], job.documents            *)
  Remote,      (* the documents that are a source_url without content         *)
  ChunksOf,    (* ChunksOf[d][v]: how many chunks the chunker makes of it     *)
  Extracting,  (* the jobs that carry an extract spec                         *)
  WithRowsUrl, (* those whose spec has a rows_callback_url                    *)
  Edits,       (* update requests                                             *)
  ChunkOf,     (* edit -> the chunk it changes                                *)
  MaxChunks,   (* bound: chunks of a document                                 *)
  BatchSize,   (* IndexerConfig.batch_size                                    *)
  RowBatch,    (* delivery.BATCH                                              *)
  Attempts,    (* max_retries + 1 of deliver_rows                             *)
  NoRow

ChunkIds == {<<d, i>> : d \in Docs, i \in 0..MaxChunks - 1}
Texts    == Versions \cup Edits

ASSUME ConstantsOK ==
  /\ DocsOf \in [Jobs -> Seq([doc : Docs, version : Versions])]
  /\ ChunksOf \in [Docs -> [Versions -> 0..MaxChunks]]
  /\ Remote \subseteq Docs
  /\ WithRowsUrl \subseteq Extracting
  /\ Extracting \subseteq Jobs
  /\ ChunkOf \in [Edits -> ChunkIds]
  /\ {BatchSize, RowBatch, Attempts} \subseteq Nat \ {0}
  /\ MaxChunks \in Nat
  /\ NoRow \notin [text : Texts, vec : Texts]

VARIABLES
  rows,       (* the collection: chunk id -> row                              *)
  at,         (* where each job is                                            *)
  pos,        (* the document it is at                                        *)
  next,       (* the first chunk of that document not yet indexed             *)
  missing,    (* [job, position] of the documents whose fetch failed          *)
  read,       (* that document's metadata carries "_extracted"                *)
  processed, failed, created,  (* the job's counters                          *)
  counted,    (* history: [job, position] of the documents in processed       *)
  extracted,  (* the list `extracted' of ingest_batch                         *)
  attempt,    (* attempts made for the slice being delivered                  *)
  lost,       (* extracted rows whose slice was given up, and logged          *)
  received,   (* extracted rows core-api has received                         *)
  edit,       (* where each update request is                                 *)
  holes       (* chunks removed by a request or in a batch that failed        *)

countVars   == <<processed, failed, created, counted>>
deliverVars == <<attempt, lost, received>>
jobVars     == <<at, pos, next, missing, read, countVars, extracted, deliverVars>>
vars        == <<rows, jobVars, edit, holes>>

Ended == {"done", "cut"}
Where == {"idle", "visit", "extract", "chunk", "index", "progress", "deliver"}
           \cup Ended

TypeOK ==
  /\ rows \in [ChunkIds -> [text : Texts, vec : Texts] \cup {NoRow}]
  /\ at \in [Jobs -> Where]
  /\ \A j \in Jobs :
       /\ pos[j] \in 1..Len(DocsOf[j]) + 1
       /\ next[j] \in 0..MaxChunks + BatchSize
       /\ extracted[j] \in Seq(Docs) /\ Len(extracted[j]) <= Len(DocsOf[j])
       /\ processed[j] + failed[j] <= Len(DocsOf[j])
       /\ attempt[j] \in 0..Attempts - 1
  /\ {processed, failed, created} \subseteq [Jobs -> Nat]
  /\ missing \subseteq Jobs \X Nat /\ counted \subseteq Jobs \X Nat
  /\ read \in [Jobs -> BOOLEAN]
  /\ lost \subseteq Jobs \X Docs
  /\ received \subseteq Jobs \X Docs
  /\ edit \in [Edits -> {"idle", "embedding", "done"}]
  /\ holes \subseteq ChunkIds

Init ==
  /\ rows = [c \in ChunkIds |-> NoRow]
  /\ at = [j \in Jobs |-> "idle"]
  /\ pos = [j \in Jobs |-> 1]
  /\ next = [j \in Jobs |-> 0]
  /\ missing = {}
  /\ read = [j \in Jobs |-> FALSE]
  /\ processed = [j \in Jobs |-> 0]
  /\ failed = [j \in Jobs |-> 0]
  /\ created = [j \in Jobs |-> 0]
  /\ counted = {}
  /\ extracted = [j \in Jobs |-> <<>>]
  /\ attempt = [j \in Jobs |-> 0]
  /\ lost = {}
  /\ received = {}
  /\ edit = [e \in Edits |-> "idle"]
  /\ holes = {}

-----------------------------------------------------------------------------
(* One document                                                            *)

Current(j) == DocsOf[j][pos[j]]
\* How many chunks the k-th document of the job makes.
Count(j, k) ==
  IF <<j, k>> \in missing THEN 0
  ELSE ChunksOf[DocsOf[j][k].doc][DocsOf[j][k].version]
Size(j) == Count(j, pos[j])

GoTo(j, w) == at' = [at EXCEPT ![j] = w]

\* The job goes on to w, and nothing else changes.
Moves(j, w) ==
  /\ GoTo(j, w)
  /\ UNCHANGED <<rows, pos, next, missing, read, countVars, extracted,
                 deliverVars, edit, holes>>

\* The row of a document that has been read joins the list, whether or not
\* the document was stored.
Collect(j) ==
  extracted' = IF read[j]
               THEN [extracted EXCEPT ![j] = Append(@, Current(j).doc)]
               ELSE extracted

\* ingest_document returns n.
Succeeds(j, n) ==
  /\ processed' = [processed EXCEPT ![j] = @ + 1]
  /\ created' = [created EXCEPT ![j] = @ + n]
  /\ counted' = counted \cup {<<j, pos[j]>>}
  /\ Collect(j)
  /\ GoTo(j, "progress")
  /\ UNCHANGED <<pos, missing, read, failed, deliverVars, edit>>

\* ingest_document raises.
Fails(j) ==
  /\ failed' = [failed EXCEPT ![j] = @ + 1]
  /\ Collect(j)
  /\ GoTo(j, "progress")
  /\ UNCHANGED <<rows, pos, next, missing, read, processed, created, counted,
                 deliverVars, edit, holes>>

Begin(j) ==
  /\ at[j] = "idle"
  /\ Moves(j, IF DocsOf[j] = <<>> THEN "deliver" ELSE "visit")

\* Fetched if need be, parsed and cleaned.
Parsed(j) == IF j \in Extracting THEN "extract" ELSE "chunk"

Parses(j) == at[j] = "visit" /\ Moves(j, Parsed(j))

\* The error of a fetch is not looked at: the empty document is parsed.
FetchFails(j) ==
  /\ at[j] = "visit"
  /\ Current(j).doc \in Remote
  /\ missing' = missing \cup {<<j, pos[j]>>}
  /\ GoTo(j, Parsed(j))
  /\ UNCHANGED <<rows, pos, next, read, countVars, extracted, deliverVars,
                 edit, holes>>

ParserFails(j) == at[j] = "visit" /\ Fails(j)

\* _extract_if_asked: an extraction that cannot be made does not fail the
\* document.
Extracts(j) ==
  /\ at[j] = "extract"
  /\ \E found \in BOOLEAN : read' = [read EXCEPT ![j] = found]
  /\ GoTo(j, "chunk")
  /\ UNCHANGED <<rows, pos, next, missing, countVars, extracted, deliverVars,
                 edit, holes>>

NothingToIndex(j) ==
  /\ at[j] = "chunk"
  /\ Size(j) = 0
  /\ Succeeds(j, 0)
  /\ UNCHANGED <<rows, next, holes>>

Embeds(j) ==
  /\ at[j] = "chunk"
  /\ Size(j) > 0
  /\ next' = [next EXCEPT ![j] = 0]
  /\ GoTo(j, "index")
  /\ UNCHANGED <<rows, pos, missing, read, countVars, extracted, deliverVars,
                 edit, holes>>

\* No batch of the document has been stored when the embedder raises, or when
\* the store cannot be reached.
EmbedderFails(j) ==
  /\ at[j] = "chunk"
  /\ Size(j) > 0
  /\ Fails(j)

-----------------------------------------------------------------------------
(* index_chunks                                                            *)

\* Mutant: a batch ends one chunk early.
BatchShort(j) ==
  {<<Current(j).doc, i>> : i \in {i \in next[j]..next[j] + BatchSize - 2 :
                                    i < Size(j)}}

\* The chunks of the batch that begins at next.
Batch(j) ==
  {<<Current(j).doc, i>> : i \in {i \in next[j]..next[j] + BatchSize - 1 :
                                    i < Size(j)}}

\* On to the next batch, or out of index_chunks: ingest_document returns the
\* number of chunks, whatever became of the batches.
BatchEnds(j) ==
  /\ at[j] = "index"
  /\ next' = [next EXCEPT ![j] = @ + BatchSize]
  /\ IF next[j] + BatchSize >= Size(j)
     THEN Succeeds(j, Size(j))
     ELSE UNCHANGED <<at, pos, missing, read, countVars, extracted, deliverVars,
                      edit>>

Upsert(j) ==
  LET v == Current(j).version IN
  /\ BatchEnds(j)
  /\ rows' = [c \in ChunkIds |-> IF c \in Batch(j)
                                 THEN [text |-> v, vec |-> v] ELSE rows[c]]
  /\ holes' = holes \ Batch(j)

\* A batch that fails is logged and skipped.
UpsertFails(j) ==
  /\ BatchEnds(j)
  /\ holes' = holes \cup {c \in Batch(j) : rows[c] = NoRow}
  /\ UNCHANGED rows

-----------------------------------------------------------------------------
(* Progress, delivery of the extracted rows, completion                    *)

\* The progress POST has been answered or has failed.
Progresses(j) ==
  /\ at[j] = "progress"
  /\ pos' = [pos EXCEPT ![j] = @ + 1]
  /\ read' = [read EXCEPT ![j] = FALSE]
  /\ GoTo(j, IF pos[j] < Len(DocsOf[j]) THEN "visit" ELSE "deliver")
  /\ UNCHANGED <<rows, next, missing, countVars, extracted, deliverVars, edit,
                 holes>>

\* Rows without a URL to send them to stay where they are.
HasRows(j) == extracted[j] # <<>> /\ j \in WithRowsUrl

Completes(j) ==
  /\ at[j] = "deliver"
  /\ ~HasRows(j)
  /\ Moves(j, "done")

Slice(j) == {<<j, extracted[j][k]>> :
               k \in {k \in DOMAIN extracted[j] : k <= RowBatch}}

NextSlice(j) ==
  /\ extracted' = [extracted EXCEPT
       ![j] = IF Len(@) <= RowBatch THEN <<>>
              ELSE SubSeq(@, RowBatch + 1, Len(@))]
  /\ attempt' = [attempt EXCEPT ![j] = 0]

DeliverySteps(j) ==
  /\ at[j] = "deliver"
  /\ HasRows(j)
  /\ UNCHANGED <<rows, at, pos, next, missing, read, countVars, edit, holes>>

SliceAccepted(j) ==
  /\ DeliverySteps(j)
  /\ received' = received \cup Slice(j)
  /\ NextSlice(j)
  /\ UNCHANGED lost

\* Mutant: the slice after a failed one is skipped with it.
GivesUpRest(j) ==
  /\ attempt[j] + 1 = Attempts
  /\ lost' = lost \cup Slice(j)
  /\ extracted' = [extracted EXCEPT ![j] = <<>>]
  /\ attempt' = [attempt EXCEPT ![j] = 0]

\* The last attempt has failed: the slice is dropped with a log line.
GivesUp(j) ==
  /\ attempt[j] + 1 = Attempts
  /\ lost' = lost \cup Slice(j)
  /\ NextSlice(j)

TriesAgain(j) ==
  /\ attempt[j] + 1 < Attempts
  /\ attempt' = [attempt EXCEPT ![j] = @ + 1]
  /\ UNCHANGED <<extracted, lost>>

\* core-api may have received the slice all the same.
SliceFails(j) ==
  /\ DeliverySteps(j)
  /\ received' \in {received, received \cup Slice(j)}
  /\ GivesUp(j) \/ TriesAgain(j)

-----------------------------------------------------------------------------
(* Cancellation, crash, requests                                           *)

\* CancelledError passes the handlers of ingest_batch, which catch Exception.
\* Some embedders suspend.
JobIsCancelled(j) ==
  /\ at[j] \in {"visit", "extract", "chunk", "progress", "deliver"}
  /\ Moves(j, "cut")

ProcessIsKilled(j) ==
  /\ at[j] \notin Ended \cup {"idle"}
  /\ Moves(j, "cut")

RemoveRows(C) ==
  /\ rows' = [c \in ChunkIds |-> IF c \in C THEN NoRow ELSE rows[c]]
  /\ holes' = holes \cup {c \in C : rows[c] # NoRow}
  /\ UNCHANGED <<jobVars, edit>>

DeleteDocument(d) == RemoveRows({c \in ChunkIds : c[1] = d})
DeleteChunk(c)    == RemoveRows({c})
DeleteKb          == RemoveRows(ChunkIds)

\* PUT /chunks: the new text is embedded first,
EditBegins(e) ==
  /\ edit[e] = "idle"
  /\ edit' = [edit EXCEPT ![e] = "embedding"]
  /\ UNCHANGED <<rows, jobVars, holes>>

\* Mutant: only the text is updated.
EditWritesText(e) ==
  /\ edit[e] = "embedding"
  /\ edit' = [edit EXCEPT ![e] = "done"]
  /\ rows' = [rows EXCEPT ![ChunkOf[e]] = IF @ = NoRow THEN NoRow
                                          ELSE [@ EXCEPT !.text = e]]
  /\ UNCHANGED <<jobVars, holes>>

\* Mutant: the update is an upsert.
EditUpserts(e) ==
  /\ edit[e] = "embedding"
  /\ edit' = [edit EXCEPT ![e] = "done"]
  /\ rows' = [rows EXCEPT ![ChunkOf[e]] = [text |-> e, vec |-> e]]
  /\ UNCHANGED <<jobVars, holes>>

\* then text and vector are updated where the chunk still is.
EditWrites(e) ==
  /\ edit[e] = "embedding"
  /\ edit' = [edit EXCEPT ![e] = "done"]
  /\ rows' = [rows EXCEPT ![ChunkOf[e]] = IF @ = NoRow THEN NoRow
                                          ELSE [text |-> e, vec |-> e]]
  /\ UNCHANGED <<jobVars, holes>>

-----------------------------------------------------------------------------

JobSteps(j) ==
  \/ Begin(j)
  \/ Parses(j)
  \/ FetchFails(j)
  \/ ParserFails(j)
  \/ Extracts(j)
  \/ NothingToIndex(j)
  \/ Embeds(j)
  \/ EmbedderFails(j)
  \/ Upsert(j)
  \/ UpsertFails(j)
  \/ Progresses(j)
  \/ Completes(j)
  \/ SliceAccepted(j)
  \/ SliceFails(j)

Requests ==
  \/ \E d \in Docs : DeleteDocument(d)
  \/ \E c \in ChunkIds : DeleteChunk(c)
  \/ DeleteKb
  \/ \E e \in Edits : EditBegins(e) \/ EditWrites(e)

Next ==
  \/ \E j \in Jobs : JobSteps(j) \/ JobIsCancelled(j) \/ ProcessIsKilled(j)
  \/ Requests

Spec == Init /\ [][Next]_vars

-----------------------------------------------------------------------------
(* Properties                                                              *)

\* What is searched is what was embedded: text and vector of a row belong
\* together, whatever edits, re-ingestions and deletions overlap.
VectorMatchesText ==
  \A c \in ChunkIds : rows[c] # NoRow => rows[c].text = rows[c].vec

\* Every chunk of every document counted as processed is stored, unless its
\* batch failed or a request removed it, or the document was never fetched;
\* whatever became of the other documents of the job, and although two jobs
\* write the same chunks.
ProcessedIsStored ==
  \A j \in Jobs : \A k \in DOMAIN DocsOf[j] : <<j, k>> \in counted =>
    \A i \in 0..Count(j, k) - 1 :
      LET c == <<DocsOf[j][k].doc, i>> IN rows[c] # NoRow \/ c \in holes

\* A row that is not there appears only because a job indexes its document: an
\* edit that was being embedded while the chunk was deleted brings nothing
\* back.
OnlyIngestionAddsRows ==
  [][\A c \in ChunkIds :
       rows[c] = NoRow /\ rows'[c] # NoRow =>
         \E j \in Jobs : at[j] = "index" /\ Current(j).doc = c[1]]_vars

\* A row leaves the list only once core-api has received it or its loss has
\* been logged: one slice that fails does not take the others with it.
DeliveredOrLost ==
  [][\A j \in Jobs : at'[j] # "cut" =>
       \A d \in Range(extracted[j]) \ Range(extracted'[j]) :
         <<j, d>> \in received' \cup lost']_vars
=============================================================================
