------------------------------ MODULE Document ------------------------------
(***************************************************************************)
(* One document from its arrival to the vector store and the category's    *)
(* row: Extraction and, for the buffered route of src/pipeline.py, the     *)
(* guardrails, Chunking and the store, in the order of ingest_document.    *)
(*                                                                         *)
(* A document that nobody asked to read is given by the lengths of its     *)
(* sections, as in Chunking; one that is read has words, each a paragraph  *)
(* of its own.  That the batches of the store may fail one by one is       *)
(* KnowledgeBase; how the streams chunk is StreamIngest.                   *)
(***************************************************************************)
EXTENDS Extraction, Chunking

VARIABLE stored   (* what the chunks' rows hold: [content, meta]              *)

documentVars == <<readingVars, vars, stored>>

DocumentTypeOK ==
  /\ ReadingTypeOK
  /\ stored \subseteq [content : SUBSET Words, meta : {NoRow, row}]

\* Its text is not yet known to the chunker.
Unread ==
  /\ strategy = "paragraph"
  /\ doc = <<>>
  /\ phase = "waiting"
  /\ sec = 1
  /\ unit = 1
  /\ current = <<>>
  /\ length = 0
  /\ start = 0
  /\ chunks = <<>>
  /\ idx = 0

Empty == [kind |-> "text", pages |-> <<>>]

\* A text may be empty.
ASSUME FilesOK == Empty \in Files

\* _extract_if_asked returns at once.
NotAsked ==
  /\ file = Empty
  /\ route = "buffered"
  /\ asked = FALSE
  /\ guarded = FALSE
  /\ stage = "chunk"
  /\ page = 1
  /\ text = <<>>
  /\ raw = FALSE
  /\ how = "nothing"
  /\ shown = {}
  /\ cut = FALSE
  /\ answer = <<>>
  /\ row = NoRow
  /\ rows = <<>>

DocumentInit ==
  /\ \/ ReadingInit /\ Unread
     \/ NotAsked /\ Init
  /\ stored = {}

ReadingSteps ==
  /\ \/ Refuses
     \/ Parses
     \/ ObjectRefused
     \/ ReadingFails
     \/ FeedsPage
     \/ StreamEnds
     \/ JudgesText
     \/ JudgesPictures
     \/ JudgesScanned
     \/ ModelFails
     \/ FindsNothing
     \/ ModelIsBlind
     \/ Finds
     \/ Delivers
     \/ Replies
     \/ JobIsCancelled
  /\ UNCHANGED <<vars, stored>>

\* Guardrails, and into the chunker.
HandsOver ==
  /\ Guards
  /\ doc' = <<[i \in DOMAIN Guarded |-> CharsOf[Guarded[i]]]>>
  /\ phase' = "packing"
  /\ UNCHANGED <<strategy, sec, unit, current, length, start, chunks, idx,
                 stored>>

Chunks == stage = "chunk" /\ Next /\ UNCHANGED <<readingVars, stored>>

Chunked ==
  /\ stage = "chunk"
  /\ phase = "done"
  /\ UNCHANGED <<inputVars, page, text, raw, modelVars, row, vars>>

WordsOf(c) == {text[k] : k \in Range(c.units) \cap DOMAIN text}

\* Every chunk carries the document's metadata, the row in it, to the store.
Stores ==
  /\ Chunked
  /\ stored' = {[content |-> WordsOf(c), meta |-> row] : c \in Range(chunks)}
  /\ stage' = "done"
  /\ rows' = Collected

\* Mutant: what was read of a document that cannot be stored is dropped.
StoringFailsUnread ==
  /\ Chunked
  /\ chunks # <<>>
  /\ stage' = "failed"
  /\ UNCHANGED <<rows, stored>>

\* The embedder raises: the document has failed, its row is collected.
StoringFails ==
  /\ Chunked
  /\ chunks # <<>>
  /\ stage' = "failed"
  /\ rows' = Collected
  /\ UNCHANGED stored

CancelledWhileEmbedding ==
  /\ Chunked
  /\ chunks # <<>>
  /\ stage' = "cut"
  /\ UNCHANGED <<rows, stored>>

DocumentNext ==
  \/ ReadingSteps
  \/ HandsOver
  \/ Chunks
  \/ Stores
  \/ StoringFails
  \/ CancelledWhileEmbedding

DocumentSpec == DocumentInit /\ [][DocumentNext]_documentVars

\* What happens unless something fails or the job is cancelled.
Proceeds ==
  \/ (Refuses \/ Parses \/ FeedsPage \/ StreamEnds \/ JudgesText
        \/ JudgesPictures \/ JudgesScanned \/ Finds \/ FindsNothing
        \/ ModelFails \/ Delivers \/ Replies)
       /\ UNCHANGED <<vars, stored>>
  \/ HandsOver
  \/ Chunks
  \/ Stores

\* The model call has a timeout (client.py); the rest are loops and calls on
\* libraries that return.
FairDocumentSpec == DocumentSpec /\ WF_documentVars(Proceeds)

-----------------------------------------------------------------------------
(* Properties of the reading                                               *)

Pictures(P) == UNION {file.pages[i].picture : i \in P}

\* What there was to be seen in the way the document was shown: of one shown as
\* text the text layers, of one shown as pictures the pages that can be rendered.
Legible ==
  IF how = "text" THEN UNION {FactsIn(file.pages[i].layer) : i \in DOMAIN file.pages}
  ELSE Pictures({i \in DOMAIN file.pages : file.pages[i].renders})

\* A row without a failure and without the truncation note comes from a model
\* that was shown all there was in its way: the whole text, in the words of the
\* document before they were redacted, or every page that renders, whichever
\* route it took and however the stream, the clip and the renderer bounded it.
\* It does not tell of what has no part in that way: a scanned page between
\* pages of text, or a page that cannot be rendered, goes unread and the row has
\* no word of it.  A row that calls the document a scan that cannot be read says
\* so of one without a page to show -- but for a stream with a few characters of
\* text, a stamp: it has not kept its bytes, although extract_document means to
\* render just such documents (extractor/__init__.py:111-120).
RowTellsTheTruth ==
  row # NoRow =>
    /\ row.failure = "none" /\ ~row.note => Legible \subseteq shown
    /\ row.failure = "scanned" =>
         \/ file.kind # "pdf"
         \/ \A i \in DOMAIN file.pages : i <= MaxPages => ~file.pages[i].renders
         \/ route = "streamed" /\ text # <<>>

\* Each finding is in the row, in the field it answers however the model spelt
\* the key, or among the unmapped; and nothing is in a field that does not answer
\* it.  Findings whose keys have one normal form are one to the code, asked for
\* or not: the last one stands and the others are lost, although mapping.py:8
\* says NOTHING IS DISCARDED.  But keys that were not asked for and have no letter
\* to compare stay apart.
FindingsAreKept ==
  row # NoRow /\ row.failure = "none" =>
    LET Like(k, l) == NormalOf[k] = NormalOf[l]
        Asked(k)   == \E g \in Range(Fields) : Like(g, k)
        Filed      == Range(row.values) \cup Range(row.unmapped)
        Replaces(k, l) == \/ k = l
                          \/ Like(k, l) /\ (NormalOf[l] # NoLetters \/ Asked(l))
    IN
    /\ Filed \subseteq Range(answer)
    /\ \A i \in DOMAIN answer :
         \/ answer[i] \in Filed
         \/ \E j \in i + 1..Len(answer) :
              Replaces(KeyOf[answer[j]], KeyOf[answer[i]])
    /\ \A g \in DOMAIN row.values :
         g \in Range(Fields) /\ Like(g, KeyOf[row.values[g]])
    /\ \A u \in DOMAIN row.unmapped : ~Asked(KeyOf[row.unmapped[u]])

\* Who asked for a document to be read gets one row for it on the buffered route,
\* although the model or, after the reading, the embedder or the store failed,
\* and on the streamed route of a PDF although the model failed; nobody gets two,
\* or one that was not asked for.  Without a row are
\*   - a document that cannot be fetched or parsed, and a cancelled job's;
\*   - a streamed PDF of which a page could not be embedded or stored: it fails
\*     before it is read (ReadingFails), although pipeline.py:304-307 says why the
\*     row must outlive such a failure;
\*   - the streams that are no PDF, which never look at the spec;
\*   - for /extract, a document whose model call failed: the answer is an error.
OneRowPerDocument ==
  /\ stage = "done" /\ asked /\ ~(route = "streamed" /\ file.kind # "pdf") =>
       row # NoRow
  /\ stage \in {"done", "failed"} =>
       rows = IF row = NoRow THEN <<>>
              ELSE IF route = "extract" /\ row.failure = "retry" THEN <<>>
              ELSE <<row>>
  /\ ~asked => row = NoRow
  /\ Len(rows) <= 1

\* Every document comes to an end, without the help of a failure or a
\* cancellation: no page, section, unit or window is visited for ever, by loops
\* that share one thread with everything else of the process.
DocumentEnds == <>(stage \in {"done", "failed", "refused", "cut"})

\* What the guardrails take out of a document is in the text of none of its
\* chunks, although a copy of it, the row, was read from it before.
ChunksAreRedacted ==
  guarded => \A s \in stored : s.content \cap Personal = {}

\* The guardrails redact "before chunking, permanently, for everything downstream
\* of it" (pipeline.py:130-131): what they take out is not stored, neither in the
\* text of a chunk nor with it.  It does not hold: the row, read before, has it,
\* and is on the metadata that every chunk takes along.
RedactedForEverything ==
  guarded =>
    \A s \in stored :
      /\ s.content \cap Personal = {}
      /\ s.meta # NoRow =>
           (Range(s.meta.values) \cup Range(s.meta.unmapped)) \cap Personal = {}
=============================================================================
