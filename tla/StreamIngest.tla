---------------------------- MODULE StreamIngest ----------------------------
(***************************************************************************)
(* The streaming ingestion of one large object (src/streaming.py): the     *)
(* object arrives in units (byte windows, pages, paragraphs, rows), each   *)
(* unit goes through the guardrail filter, the cleaner and the rolling     *)
(* chunker, and every embed_batch chunks are embedded and indexed, so that *)
(* the whole object is never in memory.                                    *)
(*                                                                         *)
(* Text is a sequence of characters: letters, " ", "nl" (a newline) and    *)
(* "key", a keyword that excludes the line it is on.  Some letters are     *)
(* wide: two bytes, which a byte window may part.                          *)
(***************************************************************************)
EXTENDS Integers, Sequences, FiniteSets, SequencesExt

CONSTANTS
  Texts,      (* what the object may contain                                  *)
  Wide,       (* the characters that are two bytes long                       *)
  Overlaps,   (* chunk_overlap, as it may be set                              *)
  ChunkSize, MinChunkSize,
  EmbedBatch, (* _DEFAULT_EMBED_BATCH                                         *)
  MaxPartial, (* _GuardrailLineFilter._MAX_PARTIAL                            *)
  MaxUnit     (* bound: characters of a unit                                  *)

Characters == UNION {Range(t) : t \in Texts}

ASSUME ConstantsOK ==
  /\ Texts \subseteq Seq(Characters)
  /\ {ChunkSize, MinChunkSize, EmbedBatch, MaxUnit} \subseteq Nat \ {0}
  /\ Overlaps \cup {MaxPartial} \subseteq Nat

VARIABLES
  text, guarded,  (* the object; whether guardrails were asked for            *)
  overlap,        (* chunk_overlap                                            *)
  pos, half,      (* how much of it has been read; the decoder holds the      *)
                  (* first byte of the next character                         *)
  phase,          (* "reading", "finalizing", "done", "failed", "cut"         *)
  partial,        (* the filter's unfinished line                             *)
  buf, idx,       (* the chunker's buffer and next index                      *)
  out,            (* chunks yielded and not yet consumed by _emit             *)
  batch,          (* _batch                                                   *)
  stored,         (* rows in the vector store: index -> content               *)
  total,          (* self.total                                               *)
  filtered, cleaned, (* history: everything the filter, the cleaner returned  *)
  forced,         (* history: the filter has given up on an unfinished line   *)
  swallowed       (* history: chunks whose index batch failed                 *)

inputVars   == <<text, guarded, overlap>>
chunkVars   == <<buf, idx, out>>
storeVars   == <<batch, stored, total, swallowed>>
historyVars == <<filtered, cleaned, forced>>
vars        == <<inputVars, pos, half, phase, partial, chunkVars, storeVars,
                 historyVars>>

\* The constructor keeps the overlap below the size, or no chunk would ever
\* leave the buffer.
Overlap == IF overlap < ChunkSize THEN overlap ELSE ChunkSize - 1

Step == ChunkSize - Overlap

-----------------------------------------------------------------------------
(* Text                                                                    *)

White == {" ", "nl"}

\* How many of the positions in kept are not after i, and which is the n-th.
UpTo(kept, i) == Cardinality({m \in kept : m <= i})
Nth(kept, n)  == CHOOSE i \in kept : UpTo(kept, i) = n

\* The characters of t at the positions in kept.
Pick(t, kept) == [n \in 1..Cardinality(kept) |-> t[Nth(kept, n)]]

\* Positions m and n of t are on one line; a newline ends its own line.
SameLine(t, m, n) ==
  \A x \in (IF m < n THEN m..n - 1 ELSE n..m - 1) : t[x] # "nl"

\* apply_guardrails: the lines with a keyword are dropped.
Passing(t) ==
  {i \in DOMAIN t : \A m \in DOMAIN t : t[m] = "key" => ~SameLine(t, i, m)}
Guard(t) == Pick(t, Passing(t))

\* At most two newlines and one space in a row.
Collapse(t) ==
  Pick(t, {i \in DOMAIN t :
    ~ \/ t[i] = " " /\ i > 1 /\ t[i - 1] = " "
      \/ t[i] = "nl" /\ i > 2 /\ t[i - 1] = "nl" /\ t[i - 2] = "nl"})

Strip(t) ==
  Pick(t, {i \in DOMAIN t : /\ \E m \in 1..i : t[m] \notin White
                           /\ \E m \in i..Len(t) : t[m] \notin White})

\* TextCleaner.clean.
Clean(t) == Strip(Collapse(t))

\* The chunks of size ChunkSize that a buffer b holds, with the index of the
\* first, and what is left of it.
FullChunks(b)    == IF Len(b) < ChunkSize THEN 0
                    ELSE (Len(b) - ChunkSize) \div Step + 1
ChunkAt(b, k)    == SubSeq(b, k * Step + 1, k * Step + ChunkSize)
Yield(b, first)  == [n \in 1..FullChunks(b) |->
                       [index |-> first + n - 1, content |-> ChunkAt(b, n - 1)]]
\* Mutant: no overlap is kept.
RestWithoutOverlap(b) == SubSeq(b, FullChunks(b) * ChunkSize + 1, Len(b))

Rest(b)          == SubSeq(b, FullChunks(b) * Step + 1, Len(b))

\* RollingChunker.flush.
FinalChunk(b, first) ==
  IF Len(b) >= MinChunkSize THEN <<[index |-> first, content |-> b]>> ELSE <<>>

-----------------------------------------------------------------------------
(* The filter                                                              *)

\* The end of the last complete line of t.
LastLineEnd(t) ==
  CHOOSE n \in 0..Len(t) :
    /\ n = 0 \/ t[n] = "nl"
    /\ \A m \in n + 1..Len(t) : t[m] # "nl"

\* Mutant: whatever is there is evaluated at once.
FilterEager(t) == [text |-> Guard(t), partial |-> <<>>]

\* Mutant: an unfinished line may grow without limit.
FilterUncapped(t) ==
  IF guarded THEN [text |-> Guard(SubSeq(t, 1, LastLineEnd(t))),
                   partial |-> SubSeq(t, LastLineEnd(t) + 1, Len(t))]
  ELSE [text |-> t, partial |-> <<>>]

\* _GuardrailLineFilter.feed, given the partial line followed by the unit.
Filter(t) ==
  LET end  == LastLineEnd(t)
      rest == SubSeq(t, end + 1, Len(t))
  IN  IF ~guarded THEN [text |-> t, partial |-> <<>>]
      ELSE IF Len(rest) > MaxPartial
      THEN [text |-> Guard(SubSeq(t, 1, end)) \o Guard(rest), partial |-> <<>>]
      ELSE [text |-> Guard(SubSeq(t, 1, end)), partial |-> rest]

-----------------------------------------------------------------------------

Ended == {"done", "failed", "cut"}

\* A chunk is full, or the last of the object.
IsContent(c) ==
  c \in Seq(Characters) /\ Len(c) \in {ChunkSize} \cup MinChunkSize..ChunkSize

TypeOK ==
  /\ text \in Texts
  /\ guarded \in BOOLEAN
  /\ overlap \in Overlaps
  /\ pos \in 0..Len(text)
  /\ half => text[pos + 1] \in Wide
  /\ phase \in {"reading", "finalizing"} \cup Ended
  /\ partial \in Seq(Characters)
  /\ buf \in Seq(Characters)
  /\ {idx, total} \subseteq Nat
  /\ \A s \in {out, batch} :
       \A n \in DOMAIN s : s[n].index \in Nat /\ IsContent(s[n].content)
  /\ \A i \in DOMAIN stored : i \in Nat /\ IsContent(stored[i])
  /\ swallowed \subseteq Nat
  /\ forced \in BOOLEAN

Init ==
  /\ text \in Texts
  /\ guarded \in BOOLEAN
  /\ overlap \in Overlaps
  /\ pos = 0
  /\ half = FALSE
  /\ phase = "reading"
  /\ partial = <<>>
  /\ buf = <<>>
  /\ idx = 0
  /\ out = <<>>
  /\ batch = <<>>
  /\ stored = <<>>
  /\ total = 0
  /\ swallowed = {}
  /\ filtered = <<>>
  /\ cleaned = <<>>
  /\ forced = FALSE

\* _emit consumes what has been yielded before the next unit is read; it
\* flushes when the batch is full.
Consumed == out = <<>> /\ Len(batch) < EmbedBatch

\* Mutant: each window is decoded on its own.
DecodedAlone(n) == SubSeq(text, pos + (IF half THEN 2 ELSE 1), pos + n)

\* The incremental decoder: the n characters that are complete with this unit.
Decoded(n) == SubSeq(text, pos + 1, pos + n)

\* feed: one unit through filter, cleaner and chunker.  A byte window may end
\* in a wide character, or be the first byte of one.
ReadUnit(n) ==
  LET unit == Decoded(n)
      f    == Filter(partial \o unit)
      b    == buf \o Clean(f.text)
  IN
  /\ phase = "reading"
  /\ Consumed
  /\ pos + n <= Len(text)
  /\ pos' = pos + n
  /\ half' \in {FALSE, pos + n < Len(text) /\ text[pos + n + 1] \in Wide}
  /\ n = 0 => half' /\ ~half
  /\ partial' = f.partial
  /\ filtered' = filtered \o f.text
  /\ cleaned' = cleaned \o Clean(f.text)
  /\ forced' =
       \/ forced
       \/ /\ guarded
          /\ Len(partial \o unit) - LastLineEnd(partial \o unit) > MaxPartial
  /\ out' = Yield(b, idx)
  /\ buf' = Rest(b)
  /\ idx' = idx + FullChunks(b)
  /\ UNCHANGED <<inputVars, phase, storeVars>>

\* Mutant: the chunker is not flushed.
FinalizeWithoutTail ==
  LET f == IF guarded THEN Guard(partial) ELSE partial
      b == buf \o Clean(f)
  IN
  /\ phase = "reading"
  /\ Consumed
  /\ pos = Len(text)
  /\ phase' = "finalizing"
  /\ partial' = <<>>
  /\ filtered' = filtered \o f
  /\ cleaned' = cleaned \o Clean(f)
  /\ out' = Yield(b, idx)
  /\ idx' = idx + FullChunks(b)
  /\ buf' = <<>>
  /\ UNCHANGED <<inputVars, pos, half, forced, storeVars>>

\* finalize: the unfinished line, then what the chunker still holds.
Finalize ==
  LET f == IF guarded THEN Guard(partial) ELSE partial
      b == buf \o Clean(f)
  IN
  /\ phase = "reading"
  /\ Consumed
  /\ pos = Len(text)
  /\ phase' = "finalizing"
  /\ partial' = <<>>
  /\ filtered' = filtered \o f
  /\ cleaned' = cleaned \o Clean(f)
  /\ out' = Yield(b, idx) \o FinalChunk(Rest(b), idx + FullChunks(b))
  /\ idx' = idx + FullChunks(b) + Len(FinalChunk(Rest(b), 0))
  /\ buf' = <<>>
  /\ UNCHANGED <<inputVars, pos, half, forced, storeVars>>

Emit ==
  /\ out # <<>>
  /\ Len(batch) < EmbedBatch
  /\ batch' = Append(batch, Head(out))
  /\ out' = Tail(out)
  /\ UNCHANGED <<inputVars, pos, half, phase, partial, buf, idx, stored, total,
                 swallowed, historyVars>>

\* A full batch, or at the end what is left of one.
Flushes ==
  /\ phase \notin Ended
  /\ \/ Len(batch) = EmbedBatch
     \/ phase = "finalizing" /\ out = <<>> /\ batch # <<>>
  /\ UNCHANGED <<inputVars, pos, half, partial, chunkVars, historyVars>>

Indexes == {batch[n].index : n \in DOMAIN batch}

\* Mutant: the batch is not emptied.
FlushKeepsBatch ==
  /\ Flushes
  /\ stored' = [i \in DOMAIN stored \cup Indexes |->
                  IF i \in Indexes THEN batch[i - batch[1].index + 1].content
                  ELSE stored[i]]
  /\ total' = total + Len(batch)
  /\ batch' = Tail(batch)
  /\ UNCHANGED <<phase, swallowed>>

\* _flush: the indexes of a batch are consecutive.
Flush ==
  /\ Flushes
  /\ stored' = [i \in DOMAIN stored \cup Indexes |->
                  IF i \in Indexes THEN batch[i - batch[1].index + 1].content
                  ELSE stored[i]]
  /\ total' = total + Len(batch)
  /\ batch' = <<>>
  /\ UNCHANGED <<phase, swallowed>>

\* index_chunks logs the failure of a batch and returns; it is counted.
FlushSwallowed ==
  /\ Flushes
  /\ total' = total + Len(batch)
  /\ swallowed' = swallowed \cup Indexes
  /\ batch' = <<>>
  /\ UNCHANGED <<phase, stored>>

\* The embedder raises: the run fails, what has been stored stays.
EmbedFails ==
  /\ Flushes
  /\ phase' = "failed"
  /\ UNCHANGED storeVars

ReadFails ==
  /\ phase = "reading"
  /\ Consumed
  /\ phase' = "failed"
  /\ UNCHANGED <<inputVars, pos, half, partial, chunkVars, storeVars,
                 historyVars>>

\* The job is cancelled while a unit is being read.
Cancelled ==
  /\ phase = "reading"
  /\ Consumed
  /\ phase' = "cut"
  /\ UNCHANGED <<inputVars, pos, half, partial, chunkVars, storeVars,
                 historyVars>>

Done ==
  /\ phase = "finalizing"
  /\ out = <<>>
  /\ batch = <<>>
  /\ phase' = "done"
  /\ UNCHANGED <<inputVars, pos, half, partial, chunkVars, storeVars,
                 historyVars>>

Steps ==
  \/ \E n \in 0..MaxUnit : ReadUnit(n)
  \/ Finalize
  \/ Emit
  \/ Flush
  \/ FlushSwallowed
  \/ EmbedFails
  \/ ReadFails
  \/ Done

Next == Steps \/ Cancelled

Spec == Init /\ [][Next]_vars

-----------------------------------------------------------------------------
(* Properties                                                              *)

\* What is held at a time does not grow with the object: an unfinished line,
\* less than a chunk, a batch, and the chunks of one unit.
MemoryIsBounded ==
  /\ Len(partial) <= MaxPartial
  /\ Len(buf) < ChunkSize
  /\ Len(batch) <= EmbedBatch
  /\ Len(out) <= MaxPartial + MaxUnit + 1

\* A line cut by the boundary of a unit is judged whole: however the object
\* is cut, the filter lets through what the guardrails leave of its complete
\* lines (of all of it at the end) -- as long as no line outgrew the filter.
LinesAreJudgedWhole ==
  guarded /\ ~forced /\ phase # "failed" =>
    filtered = Guard(IF phase \in {"finalizing", "done"} THEN text
                     ELSE SubSeq(text, 1, LastLineEnd(SubSeq(text, 1, pos))))

\* Chunk i is what stands at i * Step of the cleaned stream, however it was cut
\* into units and whenever it was flushed.
RowsAreTheStream ==
  \A i \in DOMAIN stored :
    LET end == i * Step + ChunkSize IN
    stored[i] = SubSeq(cleaned, i * Step + 1,
                       IF end < Len(cleaned) THEN end ELSE Len(cleaned))

\* Whenever the run stops, what it leaves in the store is a prefix: the chunks
\* 0 to total - 1 except those of failed index batches.  When it is done the
\* prefix is all of the stream but for less than a minimal chunk.
StoredIsPrefix ==
  /\ DOMAIN stored \cup swallowed = 0..total - 1
  /\ DOMAIN stored \cap swallowed = {}
  /\ phase = "done" =>
       /\ total = idx
       /\ Len(cleaned) - (IF idx = 0 THEN 0 ELSE (idx - 1) * Step + ChunkSize)
            < MinChunkSize

-----------------------------------------------------------------------------
(* What the documentation says and the code does not do                    *)

\* streaming.py:18-20: "All paths produce the SAME pgvector rows as the normal
\* pipeline": without guardrails, what is chunked is the cleaned text.
SameTextAsPipeline ==
  phase = "done" /\ ~guarded => cleaned = Clean(text)
=============================================================================
