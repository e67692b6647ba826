------------------------- MODULE KnowledgeBaseProofs -------------------------
(***************************************************************************)
(* Proofs about the rows of a knowledge base, for any number of jobs,      *)
(* documents, versions, edits and sizes of batches and slices.             *)
(***************************************************************************)
EXTENDS KnowledgeBase, FiniteSetTheorems, SequenceTheorems, TLAPS

Row      == [text : Texts, vec : Texts]
InDoc    == {"visit", "extract", "chunk", "index", "progress"}
Unstored == {"idle", "visit", "extract", "chunk", "index"}

\* Types, and that a job that is at a document has one.
JobInv ==
  /\ rows \in [ChunkIds -> Row \cup {NoRow}]
  /\ at \in [Jobs -> Where]
  /\ pos \in [Jobs -> Nat \ {0}]
  /\ next \in [Jobs -> Nat]
  /\ processed \in [Jobs -> Nat]
  /\ failed \in [Jobs -> Nat]
  /\ extracted \in [Jobs -> Seq(Docs)]
  /\ \A j \in Jobs : /\ at[j] = "idle" => pos[j] = 1
                     /\ at[j] \in InDoc => pos[j] <= Len(DocsOf[j])

\* The chunks that are accounted for: stored, or missing for a known reason.
Covered == {c \in ChunkIds : rows[c] # NoRow \/ c \in holes}

\* What makes ProcessedIsStored inductive: the documents a job counts come
\* before the one it is at, or are that one once it is reported, and their
\* chunks are accounted for; so are, of the one it is at, the batches before
\* next.
StoredOf(j) ==
  /\ \A k \in Nat : <<j, k>> \in counted =>
       /\ k \in 1..pos[j]
       /\ at[j] \in Unstored => k # pos[j]
       /\ \A i \in 0..Count(j, k) - 1 : <<DocsOf[j][k].doc, i>> \in Covered
  /\ at[j] = "index" => \A i \in 0..Size(j) - 1 :
       i < next[j] => <<Current(j).doc, i>> \in Covered

StoredInv == \A j \in Jobs : StoredOf(j)

(***************************************************************************)
(* Documents and chunks                                                    *)
(***************************************************************************)

LEMMA DocFacts ==
  ASSUME NEW j \in Jobs, NEW k \in Nat \ {0}, k <= Len(DocsOf[j])
  PROVE  /\ DocsOf[j][k].doc \in Docs
         /\ DocsOf[j][k].version \in Versions
         /\ Len(DocsOf[j]) \in Nat
         /\ Count(j, k) \in 0..MaxChunks
         /\ \A i \in 0..Count(j, k) - 1 : <<DocsOf[j][k].doc, i>> \in ChunkIds
<1>1. DocsOf[j] \in Seq([doc : Docs, version : Versions])
  BY ConstantsOK
<1>2. Len(DocsOf[j]) \in Nat /\ DocsOf[j][k] \in [doc : Docs, version : Versions]
  <2>1. Len(DocsOf[j]) \in Nat
    BY <1>1
  <2>2. k \in 1..Len(DocsOf[j])
    BY <2>1
  <2>3. QED
    BY <1>1, <2>1, <2>2, ElementOfSeq
<1>3. DocsOf[j][k].doc \in Docs /\ DocsOf[j][k].version \in Versions
  BY <1>2
<1>4. MaxChunks \in Nat
  BY ConstantsOK
<1>5. Count(j, k) \in 0..MaxChunks
  <2>1. ChunksOf[DocsOf[j][k].doc][DocsOf[j][k].version] \in 0..MaxChunks
    BY <1>3, ConstantsOK
  <2>2. QED
    BY <1>4, <2>1 DEF Count
<1>6. \A i \in 0..Count(j, k) - 1 : i \in 0..MaxChunks - 1
  BY <1>4, <1>5
<1>7. QED
  BY <1>2, <1>3, <1>5, <1>6 DEF ChunkIds

\* Every step keeps what is accounted for: rows come from batches, and go with
\* a trace in holes.
LEMMA RowsStep ==
  ASSUME JobInv, [Next]_vars
  PROVE  /\ rows' \in [ChunkIds -> Row \cup {NoRow}]
         /\ Covered \subseteq Covered'
         /\ VectorMatchesText => VectorMatchesText'
         /\ \A c \in ChunkIds : rows[c] = NoRow /\ rows'[c] # NoRow =>
              \E j \in Jobs : at[j] = "index" /\ Current(j).doc = c[1]
<1> USE DEF JobInv
<1> DEFINE Sound ==
      /\ rows' \in [ChunkIds -> Row \cup {NoRow}]
      /\ Covered \subseteq Covered'
      /\ VectorMatchesText => VectorMatchesText'
      /\ \A c \in ChunkIds : rows[c] = NoRow /\ rows'[c] # NoRow =>
           \E j \in Jobs : at[j] = "index" /\ Current(j).doc = c[1]
<1>1. ASSUME UNCHANGED <<rows, holes>> PROVE Sound
  BY <1>1 DEF Covered, VectorMatchesText
<1>2. ASSUME NEW j \in Jobs, Upsert(j), Current(j).version \in Versions
      PROVE  Sound
  <2> DEFINE v == Current(j).version
             new == [text |-> v, vec |-> v]
  <2>1. new \in Row /\ new # NoRow /\ new.text = new.vec
    <3>1. v \in Texts
      BY <1>2 DEF Texts
    <3>2. QED
      BY <3>1, ConstantsOK DEF Row
  <2> HIDE DEF new
  <2>2. /\ rows' = [c \in ChunkIds |-> IF c \in Batch(j) THEN new ELSE rows[c]]
        /\ holes' = holes \ Batch(j)
        /\ at[j] = "index"
    BY <1>2 DEF Upsert, BatchEnds, new
  <2>3. \A c \in Batch(j) : Current(j).doc = c[1]
    BY DEF Batch
  <2>4. /\ rows' \in [ChunkIds -> Row \cup {NoRow}]
        /\ Covered \subseteq Covered'
    BY <2>1, <2>2 DEF Covered
  <2>5. VectorMatchesText => VectorMatchesText'
    BY <2>1, <2>2 DEF VectorMatchesText
  <2>6. QED
    BY <2>2, <2>3, <2>4, <2>5
<1>3. ASSUME NEW j \in Jobs, UpsertFails(j) PROVE Sound
  BY <1>3 DEF UpsertFails, Covered, VectorMatchesText
<1>4. ASSUME NEW C \in SUBSET ChunkIds, RemoveRows(C) PROVE Sound
  BY <1>4 DEF RemoveRows, Covered, VectorMatchesText
<1>5. ASSUME NEW e \in Edits, EditWrites(e) PROVE Sound
  <2>1. ChunkOf[e] \in ChunkIds /\ e \in Texts
    BY ConstantsOK DEF Texts
  <2>2. CASE rows[ChunkOf[e]] = NoRow
    <3>1. rows' = rows /\ holes' = holes
      BY <1>5, <2>1, <2>2 DEF EditWrites
    <3>2. QED
      BY <1>1, <3>1
  <2>3. CASE rows[ChunkOf[e]] # NoRow
    <3>1. /\ rows' = [rows EXCEPT ![ChunkOf[e]] = [text |-> e, vec |-> e]]
          /\ holes' = holes
      BY <1>5, <2>3 DEF EditWrites
    <3>2. [text |-> e, vec |-> e] \in Row
      BY <2>1 DEF Row
    <3>3. /\ rows' \in [ChunkIds -> Row \cup {NoRow}]
          /\ rows'[ChunkOf[e]] = [text |-> e, vec |-> e]
          /\ \A c \in ChunkIds \ {ChunkOf[e]} : rows'[c] = rows[c]
      BY <2>1, <3>1, <3>2
    <3>4. rows'[ChunkOf[e]] # NoRow /\ rows'[ChunkOf[e]].text = rows'[ChunkOf[e]].vec
      BY <3>2, <3>3, ConstantsOK DEF Row
    <3>5. QED
      BY <2>3, <3>1, <3>3, <3>4 DEF Covered, VectorMatchesText
  <2>4. QED
    BY <2>2, <2>3
<1>6. CASE Requests
  <2>1. ASSUME NEW d \in Docs, DeleteDocument(d) PROVE Sound
    BY <1>4, <2>1 DEF DeleteDocument
  <2>2. ASSUME NEW c \in ChunkIds, DeleteChunk(c) PROVE Sound
    BY <1>4, <2>2 DEF DeleteChunk
  <2>3. CASE DeleteKb
    BY <1>4, <2>3 DEF DeleteKb
  <2>4. ASSUME NEW e \in Edits, EditBegins(e) PROVE Sound
    BY <1>1, <2>4 DEF EditBegins
  <2>5. QED
    BY <1>5, <1>6, <2>1, <2>2, <2>3, <2>4 DEF Requests
<1>7. ASSUME NEW j \in Jobs, JobSteps(j) \/ JobIsCancelled(j) \/ ProcessIsKilled(j)
      PROVE  Sound
  <2>1. \/ UNCHANGED <<rows, holes>>
        \/ Upsert(j)
        \/ UpsertFails(j)
    BY <1>7 DEF JobSteps, JobIsCancelled, ProcessIsKilled, Begin, Parses,
                FetchFails, ParserFails, Extracts, NothingToIndex, Embeds,
                EmbedderFails, Progresses, Completes, SliceAccepted,
                SliceFails, DeliverySteps, Moves, Fails
  <2>2. Upsert(j) => Current(j).version \in Versions
    BY DocFacts DEF Upsert, BatchEnds, Current, InDoc
  <2>3. QED
    BY <1>1, <1>2, <1>3, <2>1, <2>2
<1>8. CASE UNCHANGED vars
  BY <1>1, <1>8 DEF vars
<1>9. QED
  BY <1>6, <1>7, <1>8 DEF Next

(***************************************************************************)
(* Jobs                                                                    *)
(***************************************************************************)

\* Taking the first n elements off a list leaves the others.
LEMMA DropFirst ==
  ASSUME NEW S, NEW s \in Seq(S), NEW n \in Nat, n < Len(s)
  PROVE  /\ SubSeq(s, n + 1, Len(s)) \in Seq(S)
         /\ \A i \in n + 1..Len(s) : s[i] \in Range(SubSeq(s, n + 1, Len(s)))
<1> DEFINE t == SubSeq(s, n + 1, Len(s))
<1>1. Len(s) \in Nat
  OBVIOUS
<1>2. /\ t \in Seq(S)
      /\ Len(t) = Len(s) - n
      /\ \A i \in 1..Len(s) - n : t[i] = s[n + i]
  BY <1>1, SubSeqProperties
<1>3. DOMAIN t = 1..Len(s) - n
  BY <1>2
<1> HIDE DEF t
<1>4. ASSUME NEW i \in n + 1..Len(s) PROVE s[i] \in Range(t)
  <2>1. i - n \in DOMAIN t /\ t[i - n] = s[i]
    <3>1. i - n \in 1..Len(s) - n /\ n + (i - n) = i
      BY <1>1
    <3>2. QED
      BY <1>2, <1>3, <3>1
  <2>2. QED
    BY <2>1 DEF Range
<1>5. QED
  BY <1>2, <1>4 DEF t

\* What a step does to the list of extracted rows of a job: it stays, grows, or
\* loses its first slice.
LEMMA ListStep ==
  ASSUME JobInv, NEW j \in Jobs, JobSteps(j) \/ JobIsCancelled(j) \/ ProcessIsKilled(j)
  PROVE  /\ extracted' \in [Jobs -> Seq(Docs)]
         /\ \A q \in Jobs \ {j} : extracted'[q] = extracted[q]
         /\ \/ Range(extracted[j]) \subseteq Range(extracted'[j])
            \/ \A d \in Range(extracted[j]) \ Range(extracted'[j]) :
                 <<j, d>> \in received' \cup lost'
<1> USE DEF JobInv
<1>1. CASE UNCHANGED extracted
  BY <1>1
<1>2. ASSUME Collect(j), at[j] \in InDoc
      PROVE  /\ extracted' \in [Jobs -> Seq(Docs)]
             /\ \A q \in Jobs \ {j} : extracted'[q] = extracted[q]
             /\ Range(extracted[j]) \subseteq Range(extracted'[j])
  <2>1. Current(j).doc \in Docs
    BY <1>2, DocFacts DEF Current
  <2>2. /\ Append(extracted[j], Current(j).doc) \in Seq(Docs)
        /\ Range(extracted[j]) \subseteq Range(Append(extracted[j], Current(j).doc))
    <3>1. extracted[j] \in Seq(Docs)
      OBVIOUS
    <3>2. Append(extracted[j], Current(j).doc) \in Seq(Docs)
      BY <2>1, <3>1, AppendProperties
    <3>3. \A i \in DOMAIN extracted[j] :
            /\ i \in DOMAIN Append(extracted[j], Current(j).doc)
            /\ Append(extracted[j], Current(j).doc)[i] = extracted[j][i]
      BY <2>1, <3>1, AppendProperties
    <3>4. QED
      BY <3>2, <3>3 DEF Range
  <2>3. CASE read[j]
    <3>1. extracted' = [extracted EXCEPT ![j] = Append(@, Current(j).doc)]
      BY <1>2, <2>3 DEF Collect
    <3>2. QED
      BY <2>2, <3>1
  <2>4. CASE ~read[j]
    BY <1>2, <2>4 DEF Collect
  <2>5. QED
    BY <2>3, <2>4
<1>3. ASSUME NextSlice(j)
      PROVE  /\ extracted' \in [Jobs -> Seq(Docs)]
             /\ \A q \in Jobs \ {j} : extracted'[q] = extracted[q]
             /\ \A d \in Range(extracted[j]) \ Range(extracted'[j]) : <<j, d>> \in Slice(j)
  <2>1. RowBatch \in Nat /\ extracted[j] \in Seq(Docs) /\ Len(extracted[j]) \in Nat
        /\ DOMAIN extracted[j] = 1..Len(extracted[j])
    BY ConstantsOK
  <2>2. ASSUME NEW i \in DOMAIN extracted[j], i <= RowBatch
        PROVE  <<j, extracted[j][i]>> \in Slice(j)
    BY <2>2 DEF Slice
  <2>3. CASE Len(extracted[j]) <= RowBatch
    <3>1. extracted' = [extracted EXCEPT ![j] = <<>>]
      BY <1>3, <2>3 DEF NextSlice
    <3>2. \A i \in DOMAIN extracted[j] : i <= RowBatch
      BY <2>1, <2>3
    <3>3. <<>> \in Seq(Docs)
      OBVIOUS
    <3>4. /\ extracted' \in [Jobs -> Seq(Docs)]
          /\ \A q \in Jobs \ {j} : extracted'[q] = extracted[q]
      BY <3>1, <3>3
    <3>5. \A d \in Range(extracted[j]) : <<j, d>> \in Slice(j)
      BY <2>2, <3>2 DEF Range
    <3>6. QED
      BY <3>4, <3>5
  <2>4. CASE RowBatch < Len(extracted[j])
    <3> DEFINE rest == SubSeq(extracted[j], RowBatch + 1, Len(extracted[j]))
    <3>1. /\ rest \in Seq(Docs)
          /\ \A i \in RowBatch + 1..Len(extracted[j]) : extracted[j][i] \in Range(rest)
      BY <2>1, <2>4, DropFirst
    <3>2. extracted' = [extracted EXCEPT ![j] = rest]
      <4>1. ~(Len(extracted[j]) <= RowBatch)
        BY <2>1, <2>4
      <4>2. QED
        BY <1>3, <4>1 DEF NextSlice
    <3> HIDE DEF rest
    <3>3. /\ extracted' \in [Jobs -> Seq(Docs)]
          /\ extracted'[j] = rest
          /\ \A q \in Jobs \ {j} : extracted'[q] = extracted[q]
      BY <3>1, <3>2
    <3>4. \A i \in DOMAIN extracted[j] :
            i <= RowBatch \/ i \in RowBatch + 1..Len(extracted[j])
      BY <2>1
    <3>5. ASSUME NEW i \in DOMAIN extracted[j], extracted[j][i] \notin Range(rest)
          PROVE  <<j, extracted[j][i]>> \in Slice(j)
      BY <2>2, <3>1, <3>4, <3>5
    <3>6. \A d \in Range(extracted[j]) \ Range(rest) : <<j, d>> \in Slice(j)
      BY <3>5 DEF Range
    <3>7. QED
      BY <3>3, <3>6
  <2>5. QED
    BY <2>1, <2>3, <2>4
<1>4. CASE SliceAccepted(j) \/ SliceFails(j)
  <2>1. \/ UNCHANGED extracted
        \/ NextSlice(j) /\ Slice(j) \subseteq received' \cup lost'
    BY <1>4 DEF SliceAccepted, SliceFails, GivesUp, TriesAgain
  <2>2. QED
    BY <1>1, <1>3, <2>1
<1>5. CASE NothingToIndex(j) \/ Upsert(j) \/ UpsertFails(j)
           \/ ParserFails(j) \/ EmbedderFails(j)
  <2>1. at[j] \in InDoc
    BY <1>5 DEF NothingToIndex, Upsert, UpsertFails, BatchEnds, ParserFails,
                EmbedderFails, InDoc
  <2>2. Collect(j) \/ UNCHANGED extracted
    BY <1>5 DEF NothingToIndex, Upsert, UpsertFails, BatchEnds, ParserFails,
                EmbedderFails, Succeeds, Fails
  <2>3. QED
    BY <1>1, <1>2, <2>1, <2>2
<1>6. CASE \/ Begin(j) \/ Parses(j) \/ FetchFails(j) \/ Extracts(j)
           \/ Embeds(j) \/ Progresses(j) \/ Completes(j)
           \/ JobIsCancelled(j) \/ ProcessIsKilled(j)
  BY <1>1, <1>6 DEF Begin, Parses, FetchFails, Extracts, Embeds, Progresses,
                    Completes, JobIsCancelled, ProcessIsKilled, Moves
<1>7. QED
  BY <1>4, <1>5, <1>6 DEF JobSteps

\* The ways a step of a job moves its place and its counters; the other jobs keep
\* theirs, and what is missing changes only for the document it is at.
Walks(j) ==
  /\ UNCHANGED <<pos, next, missing, processed, failed, counted>>
  /\ \E w \in Where \ {"idle", "index", "progress"} :
       /\ at' = [at EXCEPT ![j] = w]
       /\ w \in Unstored => at[j] \in Unstored
       /\ w \in InDoc => at[j] \in InDoc \/ (at[j] = "idle" /\ DocsOf[j] # <<>>)

Stores(j) ==
  /\ UNCHANGED <<pos, missing, failed>>
  /\ \/ /\ UNCHANGED <<at, processed, counted>>
        /\ next[j] + BatchSize < Size(j)
     \/ /\ at' = [at EXCEPT ![j] = "progress"]
        /\ processed' = [processed EXCEPT ![j] = @ + 1]
        /\ counted' = counted \cup {<<j, pos[j]>>}
        /\ Size(j) <= next[j] + BatchSize
  /\ at[j] = "index"
  /\ next' = [next EXCEPT ![j] = @ + BatchSize]
  /\ Batch(j) \subseteq Covered'

Skips(j) ==
  /\ at[j] = "chunk" /\ Size(j) = 0
  /\ UNCHANGED <<pos, next, missing, failed>>
  /\ at' = [at EXCEPT ![j] = "progress"]
  /\ processed' = [processed EXCEPT ![j] = @ + 1]
  /\ counted' = counted \cup {<<j, pos[j]>>}

GivesUpDocument(j) ==
  /\ at[j] \in {"visit", "chunk"}
  /\ UNCHANGED <<pos, next, missing, processed, counted>>
  /\ at' = [at EXCEPT ![j] = "progress"]
  /\ failed' = [failed EXCEPT ![j] = @ + 1]

LEMMA BatchCovered ==
  ASSUME JobInv, NEW j \in Jobs, Upsert(j) \/ UpsertFails(j)
  PROVE  Batch(j) \subseteq Covered'
<1>1. at[j] = "index" /\ pos[j] \in Nat \ {0} /\ pos[j] <= Len(DocsOf[j])
  BY DEF Upsert, UpsertFails, BatchEnds, JobInv, InDoc
<1>2. /\ Size(j) \in 0..MaxChunks
      /\ \A i \in 0..Size(j) - 1 : <<Current(j).doc, i>> \in ChunkIds
  BY <1>1, DocFacts DEF Size, Current
<1>3. next[j] \in Nat /\ MaxChunks \in Nat
  BY ConstantsOK DEF JobInv
<1>4. Batch(j) \subseteq ChunkIds
  <2>1. ASSUME NEW i \in next[j]..next[j] + BatchSize - 1, i < Size(j)
        PROVE  i \in 0..Size(j) - 1
    BY <1>2, <1>3, <2>1
  <2>2. QED
    BY <1>2, <2>1 DEF Batch
<1>5. CASE Upsert(j)
  <2>1. [text |-> Current(j).version, vec |-> Current(j).version] # NoRow
    <3>1. Current(j).version \in Texts
      BY <1>1, DocFacts DEF Current, Texts
    <3>2. QED
      BY <3>1, ConstantsOK
  <2>2. \A c \in Batch(j) : rows'[c] # NoRow
    BY <1>4, <1>5, <2>1 DEF Upsert
  <2>3. QED
    BY <1>4, <2>2 DEF Covered
<1>6. CASE UpsertFails(j)
  BY <1>4, <1>6 DEF UpsertFails, Covered
<1>7. QED
  BY <1>5, <1>6

LEMMA JobWay ==
  ASSUME JobInv, NEW j \in Jobs, JobSteps(j) \/ JobIsCancelled(j) \/ ProcessIsKilled(j)
  PROVE  \/ Walks(j) \/ Stores(j) \/ Skips(j) \/ GivesUpDocument(j)
         \/ FetchFails(j) \/ Embeds(j) \/ Progresses(j)
<1>1. at \in [Jobs -> Where]
  BY DEF JobInv
<1>2. ASSUME NEW w \in Where \ {"idle", "index", "progress"}, Moves(j, w),
             w \in Unstored => at[j] \in Unstored,
             w \in InDoc => at[j] \in InDoc \/ (at[j] = "idle" /\ DocsOf[j] # <<>>)
      PROVE  Walks(j)
  BY <1>2 DEF Moves, GoTo, Walks, countVars
<1>3. CASE Begin(j)
  <2>1. CASE DocsOf[j] = <<>>
    <3>1. Moves(j, "deliver")
      BY <1>3, <2>1 DEF Begin
    <3>2. QED
      BY <1>2, <3>1 DEF Where, Unstored, InDoc
  <2>2. CASE DocsOf[j] # <<>>
    <3>1. Moves(j, "visit") /\ at[j] = "idle"
      BY <1>3, <2>2 DEF Begin
    <3>2. QED
      BY <1>2, <2>2, <3>1 DEF Where, Unstored, InDoc
  <2>3. QED
    BY <2>1, <2>2
<1>4. CASE Parses(j)
  <2>1. at[j] \in Unstored /\ at[j] \in InDoc
    BY <1>4 DEF Parses, Unstored, InDoc
  <2>2. {"extract", "chunk"} \subseteq Where \ {"idle", "index", "progress"}
    BY DEF Where
  <2>3. PICK w \in {"extract", "chunk"} : Moves(j, w)
    BY <1>4 DEF Parses, Parsed
  <2>4. QED
    BY <1>2, <2>1, <2>2, <2>3
<1>5. CASE Completes(j)
  BY <1>2, <1>5 DEF Completes, Where, Ended, Unstored, InDoc
<1>6. CASE JobIsCancelled(j) \/ ProcessIsKilled(j)
  BY <1>2, <1>6 DEF JobIsCancelled, ProcessIsKilled, Where, Ended, Unstored, InDoc
<1>7. CASE Extracts(j)
  <2>1. /\ at[j] = "extract" /\ at' = [at EXCEPT ![j] = "chunk"]
        /\ UNCHANGED <<pos, next, missing, processed, failed, counted>>
    BY <1>7 DEF Extracts, GoTo, countVars
  <2>2. "chunk" \in Where \ {"idle", "index", "progress"}
    BY DEF Where
  <2>3. at[j] \in Unstored /\ at[j] \in InDoc
    BY <2>1 DEF Unstored, InDoc
  <2>4. QED
    BY <2>1, <2>2, <2>3 DEF Walks
<1>8. CASE SliceAccepted(j) \/ SliceFails(j)
  <2>1. /\ at[j] = "deliver"
        /\ UNCHANGED <<at, pos, next, missing, processed, failed, counted>>
    BY <1>8 DEF SliceAccepted, SliceFails, DeliverySteps, countVars
  <2>2. at' = [at EXCEPT ![j] = "deliver"]
    BY <1>1, <2>1
  <2>3. QED
    <3>1. "deliver" \in Where \ {"idle", "index", "progress"}
      BY DEF Where
    <3>2. QED
      BY <2>1, <2>2, <3>1 DEF Walks, Unstored, InDoc
<1>9. CASE ParserFails(j) \/ EmbedderFails(j)
  BY <1>9 DEF ParserFails, EmbedderFails, Fails, GoTo, GivesUpDocument
<1>10. CASE NothingToIndex(j)
  BY <1>10 DEF NothingToIndex, Succeeds, GoTo, Skips
<1>11. CASE Upsert(j) \/ UpsertFails(j)
  <2>1. BatchEnds(j) /\ Batch(j) \subseteq Covered'
    BY <1>11, BatchCovered DEF Upsert, UpsertFails
  <2>2. Size(j) \in Int /\ next[j] \in Int /\ BatchSize \in Int
    <3>1. pos[j] \in Nat \ {0} /\ pos[j] <= Len(DocsOf[j])
      BY <2>1 DEF BatchEnds, JobInv, InDoc
    <3>2. QED
      BY <3>1, DocFacts, ConstantsOK DEF Size, JobInv
  <2>3. CASE next[j] + BatchSize >= Size(j)
    BY <2>1, <2>2, <2>3 DEF BatchEnds, Succeeds, GoTo, Stores
  <2>4. CASE ~(next[j] + BatchSize >= Size(j))
    BY <2>1, <2>2, <2>4 DEF BatchEnds, countVars, Stores
  <2>5. QED
    BY <2>3, <2>4
<1>12. QED
  BY <1>3, <1>4, <1>5, <1>6, <1>7, <1>8, <1>9, <1>10, <1>11 DEF JobSteps

LEMMA JobInit == ASSUME Init PROVE JobInv
<1>1. rows \in [ChunkIds -> Row \cup {NoRow}] /\ at \in [Jobs -> Where]
  BY DEF Init, Where
<1>2. extracted \in [Jobs -> Seq(Docs)]
  <2>1. <<>> \in Seq(Docs)
    OBVIOUS
  <2>2. QED
    BY <2>1 DEF Init
<1>3. \A j \in Jobs : pos[j] = 1 /\ at[j] \notin InDoc
  BY DEF Init, InDoc
<1>4. QED
  BY <1>1, <1>2, <1>3 DEF Init, JobInv

LEMMA JobStep == ASSUME JobInv, [Next]_vars PROVE JobInv'
<1> DEFINE Place ==
      /\ at \in [Jobs -> Where]
      /\ pos \in [Jobs -> Nat \ {0}]
      /\ next \in [Jobs -> Nat]
      /\ processed \in [Jobs -> Nat]
      /\ failed \in [Jobs -> Nat]
      /\ \A j \in Jobs : /\ at[j] = "idle" => pos[j] = 1
                         /\ at[j] \in InDoc => pos[j] <= Len(DocsOf[j])
<1>1. Place
  BY DEF JobInv
<1>2. ASSUME UNCHANGED <<at, pos, next, processed, failed>> PROVE Place'
  BY <1>1, <1>2
<1>3. ASSUME NEW j \in Jobs, JobSteps(j) \/ JobIsCancelled(j) \/ ProcessIsKilled(j)
      PROVE  Place'
  <2>1. DocsOf[j] # <<>> => 1 <= Len(DocsOf[j])
    <3>1. DocsOf[j] \in Seq([doc : Docs, version : Versions])
      BY ConstantsOK
    <3>2. QED
      BY <3>1, EmptySeq
  <2>2. /\ BatchSize \in Nat
        /\ {"index", "progress", "visit", "deliver", "extract", "chunk"} \subseteq Where
    BY ConstantsOK DEF Where
  <2>3. ASSUME NEW w \in Where, at' = [at EXCEPT ![j] = w],
               w # "idle", w \in InDoc => pos'[j] <= Len(DocsOf[j]),
               pos' \in [Jobs -> Nat \ {0}], next' \in [Jobs -> Nat],
               processed' \in [Jobs -> Nat], failed' \in [Jobs -> Nat],
               \A q \in Jobs \ {j} : pos'[q] = pos[q]
        PROVE  Place'
    <3>1. at' \in [Jobs -> Where] /\ at'[j] = w
      BY <1>1, <2>3
    <3>2. \A q \in Jobs \ {j} : at'[q] = at[q]
      BY <1>1, <2>3
    <3>3. QED
      BY <1>1, <2>3, <3>1, <3>2
  <2>4. CASE Walks(j)
    BY <1>1, <2>1, <2>3, <2>4 DEF Walks
  <2>5. CASE Stores(j)
    <3>1. UNCHANGED <<pos, failed>> /\ at[j] = "index" /\ next' \in [Jobs -> Nat]
      BY <1>1, <2>2, <2>5 DEF Stores
    <3>2. CASE UNCHANGED <<at, processed>>
      BY <1>1, <3>1, <3>2
    <3>3. CASE /\ at' = [at EXCEPT ![j] = "progress"]
               /\ processed' = [processed EXCEPT ![j] = @ + 1]
      BY <1>1, <2>2, <2>3, <3>1, <3>3 DEF InDoc
    <3>4. QED
      BY <2>5, <3>2, <3>3 DEF Stores
  <2>6. CASE Skips(j)
    BY <1>1, <2>2, <2>3, <2>6 DEF Skips, InDoc
  <2>7. CASE GivesUpDocument(j)
    BY <1>1, <2>2, <2>3, <2>7 DEF GivesUpDocument, InDoc
  <2>8. CASE FetchFails(j)
    <3>1. /\ at[j] \in InDoc
          /\ UNCHANGED <<pos, next, processed, failed>>
          /\ \E w \in {"extract", "chunk"} : at' = [at EXCEPT ![j] = w]
      BY <2>8 DEF FetchFails, GoTo, Parsed, countVars, InDoc
    <3>2. QED
      BY <1>1, <2>2, <2>3, <3>1
  <2>9. CASE Embeds(j)
    <3>1. /\ at[j] \in InDoc
          /\ UNCHANGED <<pos, processed, failed>>
          /\ next' = [next EXCEPT ![j] = 0]
          /\ at' = [at EXCEPT ![j] = "index"]
      BY <2>9 DEF Embeds, GoTo, countVars, InDoc
    <3>2. QED
      BY <1>1, <2>2, <2>3, <3>1
  <2>10. CASE Progresses(j)
    <3>1. /\ UNCHANGED <<next, processed, failed>>
          /\ pos' = [pos EXCEPT ![j] = @ + 1]
          /\ at' = [at EXCEPT ![j] = IF pos[j] < Len(DocsOf[j]) THEN "visit" ELSE "deliver"]
      BY <2>10 DEF Progresses, GoTo, countVars
    <3>2. /\ pos' \in [Jobs -> Nat \ {0}]
          /\ pos'[j] = pos[j] + 1
          /\ \A q \in Jobs \ {j} : pos'[q] = pos[q]
      BY <1>1, <3>1
    <3>3. Len(DocsOf[j]) \in Nat /\ pos[j] \in Nat
      BY <1>1, ConstantsOK
    <3>4. CASE pos[j] < Len(DocsOf[j])
      <4>1. at' = [at EXCEPT ![j] = "visit"] /\ pos'[j] <= Len(DocsOf[j])
        BY <3>1, <3>2, <3>3, <3>4
      <4>2. QED
        BY <1>1, <2>2, <2>3, <3>1, <3>2, <4>1
    <3>5. CASE ~(pos[j] < Len(DocsOf[j]))
      <4>1. at' = [at EXCEPT ![j] = "deliver"] /\ "deliver" \notin InDoc
        BY <3>1, <3>5 DEF InDoc
      <4>2. QED
        BY <1>1, <2>2, <2>3, <3>1, <3>2, <4>1
    <3>6. QED
      BY <3>4, <3>5
  <2>11. QED
    BY <1>3, <2>4, <2>5, <2>6, <2>7, <2>8, <2>9, <2>10, JobWay
<1>4. ASSUME Requests PROVE Place'
  <2>1. UNCHANGED jobVars
    BY <1>4 DEF Requests, DeleteDocument, DeleteChunk, DeleteKb, RemoveRows,
                EditBegins, EditWrites
  <2>2. QED
    BY <1>2, <2>1 DEF jobVars, countVars
<1>5. ASSUME UNCHANGED vars PROVE Place'
  BY <1>2, <1>5 DEF vars, jobVars, countVars
<1>6. Place'
  BY <1>3, <1>4, <1>5 DEF Next
<1>7. extracted' \in [Jobs -> Seq(Docs)]
  <2>1. ASSUME NEW j \in Jobs, JobSteps(j) \/ JobIsCancelled(j) \/ ProcessIsKilled(j)
        PROVE  extracted' \in [Jobs -> Seq(Docs)]
    BY <2>1, ListStep
  <2>2. CASE Requests \/ UNCHANGED vars
    BY <2>2 DEF JobInv, Requests, DeleteDocument, DeleteChunk, DeleteKb, RemoveRows,
                EditBegins, EditWrites, vars, jobVars
  <2>3. QED
    BY <2>1, <2>2 DEF Next
<1>8. rows' \in [ChunkIds -> Row \cup {NoRow}]
  BY RowsStep
<1>9. QED
  BY <1>6, <1>7, <1>8 DEF JobInv

\* The documents a job counts stay stored, whatever it and the others do.
LEMMA CountedStored ==
  ASSUME JobInv, [Next]_vars, NEW j \in Jobs, StoredOf(j),
         NEW k \in Nat, <<j, k>> \in counted,
         <<j, k>> \in missing' <=> <<j, k>> \in missing
  PROVE  \A i \in 0..Count(j, k)' - 1 : <<DocsOf[j][k].doc, i>> \in Covered'
<1>1. Covered \subseteq Covered'
  BY RowsStep
<1>2. Count(j, k)' = Count(j, k)
  BY DEF Count
<1>3. QED
  BY <1>1, <1>2 DEF StoredOf

\* A job that does not move keeps what it has stored, whatever the others do.
LEMMA StillStored ==
  ASSUME JobInv, [Next]_vars, NEW j \in Jobs, StoredOf(j),
         at'[j] = at[j], pos'[j] = pos[j], next'[j] = next[j],
         \A k \in Nat : <<j, k>> \in counted' <=> <<j, k>> \in counted,
         \A k \in Nat : <<j, k>> \in missing' <=> <<j, k>> \in missing
  PROVE  StoredOf(j)'
<1>1. Covered \subseteq Covered'
  BY RowsStep
<1>2. pos[j] \in Nat
  BY DEF JobInv
<1>3. ASSUME NEW k \in Nat, <<j, k>> \in counted'
      PROVE  /\ k \in 1..pos'[j]
             /\ at'[j] \in Unstored => k # pos'[j]
             /\ \A i \in 0..Count(j, k)' - 1 : <<DocsOf[j][k].doc, i>> \in Covered'
  <2>1. \A i \in 0..Count(j, k)' - 1 : <<DocsOf[j][k].doc, i>> \in Covered'
    BY <1>3, CountedStored
  <2>2. QED
    BY <1>3, <2>1 DEF StoredOf
<1>4. Size(j)' = Size(j) /\ Current(j)' = Current(j)
  BY <1>2 DEF Size, Current, Count
<1>5. at[j] = "index" => \A i \in 0..Size(j)' - 1 :
        i < next[j] => <<Current(j)'.doc, i>> \in Covered'
  BY <1>1, <1>4 DEF StoredOf
<1>6. QED
  BY <1>3, <1>5 DEF StoredOf

\* A job that moves has stored what it then counts.
LEMMA NewlyStored ==
  ASSUME JobInv, [Next]_vars, NEW j \in Jobs, StoredOf(j),
         JobSteps(j) \/ JobIsCancelled(j) \/ ProcessIsKilled(j)
  PROVE  StoredOf(j)'
<1> DEFINE Kept(k) == \A i \in 0..Count(j, k)' - 1 : <<DocsOf[j][k].doc, i>> \in Covered'
<1>1. /\ at \in [Jobs -> Where] /\ pos \in [Jobs -> Nat \ {0}]
      /\ next \in [Jobs -> Nat]
      /\ at[j] \in InDoc => pos[j] <= Len(DocsOf[j])
      /\ Len(DocsOf[j]) \in Nat /\ BatchSize \in Nat
  BY ConstantsOK DEF JobInv
<1>2. \A k \in Nat : <<j, k>> \in counted => k \in 1..pos[j] /\ (at[j] \in Unstored => k # pos[j])
  BY DEF StoredOf
<1>3. UNCHANGED missing => \A k \in Nat : <<j, k>> \in counted => Kept(k)
  <2> HIDE DEF Kept
  <2>1. ASSUME UNCHANGED missing, NEW k \in Nat, <<j, k>> \in counted PROVE Kept(k)
    BY <2>1, CountedStored DEF Kept
  <2>2. QED
    BY <2>1
\* the document at hand joins the counted ones.
<1>4. ASSUME at[j] \in Unstored, at'[j] = "progress", UNCHANGED <<pos, missing>>,
             counted' = counted \cup {<<j, pos[j]>>}, Kept(pos[j])
      PROVE  StoredOf(j)'
  <2>1. ASSUME NEW k \in Nat, <<j, k>> \in counted'
        PROVE  k \in 1..pos[j] /\ Kept(k)
    <3>1. CASE k = pos[j]
      BY <1>1, <1>4, <3>1
    <3>2. CASE k # pos[j]
      <4>1. <<j, k>> \in counted
        BY <1>4, <2>1, <3>2
      <4>2. QED
        BY <1>2, <1>3, <1>4, <4>1
    <3>3. QED
      BY <3>1, <3>2
  <2>2. QED
    BY <1>4, <2>1 DEF StoredOf, Unstored
\* nothing is counted, and the job is not in a batch.
<1>5. ASSUME at'[j] # "index", UNCHANGED <<pos, counted>>,
             at'[j] \in Unstored => at[j] \in Unstored,
             \A k \in Nat : <<j, k>> \in counted => Kept(k)
      PROVE  StoredOf(j)'
  BY <1>2, <1>5 DEF StoredOf
<1>6. CASE Walks(j)
  BY <1>1, <1>3, <1>5, <1>6 DEF Walks
<1>7. CASE Skips(j)
  <2>1. /\ at[j] = "chunk" /\ at'[j] = "progress" /\ Size(j) = 0
        /\ UNCHANGED <<pos, missing>> /\ counted' = counted \cup {<<j, pos[j]>>}
    BY <1>1, <1>7 DEF Skips
  <2>2. Count(j, pos[j])' = 0
    BY <2>1 DEF Size, Count
  <2>3. QED
    BY <1>4, <2>1, <2>2 DEF Unstored
<1>8. CASE GivesUpDocument(j)
  <2>1. at'[j] = "progress" /\ UNCHANGED <<pos, missing, counted>>
    BY <1>1, <1>8 DEF GivesUpDocument
  <2>2. QED
    BY <1>3, <1>5, <2>1 DEF Unstored
<1>9. CASE FetchFails(j)
  <2>1. /\ at[j] = "visit" /\ missing' = missing \cup {<<j, pos[j]>>}
        /\ UNCHANGED <<pos, counted>>
        /\ at'[j] \in {"extract", "chunk"}
    BY <1>1, <1>9 DEF FetchFails, GoTo, Parsed, countVars
  <2>2. ASSUME NEW k \in Nat, <<j, k>> \in counted PROVE Kept(k)
    <3>1. k # pos[j]
      BY <1>2, <2>1, <2>2 DEF Unstored
    <3>2. <<j, k>> \in missing' <=> <<j, k>> \in missing
      BY <2>1, <3>1
    <3>3. QED
      BY <2>2, <3>2, CountedStored
  <2>3. QED
    BY <1>5, <2>1, <2>2 DEF Unstored
<1>10. CASE Embeds(j)
  <2>1. /\ at[j] = "chunk" /\ at'[j] = "index" /\ next'[j] = 0
        /\ UNCHANGED <<pos, missing, counted>>
    BY <1>1, <1>10 DEF Embeds, GoTo, countVars
  <2>2. \A k \in Nat : <<j, k>> \in counted => Kept(k)
    BY <1>3, <2>1
  <2>3. Size(j)' = Size(j) /\ Current(j)' = Current(j)
    BY <2>1 DEF Size, Count, Current
  <2>4. \A i \in 0..Size(j)' - 1 : ~(i < next'[j])
    BY <2>1
  <2>5. QED
    BY <1>2, <2>1, <2>2, <2>4 DEF StoredOf, Unstored
<1>11. CASE Progresses(j)
  <2>1. /\ at[j] = "progress" /\ at'[j] \in {"visit", "deliver"}
        /\ pos'[j] = pos[j] + 1
        /\ UNCHANGED <<missing, counted>>
    BY <1>1, <1>11 DEF Progresses, GoTo, countVars
  <2>2. \A k \in Nat : k \in 1..pos[j] => k \in 1..pos'[j] /\ k # pos'[j]
    BY <1>1, <2>1
  <2>3. \A k \in Nat : <<j, k>> \in counted =>
          k \in 1..pos'[j] /\ k # pos'[j] /\ Kept(k)
    BY <1>2, <1>3, <2>1, <2>2
  <2>4. QED
    BY <2>1, <2>3 DEF StoredOf
<1>12. CASE Stores(j)
  <2>1. /\ at[j] = "index" /\ UNCHANGED <<pos, missing>>
        /\ next'[j] = next[j] + BatchSize
        /\ Batch(j) \subseteq Covered'
    BY <1>1, <1>12 DEF Stores
  <2>2. pos[j] \in Nat \ {0} /\ pos[j] <= Len(DocsOf[j])
    BY <1>1, <2>1 DEF InDoc
  <2>3. Size(j) \in Nat /\ MaxChunks \in Nat
    BY <1>1, <2>2, DocFacts, ConstantsOK DEF Size
  <2>4. ASSUME NEW i \in 0..Size(j) - 1, i < next[j] + BatchSize
        PROVE  <<Current(j).doc, i>> \in Covered'
    <3>1. CASE i < next[j]
      <4>1. <<Current(j).doc, i>> \in Covered
        BY <2>1, <3>1 DEF StoredOf
      <4>2. QED
        BY <4>1, RowsStep
    <3>2. CASE ~(i < next[j])
      <4>1. i \in next[j]..next[j] + BatchSize - 1 /\ i < Size(j)
        BY <1>1, <2>3, <2>4, <3>2
      <4>2. <<Current(j).doc, i>> \in Batch(j)
        BY <4>1 DEF Batch
      <4>3. QED
        BY <2>1, <4>2
    <3>3. QED
      BY <3>1, <3>2
  <2>5. Size(j)' = Size(j) /\ Current(j)' = Current(j)
    BY <2>1 DEF Size, Count, Current
  <2>6. CASE UNCHANGED <<at, counted>>
    <3>1. \A i \in 0..Size(j)' - 1 : i < next'[j] => <<Current(j)'.doc, i>> \in Covered'
      BY <2>1, <2>4, <2>5
    <3>2. \A k \in Nat : <<j, k>> \in counted => Kept(k)
      BY <1>3, <2>1
    <3>3. QED
      BY <1>2, <2>1, <2>6, <3>1, <3>2 DEF StoredOf
  <2>7. CASE /\ at' = [at EXCEPT ![j] = "progress"]
             /\ counted' = counted \cup {<<j, pos[j]>>}
             /\ Size(j) <= next[j] + BatchSize
    <3>1. at'[j] = "progress"
      BY <1>1, <2>7
    <3>2. \A i \in 0..Size(j) - 1 : <<Current(j).doc, i>> \in Covered'
      BY <1>1, <2>3, <2>4, <2>7
    <3>3. Kept(pos[j])
      BY <2>1, <3>2 DEF Size, Count, Current
    <3>4. QED
      BY <1>4, <2>1, <2>7, <3>1, <3>3 DEF Unstored
  <2>8. QED
    BY <1>12, <2>6, <2>7 DEF Stores
<1>13. QED
  BY <1>6, <1>7, <1>8, <1>9, <1>10, <1>11, <1>12, JobWay

LEMMA OthersStay ==
  ASSUME JobInv, NEW j \in Jobs, JobSteps(j) \/ JobIsCancelled(j) \/ ProcessIsKilled(j)
  PROVE  \A q \in Jobs \ {j} :
           /\ at'[q] = at[q] /\ pos'[q] = pos[q] /\ next'[q] = next[q]
           /\ \A k \in Nat : <<q, k>> \in counted' <=> <<q, k>> \in counted
           /\ \A k \in Nat : <<q, k>> \in missing' <=> <<q, k>> \in missing
<1>1. /\ at \in [Jobs -> Where] /\ pos \in [Jobs -> Nat \ {0}]
      /\ next \in [Jobs -> Nat]
  BY DEF JobInv
<1>2. CASE Walks(j)
  BY <1>1, <1>2 DEF Walks
<1>3. CASE Stores(j)
  <2>1. /\ UNCHANGED <<pos, missing>> /\ next' = [next EXCEPT ![j] = @ + BatchSize]
        /\ \A q \in Jobs \ {j} : at'[q] = at[q]
    BY <1>1, <1>3 DEF Stores
  <2>2. counted' = counted \/ counted' = counted \cup {<<j, pos[j]>>}
    BY <1>3 DEF Stores
  <2>3. QED
    BY <1>1, <2>1, <2>2
<1>4. CASE Skips(j)
  BY <1>1, <1>4 DEF Skips
<1>5. CASE GivesUpDocument(j)
  BY <1>1, <1>5 DEF GivesUpDocument
<1>6. CASE FetchFails(j)
  <2>1. /\ UNCHANGED <<pos, next, counted>>
        /\ missing' = missing \cup {<<j, pos[j]>>}
        /\ \A q \in Jobs \ {j} : at'[q] = at[q]
    BY <1>1, <1>6 DEF FetchFails, GoTo, countVars
  <2>2. QED
    BY <2>1
<1>7. CASE Embeds(j)
  BY <1>1, <1>7 DEF Embeds, GoTo, countVars
<1>8. CASE Progresses(j)
  BY <1>1, <1>8 DEF Progresses, GoTo, countVars
<1>9. QED
  BY <1>2, <1>3, <1>4, <1>5, <1>6, <1>7, <1>8, JobWay

LEMMA StoredInit == ASSUME Init PROVE StoredInv
BY DEF Init, StoredInv, StoredOf

LEMMA StoredStep == ASSUME JobInv, StoredInv, [Next]_vars PROVE StoredInv'
<1> SUFFICES ASSUME NEW q \in Jobs PROVE StoredOf(q)'
  BY DEF StoredInv
<1>0. StoredOf(q)
  BY DEF StoredInv
<1>1. CASE UNCHANGED jobVars
  <2>1. UNCHANGED <<at, pos, next, counted, missing>>
    BY <1>1 DEF jobVars, countVars
  <2>2. QED
    BY <1>0, <2>1, StillStored
<1>2. CASE \E j \in Jobs : JobSteps(j) \/ JobIsCancelled(j) \/ ProcessIsKilled(j)
  <2>1. CASE JobSteps(q) \/ JobIsCancelled(q) \/ ProcessIsKilled(q)
    BY <1>0, <2>1, NewlyStored
  <2>2. CASE ~(JobSteps(q) \/ JobIsCancelled(q) \/ ProcessIsKilled(q))
    <3>1. PICK j \in Jobs \ {q} : JobSteps(j) \/ JobIsCancelled(j) \/ ProcessIsKilled(j)
      BY <1>2, <2>2
    <3>2. /\ at'[q] = at[q] /\ pos'[q] = pos[q] /\ next'[q] = next[q]
          /\ \A k \in Nat : <<q, k>> \in counted' <=> <<q, k>> \in counted
          /\ \A k \in Nat : <<q, k>> \in missing' <=> <<q, k>> \in missing
      BY <3>1, OthersStay
    <3>3. QED
      BY <1>0, <3>2, StillStored
  <2>3. QED
    BY <2>1, <2>2
<1>3. CASE Requests
  <2>1. UNCHANGED jobVars
    BY <1>3 DEF Requests, DeleteDocument, DeleteChunk, DeleteKb, RemoveRows,
                EditBegins, EditWrites
  <2>2. QED
    BY <1>1, <2>1
<1>4. CASE UNCHANGED vars
  BY <1>1, <1>4 DEF vars
<1>5. QED
  BY <1>2, <1>3, <1>4 DEF Next

(***************************************************************************)
(* The number of chunks                                                    *)
(***************************************************************************)

\* The chunks made of the documents the job counts as processed, those of
\* batches that failed among them.
Made(j) == {c \in (1..Len(DocsOf[j])) \X (0..MaxChunks - 1) :
              <<j, c[1]>> \in counted /\ c[2] < Count(j, c[1])}

\* chunks_created is their number.
CreatedInv ==
  /\ created \in [Jobs -> Nat]
  /\ \A j \in Jobs : created[j] = Cardinality(Made(j))

\* A set of pairs grows by the n pairs with a new first component.
LEMMA PairsAdded ==
  ASSUME NEW S, IsFiniteSet(S), NEW k, NEW n \in Nat, \A c \in S : c[1] # k
  PROVE  LET T == S \cup ({k} \X (0..n - 1))
         IN  Cardinality(T) = Cardinality(S) + n
<1> DEFINE Pairs == {k} \X (0..n - 1)
           Pair == [i \in 0..n - 1 |-> <<k, i>>]
<1>1. IsFiniteSet(0..n - 1) /\ Cardinality(0..n - 1) = n
  BY FS_Interval
<1>2. Pair \in Bijection(0..n - 1, Pairs)
  <2>1. Pair \in [0..n - 1 -> Pairs]
    OBVIOUS
  <2>2. \A a, b \in 0..n - 1 : Pair[a] = Pair[b] => a = b
    OBVIOUS
  <2>3. \A c \in Pairs : \E i \in 0..n - 1 : Pair[i] = c
    OBVIOUS
  <2> HIDE DEF Pair
  <2>4. QED
    BY <2>1, <2>2, <2>3 DEF Bijection, Injection, Surjection, IsInjective
<1>3. IsFiniteSet(Pairs) /\ Cardinality(Pairs) = n
  <2>1. ExistsBijection(0..n - 1, Pairs)
    BY <1>2 DEF ExistsBijection
  <2>2. QED
    BY <1>1, <2>1, FS_Bijection
<1>4. S \cap Pairs = {}
  <2>1. \A c \in Pairs : c[1] = k
    OBVIOUS
  <2>2. QED
    BY <2>1
<1>5. Cardinality(S) \in Nat /\ Cardinality(S \cap Pairs) = 0
  BY <1>4, FS_CardinalityType, FS_EmptySet
<1>6. Cardinality(S \cup Pairs) = Cardinality(S) + n - 0
  <2> HIDE DEF Pairs
  <2>1. QED
    BY <1>3, <1>5, FS_Union
<1>7. QED
  BY <1>5, <1>6

LEMMA MadeFinite ==
  ASSUME NEW j \in Jobs
  PROVE  IsFiniteSet(Made(j))
<1>1. Len(DocsOf[j]) \in Nat /\ MaxChunks \in Nat
  BY ConstantsOK
<1>2. IsFiniteSet(1..Len(DocsOf[j])) /\ IsFiniteSet(0..MaxChunks - 1)
  BY <1>1, FS_Interval
<1>3. IsFiniteSet((1..Len(DocsOf[j])) \X (0..MaxChunks - 1))
  BY <1>2, FS_Product
<1>4. QED
  BY <1>3, FS_Subset DEF Made

\* What a step of a job adds to the counters: nothing, or the document it is at.
LEMMA CountersWay ==
  ASSUME JobInv, NEW j \in Jobs,
         JobSteps(j) \/ JobIsCancelled(j) \/ ProcessIsKilled(j)
  PROVE  \/ UNCHANGED <<created, counted>>
         \/ /\ at[j] \in {"chunk", "index"}
            /\ UNCHANGED missing
            /\ counted' = counted \cup {<<j, pos[j]>>}
            /\ created' = [created EXCEPT ![j] = @ + Size(j)]
<1>1. CASE NothingToIndex(j)
  BY <1>1 DEF NothingToIndex, Succeeds
<1>2. CASE Upsert(j) \/ UpsertFails(j)
  BY <1>2 DEF Upsert, UpsertFails, BatchEnds, Succeeds, countVars
<1>3. CASE Fails(j)
  BY <1>3 DEF Fails
<1>4. CASE FetchFails(j) \/ Extracts(j) \/ Embeds(j) \/ Progresses(j)
  BY <1>4 DEF FetchFails, Extracts, Embeds, Progresses, countVars
<1>5. CASE SliceAccepted(j) \/ SliceFails(j)
  BY <1>5 DEF SliceAccepted, SliceFails, DeliverySteps, countVars
<1>6. CASE \/ Begin(j) \/ Parses(j) \/ Completes(j)
           \/ JobIsCancelled(j) \/ ProcessIsKilled(j)
  BY <1>6 DEF Begin, Parses, Completes, JobIsCancelled, ProcessIsKilled, Moves,
              countVars
<1>7. QED
  BY <1>1, <1>2, <1>3, <1>4, <1>5, <1>6 DEF JobSteps, ParserFails, EmbedderFails

\* The chunks of the document at hand join those of the ones before.
LEMMA MadeGrows ==
  ASSUME JobInv, NEW j \in Jobs, StoredOf(j), at[j] \in {"chunk", "index"},
         UNCHANGED missing, counted' = counted \cup {<<j, pos[j]>>}
  PROVE  /\ Cardinality(Made(j)') = Cardinality(Made(j)) + Size(j)
         /\ \A q \in Jobs \ {j} : Made(q)' = Made(q)
<1>1. /\ pos[j] \in Nat \ {0} /\ pos[j] <= Len(DocsOf[j])
      /\ <<j, pos[j]>> \notin counted
      /\ MaxChunks \in Nat
      /\ Len(DocsOf[j]) \in Nat
  BY ConstantsOK DEF JobInv, InDoc, StoredOf, Unstored
<1>2. Size(j) \in 0..MaxChunks
  BY <1>1, DocFacts DEF Size
<1>3. \A q \in Jobs : \A k : Count(q, k)' = Count(q, k)
  BY DEF Count
<1> DEFINE New == {pos[j]} \X (0..Size(j) - 1)
<1>4. ASSUME NEW k \in 1..Len(DocsOf[j]), NEW i \in 0..MaxChunks - 1
      PROVE  <<k, i>> \in Made(j)' <=> <<k, i>> \in Made(j) \cup New
  <2>1. CASE k = pos[j]
    <3>1. <<k, i>> \in Made(j)' <=> i < Size(j)
      BY <1>3, <2>1 DEF Made, Size
    <3>2. <<k, i>> \in New <=> i < Size(j)
      BY <1>1, <1>2, <2>1
    <3>3. <<k, i>> \notin Made(j)
      BY <1>1, <2>1 DEF Made
    <3>4. QED
      BY <3>1, <3>2, <3>3
  <2>2. CASE k # pos[j]
    <3>1. <<j, k>> \in counted' <=> <<j, k>> \in counted
      BY <2>2
    <3>2. <<k, i>> \notin New
      BY <2>2
    <3>3. <<k, i>> \in Made(j)' <=> <<k, i>> \in Made(j)
      BY <1>3, <3>1 DEF Made
    <3>4. QED
      BY <3>2, <3>3
  <2>3. QED
    BY <2>1, <2>2
<1>5. /\ Made(j)' \subseteq (1..Len(DocsOf[j])) \X (0..MaxChunks - 1)
      /\ Made(j) \subseteq (1..Len(DocsOf[j])) \X (0..MaxChunks - 1)
  BY DEF Made
<1>6. New \subseteq (1..Len(DocsOf[j])) \X (0..MaxChunks - 1)
  BY <1>1, <1>2
<1>7. Made(j)' = Made(j) \cup New
  BY <1>4, <1>5, <1>6
<1>8. \A c \in Made(j) : c[1] # pos[j]
  BY <1>1 DEF Made
<1>9. Cardinality(Made(j) \cup New) = Cardinality(Made(j)) + Size(j)
  <2>1. IsFiniteSet(Made(j)) /\ Size(j) \in Nat
    BY <1>1, <1>2, MadeFinite
  <2>2. QED
    BY <1>8, <2>1, PairsAdded
<1>10. ASSUME NEW q \in Jobs \ {j} PROVE Made(q)' = Made(q)
  <2>1. \A k : <<q, k>> \in counted' <=> <<q, k>> \in counted
    BY <1>10
  <2>2. QED
    BY <1>3, <2>1 DEF Made
<1>11. QED
  BY <1>7, <1>9, <1>10

\* Chunks once counted stay so: a fetch can only fail before its document is.
LEMMA MadeStays ==
  ASSUME JobInv, NEW q \in Jobs, StoredOf(q),
         NEW j \in Jobs, JobSteps(j) \/ JobIsCancelled(j) \/ ProcessIsKilled(j),
         UNCHANGED counted
  PROVE  Made(q)' = Made(q)
<1>1. 1..Len(DocsOf[q]) \subseteq Nat
  BY ConstantsOK
<1>2. \A k \in 1..Len(DocsOf[q]) : <<q, k>> \in counted =>
        (<<q, k>> \in missing' <=> <<q, k>> \in missing)
  <2>1. CASE FetchFails(j)
    <3>1. at[j] = "visit" /\ missing' = missing \cup {<<j, pos[j]>>}
      BY <2>1 DEF FetchFails
    <3>2. q = j => \A k \in Nat : <<q, k>> \in counted => k # pos[j]
      BY <3>1 DEF StoredOf, Unstored
    <3>3. QED
      BY <1>1, <3>1, <3>2
  <2>2. CASE UNCHANGED missing
    BY <2>2
  <2>3. QED
    BY <2>1, <2>2, JobWay DEF Walks, Stores, Skips, GivesUpDocument, Embeds, Progresses
<1>3. \A k \in 1..Len(DocsOf[q]) : <<q, k>> \in counted => Count(q, k)' = Count(q, k)
  BY <1>2 DEF Count
<1> DEFINE Pairs == (1..Len(DocsOf[q])) \X (0..MaxChunks - 1)
<1>4. ASSUME NEW c \in Pairs PROVE c \in Made(q)' <=> c \in Made(q)
  <2>1. c[1] \in 1..Len(DocsOf[q])
    OBVIOUS
  <2>2. <<q, c[1]>> \in counted => Count(q, c[1])' = Count(q, c[1])
    BY <1>3, <2>1
  <2>3. QED
    BY <2>2 DEF Made
<1>5. Made(q) \subseteq Pairs /\ Made(q)' \subseteq Pairs
  BY DEF Made
<1> HIDE DEF Pairs
<1>6. QED
  BY <1>4, <1>5

LEMMA CreatedInit == ASSUME Init PROVE CreatedInv
<1>1. ASSUME NEW j \in Jobs PROVE created[j] = 0 /\ Made(j) = {}
  BY DEF Init, Made
<1>2. Cardinality({}) = 0
  BY FS_EmptySet
<1>3. created \in [Jobs -> Nat]
  BY DEF Init
<1>4. QED
  BY <1>1, <1>2, <1>3 DEF CreatedInv

LEMMA CreatedStep ==
  ASSUME JobInv, StoredInv, CreatedInv, [Next]_vars
  PROVE  CreatedInv'
<1>0. /\ created \in [Jobs -> Nat]
      /\ \A q \in Jobs : created[q] = Cardinality(Made(q))
  BY DEF CreatedInv
<1>1. CASE UNCHANGED jobVars
  <2>1. UNCHANGED <<created, counted, missing>>
    BY <1>1 DEF jobVars, countVars
  <2>2. \A j \in Jobs : Made(j)' = Made(j)
    BY <2>1 DEF Made, Count
  <2>3. QED
    BY <1>0, <2>1, <2>2 DEF CreatedInv
<1>2. ASSUME NEW j \in Jobs, JobSteps(j) \/ JobIsCancelled(j) \/ ProcessIsKilled(j)
      PROVE  CreatedInv'
  <2>1. CASE UNCHANGED <<created, counted>>
    <3>1. \A q \in Jobs : Made(q)' = Made(q)
      BY <1>2, <2>1, MadeStays DEF StoredInv
    <3>2. QED
      BY <1>0, <2>1, <3>1 DEF CreatedInv
  <2>2. CASE /\ at[j] \in {"chunk", "index"}
             /\ UNCHANGED missing
             /\ counted' = counted \cup {<<j, pos[j]>>}
             /\ created' = [created EXCEPT ![j] = @ + Size(j)]
    <3>1. Size(j) \in Nat
      <4>1. pos[j] \in Nat \ {0} /\ pos[j] <= Len(DocsOf[j])
        BY <2>2 DEF JobInv, InDoc
      <4>2. MaxChunks \in Nat
        BY ConstantsOK
      <4>3. QED
        BY <4>1, <4>2, DocFacts DEF Size
    <3>2. /\ created'[j] = created[j] + Size(j)
          /\ created' \in [Jobs -> Nat]
          /\ \A q \in Jobs \ {j} : created'[q] = created[q]
      BY <1>0, <2>2, <3>1
    <3>3. /\ Cardinality(Made(j)') = Cardinality(Made(j)) + Size(j)
          /\ \A q \in Jobs \ {j} : Made(q)' = Made(q)
      BY <2>2, MadeGrows DEF StoredInv
    <3>4. \A q \in Jobs : created'[q] = Cardinality(Made(q)')
      BY <1>0, <3>2, <3>3
    <3>5. QED
      BY <3>2, <3>4 DEF CreatedInv
  <2>3. QED
    BY <1>2, <2>1, <2>2, CountersWay
<1>3. CASE Requests
  <2>1. UNCHANGED jobVars
    BY <1>3 DEF Requests, DeleteDocument, DeleteChunk, DeleteKb, RemoveRows,
                EditBegins, EditWrites
  <2>2. QED
    BY <1>1, <2>1
<1>4. CASE UNCHANGED vars
  BY <1>1, <1>4 DEF vars
<1>5. QED
  BY <1>2, <1>3, <1>4 DEF Next

(***************************************************************************)
(* Counting documents                                                      *)
(***************************************************************************)

\* A job at a, at the p-th of its N documents, that counts n as processed and f
\* as failed, and has m rows to deliver: each document before the p-th counts
\* once, and the p-th once it has been reported.
Account(a, p, n, f, N, m) ==
  /\ p <= N + 1
  /\ n + f <= N
  /\ m <= n + f
  /\ IF a = "progress" THEN n + f = p
     ELSE IF a = "cut" THEN n + f = p - 1 \/ n + f = p
     ELSE n + f = p - 1
  /\ a \in {"deliver", "done"} => n + f = N

AccountInv ==
  \A j \in Jobs :
    Account(at[j], pos[j], processed[j], failed[j], Len(DocsOf[j]), Len(extracted[j]))

\* The ways of a job through its documents, of which Begin, Progresses and
\* Completes are the others.
Reads(j) ==
  /\ at[j] \in Unstored \ {"idle"}
  /\ \E w \in Unstored \ {"idle"} : at' = [at EXCEPT ![j] = w]
  /\ UNCHANGED <<pos, processed, failed, extracted>>

Counts(j) ==
  /\ at[j] \in Unstored \ {"idle"}
  /\ at' = [at EXCEPT ![j] = "progress"]
  /\ UNCHANGED pos
  /\ \/ processed' = [processed EXCEPT ![j] = @ + 1] /\ UNCHANGED failed
     \/ failed' = [failed EXCEPT ![j] = @ + 1] /\ UNCHANGED processed
  /\ Collect(j)

Delivers(j) ==
  /\ UNCHANGED <<at, pos, processed, failed>>
  /\ UNCHANGED extracted \/ NextSlice(j)

Cut(j) ==
  /\ at[j] # "idle"
  /\ at' = [at EXCEPT ![j] = "cut"]
  /\ UNCHANGED <<pos, processed, failed, extracted>>

LEMMA AccountWay ==
  ASSUME JobInv, NEW j \in Jobs, JobSteps(j) \/ JobIsCancelled(j) \/ ProcessIsKilled(j)
  PROVE  \/ Reads(j) \/ Counts(j) \/ Delivers(j) \/ Cut(j)
         \/ Begin(j) \/ Progresses(j) \/ Completes(j)
<1>0. Unstored \ {"idle"} = {"visit", "extract", "chunk", "index"}
  BY DEF Unstored
<1>1. CASE Parses(j) \/ Extracts(j) \/ FetchFails(j) \/ Embeds(j)
  BY <1>0, <1>1 DEF Parses, Parsed, Extracts, FetchFails, Embeds, Moves, GoTo,
                    countVars, Reads
<1>2. CASE ParserFails(j) \/ EmbedderFails(j)
  BY <1>0, <1>2 DEF ParserFails, EmbedderFails, Fails, GoTo, Counts
<1>3. CASE NothingToIndex(j)
  BY <1>0, <1>3 DEF NothingToIndex, Succeeds, GoTo, Counts
<1>4. CASE Upsert(j) \/ UpsertFails(j)
  <2>1. \/ Succeeds(j, Size(j)) /\ at[j] = "index"
        \/ UNCHANGED <<at, pos, processed, failed, extracted>>
    BY <1>4 DEF Upsert, UpsertFails, BatchEnds, countVars
  <2>2. QED
    BY <1>0, <2>1 DEF Succeeds, GoTo, Counts, Delivers
<1>5. CASE SliceAccepted(j) \/ SliceFails(j)
  BY <1>5 DEF SliceAccepted, SliceFails, DeliverySteps, GivesUp, TriesAgain,
              countVars, Delivers
<1>6. CASE JobIsCancelled(j) \/ ProcessIsKilled(j)
  BY <1>6 DEF JobIsCancelled, ProcessIsKilled, Moves, GoTo, countVars, Cut, Ended
<1>7. QED
  BY <1>1, <1>2, <1>3, <1>4, <1>5, <1>6 DEF JobSteps

\* A slice that goes leaves fewer rows.
LEMMA SlicesShrink ==
  ASSUME JobInv, NEW j \in Jobs, UNCHANGED extracted \/ NextSlice(j)
  PROVE  /\ Len(extracted'[j]) \in Nat /\ Len(extracted[j]) \in Nat
         /\ Len(extracted'[j]) <= Len(extracted[j])
         /\ \A q \in Jobs \ {j} : extracted'[q] = extracted[q]
<1> DEFINE s == extracted[j]
           t == IF Len(s) <= RowBatch THEN <<>> ELSE SubSeq(s, RowBatch + 1, Len(s))
<1>1. s \in Seq(Docs) /\ Len(s) \in Nat /\ RowBatch \in Nat
  BY ConstantsOK DEF JobInv
<1>2. Len(t) \in Nat /\ Len(t) <= Len(s)
  BY <1>1
<1>3. extracted' = extracted \/ extracted' = [extracted EXCEPT ![j] = t]
  BY DEF NextSlice
<1> HIDE DEF t
<1>4. QED
  BY <1>1, <1>2, <1>3 DEF JobInv

LEMMA CollectsOne ==
  ASSUME JobInv, NEW j \in Jobs, Collect(j)
  PROVE  /\ Len(extracted'[j]) \in Nat
         /\ Len(extracted'[j]) <= Len(extracted[j]) + 1
         /\ \A q \in Jobs \ {j} : extracted'[q] = extracted[q]
<1> DEFINE s == extracted[j]
           t == Append(s, Current(j).doc)
<1>1. s \in Seq(Docs) /\ Len(s) \in Nat
  BY DEF JobInv
<1>2. Len(t) = Len(s) + 1
  BY <1>1
<1>3. extracted' = extracted \/ extracted' = [extracted EXCEPT ![j] = t]
  BY DEF Collect
<1> HIDE DEF t
<1>4. QED
  BY <1>1, <1>2, <1>3 DEF JobInv

LEMMA AccountStep == JobInv /\ AccountInv /\ [Next]_vars => AccountInv'
<1> SUFFICES ASSUME JobInv, AccountInv, [Next]_vars PROVE AccountInv'
  OBVIOUS
<1>1. CASE UNCHANGED <<at, pos, processed, failed, extracted>>
  BY <1>1 DEF AccountInv
<1>2. ASSUME NEW j \in Jobs, JobSteps(j) \/ JobIsCancelled(j) \/ ProcessIsKilled(j)
      PROVE  AccountInv'
  <2> DEFINE N == Len(DocsOf[j])
             A == Account(at[j], pos[j], processed[j], failed[j], N, Len(extracted[j]))
             B == Account(at'[j], pos'[j], processed'[j], failed'[j], N, Len(extracted'[j]))
  <2>1. /\ N \in Nat /\ pos[j] \in Nat \ {0} /\ processed[j] \in Nat /\ failed[j] \in Nat
        /\ Len(extracted[j]) \in Nat
        /\ at[j] = "idle" => pos[j] = 1
        /\ at[j] \in InDoc => pos[j] <= N
        /\ DocsOf[j] = <<>> <=> N = 0
    BY ConstantsOK, EmptySeq DEF JobInv
  <2>2. A
    BY DEF AccountInv
  <2>3. ASSUME B, \A q \in Jobs \ {j} :
                    /\ at'[q] = at[q] /\ pos'[q] = pos[q] /\ processed'[q] = processed[q]
                    /\ failed'[q] = failed[q] /\ extracted'[q] = extracted[q]
        PROVE  AccountInv'
    <3>1. ASSUME NEW q \in Jobs
          PROVE  Account(at'[q], pos'[q], processed'[q], failed'[q], Len(DocsOf[q]),
                         Len(extracted'[q]))
      BY <2>3 DEF AccountInv
    <3>2. QED
      BY <3>1 DEF AccountInv
  <2>4. /\ DOMAIN at = Jobs /\ DOMAIN pos = Jobs /\ DOMAIN processed = Jobs
        /\ DOMAIN failed = Jobs
    BY DEF JobInv
  <2>5. CASE Reads(j)
    <3>1. PICK w \in Unstored \ {"idle"} : at' = [at EXCEPT ![j] = w]
      BY <2>5 DEF Reads
    <3>2. at'[j] = w /\ w \notin {"progress", "cut", "deliver", "done"}
      BY <2>4, <3>1 DEF Unstored
    <3>3. UNCHANGED <<pos, processed, failed, extracted>> /\ at[j] \notin {"progress", "cut"}
      BY <2>5 DEF Reads, Unstored
    <3>4. B
      BY <2>2, <3>2, <3>3 DEF Account
    <3>5. QED
      BY <2>3, <2>4, <3>1, <3>3, <3>4
  <2>6. CASE Counts(j)
    <3>1. /\ at[j] \notin {"progress", "cut"} /\ at[j] \in InDoc
          /\ at' = [at EXCEPT ![j] = "progress"] /\ UNCHANGED pos
          /\ \/ processed' = [processed EXCEPT ![j] = @ + 1] /\ UNCHANGED failed
             \/ failed' = [failed EXCEPT ![j] = @ + 1] /\ UNCHANGED processed
      BY <2>6 DEF Counts, Unstored, InDoc
    <3>2. /\ Len(extracted'[j]) \in Nat /\ Len(extracted'[j]) <= Len(extracted[j]) + 1
          /\ \A q \in Jobs \ {j} : extracted'[q] = extracted[q]
      BY <2>6, CollectsOne DEF Counts
    <3>3. /\ at'[j] = "progress" /\ pos'[j] = pos[j]
          /\ \/ processed'[j] = processed[j] + 1 /\ failed'[j] = failed[j]
             \/ failed'[j] = failed[j] + 1 /\ processed'[j] = processed[j]
      BY <2>4, <3>1
    <3>4. /\ processed[j] + failed[j] = pos[j] - 1 /\ pos[j] <= N
          /\ Len(extracted[j]) <= processed[j] + failed[j]
      BY <2>1, <2>2, <3>1 DEF Account
    <3> HIDE DEF N
    <3>5. processed'[j] + failed'[j] = pos[j] /\ processed'[j] + failed'[j] = processed[j] + failed[j] + 1
      BY <2>1, <3>3, <3>4
    <3>6. Len(extracted'[j]) <= processed'[j] + failed'[j] /\ pos[j] <= N + 1
      BY <2>1, <3>2, <3>4, <3>5
    <3>7. B
      BY <3>3, <3>4, <3>5, <3>6 DEF Account
    <3>8. QED
      BY <2>3, <2>4, <3>1, <3>2, <3>7
  <2>7. CASE Delivers(j)
    <3>1. /\ UNCHANGED <<at, pos, processed, failed>>
          /\ Len(extracted'[j]) \in Nat
          /\ Len(extracted'[j]) <= Len(extracted[j])
          /\ \A q \in Jobs \ {j} : extracted'[q] = extracted[q]
      BY <2>7, SlicesShrink DEF Delivers
    <3>2. Len(extracted'[j]) <= processed[j] + failed[j]
      BY <2>1, <2>2, <3>1 DEF Account
    <3>3. B
      BY <2>2, <3>1, <3>2 DEF Account
    <3>4. QED
      BY <2>3, <3>1, <3>3
  <2>8. CASE Cut(j)
    <3>1. /\ at' = [at EXCEPT ![j] = "cut"] /\ at'[j] = "cut"
          /\ UNCHANGED <<pos, processed, failed, extracted>>
      BY <2>4, <2>8 DEF Cut
    <3>2. B
      BY <2>2, <3>1 DEF Account
    <3>3. QED
      BY <2>3, <2>4, <3>1, <3>2
  <2>9. CASE Begin(j)
    <3>1. /\ at[j] = "idle"
          /\ at' = [at EXCEPT ![j] = IF DocsOf[j] = <<>> THEN "deliver" ELSE "visit"]
          /\ UNCHANGED <<pos, processed, failed, extracted>>
      BY <2>9 DEF Begin, Moves, GoTo, countVars
    <3>2. /\ at'[j] \in {"deliver", "visit"}
          /\ at'[j] = "deliver" => N = 0
      BY <2>1, <2>4, <3>1
    <3>3. processed[j] + failed[j] = pos[j] - 1 /\ pos[j] = 1
      BY <2>1, <2>2, <3>1 DEF Account
    <3>4. processed[j] + failed[j] = 0
      BY <3>3
    <3>5. B
      BY <2>2, <3>1, <3>2, <3>3, <3>4 DEF Account
    <3>6. QED
      BY <2>3, <2>4, <3>1, <3>5
  <2>10. CASE Progresses(j)
    <3>1. /\ at[j] = "progress"
          /\ at' = [at EXCEPT ![j] = IF pos[j] < N THEN "visit" ELSE "deliver"]
          /\ pos' = [pos EXCEPT ![j] = @ + 1]
          /\ UNCHANGED <<processed, failed, extracted>>
      BY <2>10 DEF Progresses, GoTo, countVars
    <3>2. /\ at'[j] \in {"visit", "deliver"} /\ pos'[j] = pos[j] + 1
          /\ at'[j] = "deliver" => ~(pos[j] < N)
      BY <2>4, <3>1
    <3>3. processed[j] + failed[j] = pos[j] /\ pos[j] <= N
      BY <2>1, <2>2, <3>1 DEF Account, InDoc
    <3> HIDE DEF N
    <3>4. /\ pos'[j] <= N + 1 /\ pos[j] = pos'[j] - 1
          /\ at'[j] = "deliver" => processed[j] + failed[j] = N
      BY <2>1, <3>2, <3>3
    <3>5. B
      BY <2>2, <3>1, <3>2, <3>3, <3>4 DEF Account
    <3>6. QED
      BY <2>3, <2>4, <3>1, <3>5
  <2>11. CASE Completes(j)
    <3>1. /\ at[j] = "deliver" /\ at' = [at EXCEPT ![j] = "done"] /\ at'[j] = "done"
          /\ UNCHANGED <<pos, processed, failed, extracted>>
      BY <2>4, <2>11 DEF Completes, Moves, GoTo, countVars
    <3>2. B
      BY <2>2, <3>1 DEF Account
    <3>3. QED
      BY <2>3, <2>4, <3>1, <3>2
  <2>12. QED
    BY <1>2, <2>5, <2>6, <2>7, <2>8, <2>9, <2>10, <2>11, AccountWay
<1>3. CASE Requests \/ UNCHANGED vars
  BY <1>1, <1>3 DEF Requests, DeleteDocument, DeleteChunk, DeleteKb, RemoveRows,
                    EditBegins, EditWrites, jobVars, countVars, vars
<1>4. QED
  BY <1>2, <1>3 DEF Next

LEMMA AccountInit == Init => AccountInv
<1> SUFFICES ASSUME Init, NEW j \in Jobs
             PROVE  Account(at[j], pos[j], processed[j], failed[j], Len(DocsOf[j]),
                            Len(extracted[j]))
  BY DEF AccountInv
<1>1. /\ at[j] = "idle" /\ pos[j] = 1 /\ processed[j] = 0 /\ failed[j] = 0
      /\ extracted[j] = <<>>
  BY DEF Init
<1>2. Len(DocsOf[j]) \in Nat /\ Len(<<>>) = 0
  BY ConstantsOK
<1>3. QED
  BY <1>1, <1>2 DEF Account

\* The other variables; and that a job that stores batches has one to store.
OtherInv ==
  /\ created \in [Jobs -> Nat]
  /\ missing \subseteq Jobs \X Nat
  /\ counted \subseteq Jobs \X Nat
  /\ read \in [Jobs -> BOOLEAN]
  /\ attempt \in [Jobs -> 0..Attempts - 1]
  /\ lost \subseteq Jobs \X Docs
  /\ received \subseteq Jobs \X Docs
  /\ edit \in [Edits -> {"idle", "embedding", "done"}]
  /\ holes \subseteq ChunkIds
  /\ \A j \in Jobs : /\ next[j] <= MaxChunks + BatchSize
                     /\ at[j] = "index" => next[j] < Size(j)

LEMMA OtherRequests == JobInv /\ OtherInv /\ Requests => OtherInv'
<1> SUFFICES ASSUME JobInv, OtherInv, Requests PROVE OtherInv'
  OBVIOUS
<1>1. UNCHANGED jobVars
  BY DEF Requests, DeleteDocument, DeleteChunk, DeleteKb, RemoveRows, EditBegins, EditWrites
<1>2. holes' \subseteq ChunkIds
  BY DEF Requests, DeleteDocument, DeleteChunk, DeleteKb, RemoveRows, EditBegins,
         EditWrites, OtherInv
<1>3. edit' \in [Edits -> {"idle", "embedding", "done"}]
  BY DEF Requests, DeleteDocument, DeleteChunk, DeleteKb, RemoveRows, EditBegins,
         EditWrites, OtherInv
<1>4. QED
  BY <1>1, <1>2, <1>3 DEF OtherInv, jobVars, countVars, deliverVars, Size, Count

LEMMA OtherJobs ==
  ASSUME JobInv, OtherInv, NEW j \in Jobs,
         JobSteps(j) \/ JobIsCancelled(j) \/ ProcessIsKilled(j)
  PROVE  OtherInv'
<1>0. /\ MaxChunks \in Nat /\ BatchSize \in Nat \ {0} /\ Attempts \in Nat \ {0}
      /\ RowBatch \in Nat
      /\ at \in [Jobs -> Where] /\ next \in [Jobs -> Nat] /\ pos \in [Jobs -> Nat \ {0}]
      /\ at[j] \in InDoc => pos[j] <= Len(DocsOf[j])
      /\ extracted[j] \in Seq(Docs)
  BY ConstantsOK DEF JobInv
<1>1. at[j] \in InDoc => /\ Size(j) \in 0..MaxChunks
                         /\ \A i \in 0..Size(j) - 1 : <<Current(j).doc, i>> \in ChunkIds
  BY <1>0, DocFacts DEF Size, Current
<1>2. edit' = edit
  BY DEF JobSteps, JobIsCancelled, ProcessIsKilled, Begin, Parses, FetchFails,
         ParserFails, Extracts, NothingToIndex, Embeds, EmbedderFails, Upsert,
         UpsertFails, BatchEnds, Succeeds, Progresses, Completes, SliceAccepted,
         SliceFails, DeliverySteps, Moves, Fails
<1>3. holes' \subseteq ChunkIds
  <2>1. UNCHANGED holes \/ Upsert(j) \/ UpsertFails(j)
    BY DEF JobSteps, JobIsCancelled, ProcessIsKilled, Begin, Parses, FetchFails,
           ParserFails, Extracts, NothingToIndex, Embeds, EmbedderFails,
           Progresses, Completes, SliceAccepted, SliceFails, DeliverySteps, Moves, Fails
  <2>2. CASE UpsertFails(j)
    <3>1. at[j] \in InDoc /\ holes' = holes \cup {c \in Batch(j) : rows[c] = NoRow}
      BY <2>2 DEF UpsertFails, BatchEnds, InDoc
    <3>2. ASSUME NEW i \in next[j]..next[j] + BatchSize - 1, i < Size(j)
          PROVE  i \in 0..Size(j) - 1
      <4>1. next[j] \in Nat /\ Size(j) \in Nat
        BY <1>0, <1>1, <3>1
      <4>2. QED
        BY <1>0, <3>2, <4>1
    <3>3. Batch(j) \subseteq ChunkIds
      BY <1>1, <3>1, <3>2 DEF Batch
    <3>4. QED
      BY <3>1, <3>3 DEF OtherInv
  <2>3. QED
    BY <2>1, <2>2 DEF OtherInv, Upsert
<1>4. created' \in [Jobs -> Nat]
  <2>1. \/ UNCHANGED created
        \/ \E n \in Nat : created' = [created EXCEPT ![j] = @ + n]
    <3>1. CASE NothingToIndex(j)
      <4>1. created' = [created EXCEPT ![j] = @ + 0]
        BY <3>1 DEF NothingToIndex, Succeeds
      <4>2. 0 \in Nat
        OBVIOUS
      <4>3. QED
        BY <4>1, <4>2, Zenon
    <3>2. CASE Upsert(j) \/ UpsertFails(j)
      <4>1. Size(j) \in Nat
        BY <1>0, <1>1, <3>2 DEF Upsert, UpsertFails, BatchEnds, InDoc
      <4>2. QED
        BY <3>2, <4>1 DEF Upsert, UpsertFails, BatchEnds, Succeeds, countVars
    <3>3. CASE ~(NothingToIndex(j) \/ Upsert(j) \/ UpsertFails(j))
      BY <3>3 DEF JobSteps, JobIsCancelled, ProcessIsKilled, Begin, Parses, FetchFails,
             ParserFails, Extracts, Embeds, EmbedderFails, Progresses, Completes,
             SliceAccepted, SliceFails, DeliverySteps, Moves, Fails, countVars
    <3>4. QED
      BY <3>1, <3>2, <3>3
  <2>2. QED
    BY <2>1 DEF OtherInv
<1>5. missing' \subseteq Jobs \X Nat /\ \A q \in Jobs \ {j} : \A k : <<q, k>> \in missing' <=> <<q, k>> \in missing
  <2>1. UNCHANGED missing \/ missing' = missing \cup {<<j, pos[j]>>}
    BY DEF JobSteps, JobIsCancelled, ProcessIsKilled, Begin, Parses, FetchFails,
         ParserFails, Extracts, NothingToIndex, Embeds, EmbedderFails, Upsert,
         UpsertFails, BatchEnds, Succeeds, Progresses, Completes, SliceAccepted,
         SliceFails, DeliverySteps, Moves, Fails
  <2>2. pos[j] \in Nat
    BY <1>0
  <2>3. QED
    BY <2>1, <2>2 DEF OtherInv
<1>10. counted' \subseteq Jobs \X Nat
  <2>1. pos[j] \in Nat
    BY <1>0
  <2>2. counted' = counted \/ counted' = counted \cup {<<j, pos[j]>>}
    BY CountersWay
  <2>3. QED
    BY <2>1, <2>2 DEF OtherInv
<1>6. read' \in [Jobs -> BOOLEAN]
  <2>1. UNCHANGED read \/ \E b \in BOOLEAN : read' = [read EXCEPT ![j] = b]
    BY DEF JobSteps, JobIsCancelled, ProcessIsKilled, Begin, Parses, FetchFails,
         ParserFails, Extracts, NothingToIndex, Embeds, EmbedderFails, Upsert,
         UpsertFails, BatchEnds, Succeeds, Progresses, Completes, SliceAccepted,
         SliceFails, DeliverySteps, Moves, Fails
  <2>2. QED
    BY <2>1 DEF OtherInv
<1>7. /\ attempt' \in [Jobs -> 0..Attempts - 1]
      /\ lost' \subseteq Jobs \X Docs /\ received' \subseteq Jobs \X Docs
  <2>1. Slice(j) \subseteq Jobs \X Docs
    BY <1>0 DEF Slice
  <2>2. UNCHANGED deliverVars \/ SliceAccepted(j) \/ SliceFails(j)
    BY DEF JobSteps, JobIsCancelled, ProcessIsKilled, Begin, Parses, FetchFails,
         ParserFails, Extracts, NothingToIndex, Embeds, EmbedderFails, Upsert,
         UpsertFails, BatchEnds, Succeeds, Progresses, Completes, Moves, Fails
  <2>3. ASSUME SliceAccepted(j) \/ SliceFails(j)
        PROVE  /\ \/ attempt' = [attempt EXCEPT ![j] = 0]
                  \/ attempt' = [attempt EXCEPT ![j] = @ + 1] /\ attempt[j] + 1 < Attempts
               /\ lost' \in {lost, lost \cup Slice(j)}
               /\ received' \in {received, received \cup Slice(j)}
    BY <2>3 DEF SliceAccepted, SliceFails, NextSlice, GivesUp, TriesAgain
  <2>4. attempt \in [Jobs -> 0..Attempts - 1] /\ 0 \in 0..Attempts - 1
    BY <1>0 DEF OtherInv
  <2>5. attempt[j] + 1 < Attempts => attempt[j] + 1 \in 0..Attempts - 1
    BY <1>0, <2>4
  <2>6. CASE UNCHANGED deliverVars
    BY <2>6 DEF deliverVars, OtherInv
  <2>7. CASE SliceAccepted(j) \/ SliceFails(j)
    <3>1. attempt' \in [Jobs -> 0..Attempts - 1]
      BY <2>3, <2>4, <2>5, <2>7
    <3>2. lost' \subseteq Jobs \X Docs /\ received' \subseteq Jobs \X Docs
      BY <2>1, <2>3, <2>7 DEF OtherInv
    <3>3. QED
      BY <3>1, <3>2
  <2>8. QED
    BY <2>2, <2>6, <2>7
<1>8. ASSUME NEW q \in Jobs
      PROVE  next'[q] <= MaxChunks + BatchSize /\ (at'[q] = "index" => next'[q] < Size(q)')
  <2>1. /\ next[q] <= MaxChunks + BatchSize
        /\ at[q] = "index" => next[q] < Size(q)
        /\ at[j] = "index" => next[j] < Size(j)
    BY DEF OtherInv
  <2>2. CASE q # j
    <3>1. at'[q] = at[q] /\ next'[q] = next[q] /\ pos'[q] = pos[q]
      BY <1>0, <2>2 DEF JobSteps, JobIsCancelled, ProcessIsKilled, Begin, Parses, FetchFails,
         ParserFails, Extracts, NothingToIndex, Embeds, EmbedderFails, Upsert,
         UpsertFails, BatchEnds, Succeeds, Progresses, Completes, SliceAccepted,
         SliceFails, DeliverySteps, Moves, Fails, GoTo
    <3>2. Size(q)' = Size(q)
      BY <1>5, <2>2, <3>1 DEF Size, Count
    <3>3. QED
      BY <2>1, <3>1, <3>2
  <2>3. CASE q = j
    <3>1. CASE Embeds(j)
      <4>1. /\ at[j] \in InDoc /\ Size(j) > 0 /\ next'[j] = 0
            /\ UNCHANGED <<pos, missing>>
        BY <1>0, <3>1 DEF Embeds, InDoc
      <4>2. Size(j)' = Size(j)
        BY <4>1 DEF Size, Count
      <4>3. QED
        BY <1>0, <1>1, <2>3, <4>1, <4>2
    <3>2. CASE Upsert(j) \/ UpsertFails(j)
      <4>1. /\ at[j] = "index" /\ next'[j] = next[j] + BatchSize
            /\ UNCHANGED <<pos, missing>>
            /\ \/ at'[j] = "progress"
               \/ at' = at /\ ~(next[j] + BatchSize >= Size(j))
        BY <1>0, <3>2 DEF Upsert, UpsertFails, BatchEnds, Succeeds, GoTo
      <4>2. Size(j) \in 0..MaxChunks /\ Size(j)' = Size(j) /\ next[j] < Size(j)
        BY <1>1, <2>1, <4>1 DEF Size, Count, InDoc
      <4>3. next[j] \in Nat
        BY <1>0
      <4>4. next'[j] <= MaxChunks + BatchSize
        BY <1>0, <4>1, <4>2, <4>3
      <4>5. at'[j] = "index" => next'[j] < Size(j)
        <5>1. ~(next[j] + BatchSize >= Size(j)) => next[j] + BatchSize < Size(j)
          BY <1>0, <4>2, <4>3
        <5>2. QED
          BY <4>1, <5>1
      <4>6. QED
        BY <2>3, <4>2, <4>4, <4>5
    <3>3. CASE ~(Embeds(j) \/ Upsert(j) \/ UpsertFails(j))
      <4>1. UNCHANGED next /\ at'[j] # "index"
        BY <1>0, <3>3 DEF JobSteps, JobIsCancelled, ProcessIsKilled, Begin, Parses,
           Parsed, FetchFails, ParserFails, Extracts, NothingToIndex, EmbedderFails,
           Succeeds, Progresses, Completes, SliceAccepted, SliceFails,
           DeliverySteps, Moves, Fails, GoTo
      <4>2. QED
        BY <2>1, <2>3, <4>1
    <3>4. QED
      BY <3>1, <3>2, <3>3
  <2>4. QED
    BY <2>2, <2>3
<1>9. QED
  BY <1>2, <1>3, <1>4, <1>5, <1>6, <1>7, <1>8, <1>10 DEF OtherInv

LEMMA OtherInit == Init => OtherInv
<1> SUFFICES ASSUME Init PROVE OtherInv
  OBVIOUS
<1>1. /\ created = [j \in Jobs |-> 0] /\ missing = {} /\ counted = {}
      /\ read = [j \in Jobs |-> FALSE] /\ attempt = [j \in Jobs |-> 0]
      /\ lost = {} /\ received = {} /\ edit = [e \in Edits |-> "idle"] /\ holes = {}
      /\ \A j \in Jobs : next[j] = 0 /\ at[j] = "idle"
  BY DEF Init
<1>2. MaxChunks \in Nat /\ BatchSize \in Nat /\ 0 \in 0..Attempts - 1
  BY ConstantsOK
<1>3. 0 <= MaxChunks + BatchSize
  BY <1>2
<1>4. QED
  BY <1>1, <1>2, <1>3 DEF OtherInv

(***************************************************************************)
(* Theorems                                                                *)
(***************************************************************************)

\* A job that is at a document has one, whatever the sizes and the failures.
THEOREM JobsAreSound == Spec => []JobInv
<1>1. Init => JobInv
  BY JobInit
<1>2. JobInv /\ [Next]_vars => JobInv'
  BY JobStep
<1>3. QED
  BY <1>1, <1>2, PTL DEF Spec

\* Each document of a job that was not cut short counts once, as processed or
\* as failed, when the job completes; before, the documents it has left behind
\* do.  And each variable has its type: among others, no job delivers more
\* rows than it has read documents, or reads beyond its list.
THEOREM EveryDocumentCounts ==
  Spec => [](TypeOK /\ \A j \in Jobs : at[j] \in {"deliver", "done"} =>
                         processed[j] + failed[j] = Len(DocsOf[j]))
<1>1. OtherInv /\ UNCHANGED vars => OtherInv'
  BY DEF OtherInv, vars, jobVars, countVars, deliverVars, Size, Count
<1>2. JobInv /\ OtherInv /\ [Next]_vars => OtherInv'
  BY <1>1, OtherRequests, OtherJobs DEF Next
<1>3. ASSUME JobInv, AccountInv, OtherInv PROVE TypeOK
  <2>1. ASSUME NEW j \in Jobs
        PROVE  /\ pos[j] \in 1..Len(DocsOf[j]) + 1
               /\ next[j] \in 0..MaxChunks + BatchSize
               /\ extracted[j] \in Seq(Docs) /\ Len(extracted[j]) <= Len(DocsOf[j])
               /\ processed[j] + failed[j] <= Len(DocsOf[j])
               /\ attempt[j] \in 0..Attempts - 1
    <3>1. /\ Len(DocsOf[j]) \in Nat /\ pos[j] \in Nat \ {0} /\ next[j] \in Nat
          /\ processed[j] \in Nat /\ failed[j] \in Nat
          /\ extracted[j] \in Seq(Docs) /\ Len(extracted[j]) \in Nat
          /\ MaxChunks \in Nat /\ BatchSize \in Nat
      BY <1>3, ConstantsOK DEF JobInv
    <3>2. /\ pos[j] <= Len(DocsOf[j]) + 1
          /\ processed[j] + failed[j] <= Len(DocsOf[j])
          /\ Len(extracted[j]) <= processed[j] + failed[j]
      BY <1>3 DEF AccountInv, Account
    <3>3. next[j] <= MaxChunks + BatchSize /\ attempt[j] \in 0..Attempts - 1
      BY <1>3 DEF OtherInv
    <3>4. ASSUME NEW N \in Nat, NEW n \in Nat, NEW m \in Nat, n <= N, m <= n
          PROVE  m <= N
      BY <3>4
    <3>5. processed[j] + failed[j] \in Nat
      BY <3>1
    <3>6. Len(extracted[j]) <= Len(DocsOf[j])
      BY <3>1, <3>2, <3>4, <3>5
    <3>7. pos[j] \in 1..Len(DocsOf[j]) + 1
      BY <3>1, <3>2
    <3>8. next[j] \in 0..MaxChunks + BatchSize
      BY <3>1, <3>3
    <3>9. QED
      BY <3>1, <3>2, <3>3, <3>6, <3>7, <3>8
  <2>2. {processed, failed, created} \subseteq [Jobs -> Nat]
    BY <1>3 DEF JobInv, OtherInv
  <2>3. QED
    BY <1>3, <2>1, <2>2 DEF JobInv, OtherInv, TypeOK, Row
<1>4. AccountInv => \A j \in Jobs : at[j] \in {"deliver", "done"} =>
                      processed[j] + failed[j] = Len(DocsOf[j])
  BY DEF AccountInv, Account
<1>5. QED
  BY <1>2, <1>3, <1>4, OtherInit, AccountInit, AccountStep, JobsAreSound, PTL DEF Spec

\* However edits, ingestions and deletions overlap, a row's vector is the one of
\* its text.
THEOREM WhatIsSearchedWasEmbedded == Spec => []VectorMatchesText
<1>1. Init => VectorMatchesText
  BY DEF Init, VectorMatchesText
<1>2. JobInv /\ VectorMatchesText /\ [Next]_vars => VectorMatchesText'
  BY RowsStep
<1>3. QED
  BY <1>1, <1>2, JobsAreSound, PTL DEF Spec

\* Only the ingestion of its document makes a row where there was none.
THEOREM EditsBringNothingBack == Spec => OnlyIngestionAddsRows
<1>1. JobInv /\ [Next]_vars =>
        [\A c \in ChunkIds :
           rows[c] = NoRow /\ rows'[c] # NoRow =>
             \E j \in Jobs : at[j] = "index" /\ Current(j).doc = c[1]]_vars
  BY RowsStep
<1>2. QED
  BY <1>1, JobsAreSound, PTL DEF Spec, OnlyIngestionAddsRows

\* What was extracted leaves the job's list only to core-api or to the log.
THEOREM NoSliceTakesAnother == Spec => DeliveredOrLost
<1>1. ASSUME JobInv, Next, NEW q \in Jobs, NEW d \in Range(extracted[q]) \ Range(extracted'[q])
      PROVE  <<q, d>> \in received' \cup lost'
  <2>1. ASSUME NEW j \in Jobs, JobSteps(j) \/ JobIsCancelled(j) \/ ProcessIsKilled(j)
        PROVE  <<q, d>> \in received' \cup lost'
    <3>1. CASE q = j
      <4>1. ~(Range(extracted[j]) \subseteq Range(extracted'[j]))
        BY <1>1, <3>1
      <4>2. \A x \in Range(extracted[j]) \ Range(extracted'[j]) :
              <<j, x>> \in received' \cup lost'
        BY <1>1, <2>1, <4>1, ListStep
      <4>3. QED
        BY <1>1, <3>1, <4>2
    <3>2. CASE q # j
      <4>1. extracted'[q] = extracted[q]
        BY <1>1, <2>1, <3>2, ListStep
      <4>2. QED
        BY <1>1, <4>1
    <3>3. QED
      BY <3>1, <3>2
  <2>2. CASE Requests
    <3>1. UNCHANGED extracted
      BY <2>2 DEF Requests, DeleteDocument, DeleteChunk, DeleteKb, RemoveRows,
                  EditBegins, EditWrites, jobVars
    <3>2. QED
      BY <1>1, <3>1
  <2>3. QED
    BY <1>1, <2>1, <2>2 DEF Next
<1>2. JobInv /\ [Next]_vars =>
        [\A j \in Jobs : at'[j] # "cut" =>
           \A d \in Range(extracted[j]) \ Range(extracted'[j]) :
             <<j, d>> \in received' \cup lost']_vars
  BY <1>1
<1>3. QED
  BY <1>2, JobsAreSound, PTL DEF Spec, DeliveredOrLost

\* No batch of a document counted as processed is forgotten, whatever became of
\* the other documents of its job, however jobs of the same knowledge base
\* overwrite each other, and whatever requests remove meanwhile.
THEOREM ProcessedIsAccountedFor == Spec => []ProcessedIsStored
<1>1. Init => StoredInv
  BY StoredInit
<1>2. JobInv /\ StoredInv /\ [Next]_vars => StoredInv'
  BY StoredStep
<1>3. StoredInv => ProcessedIsStored
  <2>1. ASSUME StoredInv, NEW j \in Jobs, NEW k \in DOMAIN DocsOf[j], <<j, k>> \in counted,
               NEW i \in 0..Count(j, k) - 1
        PROVE  <<DocsOf[j][k].doc, i>> \in Covered
    <3>1. k \in Nat
      <4>1. DOMAIN DocsOf[j] = 1..Len(DocsOf[j])
        BY ConstantsOK
      <4>2. QED
        BY <4>1
    <3>2. QED
      BY <2>1, <3>1 DEF StoredInv, StoredOf
  <2>2. QED
    BY <2>1 DEF Covered, ProcessedIsStored
<1>4. QED
  BY <1>1, <1>2, <1>3, JobsAreSound, PTL DEF Spec

\* What chunks_created counts: the chunks made of the documents counted as
\* processed, each once, whether or not the batch they were in was stored.
THEOREM CreatedIsWhatWasMade ==
  Spec => [](\A j \in Jobs : created[j] = Cardinality(Made(j)))
<1>1. Init => StoredInv /\ CreatedInv
  BY StoredInit, CreatedInit
<1>2. JobInv /\ StoredInv /\ CreatedInv /\ [Next]_vars => StoredInv' /\ CreatedInv'
  BY StoredStep, CreatedStep
<1>3. CreatedInv => \A j \in Jobs : created[j] = Cardinality(Made(j))
  BY DEF CreatedInv
<1>4. QED
  BY <1>1, <1>2, <1>3, JobsAreSound, PTL DEF Spec

=============================================================================
