------------------------------ MODULE Chunking ------------------------------
(***************************************************************************)
(* The chunker (src/chunker/__init__.py): how the text of one document is  *)
(* cut into the chunks that are embedded and stored.                       *)
(*                                                                         *)
(* A document is a sequence of sections, a section a sequence of units     *)
(* (sentences or paragraphs), of which only the lengths matter.  Packing   *)
(* strategies fill a chunk with units until the next one does not fit; the *)
(* recursive strategy does so with the paragraphs of every section that is *)
(* too large for one chunk; the fixed strategy slides a window over the    *)
(* characters.  The loops of the code are the steps.                       *)
(***************************************************************************)
EXTENDS Integers, Sequences, FiniteSets, FiniteSetsExt, SequencesExt

CONSTANTS
  Documents,   (* [strategy -> the documents it is given]                     *)
  ChunkSize, ChunkOverlap, MinChunkSize

Packing    == {"sentence", "paragraph"}
Strategies == Packing \cup {"recursive", "fixed"}

\* Nothing in the settings keeps the overlap below the size: the fixed strategy
\* then moves its window backwards, or not at all, and never ends; nor the least
\* size, ten, below it: the fixed strategy would then keep nothing.
ASSUME ConstantsOK ==
  /\ Documents \in [Strategies -> SUBSET Seq(Seq(Nat))]
  /\ ChunkSize \in Nat \ {0}
  /\ MinChunkSize \in 1..ChunkSize
  /\ ChunkOverlap \in 0..ChunkSize - 1

\* A packing strategy sees one section; the fixed one sees its characters, one
\* unit.
ASSUME DocumentsOK ==
  \A s \in Strategies \ {"recursive"} :
    \A d \in Documents[s] : Len(d) = 1 /\ (s = "fixed" => Len(d[1]) = 1)

VARIABLES
  strategy, doc,
  phase,       (* "sections", "packing", "sliding", "done"                    *)
  sec,         (* the section at hand                                         *)
  unit,        (* its next unit                                               *)
  current,     (* current_chunk: the units gathered, by number                *)
  length,      (* current_length                                              *)
  start,       (* where the window starts                                     *)
  chunks,      (* the chunks made                                             *)
  idx          (* chunk_idx                                                   *)

vars == <<strategy, doc, phase, sec, unit, current, length, start, chunks, idx>>

\* The length of what joins the units, and what the code counts for it.
Separator(s) == IF s = "sentence" THEN 1 ELSE 2
Counted(s)   == IF s = "sentence" THEN 1 ELSE 2

\* The length of units us of a section of lengths d, joined.
Joined(d, between, us) ==
  LET upTo[n \in 0..Len(us)] ==
        IF n = 0 THEN 0
        ELSE upTo[n - 1] + d[us[n]] + (IF n = 1 THEN 0 ELSE between)
  IN  upTo[Len(us)]

JoinedLength(s, us) == Joined(doc[s], Separator(strategy), us)

Chunk(s, us) ==
  [index |-> idx, section |-> s, units |-> us,
   first |-> 0, size |-> JoinedLength(s, us)]

TypeOK ==
  /\ strategy \in Strategies
  /\ doc \in Documents[strategy]
  /\ phase \in {"sections", "packing", "sliding", "done"}
  /\ sec \in 1..Len(doc) + 1
  /\ sec <= Len(doc) => unit \in 1..Len(doc[sec]) + 1
  /\ current \in Seq(Nat \ {0})
  /\ {length, start, idx} \subseteq Nat
  /\ \A c \in Range(chunks) :
       /\ c.section \in DOMAIN doc
       /\ Range(c.units) \subseteq DOMAIN doc[c.section]
       /\ {c.index, c.first} \subseteq Nat
       /\ c.size \in Nat

Init ==
  /\ strategy \in Strategies
  /\ doc \in Documents[strategy]
  /\ phase = CASE strategy \in Packing -> "packing"
               [] strategy = "recursive" -> "sections"
               [] strategy = "fixed" -> "sliding"
  /\ sec = 1
  /\ unit = 1
  /\ current = <<>>
  /\ length = 0
  /\ start = 0
  /\ chunks = <<>>
  /\ idx = 0

-----------------------------------------------------------------------------
(* Packing                                                                 *)

\* Empty paragraphs are skipped; sentences are taken as they come.
Taken(st, d) ==
  LET upTo[n \in 0..Len(d)] ==
        IF n = 0 THEN <<>>
        ELSE IF st = "sentence" \/ d[n] > 0 THEN Append(upTo[n - 1], n)
        ELSE upTo[n - 1]
  IN  upTo

\* The units of section s that are to be in chunks.
Wanted(s) == Taken(strategy, doc[s])[Len(doc[s])]

\* The loop is at a unit of the section.
AtUnit ==
  /\ phase = "packing"
  /\ unit <= Len(doc[sec])
  /\ unit' = unit + 1
  /\ UNCHANGED <<strategy, doc, phase, sec, start>>

Skip ==
  /\ AtUnit
  /\ strategy # "sentence"
  /\ doc[sec][unit] = 0
  /\ UNCHANGED <<current, length, chunks, idx>>

\* Mutant: what joins the units is not counted.
FitsUncounted(len, u) ==
  len + u - Counted(strategy) * Len(current) <= ChunkSize

\* A unit of length u goes into the chunk of length len.
Fits(len, u) == len + u <= ChunkSize

Gather ==
  /\ AtUnit
  /\ strategy = "sentence" \/ doc[sec][unit] > 0
  /\ Fits(length, doc[sec][unit]) \/ current = <<>>
  /\ current' = Append(current, unit)
  /\ length' = length + doc[sec][unit] + Counted(strategy)
  /\ UNCHANGED <<chunks, idx>>

\* Mutant: the unit that did not fit is not carried over.
CloseWithoutCarry ==
  /\ AtUnit
  /\ strategy = "sentence" \/ doc[sec][unit] > 0
  /\ ~Fits(length, doc[sec][unit])
  /\ current # <<>>
  /\ chunks' = Append(chunks, Chunk(sec, current))
  /\ idx' = idx + 1
  /\ current' = <<>>
  /\ length' = 0

\* The unit does not fit: the chunk is made and the unit begins the next.
Close ==
  /\ AtUnit
  /\ strategy = "sentence" \/ doc[sec][unit] > 0
  /\ ~Fits(length, doc[sec][unit])
  /\ current # <<>>
  /\ chunks' = Append(chunks, Chunk(sec, current))
  /\ idx' = idx + 1
  /\ current' = <<unit>>
  /\ length' = doc[sec][unit] + Counted(strategy)

\* What is gathered at the end of the units is a chunk unless it is too short.
KeepTail ==
  IF current # <<>> /\ length >= MinChunkSize
  THEN chunks' = Append(chunks, Chunk(sec, current)) /\ idx' = idx + 1
  ELSE UNCHANGED <<chunks, idx>>

PackingEnds ==
  /\ phase = "packing"
  /\ unit > Len(doc[sec])
  /\ KeepTail
  /\ current' = <<>>
  /\ length' = 0
  /\ unit' = 1
  /\ sec' = sec + 1
  /\ phase' = IF strategy = "recursive" THEN "sections" ELSE "done"
  /\ UNCHANGED <<strategy, doc, start>>

-----------------------------------------------------------------------------
(* Sections of the recursive strategy                                      *)

\* The cleaner leaves one blank line between paragraphs.
SectionLength(s) == JoinedLength(s, Wanted(s))

AtSection ==
  /\ phase = "sections"
  /\ sec <= Len(doc)
  /\ UNCHANGED <<strategy, doc, unit, current, length, start>>

\* A section that fits is one chunk; a short one is left out.
WholeSection ==
  /\ AtSection
  /\ SectionLength(sec) <= ChunkSize
  /\ IF SectionLength(sec) >= MinChunkSize
     THEN chunks' = Append(chunks, Chunk(sec, Wanted(sec))) /\ idx' = idx + 1
     ELSE UNCHANGED <<chunks, idx>>
  /\ sec' = sec + 1
  /\ UNCHANGED phase

LargeSection ==
  /\ AtSection
  /\ SectionLength(sec) > ChunkSize
  /\ phase' = "packing"
  /\ UNCHANGED <<sec, chunks, idx>>

SectionsEnd ==
  /\ phase = "sections"
  /\ sec > Len(doc)
  /\ phase' = "done"
  /\ UNCHANGED <<strategy, doc, sec, unit, current, length, start, chunks, idx>>

-----------------------------------------------------------------------------
(* The fixed strategy                                                      *)

TextLength == doc[1][1]
End        == start + ChunkSize

\* Mutant: the window moves on by its whole size plus the overlap.
NextStartBeyond == End + ChunkOverlap

\* Mutant: the last window is clamped to the text, and its end taken from that.
NextStartClamped ==
  (IF End <= TextLength THEN End ELSE TextLength) - ChunkOverlap

\* Where the next window starts.
NextStart == End - ChunkOverlap

Window ==
  LET content == (IF End <= TextLength THEN End ELSE TextLength) - start IN
  /\ phase = "sliding"
  /\ start < TextLength
  /\ IF content >= MinChunkSize
     THEN /\ chunks' = Append(chunks, [index |-> idx, section |-> 1,
                                       units |-> <<1>>, first |-> start,
                                       size |-> content])
          /\ idx' = idx + 1
     ELSE UNCHANGED <<chunks, idx>>
  /\ start' = NextStart
  /\ UNCHANGED <<strategy, doc, phase, sec, unit, current, length>>

SlidingEnds ==
  /\ phase = "sliding"
  /\ start >= TextLength
  /\ phase' = "done"
  /\ UNCHANGED <<strategy, doc, sec, unit, current, length, start, chunks, idx>>

-----------------------------------------------------------------------------

Next ==
  \/ Skip
  \/ Gather
  \/ Close
  \/ PackingEnds
  \/ WholeSection
  \/ LargeSection
  \/ SectionsEnd
  \/ Window
  \/ SlidingEnds

Spec == Init /\ [][Next]_vars

-----------------------------------------------------------------------------
(* Properties                                                              *)

\* The units of the chunks of section s, in order.
Gathered(cs, s) ==
  LET upTo[n \in 0..Len(cs)] ==
        IF n = 0 THEN <<>>
        ELSE IF cs[n].section = s THEN upTo[n - 1] \o cs[n].units
        ELSE upTo[n - 1]
  IN  upTo[Len(cs)]

\* Chunks j and k follow each other in one section.
Neighbours(j, k) ==
  /\ j < k
  /\ chunks[j].section = chunks[k].section
  /\ \A i \in j + 1..k - 1 : chunks[i].section # chunks[k].section

\* Chunks are neither too large nor too small: one is larger than ChunkSize only
\* if it is a single sentence or paragraph that is, and the first unit of a
\* chunk would not have fitted into the chunk before it.  The unit of the
\* recursive strategy is the paragraph: the docstring (:187) goes on to
\* sentences, which _chunk_recursive never splits, so a paragraph of any length
\* stays one chunk there, as it does here.
PackingIsTight ==
  /\ \A c \in Range(chunks) : c.size > ChunkSize => Len(c.units) = 1
  /\ strategy # "fixed" =>
       \A j, k \in DOMAIN chunks : Neighbours(j, k) =>
         JoinedLength(chunks[j].section,
                      Append(chunks[j].units, Head(chunks[k].units))) > ChunkSize

\* Every sentence or paragraph is in one chunk, in the order of the text; what
\* a section leaves out is one piece at its end.
UnitsAreCovered ==
  \A s \in DOMAIN doc :
    \E rest \in Suffixes(Wanted(s)) :
      /\ Wanted(s) = Gathered(chunks, s) \o rest
      /\ JoinedLength(s, rest) < MinChunkSize

\* Neighbouring windows share ChunkOverlap characters, and they reach the end.
WindowsCover ==
  LET covered == IF chunks = <<>> THEN 0
                 ELSE Last(chunks).first + Last(chunks).size
  IN
  /\ \A k \in 1..Len(chunks) - 1 :
       chunks[k + 1].first = chunks[k].first + ChunkSize - ChunkOverlap
  /\ TextLength - covered < MinChunkSize

\* The chunks have all of the text, each unit once and in order, each window
\* where the last one lets it begin, but for one piece shorter than MinChunkSize
\* at the end of a section: what was gathered last is neither lost nor stored
\* twice, whichever way the loop of the strategy is left.  Only the windows of
\* the fixed strategy overlap: the class promises "Recursive chunking with
\* overlap" (:18), but _chunk_recursive never reads chunk_overlap.
TextIsCovered ==
  phase = "done" => IF strategy = "fixed" THEN WindowsCover ELSE UnitsAreCovered
=============================================================================
