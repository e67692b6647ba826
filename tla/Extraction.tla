----------------------------- MODULE Extraction -----------------------------
(***************************************************************************)
(* How one document is read against a category (src/extractor): its text   *)
(* is parsed or streamed, judged readable or not, clipped or rendered as   *)
(* pictures, shown to the workspace's model, and the findings are mapped   *)
(* to a row.  A document takes one of three routes: streamed from R2       *)
(* (src/streaming.py), buffered through the pipeline (src/pipeline.py), or *)
(* read for /extract and kept nowhere (src/extractor/standalone.py).       *)
(*                                                                         *)
(* Text is a sequence of words.  Some are facts, which a model finds under *)
(* a key; the others are junk, the page markers of the parsers and what    *)
(* the guardrails leave of personal facts.  Lengths count the characters   *)
(* of the words.  The model reports only facts it was shown.               *)
(***************************************************************************)
EXTENDS Integers, Sequences, FiniteSets, FiniteSetsExt, SequencesExt

CONSTANTS
  Files,        (* what documents may be: [kind, pages]                       *)
  Fields,       (* the field keys of the category, in order                   *)
  KeyOf,        (* fact -> the key under which the model reports it           *)
  NormalOf,     (* key -> normalise_key of it                                 *)
  NoLetters,    (* the normal form of a key without latin letters or digits   *)
  CharsOf,      (* word -> its length                                         *)
  Personal,     (* the facts the guardrails redact                            *)
  Marker,       (* "[Page n]", "[Slide n]"                                    *)
  Redacted,     (* "[REDACTED_...]"                                           *)
  MinTextChars, (* MIN_TEXT_CHARS                                             *)
  MaxChars,     (* MAX_CHARS                                                  *)
  StreamCap,    (* _EXTRACT_TEXT_CAP                                          *)
  MaxPages,     (* MAX_PAGES                                                  *)
  PageLimit     (* settings.extract_max_pages                                 *)

Facts == DOMAIN KeyOf
Words == DOMAIN CharsOf
Keys  == DOMAIN NormalOf
Pages == [layer : Seq(Words), picture : SUBSET Facts, renders : BOOLEAN]

\* What the guardrails put in the place of a fact is not one they would take
\* out; a normal form is normal.
ASSUME ReadingConstantsOK ==
  /\ Files \subseteq [kind : {"pdf", "slides", "text"}, pages : Seq(Pages)]
  /\ Facts \cup {Marker, Redacted} \subseteq Words
  /\ Personal \subseteq Facts \ {Redacted}
  /\ CharsOf \in [Words -> Nat \ {0}]
  /\ Fields \in Seq(Keys) /\ KeyOf \in [Facts -> Keys]
  /\ NormalOf \in [Keys -> Keys]
  /\ \A k \in Keys : NormalOf[NormalOf[k]] = NormalOf[k]
  /\ {MinTextChars, MaxChars, StreamCap, MaxPages, PageLimit} \subseteq Nat
  /\ StreamCap > MaxChars

\* The metadata has no row (yet).
NoRow == [failure |-> "unread"]

VARIABLES
  file, route,   (* the document and its way                                  *)
  asked,         (* an extract spec is on its metadata                        *)
  guarded,       (* guardrails that redact are asked for                      *)
  stage,
  page,          (* the page the stream is at                                 *)
  text,          (* document.content, `seen' of the stream                    *)
  raw,           (* the bytes are at hand                                     *)
  how,           (* "text" or "images": what the model is shown               *)
  shown,         (* the facts in it                                           *)
  cut,           (* truncated                                                 *)
  answer,        (* the facts of the model's answer, in its order             *)
  row,           (* the ExtractionResult, metadata["_extracted"]              *)
  rows           (* the rows collected or delivered for this document         *)

inputVars   == <<file, route, asked, guarded>>
modelVars   == <<how, shown, cut, answer>>
readingVars == <<inputVars, stage, page, text, raw, modelVars, row, rows>>

Chars(t) ==
  LET upTo[n \in 0..Len(t)] == IF n = 0 THEN 0 ELSE upTo[n - 1] + CharsOf[t[n]]
  IN  upTo[Len(t)]
FactsIn(t) == Range(t) \cap Facts

ReadingTypeOK ==
  /\ file \in Files
  /\ route \in {"streamed", "buffered", "extract"}
  /\ {asked, guarded, raw, cut} \subseteq BOOLEAN
  /\ stage \in {"parse", "judge", "ask", "read", "chunk", "done", "failed",
                "refused", "cut"}
  /\ page \in 1..Len(file.pages) + 1
  /\ text \in Seq(Words)
  /\ how \in {"nothing", "text", "images"}
  /\ shown \subseteq Facts
  /\ Range(answer) \subseteq shown
  /\ row = NoRow \/ row.failure \in {"none", "scanned", "empty", "retry", "blind"}

\* From R2, PDF and text are streamed and slides are not; /ingest/file buffers
\* files of any kind, without a spec to read them by; JSON requests bring text.
RoutesOf(f) == CASE f.kind = "pdf"    -> {"streamed", "buffered", "extract"}
                 [] f.kind = "slides" -> {"buffered", "extract"}
                 [] f.kind = "text"   -> {"buffered", "streamed"}

ReadingInit ==
  /\ file \in Files
  /\ route \in RoutesOf(file)
  /\ asked \in CASE route = "extract" -> {TRUE}
                  [] route = "buffered" /\ file.kind = "pdf" -> {FALSE}
                  [] OTHER -> BOOLEAN
  /\ guarded \in (IF route = "extract" THEN {FALSE} ELSE BOOLEAN)
  /\ stage = "parse"
  /\ page = 1
  /\ text = <<>>
  /\ raw = FALSE
  /\ how = "nothing"
  /\ shown = {}
  /\ cut = FALSE
  /\ answer = <<>>
  /\ row = NoRow
  /\ rows = <<>>

-----------------------------------------------------------------------------
(* Parsing, and the stream                                                 *)

\* The parsers mark where a page or slide with text begins.
PageText(f, i) ==
  LET layer == f.pages[i].layer IN
  IF f.kind = "text" \/ layer = <<>> THEN layer ELSE <<Marker>> \o layer

ParsedText(f) == FlattenSeq([i \in DOMAIN f.pages |-> PageText(f, i)])

\* /extract accepts a PDF with a bounded number of pages.
Refused ==
  \/ file.kind # "pdf"
  \/ Len(file.pages) \notin 1..PageLimit

Refuses ==
  /\ stage = "parse"
  /\ route = "extract"
  /\ Refused
  /\ stage' = "refused"
  /\ UNCHANGED <<inputVars, page, text, raw, modelVars, row, rows>>

\* Mutant: the guardrails come before the fork.
ParsesGuarded ==
  /\ stage = "parse"
  /\ \/ route = "buffered"
     \/ route = "extract" /\ ~Refused
  /\ text' = [i \in DOMAIN ParsedText(file) |->
                IF guarded /\ ParsedText(file)[i] \in Personal THEN Redacted
                ELSE ParsedText(file)[i]]
  /\ raw' = (file.kind # "text")
  /\ stage' = IF asked THEN "judge" ELSE "read"
  /\ UNCHANGED <<inputVars, page, modelVars, row, rows>>

\* The buffered document and that of /extract are parsed and cleaned as one;
\* the bytes are kept for the pictures.  Text documents arrive as text.
Parses ==
  /\ stage = "parse"
  /\ \/ route = "buffered"
     \/ route = "extract" /\ ~Refused
  /\ text' = ParsedText(file)
  /\ raw' = (file.kind # "text")
  /\ stage' = IF asked THEN "judge" ELSE "read"
  /\ UNCHANGED <<inputVars, page, modelVars, row, rows>>

\* A buffered object cannot be fetched from R2, or is too large: there is no
\* document, for the pipeline or for its row.
ObjectRefused ==
  /\ stage = "parse"
  /\ route = "buffered"
  /\ file.kind = "slides"
  /\ stage' = "failed"
  /\ UNCHANGED <<inputVars, page, text, raw, modelVars, row, rows>>

\* The parser raises, or a page cannot be read or its chunks not be stored.
ReadingFails ==
  /\ stage = "parse"
  /\ route = "extract" => ~Refused
  /\ stage' = "failed"
  /\ UNCHANGED <<inputVars, page, text, raw, modelVars, row, rows>>

Streaming == stage = "parse" /\ route = "streamed"

\* Mutant: the whole document has to fit under the cap.
KeepsShort(t, layer) == asked /\ Chars(t \o layer) <= MaxChars

\* What the stream keeps of a page for the extractor.
Keeps(t, layer) == asked /\ Chars(t) < StreamCap

\* A page has been chunked and its text is remembered.
FeedsPage ==
  /\ Streaming
  /\ page <= Len(file.pages)
  /\ page' = page + 1
  /\ text' = LET layer == file.pages[page].layer IN
             IF file.kind = "pdf" /\ Keeps(text, layer) THEN text \o layer
             ELSE text
  /\ UNCHANGED <<inputVars, stage, raw, modelVars, row, rows>>

\* Everything is stored.  A PDF is then read, from its bytes if no page had
\* text; the streams of the other kinds end here.
StreamEnds ==
  /\ Streaming
  /\ page > Len(file.pages)
  /\ stage' = IF asked /\ file.kind = "pdf" THEN "judge" ELSE "done"
  /\ raw' = (asked /\ file.kind = "pdf" /\ text = <<>>)
  /\ UNCHANGED <<inputVars, page, text, modelVars, row, rows>>

-----------------------------------------------------------------------------
(* extract_document                                                        *)

LooksUnreadable == Chars(text) < MinTextChars

\* clip: the words that fit.
Clipped ==
  LET n == Max({n \in 0..Len(text) : Chars(SubSeq(text, 1, n)) <= MaxChars})
  IN  SubSeq(text, 1, n)

\* The pages that can be shown as pictures.
Rendered ==
  {i \in DOMAIN file.pages : raw /\ file.kind = "pdf" /\ file.pages[i].renders
                             /\ i <= MaxPages}

Judging == stage = "judge" /\ UNCHANGED <<inputVars, page, text, raw, rows>>

JudgesText ==
  /\ Judging
  /\ ~LooksUnreadable
  /\ how' = "text"
  /\ shown' = FactsIn(Clipped)
  /\ cut' = (Chars(text) > MaxChars)
  /\ stage' = "ask"
  /\ UNCHANGED <<answer, row>>

JudgesPictures ==
  /\ Judging
  /\ LooksUnreadable
  /\ Rendered # {}
  /\ how' = "images"
  /\ shown' = UNION {file.pages[i].picture : i \in Rendered}
  /\ cut' = (Len(file.pages) > MaxPages)
  /\ stage' = "ask"
  /\ UNCHANGED <<answer, row>>

Nothing == [values |-> <<>>, unmapped |-> <<>>]
Failure(why) ==
  [values |-> <<>>, unmapped |-> <<>>, failure |-> why, note |-> FALSE]

JudgesScanned ==
  /\ Judging
  /\ LooksUnreadable
  /\ Rendered = {}
  /\ row' = Failure("scanned")
  /\ stage' = "read"
  /\ UNCHANGED modelVars

Answers ==
  /\ stage = "ask"
  /\ stage' = "read"
  /\ UNCHANGED <<inputVars, page, text, raw, how, shown, cut, rows>>

Failed(why) == Answers /\ row' = Failure(why) /\ UNCHANGED answer

\* The call fails; prose or an empty object is no answer; a model that cannot
\* see says so.
ModelFails   == Failed("retry")
FindsNothing == Failed("empty")
ModelIsBlind == how = "images" /\ Failed("blind")

-----------------------------------------------------------------------------
(* map_to_category                                                         *)

\* by_normal: of the fields with one normal form the last.
FieldsLike(n) == {i \in DOMAIN Fields : NormalOf[Fields[i]] = n}

\* Mutant: the model's spelling is not normalised on its side.
PlaceVerbatim(k) ==
  IF k \in Range(Fields) THEN <<"values", k>> ELSE <<"unmapped", NormalOf[k]>>

\* Mutant: without a letter a key is filed under its empty normal form.
PlaceNormalised(k) ==
  LET n == NormalOf[k] IN
  IF FieldsLike(n) # {} THEN <<"values", Fields[Max(FieldsLike(n))]>>
  ELSE <<"unmapped", n>>

\* Where a finding under key k goes.
Place(k) ==
  LET n == NormalOf[k] IN
  IF FieldsLike(n) # {} THEN <<"values", Fields[Max(FieldsLike(n))]>>
  ELSE <<"unmapped", IF n = NoLetters THEN k ELSE n>>

\* A finding under key k: a later one replaces an earlier.
With(entries, k, f) ==
  [l \in DOMAIN entries \cup {k} |-> IF l = k THEN f ELSE entries[l]]

\* One finding into what is split already.
Put(s, f) ==
  LET to == Place(KeyOf[f])
  IN  IF to[1] = "values"
      THEN [values |-> With(s.values, to[2], f), unmapped |-> s.unmapped]
      ELSE [values |-> s.values, unmapped |-> With(s.unmapped, to[2], f)]

\* The loop over the findings.
Split(a) ==
  LET upTo[n \in 0..Len(a)] == IF n = 0 THEN Nothing ELSE Put(upTo[n - 1], a[n])
  IN  upTo[Len(a)]

\* The model answers with an object: some of the facts it was shown, each under
\* a key of its own, in any order.  Values that are blank are dropped, so that
\* the answer may come to nothing.
Finds ==
  /\ Answers
  /\ shown # {}
  /\ answer' \in {a \in SeqOf(shown, Cardinality(shown)) :
                  \A m, n \in DOMAIN a : KeyOf[a[m]] = KeyOf[a[n]] => m = n}
  /\ row' = [values |-> Split(answer').values,
             unmapped |-> Split(answer').unmapped,
             failure |-> "none", note |-> cut]

-----------------------------------------------------------------------------
(* What becomes of the row                                                 *)

Collected == IF row = NoRow THEN rows ELSE Append(rows, row)

\* Mutant: only the first personal fact is redacted.
GuardedOnce ==
  IF guarded THEN [i \in DOMAIN text |->
                     IF text[i] \in Personal /\ \A j \in 1..i - 1 : text[j] \notin Personal
                     THEN Redacted ELSE text[i]]
  ELSE text

\* apply_guardrails.
Guarded ==
  IF guarded THEN [i \in DOMAIN text |-> IF text[i] \in Personal THEN Redacted
                                         ELSE text[i]]
  ELSE text

\* The buffered document goes on to be chunked.
Guards ==
  /\ stage = "read"
  /\ route = "buffered"
  /\ text' = Guarded
  /\ stage' = "chunk"
  /\ UNCHANGED <<inputVars, page, raw, modelVars, row, rows>>

\* The stream sends its row.
Delivers ==
  /\ stage = "read"
  /\ route = "streamed"
  /\ rows' = Collected
  /\ stage' = "done"
  /\ UNCHANGED <<inputVars, page, text, raw, modelVars, row>>

\* /extract answers with the row; that the model call failed is a 503 instead.
Replies ==
  /\ stage = "read"
  /\ route = "extract"
  /\ IF row.failure = "retry" THEN stage' = "failed" /\ UNCHANGED rows
     ELSE stage' = "done" /\ rows' = Collected
  /\ UNCHANGED <<inputVars, page, text, raw, modelVars, row>>

\* The job is cancelled while a page is read or the model is asked.
JobIsCancelled ==
  /\ stage \in {"parse", "ask"}
  /\ route # "extract"
  /\ stage' = "cut"
  /\ UNCHANGED <<inputVars, page, text, raw, modelVars, row, rows>>
=============================================================================
