----------------------------- MODULE MCDocument -----------------------------
(***************************************************************************)
(* Instances of Document for TLC.                                          *)
(***************************************************************************)
EXTENDS Document

CONSTANTS
  MaxUnits,  (* bound: sentences or paragraphs of a section                   *)
  Lengths,   (* their lengths                                                 *)
  MaxText    (* bound: characters of a text that is cut into windows          *)

-----------------------------------------------------------------------------
(* Documents for the chunker                                               *)

\* Sections of up to MaxUnits units, oversized and empty ones among them.
Sections == UNION {[1..n -> Lengths] : n \in 1..MaxUnits}

\* The split after a full stop leaves an empty sentence only at the end.
Sentences == {x \in Sections : \A k \in 1..Len(x) - 1 : x[k] > 0}

\* Two small sections after one another.
ShortSections == UNION {[1..n -> Lengths \ {0}] : n \in 1..2}

SomeDocuments ==
  [s \in Strategies |->
     CASE s = "sentence" -> {<<x>> : x \in Sentences}
       [] s = "paragraph" -> {<<x>> : x \in Sections}
       [] s = "recursive" -> {<<x>> : x \in Sections}
                               \cup {<<x, y>> : x, y \in ShortSections}
       [] s = "fixed" -> {<< <<n>> >> : n \in 0..MaxText}]

-----------------------------------------------------------------------------
(* Documents to be read                                                    *)

\* The category asks for a vendor and twice, in two spellings, for a total.
SomeFields == <<"vendor_name", "Total", "total">>

\* The model's spelling is its own; a docket was not asked for, and two keys
\* have no latin letter.
SomeKeys ==
  "acme" :> "Vendor Name" @@ "acme2" :> "vendorName" @@ "nine" :> "TOTAL" @@
  "docket" :> "Docket" @@ "seal" :> "kanji" @@ "sigil" :> "kana"

SomeNormals ==
  "vendor_name" :> "vendor_name" @@ "Vendor Name" :> "vendor_name" @@
  "vendorName" :> "vendor_name" @@ "total" :> "total" @@ "Total" :> "total" @@
  "TOTAL" :> "total" @@ "Docket" :> "docket" @@ "docket" :> "docket" @@
  "kanji" :> "none" @@ "kana" :> "none" @@ "none" :> "none"

SomeLengths ==
  "acme" :> 2 @@ "acme2" :> 2 @@ "nine" :> 1 @@ "docket" :> 3 @@ "seal" :> 2 @@ "sigil" :> 1 @@
  "junk" :> 1 @@ "marker" :> 1 @@ "redacted" :> 4

Printed(words) ==
  [layer |-> words, picture |-> Range(words) \cap DOMAIN SomeKeys, renders |-> TRUE]
Scan(facts) == [layer |-> <<>>, picture |-> facts, renders |-> TRUE]
Stamped(facts) == [layer |-> <<"junk">>, picture |-> facts, renders |-> TRUE]
Broken == [layer |-> <<>>, picture |-> {"nine"}, renders |-> FALSE]

\* Printed, scanned and mixed; too long for the model, for the stream and for
\* the renderer; damaged, stamped and empty.
SomePages ==
  { <<Printed(<<"acme", "nine", "junk">>)>>,
    <<Printed(<<"acme", "acme2", "docket">>), Printed(<<"nine">>)>>,
    <<Printed(<<"seal", "nine", "acme2">>), Scan({"docket"})>>,
    <<Printed(<<"docket", "acme", "docket">>), Printed(<<"docket", "junk">>),
      Printed(<<"nine", "seal">>)>>,
    <<Printed(<<"junk", "junk", "acme", "acme">>), Printed(<<"acme2", "nine">>)>>,
    <<Scan({"acme", "nine"})>>,
    <<Scan({"acme"}), Broken, Scan({"seal"})>>,
    <<Scan({"acme"}), Scan({"nine"}), Scan({"docket"})>>,
    <<Broken>>,
    <<Scan({"docket", "seal"}), Broken>>,
    <<Printed(<<"acme", "nine", "docket", "seal">>)>>,
    <<Stamped({"acme", "docket"})>>,
    <<Stamped({"acme"}), Scan({"nine"})>>,
    <<Printed(<<"seal", "sigil">>)>>,
    <<>> }

SomeFiles ==
  [kind : {"pdf"}, pages : SomePages]
    \cup {[kind |-> k, pages |-> p] :
            k \in {"slides", "text"},
            p \in {q \in SomePages : Len(q) <= 2 /\ \A i \in DOMAIN q : q[i].layer # <<>>}}
=============================================================================
