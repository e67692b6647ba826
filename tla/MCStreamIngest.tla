--------------------------- MODULE MCStreamIngest ---------------------------
(***************************************************************************)
(* Instances of StreamIngest for TLC.                                      *)
(***************************************************************************)
EXTENDS StreamIngest

\* Lines with and without the keyword, one at the end; a line longer than the
\* filter's limit; runs of spaces and newlines; wide letters at either end, in a
\* row and in a line with the keyword; no text at all.
SomeTexts ==
  { <<"a", "b", "nl", "key", "c", "nl", "d", "e">>,
    <<"a", "nl", "b", "c", "nl", "key">>,
    <<"a", "b", "c", "d", "e", "f", "key", "nl", "g", "h", "nl", "key", "i">>,
    <<" ", "a", " ", " ", "b", "nl", "nl", "nl", "c", " ">>,
    <<"a", "b", "c", "d", "e", "f", "g", "h", "i", "j", "k", "l">>,
    <<"a", "key", "b", "nl", "c", "d", "nl", "nl", "nl", "e", " ", " ", "f">>,
    <<"w", "a", "w", "w", "nl", "b", "w", "key", "nl", "w">>,
    <<>> }

\* Two words.
TwoWords == { <<"a", "b", " ", "c", "d">> }
=============================================================================
