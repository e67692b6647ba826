-------------------------- MODULE MCKnowledgeBase --------------------------
(***************************************************************************)
(* Instances of KnowledgeBase for TLC.                                     *)
(***************************************************************************)
EXTENDS KnowledgeBase, TLC

CONSTANTS a, b, d1, d2, v1, v2, e1, none

\* Job a brings the first version of d1 (three chunks, two batches) and d2, which is
\* one chunk long if it can be fetched and empty otherwise;
\* job b a second version of d1 that is one chunk long.
TwoJobs ==
  (a :> <<[doc |-> d1, version |-> v1], [doc |-> d2, version |-> v1]>>)
    @@ (b :> <<[doc |-> d1, version |-> v2]>>)

Sizes == (d1 :> (v1 :> 3 @@ v2 :> 1)) @@ (d2 :> (v1 :> 1 @@ v2 :> 0))

\* The edited chunk is one that only the first version has.
EditedChunks == e1 :> <<d1, 2>>
=============================================================================
