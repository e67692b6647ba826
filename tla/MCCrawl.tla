------------------------------ MODULE MCCrawl -------------------------------
(***************************************************************************)
(* Instances of Crawl for TLC.                                             *)
(***************************************************************************)
EXTENDS Crawl, TLC

CONSTANTS a, b, c, d, far, away, malformed

\* A short and a long way to the same page, and by the short one to a further
\* page, with links back and to the page itself, and a page too far; and a site
\* that names a link twice, leads to another host, redirects to a page that is
\* also linked and to the other host, and has a malformed link before a good one.
SomeSites ==
  { [hrefs |-> (a :> <<c, b>>) @@ (b :> <<c, a>>) @@ (c :> <<d>>)
                 @@ (d :> <<a, d, far>>) @@ (far :> <<>>) @@ (away :> <<>>),
     redirects |-> [p \in Pages |-> p]],
    [hrefs |-> (a :> <<b, away, b, c>>) @@ (b :> <<far, malformed, d>>)
                 @@ (c :> <<far, malformed, d>>) @@ (d :> <<>>)
                 @@ (far :> <<a>>) @@ (away :> <<a>>),
     redirects |-> [p \in Pages |-> CASE p = c -> b [] p = far -> away
                                       [] OTHER -> p]] }

\* A page denied to all; the seed denied; a page denied to the worker alone.
SomeRobots ==
  { [bot |-> {b}, any |-> {b}], [bot |-> {a}, any |-> {a}],
    [bot |-> {c}, any |-> {}] }
=============================================================================
