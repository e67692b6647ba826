------------------------------- MODULE Crawl --------------------------------
(***************************************************************************)
(* Fetching a public site (src/sources/__init__.py): one page, or a        *)
(* breadth-first crawl of the pages of one host, and the publisher's       *)
(* robots.txt (src/sources/politeness.py), which every page is checked     *)
(* against.  The parsed robots.txt is cached per origin for an hour, and   *)
(* loaded under a lock; requests for the same site share cache and lock.   *)
(* The site is one origin; pages of other hosts are links that lead away.  *)
(*                                                                         *)
(* Each await ends a step: for the lock, for robots.txt, and for the page  *)
(* (the publisher's Crawl-delay before it is part of that wait).  The HTTP *)
(* client follows redirects by itself: the page it lands on is in no       *)
(* check, guard or set of this code, and the answer goes by the URL that   *)
(* was requested.                                                          *)
(***************************************************************************)
EXTENDS Integers, FiniteSets, Sequences, SequencesExt

CONSTANTS
  Requests,    (* requests to fetch the site                                  *)
  Crawling,    (* those that crawl it                                         *)
  Pages,       (* pages of the site and those it links to                     *)
  Elsewhere,   (* those of other hosts                                        *)
  Seed,        (* where a request starts                                      *)
  Sites,       (* what the site may be: [hrefs, redirects], see links and Hit *)
  Malformed,   (* an href that urljoin or urlparse raises on                  *)
  RobotsFiles, (* what robots.txt may say: [bot, any], the pages it denies    *)
  Unreadable,  (* no rules: absent, empty, gated or unreachable               *)
  MaxPages, MaxDepth,
  MaxExpiries, (* bound: how often the cached rules get too old               *)
  Nobody

ASSUME ConstantsOK ==
  /\ Crawling \subseteq Requests
  /\ Elsewhere \subseteq Pages /\ Seed \in Pages \ Elsewhere
  /\ Sites \subseteq [hrefs : [Pages -> Seq(Pages \cup {Malformed})],
                       redirects : [Pages -> Pages]]
  /\ Malformed \notin Pages
  /\ RobotsFiles \subseteq [bot : SUBSET Pages, any : SUBSET Pages]
  /\ Unreadable \notin RobotsFiles
  /\ MaxPages \in Nat \ {0} /\ {MaxDepth, MaxExpiries} \subseteq Nat
  /\ Nobody \notin Requests

VARIABLES
  site,           (* the site                                                 *)
  rules, fresh,   (* _robots_cache: the rules, and whether within their TTL   *)
  lock,           (* _robots_lock                                             *)
  phase,          (* what each request is doing                               *)
  cur, depth,     (* the page at hand                                         *)
  queue, seen,    (* the crawl's queue of [page, depth], and its seen set     *)
  out,            (* the pages collected                                      *)
  hits,           (* history: the pages requested, in order                   *)
  landed,         (* history: the pages that answered                         *)
  loads, expiries (* history: loads of robots.txt; expiries of the cache      *)

cacheVars == <<rules, fresh, lock, loads, expiries>>
crawlVars == <<cur, depth, queue, seen, out, hits, landed>>
vars == <<site, cacheVars, phase, crawlVars>>

Checks  == {"check", "wait", "load"}
Ended   == {"done", "refused"}

TypeOK ==
  /\ site \in Sites
  /\ rules \in RobotsFiles \cup {Unreadable}
  /\ {fresh} \subseteq BOOLEAN
  /\ lock \in Requests \cup {Nobody}
  /\ phase \in [Requests -> Checks \cup {"next", "get"} \cup Ended]
  /\ \A r \in Requests :
       /\ cur[r] \in Pages
       /\ depth[r] \in 0..MaxDepth
       /\ \A e \in Range(queue[r]) :
            e.page \in Pages /\ e.depth \in 0..MaxDepth
       /\ Range(hits[r]) \subseteq Pages \ Elsewhere
       /\ landed[r] \subseteq Pages
       /\ seen[r] \subseteq Pages
       /\ out[r] \in Seq(Pages) /\ Len(out[r]) <= MaxPages
  /\ loads \in Nat
  /\ expiries \in 0..MaxExpiries

Init ==
  /\ site \in Sites
  /\ rules = Unreadable
  /\ fresh = FALSE
  /\ lock = Nobody
  /\ phase = [r \in Requests |-> "check"]
  /\ cur = [r \in Requests |-> Seed]
  /\ depth = [r \in Requests |-> 0]
  /\ queue = [r \in Requests |->
                IF r \in Crawling THEN <<[page |-> Seed, depth |-> 0]>> ELSE <<>>]
  /\ seen = [r \in Requests |-> {}]
  /\ out = [r \in Requests |-> <<>>]
  /\ hits = [r \in Requests |-> <<>>]
  /\ landed = [r \in Requests |-> {}]
  /\ loads = 0
  /\ expiries = 0

GoTo(r, p) == phase' = [phase EXCEPT ![r] = p]

-----------------------------------------------------------------------------
(* Consent                                                                 *)

\* RobotFileParser.can_fetch for the worker's name, or for anyone: what is denied
\* to the worker alone is permitted, because it is permitted to anyone.
Permits(file, p) == file = Unreadable \/ p \notin file.bot \/ p \notin file.any

\* assert_crawl_allowed, given the rules.  A page that is denied is passed over,
\* a seed that is denied ends the request; the seed is checked once before the
\* crawl and again as its first page.
Decide(r, file) ==
  LET before == seen[r] = {} IN
  GoTo(r, IF Permits(file, cur[r])
          THEN IF before /\ r \in Crawling THEN "next" ELSE "get"
          ELSE IF before THEN "refused" ELSE "next")

\* Mutant: rules of any age are good enough.
CheckAnyAge(r) ==
  /\ phase[r] = "check"
  /\ IF loads > 0 THEN Decide(r, rules) ELSE GoTo(r, "wait")
  /\ UNCHANGED <<site, cacheVars, crawlVars>>

Check(r) ==
  /\ phase[r] = "check"
  /\ IF fresh THEN Decide(r, rules) ELSE GoTo(r, "wait")
  /\ UNCHANGED <<site, cacheVars, crawlVars>>

\* Mutant: who gets the lock loads the rules.
AcquireUnchecked(r) ==
  /\ phase[r] = "wait"
  /\ lock = Nobody
  /\ lock' = r
  /\ GoTo(r, "load")
  /\ UNCHANGED <<site, rules, fresh, loads, expiries, crawlVars>>

\* The lock is had: another request may have loaded the rules meanwhile.
Acquire(r) ==
  /\ phase[r] = "wait"
  /\ lock = Nobody
  /\ IF fresh THEN Decide(r, rules) /\ UNCHANGED lock
     ELSE GoTo(r, "load") /\ lock' = r
  /\ UNCHANGED <<site, rules, fresh, loads, expiries, crawlVars>>

\* Mutant: an error leaves the lock taken.
LoadKeepsLock(r) ==
  /\ phase[r] = "load"
  /\ loads' = loads + 1
  /\ \E file \in RobotsFiles \cup {Unreadable} :
       /\ rules' = file
       /\ Decide(r, file)
       /\ lock' = IF file = Unreadable THEN r ELSE Nobody
  /\ fresh' = TRUE
  /\ UNCHANGED <<site, expiries, crawlVars>>

\* robots.txt is answered, or not.
Load(r) ==
  /\ phase[r] = "load"
  /\ loads' = loads + 1
  /\ \E file \in RobotsFiles \cup {Unreadable} : rules' = file /\ Decide(r, file)
  /\ fresh' = TRUE
  /\ lock' = Nobody
  /\ UNCHANGED <<site, expiries, crawlVars>>

\* The cached rules get too old.
Expire ==
  /\ fresh
  /\ expiries < MaxExpiries
  /\ fresh' = FALSE
  /\ expiries' = expiries + 1
  /\ UNCHANGED <<site, rules, lock, loads, phase, crawlVars>>

-----------------------------------------------------------------------------
(* Crawling                                                                *)

More(r) == queue[r] # <<>> /\ Len(out[r]) < MaxPages

\* Mutant: the last link found is followed first.
NextEntryLast(r) == Len(queue[r])
\* Where in the queue the entry is that is popped.
NextEntry(r) == 1

\* Mutant: only the seed is remembered as seen.
VisitsUnseen(r, e) ==
  /\ cur' = [cur EXCEPT ![r] = e.page]
  /\ depth' = [depth EXCEPT ![r] = e.depth]
  /\ GoTo(r, IF e.page \in Elsewhere THEN "next" ELSE "check")
  /\ seen' = [seen EXCEPT ![r] = @ \cup {Seed}]

Visits(r, e) ==
  /\ cur' = [cur EXCEPT ![r] = e.page]
  /\ depth' = [depth EXCEPT ![r] = e.depth]
  /\ GoTo(r, IF e.page \in Elsewhere THEN "next" ELSE "check")
  /\ seen' = [seen EXCEPT ![r] = @ \cup {e.page}]

Pop(r) ==
  /\ phase[r] = "next"
  /\ More(r)
  /\ queue' = [queue EXCEPT ![r] = RemoveAt(@, NextEntry(r))]
  /\ LET e == queue[r][NextEntry(r)] IN
       IF e.page \in seen[r] \/ e.depth > MaxDepth
       THEN UNCHANGED <<cur, depth, phase, seen>>
       ELSE Visits(r, e)
  /\ UNCHANGED <<site, cacheVars, out, hits, landed>>

CrawlEnds(r) ==
  /\ phase[r] = "next"
  /\ ~More(r)
  /\ GoTo(r, "done")
  /\ UNCHANGED <<site, cacheVars, crawlVars>>

\* The page at hand is requested; the one it redirects to, or itself, answers.
Hit(r) ==
  /\ phase[r] = "get"
  /\ hits' = [hits EXCEPT ![r] = Append(@, cur[r])]
  /\ landed' = [landed EXCEPT ![r] = @ \cup {site.redirects[cur[r]]}]
  /\ UNCHANGED <<site, cacheVars, cur, depth, seen>>

\* The links before the first that cannot be parsed: it ends the loop.
Readable(list) ==
  SubSeq(list, 1,
         CHOOSE n \in 0..Len(list) :
           /\ \A i \in 1..n : list[i] # Malformed
           /\ n < Len(list) => list[n + 1] = Malformed)

\* The links read in the answer to a request for each page.
links == [p \in Pages |-> Readable(site.hrefs[p])]

\* The links on a page that are worth following, at depth d, when the pages in
\* known have been seen.
Worthwhile(list, known, d) ==
  LET upTo[n \in 0..Len(list)] ==
        IF n = 0 THEN <<>>
        ELSE IF list[n] \in known \cup Elsewhere THEN upTo[n - 1]
        ELSE Append(upTo[n - 1], [page |-> list[n], depth |-> d])
  IN  upTo[Len(list)]

Found(r) ==
  IF depth[r] < MaxDepth THEN Worthwhile(links[cur[r]], seen[r], depth[r] + 1)
  ELSE <<>>

\* The page is collected before its links are parsed, and stays so when one of
\* them raises.
GetPage(r) ==
  /\ Hit(r)
  /\ out' = [out EXCEPT ![r] = Append(@, cur[r])]
  /\ IF r \in Crawling
     THEN queue' = [queue EXCEPT ![r] = @ \o Found(r)] /\ GoTo(r, "next")
     ELSE GoTo(r, "done") /\ UNCHANGED queue

\* An error, a timeout, a status that is not 200, not HTML, before the page is
\* collected: a crawl goes on.
GetFails(r) ==
  /\ Hit(r)
  /\ GoTo(r, IF r \in Crawling THEN "next" ELSE "refused")
  /\ UNCHANGED <<out, queue>>

-----------------------------------------------------------------------------

RequestSteps(r) ==
  \/ Check(r)
  \/ Acquire(r)
  \/ Load(r)
  \/ Pop(r)
  \/ CrawlEnds(r)
  \/ GetPage(r)
  \/ GetFails(r)

Next == Expire \/ \E r \in Requests : RequestSteps(r)

Spec == Init /\ [][Next]_vars

\* The lock is fair, and every fetch has a timeout.
FairSpec == Spec /\ \A r \in Requests : WF_vars(RequestSteps(r))

-----------------------------------------------------------------------------
(* Properties                                                              *)

\* A page is cleared for its request only by rules that permit it and are within
\* their TTL at that moment: requests that share the cache cannot make each other
\* go by what the publisher no longer says.  The request itself may follow later,
\* after the Crawl-delay and when the rules have got too old; the page it is
\* redirected to is not cleared at all; and rules that deny a page to ShielvaBot
\* alone clear it, see Permits.
ConsentIsCurrent ==
  [][\A r \in Requests :
       phase[r] \in Checks /\ phase'[r] = "get" =>
         fresh' /\ Permits(rules', cur[r])]_vars

\* A site is not asked twice for the same thing: no URL is requested twice for
\* one ingestion, however pages link to each other; robots.txt is not loaded again
\* before the rules got too old, however many requests wait for it.  (A page that
\* redirects lead to may answer for several URLs, and be requested itself.)
NothingIsAskedTwice ==
  /\ \A r \in Requests : IsInjective(hits[r])
  /\ loads <= expiries + 1

\* The pages of got that n links or fewer lead to from the seed, over pages of
\* got, for each n.
Within(got) ==
  LET reach[n \in 0..MaxDepth] ==
        IF n = 0 THEN {Seed} \cap got
        ELSE reach[n - 1] \cup (got \cap UNION {Range(links[p]) : p \in reach[n - 1]})
  IN  reach

\* A crawl that did not stop at MaxPages has visited every page that MaxDepth
\* links lead to over pages it collected, and has collected none beyond: a page
\* found first on a long way is not taken for out of reach.  Only readable links
\* count: those behind a malformed one on the same page are lost, while the page
\* is collected and the crawl goes on.
CrawlIsComplete ==
  \A r \in Crawling :
    LET near == Within(Range(out[r])) IN
    phase[r] = "done" /\ Len(out[r]) < MaxPages =>
      /\ Range(out[r]) = near[MaxDepth]
      /\ \A n \in 0..MaxDepth - 1 : \A p \in near[n] :
           Range(links[p]) \ Elsewhere \subseteq seen[r]

\* Every request ends.
RequestsEnd == \A r \in Requests : <>(phase[r] \in Ended)
=============================================================================
