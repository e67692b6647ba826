----------------------------- MODULE CrawlProofs -----------------------------
(***************************************************************************)
(* Proofs about crawling and consent, for every site, every robots.txt,    *)
(* every limit and any number of requests that share the cached rules.     *)
(***************************************************************************)
EXTENDS Crawl, FiniteSetTheorems, SequenceTheorems, WellFoundedInduction, TLAPS

Phases == Checks \cup {"next", "get"} \cup Ended

\* The lock belongs to the request that loads robots.txt, and is only taken
\* while the cached rules are too old; so each load follows an expiry of its
\* own, but for the first.
LoadInv ==
  /\ phase \in [Requests -> Phases]
  /\ fresh \in BOOLEAN
  /\ loads \in Nat
  /\ expiries \in Nat
  /\ \A r \in Requests : phase[r] = "load" <=> lock = r
  /\ lock # Nobody => lock \in Requests /\ ~fresh
  /\ loads <= expiries + 1
  /\ ~fresh => loads <= expiries

\* A crawl has seen every page it requests, before it does; the page at hand
\* has not been requested.  A request for one page goes no further than that.
\* (Which pages the links of a site lead to does not matter, so that hits[r] is
\* only known as a sequence of its own elements.)
VisitInv ==
  /\ DOMAIN hits = Requests /\ DOMAIN cur = Requests /\ DOMAIN seen = Requests
  /\ \A r \in Requests :
       /\ hits[r] \in Seq(ToSet(hits[r]))
       /\ IsInjective(hits[r])
       /\ phase[r] \in Checks \cup {"get"} => cur[r] \notin ToSet(hits[r])
       /\ r \in Crawling => ToSet(hits[r]) \subseteq seen[r]
       /\ r \in Crawling /\ phase[r] \in Checks /\ seen[r] # {} => cur[r] \in seen[r]
       /\ r \in Crawling /\ phase[r] = "get" => cur[r] \in seen[r]
       /\ r \notin Crawling => seen[r] = {} /\ phase[r] # "next"

\* What Decide can lead to.
LEMMA Decided ==
  ASSUME LoadInv, NEW r \in Requests, NEW file, Decide(r, file)
  PROVE  /\ phase' \in [Requests -> Phases]
         /\ \A q \in Requests \ {r} : phase'[q] = phase[q]
         /\ phase'[r] \in {"next", "get", "refused"}
         /\ phase'[r] = "get" => /\ Permits(file, cur[r])
                                 /\ r \in Crawling => seen[r] # {}
         /\ phase'[r] = "next" => seen[r] # {} \/ r \in Crawling
BY DEF LoadInv, Decide, GoTo, Phases, Checks, Ended

LEMMA WentTo ==
  ASSUME LoadInv, NEW r \in Requests, NEW p \in Phases, GoTo(r, p)
  PROVE  /\ phase' \in [Requests -> Phases]
         /\ \A q \in Requests \ {r} : phase'[q] = phase[q]
         /\ phase'[r] = p
BY DEF LoadInv, GoTo

\* The steps of a request that touch neither the lock nor what is cached: it
\* goes on from a phase other than "load" to another such phase.
LEMMA LoadKept ==
  ASSUME LoadInv, UNCHANGED cacheVars, NEW r \in Requests,
         phase' \in [Requests -> Phases],
         \A q \in Requests \ {r} : phase'[q] = phase[q],
         phase[r] # "load", phase'[r] # "load"
  PROVE  LoadInv'
<1>1. UNCHANGED <<fresh, lock, loads, expiries>>
  BY DEF cacheVars
<1>2. \A q \in Requests : phase'[q] = "load" <=> phase[q] = "load"
  OBVIOUS
<1>3. QED
  BY <1>1, <1>2 DEF LoadInv

LEMMA LoadStep == LoadInv /\ [Next]_vars => LoadInv'
<1> SUFFICES ASSUME LoadInv, [Next]_vars PROVE LoadInv'
  OBVIOUS
<1>0. {"load", "wait", "next", "get", "check", "done", "refused"} \subseteq Phases
  BY DEF Phases, Checks, Ended
<1>1. ASSUME NEW r \in Requests, Check(r) PROVE LoadInv'
  BY <1>0, <1>1, Decided, WentTo, LoadKept DEF Check
<1>2. ASSUME NEW r \in Requests, Acquire(r) PROVE LoadInv'
  <2>1. CASE fresh
    BY <1>2, <2>1, Decided, LoadKept DEF Acquire, cacheVars
  <2>2. CASE ~fresh
    <3>1. /\ lock = Nobody /\ lock' = r
          /\ UNCHANGED <<fresh, loads, expiries>>
          /\ GoTo(r, "load")
      BY <1>2, <2>2 DEF Acquire
    <3>2. /\ phase' \in [Requests -> Phases]
          /\ \A q \in Requests \ {r} : phase'[q] = phase[q]
          /\ phase'[r] = "load"
      BY <1>0, <3>1, WentTo
    <3>3. \A q \in Requests : phase[q] # "load"
      BY <3>1, ConstantsOK DEF LoadInv
    <3>4. QED
      BY <2>2, <3>1, <3>2, <3>3 DEF LoadInv
  <2>3. QED
    BY <2>1, <2>2 DEF LoadInv
<1>3. ASSUME NEW r \in Requests, Load(r) PROVE LoadInv'
  <2>1. /\ phase[r] = "load" /\ lock = r
        /\ loads' = loads + 1
        /\ fresh' = TRUE /\ lock' = Nobody /\ expiries' = expiries
    BY <1>3 DEF Load, LoadInv
  <2>2. r # Nobody
    BY ConstantsOK
  <2>3. ~fresh /\ loads <= expiries
    BY <2>1, <2>2 DEF LoadInv
  <2>4. /\ phase' \in [Requests -> Phases]
        /\ \A q \in Requests \ {r} : phase'[q] = phase[q]
        /\ phase'[r] # "load"
    BY <1>3, Decided DEF Load
  <2>5. \A q \in Requests : phase'[q] # "load"
    BY <2>1, <2>4 DEF LoadInv
  <2>6. loads' \in Nat /\ loads' <= expiries' + 1
    BY <2>1, <2>3 DEF LoadInv
  <2>7. \A q \in Requests : q # Nobody
    BY ConstantsOK
  <2>8. QED
    BY <2>1, <2>4, <2>5, <2>6, <2>7 DEF LoadInv
<1>4. CASE Expire
  <2>1. /\ fresh /\ ~fresh' /\ fresh' \in BOOLEAN
        /\ expiries' = expiries + 1
        /\ UNCHANGED <<lock, loads, phase>>
    BY <1>4 DEF Expire
  <2>2. lock = Nobody
    BY <2>1 DEF LoadInv
  <2>3. QED
    BY <2>1, <2>2 DEF LoadInv
<1>5. ASSUME NEW r \in Requests, Pop(r) PROVE LoadInv'
  <2>1. CASE UNCHANGED phase
    BY <1>5, <2>1 DEF Pop, cacheVars, LoadInv
  <2>2. CASE \E p \in {"next", "check"} : GoTo(r, p)
    BY <1>0, <1>5, <2>2, WentTo, LoadKept DEF Pop
  <2>3. QED
    BY <1>5, <2>1, <2>2 DEF Pop, Visits
<1>6. ASSUME NEW r \in Requests,
             CrawlEnds(r) \/ GetPage(r) \/ GetFails(r)
      PROVE  LoadInv'
  <2>1. /\ \E p \in {"done", "next", "refused"} : GoTo(r, p)
        /\ phase[r] \in {"next", "get"}
        /\ UNCHANGED cacheVars
    BY <1>6 DEF CrawlEnds, GetPage, GetFails, Hit
  <2>2. QED
    BY <1>0, <2>1, WentTo, LoadKept
<1>7. CASE UNCHANGED vars
  BY <1>7 DEF vars, cacheVars, LoadInv
<1>8. QED
  BY <1>1, <1>2, <1>3, <1>4, <1>5, <1>6, <1>7 DEF Next, RequestSteps

\* Asking for a new page.
LEMMA AppendNew ==
  ASSUME NEW s, s \in Seq(ToSet(s)), IsInjective(s), NEW x, x \notin ToSet(s)
  PROVE  /\ ToSet(Append(s, x)) = ToSet(s) \cup {x}
         /\ Append(s, x) \in Seq(ToSet(Append(s, x)))
         /\ IsInjective(Append(s, x))
<1> DEFINE S == ToSet(s) \cup {x}
<1>1. s \in Seq(S) /\ x \in S
  BY SeqMonotonic
<1> HIDE DEF S
<1>2. /\ Append(s, x) \in Seq(S)
      /\ Len(s) \in Nat /\ DOMAIN s = 1..Len(s)
      /\ DOMAIN Append(s, x) = 1..(Len(s) + 1)
      /\ \A i \in 1..Len(s) : Append(s, x)[i] = s[i]
      /\ Append(s, x)[Len(s) + 1] = x
  BY <1>1, AppendProperties
<1>3. \A i \in 1..Len(s) : s[i] # x
  BY <1>2 DEF ToSet
<1>4. \A e : e \in ToSet(Append(s, x)) <=> e \in ToSet(s) \cup {x}
  <2>1. \A i \in DOMAIN Append(s, x) : i \in DOMAIN s \/ i = Len(s) + 1
    BY <1>2
  <2>2. DOMAIN s \subseteq DOMAIN Append(s, x) /\ Len(s) + 1 \in DOMAIN Append(s, x)
    BY <1>2
  <2>3. QED
    BY <1>2, <2>1, <2>2 DEF ToSet
<1>5. IsInjective(Append(s, x))
  BY <1>2, <1>3 DEF IsInjective
<1>6. QED
  BY <1>2, <1>4, <1>5 DEF S

\* A step of r that requests nothing, and keeps to what r has seen.
LEMMA VisitKept ==
  ASSUME LoadInv, VisitInv, NEW r \in Requests, UNCHANGED <<hits, cur, seen>>,
         \A q \in Requests \ {r} : phase'[q] = phase[q],
         \/ /\ phase[r] \in Checks
            /\ phase'[r] \in Checks
         \/ /\ phase[r] \in Checks
            /\ phase'[r] = "get"
            /\ r \in Crawling => seen[r] # {}
         \/ phase'[r] \in Ended
         \/ phase'[r] = "next" /\ r \in Crawling
  PROVE  VisitInv'
BY DEF VisitInv, Checks, Ended

LEMMA VisitStep == LoadInv /\ VisitInv /\ [Next]_vars => VisitInv'
<1> SUFFICES ASSUME LoadInv, VisitInv, [Next]_vars PROVE VisitInv'
  OBVIOUS
<1>0. {"load", "wait", "next", "get", "check", "done", "refused"} \subseteq Phases
  BY DEF Phases, Checks, Ended
<1>1. ASSUME NEW r \in Requests, NEW file, Decide(r, file),
             phase[r] \in Checks, UNCHANGED <<hits, cur, seen>>
      PROVE  VisitInv'
  <2>1. phase'[r] = "next" => r \in Crawling
    BY <1>1, Decided DEF VisitInv
  <2>2. QED
    BY <1>1, <2>1, Decided, VisitKept DEF Ended
<1>2. ASSUME NEW r \in Requests, Check(r) \/ Acquire(r) \/ Load(r)
      PROVE  VisitInv'
  <2>1. UNCHANGED <<hits, cur, seen>> /\ phase[r] \in Checks
    BY <1>2 DEF Check, Acquire, Load, crawlVars, Checks
  <2>2. CASE \E p \in {"wait", "load"} : GoTo(r, p)
    BY <1>0, <2>1, <2>2, WentTo, VisitKept DEF Checks
  <2>3. CASE \E file : Decide(r, file)
    BY <1>1, <2>1, <2>3
  <2>4. QED
    BY <1>2, <2>2, <2>3 DEF Check, Acquire, Load
<1>3. ASSUME NEW r \in Requests, Pop(r) PROVE VisitInv'
  <2>1. CASE UNCHANGED <<cur, phase, seen>>
    BY <1>3, <2>1 DEF Pop, VisitInv
  <2>2. ASSUME NEW e, e.page \notin seen[r], Visits(r, e) PROVE VisitInv'
    <3>1. r \in Crawling /\ hits' = hits
      BY <1>3 DEF Pop, VisitInv
    <3>2. /\ \A q \in Requests \ {r} :
               phase'[q] = phase[q] /\ cur'[q] = cur[q] /\ seen'[q] = seen[q]
          /\ DOMAIN cur' = Requests /\ DOMAIN seen' = Requests
          /\ phase'[r] \in {"next", "check"}
          /\ cur'[r] = e.page
          /\ seen'[r] = seen[r] \cup {e.page}
      BY <2>2 DEF Visits, GoTo, VisitInv, LoadInv
    <3>3. e.page \notin ToSet(hits[r])
      BY <2>2, <3>1 DEF VisitInv
    <3>4. QED
      BY <3>1, <3>2, <3>3 DEF VisitInv, Checks
  <2>3. QED
    <3> DEFINE e == queue[r][NextEntry(r)]
    <3>1. \/ UNCHANGED <<cur, phase, seen>>
          \/ e.page \notin seen[r] /\ Visits(r, e)
      BY <1>3 DEF Pop
    <3>2. QED
      BY <2>1, <2>2, <3>1
<1>4. ASSUME NEW r \in Requests, CrawlEnds(r) PROVE VisitInv'
  BY <1>0, <1>4, WentTo, VisitKept DEF CrawlEnds, crawlVars, Ended
<1>5. ASSUME NEW r \in Requests, GetPage(r) \/ GetFails(r) PROVE VisitInv'
  <2>1. /\ phase[r] = "get"
        /\ hits' = [hits EXCEPT ![r] = Append(@, cur[r])]
        /\ UNCHANGED <<cur, seen>>
    BY <1>5 DEF GetPage, GetFails, Hit
  <2>2. /\ \A q \in Requests \ {r} : phase'[q] = phase[q]
        /\ phase'[r] \in {"next", "done", "refused"}
        /\ phase'[r] = "next" => r \in Crawling
    BY <1>5 DEF GetPage, GetFails, GoTo, LoadInv
  <2>3. /\ DOMAIN hits' = Requests
        /\ hits'[r] = Append(hits[r], cur[r])
        /\ \A q \in Requests \ {r} : hits'[q] = hits[q]
    BY <2>1 DEF VisitInv
  <2>4. cur[r] \notin ToSet(hits[r])
    BY <2>1 DEF VisitInv, Checks
  <2>5. /\ ToSet(hits'[r]) = ToSet(hits[r]) \cup {cur[r]}
        /\ hits'[r] \in Seq(ToSet(hits'[r]))
        /\ IsInjective(hits'[r])
    BY <2>3, <2>4, AppendNew DEF VisitInv
  <2>6. QED
    BY <2>1, <2>2, <2>3, <2>5 DEF VisitInv, Checks
<1>6. CASE Expire \/ UNCHANGED vars
  BY <1>6 DEF Expire, vars, crawlVars, VisitInv
<1>7. QED
  BY <1>2, <1>3, <1>4, <1>5, <1>6 DEF Next, RequestSteps

LEMMA Visiting == Spec => [](LoadInv /\ VisitInv)
<1>1. Init => LoadInv
  <2> SUFFICES ASSUME Init PROVE LoadInv
    OBVIOUS
  <2>1. phase \in [Requests -> Phases] /\ fresh = FALSE
    BY DEF Init, Phases, Checks
  <2>2. /\ lock = Nobody /\ loads = 0 /\ expiries = 0
        /\ \A r \in Requests : phase[r] # "load" /\ r # Nobody
    BY ConstantsOK DEF Init
  <2>3. loads \in Nat /\ expiries \in Nat /\ loads <= expiries /\ loads <= expiries + 1
    BY <2>2
  <2>4. fresh \in BOOLEAN
    BY <2>1
  <2>5. \A r \in Requests : phase[r] = "load" <=> lock = r
    BY <2>2
  <2>6. QED
    BY <2>1, <2>2, <2>3, <2>4, <2>5, Zenon DEF LoadInv
<1>2. Init => VisitInv
  <2> SUFFICES ASSUME Init PROVE VisitInv
    OBVIOUS
  <2>1. \A r \in Requests : /\ ToSet(hits[r]) = {}
                            /\ hits[r] \in Seq(ToSet(hits[r]))
                            /\ IsInjective(hits[r])
    BY DEF Init, IsInjective, ToSet
  <2>2. QED
    BY <2>1 DEF Init, VisitInv
<1>3. QED
  BY <1>1, <1>2, LoadStep, VisitStep, PTL DEF Spec

(***************************************************************************)
(* Consent, and asking once                                                *)
(***************************************************************************)

\* No URL is requested twice for one ingestion, and robots.txt is loaded at most
\* once for each time the cached rules got too old, and once to begin with,
\* whatever number of requests find it missing at the same time.
THEOREM AskedOnce == Spec => []NothingIsAskedTwice
<1>1. LoadInv /\ VisitInv => NothingIsAskedTwice
  BY DEF LoadInv, VisitInv, NothingIsAskedTwice
<1>2. QED
  BY <1>1, Visiting, PTL

\* Every page is cleared by rules that permit it, to ShielvaBot or to anyone, and
\* are within their TTL at that moment, also for a request that waited for another
\* one to load them.  It says nothing of the rules at the moment of the request,
\* nor of the page a redirect leads to.
THEOREM ConsentHeld == Spec => ConsentIsCurrent
<1>1. ASSUME LoadInv, Next, NEW r \in Requests,
             phase[r] \in Checks, phase'[r] = "get"
      PROVE  fresh' /\ Permits(rules', cur[r])
  <2>1. phase[r] \notin {"get", "next"} /\ r \in DOMAIN phase
    BY <1>1 DEF Checks, LoadInv
  <2>2. phase'[r] # phase[r]
    BY <1>1, <2>1
  <2>3. PICK q \in Requests : RequestSteps(q)
    BY <1>1, <2>2 DEF Next, Expire
  <2>4. q = r
    <3>1. \/ phase' = phase
          \/ \E p : phase' = [phase EXCEPT ![q] = p]
      BY <2>3 DEF RequestSteps, Check, Acquire, Load, Pop, Visits, CrawlEnds,
                  GetPage, GetFails, Decide, GoTo
    <3>2. QED
      BY <1>1, <2>2, <3>1 DEF LoadInv
  <2>5. Check(r) \/ Acquire(r) \/ Load(r)
    BY <2>1, <2>3, <2>4 DEF RequestSteps, Pop, CrawlEnds, GetPage, GetFails, Hit
  <2>6. /\ \A p : GoTo(r, p) => p = "get"
        /\ \A file : Decide(r, file) => Permits(file, cur[r])
    BY <1>1, Decided DEF GoTo, LoadInv
  <2>7. CASE Check(r)
    <3>1. fresh /\ Decide(r, rules) /\ UNCHANGED <<fresh, rules>>
      BY <2>6, <2>7 DEF Check, cacheVars
    <3>2. QED
      BY <2>6, <3>1
  <2>8. CASE Acquire(r)
    <3>1. fresh /\ Decide(r, rules) /\ UNCHANGED <<fresh, rules>>
      BY <2>6, <2>8 DEF Acquire
    <3>2. QED
      BY <2>6, <3>1
  <2>9. CASE Load(r)
    BY <2>6, <2>9 DEF Load
  <2>10. QED
    BY <2>5, <2>7, <2>8, <2>9
<1>2. LoadInv /\ [Next]_vars =>
        [\A r \in Requests :
           phase[r] \in Checks /\ phase'[r] = "get" =>
             fresh' /\ Permits(rules', cur[r])]_vars
  BY <1>1
<1>3. QED
  BY <1>2, Visiting, PTL DEF Spec, ConsentIsCurrent

(***************************************************************************)
(* Loops                                                                   *)
(***************************************************************************)

Below == {ss \in Nat \X Nat : ss[1] < ss[2]}

\* Numbers have a least one.
LEMMA NatMin ==
  ASSUME NEW T \in SUBSET Nat, T # {}
  PROVE  \E x \in T : \A y \in T : x <= y
<1>1. IsWellFoundedOn(Below, Nat)
  BY NatLessThanWellFounded DEF OpToRel, Below
<1>2. PICK x \in T : \A y \in T : ~(<<y, x>> \in Below)
  BY <1>1, WFMin
<1>3. ASSUME NEW y \in T PROVE x <= y
  <2>1. x \in Nat /\ y \in Nat
    OBVIOUS
  <2>2. y < x => <<y, x>> \in Nat \X Nat /\ <<y, x>>[1] < <<y, x>>[2]
    BY <2>1
  <2>3. ~(y < x)
    BY <1>2, <2>2 DEF Below
  <2>4. QED
    BY <2>1, <2>3
<1>4. QED
  BY <1>3

\* What holds before the first turn of a loop, and after a turn if it held
\* before, holds after each.
LEMMA Upwards ==
  ASSUME NEW N \in Nat, NEW S, 0 \in S, \A n \in 1..N : n - 1 \in S => n \in S
  PROVE  0..N \subseteq S
<1> DEFINE T == (0..N) \ S
<1> SUFFICES ASSUME T # {} PROVE FALSE
  OBVIOUS
<1>1. T \in SUBSET Nat
  OBVIOUS
<1>2. PICK x \in T : \A y \in T : x <= y
  BY <1>1, NatMin
<1>3. x \in 1..N /\ x - 1 \in 0..N /\ ~(x <= x - 1)
  OBVIOUS
<1>4. x - 1 \in S
  BY <1>2, <1>3
<1>5. QED
  BY <1>2, <1>3, <1>4

\* m has the values of a variable that is b before a loop and changed to
\* F[n][..] by its n-th turn.
Iterates(m, N, b, F) == m[0] = b /\ \A n \in 1..N : m[n] = F[n][m[n - 1]]

\* Every loop has them.
LEMMA Iterated ==
  ASSUME NEW D, NEW N \in Nat, NEW b \in D, NEW F \in [1..N -> [D -> D]]
  PROVE  \E m \in [0..N -> D] : Iterates(m, N, b, F)
<1> USE DEF Iterates
<1> DEFINE S == {n \in 0..N : \E m \in [0..n -> D] : Iterates(m, n, b, F)}
<1>1. 0 \in S
  <2> DEFINE m == [i \in 0..0 |-> b]
  <2>1. m \in [0..0 -> D] /\ Iterates(m, 0, b, F)
    OBVIOUS
  <2>2. \E p \in [0..0 -> D] : Iterates(p, 0, b, F)
    BY <2>1
  <2>3. QED
    BY <2>2
<1>2. ASSUME NEW n \in 1..N, n - 1 \in S PROVE n \in S
  <2>1. PICK m \in [0..n - 1 -> D] : Iterates(m, n - 1, b, F)
    BY <1>2
  <2> DEFINE x == F[n][m[n - 1]]
             p == [i \in 0..n |-> IF i = n THEN x ELSE m[i]]
  <2>2. m[n - 1] \in D
    OBVIOUS
  <2>3. x \in D
    BY <2>2
  <2> HIDE DEF x
  <2>4. p \in [0..n -> D]
    BY <2>3
  <2>5. \A i \in 0..n - 1 : p[i] = m[i]
    OBVIOUS
  <2>6. p[n] = x /\ p[n - 1] = m[n - 1] /\ p[0] = m[0]
    OBVIOUS
  <2>7. ASSUME NEW i \in 1..n - 1 PROVE p[i] = F[i][p[i - 1]]
    <3>1. i \in 0..n - 1 /\ i - 1 \in 0..n - 1
      OBVIOUS
    <3>2. QED
      BY <2>1, <2>5, <3>1
  <2>8. p[n] = F[n][p[n - 1]]
    BY <2>6 DEF x
  <2> HIDE DEF p
  <2>9. \A i \in 1..n : i = n \/ i \in 1..n - 1
    OBVIOUS
  <2>10. Iterates(p, n, b, F)
    BY <2>1, <2>6, <2>7, <2>8, <2>9
  <2>11. n \in 0..N
    OBVIOUS
  <2> HIDE DEF Iterates
  <2>12. QED
    BY <2>4, <2>10, <2>11
<1> HIDE DEF S
<1>3. 0..N \subseteq S
  BY <1>1, <1>2, Upwards
<1>4. N \in S
  BY <1>3
<1>5. QED
  BY <1>4 DEF S

TurnAlike(m, p, N) ==
  m[0] = p[0] /\ \A n \in 1..N : m[n - 1] = p[n - 1] => m[n] = p[n]

\* Two loops that start and turn alike end alike.
LEMMA Alike ==
  ASSUME NEW N \in Nat, NEW m, NEW p, TurnAlike(m, p, N)
  PROVE  \A n \in 0..N : m[n] = p[n]
<1>0. m[0] = p[0] /\ \A n \in 1..N : m[n - 1] = p[n - 1] => m[n] = p[n]
  BY DEF TurnAlike
<1> DEFINE S == {n \in 0..N : m[n] = p[n]}
<1>1. 0 \in S
  BY <1>0
<1>2. ASSUME NEW n \in 1..N, n - 1 \in S PROVE n \in S
  <2>1. m[n] = p[n] /\ n \in 0..N
    BY <1>0, <1>2
  <2>2. QED
    BY <2>1
<1> HIDE DEF S
<1>3. 0..N \subseteq S
  BY <1>1, <1>2, Upwards
<1>4. QED
  BY <1>3 DEF S

(***************************************************************************)
(* What the pages collected lead to                                        *)
(***************************************************************************)

Entries == [page : Pages \ Elsewhere, depth : 0..MaxDepth]

LinksTo(lk, S, x) == \E p \in S : x \in Range(lk[p])

\* Within, for the site lk.
Near(lk, got) ==
  LET reach[n \in 0..MaxDepth] ==
        IF n = 0 THEN {Seed} \cap got
        ELSE reach[n - 1] \cup (got \cap UNION {Range(lk[p]) : p \in reach[n - 1]})
  IN  reach

\* w[n] is what n links or fewer lead to.
IsNear(w, lk, got) ==
  /\ w \in [0..MaxDepth -> SUBSET got]
  /\ w[0] = {Seed} \cap got
  /\ \A n \in 1..MaxDepth : \A x :
       x \in w[n] <=> x \in w[n - 1] \/ (x \in got /\ LinksTo(lk, w[n - 1], x))

LEMMA NearFacts == ASSUME NEW lk, NEW got PROVE IsNear(Near(lk, got), lk, got)
<1> DEFINE N == MaxDepth
           Turn(X) == X \cup (got \cap UNION {Range(lk[p]) : p \in X})
           F == [n \in 1..N |-> [X \in SUBSET got |-> Turn(X)]]
           b == {Seed} \cap got
           u == CHOOSE m : m = [n \in 0..N |-> IF n = 0 THEN {Seed} \cap got
                                  ELSE m[n - 1] \cup (got \cap UNION {Range(lk[p]) : p \in m[n - 1]})]
<1>1. N \in Nat /\ b \in SUBSET got
  BY ConstantsOK
<1>2. \A X \in SUBSET got : Turn(X) \in SUBSET got
  OBVIOUS
<1>3. Near(lk, got) = u
  BY DEF Near
<1>4. u = [n \in 0..N |-> IF n = 0 THEN b ELSE Turn(u[n - 1])]
  <2>1. F \in [1..N -> [SUBSET got -> SUBSET got]]
    BY <1>2
  <2>2. \A n \in 1..N : \A X \in SUBSET got : F[n][X] = Turn(X)
    OBVIOUS
  <2> HIDE DEF F
  <2>3. PICK m \in [0..N -> SUBSET got] : Iterates(m, N, b, F)
    BY <1>1, <2>1, Iterated
  <2>4. \A n \in 1..N : m[n - 1] \in SUBSET got
    BY <1>1, <2>3
  <2>5. m[0] = b /\ \A n \in 1..N : m[n] = F[n][m[n - 1]]
    BY <2>3 DEF Iterates
  <2> HIDE DEF Turn, b
  <2>6. \A n \in 1..N : m[n] = Turn(m[n - 1])
    BY <2>2, <2>4, <2>5
  <2>7. \A n \in 0..N : m[n] = IF n = 0 THEN b ELSE Turn(m[n - 1])
    BY <1>1, <2>5, <2>6
  <2>8. m = [n \in 0..N |-> IF n = 0 THEN b ELSE Turn(m[n - 1])]
    BY <2>3, <2>7
  <2>9. QED
    BY <2>8 DEF Turn, b
<1> HIDE DEF u, Turn, b
<1>5. u[0] = b /\ \A n \in 1..N : u[n] = Turn(u[n - 1])
  BY <1>1, <1>4
<1> DEFINE S == {n \in 0..N : u[n] \in SUBSET got}
<1>6. 0 \in S
  BY <1>1, <1>5
<1>7. ASSUME NEW n \in 1..N, n - 1 \in S PROVE n \in S
  <2>1. u[n] \in SUBSET got /\ n \in 0..N
    BY <1>1, <1>2, <1>5, <1>7
  <2>2. QED
    BY <2>1
<1> HIDE DEF S
<1>8. 0..N \subseteq S
  BY <1>1, <1>6, <1>7, Upwards
<1>9. u \in [0..N -> SUBSET got]
  <2>1. \A n \in 0..N : u[n] \in SUBSET got
    BY <1>8 DEF S
  <2> HIDE DEF S, N
  <2>2. QED
    BY <1>4, <2>1
<1>10. \A n \in 1..N : \A x :
         x \in u[n] <=> x \in u[n - 1] \/ (x \in got /\ LinksTo(lk, u[n - 1], x))
  BY <1>5 DEF Turn, LinksTo
<1>11. QED
  BY <1>3, <1>5, <1>9, <1>10 DEF IsNear, b

\* All the pages collected are within n links, from n = c on.
Full(w, got, c) == \A n \in c..MaxDepth : w[n] = got

\* x is at depth c: c links lead to it, and no fewer.
AtDepth(lk, w, x, c) ==
  IF c = 0 THEN x = Seed
  ELSE /\ x # Seed
       /\ LinksTo(lk, w[c - 1], x)
       /\ \A n \in 0..MaxDepth : n < c - 1 => ~LinksTo(lk, w[n], x)

Grown(w, v, c, more) == \A n \in 0..MaxDepth : v[n] = IF n < c THEN w[n] ELSE more

\* Collecting a page at depth c leaves what is nearer as it was.
LEMMA NearGrows ==
  ASSUME NEW lk, NEW got, NEW x, NEW c \in 0..MaxDepth, NEW w, NEW v,
         IsNear(w, lk, got), IsNear(v, lk, got \cup {x}),
         Full(w, got, c), AtDepth(lk, w, x, c)
  PROVE  Grown(w, v, c, got \cup {x})
<1> DEFINE more == got \cup {x}
           P(n) == v[n] = IF n < c THEN w[n] ELSE more
           S == {n \in 0..MaxDepth : P(n)}
<1>0. MaxDepth \in Nat /\ c \in Nat
  BY ConstantsOK
<1>1. /\ w[0] = {Seed} \cap got /\ v[0] = {Seed} \cap more
      /\ \A n \in 0..MaxDepth : w[n] \subseteq got /\ v[n] \subseteq more
  BY DEF IsNear
<1>2. /\ \A n \in 1..MaxDepth : \A y :
           y \in w[n] <=> y \in w[n - 1] \/ (y \in got /\ LinksTo(lk, w[n - 1], y))
      /\ \A n \in 1..MaxDepth : \A y :
           y \in v[n] <=> y \in v[n - 1] \/ (y \in more /\ LinksTo(lk, v[n - 1], y))
  BY DEF IsNear
<1>3. w[c] = got
  BY <1>0 DEF Full
<1>4. got \subseteq more /\ x \in more /\ \A y \in more : y \in got \/ y = x
  OBVIOUS
<1> HIDE DEF more
<1>5. P(0)
  <2>1. CASE c = 0
    <3>1. x = Seed /\ v[0] = more
      BY <1>1, <1>3, <1>4, <2>1 DEF AtDepth
    <3>2. QED
      BY <2>1, <3>1
  <2>2. CASE c > 0
    <3>1. x # Seed /\ 0 < c
      BY <1>0, <2>2 DEF AtDepth
    <3>2. v[0] = w[0]
      BY <1>1, <1>4, <3>1
    <3>3. QED
      BY <3>1, <3>2
  <2>3. QED
    BY <1>0, <2>1, <2>2
<1>6. ASSUME NEW n \in 1..MaxDepth, P(n - 1) PROVE P(n)
  <2>0. n \in Nat /\ n - 1 \in 0..MaxDepth /\ n \in 0..MaxDepth
    BY <1>0
  <2>1. CASE n < c
    <3>1. /\ v[n - 1] = w[n - 1] /\ n - 1 < c - 1 /\ c # 0
      BY <1>0, <1>6, <2>0, <2>1
    <3>2. ~LinksTo(lk, w[n - 1], x)
      BY <2>0, <3>1 DEF AtDepth
    <3>3. \A y : y \in v[n] <=> y \in w[n]
      BY <1>2, <1>4, <3>1, <3>2
    <3>4. v[n] = w[n]
      BY <3>3
    <3>5. QED
      BY <2>1, <3>4
  <2>2. CASE n = c
    <3>1. v[n - 1] = w[n - 1] /\ c # 0
      BY <1>0, <1>6, <2>0, <2>2
    <3>2. LinksTo(lk, v[n - 1], x)
      BY <2>2, <3>1 DEF AtDepth
    <3>3. \A y \in more : y \in v[n]
      BY <1>2, <1>3, <1>4, <2>2, <3>1, <3>2
    <3>4. v[n] = more
      BY <1>1, <2>0, <3>3
    <3>5. QED
      BY <2>2, <3>4
  <2>3. CASE n > c
    <3>1. v[n - 1] = more /\ ~(n < c)
      BY <1>0, <1>6, <2>0, <2>3
    <3>2. \A y \in more : y \in v[n]
      BY <1>2, <3>1
    <3>3. v[n] = more
      BY <1>1, <2>0, <3>2
    <3>4. QED
      BY <3>1, <3>3
  <2>4. QED
    BY <1>0, <2>0, <2>1, <2>2, <2>3
<1> HIDE DEF P
<1>7. 0 \in S /\ \A n \in 1..MaxDepth : n - 1 \in S => n \in S
  BY <1>0, <1>5, <1>6
<1> HIDE DEF S
<1>8. 0..MaxDepth \subseteq S
  BY <1>0, <1>7, Upwards
<1>9. QED
  BY <1>8 DEF S, P, more, Grown

(***************************************************************************)
(* The queue                                                               *)
(***************************************************************************)

\* The queue is in order of depth, and spans two depths at most.
Level(q, c) ==
  /\ q \in Seq(Entries)
  /\ \A i \in 1..Len(q) : q[i].depth \in {c, c + 1}
  /\ \A i, j \in 1..Len(q) : i <= j => q[i].depth <= q[j].depth

\* What is queued is no further from the seed than it says.
Traced(lk, q, w) ==
  \A i \in 1..Len(q) :
    IF q[i].depth = 0 THEN q[i].page = Seed
    ELSE LinksTo(lk, w[q[i].depth - 1], q[i].page)

Queued(q, x, n) == \E i \in 1..Len(q) : q[i].page = x /\ q[i].depth <= n

\* A link of a page collected has been followed, or is queued no further from
\* the seed than the link makes it.
Ahead(lk, q, known, w) ==
  /\ Seed \in known \/ Queued(q, Seed, 0)
  /\ \A n \in 0..MaxDepth - 1 : \A p \in w[n] :
       \A x \in Range(lk[p]) \ Elsewhere : x \in known \/ Queued(q, x, n + 1)

\* f is the queue without its first entry.
IsRest(f, q) ==
  /\ f \in Seq(Entries)
  /\ Len(f) \in Nat /\ Len(q) \in Nat
  /\ Len(q) = Len(f) + 1
  /\ \A i \in 1..Len(f) : f[i] = q[i + 1]

LEMMA RestFacts ==
  ASSUME NEW q \in Seq(Entries), q # <<>>
  PROVE  IsRest(RemoveAt(q, 1), q)
<1>1. Len(q) \in Nat /\ Len(q) >= 1 /\ 1 - 1 = 0 /\ 1 + 1 = 2
  BY EmptySeq
<1>2. SubSeq(q, 1, 0) = <<>> /\ SubSeq(q, 2, Len(q)) \in Seq(Entries)
  BY <1>1
<1>3. RemoveAt(q, 1) = SubSeq(q, 2, Len(q))
  BY <1>1, <1>2 DEF RemoveAt
<1>4. /\ Len(SubSeq(q, 2, Len(q))) = Len(q) - 1
      /\ \A i \in 1..Len(q) - 1 : SubSeq(q, 2, Len(q))[i] = q[i + 1]
  <2>1. SubSeq(q, 2, Len(q)) = [i \in 1..(1 + Len(q) - 2) |-> q[2 + i - 1]]
    BY <1>1, SubSeqProperties
  <2>2. 1 + Len(q) - 2 = Len(q) - 1 /\ \A i \in 1..Len(q) - 1 : 2 + i - 1 = i + 1
    BY <1>1
  <2>3. QED
    BY <1>1, <2>1, <2>2
<1> DEFINE f == RemoveAt(q, 1)
<1>5. /\ f \in Seq(Entries) /\ Len(f) = Len(q) - 1
      /\ \A i \in 1..Len(q) - 1 : f[i] = q[i + 1]
  BY <1>2, <1>3, <1>4
<1> HIDE DEF f
<1>6. IsRest(f, q)
  BY <1>1, <1>5 DEF IsRest
<1>7. QED
  BY <1>6 DEF f

\* Each entry of q but the first is one of f.
LEMMA RestQueued ==
  ASSUME NEW q, NEW f, IsRest(f, q), NEW x, NEW n, Queued(q, x, n)
  PROVE  q[1].page = x \/ Queued(f, x, n)
<1>1. PICK i \in 1..Len(q) : q[i].page = x /\ q[i].depth <= n
  BY DEF Queued
<1>2. i # 1 => i - 1 \in 1..Len(f) /\ f[i - 1] = q[i]
  BY DEF IsRest
<1>3. QED
  BY <1>1, <1>2 DEF Queued

\* Popping an entry: the page at hand is at the depth of its entry, unless it
\* has been seen; all that is asked of the queue stays so.
LEMMA PopFacts ==
  ASSUME NEW lk, NEW q, NEW f, NEW known, NEW got, NEW w, NEW c \in 0..MaxDepth,
         IsRest(f, q), Level(q, c), Traced(lk, q, w), Ahead(lk, q, known, w),
         Full(w, got, c)
  PROVE  LET e == q[1] IN
         /\ e \in Entries
         /\ Level(f, e.depth) /\ Level(f, c)
         /\ Traced(lk, f, w)
         /\ Ahead(lk, f, known \cup {e.page}, w)
         /\ Full(w, got, e.depth)
         /\ e.page \notin known => AtDepth(lk, w, e.page, e.depth)
<1> DEFINE e == q[1]
           x == q[1].page
           d == q[1].depth
<1>0. MaxDepth \in Nat /\ c \in Nat
  BY ConstantsOK
<1>1. /\ 1 \in 1..Len(q)
      /\ \A i \in 1..Len(f) : i + 1 \in 1..Len(q) /\ f[i] = q[i + 1] /\ i \in Nat
  BY DEF IsRest
<1>2. /\ \A i \in 1..Len(q) : q[i] \in Entries
      /\ \A i \in 1..Len(q) : q[i].depth \in {c, c + 1}
      /\ \A i, j \in 1..Len(q) : i <= j => q[i].depth <= q[j].depth
  BY DEF Level
<1>3. /\ e \in Entries /\ x \in Pages \ Elsewhere
      /\ d \in 0..MaxDepth /\ d \in {c, c + 1}
  BY <1>1, <1>2 DEF Entries
<1>4. \A i \in 1..Len(q) : q[i].depth \in Nat /\ d <= q[i].depth
  <2>1. \A i \in 1..Len(q) : 1 <= i
    OBVIOUS
  <2>2. \A i \in 1..Len(q) : d <= q[i].depth
    BY <1>1, <1>2, <2>1
  <2>3. QED
    BY <1>0, <1>2, <2>2 DEF Entries
<1>5. Level(f, c)
  <2>1. \A i, j \in 1..Len(f) : i <= j => i + 1 <= j + 1
    OBVIOUS
  <2>2. QED
    BY <1>1, <1>2, <2>1 DEF Level, IsRest
<1>6. Level(f, d)
  <2>1. \A i \in 1..Len(f) : f[i].depth \in {c, c + 1} /\ d <= f[i].depth
    BY <1>1, <1>2, <1>4
  <2>2. \A i \in 1..Len(f) : f[i].depth \in {d, d + 1}
    BY <1>0, <1>3, <2>1
  <2>3. QED
    BY <1>5, <2>2 DEF Level
<1>7. Traced(lk, f, w)
  BY <1>1 DEF Traced
<1>8. Ahead(lk, f, known \cup {x}, w)
  <2>1. ASSUME NEW y, NEW n, y \in known \/ Queued(q, y, n)
        PROVE  y \in known \cup {x} \/ Queued(f, y, n)
    BY <2>1, RestQueued
  <2>2. QED
    BY <2>1 DEF Ahead
<1>9. Full(w, got, d)
  BY <1>0, <1>3 DEF Full
<1>10. ASSUME x \notin known PROVE AtDepth(lk, w, x, d)
  <2>1. CASE d = 0
    BY <1>1, <2>1 DEF Traced, AtDepth
  <2>2. CASE d # 0
    <3>1. \A y, n : Queued(q, y, n) /\ n \in Nat => d <= n
      <4>1. ASSUME NEW y, NEW n \in Nat, Queued(q, y, n) PROVE d <= n
        <5>1. PICK i \in 1..Len(q) : q[i].depth <= n
          BY <4>1 DEF Queued
        <5>2. q[i].depth \in Nat /\ d <= q[i].depth
          BY <1>4
        <5> HIDE DEF d
        <5>3. d \in Nat
          BY <1>0, <1>3
        <5>4. QED
          BY <5>1, <5>2, <5>3
      <4>2. QED
        BY <4>1
    <3>2. x # Seed
      <4>1. Seed \in known \/ d <= 0
        BY <3>1 DEF Ahead
      <4>2. ~(d <= 0)
        BY <1>0, <1>3, <2>2
      <4>3. QED
        BY <1>10, <4>1, <4>2
    <3>3. LinksTo(lk, w[d - 1], x)
      BY <1>1, <2>2 DEF Traced
    <3>4. ASSUME NEW n \in 0..MaxDepth, n < d - 1 PROVE ~LinksTo(lk, w[n], x)
      <4>1. n \in 0..MaxDepth - 1 /\ n + 1 \in Nat /\ ~(d <= n + 1)
        BY <1>0, <1>3, <3>4
      <4>2. ~Queued(q, x, n + 1)
        BY <3>1, <4>1
      <4>3. \A p \in w[n] : \A y \in Range(lk[p]) \ Elsewhere : y \in known \/ Queued(q, y, n + 1)
        BY <4>1 DEF Ahead
      <4>4. QED
        BY <1>3, <1>10, <4>2, <4>3 DEF LinksTo
    <3>5. QED
      BY <2>2, <3>2, <3>3, <3>4 DEF AtDepth
  <2>3. QED
    BY <2>1, <2>2
<1>11. QED
  BY <1>3, <1>5, <1>6, <1>7, <1>8, <1>9, <1>10

\* f is what is worth following of the links list, at depth d.
IsWorthwhile(f, list, known, d) ==
  /\ f \in Seq(Entries)
  /\ \A i \in 1..Len(f) : f[i].depth = d /\ f[i].page \in Range(list)
  /\ \A x \in Range(list) \ (known \cup Elsewhere) :
       \E i \in 1..Len(f) : f[i].page = x

LEMMA WorthwhileFacts ==
  ASSUME NEW list \in Seq(Pages), NEW known, NEW d \in 0..MaxDepth
  PROVE  IsWorthwhile(Worthwhile(list, known, d), list, known, d)
<1> DEFINE N == Len(list)
           bad == known \cup Elsewhere
           Entry(n) == [page |-> list[n], depth |-> d]
           Turn(n, X) == IF list[n] \in bad THEN X ELSE Append(X, Entry(n))
           F == [n \in 1..N |-> [X \in Seq(Entries) |-> Turn(n, X)]]
           u == CHOOSE m : m = [n \in 0..N |->
                  IF n = 0 THEN <<>>
                  ELSE IF list[n] \in known \cup Elsewhere THEN m[n - 1]
                  ELSE Append(m[n - 1], [page |-> list[n], depth |-> d])]
<1>1. N \in Nat /\ \A n \in 1..N : list[n] \in Pages
  OBVIOUS
<1>2. Worthwhile(list, known, d) = u[N]
  BY DEF Worthwhile
<1>3. DOMAIN list = 1..N
  OBVIOUS
<1> HIDE DEF N
<1>4. \A n \in 1..N : list[n] \notin bad => Entry(n) \in Entries
  BY <1>1 DEF Entries
<1> HIDE DEF Entry
<1>5. \A n \in 1..N : \A X \in Seq(Entries) : Turn(n, X) \in Seq(Entries)
  BY <1>4
<1>6. u = [n \in 0..N |-> IF n = 0 THEN <<>> ELSE Turn(n, u[n - 1])]
  <2>1. F \in [1..N -> [Seq(Entries) -> Seq(Entries)]]
    BY <1>5
  <2>2. \A n \in 1..N : \A X \in Seq(Entries) : F[n][X] = Turn(n, X)
    OBVIOUS
  <2> HIDE DEF F
  <2>3. <<>> \in Seq(Entries)
    OBVIOUS
  <2>4. PICK m \in [0..N -> Seq(Entries)] : Iterates(m, N, <<>>, F)
    BY <1>1, <2>1, <2>3, Iterated
  <2>5. \A n \in 1..N : m[n - 1] \in Seq(Entries)
    BY <1>1, <2>4
  <2>6. m[0] = <<>> /\ \A n \in 1..N : m[n] = F[n][m[n - 1]]
    BY <2>4 DEF Iterates
  <2> HIDE DEF Turn
  <2>7. \A n \in 1..N : m[n] = Turn(n, m[n - 1])
    BY <2>2, <2>5, <2>6
  <2>8. \A n \in 0..N : m[n] = IF n = 0 THEN <<>> ELSE Turn(n, m[n - 1])
    BY <1>1, <2>6, <2>7
  <2>9. m = [n \in 0..N |-> IF n = 0 THEN <<>> ELSE Turn(n, m[n - 1])]
    BY <2>4, <2>8
  <2>10. QED
    BY <2>9 DEF Turn, Entry
<1> HIDE DEF u, Turn
<1>7. u[0] = <<>> /\ \A n \in 1..N : u[n] = Turn(n, u[n - 1])
  BY <1>1, <1>6
<1> DEFINE P(X, n) ==
             /\ X \in Seq(Entries)
             /\ \A i \in 1..Len(X) : X[i].depth = d /\ X[i].page \in Range(list)
             /\ \A k \in 1..n : list[k] \notin bad => \E i \in 1..Len(X) : X[i].page = list[k]
           S == {n \in 0..N : P(u[n], n)}
<1>8. 0 \in S
  <2>1. <<>> \in Seq(Entries) /\ 1..Len(<<>>) = {} /\ 1..0 = {}
    OBVIOUS
  <2>2. P(<<>>, 0)
    BY <2>1
  <2> HIDE DEF P
  <2>3. P(u[0], 0) /\ 0 \in 0..N
    BY <1>1, <1>7, <2>2
  <2>4. QED
    BY <2>3
<1>9. ASSUME NEW n \in 1..N, n - 1 \in S PROVE n \in S
  <2> DEFINE X == u[n - 1]
  <2>1. /\ n \in Nat /\ n \in 0..N /\ u[n] = Turn(n, X) /\ P(X, n - 1)
    BY <1>1, <1>7, <1>9
  <2>2. \A k \in 1..n : k \in 1..n - 1 \/ k = n
    BY <2>1
  <2> HIDE DEF X
  <2>3. CASE list[n] \in bad
    <3>1. u[n] = X
      BY <2>1, <2>3 DEF Turn
    <3>2. P(X, n)
      BY <2>1, <2>2, <2>3
    <3>3. QED
      BY <2>1, <3>1, <3>2
  <2>4. CASE list[n] \notin bad
    <3> DEFINE Y == Append(X, Entry(n))
    <3>1. u[n] = Y
      BY <2>1, <2>4 DEF Turn
    <3>2. Entry(n).page = list[n] /\ Entry(n).depth = d /\ list[n] \in Range(list)
      BY <1>3 DEF Entry, Range
    <3>3. Entry(n) \in Entries /\ X \in Seq(Entries)
      BY <1>4, <2>1, <2>4
    <3>4. /\ Y \in Seq(Entries) /\ Len(X) \in Nat /\ Len(Y) = Len(X) + 1
          /\ Y[Len(X) + 1] = Entry(n)
          /\ \A i \in 1..Len(X) : Y[i] = X[i]
      BY <3>3, AppendProperties
    <3> HIDE DEF Y
    <3>5. \A i \in 1..Len(Y) : i \in 1..Len(X) \/ i = Len(X) + 1
      BY <3>4
    <3>6. \A i \in 1..Len(X) : i \in 1..Len(Y)
      BY <3>4
    <3>7. Len(X) + 1 \in 1..Len(Y)
      BY <3>4
    <3>8. \A i \in 1..Len(Y) : Y[i].depth = d /\ Y[i].page \in Range(list)
      BY <2>1, <3>2, <3>4, <3>5
    <3>9. ASSUME NEW k \in 1..n, list[k] \notin bad
          PROVE  \E i \in 1..Len(Y) : Y[i].page = list[k]
      BY <2>1, <2>2, <3>2, <3>4, <3>6, <3>7, <3>9
    <3>10. P(Y, n)
      BY <3>4, <3>8, <3>9
    <3>11. QED
      BY <2>1, <3>1, <3>10
  <2>5. QED
    BY <2>3, <2>4
<1> HIDE DEF S
<1>10. 0..N \subseteq S
  BY <1>1, <1>8, <1>9, Upwards
<1>11. P(u[N], N)
  BY <1>1, <1>10 DEF S
<1>12. \A x \in Range(list) : \E k \in 1..N : x = list[k]
  BY <1>3 DEF Range
<1>13. QED
  BY <1>2, <1>11, <1>12 DEF IsWorthwhile

\* Each entry of g is one of q or, behind them, one of f.
IsBoth(g, q, f) ==
  /\ g \in Seq(Entries)
  /\ Len(g) \in Nat /\ Len(q) \in Nat
  /\ \A i \in 1..Len(q) : i \in 1..Len(g) /\ g[i] = q[i]
  /\ \A i \in 1..Len(f) : Len(q) + i \in 1..Len(g) /\ g[Len(q) + i] = f[i]
  /\ \A i \in 1..Len(g) :
       \/ i \in 1..Len(q)
       \/ i > Len(q) /\ \E j \in 1..Len(f) : i = Len(q) + j

LEMMA BothFacts ==
  ASSUME NEW q \in Seq(Entries), NEW f \in Seq(Entries)
  PROVE  IsBoth(q \o f, q, f)
<1> DEFINE g == q \o f
<1>1. /\ g \in Seq(Entries) /\ Len(g) = Len(q) + Len(f)
      /\ Len(g) \in Nat /\ Len(q) \in Nat /\ Len(f) \in Nat
      /\ \A i \in 1..Len(q) : g[i] = q[i]
      /\ \A i \in 1..Len(f) : g[Len(q) + i] = f[i]
  OBVIOUS
<1> HIDE DEF g
<1>2. \A i \in 1..Len(q) : i \in 1..Len(g)
  BY <1>1
<1>3. \A i \in 1..Len(f) : Len(q) + i \in 1..Len(g)
  BY <1>1
<1>4. ASSUME NEW i \in 1..Len(g), i \notin 1..Len(q)
      PROVE  i > Len(q) /\ \E j \in 1..Len(f) : i = Len(q) + j
  <2>1. i \in Nat /\ i > Len(q) /\ i - Len(q) \in 1..Len(f) /\ i = Len(q) + (i - Len(q))
    BY <1>1, <1>4
  <2>2. QED
    BY <2>1
<1>5. IsBoth(g, q, f)
  BY <1>1, <1>2, <1>3, <1>4 DEF IsBoth
<1>6. QED
  BY <1>5 DEF g

\* Collecting the page x at hand, at depth c, and queueing f: its links, unless
\* they lead too far.
LEMMA CollectFacts ==
  ASSUME NEW lk, NEW q \in Seq(Entries), NEW f, NEW known, NEW got, NEW w, NEW v,
         NEW c \in 0..MaxDepth, NEW x, NEW g,
         IsNear(w, lk, got), IsNear(v, lk, got \cup {x}),
         Level(q, c), Traced(lk, q, w), Ahead(lk, q, known, w),
         Full(w, got, c), AtDepth(lk, w, x, c),
         IsBoth(g, q, f),
         IF c < MaxDepth THEN IsWorthwhile(f, lk[x], known, c + 1) ELSE f = <<>>
  PROVE  /\ Level(g, c)
         /\ Traced(lk, g, v)
         /\ Ahead(lk, g, known, v)
         /\ Full(v, got \cup {x}, c)
<1> DEFINE more == got \cup {x}
<1>0. MaxDepth \in Nat /\ c \in Nat
  BY ConstantsOK
<1>a. Grown(w, v, c, got \cup {x})
  BY NearGrows
<1>1. \A n \in 0..MaxDepth : v[n] = IF n < c THEN w[n] ELSE more
  BY <1>a DEF Grown
<1>2. got \subseteq more /\ x \in more /\ \A y \in more : y \in got \/ y = x
  OBVIOUS
<1> HIDE DEF more
<1>3. \A n \in 0..MaxDepth : w[n] \subseteq v[n]
  BY <1>1, <1>2 DEF IsNear
<1>4. v[c] = more
  BY <1>0, <1>1
<1>5. \A i \in 1..Len(f) :
        c < MaxDepth /\ f[i].depth = c + 1 /\ f[i].page \in Range(lk[x])
  <2>1. CASE c < MaxDepth
    BY <2>1 DEF IsWorthwhile
  <2>2. CASE ~(c < MaxDepth)
    <3>1. f = <<>> /\ 1..Len(<<>>) = {}
      BY <2>2
    <3>2. QED
      BY <3>1
  <2>3. QED
    BY <2>1, <2>2
<1>6. \A i \in 1..Len(g) :
        \/ /\ i \in 1..Len(q) /\ g[i] = q[i]
        \/ /\ i > Len(q) /\ \E j \in 1..Len(f) : g[i] = f[j]
           /\ g[i].depth = c + 1
           /\ g[i].page \in Range(lk[x])
           /\ c < MaxDepth
  <2>1. ASSUME NEW i \in 1..Len(g), i > Len(q),
               NEW j \in 1..Len(f), i = Len(q) + j
        PROVE  g[i] = f[j]
    BY <2>1 DEF IsBoth
  <2>2. \A i \in 1..Len(g) :
          \/ i \in 1..Len(q) /\ g[i] = q[i]
          \/ i > Len(q) /\ \E j \in 1..Len(f) : g[i] = f[j]
    BY <2>1 DEF IsBoth
  <2>3. QED
    BY <1>5, <2>2
<1>7. Level(g, c)
  <2>1. \A i \in 1..Len(q) : q[i].depth \in {c, c + 1}
    BY DEF Level
  <2>2. \A i \in 1..Len(g) : g[i].depth \in {c, c + 1}
    BY <1>6, <2>1
  <2>3. ASSUME NEW i \in 1..Len(g), NEW j \in 1..Len(g), i <= j
        PROVE  g[i].depth <= g[j].depth
    <3>1. CASE j \in 1..Len(q)
      <4>1. i \in 1..Len(q)
        BY <2>3, <3>1 DEF IsBoth
      <4>2. g[i] = q[i] /\ g[j] = q[j]
        BY <3>1, <4>1 DEF IsBoth
      <4>3. q[i].depth <= q[j].depth
        BY <2>3, <3>1, <4>1 DEF Level
      <4>4. QED
        BY <4>2, <4>3
    <3>2. CASE j \notin 1..Len(q)
      <4>1. g[j].depth = c + 1
        BY <1>6, <3>2
      <4>2. g[i].depth \in {c, c + 1}
        BY <2>2
      <4>3. QED
        BY <1>0, <4>1, <4>2
    <3>3. QED
      BY <3>1, <3>2
  <2>4. QED
    BY <2>2, <2>3 DEF Level, IsBoth
<1>8. Traced(lk, g, v)
  <2>1. ASSUME NEW i \in 1..Len(g)
        PROVE  IF g[i].depth = 0 THEN g[i].page = Seed
               ELSE LinksTo(lk, v[g[i].depth - 1], g[i].page)
    <3>1. CASE i \in 1..Len(q)
      <4>1. /\ g[i] = q[i]
            /\ IF q[i].depth = 0 THEN q[i].page = Seed
               ELSE LinksTo(lk, w[q[i].depth - 1], q[i].page)
        BY <3>1 DEF Traced, IsBoth
      <4>2. q[i].depth \in 0..MaxDepth
        <5>1. q[i] \in Entries
          BY <3>1
        <5>2. QED
          BY <5>1 DEF Entries
      <4>3. q[i].depth # 0 => q[i].depth - 1 \in 0..MaxDepth
        BY <1>0, <4>2
      <4>4. QED
        BY <1>3, <4>1, <4>3 DEF LinksTo
    <3>2. CASE i \notin 1..Len(q)
      <4>1. g[i].depth = c + 1 /\ g[i].page \in Range(lk[x])
        BY <1>6, <3>2
      <4>2. c + 1 # 0 /\ (c + 1) - 1 = c
        BY <1>0
      <4>3. QED
        BY <1>2, <1>4, <4>1, <4>2 DEF LinksTo
    <3>3. QED
      BY <3>1, <3>2
  <2>2. QED
    BY <2>1 DEF Traced
<1>9. Ahead(lk, g, known, v)
  <2>1. \A y, n : Queued(q, y, n) => Queued(g, y, n)
    BY DEF Queued, IsBoth
  <2>2. ASSUME NEW n \in 0..MaxDepth - 1, NEW p \in v[n],
               NEW y \in Range(lk[p]) \ Elsewhere
        PROVE  y \in known \/ Queued(g, y, n + 1)
    <3>0. n \in Nat /\ n \in 0..MaxDepth /\ n < MaxDepth
      BY <1>0
    <3>1. CASE p \in w[n]
      BY <2>1, <3>1 DEF Ahead
    <3>2. CASE p \notin w[n]
      <4>1. c <= n /\ c < MaxDepth /\ c \in 0..MaxDepth - 1 /\ p \in more
        <5>1. ~(n < c) /\ p \in more
          BY <1>1, <3>0, <3>2
        <5>2. QED
          BY <1>0, <3>0, <5>1
      <4>2. \A m : m = c + 1 => m <= n + 1
        BY <1>0, <3>0, <4>1
      <4>3. ASSUME y \notin known PROVE Queued(g, y, n + 1)
        <5>1. CASE p = x
          <6>1. PICK i \in 1..Len(f) : f[i].page = y
            BY <4>1, <4>3, <5>1 DEF IsWorthwhile
          <6>2. f[i].depth <= n + 1
            BY <1>5, <4>2
          <6>3. QED
            BY <6>1, <6>2 DEF Queued, IsBoth
        <5>2. CASE p \in got
          <6>1. p \in w[n]
            BY <3>0, <4>1, <5>2 DEF Full
          <6>2. QED
            BY <3>2, <6>1
        <5>3. QED
          BY <1>2, <4>1, <5>1, <5>2
      <4>4. QED
        BY <4>3
    <3>3. QED
      BY <3>1, <3>2
  <2>3. Seed \in known \/ Queued(g, Seed, 0)
    BY <2>1 DEF Ahead
  <2>4. QED
    BY <2>2, <2>3 DEF Ahead
<1>10. Full(v, more, c)
  <2>1. \A n \in c..MaxDepth : n \in 0..MaxDepth /\ ~(n < c)
    BY <1>0
  <2>2. QED
    BY <1>1, <2>1 DEF Full
<1>11. QED
  BY <1>7, <1>8, <1>9, <1>10 DEF more

(***************************************************************************)
(* A crawl                                                                 *)
(***************************************************************************)

\* The links before a malformed one are pages.
LEMMA ReadableFacts ==
  ASSUME NEW list \in Seq(Pages \cup {Malformed})
  PROVE  Readable(list) \in Seq(Pages)
<1> DEFINE L == Len(list)
           Until(n) == /\ \A i \in 1..n : list[i] # Malformed
                       /\ n < L => list[n + 1] = Malformed
           B == {i \in 1..L : list[i] = Malformed}
           c == CHOOSE n \in 0..L : Until(n)
<1>1. L \in Nat
  OBVIOUS
<1>2. \E n \in 0..L : Until(n)
  <2>1. CASE B = {}
    <3>1. L \in 0..L /\ Until(L)
      BY <1>1, <2>1
    <3> HIDE DEF Until
    <3>2. QED
      BY <3>1
  <2>2. CASE B # {}
    <3>a. B \in SUBSET Nat
      OBVIOUS
    <3> HIDE DEF B
    <3>1. PICK m \in B : \A i \in B : m <= i
      BY <2>2, <3>a, NatMin
    <3> USE DEF B
    <3>2. m \in 1..L /\ m - 1 \in 0..L /\ (m - 1) + 1 = m /\ list[m] = Malformed
      BY <1>1
    <3>3. \A i \in 1..m - 1 : i \in 1..L /\ ~(m <= i)
      BY <1>1, <3>2
    <3>4. Until(m - 1)
      BY <3>1, <3>2, <3>3
    <3> HIDE DEF Until
    <3>5. QED
      BY <3>2, <3>4
  <2>3. QED
    BY <2>1, <2>2
<1>3. c \in 0..L /\ Until(c)
  <2> HIDE DEF Until
  <2>1. QED
    BY <1>2
<1>4. Readable(list) = SubSeq(list, 1, c)
  BY DEF Readable
<1> HIDE DEF c
<1>5. \A i \in 1..c : list[i] \in Pages
  BY <1>1, <1>3
<1> HIDE DEF L
<1>6. c \in Nat
  BY <1>1, <1>3
<1>7. SubSeq(list, 1, c) = [i \in 1..c |-> list[i]]
  <2>1. SubSeq(list, 1, c) = [i \in 1..(1 + c - 1) |-> list[1 + i - 1]]
    BY <1>1, <1>3, SubSeqProperties DEF L
  <2>2. 1 + c - 1 = c /\ \A i \in 1..c : 1 + i - 1 = i
    BY <1>6
  <2>3. QED
    BY <2>1, <2>2
<1>8. QED
  BY <1>4, <1>5, <1>6, <1>7

CrawlTypes ==
  /\ links \in [Pages -> Seq(Pages)]
  /\ cur \in [Requests -> Pages]
  /\ depth \in [Requests -> 0..MaxDepth]
  /\ queue \in [Requests -> Seq(Entries)]
  /\ seen \in [Requests -> SUBSET Pages]
  /\ out \in [Requests -> Seq(Pages)]

\* A crawl of the site lk: what it is doing, the page at hand and its depth,
\* the queue, the pages seen and those collected.
Reaching(lk, ph, x, c, q, known, o) ==
  LET w == Near(lk, Range(o)) IN
  /\ Level(q, c)
  /\ Traced(lk, q, w)
  /\ Ahead(lk, q, known, w)
  /\ Full(w, Range(o), c)
  /\ ph \in Checks \cup {"get"} /\ known # {} => AtDepth(lk, w, x, c)
  /\ ph = "done" => q = <<>> \/ Len(o) >= MaxPages

ReachInv ==
  \A r \in Crawling :
    Reaching(links, phase[r], cur[r], depth[r], queue[r], seen[r], out[r])

LEMMA FoundFacts ==
  CrawlTypes => \A r \in Requests :
    IF depth[r] < MaxDepth
    THEN IsWorthwhile(Found(r), links[cur[r]], seen[r], depth[r] + 1)
    ELSE Found(r) = <<>>
<1> SUFFICES ASSUME CrawlTypes, NEW r \in Requests, depth[r] < MaxDepth
             PROVE  IsWorthwhile(Found(r), links[cur[r]], seen[r], depth[r] + 1)
  BY DEF Found
<1>1. links[cur[r]] \in Seq(Pages) /\ depth[r] + 1 \in 0..MaxDepth
  BY ConstantsOK DEF CrawlTypes
<1>2. Found(r) = Worthwhile(links[cur[r]], seen[r], depth[r] + 1)
  BY DEF Found
<1>3. QED
  BY <1>1, <1>2, WorthwhileFacts

LEMMA FoundType == CrawlTypes => \A r \in Requests : Found(r) \in Seq(Entries)
<1> SUFFICES ASSUME CrawlTypes, NEW r \in Requests PROVE Found(r) \in Seq(Entries)
  OBVIOUS
<1>1. Found(r) = <<>> \/ Found(r) \in Seq(Entries)
  BY FoundFacts DEF IsWorthwhile
<1>2. <<>> \in Seq(Entries)
  OBVIOUS
<1>3. QED
  BY <1>1, <1>2, Zenon

LEMMA CrawlTypesStep == LoadInv /\ CrawlTypes /\ [Next]_vars => CrawlTypes'
<1> SUFFICES ASSUME LoadInv, CrawlTypes, [Next]_vars PROVE CrawlTypes'
  OBVIOUS
<1>0. site' = site => links' = links
  BY DEF links
<1>1. CASE UNCHANGED <<site, crawlVars>>
  BY <1>0, <1>1 DEF crawlVars, CrawlTypes
<1>2. ASSUME NEW r \in Requests, Pop(r) PROVE CrawlTypes'
  <2> DEFINE e == queue[r][1]
  <2>1. /\ queue[r] \in Seq(Entries) /\ queue[r] # <<>>
        /\ queue' = [queue EXCEPT ![r] = RemoveAt(queue[r], 1)]
        /\ UNCHANGED <<links, out>>
    BY <1>0, <1>2 DEF Pop, More, NextEntry, CrawlTypes
  <2>2. RemoveAt(queue[r], 1) \in Seq(Entries)
    BY <2>1, RestFacts DEF IsRest
  <2>3. e \in Entries
    BY <2>1, EmptySeq
  <2>4. e.page \in Pages /\ e.depth \in 0..MaxDepth
    BY <2>3 DEF Entries
  <2>5. \/ UNCHANGED <<cur, depth, seen>>
        \/ /\ cur' = [cur EXCEPT ![r] = e.page]
           /\ depth' = [depth EXCEPT ![r] = e.depth]
           /\ seen' = [seen EXCEPT ![r] = @ \cup {e.page}]
    BY <1>2 DEF Pop, NextEntry, Visits
  <2> HIDE DEF e
  <2>6. queue' \in [Requests -> Seq(Entries)]
    BY <2>1, <2>2 DEF CrawlTypes
  <2>7. /\ cur' \in [Requests -> Pages]
        /\ depth' \in [Requests -> 0..MaxDepth]
        /\ seen' \in [Requests -> SUBSET Pages]
    <3>1. CASE UNCHANGED <<cur, depth, seen>>
      BY <3>1 DEF CrawlTypes
    <3>2. CASE /\ cur' = [cur EXCEPT ![r] = e.page]
               /\ depth' = [depth EXCEPT ![r] = e.depth]
               /\ seen' = [seen EXCEPT ![r] = @ \cup {e.page}]
      <4>1. seen[r] \cup {e.page} \in SUBSET Pages
        BY <2>4 DEF CrawlTypes
      <4>2. /\ cur \in [Requests -> Pages]
            /\ depth \in [Requests -> 0..MaxDepth]
            /\ seen \in [Requests -> SUBSET Pages]
        BY DEF CrawlTypes
      <4>3. cur' \in [Requests -> Pages]
        BY <2>4, <3>2, <4>2
      <4>4. depth' \in [Requests -> 0..MaxDepth]
        BY <2>4, <3>2, <4>2
      <4>5. seen' \in [Requests -> SUBSET Pages]
        BY <3>2, <4>1, <4>2
      <4>6. QED
        BY <4>3, <4>4, <4>5
    <3>3. QED
      BY <2>5, <3>1, <3>2
  <2>8. QED
    BY <2>1, <2>6, <2>7 DEF CrawlTypes
<1>3. ASSUME NEW r \in Requests, GetPage(r) PROVE CrawlTypes'
  <2>1. /\ UNCHANGED <<links, cur, depth, seen>>
        /\ out' = [out EXCEPT ![r] = Append(@, cur[r])]
        /\ \/ queue' = queue
           \/ queue' = [queue EXCEPT ![r] = @ \o Found(r)]
    BY <1>0, <1>3 DEF GetPage, Hit
  <2>2. cur[r] \in Pages /\ out[r] \in Seq(Pages) /\ queue[r] \in Seq(Entries)
    BY DEF CrawlTypes
  <2>3. Append(out[r], cur[r]) \in Seq(Pages)
    BY <2>2
  <2>4. queue[r] \o Found(r) \in Seq(Entries)
    BY <2>2, FoundType
  <2>5. out' \in [Requests -> Seq(Pages)] /\ queue' \in [Requests -> Seq(Entries)]
    BY <2>1, <2>3, <2>4 DEF CrawlTypes
  <2>6. QED
    BY <2>1, <2>5 DEF CrawlTypes
<1>4. ASSUME NEW r \in Requests, GetFails(r) PROVE CrawlTypes'
  BY <1>0, <1>4 DEF GetFails, Hit, CrawlTypes
<1>5. ASSUME NEW r \in Requests, Check(r) \/ Acquire(r) \/ Load(r) \/ CrawlEnds(r)
      PROVE  CrawlTypes'
  BY <1>1, <1>5 DEF Check, Acquire, Load, CrawlEnds
<1>6. CASE Expire \/ UNCHANGED vars
  BY <1>1, <1>6 DEF Expire, vars
<1>7. QED
  BY <1>2, <1>3, <1>4, <1>5, <1>6 DEF Next, RequestSteps

\* A step of r leaves the other crawls alone.
LEMMA ReachMoved ==
  ReachInv =>
    \A r \in Requests :
      /\ links' = links
      /\ \A s \in Requests \ {r} :
           /\ phase'[s] = phase[s] /\ cur'[s] = cur[s] /\ depth'[s] = depth[s]
           /\ queue'[s] = queue[s] /\ seen'[s] = seen[s] /\ out'[s] = out[s]
      /\ r \in Crawling =>
           Reaching(links, phase'[r], cur'[r], depth'[r], queue'[r], seen'[r], out'[r])
      => ReachInv'
<1> SUFFICES ASSUME ReachInv, NEW r \in Requests,
               links' = links,
               \A s \in Requests \ {r} :
                 /\ phase'[s] = phase[s] /\ cur'[s] = cur[s] /\ depth'[s] = depth[s]
                 /\ queue'[s] = queue[s] /\ seen'[s] = seen[s] /\ out'[s] = out[s],
               r \in Crawling =>
                 Reaching(links, phase'[r], cur'[r], depth'[r], queue'[r], seen'[r], out'[r]),
               NEW s \in Crawling
             PROVE Reaching(links', phase'[s], cur'[s], depth'[s], queue'[s], seen'[s], out'[s])
  BY DEF ReachInv
<1>1. s \in Requests
  BY ConstantsOK
<1>2. CASE s = r
  BY <1>2
<1>3. CASE s # r
  BY <1>1, <1>3 DEF ReachInv
<1>4. QED
  BY <1>2, <1>3

\* Going on without a page, or with the page at hand.
LEMMA ReachOn ==
  ASSUME NEW lk, NEW ph, NEW to, NEW x, NEW c, NEW q, NEW known, NEW o,
         Reaching(lk, ph, x, c, q, known, o),
         to \in Checks \cup {"get"} => ph \in Checks,
         to # "done"
  PROVE  Reaching(lk, to, x, c, q, known, o)
BY DEF Reaching, Checks

LEMMA RangeAppended ==
  ASSUME NEW o \in Seq(Pages), NEW x \in Pages
  PROVE  Range(Append(o, x)) = Range(o) \cup {x}
<1>1. /\ Append(o, x) \in Seq(Pages)
      /\ Len(o) \in Nat /\ DOMAIN o = 1..Len(o)
      /\ DOMAIN Append(o, x) = 1..(Len(o) + 1)
      /\ \A i \in 1..Len(o) : Append(o, x)[i] = o[i]
      /\ Append(o, x)[Len(o) + 1] = x
  BY AppendProperties
<1>2. \A i \in DOMAIN Append(o, x) : i \in DOMAIN o \/ i = Len(o) + 1
  BY <1>1
<1>3. DOMAIN o \subseteq DOMAIN Append(o, x) /\ Len(o) + 1 \in DOMAIN Append(o, x)
  BY <1>1
<1>4. \A y : y \in Range(Append(o, x)) <=> y \in Range(o) \cup {x}
  BY <1>1, <1>2, <1>3 DEF Range
<1>5. QED
  BY <1>4

LEMMA ReachStep == LoadInv /\ VisitInv /\ CrawlTypes /\ ReachInv /\ [Next]_vars => ReachInv'
<1> SUFFICES ASSUME LoadInv, VisitInv, CrawlTypes, ReachInv, [Next]_vars PROVE ReachInv'
  OBVIOUS
<1>0. /\ {"load", "wait", "next", "get", "check", "done", "refused"} \subseteq Phases
      /\ Crawling \subseteq Requests
  BY ConstantsOK DEF Phases, Checks, Ended
<1>a. site' = site => links' = links
  BY DEF links
<1>1. CASE UNCHANGED <<site, phase, crawlVars>>
  BY <1>1, <1>a DEF crawlVars, ReachInv
<1>2. ASSUME NEW r \in Requests, Check(r) \/ Acquire(r) \/ Load(r) PROVE ReachInv'
  <2>1. UNCHANGED <<links, cur, depth, queue, seen, out>> /\ phase[r] \in Checks
    BY <1>2, <1>a DEF Check, Acquire, Load, crawlVars, Checks
  <2>2. /\ \A s \in Requests \ {r} : phase'[s] = phase[s]
        /\ phase'[r] # "done"
    <3>1. CASE \E p \in {"wait", "load"} : GoTo(r, p)
      BY <1>0, <3>1, WentTo
    <3>2. CASE \E file : Decide(r, file)
      BY <3>2, Decided
    <3>3. QED
      BY <1>2, <3>1, <3>2 DEF Check, Acquire, Load
  <2>3. ASSUME r \in Crawling
        PROVE  Reaching(links, phase'[r], cur[r], depth[r], queue[r], seen[r], out[r])
    <3>1. Reaching(links, phase[r], cur[r], depth[r], queue[r], seen[r], out[r])
      BY <2>3 DEF ReachInv
    <3>2. QED
      BY <2>1, <2>2, <3>1, ReachOn
  <2>4. QED
    BY <2>1, <2>2, <2>3, ReachMoved
<1>3. ASSUME NEW r \in Requests, Pop(r) PROVE ReachInv'
  <2> DEFINE e == queue[r][1]
             f == RemoveAt(queue[r], 1)
             w == Near(links, Range(out[r]))
  <2>1. /\ r \in Crawling /\ phase[r] = "next"
        /\ queue[r] \in Seq(Entries) /\ queue[r] # <<>>
        /\ queue' = [queue EXCEPT ![r] = f]
        /\ UNCHANGED <<links, out>>
    BY <1>3, <1>a DEF Pop, More, NextEntry, CrawlTypes, VisitInv
  <2>2. \/ e.page \in seen[r] /\ UNCHANGED <<cur, depth, phase, seen>>
        \/ e.depth > MaxDepth
        \/ e.page \notin seen[r] /\ Visits(r, e)
    BY <1>3 DEF Pop, NextEntry
  <2>3. /\ depth[r] \in 0..MaxDepth
        /\ Level(queue[r], depth[r])
        /\ Traced(links, queue[r], w)
        /\ Ahead(links, queue[r], seen[r], w)
        /\ Full(w, Range(out[r]), depth[r])
    BY <2>1 DEF ReachInv, Reaching, CrawlTypes
  <2>4. IsRest(f, queue[r])
    BY <2>1, RestFacts
  <2> HIDE DEF w, f
  <2>5. /\ e \in Entries
        /\ Level(f, e.depth) /\ Level(f, depth[r])
        /\ Traced(links, f, w)
        /\ Ahead(links, f, seen[r] \cup {e.page}, w)
        /\ Full(w, Range(out[r]), e.depth)
        /\ e.page \notin seen[r] => AtDepth(links, w, e.page, e.depth)
    BY <2>3, <2>4, PopFacts
  <2>6. ~(e.depth > MaxDepth)
    <3>1. e.depth \in 0..MaxDepth
      BY <2>5 DEF Entries
    <3>2. QED
      BY <3>1, ConstantsOK
  <2> HIDE DEF e
  <2>7. /\ queue'[r] = f /\ out'[r] = out[r]
        /\ \A s \in Requests \ {r} : queue'[s] = queue[s] /\ out'[s] = out[s]
    BY <2>1 DEF CrawlTypes
  <2>8. CASE e.page \in seen[r] /\ UNCHANGED <<cur, depth, phase, seen>>
    <3>1. seen[r] \cup {e.page} = seen[r]
      BY <2>8
    <3>2. Reaching(links, phase[r], cur[r], depth[r], f, seen[r], out[r])
      BY <2>1, <2>3, <2>5, <3>1 DEF Reaching, Checks, w
    <3>3. QED
      BY <2>1, <2>7, <2>8, <3>2, ReachMoved
  <2>9. CASE e.page \notin seen[r] /\ Visits(r, e)
    <3>1. /\ \A s \in Requests \ {r} :
               /\ phase'[s] = phase[s] /\ cur'[s] = cur[s]
               /\ depth'[s] = depth[s] /\ seen'[s] = seen[s]
          /\ phase'[r] \in {"next", "check"}
          /\ cur'[r] = e.page /\ depth'[r] = e.depth
          /\ seen'[r] = seen[r] \cup {e.page}
      BY <2>9 DEF Visits, GoTo, CrawlTypes, LoadInv
    <3>2. Reaching(links, phase'[r], e.page, e.depth, f, seen[r] \cup {e.page}, out[r])
      BY <2>5, <2>9, <3>1 DEF Reaching, w
    <3>3. QED
      BY <2>1, <2>7, <3>1, <3>2, ReachMoved
  <2>10. QED
    BY <2>2, <2>6, <2>8, <2>9
<1>4. ASSUME NEW r \in Requests, CrawlEnds(r) PROVE ReachInv'
  <2>1. /\ UNCHANGED <<links, cur, depth, queue, seen, out>>
        /\ phase[r] = "next" /\ GoTo(r, "done")
        /\ queue[r] = <<>> \/ ~(Len(out[r]) < MaxPages)
    BY <1>4, <1>a DEF CrawlEnds, crawlVars, More
  <2>2. phase'[r] = "done" /\ \A s \in Requests \ {r} : phase'[s] = phase[s]
    BY <1>0, <2>1, WentTo
  <2>3. queue[r] = <<>> \/ Len(out[r]) >= MaxPages
    BY <2>1, ConstantsOK DEF CrawlTypes
  <2>4. r \in Crawling =>
          Reaching(links, "done", cur[r], depth[r], queue[r], seen[r], out[r])
    BY <2>3 DEF ReachInv, Reaching, Checks
  <2>5. QED
    BY <2>1, <2>2, <2>4, ReachMoved
<1>5. ASSUME NEW r \in Requests, GetPage(r) PROVE ReachInv'
  <2>1. /\ phase[r] = "get"
        /\ UNCHANGED <<links, cur, depth, seen>>
        /\ out' = [out EXCEPT ![r] = Append(@, cur[r])]
    BY <1>5, <1>a DEF GetPage, Hit
  <2>2. /\ out'[r] = Append(out[r], cur[r])
        /\ \A s \in Requests \ {r} : out'[s] = out[s]
    BY <2>1 DEF CrawlTypes
  <2>3. CASE r \notin Crawling
    BY <1>0, <1>5, <2>1, <2>2, <2>3, WentTo, ReachMoved DEF GetPage
  <2>4. CASE r \in Crawling
    <3> DEFINE o == out[r]
               x == cur[r]
               g == queue[r] \o Found(r)
               w == Near(links, Range(o))
               v == Near(links, Range(o) \cup {x})
    <3>1. /\ queue' = [queue EXCEPT ![r] = g] /\ GoTo(r, "next")
      BY <1>5, <2>4 DEF GetPage
    <3>2. /\ queue'[r] = g /\ phase'[r] = "next"
          /\ \A s \in Requests \ {r} : queue'[s] = queue[s] /\ phase'[s] = phase[s]
      BY <1>0, <3>1, WentTo DEF CrawlTypes
    <3>3. /\ o \in Seq(Pages) /\ x \in Pages /\ depth[r] \in 0..MaxDepth
          /\ queue[r] \in Seq(Entries) /\ Found(r) \in Seq(Entries)
      BY FoundType DEF CrawlTypes
    <3>4. IsBoth(g, queue[r], Found(r))
      BY <3>3, BothFacts
    <3>5. IsNear(w, links, Range(o)) /\ IsNear(v, links, Range(o) \cup {x})
      BY NearFacts
    <3>6. Reaching(links, "get", x, depth[r], queue[r], seen[r], o) /\ seen[r] # {}
      BY <2>1, <2>4 DEF ReachInv, VisitInv
    <3>7. /\ Level(queue[r], depth[r])
          /\ Traced(links, queue[r], w)
          /\ Ahead(links, queue[r], seen[r], w)
          /\ Full(w, Range(o), depth[r])
          /\ AtDepth(links, w, x, depth[r])
      BY <3>6 DEF Reaching
    <3>8. IF depth[r] < MaxDepth
          THEN IsWorthwhile(Found(r), links[x], seen[r], depth[r] + 1)
          ELSE Found(r) = <<>>
      BY FoundFacts
    <3> HIDE DEF o, x, g, w, v
    <3>9. /\ Level(g, depth[r])
          /\ Traced(links, g, v)
          /\ Ahead(links, g, seen[r], v)
          /\ Full(v, Range(o) \cup {x}, depth[r])
      BY <3>3, <3>4, <3>5, <3>7, <3>8, CollectFacts
    <3>10. Range(Append(o, x)) = Range(o) \cup {x}
      BY <3>3, RangeAppended
    <3>11. Reaching(links, "next", x, depth[r], g, seen[r], Append(o, x))
      BY <3>9, <3>10 DEF Reaching, v, Checks
    <3>12. QED
      BY <2>1, <2>2, <2>4, <3>2, <3>11, ReachMoved DEF o, x
  <2>5. QED
    BY <2>3, <2>4
<1>6. ASSUME NEW r \in Requests, GetFails(r) PROVE ReachInv'
  <2>1. /\ phase[r] = "get"
        /\ UNCHANGED <<links, cur, depth, queue, seen, out>>
        /\ \E p \in {"next", "refused"} : GoTo(r, p)
    BY <1>6, <1>a DEF GetFails, Hit
  <2>2. /\ phase'[r] \in {"next", "refused"}
        /\ \A s \in Requests \ {r} : phase'[s] = phase[s]
    BY <1>0, <2>1, WentTo
  <2>3. ASSUME r \in Crawling
        PROVE  Reaching(links, phase'[r], cur[r], depth[r], queue[r], seen[r], out[r])
    <3>1. Reaching(links, phase[r], cur[r], depth[r], queue[r], seen[r], out[r])
      BY <2>3 DEF ReachInv
    <3>2. phase'[r] \notin Checks \cup {"get", "done"}
      BY <2>2 DEF Checks
    <3>3. QED
      BY <3>1, <3>2, ReachOn
  <2>4. QED
    BY <2>1, <2>2, <2>3, ReachMoved
<1>7. CASE Expire \/ UNCHANGED vars
  BY <1>1, <1>7 DEF Expire, vars
<1>8. QED
  BY <1>2, <1>3, <1>4, <1>5, <1>6, <1>7 DEF Next, RequestSteps

LEMMA ReachInit == Init => CrawlTypes /\ ReachInv
<1> SUFFICES ASSUME Init PROVE CrawlTypes /\ ReachInv
  OBVIOUS
<1> DEFINE e == [page |-> Seed, depth |-> 0]
<1>1. e \in Entries /\ MaxDepth \in Nat
  BY ConstantsOK DEF Entries
<1>2. CrawlTypes
  <2>a. site.hrefs \in [Pages -> Seq(Pages \cup {Malformed})]
    BY ConstantsOK DEF Init
  <2>b. links \in [Pages -> Seq(Pages)]
    BY <2>a, ReadableFacts DEF links
  <2>1. links \in [Pages -> Seq(Pages)] /\ Seed \in Pages /\ 0 \in 0..MaxDepth
    BY <1>1, <2>b, ConstantsOK DEF Init
  <2>2. /\ cur = [r \in Requests |-> Seed]
        /\ depth = [r \in Requests |-> 0]
        /\ queue = [r \in Requests |-> IF r \in Crawling THEN <<e>> ELSE <<>>]
        /\ seen = [r \in Requests |-> {}]
        /\ out = [r \in Requests |-> <<>>]
    BY DEF Init
  <2>3. <<e>> \in Seq(Entries) /\ <<>> \in Seq(Entries) /\ <<>> \in Seq(Pages)
    BY <1>1
  <2> HIDE DEF e
  <2>4. QED
    BY <2>1, <2>2, <2>3 DEF CrawlTypes
<1>3. ASSUME NEW r \in Crawling
      PROVE  Reaching(links, phase[r], cur[r], depth[r], queue[r], seen[r], out[r])
  <2> DEFINE w == Near(links, Range(<<>>))
  <2>1. /\ r \in Requests
        /\ phase[r] = "check" /\ cur[r] = Seed /\ depth[r] = 0 /\ queue[r] = <<e>>
        /\ seen[r] = {} /\ out[r] = <<>>
    BY ConstantsOK DEF Init
  <2>2. Range(<<>>) = {}
    BY DEF Range
  <2>3. IsNear(w, links, {})
    BY <2>2, NearFacts
  <2>4. \A n \in 0..MaxDepth : w[n] = {}
    BY <2>3 DEF IsNear
  <2> HIDE DEF w
  <2>5. /\ <<e>> \in Seq(Entries) /\ Len(<<e>>) = 1
        /\ \A i \in 1..1 : i = 1 /\ <<e>>[i] = e
        /\ e.page = Seed /\ e.depth = 0
    BY <1>1
  <2> HIDE DEF e
  <2>6. Level(<<e>>, 0)
    BY <2>5 DEF Level
  <2>7. Traced(links, <<e>>, w)
    BY <2>5 DEF Traced
  <2>8. Ahead(links, <<e>>, {}, w)
    <3>1. Queued(<<e>>, Seed, 0)
      BY <2>5 DEF Queued
    <3>2. \A n \in 0..MaxDepth - 1 : n \in 0..MaxDepth
      BY <1>1
    <3>3. QED
      BY <2>4, <3>1, <3>2 DEF Ahead
  <2>9. Full(w, {}, 0)
    BY <2>4 DEF Full
  <2>10. Reaching(links, "check", Seed, 0, <<e>>, {}, <<>>)
    BY <2>2, <2>6, <2>7, <2>8, <2>9 DEF Reaching, w
  <2>11. QED
    BY <2>1, <2>10
<1>4. QED
  BY <1>2, <1>3 DEF ReachInv

\* A crawl misses no page that MaxDepth links lead to over pages it collected,
\* and collects none beyond, unless it stops at MaxPages; links count up to the
\* first malformed one of their page.  Pages leave the queue
\* in the order of their depths, so that a page popped for the first time is as
\* near to the seed as it will be over what is collected by then.
THEOREM CrawlReachesAll == Spec => []CrawlIsComplete
<1>1. CrawlTypes /\ ReachInv => CrawlIsComplete
  <2> SUFFICES ASSUME CrawlTypes, ReachInv, NEW r \in Crawling,
                      phase[r] = "done", Len(out[r]) < MaxPages
               PROVE  LET near == Within(Range(out[r])) IN
                      /\ Range(out[r]) = near[MaxDepth]
                      /\ \A n \in 0..MaxDepth - 1 : \A p \in near[n] :
                           Range(links[p]) \ Elsewhere \subseteq seen[r]
    BY DEF CrawlIsComplete
  <2> DEFINE w == Near(links, Range(out[r]))
  <2>1. Within(Range(out[r])) = w
    BY DEF Within, Near
  <2>2. /\ Ahead(links, queue[r], seen[r], w)
        /\ Full(w, Range(out[r]), depth[r])
        /\ queue[r] = <<>> \/ Len(out[r]) >= MaxPages
    BY DEF ReachInv, Reaching
  <2>3. /\ depth[r] \in 0..MaxDepth /\ MaxDepth \in Nat
        /\ Len(out[r]) \in Nat /\ MaxPages \in Nat
    BY ConstantsOK DEF CrawlTypes
  <2> HIDE DEF w
  <2>4. Range(out[r]) = w[MaxDepth]
    BY <2>2, <2>3 DEF Full
  <2>5. queue[r] = <<>>
    BY <2>2, <2>3
  <2>6. \A x, n : ~Queued(queue[r], x, n)
    BY <2>5 DEF Queued
  <2>7. \A n \in 0..MaxDepth - 1 : \A p \in w[n] :
          Range(links[p]) \ Elsewhere \subseteq seen[r]
    BY <2>2, <2>6 DEF Ahead
  <2>8. QED
    BY <2>1, <2>4, <2>7
<1>2. QED
  BY <1>1, Visiting, ReachInit, CrawlTypesStep, ReachStep, PTL DEF Spec

(***************************************************************************)
(* The host guard and the limits                                           *)
(***************************************************************************)

\* A page at hand is of the site, and there is room for it.
RoomInv ==
  /\ site \in Sites
  /\ landed \in [Requests -> SUBSET Pages]
  /\ rules \in RobotsFiles \cup {Unreadable}
  /\ expiries <= MaxExpiries
  /\ \A r \in Requests :
       /\ Range(hits[r]) \subseteq Pages \ Elsewhere
       /\ Len(out[r]) <= MaxPages
       /\ phase[r] \in Checks \cup {"get"} =>
            cur[r] \notin Elsewhere /\ Len(out[r]) < MaxPages

LEMMA RoomStep ==
  LoadInv /\ VisitInv /\ CrawlTypes /\ RoomInv /\ [Next]_vars => RoomInv'
<1> SUFFICES ASSUME LoadInv, VisitInv, CrawlTypes, RoomInv, [Next]_vars PROVE RoomInv'
  OBVIOUS
<1>0. {"load", "wait", "next", "get", "check", "done", "refused"} \subseteq Phases
  BY DEF Phases, Checks, Ended
<1>1. ASSUME NEW r \in Requests, UNCHANGED <<site, expiries, crawlVars>>,
             rules' \in RobotsFiles \cup {Unreadable},
             \A s \in Requests \ {r} : phase'[s] = phase[s],
             phase[r] \in Checks \/ phase'[r] \notin Checks \cup {"get"}
      PROVE  RoomInv'
  BY <1>1 DEF RoomInv, crawlVars
<1>2. ASSUME NEW r \in Requests, Check(r) \/ Acquire(r) \/ Load(r) PROVE RoomInv'
  <2>1. /\ UNCHANGED <<site, expiries, crawlVars>> /\ phase[r] \in Checks
        /\ rules' \in RobotsFiles \cup {Unreadable}
    BY <1>2 DEF Check, Acquire, Load, cacheVars, Checks, RoomInv
  <2>2. CASE \E p \in {"wait", "load"} : GoTo(r, p)
    BY <1>0, <1>1, <2>1, <2>2, WentTo
  <2>3. CASE \E file : Decide(r, file)
    BY <1>1, <2>1, <2>3, Decided
  <2>4. QED
    BY <1>2, <2>2, <2>3 DEF Check, Acquire, Load
<1>3. ASSUME NEW r \in Requests, CrawlEnds(r) PROVE RoomInv'
  <2>1. UNCHANGED <<site, expiries, rules, crawlVars>> /\ GoTo(r, "done")
    BY <1>3 DEF CrawlEnds, cacheVars
  <2>2. rules' \in RobotsFiles \cup {Unreadable}
    BY <2>1 DEF RoomInv
  <2>3. "done" \notin Checks \cup {"get"}
    BY DEF Checks
  <2>4. phase'[r] = "done" /\ \A s \in Requests \ {r} : phase'[s] = phase[s]
    BY <1>0, <2>1, WentTo
  <2>5. QED
    BY <1>1, <2>1, <2>2, <2>3, <2>4
<1>4. ASSUME NEW r \in Requests, Pop(r) PROVE RoomInv'
  <2> DEFINE e == queue[r][1]
  <2>1. /\ Len(out[r]) < MaxPages
        /\ UNCHANGED <<site, rules, expiries, out, hits, landed>>
        /\ \/ UNCHANGED <<cur, phase>>
           \/ Visits(r, e)
    BY <1>4 DEF Pop, More, NextEntry, cacheVars
  <2> HIDE DEF e
  <2>2. CASE UNCHANGED <<cur, phase>>
    BY <2>1, <2>2 DEF RoomInv
  <2>3. CASE Visits(r, e)
    <3>1. /\ \A s \in Requests \ {r} : phase'[s] = phase[s] /\ cur'[s] = cur[s]
          /\ cur'[r] = e.page
          /\ phase'[r] = IF e.page \in Elsewhere THEN "next" ELSE "check"
      BY <2>3 DEF Visits, GoTo, LoadInv, CrawlTypes
    <3>2. QED
      BY <2>1, <3>1 DEF RoomInv, Checks
  <2>4. QED
    BY <2>1, <2>2, <2>3
<1>5. ASSUME NEW r \in Requests, GetPage(r) \/ GetFails(r) PROVE RoomInv'
  <2>1. /\ phase[r] = "get"
        /\ UNCHANGED <<site, rules, expiries, cur>>
        /\ hits' = [hits EXCEPT ![r] = Append(@, cur[r])]
        /\ landed' = [landed EXCEPT ![r] = @ \cup {site.redirects[cur[r]]}]
        /\ out' = out \/ out' = [out EXCEPT ![r] = Append(@, cur[r])]
        /\ \E p \in {"next", "done", "refused"} : GoTo(r, p)
    BY <1>5 DEF GetPage, GetFails, Hit, cacheVars
  <2>2. /\ phase'[r] \in {"next", "done", "refused"}
        /\ \A s \in Requests \ {r} : phase'[s] = phase[s]
    BY <1>0, <2>1, WentTo
  <2>3. phase'[r] \notin Checks \cup {"get"}
    BY <2>2 DEF Checks
  <2>4. /\ cur[r] \in Pages \ Elsewhere /\ cur[r] \notin ToSet(hits[r])
        /\ Len(out[r]) < MaxPages
    BY <2>1 DEF RoomInv, CrawlTypes, VisitInv
  <2>5. /\ hits'[r] = Append(hits[r], cur[r])
        /\ \A s \in Requests \ {r} : hits'[s] = hits[s]
    BY <2>1 DEF VisitInv
  <2>6. \A s : Range(s) = ToSet(s)
    BY DEF Range, ToSet
  <2>7. Range(hits'[r]) \subseteq Pages \ Elsewhere
    <3>1. ToSet(hits'[r]) = ToSet(hits[r]) \cup {cur[r]}
      BY <2>4, <2>5, AppendNew DEF VisitInv
    <3>2. ToSet(hits[r]) \subseteq Pages \ Elsewhere
      BY <2>6 DEF RoomInv
    <3>3. QED
      BY <2>4, <2>6, <3>1, <3>2
  <2>8. /\ Len(out'[r]) <= MaxPages
        /\ \A s \in Requests \ {r} : out'[s] = out[s]
    <3>1. /\ Len(out[r]) \in Nat /\ MaxPages \in Nat
          /\ Len(Append(out[r], cur[r])) = Len(out[r]) + 1
      BY ConstantsOK DEF CrawlTypes
    <3>2. out'[r] = out[r] \/ out'[r] = Append(out[r], cur[r])
      BY <2>1 DEF CrawlTypes
    <3>3. \A s \in Requests \ {r} : out'[s] = out[s]
      BY <2>1 DEF CrawlTypes
    <3>4. QED
      BY <2>4, <3>1, <3>2, <3>3
  <2>9. landed' \in [Requests -> SUBSET Pages]
    <3>1. site.redirects \in [Pages -> Pages] /\ cur[r] \in Pages
      BY ConstantsOK DEF RoomInv, CrawlTypes
    <3>2. landed \in [Requests -> SUBSET Pages] /\ landed[r] \cup {site.redirects[cur[r]]} \in SUBSET Pages
      BY <3>1 DEF RoomInv
    <3>3. QED
      BY <2>1, <3>2
  <2>10. site' \in Sites /\ rules' \in RobotsFiles \cup {Unreadable} /\ expiries' <= MaxExpiries
    BY <2>1 DEF RoomInv
  <2>11. QED
    BY <2>1, <2>2, <2>3, <2>5, <2>7, <2>8, <2>9, <2>10 DEF RoomInv
<1>6. CASE Expire
  <2>1. expiries' <= MaxExpiries
    BY <1>6, ConstantsOK DEF Expire, LoadInv
  <2>2. UNCHANGED <<site, rules, phase, cur, hits, landed, out>>
    BY <1>6 DEF Expire, crawlVars
  <2>3. QED
    BY <2>1, <2>2 DEF RoomInv
<1>7. CASE UNCHANGED vars
  BY <1>7 DEF vars, cacheVars, crawlVars, RoomInv
<1>8. QED
  BY <1>2, <1>3, <1>4, <1>5, <1>6, <1>7 DEF Next, RequestSteps

\* Each variable has its type: in particular no URL of another host is requested,
\* whatever the site links to, and a request collects MaxPages pages at most.
\* (The pages that redirects lead to may be any.)
THEOREM CrawlTyped == Spec => []TypeOK
<1>1. Init => RoomInv
  <2> SUFFICES ASSUME Init PROVE RoomInv
    OBVIOUS
  <2>1. /\ rules = Unreadable /\ expiries = 0 /\ site \in Sites
        /\ landed \in [Requests -> SUBSET Pages]
        /\ \A r \in Requests : hits[r] = <<>> /\ out[r] = <<>> /\ cur[r] = Seed
    BY DEF Init
  <2>2. Range(<<>>) = {} /\ Len(<<>>) = 0
    BY DEF Range
  <2>3. MaxPages \in Nat /\ MaxPages > 0 /\ MaxExpiries \in Nat /\ Seed \notin Elsewhere
    BY ConstantsOK
  <2>4. QED
    BY <2>1, <2>2, <2>3 DEF RoomInv
<1>2. LoadInv /\ CrawlTypes /\ RoomInv => TypeOK
  <2> SUFFICES ASSUME LoadInv, CrawlTypes, RoomInv PROVE TypeOK
    OBVIOUS
  <2>1. lock \in Requests \cup {Nobody}
    BY DEF LoadInv
  <2>2. /\ {fresh} \subseteq BOOLEAN
        /\ phase \in [Requests -> Checks \cup {"next", "get"} \cup Ended]
        /\ loads \in Nat
    BY DEF LoadInv, Phases
  <2>3. expiries \in 0..MaxExpiries
    BY ConstantsOK DEF LoadInv, RoomInv
  <2>4. ASSUME NEW r \in Requests
        PROVE  /\ cur[r] \in Pages
               /\ depth[r] \in 0..MaxDepth
               /\ seen[r] \subseteq Pages
               /\ out[r] \in Seq(Pages)
    BY DEF CrawlTypes
  <2>5. ASSUME NEW r \in Requests, NEW e \in Range(queue[r])
        PROVE  e.page \in Pages /\ e.depth \in 0..MaxDepth
    <3>1. queue[r] \in Seq(Entries)
      BY DEF CrawlTypes
    <3>2. e \in Entries
      BY <3>1, <2>5 DEF Range
    <3>3. QED
      BY <3>2 DEF Entries
  <2>6. QED
    BY <2>1, <2>2, <2>3, <2>4, <2>5 DEF TypeOK, RoomInv
<1>3. QED
  BY <1>1, <1>2, Visiting, ReachInit, CrawlTypesStep, RoomStep, PTL DEF Spec

=============================================================================
