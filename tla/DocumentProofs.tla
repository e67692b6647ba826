--------------------------- MODULE DocumentProofs ---------------------------
(***************************************************************************)
(* Proofs about one document, for every document, category, vocabulary,    *)
(* limit and chunk size, whatever the model answers.                       *)
(***************************************************************************)
EXTENDS Document, FiniteSetTheorems, SequenceTheorems, WellFoundedInduction, TLAPS

(***************************************************************************)
(* Loops                                                                   *)
(***************************************************************************)

Below == {ss \in Nat \X Nat : ss[1] < ss[2]}

\* Numbers have a least one.
LEMMA NatMin ==
  ASSUME NEW T \in SUBSET Nat, T # {}
  PROVE  \E x \in T : \A y \in T : x <= y
<1>1. IsWellFoundedOn(Below, Nat)
  BY NatLessThanWellFounded DEF OpToRel, Below
<1>2. PICK x \in T : \A y \in T : ~(<<y, x>> \in Below)
  BY <1>1, WFMin
<1>3. ASSUME NEW y \in T PROVE x <= y
  <2>1. x \in Nat /\ y \in Nat
    OBVIOUS
  <2>2. y < x => <<y, x>> \in Nat \X Nat /\ <<y, x>>[1] < <<y, x>>[2]
    BY <2>1
  <2>3. ~(y < x)
    BY <1>2, <2>2 DEF Below
  <2>4. QED
    BY <2>1, <2>3
<1>4. QED
  BY <1>3

\* What holds before the first turn of a loop, and after a turn if it held
\* before, holds after each.
LEMMA Upwards ==
  ASSUME NEW N \in Nat, NEW S, 0 \in S, \A n \in 1..N : n - 1 \in S => n \in S
  PROVE  0..N \subseteq S
<1> DEFINE T == (0..N) \ S
<1> SUFFICES ASSUME T # {} PROVE FALSE
  OBVIOUS
<1>1. T \in SUBSET Nat
  OBVIOUS
<1>2. PICK x \in T : \A y \in T : x <= y
  BY <1>1, NatMin
<1>3. x \in 1..N /\ x - 1 \in 0..N /\ ~(x <= x - 1)
  OBVIOUS
<1>4. x - 1 \in S
  BY <1>2, <1>3
<1>5. QED
  BY <1>2, <1>3, <1>4

\* m has the values of a variable that is b before a loop and changed to
\* F[n][..] by its n-th turn.
Iterates(m, N, b, F) == m[0] = b /\ \A n \in 1..N : m[n] = F[n][m[n - 1]]

\* Every loop has them.
LEMMA Iterated ==
  ASSUME NEW D, NEW N \in Nat, NEW b \in D, NEW F \in [1..N -> [D -> D]]
  PROVE  \E m \in [0..N -> D] : Iterates(m, N, b, F)
<1> USE DEF Iterates
<1> DEFINE S == {n \in 0..N : \E m \in [0..n -> D] : Iterates(m, n, b, F)}
<1>1. 0 \in S
  <2> DEFINE m == [i \in 0..0 |-> b]
  <2>1. m \in [0..0 -> D] /\ Iterates(m, 0, b, F)
    OBVIOUS
  <2>2. \E p \in [0..0 -> D] : Iterates(p, 0, b, F)
    BY <2>1
  <2>3. QED
    BY <2>2
<1>2. ASSUME NEW n \in 1..N, n - 1 \in S PROVE n \in S
  <2>1. PICK m \in [0..n - 1 -> D] : Iterates(m, n - 1, b, F)
    BY <1>2
  <2> DEFINE x == F[n][m[n - 1]]
             p == [i \in 0..n |-> IF i = n THEN x ELSE m[i]]
  <2>2. m[n - 1] \in D
    OBVIOUS
  <2>3. x \in D
    BY <2>2
  <2> HIDE DEF x
  <2>4. p \in [0..n -> D]
    BY <2>3
  <2>5. \A i \in 0..n - 1 : p[i] = m[i]
    OBVIOUS
  <2>6. p[n] = x /\ p[n - 1] = m[n - 1] /\ p[0] = m[0]
    OBVIOUS
  <2>7. ASSUME NEW i \in 1..n - 1 PROVE p[i] = F[i][p[i - 1]]
    <3>1. i \in 0..n - 1 /\ i - 1 \in 0..n - 1
      OBVIOUS
    <3>2. QED
      BY <2>1, <2>5, <3>1
  <2>8. p[n] = F[n][p[n - 1]]
    BY <2>6 DEF x
  <2> HIDE DEF p
  <2>9. \A i \in 1..n : i = n \/ i \in 1..n - 1
    OBVIOUS
  <2>10. Iterates(p, n, b, F)
    BY <2>1, <2>6, <2>7, <2>8, <2>9
  <2>11. n \in 0..N
    OBVIOUS
  <2> HIDE DEF Iterates
  <2>12. QED
    BY <2>4, <2>10, <2>11
<1> HIDE DEF S
<1>3. 0..N \subseteq S
  BY <1>1, <1>2, Upwards
<1>4. N \in S
  BY <1>3
<1>5. QED
  BY <1>4 DEF S

(***************************************************************************)
(* Lengths                                                                 *)
(***************************************************************************)

LEMMA CharsType == ASSUME NEW t \in Seq(Words) PROVE Chars(t) \in Nat
<1> DEFINE N == Len(t)
           F == [n \in 1..N |-> [k \in Nat |-> k + CharsOf[t[n]]]]
           u == CHOOSE m : m = [n \in 0..N |-> IF n = 0 THEN 0 ELSE m[n - 1] + CharsOf[t[n]]]
<1>1. N \in Nat /\ \A n \in 1..N : t[n] \in Words
  OBVIOUS
<1>2. \A n \in 1..N : CharsOf[t[n]] \in Nat
  BY <1>1, ReadingConstantsOK
<1> HIDE DEF N
<1>3. F \in [1..N -> [Nat -> Nat]]
  BY <1>2
<1>4. \A n \in 1..N : \A k \in Nat : F[n][k] = k + CharsOf[t[n]]
  OBVIOUS
<1> HIDE DEF F
<1>5. PICK m \in [0..N -> Nat] : Iterates(m, N, 0, F)
  BY <1>1, <1>3, Iterated
<1>6. \A n \in 1..N : m[n - 1] \in Nat
  BY <1>1
<1>7. m[0] = 0 /\ \A n \in 1..N : m[n] = F[n][m[n - 1]]
  BY <1>5 DEF Iterates
<1>8. \A n \in 1..N : m[n] = m[n - 1] + CharsOf[t[n]]
  BY <1>4, <1>6, <1>7
<1>9. \A n \in 0..N : n = 0 \/ n \in 1..N
  BY <1>1
<1>10. \A n \in 0..N : m[n] = IF n = 0 THEN 0 ELSE m[n - 1] + CharsOf[t[n]]
  BY <1>7, <1>8, <1>9
<1>11. m = [n \in 0..N |-> IF n = 0 THEN 0 ELSE m[n - 1] + CharsOf[t[n]]]
  BY <1>10
<1>12. u = [n \in 0..N |-> IF n = 0 THEN 0 ELSE u[n - 1] + CharsOf[t[n]]]
  BY <1>11
<1>13. Chars(t) = u[N]
  BY DEF Chars, N
<1> HIDE DEF u
<1>14. u[0] = 0 /\ \A n \in 1..N : u[n] = u[n - 1] + CharsOf[t[n]]
  BY <1>1, <1>9, <1>12
<1> DEFINE S == {n \in 0..N : u[n] \in Nat}
<1>15. 0 \in S
  BY <1>1, <1>14
<1>16. ASSUME NEW n \in 1..N, n - 1 \in S PROVE n \in S
  <2>1. u[n - 1] \in Nat /\ CharsOf[t[n]] \in Nat /\ u[n] = u[n - 1] + CharsOf[t[n]]
    BY <1>2, <1>14, <1>16
  <2>2. u[n] \in Nat /\ n \in 0..N
    BY <1>1, <2>1
  <2>3. QED
    BY <2>2
<1> HIDE DEF S
<1>17. 0..N \subseteq S
  BY <1>1, <1>15, <1>16, Upwards
<1>18. N \in S
  BY <1>1, <1>17
<1>19. QED
  BY <1>13, <1>18 DEF S

LEMMA NoChars == Chars(<<>>) = 0
<1> DEFINE t == <<>>
           N == Len(t)
           u == CHOOSE m : m = [n \in 0..N |-> IF n = 0 THEN 0 ELSE m[n - 1] + CharsOf[t[n]]]
           z == [n \in 0..N |-> 0]
<1>1. Chars(t) = u[N]
  BY DEF Chars
<1>2. N = 0
  OBVIOUS
<1> HIDE DEF t, N
<1>3. \A n \in 0..N : n = 0 /\ z[n] = 0
  BY <1>2
<1>4. z = [n \in 0..N |-> IF n = 0 THEN 0 ELSE z[n - 1] + CharsOf[t[n]]]
  BY <1>3
<1>5. u = [n \in 0..N |-> IF n = 0 THEN 0 ELSE u[n - 1] + CharsOf[t[n]]]
  BY <1>4
<1> HIDE DEF u
<1>6. u[0] = 0
  BY <1>2, <1>5
<1>7. QED
  BY <1>1, <1>2, <1>6 DEF t

(***************************************************************************)
(* What a finding answers                                                  *)
(***************************************************************************)

Entries == UNION {[K -> Facts] : K \in SUBSET Keys}
Splits  == [values : Entries, unmapped : Entries]

\* A set of positions has a last one.
LEMMA MaxFacts ==
  ASSUME NEW N \in Nat, NEW T \in SUBSET (0..N), T # {}
  PROVE  Max(T) \in T /\ \A x \in T : Max(T) >= x
<1> DEFINE U == {N - x : x \in T}
<1>1. U \in SUBSET Nat /\ U # {}
  <2>1. \A x \in T : x \in 0..N /\ N - x \in Nat
    OBVIOUS
  <2>2. QED
    BY <2>1
<1>2. PICK u \in U : \A y \in U : u <= y
  BY <1>1, NatMin
<1>3. PICK x \in T : u = N - x
  BY <1>2
<1>4. ASSUME NEW y \in T PROVE x >= y
  <2>1. N - y \in U /\ x \in 0..N /\ y \in 0..N
    OBVIOUS
  <2>2. N - x <= N - y
    BY <1>2, <1>3, <2>1
  <2>3. QED
    BY <2>1, <2>2
<1>5. QED
  BY <1>4 DEF Max

\* Keys that Place puts in one place have one normal form, and what is filed
\* in a field answers it.
LEMMA PlaceFacts ==
  ASSUME NEW k \in Keys
  PROVE  \/ /\ Place(k)[1] = "values"
            /\ Place(k)[2] \in Range(Fields)
            /\ NormalOf[Place(k)[2]] = NormalOf[k]
         \/ /\ Place(k)[1] = "unmapped"
            /\ Place(k)[2] = IF NormalOf[k] = NoLetters THEN k ELSE NormalOf[k]
            /\ \A g \in Range(Fields) : NormalOf[g] # NormalOf[k]
<1> DEFINE n == NormalOf[k]
<1>1. Len(Fields) \in Nat /\ DOMAIN Fields = 1..Len(Fields)
  BY ReadingConstantsOK
<1>2. FieldsLike(n) \in SUBSET (0..Len(Fields))
  BY <1>1 DEF FieldsLike
<1>3. CASE FieldsLike(n) # {}
  <2>1. Max(FieldsLike(n)) \in FieldsLike(n)
    BY <1>1, <1>2, <1>3, MaxFacts
  <2>2. Place(k) = <<"values", Fields[Max(FieldsLike(n))]>>
    BY <1>3 DEF Place
  <2>3. Place(k)[1] = "values" /\ Place(k)[2] = Fields[Max(FieldsLike(n))]
    BY <2>2
  <2>4. QED
    BY <2>1, <2>3 DEF FieldsLike, Range
<1>4. CASE FieldsLike(n) = {}
  <2>1. \A g \in Range(Fields) : NormalOf[g] # n
    BY <1>4 DEF FieldsLike, Range
  <2>2. Place(k) = <<"unmapped", IF n = NoLetters THEN k ELSE n>>
    BY <1>4 DEF Place
  <2>3. QED
    BY <2>1, <2>2
<1>5. QED
  BY <1>3, <1>4

LEMMA SamePlace ==
  ASSUME NEW k \in Keys, NEW l \in Keys, Place(k)[1] = Place(l)[1],
         Place(k)[2] = Place(l)[2]
  PROVE  \/ k = l
         \/ /\ NormalOf[k] = NormalOf[l]
            /\ \/ NormalOf[l] # NoLetters
               \/ \E h \in Range(Fields) : NormalOf[h] = NormalOf[l]
<1>1. CASE Place(k)[1] = "values"
  <2>1. /\ Place(k)[2] \in Range(Fields)
        /\ NormalOf[Place(k)[2]] = NormalOf[k]
    BY <1>1, PlaceFacts
  <2>2. NormalOf[Place(l)[2]] = NormalOf[l]
    BY <1>1, PlaceFacts
  <2>3. QED
    BY <2>1, <2>2
<1>2. CASE Place(k)[1] # "values"
  <2>1. /\ Place(k)[2] = IF NormalOf[k] = NoLetters THEN k ELSE NormalOf[k]
        /\ Place(l)[2] = IF NormalOf[l] = NoLetters THEN l ELSE NormalOf[l]
    BY <1>2, PlaceFacts
  <2>2. NormalOf[NormalOf[k]] = NormalOf[k] /\ NormalOf[NormalOf[l]] = NormalOf[l]
    BY ReadingConstantsOK
  <2>3. QED
    BY <2>1, <2>2
<1>3. QED
  BY <1>1, <1>2

(***************************************************************************)
(* The loop over the findings                                              *)
(***************************************************************************)

Filed(s)   == Range(s.values) \cup Range(s.unmapped)

\* The key of f replaces that of g.
Like(f, g) ==
  \/ KeyOf[f] = KeyOf[g]
  \/ /\ NormalOf[KeyOf[f]] = NormalOf[KeyOf[g]]
     /\ \/ NormalOf[KeyOf[g]] # NoLetters
        \/ \E h \in Range(Fields) : NormalOf[h] = NormalOf[KeyOf[g]]

\* What is filed in e is filed under the place of its key.
InPlace(e, which) ==
  \A k \in DOMAIN e : Place(KeyOf[e[k]])[1] = which /\ Place(KeyOf[e[k]])[2] = k

\* What is true of s after the first n findings of a: FindingsAreKept, and that
\* what is unmapped is where Place puts it.
SplitOf(s, a, n) ==
  /\ s \in Splits
  /\ Filed(s) \subseteq {a[i] : i \in 1..n}
  /\ \A i \in 1..n : a[i] \in Filed(s) \/ \E j \in i + 1..n : Like(a[j], a[i])
  /\ InPlace(s.values, "values")
  /\ InPlace(s.unmapped, "unmapped")

\* w is e with f filed under k: away is at most what was there.
Adds(w, e, k, f) ==
  /\ w \in Entries
  /\ w[k] = f
  /\ DOMAIN w = DOMAIN e \cup {k}
  /\ \A l \in DOMAIN e \ {k} : w[l] = e[l]
  /\ Range(w) \subseteq Range(e) \cup {f}
  /\ f \in Range(w)
  /\ \A g \in Range(e) : g \in Range(w) \/ (k \in DOMAIN e /\ e[k] = g)

LEMMA WithFacts ==
  ASSUME NEW e \in Entries, NEW k \in Keys, NEW f \in Facts
  PROVE  Adds(With(e, k, f), e, k, f)
<1> DEFINE w == With(e, k, f)
<1>1. PICK K \in SUBSET Keys : e \in [K -> Facts]
  BY DEF Entries
<1>2. w = [l \in K \cup {k} |-> IF l = k THEN f ELSE e[l]]
  BY <1>1 DEF With
<1>3. w \in [K \cup {k} -> Facts] /\ K \cup {k} \in SUBSET Keys
  BY <1>1, <1>2
<1>4. w \in Entries
  BY <1>3 DEF Entries
<1>5. w[k] = f /\ DOMAIN w = DOMAIN e \cup {k} /\ \A l \in DOMAIN e \ {k} : w[l] = e[l]
  BY <1>1, <1>2
<1> HIDE DEF w
<1>6. /\ Range(w) \subseteq Range(e) \cup {f}
      /\ f \in Range(w)
      /\ \A g \in Range(e) : g \in Range(w) \/ (k \in DOMAIN e /\ e[k] = g)
  BY <1>5 DEF Range
<1>7. Adds(w, e, k, f)
  BY <1>4, <1>5, <1>6 DEF Adds
<1>8. QED
  BY <1>7 DEF w

\* A finding takes the place only of one that answers the same field.
Takes(w, e, f, which) ==
  /\ w \in Entries
  /\ InPlace(w, which)
  /\ f \in Range(w)
  /\ Range(w) \subseteq Range(e) \cup {f}
  /\ \A g \in Range(e) : g \in Range(w) \/ Like(f, g)

LEMMA TakesInPlace ==
  ASSUME NEW w, NEW e \in Entries, NEW f \in Facts,
         Adds(w, e, Place(KeyOf[f])[2], f), InPlace(e, Place(KeyOf[f])[1])
  PROVE  Takes(w, e, f, Place(KeyOf[f])[1])
<1> DEFINE k     == Place(KeyOf[f])[2]
           which == Place(KeyOf[f])[1]
<1>1. InPlace(w, which)
  BY DEF InPlace, Adds
<1>2. KeyOf[f] \in Keys
  BY ReadingConstantsOK
<1>3. ASSUME k \in DOMAIN e PROVE Like(f, e[k])
  <2>1. e[k] \in Facts
    BY <1>3 DEF Entries
  <2>2. KeyOf[e[k]] \in Keys
    BY <2>1, ReadingConstantsOK
  <2>3. Place(KeyOf[e[k]])[1] = which /\ Place(KeyOf[e[k]])[2] = k
    BY <1>3 DEF InPlace
  <2> DEFINE x == KeyOf[f]
             y == KeyOf[e[k]]
  <2>4. x \in Keys /\ y \in Keys /\ Place(x)[1] = Place(y)[1] /\ Place(x)[2] = Place(y)[2]
    BY <1>2, <2>2, <2>3
  <2> HIDE DEF x, y
  <2>5. \/ x = y
        \/ /\ NormalOf[x] = NormalOf[y]
           /\ \/ NormalOf[y] # NoLetters
              \/ \E h \in Range(Fields) : NormalOf[h] = NormalOf[y]
    BY <2>4, SamePlace
  <2>6. QED
    BY <2>5 DEF Like, x, y
<1>4. QED
  BY <1>1, <1>3 DEF Adds, Takes

LEMMA SplitStep ==
  ASSUME NEW a \in Seq(Facts), NEW n \in 1..Len(a), NEW s, SplitOf(s, a, n - 1)
  PROVE  SplitOf(Put(s, a[n]), a, n)
<1> DEFINE f  == a[n]
           at == Place(KeyOf[f])
           v  == s.values
           u  == s.unmapped
           p  == Put(s, f)
<1>1. f \in Facts /\ KeyOf[f] \in Keys
  BY ReadingConstantsOK
<1>2. s \in Splits /\ v \in Entries /\ u \in Entries
      /\ InPlace(v, "values") /\ InPlace(u, "unmapped") /\ Filed(s) = Range(v) \cup Range(u)
  BY DEF SplitOf, Splits, Filed
<1>3. at[2] \in Keys /\ at[1] \in {"values", "unmapped"}
  <2>1. Range(Fields) \subseteq Keys /\ NormalOf[KeyOf[f]] \in Keys
    BY <1>1, ReadingConstantsOK DEF Range
  <2>2. QED
    BY <1>1, <2>1, PlaceFacts
<1>4. n \in Nat /\ 1..n = (1..n - 1) \cup {n} /\ n \notin 1..n - 1
  OBVIOUS
<1>5. /\ at[1] = "values" => p = [values |-> With(v, at[2], f), unmapped |-> u]
      /\ at[1] # "values" => p = [values |-> v, unmapped |-> With(u, at[2], f)]
  BY DEF Put
<1> DEFINE k == at[2]
           o == at[1]
<1>6. o = Place(KeyOf[f])[1] /\ k = Place(KeyOf[f])[2] /\ k \in Keys
  BY <1>3
<1> HIDE DEF p, k, o, u, v, at, f
<1>7. /\ f \in Filed(p)
      /\ Filed(p) \subseteq Filed(s) \cup {f}
      /\ \A g \in Filed(s) : g \in Filed(p) \/ Like(f, g)
      /\ p \in Splits
      /\ InPlace(p.values, "values")
      /\ InPlace(p.unmapped, "unmapped")
  <2>1. CASE o = "values"
    <3> DEFINE w == With(v, k, f)
    <3>1. p = [values |-> w, unmapped |-> u]
      BY <1>5, <2>1 DEF k, o
    <3>2. Adds(w, v, k, f)
      BY <1>1, <1>2, <1>6, WithFacts
    <3> HIDE DEF w
    <3>3. Takes(w, v, f, "values")
      BY <1>1, <1>2, <1>6, <2>1, <3>2, TakesInPlace
    <3>4. p.values = w /\ p.unmapped = u /\ p \in Splits
      BY <1>2, <3>1, <3>3 DEF Splits, Takes
    <3>5. Filed(p) = Range(w) \cup Range(u)
      BY <3>4 DEF Filed
    <3>6. QED
      BY <1>2, <3>3, <3>4, <3>5 DEF Takes
  <2>2. CASE o = "unmapped"
    <3> DEFINE w == With(u, k, f)
    <3>1. p = [values |-> v, unmapped |-> w]
      BY <1>5, <2>2 DEF k, o
    <3>2. Adds(w, u, k, f)
      BY <1>1, <1>2, <1>6, WithFacts
    <3> HIDE DEF w
    <3>3. Takes(w, u, f, "unmapped")
      BY <1>1, <1>2, <1>6, <2>2, <3>2, TakesInPlace
    <3>4. p.values = v /\ p.unmapped = w /\ p \in Splits
      BY <1>2, <3>1, <3>3 DEF Splits, Takes
    <3>5. Filed(p) = Range(v) \cup Range(w)
      BY <3>4 DEF Filed
    <3>6. QED
      BY <1>2, <3>3, <3>4, <3>5 DEF Takes
  <2>3. QED
    BY <1>3, <2>1, <2>2 DEF o
<1>8. Filed(p) \subseteq {a[i] : i \in 1..n}
  <2>1. Filed(s) \subseteq {a[i] : i \in 1..n - 1}
    BY DEF SplitOf
  <2>2. QED
    BY <1>4, <1>7, <2>1 DEF f
<1>9. ASSUME NEW i \in 1..n
      PROVE  a[i] \in Filed(p) \/ \E j \in i + 1..n : Like(a[j], a[i])
  <2>1. CASE i = n
    BY <1>7, <2>1 DEF f
  <2>2. CASE i \in 1..n - 1 /\ a[i] \in Filed(s)
    <3>1. n \in i + 1..n
      BY <2>2
    <3>2. QED
      BY <1>7, <2>2, <3>1 DEF f
  <2>3. CASE i \in 1..n - 1 /\ a[i] \notin Filed(s)
    <3>1. PICK j \in i + 1..n - 1 : Like(a[j], a[i])
      BY <2>3 DEF SplitOf
    <3>2. j \in i + 1..n
      OBVIOUS
    <3>3. QED
      BY <3>1, <3>2
  <2>4. QED
    BY <1>4, <2>1, <2>2, <2>3
<1>10. SplitOf(p, a, n)
  BY <1>7, <1>8, <1>9 DEF SplitOf
<1>11. QED
  BY <1>10 DEF p, f

LEMMA PutType ==
  ASSUME NEW s \in Splits, NEW f \in Facts
  PROVE  Put(s, f) \in Splits
<1> DEFINE at == Place(KeyOf[f])
<1>1. KeyOf[f] \in Keys /\ NormalOf[KeyOf[f]] \in Keys /\ Range(Fields) \subseteq Keys
  BY ReadingConstantsOK DEF Range
<1>2. at[2] \in Keys
  BY <1>1, PlaceFacts
<1>3. Put(s, f) = IF at[1] = "values"
                  THEN [values |-> With(s.values, at[2], f), unmapped |-> s.unmapped]
                  ELSE [values |-> s.values, unmapped |-> With(s.unmapped, at[2], f)]
  BY DEF Put
<1>4. s.values \in Entries /\ s.unmapped \in Entries
  BY DEF Splits
<1> DEFINE k == at[2]
<1> HIDE DEF k
<1>5. k \in Keys
  BY <1>2 DEF k
<1>6. \A e \in Entries : With(e, k, f) \in Entries
  BY <1>5, WithFacts DEF Adds
<1>7. QED
  BY <1>3, <1>4, <1>6 DEF k, Splits

\* The loop leaves every finding where it belongs.
LEMMA SplitFacts ==
  ASSUME NEW a \in Seq(Facts)
  PROVE  SplitOf(Split(a), a, Len(a))
<1> DEFINE N == Len(a)
           F == [n \in 1..N |-> [s \in Splits |-> Put(s, a[n])]]
           u == CHOOSE m : m = [n \in 0..N |-> IF n = 0 THEN Nothing
                                               ELSE Put(m[n - 1], a[n])]
<1>1. N \in Nat /\ \A n \in 1..N : a[n] \in Facts
  OBVIOUS
<1>2. Split(a) = u[N]
  BY DEF Split
<1>3. N = Len(a)
  OBVIOUS
<1> HIDE DEF N
<1>4. F \in [1..N -> [Splits -> Splits]]
  BY <1>1, PutType
<1>5. \A n \in 1..N : \A s \in Splits : F[n][s] = Put(s, a[n])
  OBVIOUS
<1>6. Nothing \in Splits
  <2>1. <<>> \in [{} -> Facts] /\ {} \in SUBSET Keys
    OBVIOUS
  <2>2. <<>> \in Entries
    BY <2>1 DEF Entries
  <2>3. QED
    BY <2>2 DEF Splits, Nothing
<1> HIDE DEF F
<1>7. PICK m \in [0..N -> Splits] : Iterates(m, N, Nothing, F)
  BY <1>1, <1>4, <1>6, Iterated
<1>8. \A n \in 1..N : m[n - 1] \in Splits
  BY <1>1
<1>9. m[0] = Nothing /\ \A n \in 1..N : m[n] = F[n][m[n - 1]]
  BY <1>7 DEF Iterates
<1>10. \A n \in 1..N : m[n] = Put(m[n - 1], a[n])
  BY <1>5, <1>8, <1>9
<1>11. \A n \in 0..N : n = 0 \/ n \in 1..N
  BY <1>1
<1>12. \A n \in 0..N : m[n] = IF n = 0 THEN Nothing ELSE Put(m[n - 1], a[n])
  BY <1>9, <1>10, <1>11
<1>13. m = [n \in 0..N |-> IF n = 0 THEN Nothing ELSE Put(m[n - 1], a[n])]
  BY <1>12
<1>14. u = [n \in 0..N |-> IF n = 0 THEN Nothing ELSE Put(u[n - 1], a[n])]
  BY <1>13
<1> HIDE DEF u
<1>15. u[0] = Nothing /\ \A n \in 1..N : u[n] = Put(u[n - 1], a[n])
  BY <1>1, <1>11, <1>14
<1> DEFINE S == {n \in 0..N : SplitOf(u[n], a, n)}
<1>16. 0 \in S
  <2>1. Nothing.values = <<>> /\ Nothing.unmapped = <<>>
    BY DEF Nothing
  <2>2. Filed(Nothing) = {}
    BY <2>1 DEF Filed, Range
  <2>3. InPlace(Nothing.values, "values") /\ InPlace(Nothing.unmapped, "unmapped")
    BY <2>1 DEF InPlace
  <2>4. SplitOf(Nothing, a, 0)
    BY <1>6, <2>2, <2>3 DEF SplitOf
  <2>5. QED
    BY <1>1, <1>15, <2>4
<1>17. ASSUME NEW n \in 1..N, n - 1 \in S PROVE n \in S
  <2> DEFINE x == u[n - 1]
  <2>1. SplitOf(x, a, n - 1)
    BY <1>17
  <2> HIDE DEF x
  <2>2. SplitOf(Put(x, a[n]), a, n)
    BY <1>3, <2>1, SplitStep
  <2>3. u[n] = Put(x, a[n]) /\ n \in 0..N
    BY <1>1, <1>15 DEF x
  <2>4. QED
    BY <2>2, <2>3
<1> HIDE DEF S
<1>18. 0..N \subseteq S
  BY <1>1, <1>16, <1>17, Upwards
<1>19. N \in S
  BY <1>1, <1>18
<1>20. QED
  BY <1>2, <1>3, <1>19 DEF S

(***************************************************************************)
(* The text of a document                                                  *)
(***************************************************************************)

\* What is flattened has the elements of its parts.
LEMMA FlattenFacts ==
  ASSUME NEW D, NEW q \in Seq(Seq(D))
  PROVE  /\ FlattenSeq(q) \in Seq(D)
         /\ \A d : d \in Range(FlattenSeq(q)) <=> \E i \in 1..Len(q) : d \in Range(q[i])
<1> DEFINE N == Len(q)
<1>1. N \in Nat /\ \A n \in 1..N : q[n] \in Seq(D)
  OBVIOUS
<1>2. CASE N = 0
  <2>1. FlattenSeq(q) = q /\ q = <<>>
    BY <1>2 DEF FlattenSeq
  <2>2. Range(q) = {}
    BY <2>1 DEF Range
  <2>3. QED
    BY <1>2, <2>1, <2>2
<1>3. CASE N # 0
  <2> DEFINE Turn(n, x) == IF n = 1 THEN q[n] ELSE x \o q[n]
             F == [n \in 1..N |-> [x \in Seq(D) |-> Turn(n, x)]]
             u == CHOOSE m : m = [n \in 1..N |-> IF n = 1 THEN q[n] ELSE m[n - 1] \o q[n]]
  <2>1. FlattenSeq(q) = u[N]
    BY <1>3 DEF FlattenSeq
  <2>2. \A n \in 1..N : \A x \in Seq(D) : Turn(n, x) \in Seq(D)
    BY <1>1, ConcatProperties
  <2>3. N = Len(q)
    OBVIOUS
  <2> HIDE DEF N
  <2>4. F \in [1..N -> [Seq(D) -> Seq(D)]] /\ <<>> \in Seq(D)
    BY <2>2
  <2>5. \A n \in 1..N : \A x \in Seq(D) : F[n][x] = Turn(n, x)
    OBVIOUS
  <2> HIDE DEF F
  <2>6. PICK m \in [0..N -> Seq(D)] : Iterates(m, N, <<>>, F)
    BY <1>1, <2>4, Iterated
  <2>7. \A n \in 1..N : m[n - 1] \in Seq(D)
    BY <1>1
  <2>8. \A n \in 1..N : m[n] = F[n][m[n - 1]]
    BY <2>6 DEF Iterates
  <2>9. \A n \in 1..N : m[n] = Turn(n, m[n - 1])
    BY <2>5, <2>7, <2>8
  <2> DEFINE p == [n \in 1..N |-> m[n]]
  <2>10. \A n \in 1..N : n # 1 => n - 1 \in 1..N
    BY <1>1
  <2>11. \A n \in 1..N : p[n] = IF n = 1 THEN q[n] ELSE p[n - 1] \o q[n]
    BY <2>9, <2>10
  <2>12. p = [n \in 1..N |-> IF n = 1 THEN q[n] ELSE p[n - 1] \o q[n]]
    BY <2>11
  <2>13. u = [n \in 1..N |-> IF n = 1 THEN q[n] ELSE u[n - 1] \o q[n]]
    BY <2>12
  <2> HIDE DEF u, p
  <2>14. \A n \in 1..N : u[n] = IF n = 1 THEN q[n] ELSE u[n - 1] \o q[n]
    BY <2>13
  <2> DEFINE Right(n) == /\ u[n] \in Seq(D)
                         /\ \A d : d \in Range(u[n]) <=> \E i \in 1..n : d \in Range(q[i])
             S == {n \in 0..N : n # 0 => Right(n)}
  <2>15. 0 \in S
    BY <1>1
  <2>16. ASSUME NEW n \in 1..N, n - 1 \in S PROVE n \in S
    <3>1. CASE n = 1
      <4>1. u[n] = q[n] /\ q[n] \in Seq(D) /\ 1..n = {n}
        BY <1>1, <2>14, <3>1
      <4>2. Right(n)
        BY <4>1
      <4>3. n \in 0..N
        BY <1>1
      <4>4. QED
        BY <4>2, <4>3
    <3>2. CASE n # 1
      <4> DEFINE x == u[n - 1]
      <4>1. n - 1 \in 1..N /\ 1..n = (1..n - 1) \cup {n} /\ n \in 0..N /\ n - 1 # 0
        BY <1>1, <3>2
      <4>2. Right(n - 1)
        BY <2>16, <4>1
      <4>3. x \in Seq(D) /\ \A d : d \in Range(x) <=> \E i \in 1..n - 1 : d \in Range(q[i])
        BY <4>2
      <4>4. u[n] = x \o q[n] /\ q[n] \in Seq(D)
        BY <1>1, <2>14, <3>2
      <4> HIDE DEF x
      <4>5. u[n] \in Seq(D)
        BY <4>3, <4>4, ConcatProperties
      <4>6. Range(u[n]) = Range(x) \cup Range(q[n])
        BY <4>3, <4>4, RangeConcatenation
      <4>7. Right(n)
        BY <4>1, <4>3, <4>5, <4>6
      <4>8. QED
        BY <4>1, <4>7
    <3>3. QED
      BY <3>1, <3>2
  <2> HIDE DEF S
  <2>17. 0..N \subseteq S
    BY <1>1, <2>15, <2>16, Upwards
  <2>18. N \in S
    BY <1>1, <2>17
  <2>19. Right(N)
    BY <1>3, <2>18 DEF S
  <2>20. QED
    BY <2>1, <2>3, <2>19
<1>4. QED
  BY <1>2, <1>3

\* A document that is parsed as one has every word of its pages.
LEMMA ParsedFacts ==
  ASSUME NEW f \in Files
  PROVE  /\ f.pages \in Seq(Pages)
         /\ ParsedText(f) \in Seq(Words)
         /\ \A i \in DOMAIN f.pages : Range(f.pages[i].layer) \subseteq Range(ParsedText(f))
<1> DEFINE q == [i \in DOMAIN f.pages |-> PageText(f, i)]
<1>1. f.pages \in Seq(Pages)
  BY ReadingConstantsOK
<1>2. \A i \in DOMAIN f.pages : f.pages[i] \in Pages /\ f.pages[i].layer \in Seq(Words)
  <2>1. \A i \in DOMAIN f.pages : f.pages[i] \in Pages
    BY <1>1
  <2>2. \A x \in Pages : x.layer \in Seq(Words)
    BY DEF Pages
  <2>3. QED
    BY <2>1, <2>2
<1>3. <<Marker>> \in Seq(Words)
  BY ReadingConstantsOK
<1>4. ASSUME NEW i \in DOMAIN f.pages
      PROVE  /\ PageText(f, i) \in Seq(Words)
             /\ Range(f.pages[i].layer) \subseteq Range(PageText(f, i))
  <2> DEFINE y == f.pages[i].layer
  <2>1. y \in Seq(Words)
    BY <1>2
  <2> DEFINE x == <<Marker>>
  <2>2. PageText(f, i) = y \/ PageText(f, i) = x \o y
    BY DEF PageText
  <2> HIDE DEF y
  <2>0. x \in Seq(Words)
    BY <1>3
  <2> HIDE DEF x
  <2>3. x \o y \in Seq(Words)
    BY <2>0, <2>1, ConcatProperties
  <2>4. Range(x \o y) = Range(x) \cup Range(y)
    BY <2>0, <2>1, RangeConcatenation
  <2> DEFINE w == PageText(f, i)
  <2> HIDE DEF w
  <2>5. w \in Seq(Words) /\ Range(y) \subseteq Range(w)
    <3>1. CASE w = y
      BY <2>1, <3>1
    <3>2. CASE w = x \o y
      <4> DEFINE v == x \o y
      <4>1. v \in Seq(Words) /\ Range(y) \subseteq Range(v) /\ w = v
        BY <2>3, <2>4, <3>2
      <4> HIDE DEF v
      <4>2. QED
        BY <4>1
    <3>3. QED
      BY <2>2, <3>1, <3>2 DEF w
  <2>6. QED
    BY <2>5 DEF w, y
<1>5. q \in Seq(Seq(Words)) /\ Len(q) = Len(f.pages) /\ DOMAIN f.pages = 1..Len(f.pages)
  BY <1>1, <1>4
<1>6. ParsedText(f) = FlattenSeq(q)
  BY DEF ParsedText
<1>7. \A i \in DOMAIN f.pages : q[i] = PageText(f, i)
  OBVIOUS
<1> HIDE DEF q
<1>8. /\ FlattenSeq(q) \in Seq(Words)
      /\ \A d : d \in Range(FlattenSeq(q)) <=> \E i \in 1..Len(q) : d \in Range(q[i])
  BY <1>5, FlattenFacts
<1>9. QED
  BY <1>1, <1>4, <1>5, <1>6, <1>7, <1>8

(***************************************************************************)
(* Types                                                                   *)
(***************************************************************************)

\* Nothing is answered before the model is asked, and nothing stored before
\* the end.
TypeInv ==
  /\ DocumentTypeOK
  /\ stage \in {"parse", "judge", "ask"} => answer = <<>> /\ row = NoRow
  /\ stage # "done" => stored = {}

\* The result of the clip is the text or a beginning of it.
LEMMA ClippedFacts ==
  ASSUME text \in Seq(Words)
  PROVE  /\ Range(Clipped) \subseteq Range(text)
         /\ Chars(text) <= MaxChars => Clipped = text
<1> DEFINE T == {n \in 0..Len(text) : Chars(SubSeq(text, 1, n)) <= MaxChars}
<1>1. Len(text) \in Nat /\ MaxChars \in Nat
  BY ReadingConstantsOK
<1>2. 0 \in T
  <2> DEFINE s == SubSeq(text, 1, 0)
  <2>1. s = <<>>
    BY SubSeqEmpty
  <2> HIDE DEF s
  <2>2. Chars(s) <= MaxChars /\ 0 \in 0..Len(text)
    BY <1>1, <2>1, NoChars
  <2>3. QED
    BY <2>2 DEF s
<1>3. Max(T) \in T /\ \A x \in T : Max(T) >= x
  BY <1>1, <1>2, MaxFacts
<1>4. Clipped = SubSeq(text, 1, Max(T))
  BY DEF Clipped
<1>5. Range(Clipped) \subseteq Range(text)
  <2>1. Max(T) \in 0..Len(text)
    BY <1>3
  <2> DEFINE n == Max(T)
  <2> HIDE DEF T
  <2>2. n \in 0..Len(text)
    BY <2>1
  <2> HIDE DEF n
  <2>3. \A i \in 1..n : text[i] \in Words
    BY <1>1, <2>2
  <2>4. SubSeq(text, 1, n) \in Seq(Words) /\ Len(SubSeq(text, 1, n)) = n
        /\ \A i \in 1..n : SubSeq(text, 1, n)[i] = text[i]
    BY <1>1, <2>2, <2>3, SubSeqProperties
  <2>5. QED
    BY <1>1, <1>4, <2>2, <2>4 DEF n, Range
<1>6. ASSUME Chars(text) <= MaxChars PROVE Clipped = text
  <2>1. SubSeq(text, 1, Len(text)) = text
    BY SubSeqFull
  <2> DEFINE s == SubSeq(text, 1, Len(text))
  <2>2. s = text
    BY <2>1
  <2> HIDE DEF s
  <2>3. Chars(s) <= MaxChars /\ Len(text) \in 0..Len(text)
    BY <1>1, <1>6, <2>2
  <2>4. Len(text) \in T
    BY <2>3 DEF s
  <2>5. Max(T) >= Len(text) /\ Max(T) \in 0..Len(text)
    BY <1>3, <2>4
  <2>6. Max(T) = Len(text)
    BY <1>1, <2>5
  <2>7. QED
    BY <1>4, <2>1, <2>6
<1>7. QED
  BY <1>5, <1>6

LEMMA GuardedType ==
  ASSUME text \in Seq(Words)
  PROVE  /\ Guarded \in Seq(Words)
         /\ guarded => Range(Guarded) \cap Personal = {}
<1>1. Redacted \in Words /\ Redacted \notin Personal
  BY ReadingConstantsOK
<1>2. DOMAIN text = 1..Len(text) /\ Len(text) \in Nat /\ \A i \in DOMAIN text : text[i] \in Words
  OBVIOUS
<1> DEFINE g == [i \in DOMAIN text |-> IF text[i] \in Personal THEN Redacted ELSE text[i]]
<1>3. g \in [1..Len(text) -> Words]
  BY <1>1, <1>2
<1>4. g \in Seq(Words)
  BY <1>2, <1>3
<1>5. Range(g) \cap Personal = {}
  BY <1>1 DEF Range
<1>6. Guarded = IF guarded THEN g ELSE text
  BY DEF Guarded
<1>7. QED
  BY <1>4, <1>5, <1>6

LEMMA TypeInit == DocumentInit => TypeInv
<1> SUFFICES ASSUME DocumentInit PROVE TypeInv
  OBVIOUS
<1>1. <<>> \in Seq(Words) /\ Range(<<>>) = {} /\ Len(Empty.pages) = 0
  BY DEF Range, Empty
<1>4. stored = {}
  BY DEF DocumentInit
<1>2. CASE ReadingInit
  <2>1. Len(file.pages) \in Nat
    BY <1>2, ReadingConstantsOK DEF ReadingInit
  <2>2. route \in {"streamed", "buffered", "extract"}
    BY <1>2, ReadingConstantsOK DEF ReadingInit, RoutesOf
  <2>3. asked \in BOOLEAN /\ guarded \in BOOLEAN /\ raw \in BOOLEAN /\ cut \in BOOLEAN
    BY <1>2 DEF ReadingInit
  <2>4. {asked, guarded, raw, cut} \subseteq BOOLEAN
    BY <2>3
  <2>5. page \in 1..Len(file.pages) + 1
    BY <1>2, <2>1 DEF ReadingInit
  <2>6. QED
    BY <1>1, <1>2, <1>4, <2>2, <2>4, <2>5
    DEF ReadingInit, TypeInv, DocumentTypeOK, ReadingTypeOK
<1>3. CASE NotAsked
  <2>1. asked \in BOOLEAN /\ guarded \in BOOLEAN /\ raw \in BOOLEAN /\ cut \in BOOLEAN
    BY <1>3 DEF NotAsked
  <2>2. {asked, guarded, raw, cut} \subseteq BOOLEAN
    BY <2>1
  <2>3. file \in Files /\ page \in 1..Len(file.pages) + 1
    BY <1>1, <1>3, FilesOK DEF NotAsked
  <2>4. QED
    BY <1>1, <1>3, <1>4, <2>2, <2>3
    DEF NotAsked, TypeInv, DocumentTypeOK, ReadingTypeOK
<1>5. QED
  BY <1>2, <1>3 DEF DocumentInit

LEMMA TypeStep == TypeInv /\ [DocumentNext]_documentVars => TypeInv'
<1> SUFFICES ASSUME TypeInv, [DocumentNext]_documentVars PROVE TypeInv'
  OBVIOUS
<1> USE DEF TypeInv, DocumentTypeOK, ReadingTypeOK, inputVars, modelVars
<1>1. CASE Refuses /\ UNCHANGED stored
  BY <1>1 DEF Refuses
<1>2. CASE Parses /\ UNCHANGED stored
  <2>1. ParsedText(file) \in Seq(Words)
    BY ParsedFacts
  <2>2. QED
    BY <1>2, <2>1 DEF Parses
<1>3. CASE ObjectRefused /\ UNCHANGED stored
  BY <1>3 DEF ObjectRefused
<1>4. CASE ReadingFails /\ UNCHANGED stored
  BY <1>4 DEF ReadingFails
<1>5. CASE FeedsPage /\ UNCHANGED stored
  <2>1. file.pages \in Seq(Pages)
    BY ParsedFacts
  <2>2. page \in 1..Len(file.pages) /\ Len(file.pages) \in Nat
    BY <1>5, <2>1 DEF FeedsPage
  <2>3. file.pages[page] \in Pages
    BY <2>1, <2>2
  <2>4. file.pages[page].layer \in Seq(Words)
    BY <2>3 DEF Pages
  <2>5. text \o file.pages[page].layer \in Seq(Words)
    BY <2>4, ConcatProperties
  <2>6. page' \in 1..Len(file.pages) + 1 /\ text' \in Seq(Words)
    BY <1>5, <2>2, <2>5 DEF FeedsPage
  <2>7. QED
    BY <1>5, <2>6 DEF FeedsPage
<1>6. CASE StreamEnds /\ UNCHANGED stored
  <2>1. raw' \in BOOLEAN
    BY <1>6 DEF StreamEnds
  <2>2. {asked, guarded, raw, cut}' \subseteq BOOLEAN
    BY <1>6, <2>1 DEF StreamEnds
  <2>3. stage' \in {"judge", "done"}
    BY <1>6 DEF StreamEnds
  <2>4. answer' = <<>> /\ row' = NoRow /\ stored' = {}
    BY <1>6 DEF StreamEnds, Streaming
  <2>5. UNCHANGED <<file, route, page, text, how, shown, answer, row, stored>>
    BY <1>6 DEF StreamEnds
  <2> HIDE DEF TypeInv, DocumentTypeOK, ReadingTypeOK
  <2>6. ReadingTypeOK'
    BY <2>2, <2>3, <2>5 DEF TypeInv, DocumentTypeOK, ReadingTypeOK
  <2>7. QED
    BY <2>4, <2>5, <2>6 DEF TypeInv, DocumentTypeOK
<1>7. CASE JudgesText /\ UNCHANGED stored
  <2>1. Range(answer') = {}
    BY <1>7 DEF JudgesText, Judging, Range
  <2>2. QED
    BY <1>7, <2>1 DEF JudgesText, Judging, FactsIn
<1>8. CASE JudgesPictures /\ UNCHANGED stored
  <2>1. Range(answer') = {}
    BY <1>8 DEF JudgesPictures, Judging, Range
  <2>2. ASSUME NEW i \in Rendered PROVE file.pages[i].picture \subseteq Facts
    <3>1. file.pages \in Seq(Pages) /\ i \in DOMAIN file.pages
      BY ParsedFacts DEF Rendered
    <3>2. file.pages[i] \in Pages
      BY <3>1
    <3>3. QED
      BY <3>2 DEF Pages
  <2>3. shown' \subseteq Facts
    BY <1>8, <2>2 DEF JudgesPictures
  <2>4. QED
    BY <1>8, <2>1, <2>3 DEF JudgesPictures, Judging
<1>9. CASE JudgesScanned /\ UNCHANGED stored
  BY <1>9 DEF JudgesScanned, Judging, Failure
<1>10. CASE (ModelFails \/ FindsNothing \/ ModelIsBlind) /\ UNCHANGED stored
  BY <1>10 DEF ModelFails, FindsNothing, ModelIsBlind, Failed, Answers, Failure
<1>11. CASE Finds /\ UNCHANGED stored
  <2>1. Range(answer') \subseteq shown
    BY <1>11 DEF Finds, SeqOf, Range
  <2>2. QED
    BY <1>11, <2>1 DEF Finds, Answers
<1>12. CASE (Delivers \/ Replies \/ JobIsCancelled) /\ UNCHANGED stored
  BY <1>12 DEF Delivers, Replies, JobIsCancelled
<1>13. CASE HandsOver
  BY <1>13, GuardedType DEF HandsOver, Guards
<1>14. CASE Chunks
  BY <1>14 DEF Chunks, readingVars
<1>15. CASE Stores
  <2>1. ASSUME NEW c PROVE [content |-> WordsOf(c), meta |-> row]
                             \in [content : SUBSET Words, meta : {NoRow, row}]
    BY DEF WordsOf
  <2>2. stored' \subseteq [content : SUBSET Words, meta : {NoRow, row}]
    BY <1>15, <2>1 DEF Stores
  <2>3. QED
    BY <1>15, <2>2 DEF Stores, Chunked
<1>16. CASE StoringFails \/ CancelledWhileEmbedding
  BY <1>16 DEF StoringFails, CancelledWhileEmbedding, Chunked
<1>17. CASE UNCHANGED documentVars
  BY <1>17 DEF documentVars, readingVars
<1>18. QED
  BY <1>1, <1>2, <1>3, <1>4, <1>5, <1>6, <1>7, <1>8, <1>9, <1>10, <1>11, <1>12, <1>13,
     <1>14, <1>15, <1>16, <1>17 DEF DocumentNext, ReadingSteps

\* Everything kept of a document has its type; what is stored of it has its
\* row for metadata, or none.
THEOREM DocumentTyped == DocumentSpec => []DocumentTypeOK
<1>1. TypeInv => DocumentTypeOK
  BY DEF TypeInv
<1>2. QED
  BY <1>1, TypeInit, TypeStep, PTL DEF DocumentSpec

(***************************************************************************)
(* Rows                                                                    *)
(***************************************************************************)

\* Only what was asked for is read, and what was read has its row, which is not
\* yet collected; only the buffered route goes on to the chunker.
RowInv ==
  /\ OneRowPerDocument
  /\ stage \in {"judge", "ask"} => asked
  /\ stage \in {"read", "chunk"} /\ asked => row # NoRow
  /\ stage = "chunk" => route = "buffered"
  /\ stage \in {"parse", "judge", "ask", "read", "chunk"} => rows = <<>>

LEMMA RowInit == DocumentInit => RowInv
<1>1. DocumentInit => row = NoRow /\ rows = <<>> /\ Len(rows) = 0
  BY DEF DocumentInit, ReadingInit, NotAsked
<1>2. DocumentInit => stage = "parse" \/ (stage = "chunk" /\ ~asked /\ route = "buffered")
  BY DEF DocumentInit, ReadingInit, NotAsked
<1>3. QED
  BY <1>1, <1>2 DEF RowInv, OneRowPerDocument

LEMMA RowStep == TypeInv /\ RowInv /\ [DocumentNext]_documentVars => RowInv'
<1> SUFFICES ASSUME TypeInv, RowInv, [DocumentNext]_documentVars PROVE RowInv'
  OBVIOUS
<1> USE DEF RowInv, OneRowPerDocument, inputVars, modelVars
<1>1. stage \in {"parse", "judge", "ask"} => row = NoRow
  BY DEF TypeInv
<1>2. NoRow.failure = "unread" /\ \A why : Failure(why).failure = why
  BY DEF NoRow, Failure
<1>3. Append(<<>>, row) = <<row>> /\ Len(<<row>>) = 1 /\ Len(<<>>) = 0
  OBVIOUS
<1>4. stage \in {"read", "chunk"} => Collected = IF row = NoRow THEN <<>> ELSE <<row>>
  BY <1>3 DEF Collected
<1>5. CASE Refuses
  BY <1>1, <1>5 DEF Refuses
<1>6. CASE Parses
  BY <1>1, <1>6 DEF Parses
<1>7. CASE ObjectRefused
  BY <1>1, <1>7 DEF ObjectRefused
<1>8. CASE ReadingFails
  BY <1>1, <1>8 DEF ReadingFails
<1>9. CASE FeedsPage
  BY <1>1, <1>9 DEF FeedsPage
<1>10. CASE StreamEnds
  BY <1>1, <1>10 DEF StreamEnds, Streaming
<1>11. CASE JudgesText \/ JudgesPictures
  BY <1>1, <1>11 DEF JudgesText, JudgesPictures, Judging
<1>12. CASE JudgesScanned
  BY <1>1, <1>2, <1>12 DEF JudgesScanned, Judging
<1>13. CASE ModelFails \/ FindsNothing \/ ModelIsBlind
  BY <1>1, <1>2, <1>13 DEF ModelFails, FindsNothing, ModelIsBlind, Failed, Answers
<1>14. CASE Finds
  <2>1. row'.failure = "none"
    BY <1>14 DEF Finds
  <2>2. row' # NoRow'
    BY <1>2, <2>1 DEF NoRow
  <2>3. stage = "ask" /\ stage' = "read" /\ UNCHANGED <<route, asked, rows>>
    BY <1>14 DEF Finds, Answers
  <2>4. QED
    BY <2>2, <2>3
<1>15. CASE Delivers
  BY <1>3, <1>4, <1>15 DEF Delivers
<1>16. CASE Replies
  <2>1. CASE row.failure = "retry"
    <3>1. row # NoRow /\ stage' = "failed" /\ UNCHANGED <<rows, row, route, asked>>
      BY <1>2, <1>16, <2>1 DEF Replies
    <3>2. rows' = <<>>
      BY <1>16, <3>1 DEF Replies
    <3>3. QED
      BY <1>3, <1>16, <2>1, <3>1, <3>2 DEF Replies
  <2>2. CASE row.failure # "retry"
    <3>1. stage' = "done" /\ UNCHANGED <<row, route, asked, file>>
      BY <1>16, <2>2 DEF Replies
    <3>2. rows' = IF row' = NoRow THEN <<>> ELSE <<row'>>
      BY <1>4, <1>16, <2>2, <3>1 DEF Replies
    <3>3. (asked' => row' # NoRow) /\ (~asked' => row' = NoRow) /\ row'.failure # "retry"
      BY <1>16, <2>2, <3>1 DEF Replies
    <3>4. Len(rows') <= 1
      BY <1>3, <3>1, <3>2
    <3>5. QED
      BY <3>1, <3>2, <3>3, <3>4
  <2>3. QED
    BY <2>1, <2>2
<1>17. CASE JobIsCancelled
  BY <1>1, <1>17 DEF JobIsCancelled
<1>18. CASE HandsOver
  BY <1>18 DEF HandsOver, Guards
<1>19. CASE Chunks
  BY <1>19 DEF Chunks, readingVars
<1>20. CASE Stores \/ StoringFails
  <2>1. rows' = IF row' = NoRow THEN <<>> ELSE <<row'>>
    BY <1>4, <1>20 DEF Stores, StoringFails, Chunked
  <2>2. stage' \in {"done", "failed"} /\ route' = "buffered"
    BY <1>20 DEF Stores, StoringFails, Chunked
  <2>3. (asked' => row' # NoRow) /\ (~asked' => row' = NoRow)
    BY <1>20 DEF Stores, StoringFails, Chunked
  <2>4. Len(rows') <= 1
    BY <1>3, <1>20, <2>1 DEF Stores, StoringFails, Chunked
  <2>5. QED
    BY <2>1, <2>2, <2>3, <2>4
<1>21. CASE CancelledWhileEmbedding
  BY <1>21 DEF CancelledWhileEmbedding, Chunked
<1>22. CASE UNCHANGED documentVars
  BY <1>22 DEF documentVars, readingVars
<1>23. QED
  BY <1>5, <1>6, <1>7, <1>8, <1>9, <1>10, <1>11, <1>12, <1>13, <1>14, <1>15, <1>16,
     <1>17, <1>18, <1>19, <1>20, <1>21, <1>22 DEF DocumentNext, ReadingSteps

\* Whoever asked for a document to be read gets one row for it, though the model
\* failed, and on the buffered route though the embedder failed after it, but for
\* the cases that OneRowPerDocument lists: above all a streamed PDF that fails
\* before it is read.  Nobody gets two, or one that was not asked for.
THEOREM DocumentRow == DocumentSpec => []OneRowPerDocument
<1>1. RowInv => OneRowPerDocument
  BY DEF RowInv
<1>2. QED
  BY <1>1, TypeInit, TypeStep, RowInit, RowStep, PTL DEF DocumentSpec

(***************************************************************************)
(* Redaction                                                               *)
(***************************************************************************)

\* The chunker is given a text that is redacted already.
GuardInv ==
  /\ ChunksAreRedacted
  /\ stage = "chunk" /\ guarded => Range(text) \cap Personal = {}

LEMMA GuardInit == DocumentInit => GuardInv
<1>1. DocumentInit => stored = {} /\ (stage = "chunk" => guarded = FALSE)
  BY DEF DocumentInit, ReadingInit, NotAsked
<1>2. QED
  BY <1>1 DEF GuardInv, ChunksAreRedacted

LEMMA GuardStep ==
  TypeInv /\ GuardInv /\ [DocumentNext]_documentVars => GuardInv'
<1> SUFFICES ASSUME TypeInv, GuardInv, [DocumentNext]_documentVars
             PROVE  GuardInv'
  OBVIOUS
<1> USE DEF inputVars, modelVars
<1>1. text \in Seq(Words) /\ DOMAIN text = 1..Len(text) /\ (stage # "done" => stored = {})
  BY DEF TypeInv, DocumentTypeOK, ReadingTypeOK
<1>2. CASE ReadingSteps
  <2>1. stage # "done" /\ stage' # "chunk" /\ stored' = stored
    BY <1>2 DEF ReadingSteps, Refuses, Parses, ObjectRefused, ReadingFails, FeedsPage,
       StreamEnds, Streaming, JudgesText, JudgesPictures, JudgesScanned, Judging,
       ModelFails, FindsNothing, ModelIsBlind, Finds, Failed, Answers, Delivers,
       Replies, JobIsCancelled
  <2>2. QED
    BY <1>1, <2>1 DEF GuardInv, ChunksAreRedacted
<1>3. CASE HandsOver
  <2>1. stored' = {} /\ text' = Guarded /\ guarded' = guarded
    BY <1>1, <1>3 DEF HandsOver, Guards
  <2>2. guarded => Range(Guarded) \cap Personal = {}
    BY <1>1, GuardedType
  <2>3. QED
    BY <2>1, <2>2 DEF GuardInv, ChunksAreRedacted
<1>4. CASE Stores
  <2>1. stage = "chunk" /\ stage' = "done" /\ UNCHANGED guarded
    BY <1>4 DEF Stores, Chunked
  <2>2. ASSUME guarded, NEW s \in stored'
        PROVE  s.content \cap Personal = {}
    <3>1. PICK c \in Range(chunks) : s = [content |-> WordsOf(c), meta |-> row]
      BY <1>4 DEF Stores
    <3>2. WordsOf(c) \subseteq Range(text)
      BY DEF WordsOf, Range
    <3>3. Range(text) \cap Personal = {}
      BY <2>1, <2>2 DEF GuardInv
    <3>4. QED
      BY <3>1, <3>2, <3>3
  <2>3. QED
    BY <2>1, <2>2 DEF GuardInv, ChunksAreRedacted
<1>5. CASE StoringFails \/ CancelledWhileEmbedding
  <2>1. stage = "chunk" /\ stage' # "chunk" /\ stored' = stored
    BY <1>5 DEF StoringFails, CancelledWhileEmbedding, Chunked
  <2>2. QED
    BY <1>1, <2>1 DEF GuardInv, ChunksAreRedacted
<1>6. CASE Chunks \/ UNCHANGED documentVars
  <2>1. UNCHANGED <<stage, text, guarded, stored>>
    BY <1>6 DEF Chunks, documentVars, readingVars
  <2>2. QED
    BY <2>1 DEF GuardInv, ChunksAreRedacted
<1>7. QED
  BY <1>2, <1>3, <1>4, <1>5, <1>6 DEF DocumentNext

\* What the guardrails take out of a document is in the text of none of its
\* chunks, whichever way it was cut.  (Of the metadata next to that text it is
\* false, see RedactedForEverything.)
THEOREM DocumentRedacted == DocumentSpec => []ChunksAreRedacted
<1>1. GuardInv => ChunksAreRedacted
  BY DEF GuardInv
<1>2. QED
  BY <1>1, TypeInit, TypeStep, GuardInit, GuardStep, PTL
  DEF DocumentSpec

(***************************************************************************)
(* Findings                                                                *)
(***************************************************************************)

LEMMA KeptStep == TypeInv /\ FindingsAreKept /\ [DocumentNext]_documentVars => FindingsAreKept'
<1> SUFFICES ASSUME TypeInv, FindingsAreKept, [DocumentNext]_documentVars
             PROVE  FindingsAreKept'
  OBVIOUS
<1> USE DEF inputVars, modelVars
<1>1. CASE Finds
  <2> DEFINE a == answer'
             s == Split(a)
             r == row'
  <2>1. a \in Seq(Facts)
    <3>1. shown \subseteq Facts
      BY DEF TypeInv, DocumentTypeOK, ReadingTypeOK
    <3>2. PICK m \in 0..Cardinality(shown) : a \in [1..m -> shown]
      BY <1>1 DEF Finds, SeqOf
    <3>3. m \in Nat
      OBVIOUS
    <3>4. QED
      BY <3>1, <3>2, <3>3
  <2>2. SplitOf(s, a, Len(a))
    BY <2>1, SplitFacts
  <2>3. r.values = s.values /\ r.unmapped = s.unmapped
    BY <1>1 DEF Finds
  <2> HIDE DEF s, a, r
  <2>4. /\ Range(r.values) \cup Range(r.unmapped) = Filed(s)
        /\ Filed(s) \subseteq Range(a)
        /\ DOMAIN a = 1..Len(a)
    <3>1. DOMAIN a = 1..Len(a)
      BY <2>1
    <3>2. Filed(s) \subseteq Range(a)
      BY <2>2, <3>1 DEF SplitOf, Range
    <3>3. QED
      BY <2>3, <3>1, <3>2 DEF Filed
  <2>5. \A i \in DOMAIN a :
          \/ a[i] \in Filed(s)
          \/ \E j \in i + 1..Len(a) :
               \/ KeyOf[a[j]] = KeyOf[a[i]]
               \/ /\ NormalOf[KeyOf[a[j]]] = NormalOf[KeyOf[a[i]]]
                  /\ \/ \E h \in Range(Fields) : NormalOf[h] = NormalOf[KeyOf[a[i]]]
                     \/ NormalOf[KeyOf[a[i]]] # NoLetters
    BY <2>2, <2>4 DEF SplitOf, Like
  <2>6. ASSUME NEW g \in DOMAIN s.values
        PROVE  g \in Range(Fields) /\ NormalOf[g] = NormalOf[KeyOf[s.values[g]]]
    <3>1. s.values[g] \in Facts
      BY <2>2 DEF SplitOf, Splits, Entries
    <3>2. KeyOf[s.values[g]] \in Keys
      BY <3>1, ReadingConstantsOK
    <3>3. Place(KeyOf[s.values[g]])[1] = "values" /\ Place(KeyOf[s.values[g]])[2] = g
      BY <2>2 DEF SplitOf, InPlace
    <3>4. QED
      BY <3>2, <3>3, PlaceFacts
  <2>7. ASSUME NEW k \in DOMAIN s.unmapped
        PROVE  ~\E g \in Range(Fields) : NormalOf[g] = NormalOf[KeyOf[s.unmapped[k]]]
    <3>1. s.unmapped[k] \in Facts
      BY <2>2 DEF SplitOf, Splits, Entries
    <3>2. KeyOf[s.unmapped[k]] \in Keys
      BY <3>1, ReadingConstantsOK
    <3>3. Place(KeyOf[s.unmapped[k]])[1] = "unmapped"
      BY <2>2 DEF SplitOf, InPlace
    <3>4. QED
      BY <3>2, <3>3, PlaceFacts
  <2>8. QED
    BY <2>3, <2>4, <2>5, <2>6, <2>7 DEF FindingsAreKept, a, r
<1>2. CASE JudgesScanned \/ ModelFails \/ FindsNothing \/ ModelIsBlind
  <2>1. row'.failure # "none"
    BY <1>2 DEF JudgesScanned, ModelFails, FindsNothing, ModelIsBlind, Failed, Failure
  <2>2. QED
    BY <2>1 DEF FindingsAreKept
<1>3. CASE UNCHANGED <<row, answer>>
  BY <1>3 DEF FindingsAreKept
<1>4. QED
  BY <1>1, <1>2, <1>3 DEF DocumentNext, ReadingSteps, Refuses, Parses, ObjectRefused,
     ReadingFails, FeedsPage, StreamEnds, JudgesText, JudgesPictures, Judging, Delivers,
     Replies, JobIsCancelled, HandsOver, Guards, Chunks, Stores, StoringFails,
     CancelledWhileEmbedding, Chunked, documentVars, readingVars

\* Every finding is in the row, under the field it answers or among the
\* unmapped, unless a later one has a key of the same normal form: for every
\* category, spelling and answer.  Keys without letters that were not asked for
\* have none to share.
THEOREM DocumentFindings == DocumentSpec => []FindingsAreKept
<1>1. DocumentInit => FindingsAreKept
  BY DEF DocumentInit, ReadingInit, NotAsked, FindingsAreKept
<1>2. QED
  BY <1>1, TypeInit, TypeStep, KeptStep, PTL DEF DocumentSpec

(***************************************************************************)
(* What a row says                                                         *)
(***************************************************************************)

\* The stream remembers every page it has passed, or as much as it may.
Remembers(t, p) ==
  \A i \in 1..Len(file.pages) :
    i < p => Range(file.pages[i].layer) \subseteq Range(t) \/ Chars(t) >= StreamCap

\* What is at hand when the document is judged: the stream has passed all
\* pages, and kept the bytes only if none had text; the other routes have the
\* whole text, and the bytes of what is no text.
ReadInv ==
  /\ RowTellsTheTruth
  /\ stage \in {"parse", "judge"} /\ route = "streamed" /\ asked /\ file.kind = "pdf" =>
       Remembers(text, page)
  /\ stage = "judge" =>
       IF route = "streamed"
       THEN file.kind = "pdf" /\ page > Len(file.pages) /\ (text = <<>> => raw)
       ELSE text = ParsedText(file) /\ (file.kind # "text" => raw)
  /\ stage = "ask" /\ ~cut => Legible \subseteq shown

LEMMA ReadInit == DocumentInit => ReadInv
<1> SUFFICES ASSUME DocumentInit PROVE ReadInv
  OBVIOUS
<1>1. row = NoRow /\ page = 1 /\ stage \in {"parse", "chunk"}
  BY DEF DocumentInit, ReadingInit, NotAsked
<1>2. \A i \in 1..Len(file.pages) : ~(i < 1)
  OBVIOUS
<1>3. QED
  BY <1>1, <1>2 DEF ReadInv, RowTellsTheTruth, Remembers

\* A text that has every page of the document, and fits, shows all of it.
LEMMA ShowsText ==
  ASSUME TypeInv, RowInv, ReadInv, JudgesText, ~cut'
  PROVE  Legible' \subseteq shown'
<1> DEFINE N == Len(file.pages)
<1>1. /\ text \in Seq(Words) /\ file \in Files /\ Chars(text) \in Nat
      /\ stage = "judge" /\ asked /\ how' = "text" /\ file' = file
  BY CharsType DEF TypeInv, DocumentTypeOK, ReadingTypeOK, RowInv, JudgesText, Judging,
     inputVars
<1>2. Chars(text) <= MaxChars /\ shown' = FactsIn(Clipped)
  <2>1. ~(Chars(text) > MaxChars) /\ shown' = FactsIn(Clipped)
    BY Zenon DEF JudgesText
  <2>2. QED
    BY <1>1, <2>1, ReadingConstantsOK
<1>3. Clipped = text /\ Chars(text) < StreamCap
  BY <1>1, <1>2, ClippedFacts, ReadingConstantsOK
<1>4. shown' = Range(text) \cap Facts
  BY <1>2, <1>3 DEF FactsIn
<1>5. N \in Nat /\ DOMAIN file.pages = 1..N
  BY <1>1, ParsedFacts
<1>6. ASSUME NEW i \in DOMAIN file.pages
      PROVE  Range(file.pages[i].layer) \subseteq Range(text)
  <2>1. CASE route = "streamed"
    <3>1. page > N /\ page \in Nat /\ Remembers(text, page)
      BY <1>1, <1>5, <2>1 DEF ReadInv, TypeInv, DocumentTypeOK, ReadingTypeOK
    <3>2. i \in 1..N /\ i < page
      BY <1>5, <3>1
    <3>3. ~(Chars(text) >= StreamCap)
      BY <1>1, <1>3, ReadingConstantsOK
    <3>4. QED
      BY <3>1, <3>2, <3>3 DEF Remembers
  <2>2. CASE route # "streamed"
    <3>1. text = ParsedText(file)
      BY <1>1, <2>2 DEF ReadInv
    <3>2. QED
      BY <1>1, <3>1, ParsedFacts
  <2>3. QED
    BY <2>1, <2>2
<1>7. \A i \in DOMAIN file.pages : FactsIn(file.pages[i].layer) \subseteq Range(text) \cap Facts
  BY <1>6 DEF FactsIn
<1>8. UNION {FactsIn(file.pages[i].layer) : i \in DOMAIN file.pages} \subseteq shown'
  BY <1>4, <1>7
<1>9. Legible' = UNION {FactsIn(file.pages[i].layer) : i \in DOMAIN file.pages}
  BY <1>1 DEF Legible
<1>10. QED
  BY <1>8, <1>9

\* So do the pictures of all pages that can be rendered.
LEMMA ShowsPictures ==
  ASSUME TypeInv, JudgesPictures, ~cut'
  PROVE  Legible' \subseteq shown'
<1> DEFINE N == Len(file.pages)
<1>1. file \in Files /\ file' = file /\ how' = "images"
  BY DEF TypeInv, DocumentTypeOK, ReadingTypeOK, JudgesPictures, Judging, inputVars
<1>2. N \in Nat /\ DOMAIN file.pages = 1..N /\ ~(N > MaxPages)
  <2>1. ~(N > MaxPages)
    BY Zenon DEF JudgesPictures
  <2>2. file.pages \in Seq(Pages)
    BY <1>1, ParsedFacts
  <2>3. QED
    BY <2>1, <2>2
<1>3. raw /\ file.kind = "pdf"
  BY DEF JudgesPictures, Rendered
<1>4. \A i \in DOMAIN file.pages : i <= MaxPages
  BY <1>2, ReadingConstantsOK
<1>5. {i \in DOMAIN file.pages : file.pages[i].renders} = Rendered
  BY <1>3, <1>4 DEF Rendered
<1>6. Legible' = UNION {file.pages[i].picture : i \in {j \in DOMAIN file.pages : file.pages[j].renders}}
  BY <1>1 DEF Legible, Pictures
<1>7. QED
  BY <1>5, <1>6 DEF JudgesPictures

\* A document without a page to show is called a scan.
LEMMA CallsScan ==
  ASSUME ReadInv, JudgesScanned
  PROVE  \/ file.kind # "pdf"
         \/ \A i \in DOMAIN file.pages : i <= MaxPages => ~file.pages[i].renders
         \/ route = "streamed" /\ text # <<>>
<1>1. Rendered = {} /\ stage = "judge"
  BY DEF JudgesScanned, Judging
<1>2. CASE raw /\ file.kind = "pdf"
  BY <1>1, <1>2 DEF Rendered
<1>3. CASE ~raw /\ file.kind = "pdf"
  BY <1>1, <1>3 DEF ReadInv
<1>4. QED
  BY <1>2, <1>3

LEMMA ReadStep ==
  TypeInv /\ RowInv /\ ReadInv /\ [DocumentNext]_documentVars => ReadInv'
<1> SUFFICES ASSUME TypeInv, RowInv, ReadInv, [DocumentNext]_documentVars
             PROVE  ReadInv'
  OBVIOUS
<1> USE DEF inputVars, modelVars
<1>1. file \in Files /\ text \in Seq(Words) /\ file.pages \in Seq(Pages)
      /\ Len(file.pages) \in Nat /\ page \in 1..Len(file.pages) + 1
  <2>1. file \in Files /\ text \in Seq(Words) /\ page \in 1..Len(file.pages) + 1
    BY DEF TypeInv, DocumentTypeOK, ReadingTypeOK
  <2>2. file.pages \in Seq(Pages)
    BY <2>1, ParsedFacts
  <2>3. QED
    BY <2>1, <2>2
<1>2. stage \in {"parse", "judge", "ask"} => row = NoRow
  BY DEF TypeInv
<1>3. CASE Refuses \/ ObjectRefused \/ ReadingFails
  <2>1. row' = NoRow /\ stage' \in {"refused", "failed"}
    BY <1>2, <1>3 DEF Refuses, ObjectRefused, ReadingFails
  <2>2. row' = NoRow'
    BY <2>1 DEF NoRow
  <2>3. QED
    BY <2>1, <2>2 DEF ReadInv, RowTellsTheTruth
<1>4. CASE Parses
  <2>1. /\ row' = NoRow' /\ stage' \in {"judge", "read"} /\ route' # "streamed"
        /\ text' = ParsedText(file) /\ file' = file /\ (file.kind # "text" => raw')
    BY <1>2, <1>4 DEF Parses, NoRow
  <2>2. QED
    BY <2>1 DEF ReadInv, RowTellsTheTruth
<1>5. CASE FeedsPage
  <2>1. row' = NoRow' /\ stage' = "parse" /\ UNCHANGED <<file, route, asked>>
    BY <1>2, <1>5 DEF FeedsPage, Streaming, NoRow
  <2>2. ASSUME route = "streamed", asked, file.kind = "pdf"
        PROVE  Remembers(text', page')
    <3> DEFINE layer == file.pages[page].layer
    <3>1. page \in 1..Len(file.pages) /\ page' = page + 1 /\ stage = "parse"
      BY <1>1, <1>5 DEF FeedsPage, Streaming
    <3>2. layer \in Seq(Words)
      <4>1. file.pages[page] \in Pages
        BY <1>1, <3>1
      <4>2. QED
        BY <4>1 DEF Pages
    <3>3. Remembers(text, page)
      BY <2>2, <3>1 DEF ReadInv
    <3>4. CASE Chars(text) < StreamCap
      <4>1. text' = text \o layer
        BY <1>5, <2>2, <3>4 DEF FeedsPage, Keeps
      <4>2. Range(text') = Range(text) \cup Range(layer)
        BY <1>1, <3>2, <4>1, RangeConcatenation
      <4>3. ~(Chars(text) >= StreamCap)
        BY <1>1, <3>4, CharsType, ReadingConstantsOK
      <4>4. ASSUME NEW i \in 1..Len(file.pages), i < page'
            PROVE  Range(file.pages[i].layer) \subseteq Range(text')
        <5>1. i < page \/ i = page
          BY <3>1, <4>4
        <5>2. QED
          BY <3>3, <4>2, <4>3, <5>1 DEF Remembers
      <4>5. QED
        BY <4>4 DEF Remembers
    <3>5. CASE ~(Chars(text) < StreamCap)
      <4>1. text' = text
        BY <1>5, <3>5 DEF FeedsPage, Keeps
      <4>2. Chars(text) >= StreamCap
        BY <1>1, <3>5, CharsType, ReadingConstantsOK
      <4>3. Remembers(text, page')
        BY <4>2 DEF Remembers
      <4>4. QED
        BY <4>1, <4>3
    <3>6. QED
      BY <3>4, <3>5
  <2>3. (Remembers(text, page))' <=> Remembers(text', page')
    BY <2>1 DEF Remembers
  <2>4. QED
    BY <2>1, <2>2, <2>3 DEF ReadInv, RowTellsTheTruth
<1>6. CASE StreamEnds
  <2>1. row' = NoRow' /\ UNCHANGED <<file, route, asked, text, page>>
    BY <1>2, <1>6 DEF StreamEnds, Streaming, NoRow
  <2>2. /\ stage = "parse" /\ route = "streamed" /\ page > Len(file.pages)
        /\ stage' \in {"judge", "done"}
        /\ stage' = "judge" => asked /\ file.kind = "pdf"
    BY <1>6 DEF StreamEnds, Streaming
  <2>3. stage' = "judge" => (text = <<>> => raw')
    BY <1>6, <2>2 DEF StreamEnds
  <2>4. asked /\ file.kind = "pdf" => Remembers(text, page)
    BY <2>2 DEF ReadInv
  <2>5. (Remembers(text, page))' <=> Remembers(text, page)
    BY <2>1 DEF Remembers
  <2>6. QED
    BY <2>1, <2>2, <2>3, <2>4, <2>5 DEF ReadInv, RowTellsTheTruth
<1>7. CASE JudgesText \/ JudgesPictures
  <2>1. row' = NoRow' /\ stage' = "ask"
    BY <1>2, <1>7 DEF JudgesText, JudgesPictures, Judging, NoRow
  <2>2. ~cut' => Legible' \subseteq shown'
    BY <1>7, ShowsText, ShowsPictures
  <2>3. QED
    BY <2>1, <2>2 DEF ReadInv, RowTellsTheTruth
<1>8. CASE JudgesScanned
  <2>1. row'.failure = "scanned" /\ stage' = "read" /\ UNCHANGED <<file, route, text>>
    BY <1>8 DEF JudgesScanned, Judging, Failure
  <2>2. \/ file.kind # "pdf"
        \/ \A i \in DOMAIN file.pages : i <= MaxPages => ~file.pages[i].renders
        \/ route = "streamed" /\ text # <<>>
    BY <1>8, CallsScan
  <2>3. QED
    BY <2>1, <2>2 DEF ReadInv, RowTellsTheTruth
<1>9. CASE ModelFails \/ FindsNothing \/ ModelIsBlind
  <2>1. row'.failure \notin {"none", "scanned"} /\ stage' = "read"
    BY <1>9 DEF ModelFails, FindsNothing, ModelIsBlind, Failed, Answers, Failure
  <2>2. QED
    BY <2>1 DEF ReadInv, RowTellsTheTruth
<1>10. CASE Finds
  <2>1. row'.failure = "none" /\ row'.note = cut /\ stage = "ask" /\ stage' = "read"
        /\ UNCHANGED <<file, how, shown>>
    BY <1>10 DEF Finds, Answers
  <2>2. Legible' = Legible
    BY <2>1 DEF Legible, Pictures
  <2>3. ~cut => Legible \subseteq shown
    BY <2>1 DEF ReadInv
  <2>4. QED
    BY <2>1, <2>2, <2>3 DEF ReadInv, RowTellsTheTruth
<1>11. CASE HandsOver
  <2>1. route = "buffered" /\ stage' = "chunk" /\ UNCHANGED <<file, route, how, shown, row>>
    BY <1>11 DEF HandsOver, Guards
  <2>2. Legible' = Legible
    BY <2>1 DEF Legible, Pictures
  <2>3. QED
    BY <2>1, <2>2 DEF ReadInv, RowTellsTheTruth, NoRow
<1>12. CASE \/ Delivers \/ Replies \/ JobIsCancelled \/ Stores \/ StoringFails
            \/ CancelledWhileEmbedding
  <2>1. stage' \in {"done", "failed", "cut"} /\ UNCHANGED <<file, route, text, how, shown, row>>
    BY <1>12 DEF Delivers, Replies, JobIsCancelled, Stores, StoringFails,
       CancelledWhileEmbedding, Chunked
  <2>2. Legible' = Legible
    BY <2>1 DEF Legible, Pictures
  <2>3. QED
    BY <2>1, <2>2 DEF ReadInv, RowTellsTheTruth, NoRow
<1>13. CASE Chunks \/ UNCHANGED documentVars
  <2>1. UNCHANGED readingVars
    BY <1>13 DEF Chunks, documentVars
  <2>2. UNCHANGED <<file, route, asked, stage, page, text, raw, how, shown, cut, row>>
    BY <2>1 DEF readingVars
  <2>3. Legible' = Legible /\ ((Remembers(text, page))' <=> Remembers(text, page))
    BY <2>2 DEF Legible, Pictures, Remembers
  <2>4. QED
    BY <2>2, <2>3 DEF ReadInv, RowTellsTheTruth, NoRow
<1>14. QED
  BY <1>3, <1>4, <1>5, <1>6, <1>7, <1>8, <1>9, <1>10, <1>11, <1>12, <1>13
  DEF DocumentNext, ReadingSteps

\* A row without a failure and a note comes from a model that was shown all of
\* the text layers, if the document was judged to be text, or else every page
\* that renders: for every document, vocabulary and limit.  What that way of
\* showing has no part of (a scan among pages of text) it says nothing of.  One
\* that calls the document a scan is of a document without a page to show, or of
\* a stream with text too short to judge, whose bytes were not kept.
THEOREM DocumentTruth == DocumentSpec => []RowTellsTheTruth
<1>1. ReadInv => RowTellsTheTruth
  BY DEF ReadInv
<1>2. QED
  BY <1>1, TypeInit, TypeStep, RowInit, RowStep, ReadInit, ReadStep, PTL
  DEF DocumentSpec

(***************************************************************************)
(* The loops of the chunker                                                *)
(***************************************************************************)

TurnAlike(m, p, N) ==
  m[0] = p[0] /\ \A n \in 1..N : m[n - 1] = p[n - 1] => m[n] = p[n]

\* Two loops that start and turn alike end alike.
LEMMA Alike ==
  ASSUME NEW N \in Nat, NEW m, NEW p, TurnAlike(m, p, N)
  PROVE  \A n \in 0..N : m[n] = p[n]
<1>0. m[0] = p[0] /\ \A n \in 1..N : m[n - 1] = p[n - 1] => m[n] = p[n]
  BY DEF TurnAlike
<1> DEFINE S == {n \in 0..N : m[n] = p[n]}
<1>1. 0 \in S
  BY <1>0
<1>2. ASSUME NEW n \in 1..N, n - 1 \in S PROVE n \in S
  <2>1. m[n] = p[n] /\ n \in 0..N
    BY <1>0, <1>2
  <2>2. QED
    BY <2>1
<1> HIDE DEF S
<1>3. 0..N \subseteq S
  BY <1>1, <1>2, Upwards
<1>4. QED
  BY <1>3 DEF S

\* u[n] is the length of the first n of the units us.
LengthsOf(u, d, between, us) ==
  /\ u \in [0..Len(us) -> Nat]
  /\ u[0] = 0
  /\ \A n \in 1..Len(us) :
       u[n] = u[n - 1] + d[us[n]] + (IF n = 1 THEN 0 ELSE between)
  /\ Joined(d, between, us) = u[Len(us)]

LEMMA JoinedLoop ==
  ASSUME NEW d \in Seq(Nat), NEW b \in Nat, NEW us \in Seq(1..Len(d))
  PROVE  \E u : LengthsOf(u, d, b, us)
<1> DEFINE N == Len(us)
           Turn(n, x) == x + d[us[n]] + (IF n = 1 THEN 0 ELSE b)
           F == [n \in 1..N |-> [x \in Nat |-> Turn(n, x)]]
           u == CHOOSE m : m = [n \in 0..N |-> IF n = 0 THEN 0
                                  ELSE m[n - 1] + d[us[n]] + (IF n = 1 THEN 0 ELSE b)]
<1>1. N \in Nat /\ N = Len(us) /\ \A n \in 1..N : d[us[n]] \in Nat
  <2>1. \A n \in 1..N : us[n] \in 1..Len(d)
    OBVIOUS
  <2>2. QED
    BY <2>1
<1>2. Joined(d, b, us) = u[N]
  BY DEF Joined
<1> HIDE DEF N
<1>3. ASSUME NEW n \in 1..N, NEW x \in Nat PROVE Turn(n, x) \in Nat
  <2> DEFINE z == d[us[n]]
  <2>1. z \in Nat
    BY <1>1
  <2>2. Turn(n, x) = x + z + 0 \/ Turn(n, x) = x + z + b
    OBVIOUS
  <2> HIDE DEF z, Turn
  <2>3. x + z + 0 \in Nat /\ x + z + b \in Nat
    BY <2>1
  <2>4. QED
    BY <2>2, <2>3
<1>4. F \in [1..N -> [Nat -> Nat]]
  BY <1>3
<1>5. \A n \in 1..N : \A x \in Nat : F[n][x] = Turn(n, x)
  OBVIOUS
<1> HIDE DEF F
<1>6. PICK m \in [0..N -> Nat] : Iterates(m, N, 0, F)
  BY <1>1, <1>4, Iterated
<1>7. \A n \in 1..N : m[n - 1] \in Nat
  <2>1. \A n \in 1..N : n - 1 \in 0..N
    BY <1>1
  <2>2. QED
    BY <2>1
<1>8. m[0] = 0 /\ \A n \in 1..N : m[n] = F[n][m[n - 1]]
  BY <1>6 DEF Iterates
<1>9. \A n \in 1..N : m[n] = m[n - 1] + d[us[n]] + (IF n = 1 THEN 0 ELSE b)
  BY <1>5, <1>7, <1>8
<1>10. \A n \in 0..N : n = 0 \/ n \in 1..N
  BY <1>1
<1>11. \A n \in 0..N : m[n] = IF n = 0 THEN 0
                              ELSE m[n - 1] + d[us[n]] + (IF n = 1 THEN 0 ELSE b)
  BY <1>8, <1>9, <1>10
<1>12. m = [n \in 0..N |-> IF n = 0 THEN 0
                           ELSE m[n - 1] + d[us[n]] + (IF n = 1 THEN 0 ELSE b)]
  BY <1>11
<1>13. u = [n \in 0..N |-> IF n = 0 THEN 0
                           ELSE u[n - 1] + d[us[n]] + (IF n = 1 THEN 0 ELSE b)]
  BY <1>12
<1> HIDE DEF u
<1>14. /\ u[0] = 0
       /\ \A n \in 1..N : u[n] = u[n - 1] + d[us[n]] + (IF n = 1 THEN 0 ELSE b)
  <2>1. 0 \in 0..N /\ \A n \in 1..N : n \in 0..N /\ n # 0
    BY <1>1
  <2>2. \A n \in 0..N : u[n] = IF n = 0 THEN 0
                           ELSE u[n - 1] + d[us[n]] + (IF n = 1 THEN 0 ELSE b)
    BY <1>13
  <2>3. QED
    BY <2>1, <2>2
<1>15. TurnAlike(m, u, N)
  <2>1. ASSUME NEW n \in 1..N, m[n - 1] = u[n - 1] PROVE m[n] = u[n]
    BY <1>9, <1>14, <2>1
  <2>2. QED
    BY <1>8, <1>14, <2>1 DEF TurnAlike
<1>16. \A n \in 0..N : m[n] = u[n]
  <2>1. N \in Nat
    BY <1>1
  <2>2. QED
    BY <2>1, <1>15, Alike
<1>17. u \in [0..N -> Nat]
  BY <1>13, <1>16
<1>18. LengthsOf(u, d, b, us)
  BY <1>1, <1>2, <1>14, <1>17 DEF LengthsOf
<1>19. QED
  BY <1>18

\* What a unit adds to the length of a chunk.
LEMMA JoinedFacts ==
  ASSUME NEW d \in Seq(Nat), NEW b \in Nat, NEW us \in Seq(1..Len(d))
  PROVE  /\ Joined(d, b, us) \in Nat
         /\ us = <<>> => Joined(d, b, us) = 0
         /\ \A x \in 1..Len(d) :
              Joined(d, b, Append(us, x)) =
                Joined(d, b, us) + d[x] + (IF us = <<>> THEN 0 ELSE b)
<1> DEFINE N == Len(us)
<1>1. PICK u : LengthsOf(u, d, b, us)
  BY JoinedLoop
<1>2. N \in Nat /\ N \in 0..N
  OBVIOUS
<1>3. Joined(d, b, us) = u[N] /\ u[N] \in Nat
  BY <1>1, <1>2 DEF LengthsOf
<1>4. us = <<>> => Joined(d, b, us) = 0
  BY <1>1, <1>3 DEF LengthsOf
<1>5. ASSUME NEW x \in 1..Len(d)
      PROVE  Joined(d, b, Append(us, x)) =
               Joined(d, b, us) + d[x] + (IF us = <<>> THEN 0 ELSE b)
  <2> DEFINE vs == Append(us, x)
  <2>1. vs \in Seq(1..Len(d)) /\ Len(vs) = N + 1 /\ vs[N + 1] = x
        /\ \A n \in 1..N : vs[n] = us[n]
    BY AppendProperties
  <2> HIDE DEF vs
  <2>2. PICK v : LengthsOf(v, d, b, vs)
    BY <2>1, JoinedLoop
  <2>3. /\ v[0] = 0
        /\ \A n \in 1..N + 1 : v[n] = v[n - 1] + d[vs[n]] + (IF n = 1 THEN 0 ELSE b)
        /\ Joined(d, b, vs) = v[N + 1]
    BY <2>1, <2>2 DEF LengthsOf
  <2>4. /\ u[0] = 0
        /\ \A n \in 1..N : u[n] = u[n - 1] + d[us[n]] + (IF n = 1 THEN 0 ELSE b)
    BY <1>1 DEF LengthsOf
  <2> HIDE DEF N
  <2>5. \A n \in 1..N : n \in 1..N + 1
    BY <1>2
  <2>6. TurnAlike(u, v, N)
    <3>1. ASSUME NEW n \in 1..N, u[n - 1] = v[n - 1] PROVE u[n] = v[n]
      <4>1. vs[n] = us[n]
        BY <2>1
      <4>2. v[n] = v[n - 1] + d[vs[n]] + (IF n = 1 THEN 0 ELSE b)
        BY <2>3, <2>5
      <4>3. QED
        BY <2>4, <3>1, <4>1, <4>2
    <3>2. QED
      BY <2>3, <2>4, <3>1 DEF TurnAlike
  <2>7. \A n \in 0..N : u[n] = v[n]
    BY <1>2, <2>6, Alike
  <2>8. v[N + 1] = v[N] + d[x] + (IF N + 1 = 1 THEN 0 ELSE b)
    <3>1. N + 1 \in 1..N + 1 /\ (N + 1) - 1 = N
      BY <1>2
    <3>2. QED
      BY <2>1, <2>3, <3>1
  <2>9. N + 1 = 1 <=> us = <<>>
    BY <1>2, EmptySeq DEF N
  <2>10. QED
    BY <1>2, <1>3, <2>3, <2>7, <2>8, <2>9 DEF vs
<1>6. QED
  BY <1>3, <1>4, <1>5
\* Which units of a section of lengths d are taken: after each of them.
TakesUnits(u, st, d) ==
  /\ u \in [0..Len(d) -> Seq(1..Len(d))]
  /\ u[0] = <<>>
  /\ \A n \in 1..Len(d) :
       u[n] = IF st = "sentence" \/ d[n] > 0 THEN Append(u[n - 1], n) ELSE u[n - 1]

LEMMA TakenFacts ==
  ASSUME NEW d \in Seq(Nat), NEW st
  PROVE  TakesUnits(Taken(st, d), st, d)
<1> DEFINE N == Len(d)
           D == Seq(1..N)
           Turn(n, x) == IF st = "sentence" \/ d[n] > 0 THEN Append(x, n) ELSE x
           F == [n \in 1..N |-> [x \in D |-> Turn(n, x)]]
           u == CHOOSE m : m = [n \in 0..N |-> IF n = 0 THEN <<>>
                                  ELSE IF st = "sentence" \/ d[n] > 0
                                       THEN Append(m[n - 1], n) ELSE m[n - 1]]
<1>1. N \in Nat /\ N = Len(d)
  OBVIOUS
<1>2. Taken(st, d) = u
  BY DEF Taken
<1> HIDE DEF N
<1>3. \A n \in 1..N : \A x \in D : Turn(n, x) \in D
  BY AppendProperties
<1>4. <<>> \in D
  OBVIOUS
<1> HIDE DEF D
<1>5. F \in [1..N -> [D -> D]]
  BY <1>3
<1>6. \A n \in 1..N : \A x \in D : F[n][x] = Turn(n, x)
  OBVIOUS
<1> HIDE DEF F
<1>7. PICK m \in [0..N -> D] : Iterates(m, N, <<>>, F)
  BY <1>1, <1>4, <1>5, Iterated
<1>8. \A n \in 1..N : n - 1 \in 0..N
  BY <1>1
<1>9. m[0] = <<>> /\ \A n \in 1..N : m[n] = F[n][m[n - 1]]
  BY <1>7 DEF Iterates
<1>10. \A n \in 1..N : m[n] = Turn(n, m[n - 1])
  BY <1>6, <1>8, <1>9
<1>11. 0 \in 0..N /\ \A n \in 0..N : n = 0 \/ n \in 1..N
  BY <1>1
<1>12. \A n \in 0..N : m[n] = IF n = 0 THEN <<>> ELSE Turn(n, m[n - 1])
  BY <1>9, <1>10, <1>11
<1>13. m = [n \in 0..N |-> IF n = 0 THEN <<>>
              ELSE IF st = "sentence" \/ d[n] > 0
                   THEN Append(m[n - 1], n) ELSE m[n - 1]]
  BY <1>12
<1>14. u = [n \in 0..N |-> IF n = 0 THEN <<>>
              ELSE IF st = "sentence" \/ d[n] > 0
                   THEN Append(u[n - 1], n) ELSE u[n - 1]]
  BY <1>13
<1> HIDE DEF u
<1>15. \A n \in 0..N : u[n] = IF n = 0 THEN <<>> ELSE Turn(n, u[n - 1])
  BY <1>14
<1>16. u[0] = <<>> /\ \A n \in 1..N : u[n] = Turn(n, u[n - 1])
  <2>1. \A n \in 1..N : n \in 0..N /\ n # 0
    BY <1>1
  <2>2. QED
    BY <1>11, <1>15, <2>1
<1>17. TurnAlike(m, u, N)
  BY <1>9, <1>10, <1>16 DEF TurnAlike
<1>18. \A n \in 0..N : m[n] = u[n]
  BY <1>1, <1>17, Alike
<1>19. u \in [0..N -> D]
  BY <1>14, <1>18
<1>20. QED
  BY <1>1, <1>2, <1>16, <1>19 DEF TakesUnits, D

Cuts ==
  [index : Nat, section : Nat, units : Seq(Nat), first : Nat, size : Nat]

\* The units of section s in the chunks cs: after each of them.
GathersUnits(u, cs, s) ==
  /\ u \in [0..Len(cs) -> Seq(Nat)]
  /\ u[0] = <<>>
  /\ \A n \in 1..Len(cs) :
       u[n] = IF cs[n].section = s THEN u[n - 1] \o cs[n].units ELSE u[n - 1]
  /\ Gathered(cs, s) = u[Len(cs)]

LEMMA GatheredLoop ==
  ASSUME NEW cs \in Seq(Cuts), NEW s
  PROVE  \E u : GathersUnits(u, cs, s)
<1> DEFINE N == Len(cs)
           D == Seq(Nat)
           Turn(n, x) == IF cs[n].section = s THEN x \o cs[n].units ELSE x
           F == [n \in 1..N |-> [x \in D |-> Turn(n, x)]]
           u == CHOOSE m : m = [n \in 0..N |-> IF n = 0 THEN <<>>
                                  ELSE IF cs[n].section = s
                                       THEN m[n - 1] \o cs[n].units ELSE m[n - 1]]
<1>1. N \in Nat /\ N = Len(cs) /\ \A n \in 1..N : cs[n].units \in D
  <2>1. ASSUME NEW n \in 1..N PROVE cs[n].units \in D
    <3>1. cs[n] \in Cuts
      OBVIOUS
    <3>2. QED
      BY <3>1 DEF Cuts
  <2>2. N \in Nat
    OBVIOUS
  <2>3. QED
    BY <2>1, <2>2
<1>2. Gathered(cs, s) = u[N]
  BY DEF Gathered
<1> HIDE DEF N
<1>3. \A n \in 1..N : \A x \in D : Turn(n, x) \in D
  BY <1>1, ConcatProperties
<1>4. <<>> \in D
  OBVIOUS
<1> HIDE DEF D
<1>5. F \in [1..N -> [D -> D]]
  BY <1>3
<1>6. \A n \in 1..N : \A x \in D : F[n][x] = Turn(n, x)
  OBVIOUS
<1> HIDE DEF F
<1>7. PICK m \in [0..N -> D] : Iterates(m, N, <<>>, F)
  BY <1>1, <1>4, <1>5, Iterated
<1>8. \A n \in 1..N : n - 1 \in 0..N
  BY <1>1
<1>9. m[0] = <<>> /\ \A n \in 1..N : m[n] = F[n][m[n - 1]]
  BY <1>7 DEF Iterates
<1>10. \A n \in 1..N : m[n] = Turn(n, m[n - 1])
  BY <1>6, <1>8, <1>9
<1>11. 0 \in 0..N /\ \A n \in 0..N : n = 0 \/ n \in 1..N
  BY <1>1
<1>12. \A n \in 0..N : m[n] = IF n = 0 THEN <<>> ELSE Turn(n, m[n - 1])
  BY <1>9, <1>10, <1>11
<1>13. m = [n \in 0..N |-> IF n = 0 THEN <<>>
              ELSE IF cs[n].section = s THEN m[n - 1] \o cs[n].units ELSE m[n - 1]]
  BY <1>12
<1>14. u = [n \in 0..N |-> IF n = 0 THEN <<>>
              ELSE IF cs[n].section = s THEN u[n - 1] \o cs[n].units ELSE u[n - 1]]
  BY <1>13
<1> HIDE DEF u
<1>15. \A n \in 0..N : u[n] = IF n = 0 THEN <<>> ELSE Turn(n, u[n - 1])
  BY <1>14
<1>16. u[0] = <<>> /\ \A n \in 1..N : u[n] = Turn(n, u[n - 1])
  <2>1. \A n \in 1..N : n \in 0..N /\ n # 0
    BY <1>1
  <2>2. QED
    BY <1>11, <1>15, <2>1
<1>17. TurnAlike(m, u, N)
  BY <1>9, <1>10, <1>16 DEF TurnAlike
<1>18. \A n \in 0..N : m[n] = u[n]
  BY <1>1, <1>17, Alike
<1>19. u \in [0..N -> D]
  BY <1>14, <1>18
<1>20. GathersUnits(u, cs, s)
  BY <1>1, <1>2, <1>16, <1>19 DEF GathersUnits, D
<1>21. QED
  BY <1>20

\* What one more chunk adds.
LEMMA GatheredFacts ==
  ASSUME NEW cs \in Seq(Cuts), NEW s
  PROVE  /\ Gathered(cs, s) \in Seq(Nat)
         /\ cs = <<>> => Gathered(cs, s) = <<>>
         /\ \A c \in Cuts :
              Gathered(Append(cs, c), s) =
                IF c.section = s THEN Gathered(cs, s) \o c.units ELSE Gathered(cs, s)
<1> DEFINE N == Len(cs)
<1>1. PICK u : GathersUnits(u, cs, s)
  BY GatheredLoop
<1>2. N \in Nat /\ N \in 0..N
  OBVIOUS
<1>3. Gathered(cs, s) = u[N] /\ u[N] \in Seq(Nat)
  BY <1>1, <1>2 DEF GathersUnits
<1>4. cs = <<>> => Gathered(cs, s) = <<>>
  BY <1>1, <1>3 DEF GathersUnits
<1>5. ASSUME NEW c \in Cuts
      PROVE  Gathered(Append(cs, c), s) =
               IF c.section = s THEN Gathered(cs, s) \o c.units ELSE Gathered(cs, s)
  <2> DEFINE vs == Append(cs, c)
  <2>1. vs \in Seq(Cuts) /\ Len(vs) = N + 1 /\ vs[N + 1] = c
        /\ \A n \in 1..N : vs[n] = cs[n]
    BY AppendProperties
  <2> HIDE DEF vs
  <2>2. PICK v : GathersUnits(v, vs, s)
    BY <2>1, GatheredLoop
  <2>3. /\ v[0] = <<>>
        /\ \A n \in 1..N + 1 :
             v[n] = IF vs[n].section = s THEN v[n - 1] \o vs[n].units ELSE v[n - 1]
        /\ Gathered(vs, s) = v[N + 1]
    BY <2>1, <2>2 DEF GathersUnits
  <2>4. /\ u[0] = <<>>
        /\ \A n \in 1..N :
             u[n] = IF cs[n].section = s THEN u[n - 1] \o cs[n].units ELSE u[n - 1]
    BY <1>1 DEF GathersUnits
  <2> HIDE DEF N
  <2>5. \A n \in 1..N : n \in 1..N + 1
    BY <1>2
  <2>6. TurnAlike(u, v, N)
    <3>1. ASSUME NEW n \in 1..N, u[n - 1] = v[n - 1] PROVE u[n] = v[n]
      <4>1. vs[n] = cs[n]
        BY <2>1
      <4>2. v[n] = IF vs[n].section = s THEN v[n - 1] \o vs[n].units ELSE v[n - 1]
        BY <2>3, <2>5
      <4>3. QED
        BY <2>4, <3>1, <4>1, <4>2
    <3>2. QED
      BY <2>3, <2>4, <3>1 DEF TurnAlike
  <2>7. \A n \in 0..N : u[n] = v[n]
    BY <1>2, <2>6, Alike
  <2>8. v[N + 1] = IF c.section = s THEN v[N] \o c.units ELSE v[N]
    <3>1. N + 1 \in 1..N + 1 /\ (N + 1) - 1 = N
      BY <1>2
    <3>2. QED
      BY <2>1, <2>3, <3>1
  <2>9. QED
    BY <1>2, <1>3, <2>3, <2>7, <2>8 DEF vs
<1>6. QED
  BY <1>3, <1>4, <1>5
\* Where the loops of the chunker are.
LoopInv ==
  /\ strategy \in Strategies
  /\ doc \in Seq(Seq(Nat))
  /\ phase \in {"sections", "packing", "sliding", "done"}
  /\ sec \in 1..Len(doc) + 1
  /\ phase = "packing" =>
       /\ strategy # "fixed"
       /\ sec \in 1..Len(doc)
       /\ unit \in 1..Len(doc[sec]) + 1
       /\ current \in Seq(1..Len(doc[sec]))
       /\ length = IF current = <<>> THEN 0
                   ELSE JoinedLength(sec, current) + Counted(strategy)
  /\ phase # "packing" => unit = 1 /\ current = <<>> /\ length = 0
  /\ phase = "sections" => strategy = "recursive"
  /\ phase = "sliding" => strategy = "fixed"
  /\ phase = "done" /\ strategy # "fixed" => sec = Len(doc) + 1
  /\ strategy \in Packing => Len(doc) = 1
  /\ strategy = "fixed" => Len(doc) = 1 /\ Len(doc[1]) = 1 /\ sec = 1
  /\ start \in Nat /\ idx \in Nat
  /\ chunks \in Seq(Cuts)

LEMMA SeparatorFacts == Counted(strategy) \in Nat /\ Separator(strategy) = Counted(strategy)
BY DEF Counted, Separator

LEMMA LoopInit == Init => LoopInv
<1> SUFFICES ASSUME Init PROVE LoopInv
  OBVIOUS
<1>1. strategy \in Strategies /\ doc \in Documents[strategy]
  BY DEF Init
<1>2. doc \in Seq(Seq(Nat))
  BY <1>1, ConstantsOK
<1>3. strategy # "recursive" => Len(doc) = 1 /\ (strategy = "fixed" => Len(doc[1]) = 1)
  BY <1>1, DocumentsOK
<1>4. Len(doc) \in Nat /\ 1 \in 1..Len(doc) + 1
  BY <1>2
<1>5. strategy \in Packing => doc[1] \in Seq(Nat)
  BY <1>2, <1>3 DEF Packing, Strategies
<1>6. strategy \in Packing => Len(doc[1]) \in Nat /\ 1 \in 1..Len(doc[1]) + 1
  BY <1>5
<1>7. phase = IF strategy \in Packing THEN "packing"
              ELSE IF strategy = "recursive" THEN "sections" ELSE "sliding"
  BY <1>1 DEF Init, Packing, Strategies
<1>8. /\ sec = 1 /\ unit = 1 /\ current = <<>> /\ length = 0 /\ start = 0
      /\ chunks = <<>> /\ idx = 0
  BY DEF Init
<1>9. <<>> \in Seq(1..Len(doc[1])) /\ <<>> \in Seq(Cuts)
  OBVIOUS
<1>10. CASE strategy \in Packing
  BY <1>1, <1>2, <1>3, <1>4, <1>6, <1>7, <1>8, <1>9, <1>10 DEF LoopInv, Packing, Strategies
<1>11. CASE strategy \notin Packing
  BY <1>1, <1>2, <1>3, <1>4, <1>7, <1>8, <1>9, <1>11 DEF LoopInv, Packing, Strategies
<1>12. QED
  BY <1>10, <1>11

\* The section at hand.
LEMMA AtHand ==
  ASSUME LoopInv, phase = "packing"
  PROVE  /\ sec \in 1..Len(doc)
         /\ doc[sec] \in Seq(Nat)
         /\ Len(doc[sec]) \in Nat
         /\ current \in Seq(1..Len(doc[sec]))
         /\ unit \in 1..Len(doc[sec]) + 1
         /\ JoinedLength(sec, current) \in Nat
         /\ current = <<>> => JoinedLength(sec, current) = 0
         /\ \A x \in 1..Len(doc[sec]) :
              /\ doc[sec][x] \in Nat
              /\ JoinedLength(sec, <<x>>) = doc[sec][x]
              /\ JoinedLength(sec, Append(current, x)) =
                   JoinedLength(sec, current) + doc[sec][x]
                     + (IF current = <<>> THEN 0 ELSE Counted(strategy))
<1> DEFINE d == doc[sec]
           b == Separator(strategy)
<1>1. d \in Seq(Nat) /\ current \in Seq(1..Len(d))
  BY DEF LoopInv
<1>2. b \in Nat /\ b = Counted(strategy)
  BY SeparatorFacts
<1>3. \A s, us : JoinedLength(s, us) = Joined(doc[s], b, us)
  BY DEF JoinedLength
<1> HIDE DEF b
<1>4. /\ Joined(d, b, current) \in Nat
      /\ current = <<>> => Joined(d, b, current) = 0
      /\ \A x \in 1..Len(d) :
              Joined(d, b, Append(current, x)) =
                Joined(d, b, current) + d[x] + (IF current = <<>> THEN 0 ELSE b)
  BY <1>1, <1>2, JoinedFacts
<1>5. ASSUME NEW x \in 1..Len(d)
      PROVE  d[x] \in Nat /\ Joined(d, b, <<x>>) = d[x]
  <2> DEFINE e == <<>>
  <2>1. e \in Seq(1..Len(d)) /\ Append(e, x) = <<x>> /\ e = <<>>
    OBVIOUS
  <2> HIDE DEF e
  <2>2. Joined(d, b, e) = 0
    BY <1>1, <1>2, <2>1, JoinedFacts
  <2>3. Joined(d, b, Append(e, x)) = Joined(d, b, e) + d[x] + (IF e = <<>> THEN 0 ELSE b)
    BY <1>1, <1>2, <2>1, JoinedFacts
  <2>4. d[x] \in Nat
    BY <1>1
  <2>5. QED
    BY <2>1, <2>2, <2>3, <2>4
<1>6. Len(d) \in Nat /\ sec \in 1..Len(doc) /\ unit \in 1..Len(d) + 1
  BY <1>1 DEF LoopInv
<1>7. QED
  BY <1>1, <1>2, <1>3, <1>4, <1>5, <1>6
\* The units of a section that are to be in chunks.
LEMMA WantedFacts ==
  ASSUME LoopInv, NEW s \in 1..Len(doc)
  PROVE  /\ doc[s] \in Seq(Nat)
         /\ Wanted(s) \in Seq(1..Len(doc[s]))
         /\ Wanted(s) \in Seq(Nat)
         /\ JoinedLength(s, Wanted(s)) \in Nat
         /\ JoinedLength(s, <<>>) = 0
<1> DEFINE d == doc[s]
           b == Separator(strategy)
<1>1. d \in Seq(Nat) /\ Len(d) \in Nat
  <2>1. doc \in Seq(Seq(Nat))
    BY DEF LoopInv
  <2>2. d \in Seq(Nat)
    BY <2>1
  <2>3. QED
    BY <2>2
<1>2. b \in Nat
  BY SeparatorFacts
<1>3. TakesUnits(Taken(strategy, d), strategy, d)
  BY <1>1, TakenFacts
<1>4. Wanted(s) \in Seq(1..Len(d))
  BY <1>1, <1>3 DEF TakesUnits, Wanted
<1>5. Wanted(s) \in Seq(Nat)
  BY <1>1, <1>4, SeqMonotonic
<1>6. JoinedLength(s, Wanted(s)) \in Nat
  BY <1>1, <1>2, <1>4, JoinedFacts DEF JoinedLength
<1> DEFINE e == <<>>
<1>7. e \in Seq(1..Len(d)) /\ e = <<>>
  OBVIOUS
<1> HIDE DEF e
<1>8. Joined(d, b, e) = 0
  BY <1>1, <1>2, <1>7, JoinedFacts
<1>9. QED
  BY <1>1, <1>4, <1>5, <1>6, <1>7, <1>8 DEF JoinedLength

\* A chunk of the units gathered.
LEMMA ChunkFacts ==
  ASSUME LoopInv, NEW s \in 1..Len(doc), NEW us \in Seq(1..Len(doc[s])),
         JoinedLength(s, us) \in Nat
  PROVE  /\ Chunk(s, us) \in Cuts
         /\ Chunk(s, us).section = s
         /\ Chunk(s, us).units = us
         /\ Chunk(s, us).size = JoinedLength(s, us)
<1>1. doc[s] \in Seq(Nat)
  BY DEF LoopInv
<1>2. Len(doc[s]) \in Nat /\ 1..Len(doc[s]) \subseteq Nat
  BY <1>1
<1>3. us \in Seq(Nat)
  BY <1>2, SeqMonotonic
<1>4. Len(doc) \in Nat /\ idx \in Nat
  BY DEF LoopInv
<1>5. QED
  BY <1>3, <1>4 DEF Chunk, Cuts

LEMMA AppendedFacts ==
  ASSUME NEW cs \in Seq(Cuts), NEW c \in Cuts
  PROVE  LET N  == Len(cs)
             vs == Append(cs, c)
         IN  /\ N \in Nat
             /\ vs \in Seq(Cuts)
             /\ Len(vs) = N + 1
             /\ DOMAIN vs = 1..N + 1
             /\ \A i \in 1..N : vs[i] = cs[i]
             /\ vs[N + 1] = c
             /\ Last(vs) = c
             /\ vs # <<>>
             /\ cs # <<>> => N \in 1..N /\ Last(cs) = cs[N]
<1>1. Append(cs, c) \in Seq(Cuts) /\ Len(Append(cs, c)) = Len(cs) + 1
      /\ Append(cs, c) # <<>>
      /\ \A i \in 1..Len(cs) : Append(cs, c)[i] = cs[i]
      /\ Append(cs, c)[Len(cs) + 1] = c
  BY AppendProperties
<1>2. Len(cs) \in Nat /\ (cs # <<>> => Len(cs) \in Nat \ {0})
  BY EmptySeq
<1>3. DOMAIN Append(cs, c) = 1..Len(cs) + 1
  BY <1>1, LenProperties
<1>4. QED
  BY <1>1, <1>2, <1>3 DEF Last

LEMMA LoopStep == LoopInv /\ [Next]_vars => LoopInv'
<1> SUFFICES ASSUME LoopInv, [Next]_vars PROVE LoopInv'
  OBVIOUS
<1>1. \A s, us : UNCHANGED <<strategy, doc>>
                   => (JoinedLength(s, us))' = Joined(doc[s'], Separator(strategy), us')
  BY DEF JoinedLength, Separator
<1>2. /\ Len(doc) \in Nat /\ sec \in Nat
      /\ \A c \in Cuts : \/ chunks' = Append(chunks, c) /\ idx' = idx + 1
                         \/ UNCHANGED <<chunks, idx>>
                         => chunks' \in Seq(Cuts) /\ idx' \in Nat
  <2>1. Len(doc) \in Nat /\ sec \in Nat /\ chunks \in Seq(Cuts) /\ idx \in Nat
    BY DEF LoopInv
  <2>2. \A c \in Cuts : Append(chunks, c) \in Seq(Cuts)
    BY <2>1, AppendProperties
  <2>3. QED
    BY <2>1, <2>2
<1>3. CASE Skip
  <2>1. /\ phase = "packing" /\ phase' = phase /\ unit <= Len(doc[sec])
        /\ unit' = unit + 1
        /\ UNCHANGED <<strategy, doc, sec, start, current, length, chunks, idx>>
    BY <1>3 DEF Skip, AtUnit
  <2>2. unit' \in 1..Len(doc[sec]) + 1
    <3>1. unit \in 1..Len(doc[sec]) + 1 /\ Len(doc[sec]) \in Nat
      BY <2>1, AtHand
    <3>2. unit <= Len(doc[sec]) /\ unit' = unit + 1
      BY <2>1
    <3>3. QED
      BY <3>1, <3>2
  <2>3. (JoinedLength(sec, current))' = JoinedLength(sec, current)
    BY <2>1 DEF JoinedLength, Separator
  <2>4. QED
    BY <2>1, <2>2, <2>3 DEF LoopInv, Counted
<1>4. CASE Gather
  <2>1. /\ phase = "packing" /\ phase' = phase /\ unit <= Len(doc[sec])
        /\ unit' = unit + 1
        /\ current' = Append(current, unit)
        /\ length' = length + doc[sec][unit] + Counted(strategy)
        /\ UNCHANGED <<strategy, doc, sec, start, chunks, idx>>
    BY <1>4 DEF Gather, AtUnit
  <2>2. unit \in 1..Len(doc[sec]) /\ unit' \in 1..Len(doc[sec]) + 1
    <3>1. unit \in 1..Len(doc[sec]) + 1 /\ Len(doc[sec]) \in Nat
      BY <2>1, AtHand
    <3>2. unit <= Len(doc[sec]) /\ unit' = unit + 1
      BY <2>1
    <3>3. QED
      BY <3>1, <3>2
  <2>3. current' \in Seq(1..Len(doc[sec])) /\ current' # <<>>
    <3>1. current \in Seq(1..Len(doc[sec])) /\ current' = Append(current, unit)
      BY <2>1, AtHand
    <3>2. QED
      BY <2>2, <3>1, AppendProperties
  <2>4. (JoinedLength(sec, current))' = JoinedLength(sec, Append(current, unit))
    BY <2>1 DEF JoinedLength, Separator
  <2>5. length = IF current = <<>> THEN 0
                   ELSE JoinedLength(sec, current) + Counted(strategy)
    BY <2>1 DEF LoopInv
  <2> DEFINE J == JoinedLength(sec, current)
             L == JoinedLength(sec, Append(current, unit))
             K == Counted(strategy)
             x == doc[sec][unit]
  <2>8. J \in Nat /\ x \in Nat /\ K \in Nat /\ (current = <<>> => J = 0)
        /\ L = J + x + (IF current = <<>> THEN 0 ELSE K)
    BY <2>1, <2>2, AtHand, SeparatorFacts
  <2>9. length = (IF current = <<>> THEN 0 ELSE J + K) /\ length' = length + x + K
    BY <2>1, <2>5
  <2> HIDE DEF J, L, K, x
  <2>10. length' = L + K
    BY <2>8, <2>9
  <2>6. length' = (JoinedLength(sec, current))' + Counted(strategy)
    BY <2>4, <2>10 DEF L, K
  <2>7. QED
    BY <2>1, <2>2, <2>3, <2>6 DEF LoopInv, Counted
<1>5. CASE Close
  <2>1. /\ phase = "packing" /\ phase' = phase /\ unit <= Len(doc[sec])
        /\ unit' = unit + 1
        /\ current' = <<unit>>
        /\ length' = doc[sec][unit] + Counted(strategy)
        /\ chunks' = Append(chunks, Chunk(sec, current))
        /\ idx' = idx + 1
        /\ UNCHANGED <<strategy, doc, sec, start>>
    BY <1>5 DEF Close, AtUnit
  <2>2. unit \in 1..Len(doc[sec]) /\ unit' \in 1..Len(doc[sec]) + 1
    <3>1. unit \in 1..Len(doc[sec]) + 1 /\ Len(doc[sec]) \in Nat
      BY <2>1, AtHand
    <3>2. unit <= Len(doc[sec]) /\ unit' = unit + 1
      BY <2>1
    <3>3. QED
      BY <3>1, <3>2
  <2>3. current' \in Seq(1..Len(doc[sec])) /\ current' # <<>>
    BY <2>1, <2>2
  <2>4. (JoinedLength(sec, current))' = JoinedLength(sec, <<unit>>)
    BY <2>1 DEF JoinedLength, Separator
  <2>5. length' = (JoinedLength(sec, current))' + Counted(strategy)
    BY <2>1, <2>2, <2>4, AtHand
  <2>6. Chunk(sec, current) \in Cuts
    BY <2>1, AtHand, ChunkFacts
  <2>7. chunks' \in Seq(Cuts) /\ idx' \in Nat
    BY <1>2, <2>1, <2>6
  <2>8. QED
    BY <2>1, <2>2, <2>3, <2>5, <2>7 DEF LoopInv, Counted
<1>6. CASE PackingEnds
  <2>1. /\ phase = "packing" /\ current' = <<>> /\ length' = 0 /\ unit' = 1
        /\ sec' = sec + 1
        /\ phase' = IF strategy = "recursive" THEN "sections" ELSE "done"
        /\ UNCHANGED <<strategy, doc, start>>
        /\ \/ chunks' = Append(chunks, Chunk(sec, current)) /\ idx' = idx + 1
           \/ UNCHANGED <<chunks, idx>>
    BY <1>6 DEF PackingEnds, KeepTail
  <2>2. sec \in 1..Len(doc) /\ strategy # "fixed" /\ strategy \in Strategies
    BY <2>1 DEF LoopInv
  <2>3. Chunk(sec, current) \in Cuts
    BY <2>1, AtHand, ChunkFacts
  <2>4. chunks' \in Seq(Cuts) /\ idx' \in Nat
    BY <1>2, <2>1, <2>3
  <2>5. sec' \in 1..Len(doc) + 1
    BY <1>2, <2>1, <2>2
  <2>6. phase' = "done" => sec' = Len(doc) + 1
    <3>1. phase' = "done" => strategy \in Packing
      BY <2>1, <2>2 DEF Packing, Strategies
    <3>2. strategy \in Packing => Len(doc) = 1
      BY DEF LoopInv
    <3>3. sec' = sec + 1
      BY <2>1
    <3>4. Len(doc) = 1 => sec = 1
      BY <2>2
    <3>5. QED
      BY <3>1, <3>2, <3>3, <3>4
  <2>7. QED
    BY <2>1, <2>2, <2>4, <2>5, <2>6 DEF LoopInv
<1>7. CASE WholeSection
  <2>1. /\ phase = "sections" /\ phase' = phase /\ sec <= Len(doc) /\ sec' = sec + 1
        /\ UNCHANGED <<strategy, doc, unit, current, length, start>>
        /\ \/ chunks' = Append(chunks, Chunk(sec, Wanted(sec))) /\ idx' = idx + 1
           \/ UNCHANGED <<chunks, idx>>
    BY <1>7 DEF WholeSection, AtSection
  <2>2. sec \in 1..Len(doc) /\ strategy = "recursive"
    BY <1>2, <2>1 DEF LoopInv
  <2>3. Chunk(sec, Wanted(sec)) \in Cuts
    BY <2>1, <2>2, WantedFacts, ChunkFacts
  <2>4. chunks' \in Seq(Cuts) /\ idx' \in Nat
    BY <1>2, <2>1, <2>3
  <2>5. sec' \in 1..Len(doc) + 1
    BY <1>2, <2>1, <2>2
  <2>6. QED
    BY <2>1, <2>2, <2>4, <2>5 DEF LoopInv, Packing
<1>8. CASE LargeSection
  <2>1. /\ phase = "sections" /\ phase' = "packing" /\ sec <= Len(doc)
        /\ UNCHANGED <<strategy, doc, sec, unit, current, length, start, chunks, idx>>
    BY <1>8 DEF LargeSection, AtSection
  <2>2. sec \in 1..Len(doc) /\ strategy = "recursive" /\ unit = 1 /\ current = <<>>
        /\ length = 0
    BY <1>2, <2>1 DEF LoopInv
  <2>3. doc[sec] \in Seq(Nat)
    BY <2>2 DEF LoopInv
  <2>4. Len(doc[sec]) \in Nat /\ unit \in 1..Len(doc[sec]) + 1
        /\ current \in Seq(1..Len(doc[sec]))
    BY <2>2, <2>3
  <2>5. QED
    BY <2>1, <2>2, <2>4 DEF LoopInv, Packing
<1>9. CASE SectionsEnd
  <2>1. sec = Len(doc) + 1
    BY <1>2, <1>9 DEF SectionsEnd, LoopInv
  <2>2. QED
    BY <1>9, <2>1 DEF SectionsEnd, LoopInv, Packing
<1>10. CASE Window
  <2> DEFINE content == (IF End <= TextLength THEN End ELSE TextLength) - start
             c == [index |-> idx, section |-> 1, units |-> <<1>>, first |-> start,
                   size |-> content]
  <2>1. /\ phase = "sliding" /\ start < TextLength /\ start' = NextStart
        /\ UNCHANGED <<strategy, doc, phase, sec, unit, current, length>>
        /\ \/ content >= MinChunkSize /\ chunks' = Append(chunks, c) /\ idx' = idx + 1
           \/ UNCHANGED <<chunks, idx>>
    BY <1>10 DEF Window
  <2>2. strategy = "fixed" /\ Len(doc) = 1 /\ Len(doc[1]) = 1 /\ start \in Nat /\ idx \in Nat
    BY <2>1 DEF LoopInv
  <2>3. doc[1] \in Seq(Nat)
    BY <2>2 DEF LoopInv
  <2>4. TextLength \in Nat
    BY <2>2, <2>3 DEF TextLength
  <2>5. start' \in Nat
    BY <2>1, <2>2, ConstantsOK DEF NextStart, End
  <2>6. content \in Nat
    BY <2>1, <2>2, <2>4, ConstantsOK DEF End
  <2>7. <<1>> \in Seq(Nat)
    OBVIOUS
  <2> HIDE DEF content
  <2>8. c \in Cuts
    BY <2>2, <2>6, <2>7 DEF Cuts
  <2> HIDE DEF c
  <2>9. chunks' \in Seq(Cuts) /\ idx' \in Nat
    BY <1>2, <2>1, <2>8
  <2>10. QED
    BY <2>1, <2>2, <2>5, <2>9 DEF LoopInv, Packing
<1>11. CASE SlidingEnds
  BY <1>11 DEF SlidingEnds, LoopInv, Packing
<1>12. CASE UNCHANGED vars
  <2>1. UNCHANGED <<strategy, doc, phase, sec, unit, current, length, start, chunks, idx>>
    BY <1>12 DEF vars
  <2>2. (JoinedLength(sec, current))' = JoinedLength(sec, current)
    BY <2>1 DEF JoinedLength, Separator
  <2>3. QED
    BY <2>1, <2>2 DEF LoopInv, Counted
<1>13. QED
  BY <1>3, <1>4, <1>5, <1>6, <1>7, <1>8, <1>9, <1>10, <1>11, <1>12 DEF Next
\* The chunks come in the order of their sections, none from one that is ahead.
SortedInv ==
  /\ \A k \in DOMAIN chunks :
       chunks[k].section <= sec /\ (phase = "sections" => chunks[k].section < sec)
  /\ \A j, k \in DOMAIN chunks : j <= k => chunks[j].section <= chunks[k].section

\* What is gathered fits, and its first unit did not fit into the chunk before.
TightInv ==
  /\ phase = "packing" /\ Len(current) > 1 => JoinedLength(sec, current) <= ChunkSize
  /\ phase = "packing" /\ chunks # <<>> /\ Last(chunks).section = sec =>
       /\ current # <<>>
       /\ JoinedLength(sec, Append(Last(chunks).units, Head(current))) > ChunkSize
  /\ PackingIsTight

AddsChunk(c) ==
  /\ c \in Cuts
  /\ chunks' = Append(chunks, c)
  /\ c.section = sec
  /\ c.size > ChunkSize => Len(c.units) = 1
  /\ strategy # "fixed" /\ chunks # <<>> /\ Last(chunks).section = sec =>
       JoinedLength(sec, Append(Last(chunks).units, Head(c.units))) > ChunkSize

LEMMA PackInit == chunks = <<>> /\ current = <<>> => SortedInv /\ TightInv
<1>1. Range(<<>>) = {} /\ DOMAIN <<>> = {}
  BY DEF Range
<1>2. Len(<<>>) = 0
  OBVIOUS
<1>3. QED
  BY <1>1, <1>2 DEF SortedInv, TightInv, PackingIsTight

\* How the loops move on.
LEMMA Moves ==
  ASSUME LoopInv, SortedInv, TightInv, [Next]_vars
  PROVE  /\ UNCHANGED <<strategy, doc>>
         /\ sec \in Nat /\ sec' \in {sec, sec + 1}
         /\ phase' = "sections" => phase = "sections" \/ sec' = sec + 1
         /\ \/ UNCHANGED chunks
            \/ /\ \E c : AddsChunk(c)
               /\ phase' = "sections" => sec' = sec + 1
<1>1. UNCHANGED <<strategy, doc>> /\ sec' \in {sec, sec + 1}
  BY DEF Next, vars, Skip, Gather, Close, PackingEnds, AtUnit, WholeSection, LargeSection,
         AtSection, SectionsEnd, Window, SlidingEnds
<1>2. sec \in Nat
  BY DEF LoopInv
<1>3. phase' = "sections" => phase = "sections" \/ sec' = sec + 1
  BY DEF Next, vars, Skip, Gather, Close, PackingEnds, AtUnit, WholeSection, LargeSection,
         AtSection, SectionsEnd, Window, SlidingEnds
<1>4. CASE Skip \/ Gather \/ LargeSection \/ SectionsEnd \/ SlidingEnds \/ UNCHANGED vars
  <2>1. UNCHANGED chunks
    BY <1>4 DEF vars, Skip, Gather, LargeSection, AtSection, SectionsEnd, SlidingEnds
  <2>2. QED
    BY <1>1, <1>2, <1>3, <2>1
<1>5. CASE \/ Close
           \/ PackingEnds /\ current # <<>> /\ chunks' = Append(chunks, Chunk(sec, current))
  <2> DEFINE c == Chunk(sec, current)
  <2>1. phase = "packing" /\ current # <<>> /\ chunks' = Append(chunks, c)
        /\ (phase' = "sections" => sec' = sec + 1)
    BY <1>5 DEF Close, PackingEnds, AtUnit
  <2>2. c \in Cuts /\ c.section = sec /\ c.units = current
        /\ c.size = JoinedLength(sec, current)
    BY <2>1, AtHand, ChunkFacts
  <2>3. Len(current) \in Nat \ {0} /\ JoinedLength(sec, current) \in Nat /\ ChunkSize \in Nat
    BY <2>1, AtHand, EmptySeq, ConstantsOK
  <2>4. c.size > ChunkSize => Len(c.units) = 1
    <3>1. Len(current) > 1 => JoinedLength(sec, current) <= ChunkSize
      BY <2>1 DEF TightInv
    <3>2. ~(Len(current) > 1) => Len(current) = 1
      <4> DEFINE n == Len(current)
      <4>1. n \in Nat /\ n # 0
        BY <2>3
      <4> HIDE DEF n
      <4>2. ~(n > 1) => n = 1
        BY <4>1
      <4>3. QED
        BY <4>2 DEF n
    <3>3. JoinedLength(sec, current) > ChunkSize => Len(current) = 1
      BY <2>3, <3>1, <3>2
    <3>4. QED
      BY <2>2, <3>3
  <2>5. chunks # <<>> /\ Last(chunks).section = sec =>
       JoinedLength(sec, Append(Last(chunks).units, Head(c.units))) > ChunkSize
    BY <2>1, <2>2 DEF TightInv
  <2> HIDE DEF c
  <2>6. AddsChunk(c)
    BY <2>1, <2>2, <2>4, <2>5 DEF AddsChunk
  <2>7. QED
    BY <1>1, <1>2, <1>3, <2>1, <2>6
<1>6. CASE PackingEnds /\ UNCHANGED chunks
  BY <1>1, <1>2, <1>3, <1>6
<1>7. CASE WholeSection
  <2> DEFINE c == Chunk(sec, Wanted(sec))
  <2>1. /\ phase = "sections" /\ sec <= Len(doc) /\ sec' = sec + 1
        /\ SectionLength(sec) <= ChunkSize
        /\ \/ chunks' = Append(chunks, c)
           \/ UNCHANGED chunks
    BY <1>7 DEF WholeSection, AtSection
  <2>2. sec \in 1..Len(doc)
    BY <2>1 DEF LoopInv
  <2>3. c \in Cuts /\ c.section = sec /\ c.size = SectionLength(sec)
        /\ SectionLength(sec) \in Nat /\ ChunkSize \in Nat
    BY <2>2, WantedFacts, ChunkFacts, ConstantsOK DEF SectionLength
  <2>4. ~(chunks # <<>> /\ Last(chunks).section = sec)
    <3>1. chunks \in Seq(Cuts)
      BY DEF LoopInv
    <3>2. chunks # <<>> => Len(chunks) \in DOMAIN chunks
      BY <3>1, EmptySeq, LenProperties
    <3>3. chunks # <<>> => chunks[Len(chunks)].section < sec
      BY <2>1, <3>2 DEF SortedInv
    <3>4. chunks # <<>> => chunks[Len(chunks)] \in Cuts
      BY <3>1, <3>2
    <3>5. chunks # <<>> => chunks[Len(chunks)].section \in Nat
      BY <3>4 DEF Cuts
    <3>6. QED
      BY <1>2, <3>3, <3>5 DEF Last
  <2> HIDE DEF c
  <2>5. ~(c.size > ChunkSize)
    BY <2>1, <2>3
  <2>6. chunks' = Append(chunks, c) => AddsChunk(c)
    BY <2>3, <2>4, <2>5 DEF AddsChunk
  <2>7. QED
    BY <1>1, <1>2, <1>3, <2>1, <2>6
<1>8. CASE Window
  <2> DEFINE content == (IF End <= TextLength THEN End ELSE TextLength) - start
             c == [index |-> idx, section |-> 1, units |-> <<1>>, first |-> start,
                   size |-> content]
  <2>1. /\ phase = "sliding" /\ start < TextLength /\ phase' = phase
        /\ \/ chunks' = Append(chunks, c)
           \/ UNCHANGED chunks
    BY <1>8 DEF Window
  <2>2. strategy = "fixed" /\ Len(doc) = 1 /\ Len(doc[1]) = 1 /\ sec = 1
        /\ start \in Nat /\ idx \in Nat
    BY <2>1 DEF LoopInv
  <2>3. doc[1] \in Seq(Nat)
    BY <2>2 DEF LoopInv
  <2>4. TextLength \in Nat
    BY <2>2, <2>3 DEF TextLength
  <2>5. content \in Nat
    BY <2>1, <2>2, <2>4, ConstantsOK DEF End
  <2>6. <<1>> \in Seq(Nat) /\ Len(<<1>>) = 1
    OBVIOUS
  <2> HIDE DEF content
  <2>7. c \in Cuts /\ c.section = sec /\ Len(c.units) = 1
    BY <2>2, <2>5, <2>6 DEF Cuts
  <2> HIDE DEF c
  <2>8. chunks' = Append(chunks, c) => AddsChunk(c)
    BY <2>2, <2>7 DEF AddsChunk
  <2>9. QED
    BY <1>1, <1>2, <1>3, <2>1, <2>8
<1>9. PackingEnds => \/ current # <<>> /\ chunks' = Append(chunks, Chunk(sec, current))
                     \/ UNCHANGED chunks
  BY DEF PackingEnds, KeepTail
<1>10. QED
  BY <1>4, <1>5, <1>6, <1>7, <1>8, <1>9 DEF Next

LEMMA SortedStep ==
  LoopInv /\ SortedInv /\ TightInv /\ [Next]_vars => SortedInv'
<1> SUFFICES ASSUME LoopInv, SortedInv, TightInv, [Next]_vars PROVE SortedInv'
  OBVIOUS
<1>1. sec \in Nat /\ sec' \in {sec, sec + 1}
  BY Moves
<1>2. chunks \in Seq(Cuts)
  BY DEF LoopInv
<1>3. \A k \in DOMAIN chunks : chunks[k].section \in Nat
  <2>1. \A k \in DOMAIN chunks : chunks[k] \in Cuts
    BY <1>2
  <2>2. QED
    BY <2>1 DEF Cuts
<1>4. CASE UNCHANGED chunks
  <2>1. phase' = "sections" => phase = "sections" \/ sec' = sec + 1
    BY Moves
  <2>2. QED
    BY <1>1, <1>3, <1>4, <2>1 DEF SortedInv
<1>5. CASE (\E c : AddsChunk(c)) /\ (phase' = "sections" => sec' = sec + 1)
  <2>1. PICK c : AddsChunk(c)
    BY <1>5
  <2>2. c \in Cuts /\ chunks' = Append(chunks, c) /\ c.section = sec
    BY <2>1 DEF AddsChunk
  <2> DEFINE N == Len(chunks)
  <2>3. N \in Nat /\ DOMAIN chunks = 1..N /\ DOMAIN chunks' = 1..N + 1
        /\ chunks'[N + 1] = c /\ \A i \in 1..N : chunks'[i] = chunks[i]
    BY <1>2, <2>2, AppendedFacts, LenProperties
  <2> HIDE DEF N
  <2>4. \A k \in 1..N + 1 : k = N + 1 \/ k \in 1..N
    BY <2>3
  <2>5. \A k \in 1..N + 1 : chunks'[k].section <= sec
    BY <1>1, <2>2, <2>3, <2>4 DEF SortedInv
  <2>6. ASSUME NEW j \in 1..N + 1, NEW k \in 1..N + 1, j <= k
        PROVE  chunks'[j].section <= chunks'[k].section
    <3>1. CASE k = N + 1
      BY <2>2, <2>3, <2>5, <3>1
    <3>2. CASE k \in 1..N
      <4>1. j \in 1..N
        BY <2>3, <2>6, <3>2
      <4>2. QED
        BY <2>3, <2>6, <3>2, <4>1 DEF SortedInv
    <3>3. QED
      BY <2>4, <3>1, <3>2
  <2>7. \A k \in 1..N + 1 : chunks'[k].section \in Nat
    BY <1>1, <1>3, <2>2, <2>3, <2>4
  <2>8. \A k \in 1..N + 1 : chunks'[k].section <= sec'
                            /\ (phase' = "sections" => chunks'[k].section < sec')
    BY <1>1, <1>5, <2>5, <2>7
  <2>9. QED
    BY <2>3, <2>6, <2>8 DEF SortedInv
<1>6. QED
  BY <1>4, <1>5, Moves

\* A chunk more keeps the packing tight.
LEMMA TightGrows ==
  ASSUME LoopInv, SortedInv, PackingIsTight, UNCHANGED <<strategy, doc>>,
         NEW c, AddsChunk(c)
  PROVE  PackingIsTight'
<1> DEFINE N == Len(chunks)
           J(s, us) == Joined(doc[s], Separator(strategy), us)
<1>1. chunks \in Seq(Cuts) /\ sec \in Nat
  BY DEF LoopInv
<1>2. c \in Cuts /\ chunks' = Append(chunks, c) /\ c.section = sec
      /\ (c.size > ChunkSize => Len(c.units) = 1)
  BY DEF AddsChunk
<1>3. N \in Nat /\ DOMAIN chunks = 1..N /\ DOMAIN chunks' = 1..N + 1
      /\ chunks'[N + 1] = c /\ \A i \in 1..N : chunks'[i] = chunks[i]
  BY <1>1, <1>2, AppendedFacts, LenProperties
<1>4. \A k \in 1..N : chunks[k].section \in Nat
  <2>1. \A k \in 1..N : chunks[k] \in Cuts
    BY <1>1
  <2>2. QED
    BY <2>1 DEF Cuts
<1>5. Last(chunks) = chunks[N]
  BY DEF Last
<1> HIDE DEF N
<1>6. \A k \in 1..N + 1 : k = N + 1 \/ k \in 1..N
  BY <1>3
<1>7. ASSUME NEW e \in Range(chunks'), e.size > ChunkSize PROVE Len(e.units) = 1
  <2>1. PICK k \in 1..N + 1 : e = chunks'[k]
    BY <1>3, <1>7 DEF Range
  <2>2. CASE k = N + 1
    BY <1>2, <1>3, <1>7, <2>1, <2>2
  <2>3. CASE k \in 1..N
    <3>1. e \in Range(chunks)
      BY <1>3, <2>1, <2>3 DEF Range
    <3>2. QED
      BY <1>7, <3>1 DEF PackingIsTight
  <2>4. QED
    BY <1>6, <2>2, <2>3
<1>8. ASSUME strategy # "fixed", NEW j \in 1..N + 1, NEW k \in 1..N + 1, j < k,
             chunks'[j].section = chunks'[k].section,
             \A i \in j + 1..k - 1 : chunks'[i].section # chunks'[k].section
      PROVE  J(chunks'[j].section, Append(chunks'[j].units, Head(chunks'[k].units)))
               > ChunkSize
  <2>1. j \in 1..N
    BY <1>3, <1>8
  <2>2. CASE k = N + 1
    <3>1. chunks[j].section = sec
      BY <1>2, <1>3, <1>8, <2>1, <2>2
    <3>2. j = N
      <4> SUFFICES ASSUME j # N PROVE FALSE
        OBVIOUS
      <4>1. N \in j + 1..k - 1 /\ N \in 1..N /\ j <= N
        BY <1>3, <2>1, <2>2
      <4>2. chunks[N].section # sec
        BY <1>2, <1>3, <1>8, <2>2, <4>1
      <4>3. sec <= chunks[N].section /\ chunks[N].section <= sec
        BY <1>3, <2>1, <3>1, <4>1 DEF SortedInv
      <4>4. QED
        BY <1>1, <1>4, <4>1, <4>2, <4>3
    <3>3. chunks # <<>>
      BY <1>3, <2>1
    <3>4. J(sec, Append(chunks[N].units, Head(c.units))) > ChunkSize
      BY <1>5, <1>8, <3>1, <3>2, <3>3 DEF AddsChunk, JoinedLength
    <3>5. chunks'[j] = chunks[N] /\ chunks'[k] = c
      BY <1>3, <2>1, <2>2, <3>2
    <3>6. QED
      BY <3>1, <3>2, <3>4, <3>5
  <2>3. CASE k \in 1..N
    <3>1. chunks'[j] = chunks[j] /\ chunks'[k] = chunks[k]
      BY <1>3, <2>1, <2>3
    <3>2. \A i \in j + 1..k - 1 : i \in 1..N
      BY <1>3, <2>1, <2>3
    <3>3. Neighbours(j, k)
      BY <1>3, <1>8, <3>1, <3>2 DEF Neighbours
    <3>4. QED
      BY <1>3, <1>8, <2>1, <2>3, <3>1, <3>3 DEF PackingIsTight, JoinedLength
  <2>4. QED
    BY <1>6, <2>2, <2>3
<1>9. QED
  BY <1>3, <1>7, <1>8 DEF PackingIsTight, Neighbours, JoinedLength, Separator
LEMMA TightStep ==
  LoopInv /\ SortedInv /\ TightInv /\ [Next]_vars => TightInv'
<1> SUFFICES ASSUME LoopInv, SortedInv, TightInv, [Next]_vars PROVE TightInv'
  OBVIOUS
<1>1. UNCHANGED <<strategy, doc>>
  BY Moves
<1>2. PackingIsTight'
  <2>1. CASE UNCHANGED chunks
    BY <1>1, <2>1 DEF TightInv, PackingIsTight, Neighbours, JoinedLength, Separator
  <2>2. CASE \E c : AddsChunk(c)
    BY <1>1, <2>2, TightGrows DEF TightInv
  <2>3. QED
    BY <2>1, <2>2, Moves
<1> DEFINE Fit == phase = "packing" /\ Len(current) > 1
                     => JoinedLength(sec, current) <= ChunkSize
           Left == phase = "packing" /\ chunks # <<>> /\ Last(chunks).section = sec =>
             /\ current # <<>>
             /\ JoinedLength(sec, Append(Last(chunks).units, Head(current))) > ChunkSize
<1>3. Fit /\ Left
  BY DEF TightInv
<1>4. CASE Skip \/ UNCHANGED vars
  <2>1. UNCHANGED <<strategy, doc, phase, sec, current, chunks>>
    BY <1>4 DEF Skip, AtUnit, vars
  <2>2. Fit'
    BY <1>3, <2>1 DEF JoinedLength, Separator
  <2>3. Left'
    BY <1>3, <2>1 DEF JoinedLength, Separator, Last
  <2>4. QED
    BY <1>2, <2>2, <2>3 DEF TightInv
<1>5. CASE Gather
  <2>1. /\ phase = "packing" /\ unit <= Len(doc[sec])
        /\ Fits(length, doc[sec][unit]) \/ current = <<>>
        /\ current' = Append(current, unit)
        /\ UNCHANGED <<strategy, doc, phase, sec, chunks>>
    BY <1>5 DEF Gather, AtUnit
  <2>2. unit \in 1..Len(doc[sec])
    <3>1. unit \in 1..Len(doc[sec]) + 1 /\ Len(doc[sec]) \in Nat
      BY <2>1, AtHand
    <3>2. QED
      BY <2>1, <3>1
  <2> DEFINE j == JoinedLength(sec, current)
             l == JoinedLength(sec, Append(current, unit))
             k == Counted(strategy)
             x == doc[sec][unit]
  <2>3. j \in Nat /\ x \in Nat /\ k \in Nat /\ (current = <<>> => j = 0)
        /\ l = j + x + (IF current = <<>> THEN 0 ELSE k)
    BY <2>1, <2>2, AtHand, SeparatorFacts
  <2>4. length = (IF current = <<>> THEN 0 ELSE j + k)
    BY <2>1 DEF LoopInv
  <2>5. current # <<>> => length + x <= ChunkSize
    BY <2>1 DEF Fits
  <2>6. (JoinedLength(sec, current))' = l
    BY <2>1 DEF JoinedLength, Separator
  <2>7. Len(current') > 1 => current # <<>>
    BY <2>1
  <2> HIDE DEF j, l, k, x
  <2>8. current # <<>> => l <= ChunkSize
    BY <2>3, <2>4, <2>5, ConstantsOK
  <2>9. Fit'
    BY <2>6, <2>7, <2>8
  <2>10. Left'
    <3>1. current # <<>> => Head(current') = Head(current) /\ current' # <<>>
      <4>1. current \in Seq(1..Len(doc[sec]))
        BY <2>1, AtHand
      <4>2. QED
        BY <2>1, <2>2, <4>1, HeadTailAppend
    <3>2. chunks # <<>> /\ Last(chunks).section = sec =>
            /\ current # <<>>
            /\ JoinedLength(sec, Append(Last(chunks).units, Head(current))) > ChunkSize
      BY <1>3, <2>1
    <3>3. QED
      BY <2>1, <3>1, <3>2 DEF JoinedLength, Separator, Last
  <2>11. QED
    BY <1>2, <2>9, <2>10 DEF TightInv
<1>6. CASE Close
  <2> DEFINE c == Chunk(sec, current)
  <2>1. /\ phase = "packing" /\ unit <= Len(doc[sec])
        /\ ~Fits(length, doc[sec][unit]) /\ current # <<>>
        /\ current' = <<unit>>
        /\ chunks' = Append(chunks, c)
        /\ UNCHANGED <<strategy, doc, phase, sec>>
    BY <1>6 DEF Close, AtUnit
  <2>2. unit \in 1..Len(doc[sec])
    <3>1. unit \in 1..Len(doc[sec]) + 1 /\ Len(doc[sec]) \in Nat
      BY <2>1, AtHand
    <3>2. QED
      BY <2>1, <3>1
  <2> DEFINE j == JoinedLength(sec, current)
             l == JoinedLength(sec, Append(current, unit))
             k == Counted(strategy)
             x == doc[sec][unit]
  <2>3. j \in Nat /\ x \in Nat /\ k \in Nat /\ l = j + x + k
    BY <2>1, <2>2, AtHand, SeparatorFacts
  <2>4. length = j + k
    BY <2>1 DEF LoopInv
  <2>5. ~(length + x <= ChunkSize)
    BY <2>1 DEF Fits
  <2>6. c \in Cuts /\ c.units = current
    BY <2>1, AtHand, ChunkFacts
  <2> HIDE DEF c
  <2>7. Last(chunks') = c
    BY <2>1, <2>6, AppendedFacts DEF LoopInv
  <2>8. Head(current') = unit /\ current' # <<>> /\ Len(current') = 1
    BY <2>1
  <2>9. (JoinedLength(sec, Append(Last(chunks).units, Head(current))))' = l
    BY <2>1, <2>6, <2>7, <2>8 DEF JoinedLength, Separator, Last
  <2> HIDE DEF j, l, k, x
  <2>10. l > ChunkSize
    BY <2>3, <2>4, <2>5, ConstantsOK
  <2>11. Fit'
    BY <2>8
  <2>12. Left'
    BY <2>8, <2>9, <2>10
  <2>13. QED
    BY <1>2, <2>11, <2>12 DEF TightInv
<1>7. CASE PackingEnds \/ WholeSection \/ SectionsEnd \/ Window \/ SlidingEnds
  <2>1. phase' # "packing"
    BY <1>7 DEF PackingEnds, WholeSection, AtSection, SectionsEnd, Window, SlidingEnds
  <2>2. QED
    BY <1>2, <2>1 DEF TightInv
<1>8. CASE LargeSection
  <2>1. phase = "sections" /\ UNCHANGED <<sec, current, chunks>> /\ current = <<>>
    BY <1>8 DEF LargeSection, AtSection, LoopInv
  <2>2. chunks # <<>> => ~(Last(chunks).section = sec)
    <3>1. chunks \in Seq(Cuts) /\ sec \in Nat
      BY DEF LoopInv
    <3>2. chunks # <<>> => Len(chunks) \in DOMAIN chunks
      BY <3>1, EmptySeq, LenProperties
    <3>3. chunks # <<>> => chunks[Len(chunks)].section < sec
      BY <2>1, <3>2 DEF SortedInv
    <3>4. QED
      BY <3>1, <3>3 DEF Last
  <2>3. Len(current') = 0
    BY <2>1
  <2>4. Fit'
    BY <2>3
  <2>5. Left'
    BY <2>1, <2>2 DEF Last
  <2>6. QED
    BY <1>2, <2>4, <2>5 DEF TightInv
<1>9. QED
  BY <1>4, <1>5, <1>6, <1>7, <1>8 DEF Next
\* All of w is in g but for a rest that is too short for a chunk.
AllBut(g, w, d, b) ==
  \E rest \in Suffixes(w) : w = g \o rest /\ Joined(d, b, rest) < MinChunkSize

\* The chunks and what is gathered are what the loop has passed.
CoverInv ==
  strategy # "fixed" =>
    /\ \A s \in DOMAIN doc : s < sec =>
         AllBut(Gathered(chunks, s), Wanted(s), doc[s], Separator(strategy))
    /\ \A s \in DOMAIN doc :
         s > sec \/ (s = sec /\ phase # "packing") => Gathered(chunks, s) = <<>>
    /\ phase = "packing" =>
         Taken(strategy, doc[sec])[unit - 1] = Gathered(chunks, sec) \o current

LEMMA AllButFacts ==
  ASSUME NEW g \in Seq(Nat), NEW r \in Seq(Nat), NEW w, w = g \o r, NEW d, NEW b,
         Joined(d, b, r) < MinChunkSize
  PROVE  AllBut(g, w, d, b)
<1>1. w \in Seq(Nat) /\ Len(w) = Len(g) + Len(r)
      /\ \A i \in 1..Len(g) + Len(r) :
           w[i] = IF i <= Len(g) THEN g[i] ELSE r[i - Len(g)]
  BY ConcatProperties
<1>2. Len(g) \in Nat /\ Len(r) \in Nat /\ (r # <<>> => Len(r) \in Nat \ {0})
  BY EmptySeq
<1>3. r \in Suffixes(w)
  <2>1. CASE r = <<>>
    BY <2>1 DEF Suffixes
  <2>2. CASE r # <<>>
    <3> DEFINE l == Len(g) + 1
               t == SubSeq(w, l, Len(w))
    <3>1. l \in 1..Len(w) /\ Len(w) - l + 1 = Len(r) /\ l <= Len(w)
      BY <1>1, <1>2, <2>2
    <3>2. \A i \in l..Len(w) : w[i] \in Nat
      BY <1>1, <3>1
    <3>3. /\ t \in Seq(Nat) /\ Len(t) = Len(r)
          /\ \A i \in 1..Len(r) : t[i] = w[l + i - 1]
      <4>1. l \in Int /\ Len(w) \in Int
        BY <1>1, <1>2
      <4>2. /\ t \in Seq(Nat) /\ Len(t) = IF l <= Len(w) THEN Len(w) - l + 1 ELSE 0
            /\ \A i \in 1..Len(w) - l + 1 : t[i] = w[l + i - 1]
        BY <3>2, <4>1, SubSeqProperties
      <4>3. QED
        BY <3>1, <4>2
    <3>4. ASSUME NEW i \in 1..Len(r) PROVE t[i] = r[i]
      <4>1. l + i - 1 \in 1..Len(g) + Len(r) /\ ~(l + i - 1 <= Len(g))
            /\ (l + i - 1) - Len(g) = i
        BY <1>2
      <4>2. w[l + i - 1] = r[i]
        BY <1>1, <4>1
      <4>3. QED
        BY <3>3, <4>2
    <3>5. t = r
      BY <3>3, <3>4, SeqEqual
    <3>6. t \in Suffixes(w)
      BY <3>1 DEF Suffixes
    <3>7. QED
      BY <3>5, <3>6
  <2>3. QED
    BY <2>1, <2>2
<1>4. QED
  BY <1>3 DEF AllBut

\* A unit that is gathered comes after those that are.
LEMMA AppendLast ==
  ASSUME NEW g \in Seq(Nat), NEW us \in Seq(Nat), NEW x \in Nat
  PROVE  Append(g \o us, x) = g \o Append(us, x)
<1>1. <<x>> \in Seq(Nat) /\ g \o us \in Seq(Nat)
  BY ConcatProperties
<1>2. Append(g \o us, x) = (g \o us) \o <<x>>
  BY <1>1, AppendIsConcat
<1>3. Append(us, x) = us \o <<x>>
  BY AppendIsConcat
<1>4. QED
  BY <1>1, <1>2, <1>3, ConcatAssociative

\* The loops are at the beginning of a document.
Untouched ==
  /\ chunks = <<>> /\ current = <<>> /\ sec = 1 /\ unit = 1
  /\ doc \in Seq(Seq(Nat))
  /\ phase = "packing" => 1 \in DOMAIN doc

LEMMA CoverInit == Untouched => CoverInv
<1> SUFFICES ASSUME Untouched PROVE CoverInv
  OBVIOUS
<1> USE DEF Untouched
<1>1. chunks \in Seq(Cuts)
  OBVIOUS
<1>2. \A s : Gathered(chunks, s) = <<>>
  BY <1>1, GatheredFacts
<1>3. \A s \in DOMAIN doc : ~(s < sec)
  OBVIOUS
<1>4. phase = "packing" => Taken(strategy, doc[sec])[unit - 1] = <<>>
  <2>1. phase = "packing" => doc[1] \in Seq(Nat)
    OBVIOUS
  <2>2. phase = "packing" => TakesUnits(Taken(strategy, doc[1]), strategy, doc[1])
    BY <2>1, TakenFacts
  <2>3. QED
    BY <2>2 DEF TakesUnits
<1>5. Gathered(chunks, sec) \o current = <<>>
  BY <1>2
<1>6. QED
  BY <1>2, <1>3, <1>4, <1>5 DEF CoverInv

LEMMA CoverStep ==
  LoopInv /\ SortedInv /\ TightInv /\ CoverInv /\ [Next]_vars => CoverInv'
<1> SUFFICES ASSUME LoopInv, SortedInv, TightInv, CoverInv, [Next]_vars,
                    strategy # "fixed"
             PROVE  CoverInv'
  <2>1. UNCHANGED strategy => (CoverInv' <=> (strategy # "fixed" => CoverInv'))
    BY DEF CoverInv
  <2>2. QED
    BY <2>1, Moves
<1>1. UNCHANGED <<strategy, doc>>
  BY Moves
<1>2. chunks \in Seq(Cuts) /\ sec \in Nat /\ doc \in Seq(Seq(Nat))
  BY DEF LoopInv
<1> DEFINE G(s)  == Gathered(chunks, s)
           H(s)  == Gathered(chunks', s)
           T(s)  == Taken(strategy, doc[s])
           b     == Separator(strategy)
           A(g, s) == AllBut(g, Wanted(s), doc[s], b)
           All   == \A s \in DOMAIN doc : s < sec' => A(H(s), s)
           None  == \A s \in DOMAIN doc : s > sec' \/ (s = sec' /\ phase' # "packing")
                                            => H(s) = <<>>
           Here  == phase' = "packing" => T(sec')[unit' - 1] = H(sec') \o current'
<1>3. /\ \A s \in DOMAIN doc : s < sec => A(G(s), s)
      /\ \A s \in DOMAIN doc : s > sec \/ (s = sec /\ phase # "packing") => G(s) = <<>>
      /\ phase = "packing" => T(sec)[unit - 1] = G(sec) \o current
  BY DEF CoverInv
<1>4. \A s \in DOMAIN doc : (Wanted(s))' = Wanted(s)
  BY <1>1 DEF Wanted
<1>5. All /\ None /\ Here => CoverInv'
  BY <1>1, <1>4 DEF CoverInv, Separator
<1>6. /\ \A s : G(s) \in Seq(Nat)
      /\ \A c \in Cuts : \A s : Gathered(Append(chunks, c), s) =
                                  IF c.section = s THEN G(s) \o c.units ELSE G(s)
  BY <1>2, GatheredFacts
<1>7. \A s \in 1..Len(doc) : TakesUnits(T(s), strategy, doc[s])
  BY <1>2, TakenFacts
<1>8. DOMAIN doc = 1..Len(doc) /\ Len(doc) \in Nat
  BY <1>2
<1> HIDE DEF G, H, T, A, All, None, Here
<1>9. UNCHANGED chunks => \A s : H(s) = G(s)
  BY DEF G, H
<1>10. UNCHANGED <<chunks, sec>> /\ (phase' # "packing" <=> phase # "packing") => All /\ None
  BY <1>3, <1>9 DEF All, None
<1>11. ASSUME NEW c \in Cuts, chunks' = Append(chunks, c)
       PROVE  \A s : H(s) = IF c.section = s THEN G(s) \o c.units ELSE G(s)
  BY <1>6, <1>11 DEF H
<1>12. ASSUME phase' # "packing", sec' = sec + 1, sec \in DOMAIN doc, A(H(sec), sec),
              \A s : s # sec => H(s) = G(s)
       PROVE  All /\ None /\ Here
  <2>1. ASSUME NEW s \in DOMAIN doc, s < sec' PROVE A(H(s), s)
    <3>1. s = sec \/ (s < sec /\ s # sec)
      BY <1>2, <1>8, <1>12, <2>1
    <3>2. QED
      BY <1>3, <1>12, <3>1
  <2>2. ASSUME NEW s \in DOMAIN doc, s > sec' \/ s = sec' PROVE H(s) = <<>>
    <3>1. s > sec /\ s # sec
      BY <1>2, <1>8, <1>12, <2>2
    <3>2. QED
      BY <1>3, <1>12, <3>1
  <2>3. QED
    BY <1>12, <2>1, <2>2 DEF All, None, Here
<1>13. ASSUME phase = "packing", unit <= Len(doc[sec])
       PROVE  /\ unit \in 1..Len(doc[sec])
              /\ T(sec)[unit] = IF strategy = "sentence" \/ doc[sec][unit] > 0
                                THEN Append(T(sec)[unit - 1], unit) ELSE T(sec)[unit - 1]
              /\ T(sec)[unit - 1] = G(sec) \o current
              /\ current \in Seq(Nat) /\ unit \in Nat
  <2>1. /\ sec \in 1..Len(doc) /\ unit \in 1..Len(doc[sec]) + 1 /\ Len(doc[sec]) \in Nat
        /\ current \in Seq(1..Len(doc[sec]))
    BY <1>13, AtHand
  <2>2. unit \in 1..Len(doc[sec]) /\ 1..Len(doc[sec]) \subseteq Nat
    BY <1>13, <2>1
  <2>3. current \in Seq(Nat)
    BY <2>1, <2>2, SeqMonotonic
  <2>4. TakesUnits(T(sec), strategy, doc[sec])
    BY <1>7, <2>1
  <2>5. QED
    BY <1>3, <1>13, <2>2, <2>3, <2>4 DEF TakesUnits
<1>14. CASE Skip
  <2>1. /\ phase = "packing" /\ unit <= Len(doc[sec]) /\ unit' = unit + 1
        /\ ~(strategy = "sentence" \/ doc[sec][unit] > 0)
        /\ UNCHANGED <<phase, sec, current, chunks>>
    BY <1>14 DEF Skip, AtUnit
  <2>2. unit' - 1 = unit
    BY <1>13, <2>1
  <2>3. T(sec)[unit] = G(sec) \o current
    BY <1>13, <2>1
  <2>4. Here
    BY <1>9, <2>1, <2>2, <2>3 DEF Here
  <2>5. QED
    BY <1>5, <1>10, <2>1, <2>4
<1>15. CASE Gather
  <2>1. /\ phase = "packing" /\ unit <= Len(doc[sec]) /\ unit' = unit + 1
        /\ (strategy = "sentence" \/ doc[sec][unit] > 0)
        /\ current' = Append(current, unit)
        /\ UNCHANGED <<phase, sec, chunks>>
    BY <1>15 DEF Gather, AtUnit
  <2>2. unit' - 1 = unit
    BY <1>13, <2>1
  <2>3. T(sec)[unit] = Append(G(sec) \o current, unit)
    BY <1>13, <2>1
  <2>4. T(sec)[unit] = G(sec) \o current'
    BY <1>6, <1>13, <2>1, <2>3, AppendLast
  <2>5. Here
    BY <1>9, <2>1, <2>2, <2>4 DEF Here
  <2>6. QED
    BY <1>5, <1>10, <2>1, <2>5
<1>16. CASE Close
  <2> DEFINE c == Chunk(sec, current)
  <2>1. /\ phase = "packing" /\ unit <= Len(doc[sec]) /\ unit' = unit + 1
        /\ (strategy = "sentence" \/ doc[sec][unit] > 0)
        /\ current' = <<unit>>
        /\ chunks' = Append(chunks, c)
        /\ UNCHANGED <<phase, sec>>
    BY <1>16 DEF Close, AtUnit
  <2>2. unit' - 1 = unit
    BY <1>13, <2>1
  <2>3. T(sec)[unit] = Append(G(sec) \o current, unit)
    BY <1>13, <2>1
  <2>4. c \in Cuts /\ c.section = sec /\ c.units = current
    BY <2>1, AtHand, ChunkFacts
  <2> HIDE DEF c
  <2>5. H(sec) = G(sec) \o current /\ \A s : s # sec => H(s) = G(s)
    BY <1>11, <2>1, <2>4
  <2>6. G(sec) \o current \in Seq(Nat)
    BY <1>6, <1>13, <2>1, ConcatProperties
  <2>7. Append(G(sec) \o current, unit) = (G(sec) \o current) \o <<unit>>
    BY <1>13, <2>1, <2>6, AppendIsConcat
  <2>8. Here
    BY <2>1, <2>2, <2>3, <2>5, <2>7 DEF Here
  <2>9. All
    <3>1. \A s \in DOMAIN doc : s < sec => s # sec
      BY <1>2, <1>8
    <3>2. QED
      BY <1>3, <2>1, <2>5, <3>1 DEF All
  <2>10. None
    BY <1>2, <1>3, <1>8, <2>1, <2>5 DEF None
  <2>11. QED
    BY <1>5, <2>8, <2>9, <2>10
<1>17. CASE PackingEnds
  <2> DEFINE c == Chunk(sec, current)
  <2>1. /\ phase = "packing" /\ unit > Len(doc[sec]) /\ phase' # "packing"
        /\ sec' = sec + 1
        /\ \/ chunks' = Append(chunks, c)
           \/ UNCHANGED chunks /\ ~(current # <<>> /\ length >= MinChunkSize)
    BY <1>17 DEF PackingEnds, KeepTail
  <2>2. /\ sec \in 1..Len(doc) /\ unit \in 1..Len(doc[sec]) + 1 /\ Len(doc[sec]) \in Nat
        /\ current \in Seq(1..Len(doc[sec]))
        /\ JoinedLength(sec, current) \in Nat
        /\ (current = <<>> => JoinedLength(sec, current) = 0)
    BY <2>1, AtHand
  <2>3. unit - 1 = Len(doc[sec]) /\ 1..Len(doc[sec]) \subseteq Nat
    BY <2>1, <2>2
  <2>4. current \in Seq(Nat)
    BY <2>2, <2>3, SeqMonotonic
  <2>5. Wanted(sec) = G(sec) \o current
    BY <1>3, <2>1, <2>3 DEF Wanted, T
  <2>6. c \in Cuts /\ c.section = sec /\ c.units = current
    BY <2>1, AtHand, ChunkFacts
  <2> HIDE DEF c
  <2>7. CASE chunks' = Append(chunks, c)
    <3>1. H(sec) = G(sec) \o current /\ \A s : s # sec => H(s) = G(s)
      BY <1>11, <2>6, <2>7
    <3>2. H(sec) \in Seq(Nat)
      BY <1>6, <2>4, <3>1, ConcatProperties
    <3> DEFINE r == <<>>
    <3>3. r \in Seq(Nat) /\ Wanted(sec) = H(sec) \o r
      BY <2>5, <3>1, <3>2, ConcatEmptySeq
    <3>4. Joined(doc[sec], b, r) < MinChunkSize
      BY <2>2, WantedFacts, ConstantsOK DEF JoinedLength
    <3> HIDE DEF r
    <3>5. A(H(sec), sec)
      BY <3>2, <3>3, <3>4, AllButFacts DEF A
    <3>6. QED
      BY <1>5, <1>8, <1>12, <2>1, <2>2, <3>1, <3>5
  <2>8. CASE UNCHANGED chunks /\ ~(current # <<>> /\ length >= MinChunkSize)
    <3>1. JoinedLength(sec, current) < MinChunkSize
      <4>1. length = IF current = <<>> THEN 0
                     ELSE JoinedLength(sec, current) + Counted(strategy)
        BY <2>1 DEF LoopInv
      <4>2. QED
        BY <2>2, <2>8, <4>1, SeparatorFacts, ConstantsOK
    <3>2. \A s : H(s) = G(s)
      BY <1>9, <2>8
    <3>3. A(H(sec), sec)
      BY <1>6, <2>4, <2>5, <3>1, <3>2, AllButFacts DEF A, JoinedLength
    <3>4. QED
      BY <1>5, <1>8, <1>12, <2>1, <2>2, <3>2, <3>3
  <2>9. QED
    BY <2>1, <2>7, <2>8
<1>18. CASE WholeSection
  <2> DEFINE w == Wanted(sec)
             c == Chunk(sec, w)
  <2>1. /\ phase = "sections" /\ phase' # "packing" /\ sec <= Len(doc)
        /\ sec' = sec + 1
        /\ \/ chunks' = Append(chunks, c)
           \/ UNCHANGED chunks /\ ~(JoinedLength(sec, w) >= MinChunkSize)
    BY <1>18 DEF WholeSection, AtSection, SectionLength
  <2>2. sec \in 1..Len(doc)
    BY <2>1 DEF LoopInv
  <2>3. w \in Seq(Nat) /\ c \in Cuts /\ c.section = sec /\ c.units = w
        /\ JoinedLength(sec, w) \in Nat
    BY <2>2, WantedFacts, ChunkFacts
  <2>4. G(sec) = <<>>
    BY <1>3, <1>8, <2>1, <2>2
  <2>5. w = G(sec) \o w
    BY <2>3, <2>4, ConcatEmptySeq
  <2> HIDE DEF w, c
  <2>6. CASE chunks' = Append(chunks, c)
    <3>1. H(sec) = w /\ \A s : s # sec => H(s) = G(s)
      BY <1>11, <2>3, <2>5, <2>6
    <3> DEFINE r == <<>>
    <3>2. r \in Seq(Nat) /\ w = H(sec) \o r
      BY <2>3, <3>1, ConcatEmptySeq
    <3>3. Joined(doc[sec], b, r) < MinChunkSize
      BY <2>2, WantedFacts, ConstantsOK DEF JoinedLength
    <3> HIDE DEF r
    <3>4. A(H(sec), sec)
      BY <2>3, <3>1, <3>2, <3>3, AllButFacts DEF A, w
    <3>5. QED
      BY <1>5, <1>8, <1>12, <2>1, <2>2, <3>1, <3>4
  <2>7. CASE UNCHANGED chunks /\ ~(JoinedLength(sec, w) >= MinChunkSize)
    <3>1. JoinedLength(sec, w) < MinChunkSize
      BY <2>3, <2>7, ConstantsOK
    <3>2. \A s : H(s) = G(s)
      BY <1>9, <2>7
    <3>3. A(H(sec), sec)
      BY <1>6, <2>3, <2>5, <3>1, <3>2, AllButFacts DEF A, JoinedLength, w
    <3>4. QED
      BY <1>5, <1>8, <1>12, <2>1, <2>2, <3>2, <3>3
  <2>8. QED
    BY <2>1, <2>6, <2>7
<1>19. CASE LargeSection
  <2>1. /\ phase = "sections" /\ phase' = "packing" /\ sec <= Len(doc)
        /\ UNCHANGED <<sec, unit, current, chunks>>
    BY <1>19 DEF LargeSection, AtSection
  <2>2. sec \in 1..Len(doc) /\ unit = 1 /\ current = <<>>
    BY <2>1 DEF LoopInv
  <2>3. T(sec)[0] = <<>>
    BY <1>7, <2>2 DEF TakesUnits
  <2>4. H(sec) = <<>>
    BY <1>3, <1>8, <1>9, <2>1, <2>2
  <2>5. Here
    BY <2>1, <2>2, <2>3, <2>4 DEF Here
  <2>6. All /\ None
    BY <1>3, <1>9, <2>1 DEF All, None
  <2>7. QED
    BY <1>5, <2>5, <2>6
<1>20. CASE SectionsEnd
  <2>1. phase # "packing" /\ phase' # "packing" /\ UNCHANGED <<chunks, sec>>
    BY <1>20 DEF SectionsEnd
  <2>2. QED
    BY <1>5, <1>10, <2>1 DEF Here
<1>21. CASE UNCHANGED vars
  <2>1. UNCHANGED <<phase, sec, unit, current, chunks>>
    BY <1>21 DEF vars
  <2>2. Here
    BY <1>3, <1>9, <2>1 DEF Here
  <2>3. QED
    BY <1>5, <1>10, <2>1, <2>2
<1>22. ~(Window \/ SlidingEnds)
  BY DEF Window, SlidingEnds, LoopInv
<1>23. QED
  BY <1>14, <1>15, <1>16, <1>17, <1>18, <1>19, <1>20, <1>21, <1>22 DEF Next
CoveredText == IF chunks = <<>> THEN 0 ELSE Last(chunks).first + Last(chunks).size

\* The window is where the last one lets it begin, or nothing is left that is
\* worth a chunk.
SlideInv ==
  strategy = "fixed" =>
    /\ \A k \in 1..Len(chunks) - 1 :
         chunks[k + 1].first = chunks[k].first + ChunkSize - ChunkOverlap
    /\ \/ IF chunks = <<>> THEN start = 0
          ELSE /\ start = Last(chunks).first + ChunkSize - ChunkOverlap
               /\ Last(chunks).first < TextLength
               /\ Last(chunks).size =
                    IF Last(chunks).first + ChunkSize <= TextLength THEN ChunkSize
                    ELSE TextLength - Last(chunks).first
       \/ /\ TextLength - start < MinChunkSize
          /\ TextLength - CoveredText < MinChunkSize
    /\ phase = "done" => start >= TextLength

LEMMA TextType ==
  ASSUME LoopInv, strategy = "fixed"
  PROVE  TextLength \in Nat
<1>1. doc \in Seq(Seq(Nat)) /\ Len(doc) = 1 /\ Len(doc[1]) = 1
  BY DEF LoopInv
<1>2. 1 \in 1..Len(doc) /\ 1 \in 1..Len(doc[1])
  BY <1>1
<1>3. doc[1] \in Seq(Nat)
  BY <1>1, <1>2, ElementOfSeq
<1>4. doc[1][1] \in Nat
  BY <1>2, <1>3, ElementOfSeq
<1>5. QED
  BY <1>4 DEF TextLength

LEMMA SlideStep == LoopInv /\ SlideInv /\ [Next]_vars => SlideInv'
<1> SUFFICES ASSUME LoopInv, SlideInv, [Next]_vars PROVE SlideInv'
  OBVIOUS
<1> SUFFICES ASSUME strategy = "fixed" PROVE SlideInv'
  <2>1. UNCHANGED strategy
    BY DEF Next, vars, Skip, Gather, Close, PackingEnds, AtUnit, WholeSection,
           LargeSection, AtSection, SectionsEnd, Window, SlidingEnds
  <2>2. QED
    BY <2>1 DEF SlideInv
<1>1. /\ chunks \in Seq(Cuts) /\ start \in Nat /\ idx \in Nat
      /\ doc \in Seq(Seq(Nat)) /\ Len(doc) = 1 /\ Len(doc[1]) = 1
      /\ phase \in {"sliding", "done"}
  BY DEF LoopInv
<1>2. TextLength \in Nat
  BY TextType
<1>3. /\ ChunkSize \in Nat /\ MinChunkSize \in Nat /\ ChunkOverlap \in Nat
      /\ MinChunkSize >= 1 /\ MinChunkSize <= ChunkSize /\ ChunkOverlap < ChunkSize
  BY ConstantsOK
<1>4. CASE Window
  <2> DEFINE content == (IF End <= TextLength THEN End ELSE TextLength) - start
             c == [index |-> idx, section |-> 1, units |-> <<1>>, first |-> start,
                   size |-> content]
  <2>1. /\ start < TextLength
        /\ phase' = "sliding"
        /\ start' = start + ChunkSize - ChunkOverlap
        /\ UNCHANGED <<strategy, doc>>
        /\ content >= MinChunkSize => chunks' = Append(chunks, c)
        /\ ~(content >= MinChunkSize) => UNCHANGED chunks
    <3>1. /\ phase = "sliding" /\ start < TextLength /\ start' = NextStart
          /\ UNCHANGED <<strategy, doc, phase>>
          /\ IF content >= MinChunkSize THEN chunks' = Append(chunks, c) /\ idx' = idx + 1
             ELSE UNCHANGED <<chunks, idx>>
      BY <1>4 DEF Window
    <3> DEFINE Kept == content >= MinChunkSize
    <3>2. start' = start + ChunkSize - ChunkOverlap
      <4>1. start' = NextStart
        BY <3>1
      <4>2. QED
        BY <1>1, <1>3, <4>1 DEF NextStart, End
    <3>3. IF Kept THEN chunks' = Append(chunks, c) /\ idx' = idx + 1
          ELSE UNCHANGED <<chunks, idx>>
      BY <3>1
    <3> HIDE DEF content, c, Kept
    <3>4. (Kept => chunks' = Append(chunks, c)) /\ (~Kept => UNCHANGED chunks)
      BY <3>3
    <3>5. QED
      BY <3>1, <3>2, <3>4 DEF Kept
  <2>2. TextLength' = TextLength
    BY <2>1 DEF TextLength
  <2>3. content = IF start + ChunkSize <= TextLength THEN ChunkSize ELSE TextLength - start
    BY <1>1, <1>2, <1>3 DEF End
  <2>4. content \in Nat
    BY <1>1, <1>2, <1>3, <2>1, <2>3
  <2>5. <<1>> \in Seq(Nat)
    OBVIOUS
  <2> HIDE DEF content
  <2>6. c \in Cuts /\ c.first = start /\ c.size = content
    BY <1>1, <2>4, <2>5 DEF Cuts
  <2> HIDE DEF c
  <2> DEFINE N == Len(chunks)
             z == Last(chunks)
  <2>7. N \in Nat /\ (chunks # <<>> => N \in 1..N /\ z = chunks[N] /\ z \in Cuts)
        /\ (chunks = <<>> => N = 0)
    <3>1. N \in Nat /\ (chunks # <<>> => N \in 1..N /\ z = chunks[N])
      BY <1>1, EmptySeq DEF Last
    <3>2. chunks # <<>> => chunks[N] \in Cuts
      BY <1>1, <3>1
    <3>3. QED
      BY <3>1, <3>2
  <2>8. chunks # <<>> => z.first \in Nat /\ z.size \in Nat
    BY <2>7 DEF Cuts
  <2>9. \/ IF chunks = <<>> THEN start = 0
           ELSE /\ start = z.first + ChunkSize - ChunkOverlap
                /\ z.first < TextLength
                /\ z.size = IF z.first + ChunkSize <= TextLength THEN ChunkSize
                            ELSE TextLength - z.first
        \/ /\ TextLength - start < MinChunkSize
           /\ TextLength - CoveredText < MinChunkSize
    BY DEF SlideInv
  <2>10. CoveredText = IF chunks = <<>> THEN 0 ELSE z.first + z.size
    BY DEF CoveredText
  <2>11. \A k \in 1..N - 1 : chunks[k + 1].first = chunks[k].first + ChunkSize - ChunkOverlap
    BY DEF SlideInv
  <2> HIDE DEF z, N
  <2>12. CASE content >= MinChunkSize
    <3>1. /\ DOMAIN chunks' = 1..N + 1 /\ Len(chunks') = N + 1 /\ chunks'[N + 1] = c
          /\ \A i \in 1..N : chunks'[i] = chunks[i]
          /\ Last(chunks') = c /\ chunks' # <<>>
      <4>1. chunks \in Seq(Cuts) /\ c \in Cuts /\ chunks' = Append(chunks, c)
        BY <1>1, <2>1, <2>6, <2>12
      <4>2. QED
        BY <4>1, AppendedFacts DEF N
    <3>2. ~(TextLength - start < MinChunkSize)
      BY <1>1, <1>2, <1>3, <2>1, <2>3, <2>12
    <3>3. chunks # <<>> => start = z.first + ChunkSize - ChunkOverlap
      BY <2>9, <3>2
    <3>4. ASSUME NEW k \in 1..N
          PROVE  chunks'[k + 1].first = chunks'[k].first + ChunkSize - ChunkOverlap
      <4>1. CASE k = N
        <5>1. chunks # <<>> /\ z = chunks[N] /\ N \in 1..N
          BY <2>7, <4>1
        <5>2. chunks'[k + 1].first = start /\ chunks'[k] = z
          BY <2>6, <3>1, <4>1, <5>1
        <5>3. QED
          BY <3>3, <5>1, <5>2
      <4>2. CASE k # N
        <5>1. k \in 1..N - 1 /\ k + 1 \in 1..N
          BY <2>7, <4>2
        <5>2. QED
          BY <2>11, <3>1, <5>1
      <4>3. QED
        BY <4>1, <4>2
    <3>5. Len(chunks') - 1 = N
      BY <2>7, <3>1
    <3>6. start' = Last(chunks').first + ChunkSize - ChunkOverlap
          /\ Last(chunks').first < TextLength
          /\ Last(chunks').size = IF Last(chunks').first + ChunkSize <= TextLength
                                  THEN ChunkSize ELSE TextLength - Last(chunks').first
      BY <2>1, <2>3, <2>6, <3>1
    <3>7. QED
      BY <2>1, <2>2, <3>1, <3>4, <3>5, <3>6 DEF SlideInv, Last
  <2>13. CASE ~(content >= MinChunkSize)
    <3>1. TextLength - start < MinChunkSize
      BY <1>1, <1>2, <1>3, <2>1, <2>3, <2>4, <2>13
    <3>2. TextLength - start' < MinChunkSize
      BY <1>1, <1>2, <1>3, <2>1, <3>1
    <3>3. TextLength - CoveredText < MinChunkSize
      <4>1. CASE chunks = <<>> /\ start = 0
        BY <2>10, <3>1, <4>1
      <4>2. CASE /\ chunks # <<>>
                 /\ start = z.first + ChunkSize - ChunkOverlap
                 /\ z.size = IF z.first + ChunkSize <= TextLength THEN ChunkSize
                             ELSE TextLength - z.first
        <5>1. CoveredText = z.first + z.size
          BY <2>10, <4>2
        <5>2. z.first \in Nat
          BY <2>8, <4>2
        <5>3. CASE z.first + ChunkSize <= TextLength
          BY <1>2, <1>3, <3>1, <4>2, <5>1, <5>2, <5>3
        <5>4. CASE ~(z.first + ChunkSize <= TextLength)
          BY <1>2, <1>3, <4>2, <5>1, <5>2, <5>4
        <5>5. QED
          BY <5>3, <5>4
      <4>3. QED
        BY <2>9, <4>1, <4>2
    <3>4. UNCHANGED chunks /\ CoveredText' = CoveredText
      BY <2>1, <2>13 DEF CoveredText, Last
    <3>5. \A k \in 1..Len(chunks) - 1 :
            chunks[k + 1].first = chunks[k].first + ChunkSize - ChunkOverlap
      BY DEF SlideInv
    <3>6. QED
      BY <2>1, <2>2, <3>2, <3>3, <3>4, <3>5 DEF SlideInv
  <2>14. QED
    BY <2>12, <2>13
<1>5. CASE SlidingEnds
  <2>1. /\ UNCHANGED <<strategy, doc, start, chunks>> /\ start >= TextLength
    BY <1>5 DEF SlidingEnds
  <2>2. TextLength' = TextLength /\ CoveredText' = CoveredText
    BY <2>1 DEF TextLength, CoveredText, Last
  <2>3. QED
    BY <2>1, <2>2 DEF SlideInv, Last
<1>6. CASE UNCHANGED vars
  <2>1. UNCHANGED <<strategy, doc, start, chunks, phase>>
    BY <1>6 DEF vars
  <2>2. TextLength' = TextLength /\ CoveredText' = CoveredText
    BY <2>1 DEF TextLength, CoveredText, Last
  <2>3. QED
    BY <2>1, <2>2 DEF SlideInv, Last
<1>7. CASE SectionsEnd
  BY <1>1, <1>7 DEF SectionsEnd
<1>8. ~(Skip \/ Gather \/ Close \/ PackingEnds \/ WholeSection \/ LargeSection)
  BY <1>1 DEF Skip, Gather, Close, PackingEnds, AtUnit, WholeSection, LargeSection, AtSection
<1>9. QED
  BY <1>4, <1>5, <1>6, <1>7, <1>8 DEF Next

LEMMA CoverFacts == LoopInv /\ CoverInv /\ SlideInv => TextIsCovered
<1> SUFFICES ASSUME LoopInv, CoverInv, SlideInv, phase = "done" PROVE TextIsCovered
  BY DEF TextIsCovered
<1>1. /\ chunks \in Seq(Cuts) /\ start \in Nat
      /\ doc \in Seq(Seq(Nat)) /\ sec \in Nat
  BY DEF LoopInv
<1>2. CASE strategy # "fixed"
  <2>1. DOMAIN doc = 1..Len(doc) /\ Len(doc) \in Nat /\ sec = Len(doc) + 1
    BY <1>1, <1>2 DEF LoopInv
  <2>2. \A s \in DOMAIN doc :
          AllBut(Gathered(chunks, s), Wanted(s), doc[s], Separator(strategy))
    BY <1>2, <2>1 DEF CoverInv
  <2>3. UnitsAreCovered
    BY <2>2 DEF UnitsAreCovered, AllBut, JoinedLength
  <2>4. QED
    BY <1>2, <2>3 DEF TextIsCovered
<1>3. CASE strategy = "fixed"
  <2>1. TextLength \in Nat
    BY <1>3, TextType
  <2>2. /\ ChunkSize \in Nat /\ MinChunkSize \in Nat /\ ChunkOverlap \in Nat
        /\ MinChunkSize >= 1 /\ ChunkOverlap < ChunkSize
    BY ConstantsOK
  <2> DEFINE z == Last(chunks)
  <2>3. chunks # <<>> => z.first \in Nat /\ z.size \in Nat
    <3>1. chunks # <<>> => Len(chunks) \in 1..Len(chunks)
      BY <1>1, EmptySeq
    <3>2. chunks # <<>> => z \in Cuts
      BY <1>1, <3>1 DEF Last
    <3>3. QED
      BY <3>2 DEF Cuts
  <2>4. /\ start >= TextLength
        /\ \/ IF chunks = <<>> THEN start = 0
              ELSE /\ start = z.first + ChunkSize - ChunkOverlap
                   /\ z.first < TextLength
                   /\ z.size = IF z.first + ChunkSize <= TextLength THEN ChunkSize
                               ELSE TextLength - z.first
           \/ TextLength - CoveredText < MinChunkSize
    BY <1>3 DEF SlideInv
  <2>5. CoveredText = IF chunks = <<>> THEN 0 ELSE z.first + z.size
    BY DEF CoveredText
  <2> HIDE DEF z
  <2>6. TextLength - CoveredText < MinChunkSize
    <3>1. CASE chunks = <<>> /\ start = 0
      BY <2>1, <2>2, <2>4, <2>5, <3>1
    <3>2. CASE /\ chunks # <<>>
               /\ start = z.first + ChunkSize - ChunkOverlap
               /\ z.size = IF z.first + ChunkSize <= TextLength THEN ChunkSize
                           ELSE TextLength - z.first
      <4>1. CoveredText = z.first + z.size
        BY <2>5, <3>2
      <4>2. z.first \in Nat /\ start >= TextLength
        BY <2>3, <2>4, <3>2
      <4>3. CASE z.first + ChunkSize <= TextLength
        BY <2>1, <2>2, <3>2, <4>1, <4>2, <4>3
      <4>4. CASE ~(z.first + ChunkSize <= TextLength)
        BY <2>1, <2>2, <3>2, <4>1, <4>2, <4>4
      <4>5. QED
        BY <4>3, <4>4
    <3>3. QED
      BY <2>4, <3>1, <3>2
  <2>7. \A k \in 1..Len(chunks) - 1 :
          chunks[k + 1].first = chunks[k].first + ChunkSize - ChunkOverlap
    BY <1>3 DEF SlideInv
  <2>8. WindowsCover
    BY <2>6, <2>7 DEF WindowsCover, CoveredText
  <2>9. QED
    BY <1>3, <2>8 DEF TextIsCovered
<1>4. QED
  BY <1>2, <1>3

\* What is known of the chunker, once it has a document.
ChunkInv ==
  /\ phase = "waiting" => Unread
  /\ phase # "waiting" => LoopInv /\ SortedInv /\ TightInv /\ CoverInv /\ SlideInv
  /\ stage \in {"parse", "judge", "ask", "read"} => phase = "waiting"

LEMMA ChunkInit == DocumentInit => ChunkInv
<1> SUFFICES ASSUME DocumentInit PROVE ChunkInv
  OBVIOUS
<1>1. CASE ReadingInit /\ Unread
  BY <1>1 DEF Unread, ChunkInv
<1>2. CASE NotAsked /\ Init
  <2>1. LoopInv
    BY <1>2, LoopInit
  <2>2. phase # "waiting" /\ stage = "chunk"
    BY <1>2, <2>1 DEF LoopInv, NotAsked
  <2>3. chunks = <<>> /\ current = <<>> /\ sec = 1 /\ unit = 1 /\ start = 0
        /\ phase # "done"
    BY <1>2 DEF Init, Strategies, Packing
  <2>4. SortedInv /\ TightInv
    BY <2>3, PackInit
  <2>5. doc \in Seq(Seq(Nat)) /\ (phase = "packing" => 1 \in DOMAIN doc)
    BY <2>1, <2>3 DEF LoopInv
  <2>6. CoverInv
    BY <2>3, <2>5, CoverInit DEF Untouched
  <2>7. SlideInv
    <3>1. Len(chunks) = 0
      BY <2>3
    <3>2. QED
      BY <2>3, <3>1 DEF SlideInv
  <2>8. QED
    BY <2>1, <2>2, <2>4, <2>6, <2>7 DEF ChunkInv
<1>3. QED
  BY <1>1, <1>2 DEF DocumentInit

\* The guarded text is cut by its paragraphs.
LEMMA HandsOverStep == TypeInv /\ ChunkInv /\ HandsOver => ChunkInv'
<1> SUFFICES ASSUME TypeInv, ChunkInv, HandsOver PROVE ChunkInv'
  OBVIOUS
<1>1. /\ stage = "read" /\ stage' = "chunk" /\ phase' = "packing"
      /\ doc' = <<[i \in DOMAIN Guarded |-> CharsOf[Guarded[i]]]>>
      /\ UNCHANGED <<strategy, sec, unit, current, length, start, chunks, idx>>
  BY DEF HandsOver, Guards
<1>2. Unread
  BY <1>1 DEF ChunkInv
<1>3. /\ strategy' = "paragraph" /\ sec' = 1 /\ unit' = 1 /\ current' = <<>>
      /\ length' = 0 /\ start' = 0 /\ chunks' = <<>> /\ idx' = 0
  BY <1>1, <1>2 DEF Unread
<1> DEFINE d == [i \in DOMAIN Guarded |-> CharsOf[Guarded[i]]]
<1>4. d \in Seq(Nat)
  <2>1. Guarded \in Seq(Words)
    BY GuardedType DEF TypeInv, DocumentTypeOK, ReadingTypeOK
  <2>2. DOMAIN Guarded = 1..Len(Guarded) /\ Len(Guarded) \in Nat
        /\ \A i \in 1..Len(Guarded) : Guarded[i] \in Words
    BY <2>1
  <2>3. \A w \in Words : CharsOf[w] \in Nat
    BY ReadingConstantsOK DEF Words
  <2>4. d \in [1..Len(Guarded) -> Nat]
    BY <2>2, <2>3
  <2>5. QED
    BY <2>2, <2>4
<1> HIDE DEF d
<1>5. doc' \in Seq(Seq(Nat)) /\ Len(doc') = 1 /\ doc'[1] = d /\ DOMAIN doc' = {1}
  BY <1>1, <1>4 DEF d
<1>6. Len(d) \in Nat
  BY <1>4
<1>7. LoopInv'
  <2>1. current' \in Seq(1..Len(d)) /\ chunks' \in Seq(Cuts) /\ 1 \in 1..Len(d) + 1
    BY <1>3, <1>6
  <2>2. QED
    BY <1>1, <1>3, <1>5, <2>1 DEF LoopInv, Strategies, Packing
<1>8. SortedInv' /\ TightInv'
  <2>1. (chunks = <<>> /\ current = <<>> => SortedInv /\ TightInv)'
    BY PackInit, PTL
  <2>2. QED
    BY <1>3, <2>1
<1>9. CoverInv'
  <2>1. (Untouched => CoverInv)'
    BY CoverInit, PTL
  <2>2. Untouched'
    BY <1>3, <1>5 DEF Untouched
  <2>3. QED
    BY <2>1, <2>2
<1>10. SlideInv'
  BY <1>3 DEF SlideInv
<1>11. QED
  BY <1>1, <1>7, <1>8, <1>9, <1>10 DEF ChunkInv

LEMMA ChunkStep == TypeInv /\ ChunkInv /\ [DocumentNext]_documentVars => ChunkInv'
<1> SUFFICES ASSUME TypeInv, ChunkInv, [DocumentNext]_documentVars PROVE ChunkInv'
  OBVIOUS
<1>1. CASE HandsOver
  BY <1>1, HandsOverStep
<1>2. CASE Chunks
  <2>1. stage = "chunk" /\ stage' = stage /\ Next
    BY <1>2 DEF Chunks, readingVars
  <2>2. phase # "waiting"
    BY <2>1 DEF Next, Skip, Gather, Close, PackingEnds, AtUnit, WholeSection, LargeSection,
                AtSection, SectionsEnd, Window, SlidingEnds
  <2>3. LoopInv /\ SortedInv /\ TightInv /\ CoverInv /\ SlideInv
    BY <2>2 DEF ChunkInv
  <2>4. LoopInv' /\ SortedInv' /\ TightInv' /\ CoverInv' /\ SlideInv'
    BY <2>1, <2>3, LoopStep, SortedStep, TightStep, CoverStep, SlideStep
  <2>5. phase' # "waiting"
    BY <2>4 DEF LoopInv
  <2>6. QED
    BY <2>1, <2>4, <2>5 DEF ChunkInv
<1>3. CASE ReadingSteps \/ Stores \/ StoringFails \/ CancelledWhileEmbedding
           \/ UNCHANGED documentVars
  <2>1. UNCHANGED vars
    BY <1>3 DEF ReadingSteps, Stores, StoringFails, CancelledWhileEmbedding, Chunked,
                documentVars
  <2>2. UNCHANGED <<strategy, doc, phase, sec, unit, current, length, start, chunks, idx>>
    BY <2>1 DEF vars
  <2>3. phase # "waiting" =>
          LoopInv' /\ SortedInv' /\ TightInv' /\ CoverInv' /\ SlideInv'
    BY <2>1, LoopStep, SortedStep, TightStep, CoverStep, SlideStep DEF ChunkInv
  <2>4. Unread => Unread'
    BY <2>2 DEF Unread
  <2>5. stage' \in {"parse", "judge", "ask", "read"}
          => stage \in {"parse", "judge", "ask", "read"}
    <3>1. CASE ReadingSteps
      BY <3>1 DEF ReadingSteps, Refuses, Parses, ObjectRefused, ReadingFails, FeedsPage,
        StreamEnds, JudgesText, JudgesPictures, JudgesScanned, ModelFails, FindsNothing,
        ModelIsBlind, Finds, Delivers, Replies, JobIsCancelled, Judging, Failed, Answers,
        Streaming
    <3>2. CASE Stores \/ StoringFails \/ CancelledWhileEmbedding
      BY <3>2 DEF Stores, StoringFails, CancelledWhileEmbedding, Chunked
    <3>3. CASE UNCHANGED documentVars
      BY <3>3 DEF documentVars, readingVars
    <3>4. QED
      BY <1>3, <3>1, <3>2, <3>3
  <2>6. QED
    BY <2>2, <2>3, <2>4, <2>5 DEF ChunkInv
<1>4. QED
  BY <1>1, <1>2, <1>3 DEF DocumentNext

\* No chunk is too large unless one sentence or paragraph is (under the recursive
\* strategy always a paragraph), and none is closed before the next unit would
\* have made it so.
THEOREM DocumentPacks == DocumentSpec => []PackingIsTight
<1>1. ChunkInv => PackingIsTight
  <2>1. chunks = <<>> => PackingIsTight
    <3>1. Range(<<>>) = {} /\ DOMAIN <<>> = {}
      BY DEF Range
    <3>2. QED
      BY <3>1 DEF PackingIsTight
  <2>2. QED
    BY <2>1 DEF ChunkInv, TightInv, Unread
<1>2. QED
  BY <1>1, TypeInit, TypeStep, ChunkInit, ChunkStep, PTL DEF DocumentSpec

\* When the chunker is done, the chunks have the text, each unit in order and
\* once, or each window of the fixed strategy where the last one lets it begin,
\* but for the end of a section too short for a chunk.
THEOREM DocumentCovers == DocumentSpec => []TextIsCovered
<1>1. ChunkInv => TextIsCovered
  <2>1. phase = "waiting" => TextIsCovered
    BY DEF TextIsCovered
  <2>2. QED
    BY <2>1, CoverFacts DEF ChunkInv
<1>2. QED
  BY <1>1, TypeInit, TypeStep, ChunkInit, ChunkStep, PTL DEF DocumentSpec
=============================================================================
