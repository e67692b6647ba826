------------------------- MODULE StreamIngestProofs -------------------------
(***************************************************************************)
(* Proofs about the streaming ingestion, for every object, every way it is *)
(* cut into units, every size of chunk, overlap, batch and unfinished line.*)
(***************************************************************************)
EXTENDS StreamIngest, FiniteSetTheorems, SequenceTheorems,
        WellFoundedInduction, TLAPS

(***************************************************************************)
(* Cutting sequences                                                       *)
(***************************************************************************)

\* What is between two places of a sequence.
LEMMA Part ==
  ASSUME NEW S, NEW s \in Seq(S), NEW m \in Nat, NEW n \in m..Len(s)
  PROVE  /\ SubSeq(s, m + 1, n) \in Seq(S)
         /\ Len(SubSeq(s, m + 1, n)) = n - m
         /\ \A i \in 1..n - m : SubSeq(s, m + 1, n)[i] = s[m + i]
<1>1. Len(s) \in Nat /\ n \in Nat /\ \A i \in 1..Len(s) : s[i] \in S
  OBVIOUS
<1>2. \A i \in m + 1..n : s[i] \in S
  BY <1>1
<1>3. m + 1 \in Int /\ n \in Int
  BY <1>1
<1>4. /\ SubSeq(s, m + 1, n) \in Seq(S)
      /\ Len(SubSeq(s, m + 1, n)) = IF m + 1 <= n THEN n - (m + 1) + 1 ELSE 0
      /\ \A i \in 1..n - (m + 1) + 1 : SubSeq(s, m + 1, n)[i] = s[m + 1 + i - 1]
  BY <1>2, <1>3, SubSeqProperties
<1>5. /\ (IF m + 1 <= n THEN n - (m + 1) + 1 ELSE 0) = n - m
      /\ n - (m + 1) + 1 = n - m
      /\ \A i \in 1..n - m : m + 1 + i - 1 = m + i
  BY <1>1
<1>6. QED
  BY <1>4, <1>5

\* A part of a part is a part.
LEMMA PartOfPart ==
  ASSUME NEW S, NEW s \in Seq(S), NEW a \in Nat, NEW b \in a..Len(s),
         NEW m \in Nat, NEW n \in m..b - a
  PROVE  SubSeq(SubSeq(s, a + 1, b), m + 1, n) = SubSeq(s, a + m + 1, a + n)
<1> DEFINE p == SubSeq(s, a + 1, b)
           q == SubSeq(s, a + m + 1, a + n)
<1>1. /\ Len(s) \in Nat /\ a + m \in Nat /\ a + n \in a + m..Len(s)
      /\ b \in Nat /\ n \in Nat /\ a + m + 1 = (a + m) + 1
  OBVIOUS
<1>2. p \in Seq(S) /\ Len(p) = b - a /\ \A i \in 1..b - a : p[i] = s[a + i]
  BY Part
<1>3. q \in Seq(S) /\ Len(q) = n - m /\ \A i \in 1..n - m : q[i] = s[a + m + i]
  <2>1. a + n - (a + m) = n - m
    BY <1>1
  <2>2. QED
    BY <1>1, <2>1, Part
<1> HIDE DEF p, q
<1>4. /\ SubSeq(p, m + 1, n) \in Seq(S) /\ Len(SubSeq(p, m + 1, n)) = n - m
      /\ \A i \in 1..n - m : SubSeq(p, m + 1, n)[i] = p[m + i]
  <2>1. n \in m..Len(p)
    BY <1>2
  <2>2. QED
    BY <1>2, <2>1, Part
<1>5. \A i \in 1..n - m : SubSeq(p, m + 1, n)[i] = q[i]
  <2>1. ASSUME NEW i \in 1..n - m PROVE p[m + i] = s[a + m + i]
    BY <1>1, <1>2
  <2>2. QED
    BY <1>3, <1>4, <2>1
<1>6. SubSeq(p, m + 1, n) = q
  BY <1>3, <1>4, <1>5, SeqEqual
<1>7. QED
  BY <1>6 DEF p, q

\* A part that ends within the first of two sequences.
LEMMA PartOfFirst ==
  ASSUME NEW S, NEW s \in Seq(S), NEW t \in Seq(S),
         NEW m \in Nat, NEW n \in m..Len(s)
  PROVE  SubSeq(s \o t, m + 1, n) = SubSeq(s, m + 1, n)
<1>1. /\ s \o t \in Seq(S) /\ Len(s \o t) = Len(s) + Len(t)
      /\ \A i \in 1..Len(s) + Len(t) :
           (s \o t)[i] = IF i <= Len(s) THEN s[i] ELSE t[i - Len(s)]
  BY ConcatProperties
<1>2. Len(s) \in Nat /\ Len(t) \in Nat /\ n \in m..Len(s \o t)
  BY <1>1
<1> DEFINE p == SubSeq(s \o t, m + 1, n)
           q == SubSeq(s, m + 1, n)
<1>3. p \in Seq(S) /\ Len(p) = n - m /\ \A i \in 1..n - m : p[i] = (s \o t)[m + i]
  BY <1>1, <1>2, Part
<1>4. q \in Seq(S) /\ Len(q) = n - m /\ \A i \in 1..n - m : q[i] = s[m + i]
  BY Part
<1>5. \A i \in 1..n - m : (s \o t)[m + i] = s[m + i]
  BY <1>1, <1>2
<1> HIDE DEF p, q
<1>6. p = q
  BY <1>3, <1>4, <1>5, SeqEqual
<1>7. QED
  BY <1>6 DEF p, q

\* A part that ends with the second of two sequences.
LEMMA PartOfBoth ==
  ASSUME NEW S, NEW s \in Seq(S), NEW t \in Seq(S), NEW m \in 0..Len(s)
  PROVE  SubSeq(s \o t, m + 1, Len(s \o t)) = SubSeq(s, m + 1, Len(s)) \o t
<1>1. /\ s \o t \in Seq(S) /\ Len(s \o t) = Len(s) + Len(t)
      /\ \A i \in 1..Len(s) + Len(t) :
           (s \o t)[i] = IF i <= Len(s) THEN s[i] ELSE t[i - Len(s)]
  BY ConcatProperties
<1>2. /\ Len(s) \in Nat /\ Len(t) \in Nat /\ m \in Nat
      /\ Len(s) \in m..Len(s) /\ Len(s) + Len(t) \in m..Len(s) + Len(t)
  OBVIOUS
<1> DEFINE p == SubSeq(s \o t, m + 1, Len(s) + Len(t))
           q == SubSeq(s, m + 1, Len(s))
<1>3. /\ p \in Seq(S) /\ Len(p) = Len(s) + Len(t) - m
      /\ \A i \in 1..Len(s) + Len(t) - m : p[i] = (s \o t)[m + i]
  BY <1>1, <1>2, Part
<1>4. /\ q \in Seq(S) /\ Len(q) = Len(s) - m
      /\ \A i \in 1..Len(s) - m : q[i] = s[m + i]
  BY <1>2, Part
<1> HIDE DEF p, q
<1>5. /\ q \o t \in Seq(S) /\ Len(q \o t) = Len(q) + Len(t)
      /\ \A i \in 1..Len(q) + Len(t) :
           (q \o t)[i] = IF i <= Len(q) THEN q[i] ELSE t[i - Len(q)]
  BY <1>4, ConcatProperties
<1>6. ASSUME NEW i \in 1..Len(p) PROVE p[i] = (q \o t)[i]
  <2>1. p[i] = IF m + i <= Len(s) THEN s[m + i] ELSE t[m + i - Len(s)]
    <3>1. i \in 1..Len(s) + Len(t) - m /\ m + i \in 1..Len(s) + Len(t)
      BY <1>2, <1>3
    <3>2. p[i] = (s \o t)[m + i]
      BY <1>3, <3>1
    <3>3. QED
      BY <1>1, <3>1, <3>2
  <2>2. (q \o t)[i] = IF i <= Len(s) - m THEN q[i] ELSE t[i - (Len(s) - m)]
    BY <1>2, <1>3, <1>4, <1>5
  <2>3. m + i - Len(s) = i - (Len(s) - m) /\ (m + i <= Len(s) <=> i <= Len(s) - m)
    BY <1>2, <1>3
  <2>4. QED
    BY <1>2, <1>3, <1>4, <2>1, <2>2, <2>3
<1>7. Len(p) = Len(q \o t)
  BY <1>2, <1>3, <1>4, <1>5
<1>8. p = q \o t
  BY <1>3, <1>5, <1>6, <1>7, SeqEqual
<1>9. QED
  BY <1>1, <1>8 DEF p, q

(***************************************************************************)
(* The rolling chunker                                                     *)
(***************************************************************************)

LEMMA StepType == ASSUME overlap \in Nat PROVE Step \in 1..ChunkSize
BY ConstantsOK DEF Step, Overlap

LEMMA Division ==
  ASSUME NEW a \in Nat, NEW s \in Nat \ {0}
  PROVE  /\ a \div s \in Nat
         /\ (a \div s) * s <= a
         /\ a < (a \div s) * s + s
OBVIOUS

\* The full chunks of a buffer leave less than one, and end within it.
LEMMA Chunks ==
  ASSUME overlap \in Nat, NEW S, NEW b \in Seq(S)
  PROVE  /\ FullChunks(b) \in Nat
         /\ FullChunks(b) * Step \in 0..Len(b)
         /\ Len(b) - FullChunks(b) * Step < ChunkSize
         /\ FullChunks(b) = 0 \/ FullChunks(b) <= Len(b) - ChunkSize + 1
         /\ \A k \in 0..FullChunks(b) - 1 : k * Step + ChunkSize <= Len(b)
<1>1. Step \in Nat \ {0} /\ Step <= ChunkSize /\ ChunkSize \in Nat \ {0}
  BY StepType, ConstantsOK
<1>2. Len(b) \in Nat
  OBVIOUS
<1>3. CASE Len(b) < ChunkSize
  BY <1>1, <1>2, <1>3 DEF FullChunks
<1>4. CASE Len(b) >= ChunkSize
  <2> DEFINE n == Len(b) - ChunkSize
             d == n \div Step
  <2>1. n \in Nat
    BY <1>1, <1>2, <1>4
  <2>2. d \in Nat /\ d * Step <= n /\ n < d * Step + Step
    BY <1>1, <2>1, Division
  <2>3. FullChunks(b) = d + 1
    BY <1>1, <1>2, <1>4 DEF FullChunks
  <2> HIDE DEF d
  <2>4. (d + 1) * Step = d * Step + Step
    BY <1>1, <2>2
  <2>5. d <= d * Step
    BY <1>1, <2>2
  <2>6. \A k \in 0..d : k * Step <= d * Step
    BY <1>1, <2>2
  <2>7. d * Step \in Nat
    BY <1>1, <2>2
  <2>8. /\ d + 1 \in Nat
        /\ d * Step + Step \in 0..Len(b)
        /\ Len(b) - (d * Step + Step) < ChunkSize
        /\ d + 1 <= Len(b) - ChunkSize + 1
    BY <1>1, <1>2, <2>1, <2>2, <2>5, <2>7
  <2>9. \A k \in 0..d : k * Step + ChunkSize <= Len(b)
    <3>1. ASSUME NEW k \in 0..d PROVE k * Step + ChunkSize <= Len(b)
      <4>1. k * Step \in Nat /\ k * Step <= d * Step
        BY <1>1, <2>2, <2>6
      <4>2. QED
        BY <1>1, <1>2, <2>2, <2>7, <4>1
    <3>2. QED
      BY <3>1
  <2>10. QED
    BY <2>2, <2>3, <2>4, <2>8, <2>9
<1>5. QED
  BY <1>1, <1>2, <1>3, <1>4

(***************************************************************************)
(* Positions                                                               *)
(***************************************************************************)

Below == {ss \in Nat \X Nat : ss[1] < ss[2]}

LEMMA BelowWF == IsWellFoundedOn(Below, Nat)
BY NatLessThanWellFounded DEF OpToRel, Below

\* Numbers have a least one.
LEMMA NatMin ==
  ASSUME NEW T \in SUBSET Nat, T # {}
  PROVE  \E x \in T : \A y \in T : x <= y
<1>1. \E x \in T : \A y \in T : ~(<<y, x>> \in Below)
  BY BelowWF, WFMin
<1>2. ASSUME NEW x \in Nat, NEW y \in Nat, y < x PROVE <<y, x>> \in Below
  <2>1. <<y, x>> \in Nat \X Nat /\ <<y, x>>[1] < <<y, x>>[2]
    BY <1>2
  <2>2. QED
    BY <2>1 DEF Below
<1>3. PICK x \in T : \A y \in T : ~(<<y, x>> \in Below)
  BY <1>1
<1>4. ASSUME NEW y \in T PROVE x <= y
  <2>1. x \in Nat /\ y \in Nat /\ ~(y < x)
    BY <1>2, <1>3
  <2>2. QED
    BY <2>1
<1>5. QED
  BY <1>4

\* Counting the positions up to a place.
LEMMA UpToFacts ==
  ASSUME NEW L \in Nat, NEW kept \in SUBSET (1..L)
  PROVE  /\ IsFiniteSet(kept) /\ Cardinality(kept) \in 0..L
         /\ \A i \in Nat : UpTo(kept, i) \in Nat
         /\ UpTo(kept, 0) = 0
         /\ \A i \in Nat : L <= i => UpTo(kept, i) = Cardinality(kept)
         /\ \A i \in Nat \ {0} : UpTo(kept, i) = UpTo(kept, i - 1)
                                + (IF i \in kept THEN 1 ELSE 0)
<1>1. IsFiniteSet(1..L) /\ Cardinality(1..L) = L
  BY FS_Interval
<1>0. \A m \in kept : m \in Int /\ 1 <= m /\ m <= L
  OBVIOUS
<1>2. IsFiniteSet(kept) /\ Cardinality(kept) <= L /\ Cardinality(kept) \in Nat
  BY <1>1, FS_Subset, FS_CardinalityType
<1>3. ASSUME NEW i \in Nat
      PROVE  IsFiniteSet({m \in kept : m <= i}) /\ UpTo(kept, i) \in Nat
  <2>1. {m \in kept : m <= i} \in SUBSET kept
    OBVIOUS
  <2>2. QED
    BY <1>2, <2>1, FS_Subset, FS_CardinalityType DEF UpTo
<1>4. UpTo(kept, 0) = 0
  <2>1. \A m \in kept : ~(m <= 0)
    BY <1>0
  <2>2. {m \in kept : m <= 0} = {}
    BY <2>1
  <2>3. QED
    BY <2>2, FS_EmptySet DEF UpTo
<1>5. ASSUME NEW i \in Nat, L <= i PROVE UpTo(kept, i) = Cardinality(kept)
  <2>1. \A m \in kept : m <= i
    BY <1>0, <1>5
  <2>2. {m \in kept : m <= i} = kept
    BY <2>1
  <2>3. QED
    BY <2>2 DEF UpTo
<1>6. ASSUME NEW i \in Nat \ {0}
      PROVE  UpTo(kept, i) = UpTo(kept, i - 1) + (IF i \in kept THEN 1 ELSE 0)
  <2> DEFINE S == {m \in kept : m <= i - 1}
             T == {m \in kept : m <= i}
  <2>0. i - 1 \in Nat /\ UpTo(kept, i - 1) = Cardinality(S) /\ UpTo(kept, i) = Cardinality(T)
    BY DEF UpTo
  <2>1. IsFiniteSet(S) /\ i \notin S /\ Cardinality(S) \in Nat
    <3>1. IsFiniteSet(S)
      BY <1>3, <2>0
    <3>2. Cardinality(S) \in Nat
      BY <1>3, <2>0
    <3>3. QED
      BY <1>0, <3>1, <3>2
  <2>2. CASE i \in kept
    <3>0. \A m \in kept : m <= i <=> m <= i - 1 \/ m = i
      BY <1>0
    <3>1. T = S \cup {i}
      BY <2>2, <3>0
    <3>2. Cardinality(S \cup {i}) = Cardinality(S) + 1
      BY <2>1, FS_AddElement
    <3> HIDE DEF S, T
    <3>3. QED
      BY <2>0, <2>2, <3>1, <3>2
  <2>3. CASE i \notin kept
    <3>0. \A m \in kept : m <= i <=> m <= i - 1
      BY <1>0, <2>3
    <3>1. T = S
      BY <3>0
    <3> HIDE DEF S, T
    <3>2. QED
      BY <2>0, <2>1, <2>3, <3>1
  <2>4. QED
    BY <2>2, <2>3
<1>7. Cardinality(kept) \in 0..L
  BY <1>2
<1>8. QED
  BY <1>2, <1>3, <1>4, <1>5, <1>6, <1>7

\* The n-th position exists: it is the first one up to which there are n.
LEMMA NthFacts ==
  ASSUME NEW L \in Nat, NEW kept \in SUBSET (1..L), NEW n \in 1..Cardinality(kept)
  PROVE  Nth(kept, n) \in kept /\ UpTo(kept, Nth(kept, n)) = n
<1> DEFINE T == {i \in Nat : n <= UpTo(kept, i)}
<1>1. Cardinality(kept) \in Nat /\ n \in Nat /\ n >= 1 /\ n <= Cardinality(kept)
  BY UpToFacts
<1>2. /\ UpTo(kept, 0) = 0 /\ UpTo(kept, L) = Cardinality(kept)
      /\ \A i \in Nat : UpTo(kept, i) \in Nat
      /\ \A i \in Nat \ {0} : UpTo(kept, i) = UpTo(kept, i - 1)
                             + (IF i \in kept THEN 1 ELSE 0)
  BY UpToFacts
<1>3. PICK x \in T : \A y \in T : x <= y
  <2>1. L \in T
    BY <1>1, <1>2
  <2>2. QED
    BY <2>1, NatMin
<1>4. x # 0
  BY <1>1, <1>2
<1>5. x - 1 \in Nat /\ x - 1 \notin T
  BY <1>3, <1>4
<1>6. /\ UpTo(kept, x - 1) \in Nat /\ UpTo(kept, x - 1) < n /\ n <= UpTo(kept, x)
      /\ UpTo(kept, x) = UpTo(kept, x - 1) + (IF x \in kept THEN 1 ELSE 0)
  BY <1>1, <1>2, <1>4, <1>5
<1>7. x \in kept /\ UpTo(kept, x) = n
  BY <1>1, <1>6
<1>8. QED
  BY <1>7 DEF Nth

\* And there is only one.
LEMMA NthOnly ==
  ASSUME NEW L \in Nat, NEW kept \in SUBSET (1..L), NEW i \in kept,
         UpTo(kept, i) \in 1..Cardinality(kept)
  PROVE  Nth(kept, UpTo(kept, i)) = i
<1>1. IsFiniteSet(kept) /\ \A m \in kept : m \in Int
  <2>1. \A m \in kept : m \in Int
    OBVIOUS
  <2>2. QED
    BY <2>1, UpToFacts
<1>2. ASSUME NEW a \in kept, NEW b \in kept, a < b
      PROVE  UpTo(kept, a) # UpTo(kept, b)
  <2> DEFINE S == {m \in kept : m <= a}
             T == {m \in kept : m <= b}
  <2>0. b <= b /\ ~(b <= a) /\ \A m \in kept : m <= a => m <= b
    BY <1>1, <1>2
  <2>1. S \in SUBSET T /\ b \in T /\ b \notin S
    BY <2>0
  <2>2. IsFiniteSet(T)
    BY <1>1, FS_Subset
  <2>3. Cardinality(S) # Cardinality(T)
    BY <2>1, <2>2, FS_Subset
  <2>4. QED
    BY <2>3 DEF UpTo
<1> DEFINE j == Nth(kept, UpTo(kept, i))
<1>3. j \in kept /\ UpTo(kept, j) = UpTo(kept, i)
  BY NthFacts
<1> HIDE DEF j
<1>4. ~(i < j) /\ ~(j < i)
  BY <1>2, <1>3
<1>5. i = j
  BY <1>3, <1>4
<1>6. QED
  BY <1>5 DEF j

\* Picking shortens and adds nothing.
LEMMA PickFacts ==
  ASSUME NEW S, NEW t \in Seq(S), NEW kept \in SUBSET (DOMAIN t)
  PROVE  /\ Pick(t, kept) \in Seq(S)
         /\ Len(Pick(t, kept)) = Cardinality(kept)
         /\ Cardinality(kept) \in 0..Len(t)
         /\ \A n \in 1..Cardinality(kept) : Pick(t, kept)[n] = t[Nth(kept, n)]
<1>1. Len(t) \in Nat /\ DOMAIN t = 1..Len(t) /\ \A i \in 1..Len(t) : t[i] \in S
  OBVIOUS
<1>2. kept \in SUBSET (1..Len(t))
  BY <1>1
<1>3. Cardinality(kept) \in 0..Len(t)
  BY <1>1, <1>2, UpToFacts
<1>4. \A n \in 1..Cardinality(kept) : t[Nth(kept, n)] \in S
  BY <1>1, <1>2, NthFacts
<1>5. Pick(t, kept) \in [1..Cardinality(kept) -> S]
  BY <1>4 DEF Pick
<1>6. Pick(t, kept) \in Seq(S) /\ Len(Pick(t, kept)) = Cardinality(kept)
  BY <1>3, <1>5
<1>7. \A n \in 1..Cardinality(kept) : Pick(t, kept)[n] = t[Nth(kept, n)]
  BY DEF Pick
<1>8. QED
  BY <1>3, <1>6, <1>7

\* Positions moved along are as many.
LEMMA Shifted ==
  ASSUME NEW c \in Nat, NEW B \in SUBSET Nat, IsFiniteSet(B)
  PROVE  LET T == {c + m : m \in B}
         IN  IsFiniteSet(T) /\ Cardinality(T) = Cardinality(B)
<1> DEFINE T == {c + m : m \in B}
           Move == [m \in B |-> c + m]
<1>1. Move \in [B -> T]
  OBVIOUS
<1>2. \A x, y \in B : Move[x] = Move[y] => x = y
  OBVIOUS
<1>3. \A z \in T : \E m \in B : Move[m] = z
  OBVIOUS
<1> HIDE DEF Move
<1>4. Move \in Bijection(B, T)
  BY <1>1, <1>2, <1>3 DEF Bijection, Injection, Surjection, IsInjective
<1>5. ExistsBijection(B, T)
  BY <1>4 DEF ExistsBijection
<1>6. QED
  BY <1>5, FS_Bijection

\* The positions k of a \o b are ka in a and kb in b.
Joined(a, b, ka, kb, k) ==
  /\ ka \in SUBSET (1..Len(a)) /\ kb \in SUBSET (1..Len(b))
  /\ k \in SUBSET (1..Len(a \o b))
  /\ \A i \in 1..Len(a) : i \in k <=> i \in ka
  /\ \A i \in 1..Len(b) : Len(a) + i \in k <=> i \in kb

\* Picking from two sequences, one after the other.
LEMMA PickConcat ==
  ASSUME NEW S, NEW a \in Seq(S), NEW b \in Seq(S), NEW ka, NEW kb, NEW k,
         Joined(a, b, ka, kb, k)
  PROVE  Pick(a \o b, k) = Pick(a, ka) \o Pick(b, kb)
<1> USE DEF Joined
<1>1. /\ a \o b \in Seq(S) /\ Len(a \o b) = Len(a) + Len(b)
      /\ \A i \in 1..Len(a) + Len(b) :
           (a \o b)[i] = IF i <= Len(a) THEN a[i] ELSE b[i - Len(a)]
      /\ Len(a) \in Nat /\ Len(b) \in Nat
  BY ConcatProperties
<1>2. /\ DOMAIN a = 1..Len(a) /\ DOMAIN b = 1..Len(b)
      /\ DOMAIN (a \o b) = 1..Len(a) + Len(b)
  BY <1>1
<1>3. /\ \A m \in ka : m \in Int /\ 1 <= m /\ m <= Len(a)
      /\ \A m \in kb : m \in Int /\ 1 <= m /\ m <= Len(b)
      /\ \A m \in k : m \in Int /\ 1 <= m /\ m <= Len(a) + Len(b)
  BY <1>1
<1>4. /\ IsFiniteSet(ka) /\ IsFiniteSet(kb) /\ IsFiniteSet(k)
      /\ Cardinality(ka) \in Nat /\ Cardinality(kb) \in Nat /\ Cardinality(k) \in Nat
  <2>1. k \in SUBSET (1..Len(a) + Len(b)) /\ Len(a) + Len(b) \in Nat
    BY <1>1
  <2>2. QED
    BY <1>1, <2>1, UpToFacts
<1>5. ASSUME NEW i \in ka PROVE i \in k /\ UpTo(k, i) = UpTo(ka, i)
  <2>1. \A m \in k : m <= i => m \in ka
    BY <1>1, <1>3
  <2>2. \A m \in ka : m \in k
    BY <1>3
  <2>3. {m \in k : m <= i} = {m \in ka : m <= i}
    BY <2>1, <2>2
  <2>4. QED
    BY <2>2, <2>3 DEF UpTo
<1>6. ASSUME NEW i \in 0..Len(b)
      PROVE  UpTo(k, Len(a) + i) = Cardinality(ka) + UpTo(kb, i)
  <2> DEFINE B == {m \in kb : m <= i}
             T == {Len(a) + m : m \in B}
             K == {m \in k : m <= Len(a) + i}
  <2>1. IsFiniteSet(B) /\ B \in SUBSET Nat
    <3>1. B \in SUBSET kb
      OBVIOUS
    <3>2. IsFiniteSet(B)
      BY <1>4, <3>1, FS_Subset
    <3>3. \A m \in kb : m \in Nat
      BY <1>3
    <3>4. QED
      BY <3>2, <3>3
  <2>2. IsFiniteSet(T) /\ Cardinality(T) = Cardinality(B)
    BY <1>1, <2>1, Shifted
  <2>3. ka \cap T = {}
    <3>1. \A m \in B : Len(a) + m \notin ka
      BY <1>1, <1>3
    <3>2. QED
      BY <3>1
  <2>4. K = ka \cup T
    <3>1. ASSUME NEW m \in K PROVE m \in ka \cup T
      <4>1. m \in k /\ m \in Int /\ 1 <= m /\ m <= Len(a) + Len(b) /\ m <= Len(a) + i
        BY <1>3
      <4>2. CASE m <= Len(a)
        BY <1>1, <4>1, <4>2
      <4>3. CASE ~(m <= Len(a))
        <5>1. m - Len(a) \in 1..Len(b) /\ Len(a) + (m - Len(a)) = m /\ m - Len(a) <= i
          BY <1>1, <4>1, <4>3
        <5>2. m - Len(a) \in kb
          BY <4>1, <5>1
        <5>3. QED
          BY <5>1, <5>2
      <4>4. QED
        BY <4>2, <4>3
    <3>2. ASSUME NEW m \in ka PROVE m \in K
      BY <1>1, <1>3, <1>5
    <3>3. ASSUME NEW m \in B PROVE Len(a) + m \in K
      BY <1>1, <1>3
    <3>4. QED
      BY <3>1, <3>2, <3>3
  <2>5. Cardinality(ka \cap T) = 0
    BY <2>3, FS_EmptySet
  <2>6. Cardinality(B) \in Nat
    BY <2>1, FS_CardinalityType
  <2>7. UpTo(k, Len(a) + i) = Cardinality(K) /\ UpTo(kb, i) = Cardinality(B)
    BY DEF UpTo
  <2> HIDE DEF B, T, K
  <2>8. Cardinality(ka \cup T) = Cardinality(ka) + Cardinality(T) - Cardinality(ka \cap T)
    BY <1>4, <2>2, FS_Union
  <2>9. QED
    BY <1>4, <2>2, <2>4, <2>5, <2>6, <2>7, <2>8
<1>7. Cardinality(k) = Cardinality(ka) + Cardinality(kb)
  <2>1. UpTo(k, Len(a) + Len(b)) = Cardinality(ka) + UpTo(kb, Len(b))
    BY <1>1, <1>6
  <2>2. UpTo(kb, Len(b)) = Cardinality(kb)
    BY <1>1, UpToFacts
  <2>3. UpTo(k, Len(a) + Len(b)) = Cardinality(k)
    <3>1. k \in SUBSET (1..Len(a) + Len(b)) /\ Len(a) + Len(b) \in Nat
      BY <1>1
    <3>2. QED
      BY <3>1, UpToFacts
  <2>4. QED
    BY <2>1, <2>2, <2>3
<1> DEFINE p == Pick(a, ka)
           q == Pick(b, kb)
           r == Pick(a \o b, k)
<1>8. /\ p \in Seq(S) /\ Len(p) = Cardinality(ka)
      /\ \A n \in 1..Cardinality(ka) : p[n] = a[Nth(ka, n)]
  <2>1. ka \in SUBSET (DOMAIN a)
    BY <1>2
  <2> HIDE DEF Joined
  <2>2. QED
    BY <2>1, PickFacts
<1>9. /\ q \in Seq(S) /\ Len(q) = Cardinality(kb)
      /\ \A n \in 1..Cardinality(kb) : q[n] = b[Nth(kb, n)]
  <2>1. kb \in SUBSET (DOMAIN b)
    BY <1>2
  <2> HIDE DEF Joined
  <2>2. QED
    BY <2>1, PickFacts
<1>10. /\ r \in Seq(S) /\ Len(r) = Cardinality(k)
       /\ \A n \in 1..Cardinality(k) : r[n] = (a \o b)[Nth(k, n)]
  <2> DEFINE t == a \o b
  <2>1. t \in Seq(S) /\ k \in SUBSET (DOMAIN t)
    BY <1>1, <1>2
  <2> HIDE DEF Joined, t
  <2>2. /\ Pick(t, k) \in Seq(S) /\ Len(Pick(t, k)) = Cardinality(k)
        /\ \A n \in 1..Cardinality(k) : Pick(t, k)[n] = t[Nth(k, n)]
    BY <2>1, PickFacts
  <2>3. QED
    BY <2>2 DEF t
<1> HIDE DEF p, q, r
<1>11. /\ p \o q \in Seq(S) /\ Len(p \o q) = Cardinality(ka) + Cardinality(kb)
       /\ \A n \in 1..Cardinality(ka) + Cardinality(kb) :
            (p \o q)[n] = IF n <= Cardinality(ka) THEN p[n] ELSE q[n - Cardinality(ka)]
  <2>1. /\ p \o q \in Seq(S) /\ Len(p \o q) = Len(p) + Len(q)
        /\ \A n \in 1..Len(p) + Len(q) :
             (p \o q)[n] = IF n <= Len(p) THEN p[n] ELSE q[n - Len(p)]
    BY <1>8, <1>9, ConcatProperties
  <2>2. QED
    BY <1>8, <1>9, <2>1
<1>12. ASSUME NEW n \in 1..Cardinality(k) PROVE r[n] = (p \o q)[n]
  <2>1. k \in SUBSET (1..Len(a) + Len(b)) /\ Len(a) + Len(b) \in Nat
    BY <1>1
  <2>2. ASSUME NEW i \in k, UpTo(k, i) = n PROVE Nth(k, n) = i
    <3>1. UpTo(k, i) \in 1..Cardinality(k)
      BY <2>2
    <3>2. Nth(k, UpTo(k, i)) = i
      BY <2>1, <3>1, NthOnly
    <3>3. QED
      BY <2>2, <3>2
  <2>3. CASE n <= Cardinality(ka)
    <3>1. n \in 1..Cardinality(ka)
      BY <1>4, <2>3
    <3> DEFINE i == Nth(ka, n)
    <3>2. i \in ka /\ UpTo(ka, i) = n
      BY <1>1, <3>1, NthFacts
    <3> HIDE DEF i
    <3>3. Nth(k, n) = i
      BY <1>5, <2>2, <3>2
    <3>4. (a \o b)[i] = a[i]
      BY <1>1, <1>3, <3>2
    <3>5. p[n] = a[i]
      BY <1>8, <3>1 DEF i
    <3>6. (p \o q)[n] = p[n]
      BY <1>4, <1>7, <1>11, <2>3
    <3>7. QED
      BY <1>10, <3>3, <3>4, <3>5, <3>6
  <2>4. CASE ~(n <= Cardinality(ka))
    <3> DEFINE d == n - Cardinality(ka)
               i == Nth(kb, d)
    <3>1. d \in 1..Cardinality(kb)
      BY <1>4, <1>7, <2>4
    <3>2. i \in kb /\ UpTo(kb, i) = d
      BY <1>1, <3>1, NthFacts
    <3>3. q[d] = b[i]
      BY <1>9, <3>1
    <3>4. n = Cardinality(ka) + d
      BY <1>4
    <3> HIDE DEF d, i
    <3>5. i \in 1..Len(b) /\ i \in 0..Len(b)
      BY <1>1, <1>3, <3>2
    <3>6. Len(a) + i \in k /\ UpTo(k, Len(a) + i) = n
      BY <1>6, <3>2, <3>4, <3>5
    <3>7. Nth(k, n) = Len(a) + i
      BY <2>2, <3>6
    <3>8. (a \o b)[Len(a) + i] = b[i]
      <4> DEFINE e == Len(a) + i
      <4>1. e \in 1..Len(a) + Len(b) /\ ~(e <= Len(a)) /\ e - Len(a) = i
        BY <1>1, <3>5
      <4> HIDE DEF e
      <4>2. (a \o b)[e] = b[e - Len(a)]
        BY <1>1, <4>1
      <4>3. (a \o b)[e] = b[i]
        BY <4>1, <4>2
      <4>4. QED
        BY <4>3 DEF e
    <3>9. (p \o q)[n] = q[d]
      <4>1. n - Cardinality(ka) = d /\ n \in 1..Cardinality(ka) + Cardinality(kb)
        BY <1>4, <1>7, <3>1, <3>4
      <4>2. QED
        BY <1>11, <2>4, <4>1
    <3>10. QED
      BY <1>10, <3>3, <3>7, <3>8, <3>9
  <2>5. QED
    BY <2>3, <2>4
<1>13. r = p \o q
  BY <1>7, <1>10, <1>11, <1>12, SeqEqual
<1>14. QED
  BY <1>13 DEF p, q, r

(***************************************************************************)
(* Filter and cleaner                                                      *)
(***************************************************************************)

\* Guardrails and cleaner only leave characters out.
LEMMA GuardFacts ==
  ASSUME NEW S, NEW t \in Seq(S)
  PROVE  Guard(t) \in Seq(S) /\ Len(Guard(t)) \in 0..Len(t)
<1>1. Passing(t) \in SUBSET (DOMAIN t)
  BY DEF Passing
<1>2. QED
  BY <1>1, PickFacts DEF Guard

LEMMA CleanFacts ==
  ASSUME NEW S, NEW t \in Seq(S)
  PROVE  Clean(t) \in Seq(S) /\ Len(Clean(t)) \in 0..Len(t)
<1>1. ASSUME NEW s \in Seq(S) PROVE Collapse(s) \in Seq(S) /\ Len(Collapse(s)) \in 0..Len(s)
  <2> DEFINE kept == {i \in DOMAIN s :
               ~ \/ s[i] = " " /\ i > 1 /\ s[i - 1] = " "
                 \/ s[i] = "nl" /\ i > 2 /\ s[i - 1] = "nl" /\ s[i - 2] = "nl"}
  <2>1. kept \in SUBSET (DOMAIN s)
    OBVIOUS
  <2>2. Collapse(s) = Pick(s, kept)
    BY DEF Collapse
  <2> HIDE DEF kept
  <2>3. QED
    BY <2>1, <2>2, PickFacts
<1>2. ASSUME NEW s \in Seq(S) PROVE Strip(s) \in Seq(S) /\ Len(Strip(s)) \in 0..Len(s)
  <2> DEFINE kept == {i \in DOMAIN s : /\ \E m \in 1..i : s[m] \notin White
                                      /\ \E m \in i..Len(s) : s[m] \notin White}
  <2>1. kept \in SUBSET (DOMAIN s)
    OBVIOUS
  <2>2. Strip(s) = Pick(s, kept)
    BY DEF Strip
  <2> HIDE DEF kept
  <2>3. QED
    BY <2>1, <2>2, PickFacts
<1> DEFINE u == Collapse(t)
<1>3. u \in Seq(S) /\ Len(u) \in 0..Len(t)
  BY <1>1
<1> HIDE DEF u
<1>4. Strip(u) \in Seq(S) /\ Len(Strip(u)) \in 0..Len(u)
  BY <1>2, <1>3
<1>5. Clean(t) = Strip(u)
  BY DEF Clean, u
<1>6. QED
  BY <1>3, <1>4, <1>5

\* The end of the last complete line: the first place after which no line ends.
LEMMA LineEnd ==
  ASSUME NEW S, NEW t \in Seq(S)
  PROVE  /\ LastLineEnd(t) \in 0..Len(t)
         /\ LastLineEnd(t) = 0 \/ t[LastLineEnd(t)] = "nl"
         /\ \A m \in LastLineEnd(t) + 1..Len(t) : t[m] # "nl"
<1> DEFINE T == {n \in 0..Len(t) : \A m \in n + 1..Len(t) : t[m] # "nl"}
           Is(n) == /\ n = 0 \/ t[n] = "nl"
                    /\ \A m \in n + 1..Len(t) : t[m] # "nl"
<1>1. Len(t) \in Nat
  OBVIOUS
<1>2. Len(t) \in T /\ T \in SUBSET Nat
  BY <1>1
<1>3. PICK x \in T : \A y \in T : x <= y
  BY <1>2, NatMin
<1>4. x \in 0..Len(t) /\ \A m \in x + 1..Len(t) : t[m] # "nl"
  OBVIOUS
<1>5. x = 0 \/ t[x] = "nl"
  <2>1. SUFFICES ASSUME x # 0 PROVE t[x] = "nl"
    OBVIOUS
  <2>2. x - 1 \notin T /\ x - 1 \in 0..Len(t)
    <3>1. x - 1 \in 0..Len(t) /\ ~(x <= x - 1)
      BY <1>1, <1>4, <2>1
    <3>2. QED
      BY <1>3, <3>1
  <2>3. PICK m \in x - 1 + 1..Len(t) : t[m] = "nl"
    BY <2>2
  <2>4. m = x \/ m \in x + 1..Len(t)
    BY <1>1, <1>4
  <2>5. QED
    BY <1>4, <2>3, <2>4
<1>6. \E n \in 0..Len(t) : Is(n)
  BY <1>4, <1>5
<1>7. LastLineEnd(t) = CHOOSE n \in 0..Len(t) : Is(n)
  BY DEF LastLineEnd
<1> DEFINE e == CHOOSE n \in 0..Len(t) : Is(n)
<1>8. e \in 0..Len(t) /\ Is(e)
  BY <1>6
<1>9. QED
  BY <1>7, <1>8

\* What the filter lets through and what it keeps.
LEMMA FilterFacts ==
  ASSUME NEW S, NEW t \in Seq(S)
  PROVE  /\ Filter(t).text \in Seq(S) /\ Len(Filter(t).text) \in 0..Len(t)
         /\ Filter(t).partial \in Seq(S) /\ Len(Filter(t).partial) \in 0..MaxPartial
<1> DEFINE end == LastLineEnd(t)
           whole == SubSeq(t, 1, end)
           rest == SubSeq(t, end + 1, Len(t))
<1>1. MaxPartial \in Nat /\ Len(t) \in Nat /\ end \in 0..Len(t)
  BY ConstantsOK, LineEnd
<1> HIDE DEF end
<1>2. whole \in Seq(S) /\ Len(whole) = end
  <2>1. SubSeq(t, 0 + 1, end) \in Seq(S) /\ Len(SubSeq(t, 0 + 1, end)) = end - 0
    BY <1>1, Part
  <2>2. 0 + 1 = 1 /\ end - 0 = end
    BY <1>1
  <2>3. QED
    BY <2>1, <2>2
<1>3. rest \in Seq(S) /\ Len(rest) = Len(t) - end
  BY <1>1, Part
<1>4. Filter(t) = IF ~guarded THEN [text |-> t, partial |-> <<>>]
                  ELSE IF Len(rest) > MaxPartial
                  THEN [text |-> Guard(whole) \o Guard(rest), partial |-> <<>>]
                  ELSE [text |-> Guard(whole), partial |-> rest]
  BY DEF Filter, end
<1> HIDE DEF whole, rest
<1>5. /\ Guard(whole) \in Seq(S) /\ Len(Guard(whole)) \in 0..end
      /\ Guard(rest) \in Seq(S) /\ Len(Guard(rest)) \in 0..Len(rest)
  BY <1>2, <1>3, GuardFacts
<1>6. /\ Guard(whole) \o Guard(rest) \in Seq(S)
      /\ Len(Guard(whole) \o Guard(rest)) = Len(Guard(whole)) + Len(Guard(rest))
  BY <1>5, ConcatProperties
<1>7. <<>> \in Seq(S) /\ Len(<<>>) = 0
  OBVIOUS
<1>8. CASE ~guarded
  BY <1>1, <1>4, <1>7, <1>8
<1>9. CASE guarded /\ Len(rest) > MaxPartial
  BY <1>1, <1>3, <1>4, <1>5, <1>6, <1>7, <1>9
<1>10. CASE guarded /\ ~(Len(rest) > MaxPartial)
  BY <1>1, <1>3, <1>4, <1>5, <1>10
<1>11. QED
  BY <1>8, <1>9, <1>10

(***************************************************************************)
(* What is held                                                            *)
(***************************************************************************)

Contents == {c \in Seq(Characters) : Len(c) \in {ChunkSize} \cup MinChunkSize..ChunkSize}
ChunkRows == [index : Nat, content : Contents]

\* The types of what a unit goes through.
StreamType ==
  /\ text \in Seq(Characters)
  /\ overlap \in Nat
  /\ pos \in 0..Len(text)
  /\ phase \in {"reading", "finalizing"} \cup Ended
  /\ partial \in Seq(Characters)
  /\ filtered \in Seq(Characters)
  /\ cleaned \in Seq(Characters)
  /\ buf \in Seq(Characters)
  /\ idx \in Nat
  /\ total \in Nat
  /\ out \in Seq(ChunkRows)
  /\ batch \in Seq(ChunkRows)

HeldInv == StreamType /\ MemoryIsBounded

LEMMA YieldFacts ==
  ASSUME overlap \in Nat, NEW b \in Seq(Characters), NEW first \in Nat
  PROVE  /\ Yield(b, first) \in Seq(ChunkRows)
         /\ Len(Yield(b, first)) = FullChunks(b)
         /\ \A n \in 1..FullChunks(b) :
              Yield(b, first)[n] = [index |-> first + n - 1, content |-> ChunkAt(b, n - 1)]
         /\ Rest(b) \in Seq(Characters)
         /\ Len(Rest(b)) = Len(b) - FullChunks(b) * Step
         /\ Len(Rest(b)) < ChunkSize
<1> DEFINE F == FullChunks(b)
<1>1. /\ F \in Nat /\ F * Step \in 0..Len(b) /\ Len(b) - F * Step < ChunkSize
      /\ \A k \in 0..F - 1 : k * Step + ChunkSize <= Len(b)
  BY Chunks
<1>2. Step \in Nat /\ ChunkSize \in Nat /\ Len(b) \in Nat
  BY StepType, ConstantsOK
<1>3. Rest(b) \in Seq(Characters) /\ Len(Rest(b)) = Len(b) - F * Step
  BY <1>1, <1>2, Part DEF Rest
<1> HIDE DEF F
<1>4. ASSUME NEW n \in 1..F
      PROVE  [index |-> first + n - 1, content |-> ChunkAt(b, n - 1)] \in ChunkRows
  <2> DEFINE k == n - 1
             m == k * Step
  <2>1. k \in 0..F - 1 /\ k \in Nat /\ first + n - 1 \in Nat
    BY <1>1
  <2> HIDE DEF k
  <2>2. m \in Nat /\ m + ChunkSize <= Len(b)
    <3>1. k * Step \in Nat
      BY <1>2, <2>1
    <3>2. k * Step + ChunkSize <= Len(b)
      BY <1>1, <2>1
    <3>3. QED
      BY <3>1, <3>2
  <2> HIDE DEF m
  <2> DEFINE e == m + ChunkSize
  <2>3. e \in m..Len(b) /\ e - m = ChunkSize
    BY <1>2, <2>2
  <2> HIDE DEF e
  <2>4. SubSeq(b, m + 1, e) \in Seq(Characters) /\ Len(SubSeq(b, m + 1, e)) = ChunkSize
    BY <2>2, <2>3, Part
  <2>5. ChunkAt(b, n - 1) = SubSeq(b, m + 1, e)
    BY DEF ChunkAt, m, k, e
  <2>6. ChunkAt(b, n - 1) \in Contents
    BY <2>4, <2>5 DEF Contents
  <2>7. QED
    BY <2>1, <2>6 DEF ChunkRows
<1>5. Yield(b, first) \in [1..F -> ChunkRows]
  BY <1>4 DEF Yield, F
<1>6. Yield(b, first) \in Seq(ChunkRows) /\ Len(Yield(b, first)) = F
  BY <1>1, <1>5
<1>7. QED
  BY <1>1, <1>2, <1>3, <1>6 DEF F, Yield

LEMMA FinalFacts ==
  ASSUME NEW r \in Seq(Characters), Len(r) < ChunkSize, NEW first \in Nat
  PROVE  /\ FinalChunk(r, first) \in Seq(ChunkRows)
         /\ Len(FinalChunk(r, first)) = IF Len(r) >= MinChunkSize THEN 1 ELSE 0
         /\ Len(r) >= MinChunkSize =>
              FinalChunk(r, first)[1] = [index |-> first, content |-> r]
<1>1. MinChunkSize \in Nat /\ ChunkSize \in Nat /\ Len(r) \in Nat
  BY ConstantsOK
<1>2. CASE Len(r) >= MinChunkSize
  <2>1. [index |-> first, content |-> r] \in ChunkRows
    BY <1>1, <1>2 DEF ChunkRows, Contents
  <2>2. FinalChunk(r, first) = <<[index |-> first, content |-> r]>>
    BY <1>2 DEF FinalChunk
  <2>3. QED
    BY <1>2, <2>1, <2>2
<1>3. CASE ~(Len(r) >= MinChunkSize)
  BY <1>3 DEF FinalChunk
<1>4. QED
  BY <1>2, <1>3

\* What a unit brings.
LEMMA UnitFacts ==
  ASSUME HeldInv, NEW n \in 0..MaxUnit, pos + n <= Len(text)
  PROVE  LET t == partial \o Decoded(n)
             f == Filter(t)
         IN  /\ t \in Seq(Characters) /\ Len(t) = Len(partial) + n
             /\ f.text \in Seq(Characters)
             /\ f.partial \in Seq(Characters) /\ Len(f.partial) <= MaxPartial
             /\ Clean(f.text) \in Seq(Characters)
             /\ Len(Clean(f.text)) \in 0..MaxPartial + MaxUnit
<1>1. /\ text \in Seq(Characters) /\ pos \in 0..Len(text)
      /\ partial \in Seq(Characters) /\ Len(partial) <= MaxPartial
  BY DEF HeldInv, StreamType, MemoryIsBounded
<1>2. MaxUnit \in Nat /\ MaxPartial \in Nat /\ Len(text) \in Nat /\ Len(partial) \in Nat
  BY <1>1, ConstantsOK
<1>3. Decoded(n) \in Seq(Characters) /\ Len(Decoded(n)) = n
  <2>1. pos \in Nat /\ pos + n \in pos..Len(text) /\ pos + n - pos = n
    BY <1>1, <1>2
  <2>2. QED
    BY <1>1, <2>1, Part DEF Decoded
<1> DEFINE t == partial \o Decoded(n)
           f == Filter(t)
<1>4. t \in Seq(Characters) /\ Len(t) = Len(partial) + n
  <2> DEFINE u == Decoded(n)
  <2> HIDE DEF u
  <2>1. u \in Seq(Characters) /\ Len(u) = n
    BY <1>3 DEF u
  <2>2. partial \o u \in Seq(Characters) /\ Len(partial \o u) = Len(partial) + Len(u)
    BY <1>1, <2>1, ConcatProperties
  <2>3. QED
    BY <2>1, <2>2 DEF u
<1> HIDE DEF t
<1>5. /\ f.text \in Seq(Characters) /\ Len(f.text) \in 0..Len(t)
      /\ f.partial \in Seq(Characters) /\ Len(f.partial) \in 0..MaxPartial
  BY <1>4, FilterFacts
<1> HIDE DEF f
<1>6. Clean(f.text) \in Seq(Characters) /\ Len(Clean(f.text)) \in 0..Len(f.text)
  BY <1>5, CleanFacts
<1>7. Len(Clean(f.text)) \in 0..MaxPartial + MaxUnit
  BY <1>1, <1>2, <1>4, <1>5, <1>6
<1>8. QED
  BY <1>2, <1>4, <1>5, <1>6, <1>7 DEF t, f

\* And what the last, unfinished line brings.
LastLine == IF guarded THEN Guard(partial) ELSE partial

LEMMA LastLineFacts ==
  ASSUME HeldInv
  PROVE  /\ LastLine \in Seq(Characters)
         /\ Clean(LastLine) \in Seq(Characters)
         /\ Len(Clean(LastLine)) \in 0..MaxPartial
<1>1. partial \in Seq(Characters) /\ Len(partial) <= MaxPartial /\ MaxPartial \in Nat
  BY ConstantsOK DEF HeldInv, StreamType, MemoryIsBounded
<1>2. LastLine \in Seq(Characters) /\ Len(LastLine) \in 0..Len(partial)
  BY <1>1, GuardFacts DEF LastLine
<1>3. Clean(LastLine) \in Seq(Characters) /\ Len(Clean(LastLine)) \in 0..Len(LastLine)
  BY <1>2, CleanFacts
<1>4. QED
  BY <1>1, <1>2, <1>3

\* The chunker is fed x: what it yields and keeps.
LEMMA FeedFacts ==
  ASSUME HeldInv, NEW x \in Seq(Characters)
  PROVE  LET b == buf \o x
         IN  /\ b \in Seq(Characters) /\ Len(b) = Len(buf) + Len(x)
             /\ FullChunks(b) \in 0..Len(x)
             /\ Yield(b, idx) \in Seq(ChunkRows) /\ Len(Yield(b, idx)) = FullChunks(b)
             /\ Rest(b) \in Seq(Characters) /\ Len(Rest(b)) < ChunkSize
<1>1. /\ buf \in Seq(Characters) /\ Len(buf) < ChunkSize /\ idx \in Nat
      /\ overlap \in Nat /\ ChunkSize \in Nat
  BY ConstantsOK DEF HeldInv, StreamType, MemoryIsBounded
<1> DEFINE b == buf \o x
<1>2. b \in Seq(Characters) /\ Len(b) = Len(buf) + Len(x)
  BY <1>1, ConcatProperties
<1> HIDE DEF b
<1>3. /\ FullChunks(b) \in Nat
      /\ FullChunks(b) = 0 \/ FullChunks(b) <= Len(b) - ChunkSize + 1
  BY <1>1, <1>2, Chunks
<1>4. Len(buf) \in Nat /\ Len(x) \in Nat
  BY <1>1
<1>5. FullChunks(b) \in 0..Len(x)
  BY <1>1, <1>2, <1>3, <1>4
<1>6. /\ Yield(b, idx) \in Seq(ChunkRows) /\ Len(Yield(b, idx)) = FullChunks(b)
      /\ Rest(b) \in Seq(Characters) /\ Len(Rest(b)) < ChunkSize
  BY <1>1, <1>2, YieldFacts
<1>7. QED
  BY <1>2, <1>5, <1>6 DEF b

\* The steps that only end the run, or hand on what has been cut already.
LEMMA HeldElsewhere ==
  ASSUME HeldInv, Emit \/ Flush \/ FlushSwallowed \/ EmbedFails \/ ReadFails
                  \/ Done \/ Cancelled
  PROVE  HeldInv'
<1>1. /\ out \in Seq(ChunkRows) /\ batch \in Seq(ChunkRows)
      /\ Len(out) <= MaxPartial + MaxUnit + 1 /\ Len(batch) <= EmbedBatch
      /\ MaxPartial \in Nat /\ MaxUnit \in Nat /\ EmbedBatch \in Nat /\ total \in Nat
  BY ConstantsOK DEF HeldInv, StreamType, MemoryIsBounded
<1>2. /\ UNCHANGED <<inputVars, pos, partial, buf, idx, filtered, cleaned>>
  BY DEF Emit, Flush, FlushSwallowed, EmbedFails, ReadFails, Done, Cancelled,
         Flushes, chunkVars, historyVars
<1>3. UNCHANGED <<text, overlap, pos, partial, buf, idx, filtered, cleaned>>
  BY <1>2 DEF inputVars
<1>4. phase' \in {"reading", "finalizing"} \cup Ended
  BY DEF HeldInv, StreamType, Ended, Emit, Flush, FlushSwallowed, EmbedFails, ReadFails,
         Done, Cancelled
<1>5. total' \in Nat
  BY <1>1 DEF Emit, Flush, FlushSwallowed, EmbedFails, ReadFails, Done, Cancelled, storeVars
<1>6. /\ out' \in Seq(ChunkRows) /\ Len(out') <= MaxPartial + MaxUnit + 1
      /\ batch' \in Seq(ChunkRows) /\ Len(batch') <= EmbedBatch
  <2>1. CASE Emit
    <3>1. out # <<>> /\ Len(batch) < EmbedBatch /\ out' = Tail(out)
          /\ batch' = Append(batch, Head(out))
      BY <2>1 DEF Emit
    <3>2. /\ Tail(out) \in Seq(ChunkRows) /\ Len(Tail(out)) = Len(out) - 1
          /\ Head(out) \in ChunkRows
      BY <1>1, <3>1, HeadTailProperties
    <3>3. /\ Append(batch, Head(out)) \in Seq(ChunkRows)
          /\ Len(Append(batch, Head(out))) = Len(batch) + 1
      BY <1>1, <3>2, AppendProperties
    <3>4. Len(out) \in Nat /\ Len(batch) \in Nat
      BY <1>1
    <3>5. QED
      BY <1>1, <3>1, <3>2, <3>3, <3>4
  <2>2. CASE Flush \/ FlushSwallowed
    <3>1. out' = out /\ batch' = <<>>
      BY <2>2 DEF Flush, FlushSwallowed, Flushes, chunkVars
    <3>2. QED
      BY <1>1, <3>1
  <2>3. CASE EmbedFails \/ ReadFails \/ Done \/ Cancelled
    <3>1. out' = out /\ batch' = batch
      BY <2>3 DEF EmbedFails, ReadFails, Done, Cancelled, Flushes, chunkVars, storeVars
    <3>2. QED
      BY <1>1, <3>1
  <2>4. QED
    BY <2>1, <2>2, <2>3
<1>7. QED
  BY <1>3, <1>4, <1>5, <1>6 DEF HeldInv, StreamType, MemoryIsBounded

LEMMA HeldUnit ==
  ASSUME HeldInv, NEW n \in 0..MaxUnit, ReadUnit(n)
  PROVE  HeldInv'
<1> DEFINE t == partial \o Decoded(n)
           f == Filter(t)
           x == Clean(f.text)
           b == buf \o x
<1>1. /\ pos + n <= Len(text) /\ pos' = pos + n /\ phase' = phase
      /\ UNCHANGED <<inputVars, storeVars>>
      /\ partial' = f.partial /\ filtered' = filtered \o f.text
      /\ cleaned' = cleaned \o x
      /\ out' = Yield(b, idx) /\ buf' = Rest(b) /\ idx' = idx + FullChunks(b)
  BY DEF ReadUnit
<1>2. /\ f.text \in Seq(Characters)
      /\ f.partial \in Seq(Characters) /\ Len(f.partial) <= MaxPartial
      /\ x \in Seq(Characters) /\ Len(x) \in 0..MaxPartial + MaxUnit
  BY <1>1, UnitFacts
<1> HIDE DEF f, x
<1>3. /\ FullChunks(b) \in 0..Len(x)
      /\ Yield(b, idx) \in Seq(ChunkRows) /\ Len(Yield(b, idx)) = FullChunks(b)
      /\ Rest(b) \in Seq(Characters) /\ Len(Rest(b)) < ChunkSize
  BY <1>2, FeedFacts
<1> HIDE DEF b
<1>4. /\ MaxPartial \in Nat /\ MaxUnit \in Nat /\ pos \in Nat /\ Len(text) \in Nat
      /\ idx \in Nat
  BY ConstantsOK DEF HeldInv, StreamType
<1>5. UNCHANGED <<text, overlap, batch, total>>
  BY <1>1 DEF inputVars, storeVars
<1>6. filtered' \in Seq(Characters) /\ cleaned' \in Seq(Characters)
  BY <1>1, <1>2, ConcatProperties DEF HeldInv, StreamType
<1>7. pos' \in 0..Len(text')
  BY <1>1, <1>4, <1>5
<1>8. /\ out' \in Seq(ChunkRows) /\ Len(out') <= MaxPartial + MaxUnit + 1
      /\ idx' \in Nat
  <2>1. Len(x) \in Nat /\ Len(x) <= MaxPartial + MaxUnit
    BY <1>2, <1>4
  <2>2. FullChunks(b) \in Nat /\ FullChunks(b) <= Len(x)
    BY <1>3, <2>1
  <2>3. out' \in Seq(ChunkRows) /\ Len(out') = FullChunks(b)
    BY <1>1, <1>3
  <2>4. Len(out') <= MaxPartial + MaxUnit + 1
    BY <1>4, <2>1, <2>2, <2>3
  <2>5. idx' \in Nat
    BY <1>1, <1>4, <2>2
  <2>6. QED
    BY <2>3, <2>4, <2>5
<1>9. /\ partial' \in Seq(Characters) /\ Len(partial') <= MaxPartial
      /\ buf' \in Seq(Characters) /\ Len(buf') < ChunkSize
  BY <1>1, <1>2, <1>3
<1>10. QED
  BY <1>1, <1>5, <1>6, <1>7, <1>8, <1>9 DEF HeldInv, StreamType, MemoryIsBounded

LEMMA HeldEnd ==
  ASSUME HeldInv, Finalize
  PROVE  HeldInv'
<1> DEFINE x == Clean(LastLine)
           b == buf \o x
           r == Rest(b)
           c == FinalChunk(r, idx + FullChunks(b))
<1>1. /\ phase' = "finalizing" /\ partial' = <<>> /\ buf' = <<>>
      /\ UNCHANGED <<inputVars, pos, storeVars>>
      /\ filtered' = filtered \o LastLine /\ cleaned' = cleaned \o x
      /\ out' = Yield(b, idx) \o c
      /\ idx' = idx + FullChunks(b) + Len(FinalChunk(r, 0))
  BY DEF Finalize, LastLine
<1>2. /\ LastLine \in Seq(Characters) /\ x \in Seq(Characters)
      /\ Len(x) \in 0..MaxPartial
  BY LastLineFacts
<1> HIDE DEF x
<1>3. /\ FullChunks(b) \in 0..Len(x)
      /\ Yield(b, idx) \in Seq(ChunkRows) /\ Len(Yield(b, idx)) = FullChunks(b)
      /\ r \in Seq(Characters) /\ Len(r) < ChunkSize
  BY <1>2, FeedFacts
<1> HIDE DEF b, r
<1>4. /\ MaxPartial \in Nat /\ MaxUnit \in Nat /\ ChunkSize \in Nat \ {0} /\ idx \in Nat
  BY ConstantsOK DEF HeldInv, StreamType
<1>5. idx + FullChunks(b) \in Nat
  BY <1>2, <1>3, <1>4
<1>6. /\ c \in Seq(ChunkRows) /\ Len(c) \in {0, 1} /\ Len(FinalChunk(r, 0)) \in {0, 1}
  BY <1>3, <1>5, FinalFacts
<1> HIDE DEF c
<1>7. /\ out' \in Seq(ChunkRows) /\ Len(out') = Len(Yield(b, idx)) + Len(c)
  BY <1>1, <1>3, <1>6, ConcatProperties
<1>8. Len(out') <= MaxPartial + MaxUnit + 1 /\ idx' \in Nat
  <2>1. FullChunks(b) \in Nat /\ FullChunks(b) <= MaxPartial
    BY <1>2, <1>3, <1>4
  <2>2. Len(c) <= 1 /\ Len(c) \in Nat /\ Len(FinalChunk(r, 0)) \in Nat
    <3>1. \A v \in {0, 1} : v <= 1 /\ v \in Nat
      OBVIOUS
    <3>2. QED
      BY <1>6, <3>1
  <2>3. Len(out') = FullChunks(b) + Len(c)
    BY <1>3, <1>7
  <2>4. Len(out') <= MaxPartial + MaxUnit + 1
    BY <1>4, <2>1, <2>2, <2>3
  <2>5. idx' \in Nat
    BY <1>1, <1>4, <2>1, <2>2
  <2>6. QED
    BY <2>4, <2>5
<1>9. UNCHANGED <<text, overlap, batch, total, pos>>
  BY <1>1 DEF inputVars, storeVars
<1>10. filtered' \in Seq(Characters) /\ cleaned' \in Seq(Characters)
  BY <1>1, <1>2, ConcatProperties DEF HeldInv, StreamType
<1>11. /\ <<>> \in Seq(Characters) /\ Len(<<>>) = 0
       /\ 0 <= MaxPartial /\ 0 < ChunkSize
  BY <1>4
<1>12. /\ partial' \in Seq(Characters) /\ Len(partial') <= MaxPartial
       /\ buf' \in Seq(Characters) /\ Len(buf') < ChunkSize
  BY <1>1, <1>11
<1>13. QED
  BY <1>1, <1>7, <1>8, <1>9, <1>10, <1>12 DEF HeldInv, StreamType, MemoryIsBounded

LEMMA HeldInit == ASSUME Init PROVE HeldInv
<1>1. text \in Seq(Characters) /\ overlap \in Nat /\ Len(text) \in Nat
  BY ConstantsOK DEF Init
<1>2. <<>> \in Seq(Characters) /\ <<>> \in Seq(ChunkRows) /\ Len(<<>>) = 0
  OBVIOUS
<1>3. /\ MaxPartial \in Nat /\ MaxUnit \in Nat /\ ChunkSize \in Nat \ {0}
      /\ EmbedBatch \in Nat
  BY ConstantsOK
<1>4. StreamType
  BY <1>1, <1>2 DEF Init, StreamType
<1>5. MemoryIsBounded
  BY <1>2, <1>3 DEF Init, MemoryIsBounded
<1>6. QED
  BY <1>4, <1>5 DEF HeldInv

LEMMA HeldStep == ASSUME HeldInv, [Next]_vars PROVE HeldInv'
<1>1. CASE UNCHANGED vars
  BY <1>1 DEF vars, inputVars, chunkVars, storeVars, historyVars, HeldInv, StreamType,
              MemoryIsBounded
<1>2. QED
  BY <1>1, HeldElsewhere, HeldUnit, HeldEnd DEF Next, Steps

\* The working set of a run is bounded by the settings, whatever the object.
THEOREM MemoryStaysBounded == Spec => []MemoryIsBounded
<1>1. Init => HeldInv
  BY HeldInit
<1>2. HeldInv /\ [Next]_vars => HeldInv'
  BY HeldStep
<1>3. HeldInv => MemoryIsBounded
  BY DEF HeldInv
<1>4. QED
  BY <1>1, <1>2, <1>3, PTL DEF Spec

(***************************************************************************)
(* The numbering of the chunks                                             *)
(***************************************************************************)

Numbered(s, first) == \A n \in 1..Len(s) : s[n].index = first + n - 1

\* Chunks are numbered from 0 without a gap: first those that have left the
\* batch, stored or lost with it, then the batch, then those yielded.
CountInv ==
  /\ total + Len(batch) + Len(out) = idx
  /\ Numbered(batch, total)
  /\ Numbered(out, total + Len(batch))
  /\ DOMAIN stored \cup swallowed = 0..total - 1
  /\ DOMAIN stored \cap swallowed = {}
  /\ phase = "done" => out = <<>> /\ batch = <<>>

LEMMA NumberedEmpty == ASSUME NEW first PROVE Numbered(<<>>, first)
BY DEF Numbered

LEMMA NumberedConcat ==
  ASSUME NEW p \in Seq(ChunkRows), NEW q \in Seq(ChunkRows), NEW first \in Nat,
         Numbered(p, first), Numbered(q, first + Len(p))
  PROVE  Numbered(p \o q, first)
<1>1. /\ Len(p \o q) = Len(p) + Len(q)
      /\ \A i \in 1..Len(p) + Len(q) :
           (p \o q)[i] = IF i <= Len(p) THEN p[i] ELSE q[i - Len(p)]
  BY ConcatProperties
<1>2. Len(p) \in Nat /\ Len(q) \in Nat
  OBVIOUS
<1>3. ASSUME NEW n \in 1..Len(p) + Len(q)
      PROVE  (p \o q)[n].index = first + n - 1
  <2>1. CASE n <= Len(p)
    BY <1>1, <1>2, <2>1 DEF Numbered
  <2>2. CASE ~(n <= Len(p))
    <3>1. n - Len(p) \in 1..Len(q)
      BY <1>2, <2>2
    <3>2. q[n - Len(p)].index = first + Len(p) + (n - Len(p)) - 1
      BY <3>1 DEF Numbered
    <3>3. first + Len(p) + (n - Len(p)) - 1 = first + n - 1
      BY <1>2
    <3>4. QED
      BY <1>1, <2>2, <3>2, <3>3
  <2>3. QED
    BY <2>1, <2>2
<1>4. QED
  BY <1>1, <1>3 DEF Numbered

LEMMA YieldNumbered ==
  ASSUME overlap \in Nat, NEW b \in Seq(Characters), NEW first \in Nat
  PROVE  Numbered(Yield(b, first), first)
<1> DEFINE y == Yield(b, first)
           F == FullChunks(b)
<1>1. /\ Len(y) = F
      /\ \A n \in 1..F : y[n] = [index |-> first + n - 1, content |-> ChunkAt(b, n - 1)]
  BY YieldFacts
<1> HIDE DEF y, F
<1>2. \A n \in 1..F : y[n].index = first + n - 1
  BY <1>1
<1>3. Numbered(y, first)
  BY <1>1, <1>2 DEF Numbered
<1>4. QED
  BY <1>3 DEF y

\* Moving the first chunk of out to the end of the batch.
LEMMA NumberedMove ==
  ASSUME NEW p \in Seq(ChunkRows), NEW q \in Seq(ChunkRows), NEW first \in Nat,
         Numbered(p, first), Numbered(q, first + Len(p)), q # <<>>
  PROVE  /\ Numbered(Append(p, Head(q)), first)
         /\ Numbered(Tail(q), first + Len(p) + 1)
<1>1. Len(p) \in Nat /\ Len(q) \in Nat /\ Len(q) >= 1
  OBVIOUS
<1>2. Head(q) = q[1] /\ q[1].index = first + Len(p)
  <2>1. Head(q) = q[1]
    BY HeadTailProperties
  <2>2. 1 \in 1..Len(q) /\ first + Len(p) + 1 - 1 = first + Len(p)
    BY <1>1
  <2>3. QED
    BY <2>1, <2>2 DEF Numbered
<1>3. /\ Len(Append(p, Head(q))) = Len(p) + 1
      /\ \A n \in 1..Len(p) : Append(p, Head(q))[n] = p[n]
      /\ Append(p, Head(q))[Len(p) + 1] = Head(q)
  BY <1>1, AppendProperties, HeadTailProperties
<1>4. ASSUME NEW n \in 1..Len(p) + 1
      PROVE  Append(p, Head(q))[n].index = first + n - 1
  <2>1. CASE n <= Len(p)
    <3>1. n \in 1..Len(p)
      BY <1>1, <2>1
    <3>2. QED
      BY <1>3, <3>1 DEF Numbered
  <2>2. CASE ~(n <= Len(p))
    <3>1. n = Len(p) + 1 /\ first + n - 1 = first + Len(p)
      BY <1>1, <2>2
    <3>2. QED
      BY <1>2, <1>3, <3>1
  <2>3. QED
    BY <2>1, <2>2
<1>5. /\ Len(Tail(q)) = Len(q) - 1
      /\ \A n \in 1..Len(q) - 1 : Tail(q)[n] = q[n + 1]
  BY <1>1, HeadTailProperties
<1>6. ASSUME NEW n \in 1..Len(q) - 1
      PROVE  Tail(q)[n].index = first + Len(p) + 1 + n - 1
  <2>1. n + 1 \in 1..Len(q) /\ first + Len(p) + (n + 1) - 1 = first + Len(p) + 1 + n - 1
    BY <1>1
  <2>2. QED
    BY <1>5, <2>1 DEF Numbered
<1>7. QED
  BY <1>3, <1>4, <1>5, <1>6 DEF Numbered

\* The chunks of a batch are the next ones after those that left before.
LEMMA BatchIndexes ==
  ASSUME NEW first \in Nat, batch \in Seq(ChunkRows), Numbered(batch, first)
  PROVE  Indexes = first..first + Len(batch) - 1
<1>1. Len(batch) \in Nat /\ DOMAIN batch = 1..Len(batch)
  OBVIOUS
<1>2. \A n \in 1..Len(batch) : batch[n].index \in first..first + Len(batch) - 1
  BY <1>1 DEF Numbered
<1>3. ASSUME NEW i \in first..first + Len(batch) - 1
      PROVE  \E n \in DOMAIN batch : i = batch[n].index
  <2>1. i - first + 1 \in 1..Len(batch) /\ first + (i - first + 1) - 1 = i
    BY <1>1
  <2>2. batch[i - first + 1].index = first + (i - first + 1) - 1
    BY <2>1 DEF Numbered
  <2>3. QED
    BY <1>1, <2>1, <2>2
<1>4. QED
  BY <1>1, <1>2, <1>3 DEF Indexes

LEMMA CountInit == ASSUME Init PROVE CountInv
<1>1. /\ total = 0 /\ idx = 0 /\ out = <<>> /\ batch = <<>> /\ stored = <<>>
      /\ swallowed = {} /\ phase = "reading"
  BY DEF Init
<1>2. DOMAIN stored = {} /\ 0..total - 1 = {} /\ Len(out) = 0 /\ Len(batch) = 0
  BY <1>1
<1>3. Numbered(out, total + Len(batch)) /\ Numbered(batch, total)
  BY <1>1, NumberedEmpty
<1>4. QED
  BY <1>1, <1>2, <1>3 DEF CountInv

\* While the object is read, everything yielded is in the batch before the
\* next unit.
LEMMA CountUnit ==
  ASSUME HeldInv, CountInv, NEW n \in 0..MaxUnit, ReadUnit(n)
  PROVE  CountInv'
<1> DEFINE t == partial \o Decoded(n)
           f == Filter(t)
           x == Clean(f.text)
           b == buf \o x
<1>1. /\ phase = "reading" /\ out = <<>> /\ pos + n <= Len(text)
      /\ phase' = phase /\ UNCHANGED <<batch, stored, total, swallowed>>
      /\ out' = Yield(b, idx) /\ idx' = idx + FullChunks(b)
  BY DEF ReadUnit, Consumed, storeVars
<1>2. x \in Seq(Characters)
  BY <1>1, UnitFacts
<1> HIDE DEF x
<1>3. b \in Seq(Characters) /\ FullChunks(b) \in Nat /\ Len(Yield(b, idx)) = FullChunks(b)
  BY <1>2, FeedFacts
<1> HIDE DEF b
<1>4. /\ idx \in Nat /\ total \in Nat /\ batch \in Seq(ChunkRows) /\ overlap \in Nat
      /\ Len(batch) \in Nat /\ Len(<<>>) = 0
  BY DEF HeldInv, StreamType
<1>5. total + Len(batch) = idx /\ Numbered(batch, total)
  BY <1>1, <1>4 DEF CountInv
<1>6. Numbered(Yield(b, idx), idx)
  BY <1>3, <1>4, YieldNumbered
<1>7. Numbered(out', idx)
  BY <1>1, <1>6
<1>8. total' + Len(batch') + Len(out') = idx'
  BY <1>1, <1>3, <1>4, <1>5
<1>9. Numbered(batch', total') /\ Numbered(out', total' + Len(batch'))
  BY <1>1, <1>5, <1>7
<1>10. QED
  BY <1>1, <1>8, <1>9 DEF CountInv, Numbered

LEMMA CountEnd == ASSUME HeldInv, CountInv, Finalize PROVE CountInv'
<1> DEFINE x == Clean(LastLine)
           b == buf \o x
           r == Rest(b)
           c == FinalChunk(r, idx + FullChunks(b))
<1>1. /\ phase = "reading" /\ out = <<>> /\ phase' = "finalizing"
      /\ UNCHANGED <<batch, stored, total, swallowed>>
      /\ out' = Yield(b, idx) \o c
      /\ idx' = idx + FullChunks(b) + Len(FinalChunk(r, 0))
  BY DEF Finalize, LastLine, Consumed, storeVars
<1>2. x \in Seq(Characters)
  BY LastLineFacts
<1> HIDE DEF x
<1>3. /\ b \in Seq(Characters) /\ FullChunks(b) \in Nat
      /\ Yield(b, idx) \in Seq(ChunkRows) /\ Len(Yield(b, idx)) = FullChunks(b)
      /\ r \in Seq(Characters) /\ Len(r) < ChunkSize
  BY <1>2, FeedFacts
<1>4. /\ idx \in Nat /\ total \in Nat /\ batch \in Seq(ChunkRows) /\ overlap \in Nat
      /\ Len(batch) \in Nat /\ Len(<<>>) = 0
  BY DEF HeldInv, StreamType
<1> DEFINE y == Yield(b, idx)
           F == FullChunks(b)
<1>5. Numbered(y, idx)
  <2> HIDE DEF b
  <2>1. QED
    BY <1>3, <1>4, YieldNumbered
<1> HIDE DEF b, r, F, y
<1>6. total + Len(batch) = idx /\ Numbered(batch, total)
  BY <1>1, <1>4 DEF CountInv
<1>7. y \in Seq(ChunkRows) /\ Len(y) = F /\ F \in Nat /\ Numbered(y, idx)
  BY <1>3, <1>5 DEF y, F
<1> DEFINE z == FinalChunk(r, 0)
<1>8. c \in Seq(ChunkRows) /\ Len(c) = Len(z) /\ Numbered(c, idx + F)
  <2>1. idx + F \in Nat /\ 0 \in Nat /\ c = FinalChunk(r, idx + F)
    BY <1>4, <1>7 DEF F
  <2>2. /\ c \in Seq(ChunkRows)
        /\ Len(c) = IF Len(r) >= MinChunkSize THEN 1 ELSE 0
        /\ Len(r) >= MinChunkSize => c[1] = [index |-> idx + F, content |-> r]
    BY <1>3, <2>1, FinalFacts
  <2>3. Len(z) = IF Len(r) >= MinChunkSize THEN 1 ELSE 0
    BY <1>3, <2>1, FinalFacts
  <2> HIDE DEF c, z
  <2>4. Numbered(c, idx + F)
    BY <2>1, <2>2 DEF Numbered
  <2>5. QED
    BY <2>2, <2>3, <2>4
<1> HIDE DEF c, z
<1>9. out' = y \o c /\ idx' = idx + F + Len(z)
  BY <1>1 DEF y, z, F, c
<1>10. Numbered(out', idx) /\ Len(out') = F + Len(c)
  BY <1>4, <1>7, <1>8, <1>9, NumberedConcat, ConcatProperties
<1>11. total' + Len(batch') + Len(out') = idx'
  <2>1. Len(c) \in Nat /\ Len(c) = Len(z)
    BY <1>8
  <2>2. total' = total /\ Len(batch') = Len(batch) /\ Len(out') = F + Len(c)
    BY <1>1, <1>10
  <2>3. idx' = total + Len(batch) + F + Len(z)
    BY <1>6, <1>9
  <2>4. total \in Nat /\ Len(batch) \in Nat /\ F \in Nat
    BY <1>4, <1>7
  <2>5. QED
    BY <2>1, <2>2, <2>3, <2>4
<1>12. Numbered(batch', total') /\ Numbered(out', total' + Len(batch'))
  BY <1>1, <1>6, <1>10
<1>13. QED
  BY <1>1, <1>11, <1>12 DEF CountInv, Numbered

LEMMA CountEmit == ASSUME HeldInv, CountInv, Emit PROVE CountInv'
<1>1. /\ out # <<>> /\ batch' = Append(batch, Head(out)) /\ out' = Tail(out)
      /\ UNCHANGED <<phase, idx, stored, total, swallowed>>
  BY DEF Emit
<1>2. /\ out \in Seq(ChunkRows) /\ batch \in Seq(ChunkRows) /\ total \in Nat
      /\ Len(out) \in Nat /\ Len(batch) \in Nat /\ idx \in Nat
  BY DEF HeldInv, StreamType
<1>3. Numbered(batch', total) /\ Numbered(out', total + Len(batch) + 1)
  BY <1>1, <1>2, NumberedMove DEF CountInv
<1>4. Len(batch') = Len(batch) + 1 /\ Len(out') = Len(out) - 1
  BY <1>1, <1>2, HeadTailProperties, AppendProperties
<1>5. total' + Len(batch') + Len(out') = idx'
  <2>1. total + Len(batch) + Len(out) = idx /\ total' = total /\ idx' = idx
    BY <1>1 DEF CountInv
  <2>2. total \in Nat /\ Len(batch) \in Nat /\ Len(out) \in Nat
    BY <1>2
  <2>3. QED
    BY <1>4, <2>1, <2>2
<1>6. total' + Len(batch') = total + Len(batch) + 1
  BY <1>1, <1>2, <1>4
<1>7. Numbered(batch', total') /\ Numbered(out', total' + Len(batch'))
  BY <1>1, <1>3, <1>6
<1>8. phase' # "done"
  BY <1>1 DEF CountInv
<1>9. QED
  BY <1>1, <1>5, <1>7, <1>8 DEF CountInv, Numbered

\* A batch leaves as a whole, for the store or with an error.
LEMMA CountFlush ==
  ASSUME HeldInv, CountInv, Flush \/ FlushSwallowed
  PROVE  CountInv'
<1>1. /\ phase \notin Ended /\ total' = total + Len(batch) /\ batch' = <<>>
      /\ UNCHANGED <<phase, idx, out>>
  BY DEF Flush, FlushSwallowed, Flushes, chunkVars
<1>2. /\ out \in Seq(ChunkRows) /\ batch \in Seq(ChunkRows) /\ total \in Nat
      /\ Len(out) \in Nat /\ Len(batch) \in Nat /\ idx \in Nat /\ Len(<<>>) = 0
  BY DEF HeldInv, StreamType
<1>3. Indexes = total..total + Len(batch) - 1
  BY <1>2, BatchIndexes DEF CountInv
<1> DEFINE lost == swallowed
           rows == DOMAIN stored
           old  == 0..total - 1
           new  == total..total + Len(batch) - 1
<1>4. /\ DOMAIN stored' \cup swallowed' = old \cup new
      /\ DOMAIN stored' \cap swallowed' = {}
  <2>1. old \cap new = {}
    BY <1>2
  <2>2. rows \cup lost = old /\ rows \cap lost = {}
    BY DEF CountInv
  <2>3. \/ DOMAIN stored' = rows \cup new /\ swallowed' = lost
        \/ DOMAIN stored' = rows /\ swallowed' = lost \cup new
    BY <1>3 DEF Flush, FlushSwallowed
  <2> HIDE DEF lost, rows, old, new
  <2>4. QED
    BY <2>1, <2>2, <2>3
<1>5. old \cup new = 0..total' - 1
  BY <1>1, <1>2
<1>6. total' + Len(batch') + Len(out') = idx'
  BY <1>1, <1>2 DEF CountInv
<1>7. Numbered(batch', total') /\ Numbered(out', total' + Len(batch'))
  <2>1. total' + Len(batch') = total + Len(batch)
    BY <1>1, <1>2
  <2>2. Numbered(out, total + Len(batch))
    BY DEF CountInv
  <2>3. QED
    BY <1>1, <2>1, <2>2, NumberedEmpty
<1>8. phase' # "done"
  BY <1>1 DEF Ended
<1>9. QED
  BY <1>4, <1>5, <1>6, <1>7, <1>8 DEF CountInv, Numbered

LEMMA CountElsewhere ==
  ASSUME CountInv, EmbedFails \/ ReadFails \/ Done \/ Cancelled \/ UNCHANGED vars
  PROVE  CountInv'
<1>1. UNCHANGED <<idx, out, batch, stored, total, swallowed>>
  BY DEF EmbedFails, ReadFails, Done, Cancelled, Flushes, chunkVars, storeVars, vars
<1>2. phase' = "done" => out = <<>> /\ batch = <<>>
  BY DEF EmbedFails, ReadFails, Done, Cancelled, vars, CountInv
<1>3. QED
  BY <1>1, <1>2 DEF CountInv, Numbered

LEMMA CountStep == ASSUME HeldInv, CountInv, [Next]_vars PROVE CountInv'
BY CountUnit, CountEnd, CountEmit, CountFlush, CountElsewhere DEF Next, Steps

(***************************************************************************)
(* The chunks are pieces of the stream                                     *)
(***************************************************************************)

\* Chunk i of the stream c, when chunks start every s characters.
Piece(c, s, i) ==
  LET e == i * s + ChunkSize IN SubSeq(c, i * s + 1, IF e < Len(c) THEN e ELSE Len(c))

\* Where the last of n full chunks ends.
CutEnd(n, s) == IF n = 0 THEN 0 ELSE (n - 1) * s + ChunkSize

\* Every chunk is its piece of the stream, wherever it has got to; the buffer
\* is what follows the place where the next one starts.
CutInv ==
  /\ \A n \in 1..Len(out) : out[n].content = Piece(cleaned, Step, out[n].index)
  /\ \A n \in 1..Len(batch) : batch[n].content = Piece(cleaned, Step, batch[n].index)
  /\ \A i \in DOMAIN stored : stored[i] = Piece(cleaned, Step, i)
  /\ phase = "reading" =>
       /\ idx * Step <= Len(cleaned)
       /\ buf = SubSeq(cleaned, idx * Step + 1, Len(cleaned))
       /\ CutEnd(idx, Step) <= Len(cleaned)
  /\ phase \in {"finalizing", "done"} => Len(cleaned) - CutEnd(idx, Step) < MinChunkSize

LEMMA Times ==
  ASSUME NEW a \in Nat, NEW b \in Nat, NEW s \in Nat
  PROVE  /\ a * s \in Nat /\ b * s \in Nat
         /\ (a + b) * s = a * s + b * s
         /\ a <= b => a * s <= b * s
<1>1. a * s \in Nat /\ b * s \in Nat
  OBVIOUS
<1>2. (a + b) * s = a * s + b * s
  OBVIOUS
<1>3. ASSUME a <= b PROVE a * s <= b * s
  BY <1>3
<1>4. QED
  BY <1>1, <1>2, <1>3

\* A full chunk stays what it is when the stream goes on.
LEMMA PieceStays ==
  ASSUME NEW c \in Seq(Characters), NEW x \in Seq(Characters), NEW s \in Nat,
         NEW i \in Nat, i * s + ChunkSize <= Len(c)
  PROVE  Piece(c \o x, s, i) = Piece(c, s, i)
<1> DEFINE m == i * s
           e == m + ChunkSize
<1>1. m \in Nat /\ ChunkSize \in Nat /\ Len(c) \in Nat /\ Len(x) \in Nat
  <2>1. i * s \in Nat
    BY Times
  <2>2. QED
    BY <2>1, ConstantsOK
<1>2. e <= Len(c)
  OBVIOUS
<1> HIDE DEF m
<1>3. Len(c \o x) = Len(c) + Len(x)
  BY ConcatProperties
<1>4. e \in m..Len(c)
  BY <1>1, <1>2
<1>5. SubSeq(c \o x, m + 1, e) = SubSeq(c, m + 1, e)
  BY <1>1, <1>4, PartOfFirst
<1>6. /\ (IF e < Len(c \o x) THEN e ELSE Len(c \o x)) = e
      /\ (IF e < Len(c) THEN e ELSE Len(c)) = e
  BY <1>1, <1>2, <1>3
<1>7. Piece(c \o x, s, i) = SubSeq(c \o x, m + 1, e) /\ Piece(c, s, i) = SubSeq(c, m + 1, e)
  BY <1>6 DEF Piece, m
<1>8. QED
  BY <1>5, <1>7

\* All chunks so far are full.
LEMMA FullSoFar ==
  ASSUME NEW c \in Seq(Characters), NEW s \in Nat, NEW n \in Nat, NEW i \in 0..n - 1,
         CutEnd(n, s) <= Len(c)
  PROVE  i * s + ChunkSize <= Len(c)
<1> DEFINE k == n - 1
<1>1. k \in Nat /\ i \in Nat /\ i <= k /\ n # 0
  OBVIOUS
<1>2. CutEnd(n, s) = k * s + ChunkSize
  BY <1>1 DEF CutEnd
<1> HIDE DEF k
<1>3. i * s \in Nat /\ k * s \in Nat /\ i * s <= k * s
  BY <1>1, Times
<1>4. ChunkSize \in Nat /\ Len(c) \in Nat
  BY ConstantsOK
<1>5. QED
  BY <1>2, <1>3, <1>4

\* The chunker is fed x: its buffer is the end of the stream, so what it cuts
\* off it are the next pieces of the stream.
LEMMA Fed ==
  ASSUME NEW c \in Seq(Characters), NEW b \in Seq(Characters), NEW n \in Nat,
         overlap \in Nat, n * Step <= Len(c),
         b = SubSeq(c, n * Step + 1, Len(c))
  PROVE  LET F == FullChunks(b)
         IN  /\ \A k \in 0..F - 1 : ChunkAt(b, k) = Piece(c, Step, n + k)
             /\ (n + F) * Step <= Len(c)
             /\ Rest(b) = SubSeq(c, (n + F) * Step + 1, Len(c))
             /\ Len(Rest(b)) = Len(c) - (n + F) * Step
             /\ CutEnd(n, Step) <= Len(c) => CutEnd(n + F, Step) <= Len(c)
<1> DEFINE F == FullChunks(b)
           s == Step
           a == n * s
<1>1. s \in Nat /\ ChunkSize \in Nat /\ Len(c) \in Nat
  BY StepType, ConstantsOK
<1>2. a \in Nat /\ a <= Len(c) /\ b = SubSeq(c, a + 1, Len(c))
  <2>1. n * s \in Nat
    BY <1>1, Times
  <2>2. QED
    BY <2>1
<1>3. /\ F \in Nat /\ F * s \in 0..Len(b)
      /\ \A k \in 0..F - 1 : k * s + ChunkSize <= Len(b)
  BY Chunks
<1> HIDE DEF F, s
<1>4. \A k \in Nat : k * s \in Nat /\ (n + k) * s = a + k * s
  <2>1. ASSUME NEW k \in Nat PROVE k * s \in Nat /\ (n + k) * s = a + k * s
    <3>1. k * s \in Nat /\ (n + k) * s = n * s + k * s
      BY <1>1, Times
    <3>2. QED
      BY <3>1
  <2>2. QED
    BY <2>1
<1>5. a \in Nat /\ a <= Len(c)
  BY <1>2
<1> HIDE DEF a
<1>6. Len(c) \in a..Len(c) /\ Len(b) = Len(c) - a /\ Len(b) \in Nat
  <2>1. Len(c) \in a..Len(c)
    BY <1>1, <1>5
  <2>2. Len(SubSeq(c, a + 1, Len(c))) = Len(c) - a
    BY <1>5, <2>1, Part
  <2>3. QED
    BY <1>2, <2>1, <2>2
<1>7. ASSUME NEW k \in 0..F - 1
      PROVE  /\ ChunkAt(b, k) = Piece(c, s, n + k)
             /\ (n + k) * s + ChunkSize <= Len(c)
  <2> DEFINE m == k * s
             e == m + ChunkSize
  <2>1. k \in Nat
    BY <1>3
  <2>2. m \in Nat /\ m + ChunkSize <= Len(b) /\ (n + k) * s = a + m
    BY <1>3, <1>4, <2>1
  <2>3. ChunkAt(b, k) = SubSeq(b, m + 1, e)
    BY DEF ChunkAt, s
  <2> HIDE DEF m
  <2>4. e \in m..Len(c) - a
    BY <1>1, <1>5, <1>6, <2>2
  <2>5. SubSeq(SubSeq(c, a + 1, Len(c)), m + 1, e) = SubSeq(c, a + m + 1, a + e)
    <3> HIDE DEF e
    <3>1. QED
      BY <1>5, <1>6, <2>2, <2>4, PartOfPart
  <2>6. a + m + ChunkSize = a + e /\ a + m + ChunkSize <= Len(c) /\ a + m + ChunkSize \in Nat
    BY <1>1, <1>5, <1>6, <2>2
  <2>7. (IF a + m + ChunkSize < Len(c) THEN a + m + ChunkSize ELSE Len(c)) = a + e
    BY <1>1, <2>6
  <2>8. Piece(c, s, n + k) = SubSeq(c, a + m + 1, a + e)
    <3> HIDE DEF e
    <3>1. QED
      BY <2>2, <2>7 DEF Piece
  <2>9. QED
    BY <1>2, <2>2, <2>3, <2>5, <2>6, <2>8
<1> DEFINE g == F * s
           h == (n + F) * s
<1>8. h = a + g /\ g \in Nat /\ g <= Len(b)
  <2>1. (n + F) * s = a + F * s /\ F * s \in Nat
    BY <1>3, <1>4
  <2>2. F * s \in 0..Len(b)
    BY <1>3
  <2>3. \A v \in 0..Len(b) : v <= Len(b)
    BY <1>6
  <2>4. QED
    BY <2>1, <2>2, <2>3
<1>9. Rest(b) = SubSeq(b, g + 1, Len(b))
  BY DEF Rest, F, s
<1> HIDE DEF g, h
<1>10. /\ h \in Nat /\ h <= Len(c) /\ a + Len(b) = Len(c)
       /\ Len(b) \in g..Len(c) - a
  <2> DEFINE x == Len(c)
             y == Len(b)
  <2>1. x \in Nat /\ y \in Nat /\ a \in Nat /\ y = x - a
    BY <1>1, <1>5, <1>6
  <2>2. h = a + g /\ g \in Nat /\ g <= y
    BY <1>8
  <2> HIDE DEF x, y
  <2>3. h \in Nat /\ h <= x /\ a + y = x /\ y \in g..x - a
    BY <2>1, <2>2
  <2>4. QED
    BY <2>3 DEF x, y
<1>11. Rest(b) = SubSeq(c, h + 1, Len(c)) /\ Len(Rest(b)) = Len(c) - h
  <2>1. SubSeq(SubSeq(c, a + 1, Len(c)), g + 1, Len(b)) = SubSeq(c, a + g + 1, a + Len(b))
    <3> DEFINE v == Len(b)
    <3>1. v \in g..Len(c) - a
      BY <1>10
    <3> HIDE DEF v
    <3>2. SubSeq(SubSeq(c, a + 1, Len(c)), g + 1, v) = SubSeq(c, a + g + 1, a + v)
      BY <1>5, <1>6, <1>8, <3>1, PartOfPart
    <3>3. QED
      BY <3>2 DEF v
  <2>2. Rest(b) = SubSeq(c, h + 1, Len(c))
    BY <1>2, <1>8, <1>9, <1>10, <2>1
  <2>3. Len(c) \in h..Len(c)
    BY <1>1, <1>10
  <2>4. Len(SubSeq(c, h + 1, Len(c))) = Len(c) - h
    BY <1>10, <2>3, Part
  <2>5. QED
    BY <2>2, <2>4
<1>12. ASSUME CutEnd(n, s) <= Len(c) PROVE CutEnd(n + F, s) <= Len(c)
  <2>1. CASE F = 0
    <3>1. n + F = n
      BY <2>1
    <3>2. QED
      BY <1>12, <3>1
  <2>2. CASE F # 0
    <3>1. F - 1 \in 0..F - 1 /\ n + F # 0 /\ n + F - 1 = n + (F - 1)
      BY <1>3, <2>2
    <3>2. (n + (F - 1)) * s + ChunkSize <= Len(c)
      BY <1>7, <3>1
    <3> DEFINE v == n + F
               w == n + (F - 1)
    <3>3. v # 0 /\ v - 1 = w
      BY <1>3, <3>1
    <3>4. w * s + ChunkSize <= Len(c)
      BY <3>2
    <3> HIDE DEF v, w
    <3>5. CutEnd(v, s) = w * s + ChunkSize
      BY <3>3 DEF CutEnd
    <3>6. CutEnd(v, s) <= Len(c)
      BY <3>4, <3>5
    <3>7. QED
      BY <3>6 DEF v
  <2>3. QED
    BY <2>1, <2>2
<1>13. QED
  BY <1>7, <1>10, <1>11, <1>12 DEF F, s, h

\* The stream goes on by x: the chunks there are remain their pieces, and the
\* buffer with x is the end of the stream.
LEMMA StreamGoesOn ==
  ASSUME HeldInv, CountInv, CutInv, phase = "reading", out = <<>>,
         NEW x \in Seq(Characters)
  PROVE  LET c == cleaned \o x
             b == buf \o x
         IN  /\ c \in Seq(Characters) /\ b \in Seq(Characters)
             /\ idx * Step <= Len(c) /\ CutEnd(idx, Step) <= Len(c)
             /\ b = SubSeq(c, idx * Step + 1, Len(c))
             /\ \A n \in 1..Len(batch) : batch[n].content = Piece(c, Step, batch[n].index)
             /\ \A i \in DOMAIN stored : stored[i] = Piece(c, Step, i)
<1> DEFINE c == cleaned \o x
           b == buf \o x
           s == Step
           a == idx * s
           e == CutEnd(idx, s)
<1>1. /\ cleaned \in Seq(Characters) /\ buf \in Seq(Characters) /\ idx \in Nat
      /\ overlap \in Nat /\ total \in Nat /\ batch \in Seq(ChunkRows)
      /\ Len(cleaned) \in Nat /\ Len(x) \in Nat /\ Len(batch) \in Nat /\ Len(out) = 0
  BY DEF HeldInv, StreamType
<1>2. c \in Seq(Characters) /\ Len(c) = Len(cleaned) + Len(x) /\ b \in Seq(Characters)
  BY <1>1, ConcatProperties
<1>3. s \in Nat /\ a \in Nat
  <2>1. s \in Nat
    BY <1>1, StepType, ConstantsOK
  <2>2. idx * s \in Nat
    BY <1>1, <2>1, Times
  <2>3. QED
    BY <2>1, <2>2
<1>4. a <= Len(cleaned) /\ e <= Len(cleaned) /\ buf = SubSeq(cleaned, a + 1, Len(cleaned))
  BY DEF CutInv
<1>5. e \in Nat
  <2>1. CASE idx = 0
    BY <2>1 DEF CutEnd
  <2>2. CASE idx # 0
    <3>1. idx - 1 \in Nat /\ ChunkSize \in Nat
      BY <1>1, <2>2, ConstantsOK
    <3>2. (idx - 1) * s \in Nat
      BY <1>3, <3>1, Times
    <3>3. e = (idx - 1) * s + ChunkSize
      BY <2>2 DEF CutEnd
    <3> HIDE DEF e, s
    <3>4. QED
      BY <3>1, <3>2, <3>3
  <2>3. QED
    BY <2>1, <2>2
<1> HIDE DEF a, e
<1>6. a \in 0..Len(cleaned) /\ a <= Len(c) /\ e <= Len(c)
  <2> DEFINE l == Len(cleaned)
             m == Len(c)
  <2>1. m = l + Len(x) /\ l \in Nat /\ Len(x) \in Nat
    BY <1>1, <1>2
  <2>2. a \in Nat /\ e \in Nat /\ a <= l /\ e <= l
    BY <1>3, <1>4, <1>5
  <2> HIDE DEF l, m
  <2>3. a \in 0..l /\ a <= m /\ e <= m
    BY <2>1, <2>2
  <2>4. QED
    BY <2>3 DEF l, m
<1>7. b = SubSeq(c, a + 1, Len(c))
  <2>1. cleaned \in Seq(Characters) /\ a \in 0..Len(cleaned)
    BY <1>1, <1>6
  <2>2. SubSeq(cleaned \o x, a + 1, Len(cleaned \o x)) =
          SubSeq(cleaned, a + 1, Len(cleaned)) \o x
    BY <2>1, PartOfBoth
  <2>3. QED
    BY <1>4, <2>2
<1>8. ASSUME NEW i \in 0..idx - 1 PROVE Piece(c, s, i) = Piece(cleaned, s, i)
  <2>1. i \in Nat
    BY <1>1
  <2>2. CutEnd(idx, s) <= Len(cleaned)
    BY <1>4 DEF e
  <2> HIDE DEF s
  <2>3. i * s + ChunkSize <= Len(cleaned)
    BY <1>1, <1>3, <2>2, FullSoFar
  <2>4. QED
    BY <1>1, <1>3, <2>1, <2>3, PieceStays
<1> HIDE DEF c, s
<1>9. total + Len(batch) = idx /\ Numbered(batch, total)
  BY <1>1 DEF CountInv
<1>10. \A n \in 1..Len(batch) : batch[n].content = Piece(c, s, batch[n].index)
  <2>1. ASSUME NEW n \in 1..Len(batch) PROVE batch[n].content = Piece(c, s, batch[n].index)
    <3>1. batch[n].index = total + n - 1
      BY <1>9 DEF Numbered
    <3>2. total + n - 1 \in 0..idx - 1
      BY <1>1, <1>9
    <3>3. batch[n].index \in 0..idx - 1
      BY <3>1, <3>2
    <3>4. batch[n].content = Piece(cleaned, s, batch[n].index)
      BY DEF CutInv, s
    <3>5. QED
      BY <1>8, <3>3, <3>4
  <2>2. QED
    BY <2>1
<1>11. \A i \in DOMAIN stored : stored[i] = Piece(c, s, i)
  <2>1. ASSUME NEW i \in DOMAIN stored PROVE stored[i] = Piece(c, s, i)
    <3>1. i \in 0..total - 1
      BY DEF CountInv
    <3>2. i \in 0..idx - 1
      BY <1>1, <1>9, <3>1
    <3>3. stored[i] = Piece(cleaned, s, i)
      BY DEF CutInv, s
    <3>4. QED
      BY <1>8, <3>2, <3>3
  <2>2. QED
    BY <2>1
<1>12. QED
  BY <1>2, <1>6, <1>7, <1>10, <1>11 DEF a, b, c, e, s

\* The chunks the chunker yields are the next pieces of the stream.
LEMMA YieldedPieces ==
  ASSUME NEW c \in Seq(Characters), NEW b \in Seq(Characters), NEW n \in Nat,
         overlap \in Nat, n * Step <= Len(c),
         b = SubSeq(c, n * Step + 1, Len(c))
  PROVE  \A m \in 1..FullChunks(b) :
           Yield(b, n)[m].content = Piece(c, Step, Yield(b, n)[m].index)
<1> DEFINE F == FullChunks(b)
           y == Yield(b, n)
<1>1. /\ F \in Nat
      /\ \A m \in 1..F : y[m] = [index |-> n + m - 1, content |-> ChunkAt(b, m - 1)]
  BY Chunks, YieldFacts
<1>2. \A k \in 0..F - 1 : ChunkAt(b, k) = Piece(c, Step, n + k)
  BY Fed
<1> HIDE DEF F, y
<1>3. ASSUME NEW m \in 1..F PROVE y[m].content = Piece(c, Step, y[m].index)
  <2> DEFINE k == m - 1
             i == n + m - 1
  <2>1. k \in 0..F - 1 /\ i = n + k
    BY <1>1
  <2>2. y[m] = [index |-> i, content |-> ChunkAt(b, k)]
    BY <1>1
  <2> HIDE DEF k, i
  <2>3. ChunkAt(b, k) = Piece(c, Step, i)
    BY <1>2, <2>1
  <2>4. y[m].index = i /\ y[m].content = ChunkAt(b, k)
    BY <2>2
  <2>5. QED
    BY <2>3, <2>4
<1>4. QED
  BY <1>3 DEF F, y

LEMMA CutsInit == ASSUME Init PROVE CutInv
<1>1. /\ out = <<>> /\ batch = <<>> /\ stored = <<>> /\ cleaned = <<>> /\ buf = <<>>
      /\ idx = 0 /\ phase = "reading" /\ overlap \in Nat
  BY ConstantsOK DEF Init
<1>2. Step \in Nat
  BY <1>1, StepType, ConstantsOK
<1>3. 0 * Step = 0 /\ CutEnd(0, Step) = 0
  BY <1>2 DEF CutEnd
<1>4. DOMAIN stored = {} /\ Len(<<>>) = 0 /\ SubSeq(<<>>, 0 + 1, 0) = <<>>
  BY <1>1
<1>5. QED
  BY <1>1, <1>3, <1>4 DEF CutInv

LEMMA CutsUnit ==
  ASSUME HeldInv, CountInv, CutInv, NEW n \in 0..MaxUnit, ReadUnit(n)
  PROVE  CutInv'
<1> DEFINE t == partial \o Decoded(n)
           f == Filter(t)
           x == Clean(f.text)
           b == buf \o x
           c == cleaned \o x
           F == FullChunks(b)
<1>1. /\ phase = "reading" /\ out = <<>> /\ pos + n <= Len(text)
      /\ phase' = phase /\ UNCHANGED <<overlap, batch, stored>>
      /\ cleaned' = c /\ out' = Yield(b, idx) /\ idx' = idx + F /\ buf' = Rest(b)
  BY DEF ReadUnit, Consumed, storeVars, inputVars
<1>2. x \in Seq(Characters)
  BY <1>1, UnitFacts
<1> HIDE DEF x
<1>3. /\ c \in Seq(Characters) /\ b \in Seq(Characters)
      /\ idx * Step <= Len(c) /\ CutEnd(idx, Step) <= Len(c)
      /\ b = SubSeq(c, idx * Step + 1, Len(c))
      /\ \A m \in 1..Len(batch) : batch[m].content = Piece(c, Step, batch[m].index)
      /\ \A i \in DOMAIN stored : stored[i] = Piece(c, Step, i)
  BY <1>1, <1>2, StreamGoesOn
<1> HIDE DEF b, c
<1>4. idx \in Nat /\ overlap \in Nat
  BY DEF HeldInv, StreamType
<1>5. /\ (idx + F) * Step <= Len(c)
      /\ Rest(b) = SubSeq(c, (idx + F) * Step + 1, Len(c))
      /\ CutEnd(idx + F, Step) <= Len(c)
  BY <1>3, <1>4, Fed
<1>6. Len(Yield(b, idx)) = F
  BY <1>3, <1>4, YieldFacts
<1>7. \A m \in 1..F : Yield(b, idx)[m].content = Piece(c, Step, Yield(b, idx)[m].index)
  BY <1>3, <1>4, YieldedPieces
<1> HIDE DEF F
<1>8. Step' = Step
  BY <1>1 DEF Step, Overlap
<1>9. \A m \in 1..Len(out') : out'[m].content = Piece(cleaned', Step', out'[m].index)
  BY <1>1, <1>6, <1>7, <1>8
<1>10. \A m \in 1..Len(batch') : batch'[m].content = Piece(cleaned', Step', batch'[m].index)
  BY <1>1, <1>3, <1>8
<1>11. \A i \in DOMAIN stored' : stored'[i] = Piece(cleaned', Step', i)
  BY <1>1, <1>3, <1>8
<1>12. /\ idx' * Step' <= Len(cleaned')
       /\ buf' = SubSeq(cleaned', idx' * Step' + 1, Len(cleaned'))
       /\ CutEnd(idx', Step') <= Len(cleaned')
  BY <1>1, <1>5, <1>8
<1>13. phase' = "reading"
  BY <1>1
<1>14. QED
  BY <1>9, <1>10, <1>11, <1>12, <1>13 DEF CutInv

\* Less than M of L is left behind a cut that reached the rest's beginning.
LEMMA LeftBehind ==
  ASSUME NEW L \in Nat, NEW l \in Nat, NEW g \in Nat, NEW t \in Nat, NEW C \in Nat,
         NEW M \in Nat, l = L - (g + t), t <= C, ~(l >= M)
  PROVE  L - (g + C) < M
OBVIOUS

\* At the end a last piece is cut, unless less than a minimal chunk is left.
LEMMA LastPiece ==
  ASSUME NEW c \in Seq(Characters), NEW n \in Nat, overlap \in Nat,
         NEW r \in Seq(Characters), Len(r) < ChunkSize,
         n * Step <= Len(c), r = SubSeq(c, n * Step + 1, Len(c)),
         Len(r) = Len(c) - n * Step
  PROVE  LET z == FinalChunk(r, n)
         IN  /\ z \in Seq(ChunkRows)
             /\ \A m \in 1..Len(z) : z[m].content = Piece(c, Step, z[m].index)
             /\ Len(z) = Len(FinalChunk(r, 0))
             /\ Len(c) - CutEnd(n + Len(z), Step) < MinChunkSize
<1> DEFINE z == FinalChunk(r, n)
           s == Step
           a == n * s
           q == Len(r) >= MinChunkSize
<1>1. /\ s \in Nat /\ s <= ChunkSize /\ ChunkSize \in Nat \ {0} /\ MinChunkSize \in Nat \ {0}
      /\ Len(c) \in Nat /\ Len(r) \in Nat
  BY StepType, ConstantsOK
<1>2. a \in Nat
  BY <1>1, Times
<1>3. /\ z \in Seq(ChunkRows) /\ Len(z) = (IF q THEN 1 ELSE 0)
      /\ q => z[1] = [index |-> n, content |-> r]
      /\ Len(FinalChunk(r, 0)) = (IF q THEN 1 ELSE 0)
  BY FinalFacts
<1>4. r = SubSeq(c, a + 1, Len(c)) /\ Len(r) = Len(c) - a
  OBVIOUS
<1> HIDE DEF z, a
<1>5. Piece(c, s, n) = r
  <2>1. ~(a + ChunkSize < Len(c))
    BY <1>1, <1>2, <1>4
  <2>2. Piece(c, s, n) =
          SubSeq(c, a + 1, IF a + ChunkSize < Len(c) THEN a + ChunkSize ELSE Len(c))
    BY DEF Piece, a
  <2>3. QED
    BY <1>4, <2>1, <2>2
<1> HIDE DEF s
<1>6. CASE q
  <2>1. Len(z) = 1 /\ z[1].content = r /\ z[1].index = n
    BY <1>3, <1>6
  <2>2. \A m \in 1..Len(z) : z[m].content = Piece(c, s, z[m].index)
    <3>1. \A m \in 1..1 : m = 1
      OBVIOUS
    <3>2. z[1].content = Piece(c, s, z[1].index)
      BY <1>5, <2>1
    <3> HIDE DEF q
    <3>3. QED
      BY ZenonT(30), <2>1, <3>1, <3>2
  <2>3. CutEnd(n + 1, s) = a + ChunkSize
    <3>1. n + 1 # 0 /\ (n + 1) - 1 = n
      OBVIOUS
    <3> DEFINE v == n + 1
    <3>2. v # 0 /\ v - 1 = n
      BY <3>1
    <3> HIDE DEF v
    <3>3. CutEnd(v, s) = n * s + ChunkSize
      BY <3>2 DEF CutEnd
    <3>4. QED
      BY <3>3 DEF v, a
  <2>4. Len(c) - CutEnd(n + Len(z), s) < MinChunkSize
    <3>1. Len(c) - (a + ChunkSize) < MinChunkSize
      BY <1>1, <1>2, <1>4
    <3>2. QED
      BY <2>1, <2>3, <3>1
  <2>5. QED
    BY <1>3, <1>6, <2>2, <2>4 DEF z, s
<1>7. CASE ~q
  <2>1. Len(z) = 0 /\ n + Len(z) = n
    BY <1>3, <1>7
  <2>2. \A m \in 1..Len(z) : z[m].content = Piece(c, s, z[m].index)
    BY <2>1
  <2>3. Len(c) - CutEnd(n, s) < MinChunkSize
    <3>1. CASE n = 0
      <4>1. a = 0
        BY <1>1, <3>1 DEF a
      <4>2. CutEnd(n, s) = 0
        BY <3>1 DEF CutEnd
      <4>3. QED
        BY <1>1, <1>4, <1>7, <4>1, <4>2
    <3>2. CASE n # 0
      <4> DEFINE k == n - 1
      <4>1. k \in Nat /\ n = k + 1
        BY <3>2
      <4> HIDE DEF k
      <4>2. k * s \in Nat /\ (k + 1) * s = k * s + 1 * s /\ 1 * s = s
        BY <1>1, <4>1, Times
      <4>3. a = k * s + s
        BY <4>1, <4>2 DEF a
      <4>4. CutEnd(n, s) = k * s + ChunkSize
        BY <3>2 DEF CutEnd, k
      <4> DEFINE g == k * s
      <4>5. g \in Nat /\ a = g + s /\ CutEnd(n, s) = g + ChunkSize
        BY <4>2, <4>3, <4>4
      <4> HIDE DEF g
      <4>6. Len(r) = Len(c) - (g + s)
        BY <1>4, <4>5
      <4>7. Len(c) - (g + ChunkSize) < MinChunkSize
        BY <1>1, <1>7, <4>5, <4>6, LeftBehind
      <4>8. QED
        BY <4>5, <4>7
    <3>3. QED
      BY <3>1, <3>2
  <2>4. QED
    BY <1>3, <1>7, <2>1, <2>2, <2>3 DEF z, s
<1>8. QED
  BY <1>6, <1>7

LEMMA CutsEnd ==
  ASSUME HeldInv, CountInv, CutInv, Finalize
  PROVE  CutInv'
<1> DEFINE x == Clean(LastLine)
           b == buf \o x
           c == cleaned \o x
           F == FullChunks(b)
           r == Rest(b)
           y == Yield(b, idx)
           z == FinalChunk(r, idx + F)
<1>1. /\ phase = "reading" /\ out = <<>> /\ phase' = "finalizing"
      /\ UNCHANGED <<overlap, batch, stored>>
      /\ cleaned' = c /\ out' = y \o z /\ idx' = idx + F + Len(FinalChunk(r, 0))
  BY DEF Finalize, Consumed, storeVars, inputVars, LastLine
<1>2. x \in Seq(Characters)
  BY LastLineFacts
<1> HIDE DEF x
<1>3. /\ c \in Seq(Characters) /\ b \in Seq(Characters)
      /\ idx * Step <= Len(c) /\ CutEnd(idx, Step) <= Len(c)
      /\ b = SubSeq(c, idx * Step + 1, Len(c))
      /\ \A m \in 1..Len(batch) : batch[m].content = Piece(c, Step, batch[m].index)
      /\ \A i \in DOMAIN stored : stored[i] = Piece(c, Step, i)
  BY <1>1, <1>2, StreamGoesOn
<1> HIDE DEF b, c
<1>4. idx \in Nat /\ overlap \in Nat
  BY DEF HeldInv, StreamType
<1>5. /\ (idx + F) * Step <= Len(c)
      /\ r = SubSeq(c, (idx + F) * Step + 1, Len(c))
      /\ Len(r) = Len(c) - (idx + F) * Step
  BY <1>3, <1>4, Fed
<1>6. /\ y \in Seq(ChunkRows) /\ Len(y) = F /\ F \in Nat
      /\ r \in Seq(Characters) /\ Len(r) < ChunkSize
  BY <1>3, <1>4, YieldFacts, Chunks
<1>7. \A m \in 1..F : y[m].content = Piece(c, Step, y[m].index)
  BY <1>3, <1>4, YieldedPieces
<1> HIDE DEF F, r, y
<1>8. /\ z \in Seq(ChunkRows)
      /\ \A m \in 1..Len(z) : z[m].content = Piece(c, Step, z[m].index)
      /\ Len(z) = Len(FinalChunk(r, 0))
      /\ Len(c) - CutEnd(idx + F + Len(z), Step) < MinChunkSize
  <2> DEFINE n == idx + F
  <2>1. n \in Nat
    BY <1>4, <1>6
  <2>2. n * Step <= Len(c) /\ r = SubSeq(c, n * Step + 1, Len(c)) /\ Len(r) = Len(c) - n * Step
    BY <1>5
  <2> HIDE DEF n
  <2>3. /\ FinalChunk(r, n) \in Seq(ChunkRows)
        /\ \A m \in 1..Len(FinalChunk(r, n)) :
             FinalChunk(r, n)[m].content = Piece(c, Step, FinalChunk(r, n)[m].index)
        /\ Len(FinalChunk(r, n)) = Len(FinalChunk(r, 0))
        /\ Len(c) - CutEnd(n + Len(FinalChunk(r, n)), Step) < MinChunkSize
    <3>1. c \in Seq(Characters) /\ overlap \in Nat
      BY <1>3, <1>4
    <3>2. r \in Seq(Characters) /\ Len(r) < ChunkSize
      BY <1>6
    <3>3. QED
      BY <2>1, <2>2, <3>1, <3>2, LastPiece
  <2>4. QED
    BY <2>3 DEF n
<1> HIDE DEF z
<1>9. \A m \in 1..Len(y \o z) : (y \o z)[m].content = Piece(c, Step, (y \o z)[m].index)
  <2>1. /\ Len(y \o z) = Len(y) + Len(z)
        /\ \A i \in 1..Len(y) + Len(z) :
             (y \o z)[i] = IF i <= Len(y) THEN y[i] ELSE z[i - Len(y)]
    <3>1. y \in Seq(ChunkRows) /\ z \in Seq(ChunkRows)
      BY <1>6, <1>8
    <3>2. QED
      BY <3>1, ConcatProperties
  <2>2. Len(y) \in Nat /\ Len(z) \in Nat
    BY <1>6, <1>8
  <2>3. ASSUME NEW m \in 1..Len(y) + Len(z)
        PROVE  (y \o z)[m].content = Piece(c, Step, (y \o z)[m].index)
    <3>1. CASE m <= Len(y)
      <4>1. m \in 1..F /\ (y \o z)[m] = y[m]
        BY <1>6, <2>1, <2>2, <3>1
      <4>2. QED
        BY <1>7, <4>1
    <3>2. CASE ~(m <= Len(y))
      <4>1. m - Len(y) \in 1..Len(z) /\ (y \o z)[m] = z[m - Len(y)]
        BY <2>1, <2>2, <3>2
      <4>2. QED
        BY <1>8, <4>1
    <3>3. QED
      BY <3>1, <3>2
  <2>4. QED
    BY <2>1, <2>3
<1>10. Step' = Step
  BY <1>1 DEF Step, Overlap
<1>11. \A m \in 1..Len(out') : out'[m].content = Piece(cleaned', Step', out'[m].index)
  BY <1>1, <1>9, <1>10
<1>12. \A m \in 1..Len(batch') : batch'[m].content = Piece(cleaned', Step', batch'[m].index)
  BY <1>1, <1>3, <1>10
<1>13. \A i \in DOMAIN stored' : stored'[i] = Piece(cleaned', Step', i)
  BY <1>1, <1>3, <1>10
<1>14. Len(cleaned') - CutEnd(idx', Step') < MinChunkSize
  BY <1>1, <1>8, <1>10
<1>15. phase' = "finalizing"
  BY <1>1
<1>16. QED
  BY <1>11, <1>12, <1>13, <1>14, <1>15 DEF CutInv

LEMMA CutsEmit == ASSUME HeldInv, CutInv, Emit PROVE CutInv'
<1>1. /\ out # <<>> /\ batch' = Append(batch, Head(out)) /\ out' = Tail(out)
      /\ UNCHANGED <<phase, idx, stored, buf, cleaned, overlap>>
  BY DEF Emit, inputVars, historyVars
<1>2. /\ out \in Seq(ChunkRows) /\ batch \in Seq(ChunkRows)
      /\ Len(out) \in Nat /\ Len(batch) \in Nat /\ 1 \in 1..Len(out)
  BY <1>1 DEF HeldInv, StreamType
<1>3. Step' = Step
  BY <1>1 DEF Step, Overlap
<1>4. /\ \A m \in 1..Len(out) : out[m].content = Piece(cleaned, Step, out[m].index)
      /\ \A m \in 1..Len(batch) : batch[m].content = Piece(cleaned, Step, batch[m].index)
  BY DEF CutInv
<1>5. \A m \in 1..Len(Tail(out)) :
        Tail(out)[m].content = Piece(cleaned, Step, Tail(out)[m].index)
  <2>1. /\ Len(Tail(out)) = Len(out) - 1
        /\ \A m \in 1..Len(out) - 1 : Tail(out)[m] = out[m + 1] /\ m + 1 \in 1..Len(out)
    BY <1>1, <1>2, HeadTailProperties
  <2>2. QED
    BY <1>4, <2>1
<1> DEFINE q == Append(batch, Head(out))
<1>6. \A m \in 1..Len(q) : q[m].content = Piece(cleaned, Step, q[m].index)
  <2>1. /\ Len(q) = Len(batch) + 1 /\ q[Len(batch) + 1] = out[1]
        /\ \A m \in 1..Len(batch) : q[m] = batch[m]
    BY <1>1, <1>2, AppendProperties, HeadTailProperties
  <2>2. \A m \in 1..Len(batch) + 1 : m \in 1..Len(batch) \/ m = Len(batch) + 1
    BY <1>2
  <2> HIDE DEF q
  <2>3. QED
    BY <1>2, <1>4, <2>1, <2>2
<1>7. \A m \in 1..Len(batch') : batch'[m].content = Piece(cleaned', Step', batch'[m].index)
  BY <1>1, <1>3, <1>6
<1>8. \A m \in 1..Len(out') : out'[m].content = Piece(cleaned', Step', out'[m].index)
  BY <1>1, <1>3, <1>5
<1>9. \A i \in DOMAIN stored' : stored'[i] = Piece(cleaned', Step', i)
  BY <1>1, <1>3 DEF CutInv
<1>10. /\ phase' = "reading" =>
            /\ idx' * Step' <= Len(cleaned')
            /\ buf' = SubSeq(cleaned', idx' * Step' + 1, Len(cleaned'))
            /\ CutEnd(idx', Step') <= Len(cleaned')
       /\ phase' \in {"finalizing", "done"} =>
            Len(cleaned') - CutEnd(idx', Step') < MinChunkSize
  BY <1>1, <1>3 DEF CutInv
<1>11. QED
  BY <1>7, <1>8, <1>9, <1>10 DEF CutInv

\* A row is stored at its own number.
LEMMA CutsFlush ==
  ASSUME HeldInv, CountInv, CutInv, Flush \/ FlushSwallowed
  PROVE  CutInv'
<1>1. /\ batch' = <<>> /\ UNCHANGED <<phase, idx, out, buf, cleaned, overlap>>
      /\ Len(batch) = EmbedBatch \/ batch # <<>>
  BY DEF Flush, FlushSwallowed, Flushes, chunkVars, inputVars, historyVars
<1>2. /\ batch \in Seq(ChunkRows) /\ Len(batch) \in Nat /\ total \in Nat
      /\ EmbedBatch \in Nat \ {0}
  BY ConstantsOK DEF HeldInv, StreamType
<1>3. Step' = Step
  BY <1>1 DEF Step, Overlap
<1>4. Numbered(batch, total) /\ 1 \in 1..Len(batch)
  BY <1>1, <1>2 DEF CountInv
<1>5. batch[1].index = total
  BY <1>2, <1>4 DEF Numbered
<1>6. Indexes = total..total + Len(batch) - 1
  BY <1>2, <1>4, BatchIndexes
<1>7. ASSUME NEW i \in Indexes
      PROVE  batch[i - batch[1].index + 1].content = Piece(cleaned, Step, i)
  <2> DEFINE m == i - total + 1
  <2>1. m \in 1..Len(batch) /\ total + m - 1 = i /\ i - batch[1].index + 1 = m
    BY <1>2, <1>5, <1>6
  <2> HIDE DEF m
  <2>2. batch[m].index = i
    BY <1>4, <2>1 DEF Numbered
  <2>3. batch[m].content = Piece(cleaned, Step, batch[m].index)
    BY <2>1 DEF CutInv
  <2>4. QED
    BY <2>1, <2>2, <2>3
<1>8. \A i \in DOMAIN stored' : stored'[i] = Piece(cleaned, Step, i)
  <2>1. CASE Flush
    <3> DEFINE D == DOMAIN stored \cup Indexes
               v(i) == batch[i - batch[1].index + 1].content
    <3>1. stored' = [i \in D |-> IF i \in Indexes THEN v(i) ELSE stored[i]]
      BY <2>1 DEF Flush
    <3>2. \A i \in Indexes : v(i) = Piece(cleaned, Step, i)
      BY <1>7
    <3>3. \A i \in DOMAIN stored : stored[i] = Piece(cleaned, Step, i)
      BY DEF CutInv
    <3> HIDE DEF v
    <3>4. QED
      BY <3>1, <3>2, <3>3
  <2>2. CASE FlushSwallowed
    BY <2>2 DEF FlushSwallowed, CutInv
  <2>3. QED
    BY <2>1, <2>2
<1>9. \A i \in DOMAIN stored' : stored'[i] = Piece(cleaned', Step', i)
  BY <1>1, <1>3, <1>8
<1>10. \A m \in 1..Len(batch') : batch'[m].content = Piece(cleaned', Step', batch'[m].index)
  BY <1>1
<1>11. \A m \in 1..Len(out') : out'[m].content = Piece(cleaned', Step', out'[m].index)
  BY <1>1, <1>3 DEF CutInv
<1>12. /\ phase' = "reading" =>
            /\ idx' * Step' <= Len(cleaned')
            /\ buf' = SubSeq(cleaned', idx' * Step' + 1, Len(cleaned'))
            /\ CutEnd(idx', Step') <= Len(cleaned')
       /\ phase' \in {"finalizing", "done"} =>
            Len(cleaned') - CutEnd(idx', Step') < MinChunkSize
  BY <1>1, <1>3 DEF CutInv
<1>13. QED
  BY <1>9, <1>10, <1>11, <1>12 DEF CutInv

LEMMA CutsElsewhere ==
  ASSUME CutInv, EmbedFails \/ ReadFails \/ Done \/ Cancelled \/ UNCHANGED vars
  PROVE  CutInv'
<1>1. UNCHANGED <<idx, out, batch, stored, buf, cleaned, overlap>>
  BY DEF EmbedFails, ReadFails, Done, Cancelled, Flushes, chunkVars, storeVars,
         inputVars, historyVars, vars
<1>2. Step' = Step
  BY <1>1 DEF Step, Overlap
<1>3. /\ phase' = "reading" => phase = "reading"
      /\ phase' \in {"finalizing", "done"} => phase \in {"finalizing", "done"}
  BY DEF EmbedFails, ReadFails, Done, Cancelled, vars
<1>4. QED
  BY <1>1, <1>2, <1>3 DEF CutInv

LEMMA CutsStep == ASSUME HeldInv, CountInv, CutInv, [Next]_vars PROVE CutInv'
BY CutsUnit, CutsEnd, CutsEmit, CutsFlush, CutsElsewhere DEF Next, Steps

\* Whatever the object and however it was cut into units, row i of the store is
\* what stands at i * Step of the cleaned stream.
THEOREM RowsArePieces == Spec => []RowsAreTheStream
<1> DEFINE Inv == HeldInv /\ CountInv /\ CutInv
<1>1. Init => Inv
  BY HeldInit, CountInit, CutsInit
<1>2. Inv /\ [Next]_vars => Inv'
  BY HeldStep, CountStep, CutsStep
<1>3. Inv => RowsAreTheStream
  BY DEF CutInv, Piece, RowsAreTheStream
<1>4. QED
  BY <1>1, <1>2, <1>3, PTL DEF Spec

\* Wherever the run stops, the store holds a prefix of the chunks, but for those
\* of failed index batches; when it is done, nothing but less than a minimal
\* chunk is missing.
THEOREM StoredInOrder == Spec => []StoredIsPrefix
<1> DEFINE Inv == HeldInv /\ CountInv /\ CutInv
<1>1. Init => Inv
  BY HeldInit, CountInit, CutsInit
<1>2. Inv /\ [Next]_vars => Inv'
  BY HeldStep, CountStep, CutsStep
<1>3. ASSUME Inv PROVE StoredIsPrefix
  <2>1. ASSUME phase = "done" PROVE total = idx
    <3>1. out = <<>> /\ batch = <<>> /\ total \in Nat /\ Len(<<>>) = 0
      BY <1>3, <2>1 DEF CountInv, HeldInv, StreamType
    <3>2. total + Len(batch) + Len(out) = idx
      BY <1>3 DEF CountInv
    <3>3. QED
      BY <3>1, <3>2
  <2>2. QED
    BY <1>3, <2>1 DEF CountInv, CutInv, CutEnd, StoredIsPrefix
<1>4. QED
  BY <1>1, <1>2, <1>3, PTL DEF Spec

(***************************************************************************)
(* Lines are judged whole                                                  *)
(***************************************************************************)

\* Two parts of a sequence, one after the other.
LEMMA Splice ==
  ASSUME NEW S, NEW s \in Seq(S), NEW a \in Nat, NEW b \in Nat, NEW c \in Nat,
         a <= b, b <= c, c <= Len(s)
  PROVE  SubSeq(s, a + 1, b) \o SubSeq(s, b + 1, c) = SubSeq(s, a + 1, c)
<1> DEFINE p == SubSeq(s, a + 1, b)
           q == SubSeq(s, b + 1, c)
           r == SubSeq(s, a + 1, c)
<1>1. b \in a..Len(s) /\ c \in b..Len(s) /\ c \in a..Len(s) /\ Len(s) \in Nat
  OBVIOUS
<1>2. p \in Seq(S) /\ Len(p) = b - a /\ \A i \in 1..b - a : p[i] = s[a + i]
  BY <1>1, Part
<1>3. q \in Seq(S) /\ Len(q) = c - b /\ \A i \in 1..c - b : q[i] = s[b + i]
  BY <1>1, Part
<1>4. r \in Seq(S) /\ Len(r) = c - a /\ \A i \in 1..c - a : r[i] = s[a + i]
  BY <1>1, Part
<1> HIDE DEF p, q, r
<1>5. /\ p \o q \in Seq(S) /\ Len(p \o q) = Len(p) + Len(q)
      /\ \A i \in 1..Len(p) + Len(q) :
           (p \o q)[i] = IF i <= Len(p) THEN p[i] ELSE q[i - Len(p)]
  BY <1>2, <1>3, ConcatProperties
<1>6. ASSUME NEW i \in 1..c - a PROVE (p \o q)[i] = r[i]
  <2>1. i \in Nat /\ i >= 1 /\ i <= c - a /\ i \in 1..Len(p) + Len(q)
    BY <1>1, <1>2, <1>3
  <2>2. r[i] = s[a + i]
    BY <1>4
  <2>3. CASE i <= b - a
    <3>1. i \in 1..b - a
      BY <2>1, <2>3
    <3>2. QED
      BY <1>2, <1>5, <2>1, <2>2, <2>3, <3>1
  <2>4. CASE ~(i <= b - a)
    <3> DEFINE j == i - (b - a)
    <3>1. j \in 1..c - b /\ b + j = a + i
      BY <1>1, <2>1, <2>4
    <3>2. (p \o q)[i] = q[j]
      BY <1>2, <1>5, <2>1, <2>4
    <3> HIDE DEF j
    <3>3. q[j] = s[b + j]
      BY <1>3, <3>1
    <3>4. QED
      BY <2>2, <3>1, <3>2, <3>3
  <2>5. QED
    BY <2>3, <2>4
<1>7. Len(p \o q) = c - a
  BY <1>1, <1>2, <1>3, <1>5
<1>8. p \o q = r
  BY <1>4, <1>5, <1>6, <1>7, SeqEqual
<1>9. QED
  BY <1>8 DEF p, q, r

\* There is only one end of the last complete line.
LEMMA LineEndOnly ==
  ASSUME NEW S, NEW t \in Seq(S), NEW n \in 0..Len(t), n = 0 \/ t[n] = "nl",
         \A m \in n + 1..Len(t) : t[m] # "nl"
  PROVE  LastLineEnd(t) = n
<1> DEFINE e == LastLineEnd(t)
<1>1. /\ e \in 0..Len(t)
      /\ e = 0 \/ t[e] = "nl"
      /\ \A m \in e + 1..Len(t) : t[m] # "nl"
  BY LineEnd
<1> HIDE DEF e
<1>2. Len(t) \in Nat
  OBVIOUS
<1>3. ~(e < n)
  <2>1. SUFFICES ASSUME e < n PROVE FALSE
    OBVIOUS
  <2>2. n \in e + 1..Len(t) /\ n # 0
    BY <1>1, <1>2, <2>1
  <2>3. QED
    BY <1>1, <2>2
<1>4. ~(n < e)
  <2>1. SUFFICES ASSUME n < e PROVE FALSE
    OBVIOUS
  <2>2. e \in n + 1..Len(t) /\ e # 0
    BY <1>1, <1>2, <2>1
  <2>3. QED
    BY <1>1, <2>2
<1>5. e = n
  BY <1>1, <1>2, <1>3, <1>4
<1>6. QED
  BY <1>5 DEF e

\* Two positions are on one line if no newline stands between them.
LEMMA LineFacts ==
  ASSUME NEW t, NEW i \in Nat, NEW m \in Nat
  PROVE  /\ \A x \in Nat : i <= x /\ x < m /\ t[x] = "nl" => ~SameLine(t, i, m)
         /\ \A x \in Nat : m <= x /\ x < i /\ t[x] = "nl" => ~SameLine(t, i, m)
         /\ SameLine(t, i, m) <=>
              \A x \in Nat : (i <= x /\ x < m) \/ (m <= x /\ x < i) => t[x] # "nl"
<1> DEFINE R == IF i < m THEN i..m - 1 ELSE m..i - 1
<1>1. \A x \in R : x \in Nat /\ ((i <= x /\ x < m) \/ (m <= x /\ x < i))
  OBVIOUS
<1>2. \A x \in Nat : (i <= x /\ x < m) \/ (m <= x /\ x < i) => x \in R
  OBVIOUS
<1>3. SameLine(t, i, m) <=> \A x \in R : t[x] # "nl"
  BY DEF SameLine
<1> HIDE DEF R
<1>4. SameLine(t, i, m) <=>
        \A x \in Nat : (i <= x /\ x < m) \/ (m <= x /\ x < i) => t[x] # "nl"
  BY <1>1, <1>2, <1>3
<1>5. QED
  BY <1>4

\* Guardrails judge what ends with a line and what follows it apart.
LEMMA GuardConcat ==
  ASSUME NEW S, NEW a \in Seq(S), NEW b \in Seq(S), a = <<>> \/ a[Len(a)] = "nl"
  PROVE  Guard(a \o b) = Guard(a) \o Guard(b)
<1> DEFINE t == a \o b
           la == Len(a)
           lb == Len(b)
<1>1. /\ t \in Seq(S) /\ Len(t) = la + lb /\ la \in Nat /\ lb \in Nat
      /\ \A i \in 1..la + lb : t[i] = IF i <= la THEN a[i] ELSE b[i - la]
  BY ConcatProperties
<1>2. DOMAIN a = 1..la /\ DOMAIN b = 1..lb /\ DOMAIN t = 1..la + lb
  BY <1>1
<1>3. la # 0 => a[la] = "nl"
  OBVIOUS
<1> HIDE DEF t, la, lb
<1>4. \A i \in 1..la : t[i] = a[i]
  BY <1>1
<1>5. \A i \in 1..lb : la + i \in 1..la + lb /\ t[la + i] = b[i]
  BY <1>1
<1>6. ASSUME NEW i \in 1..la, NEW m \in 1..la
      PROVE  SameLine(t, i, m) <=> SameLine(a, i, m)
  <2>1. i \in Nat /\ m \in Nat
    BY <1>1
  <2>2. \A x \in Nat : (i <= x /\ x < m) \/ (m <= x /\ x < i) => x \in 1..la
    BY <1>1
  <2>3. SameLine(t, i, m) <=>
          \A x \in Nat : (i <= x /\ x < m) \/ (m <= x /\ x < i) => t[x] # "nl"
    BY <2>1, LineFacts
  <2>4. SameLine(a, i, m) <=>
          \A x \in Nat : (i <= x /\ x < m) \/ (m <= x /\ x < i) => a[x] # "nl"
    BY <2>1, LineFacts
  <2>5. QED
    BY <1>4, <2>2, <2>3, <2>4
<1>7. ASSUME NEW i \in 1..lb, NEW m \in 1..lb
      PROVE  SameLine(t, la + i, la + m) <=> SameLine(b, i, m)
  <2>1. i \in Nat /\ m \in Nat /\ la + i \in Nat /\ la + m \in Nat
    BY <1>1
  <2> DEFINE P(x) == (la + i <= x /\ x < la + m) \/ (la + m <= x /\ x < la + i)
             Q(x) == (i <= x /\ x < m) \/ (m <= x /\ x < i)
  <2>2. SameLine(t, la + i, la + m) <=> \A x \in Nat : P(x) => t[x] # "nl"
    BY <2>1, LineFacts
  <2>3. SameLine(b, i, m) <=> \A x \in Nat : Q(x) => b[x] # "nl"
    BY <2>1, LineFacts
  <2>4. ASSUME NEW x \in Nat, P(x)
        PROVE  x - la \in 1..lb /\ Q(x - la) /\ t[x] = b[x - la]
    <3>1. x - la \in 1..lb /\ Q(x - la) /\ la + (x - la) = x
      BY <1>1, <2>4
    <3>2. QED
      BY <1>5, <3>1
  <2>5. ASSUME NEW x \in Nat, Q(x)
        PROVE  la + x \in Nat /\ P(la + x) /\ t[la + x] = b[x]
    <3>1. x \in 1..lb /\ P(la + x) /\ la + x \in Nat
      BY <1>1, <2>5
    <3>2. QED
      BY <1>5, <3>1
  <2>6. \A x \in 1..lb : x \in Nat
    OBVIOUS
  <2> HIDE DEF P, Q
  <2>7. ASSUME \A x \in Nat : P(x) => t[x] # "nl"
        PROVE  \A x \in Nat : Q(x) => b[x] # "nl"
    BY <2>5, <2>7
  <2>8. ASSUME \A x \in Nat : Q(x) => b[x] # "nl"
        PROVE  \A x \in Nat : P(x) => t[x] # "nl"
    BY <2>4, <2>6, <2>8
  <2>9. QED
    BY <2>2, <2>3, <2>7, <2>8
<1>8. ASSUME NEW i \in 1..la, NEW m \in 1..lb
      PROVE  ~SameLine(t, i, la + m) /\ ~SameLine(t, la + m, i)
  <2>1. /\ la \in Nat /\ i \in Nat /\ la + m \in Nat /\ i <= la /\ la < la + m
        /\ la \in 1..la /\ la # 0
    BY <1>1
  <2>2. t[la] = "nl"
    BY <1>3, <1>4, <2>1
  <2>3. QED
    BY <2>1, <2>2, LineFacts
<1>9. \A i \in 1..la : i \in Passing(t) <=> i \in Passing(a)
  <2>1. ASSUME NEW i \in 1..la PROVE i \in Passing(t) <=> i \in Passing(a)
    <3>1. i \in Passing(a) <=> \A m \in 1..la : a[m] = "key" => ~SameLine(a, i, m)
      BY <1>2 DEF Passing
    <3>2. i \in Passing(t) <=> \A m \in 1..la + lb : t[m] = "key" => ~SameLine(t, i, m)
      <4>1. i \in 1..la + lb
        BY <1>1
      <4>2. QED
        BY <1>2, <4>1 DEF Passing
    <3>3. ASSUME NEW m \in 1..la + lb, ~(m \in 1..la) PROVE ~SameLine(t, i, m)
      <4>1. m - la \in 1..lb /\ la + (m - la) = m
        BY <1>1, <3>3
      <4>2. ~SameLine(t, i, la + (m - la))
        BY <1>8, <4>1
      <4>3. QED
        BY <4>1, <4>2
    <3>4. \A m \in 1..la : m \in 1..la + lb
      BY <1>1
    <3>5. QED
      BY <1>4, <1>6, <3>1, <3>2, <3>3, <3>4
  <2>2. QED
    BY <2>1
<1>10. \A i \in 1..lb : la + i \in Passing(t) <=> i \in Passing(b)
  <2>1. ASSUME NEW i \in 1..lb PROVE la + i \in Passing(t) <=> i \in Passing(b)
    <3>1. i \in Passing(b) <=> \A m \in 1..lb : b[m] = "key" => ~SameLine(b, i, m)
      BY <1>2 DEF Passing
    <3>2. la + i \in Passing(t) <=>
            \A m \in 1..la + lb : t[m] = "key" => ~SameLine(t, la + i, m)
      BY <1>2, <1>5 DEF Passing
    <3>3. \A m \in 1..la : ~SameLine(t, la + i, m)
      BY <1>8
    <3>4. \A m \in 1..la + lb : m \in 1..la \/ (m - la \in 1..lb /\ la + (m - la) = m)
      BY <1>1
    <3>5. ASSUME \A m \in 1..lb : b[m] = "key" => ~SameLine(b, i, m),
                 NEW m \in 1..la + lb, t[m] = "key"
          PROVE  ~SameLine(t, la + i, m)
      <4>1. CASE m \in 1..la
        BY <3>3, <4>1
      <4>2. CASE m \notin 1..la
        <5> DEFINE j == m - la
        <5>1. j \in 1..lb /\ la + j = m
          BY <3>4, <4>2
        <5> HIDE DEF j
        <5>2. b[j] = "key"
          BY <1>5, <3>5, <5>1
        <5>3. ~SameLine(b, i, j)
          BY <3>5, <5>1, <5>2
        <5>4. ~SameLine(t, la + i, la + j)
          BY <1>7, <5>1, <5>3
        <5>5. QED
          BY <5>1, <5>4
      <4>3. QED
        BY <4>1, <4>2
    <3>6. ASSUME \A m \in 1..la + lb : t[m] = "key" => ~SameLine(t, la + i, m),
                 NEW m \in 1..lb, b[m] = "key"
          PROVE  ~SameLine(b, i, m)
      <4>1. la + m \in 1..la + lb /\ t[la + m] = "key"
        BY <1>5, <3>6
      <4>2. ~SameLine(t, la + i, la + m)
        BY <3>6, <4>1
      <4>3. QED
        BY <1>7, <4>2
    <3>7. QED
      BY <3>1, <3>2, <3>5, <3>6
  <2>2. QED
    BY <2>1
<1>11. /\ Passing(a) \in SUBSET (1..la) /\ Passing(b) \in SUBSET (1..lb)
       /\ Passing(t) \in SUBSET (1..Len(t))
  BY <1>1, <1>2 DEF Passing
<1>12. Pick(t, Passing(t)) = Pick(a, Passing(a)) \o Pick(b, Passing(b))
  <2> DEFINE ka == Passing(a)
             kb == Passing(b)
             k == Passing(t)
  <2>1. /\ ka \in SUBSET (1..Len(a)) /\ kb \in SUBSET (1..Len(b))
        /\ k \in SUBSET (1..Len(a \o b))
    BY <1>11 DEF la, lb, t
  <2>2. /\ \A i \in 1..Len(a) : i \in k <=> i \in ka
        /\ \A i \in 1..Len(b) : Len(a) + i \in k <=> i \in kb
    BY <1>9, <1>10 DEF la, lb
  <2>3. Joined(a, b, ka, kb, k)
    BY <2>1, <2>2 DEF Joined
  <2> HIDE DEF ka, kb, k
  <2>4. Pick(a \o b, k) = Pick(a, ka) \o Pick(b, kb)
    BY <2>3, PickConcat
  <2>5. QED
    BY <2>4 DEF t, ka, kb, k
<1>13. QED
  BY <1>12 DEF Guard, t

\* Before the object has been read, the filter has let through what the
\* guardrails leave of the complete lines, and holds what follows them.
LineInv ==
  guarded /\ ~forced =>
    /\ phase \in {"reading", "cut"} =>
         LET end == LastLineEnd(SubSeq(text, 1, pos))
         IN  /\ filtered = Guard(SubSeq(text, 1, end))
             /\ partial = SubSeq(text, end + 1, pos)
    /\ phase \in {"finalizing", "done"} => filtered = Guard(text)

\* What is complete of the first p characters.
LEMMA CompleteLines ==
  ASSUME NEW S, NEW s \in Seq(S), NEW p \in 0..Len(s)
  PROVE  LET E == LastLineEnd(SubSeq(s, 1, p))
             a == SubSeq(s, 1, E)
         IN  /\ E \in 0..p
             /\ a \in Seq(S) /\ Len(a) = E
             /\ a = <<>> \/ a[Len(a)] = "nl"
             /\ E = 0 \/ s[E] = "nl"
             /\ \A m \in E + 1..p : s[m] # "nl"
<1> DEFINE q == SubSeq(s, 1, p)
           E == LastLineEnd(q)
           a == SubSeq(s, 1, E)
<1>1. p \in Nat /\ Len(s) \in Nat /\ p <= Len(s) /\ p \in 0..Len(s)
  OBVIOUS
<1>2. \A n \in 0..Len(s) : /\ SubSeq(s, 1, n) \in Seq(S) /\ Len(SubSeq(s, 1, n)) = n
                           /\ \A i \in 1..n : SubSeq(s, 1, n)[i] = s[i]
  <2>1. ASSUME NEW n \in 0..Len(s)
        PROVE  /\ SubSeq(s, 1, n) \in Seq(S) /\ Len(SubSeq(s, 1, n)) = n
               /\ \A i \in 1..n : SubSeq(s, 1, n)[i] = s[i]
    <3>1. /\ SubSeq(s, 0 + 1, n) \in Seq(S) /\ Len(SubSeq(s, 0 + 1, n)) = n - 0
          /\ \A i \in 1..n - 0 : SubSeq(s, 0 + 1, n)[i] = s[0 + i]
      BY Part
    <3>2. 0 + 1 = 1 /\ n - 0 = n /\ \A i \in 1..n : 0 + i = i
      BY <1>1
    <3>3. QED
      BY <3>1, <3>2
  <2>2. QED
    BY <2>1
<1>3. q \in Seq(S) /\ Len(q) = p /\ \A i \in 1..p : q[i] = s[i]
  BY <1>1, <1>2
<1> HIDE DEF q
<1>4. /\ E \in 0..p
      /\ E = 0 \/ q[E] = "nl"
      /\ \A m \in E + 1..p : q[m] # "nl"
  BY <1>3, LineEnd
<1> HIDE DEF E
<1>5. /\ E = 0 \/ s[E] = "nl"
      /\ \A m \in E + 1..p : s[m] # "nl"
  BY <1>1, <1>3, <1>4
<1>6. E \in 0..Len(s)
  BY <1>1, <1>4
<1>7. a \in Seq(S) /\ Len(a) = E /\ \A i \in 1..E : a[i] = s[i]
  BY <1>2, <1>6
<1> HIDE DEF a
<1>8. a = <<>> \/ a[Len(a)] = "nl"
  <2>1. CASE E = 0
    BY <1>7, <2>1
  <2>2. CASE E # 0
    <3>1. E \in 1..E
      BY <1>4, <2>2
    <3>2. QED
      BY <1>5, <1>7, <2>2, <3>1
  <2>3. QED
    BY <2>1, <2>2
<1>9. QED
  BY <1>4, <1>5, <1>7, <1>8 DEF q, E, a

\* n more characters: the lines they complete, and the new unfinished line.
Continued(S, s, p, n) ==
  LET E == LastLineEnd(SubSeq(s, 1, p))
      t == SubSeq(s, E + 1, p) \o SubSeq(s, p + 1, p + n)
      e == LastLineEnd(t)
  IN  /\ t \in Seq(S)
      /\ LastLineEnd(SubSeq(s, 1, p + n)) = E + e
      /\ Guard(SubSeq(s, 1, E)) \o Guard(SubSeq(t, 1, e)) = Guard(SubSeq(s, 1, E + e))
      /\ SubSeq(t, e + 1, Len(t)) = SubSeq(s, E + e + 1, p + n)

LEMMA MoreLines ==
  ASSUME NEW S, NEW s \in Seq(S), NEW p \in Nat, NEW n \in Nat, p + n <= Len(s)
  PROVE  Continued(S, s, p, n)
<1> DEFINE E == LastLineEnd(SubSeq(s, 1, p))
           r == SubSeq(s, E + 1, p + n)
           e == LastLineEnd(r)
           v == p + n
           a == SubSeq(s, 1, E)
<1>1. Len(s) \in Nat /\ p \in 0..Len(s) /\ v \in Nat /\ p <= v /\ v <= Len(s)
  OBVIOUS
<1>2. /\ E \in 0..p
      /\ a \in Seq(S) /\ Len(a) = E
      /\ a = <<>> \/ a[Len(a)] = "nl"
      /\ E = 0 \/ s[E] = "nl"
      /\ \A m \in E + 1..p : s[m] # "nl"
  BY <1>1, CompleteLines
<1> HIDE DEF E, v, a
<1>3. E \in Nat /\ E <= p /\ v \in E..Len(s)
  BY <1>1, <1>2
<1>4. SubSeq(s, E + 1, p) \o SubSeq(s, p + 1, v) = SubSeq(s, E + 1, v)
  BY <1>1, <1>3, Splice
<1>5. r = SubSeq(s, E + 1, v)
  BY DEF v
<1>6. r \in Seq(S) /\ Len(r) = v - E /\ \A i \in 1..v - E : r[i] = s[E + i]
  BY <1>3, <1>5, Part
<1> HIDE DEF r
<1>7. /\ e \in 0..v - E
      /\ e = 0 \/ r[e] = "nl"
      /\ \A m \in e + 1..v - E : r[m] # "nl"
  BY <1>6, LineEnd
<1> HIDE DEF e
<1>8. e \in Nat /\ E + e \in 0..v /\ e \in 0..Len(r) /\ E + e \in Nat
  BY <1>1, <1>3, <1>6, <1>7
<1>9. E + e = 0 \/ s[E + e] = "nl"
  <2>1. CASE e = 0
    <3>1. E + e = E
      BY <1>3, <2>1
    <3>2. QED
      BY <1>2, <3>1
  <2>2. CASE e # 0
    <3>1. e \in 1..v - E
      BY <1>7, <2>2
    <3>2. QED
      BY <1>6, <1>7, <2>2, <3>1
  <2>3. QED
    BY <2>1, <2>2
<1>10. ASSUME NEW m \in E + e + 1..v PROVE s[m] # "nl"
  <2>1. m - E \in e + 1..v - E /\ m - E \in 1..v - E /\ E + (m - E) = m
    BY <1>3, <1>8
  <2>2. r[m - E] = s[E + (m - E)] /\ r[m - E] # "nl"
    BY <1>6, <1>7, <2>1
  <2>3. QED
    BY <2>1, <2>2
<1> DEFINE w == SubSeq(s, 1, v)
<1>11. w \in Seq(S) /\ Len(w) = v /\ \A i \in 1..v : w[i] = s[i]
  <2>1. /\ SubSeq(s, 0 + 1, v) \in Seq(S) /\ Len(SubSeq(s, 0 + 1, v)) = v - 0
        /\ \A i \in 1..v - 0 : SubSeq(s, 0 + 1, v)[i] = s[0 + i]
    <3>1. v \in 0..Len(s)
      BY <1>1
    <3>2. QED
      BY <3>1, Part
  <2>2. 0 + 1 = 1 /\ v - 0 = v /\ \A i \in 1..v : 0 + i = i
    BY <1>1
  <2>3. QED
    BY <2>1, <2>2
<1> HIDE DEF w
<1>12. LastLineEnd(w) = E + e
  <2> DEFINE g == E + e
  <2>1. g \in 0..v /\ g \in Nat /\ (g = 0 \/ s[g] = "nl") /\ \A m \in g + 1..v : s[m] # "nl"
    BY <1>8, <1>9, <1>10
  <2> HIDE DEF g
  <2>2. g = 0 \/ w[g] = "nl"
    <3>1. g # 0 => g \in 1..v
      BY <1>1, <2>1
    <3>2. QED
      BY <1>11, <2>1, <3>1
  <2>3. \A m \in g + 1..v : w[m] # "nl"
    <3>1. \A m \in g + 1..v : m \in 1..v
      BY <1>1, <2>1
    <3>2. QED
      BY <1>11, <2>1, <3>1
  <2>4. LastLineEnd(w) = g
    BY <1>11, <2>1, <2>2, <2>3, LineEndOnly
  <2>5. QED
    BY <2>4 DEF g
<1> DEFINE k == SubSeq(r, 1, e)
<1>13. k \in Seq(S) /\ k = SubSeq(s, E + 1, E + e)
  <2>1. v \in E..Len(s) /\ e \in 0..v - E /\ 0 \in Nat
    BY <1>3, <1>7
  <2>2. SubSeq(SubSeq(s, E + 1, v), 0 + 1, e) = SubSeq(s, E + 0 + 1, E + e)
    BY <1>3, <2>1, PartOfPart
  <2>3. 0 + 1 = 1 /\ E + 0 + 1 = E + 1
    BY <1>3
  <2>4. k = SubSeq(s, E + 1, E + e)
    BY <1>5, <2>2, <2>3
  <2>5. SubSeq(r, 0 + 1, e) \in Seq(S)
    BY <1>6, <1>8, Part
  <2>6. QED
    BY <2>3, <2>4, <2>5
<1> HIDE DEF k
<1>14. a \o k = SubSeq(s, 1, E + e)
  <2>1. E + e <= Len(s) /\ E <= E + e /\ 0 <= E
    BY <1>1, <1>3, <1>8
  <2>2. SubSeq(s, 0 + 1, E) \o SubSeq(s, E + 1, E + e) = SubSeq(s, 0 + 1, E + e)
    BY <1>3, <1>8, <2>1, Splice
  <2>3. 0 + 1 = 1
    OBVIOUS
  <2>4. QED
    BY <1>13, <2>2, <2>3 DEF a
<1>15. Guard(a \o k) = Guard(a) \o Guard(k)
  BY <1>2, <1>13, GuardConcat
<1>16. SubSeq(r, e + 1, Len(r)) = SubSeq(s, E + e + 1, v)
  <2>1. v - E \in e..v - E /\ E + (v - E) = v
    BY <1>1, <1>3, <1>7
  <2>2. SubSeq(SubSeq(s, E + 1, v), e + 1, v - E) = SubSeq(s, E + e + 1, E + (v - E))
    BY <1>3, <1>8, <2>1, PartOfPart
  <2>3. QED
    BY <1>5, <1>6, <2>1, <2>2
<1>17. /\ r \in Seq(S)
       /\ LastLineEnd(SubSeq(s, 1, p + n)) = E + e
       /\ Guard(SubSeq(s, 1, E)) \o Guard(SubSeq(r, 1, e)) = Guard(SubSeq(s, 1, E + e))
       /\ SubSeq(r, e + 1, Len(r)) = SubSeq(s, E + e + 1, p + n)
  BY <1>6, <1>12, <1>14, <1>15, <1>16 DEF w, v, k, a
<1>18. SubSeq(s, E + 1, p) \o SubSeq(s, p + 1, p + n) = r
  BY <1>4, <1>5 DEF v
<1>19. QED
  BY <1>17, <1>18 DEF E, e, Continued

LEMMA LinesInit == ASSUME Init PROVE LineInv
<1>1. /\ text \in Seq(Characters) /\ pos = 0 /\ phase = "reading"
      /\ partial = <<>> /\ filtered = <<>>
  BY ConstantsOK DEF Init
<1> DEFINE E == LastLineEnd(SubSeq(text, 1, 0))
<1>2. 0 \in 0..Len(text) /\ 0 \in Nat
  BY <1>1
<1>3. E \in 0..0
  BY <1>1, <1>2, CompleteLines
<1>4. E = 0
  BY <1>3
<1>5. SubSeq(text, 1, 0) = <<>>
  <2>1. SubSeq(text, 0 + 1, 0) \in Seq(Characters) /\ Len(SubSeq(text, 0 + 1, 0)) = 0 - 0
    BY <1>1, <1>2, Part
  <2>2. 0 + 1 = 1 /\ 0 - 0 = 0
    OBVIOUS
  <2>3. SubSeq(text, 1, 0) \in Seq(Characters) /\ Len(SubSeq(text, 1, 0)) = 0
    BY <2>1, <2>2
  <2>4. QED
    BY <2>3, EmptySeq
<1>6. Guard(<<>>) = <<>>
  <2>1. <<>> \in Seq(Characters) /\ Len(<<>>) = 0
    OBVIOUS
  <2>2. Guard(<<>>) \in Seq(Characters) /\ Len(Guard(<<>>)) \in 0..0
    BY <2>1, GuardFacts
  <2>3. Len(Guard(<<>>)) = 0
    BY <2>2
  <2>4. QED
    BY <2>2, <2>3, EmptySeq
<1> HIDE DEF E
<1>7. filtered = Guard(SubSeq(text, 1, E)) /\ partial = SubSeq(text, E + 1, pos)
  <2>1. SubSeq(text, 1, E) = <<>>
    BY <1>4, <1>5
  <2>2. E + 1 = 1
    BY <1>4
  <2>3. QED
    BY <1>1, <1>5, <1>6, <2>1, <2>2
<1>8. E = LastLineEnd(SubSeq(text, 1, pos))
  BY <1>1 DEF E
<1>9. QED
  BY <1>1, <1>7, <1>8 DEF LineInv

LEMMA LinesUnit ==
  ASSUME HeldInv, LineInv, NEW n \in 0..MaxUnit, ReadUnit(n)
  PROVE  LineInv'
<1> DEFINE t == partial \o Decoded(n)
           f == Filter(t)
           e == LastLineEnd(t)
           rest == SubSeq(t, e + 1, Len(t))
<1>1. SUFFICES ASSUME guarded', ~forced' PROVE LineInv'
  BY DEF LineInv
<1>2. /\ phase = "reading" /\ pos + n <= Len(text) /\ pos' = pos + n /\ phase' = "reading"
      /\ UNCHANGED <<text, guarded>>
      /\ filtered' = filtered \o f.text /\ partial' = f.partial
  BY DEF ReadUnit, inputVars
<1>3. guarded
  BY <1>1, <1>2
<1>4. ~forced /\ ~(guarded /\ Len(t) - e > MaxPartial)
  <2>1. forced' = (forced \/ (guarded /\ Len(t) - e > MaxPartial))
    BY DEF ReadUnit
  <2>2. QED
    BY <1>1, <2>1
<1>5. ~(Len(t) - e > MaxPartial)
  BY <1>3, <1>4
<1>6. /\ text \in Seq(Characters) /\ pos \in Nat /\ n \in Nat /\ MaxPartial \in Nat
      /\ Len(text) \in Nat
  BY ConstantsOK DEF HeldInv, StreamType
<1> DEFINE E == LastLineEnd(SubSeq(text, 1, pos))
<1>7. filtered = Guard(SubSeq(text, 1, E)) /\ partial = SubSeq(text, E + 1, pos)
  BY <1>2, <1>3, <1>4 DEF LineInv
<1>8. t = SubSeq(text, E + 1, pos) \o SubSeq(text, pos + 1, pos + n)
  BY <1>7 DEF Decoded
<1>9. /\ t \in Seq(Characters)
      /\ LastLineEnd(SubSeq(text, 1, pos + n)) = E + e
      /\ Guard(SubSeq(text, 1, E)) \o Guard(SubSeq(t, 1, e)) = Guard(SubSeq(text, 1, E + e))
      /\ rest = SubSeq(text, E + e + 1, pos + n)
  <2>1. pos + n <= Len(text)
    BY <1>2
  <2>2. Continued(Characters, text, pos, n)
    BY <1>6, <2>1, MoreLines
  <2> DEFINE T == SubSeq(text, E + 1, pos) \o SubSeq(text, pos + 1, pos + n)
             ee == LastLineEnd(T)
  <2>3. /\ T \in Seq(Characters)
        /\ LastLineEnd(SubSeq(text, 1, pos + n)) = E + ee
        /\ Guard(SubSeq(text, 1, E)) \o Guard(SubSeq(T, 1, ee)) = Guard(SubSeq(text, 1, E + ee))
        /\ SubSeq(T, ee + 1, Len(T)) = SubSeq(text, E + ee + 1, pos + n)
    BY <2>2 DEF Continued
  <2>4. t = T /\ e = LastLineEnd(t) /\ rest = SubSeq(t, e + 1, Len(t))
    BY <1>8
  <2> HIDE DEF t, e, rest, E, T
  <2>5. QED
    BY <2>3, <2>4
<1>10. f.text = Guard(SubSeq(t, 1, e)) /\ f.partial = rest
  <2>1. e \in 0..Len(t) /\ Len(t) \in Nat
    <3>1. t \in Seq(Characters)
      BY <1>9
    <3> HIDE DEF t
    <3>2. QED
      BY <3>1, LineEnd
  <2>2. Len(rest) = Len(t) - e
    <3> HIDE DEF t, e
    <3>1. Len(t) \in e..Len(t) /\ e \in Nat
      BY <2>1
    <3>2. QED
      BY <1>9, <3>1, Part
  <2>3. ~(Len(rest) > MaxPartial)
    BY <1>5, <2>2
  <2>4. f = [text |-> Guard(SubSeq(t, 1, e)), partial |-> rest]
    BY <1>3, <2>3 DEF Filter
  <2> HIDE DEF rest, t, e, f
  <2>5. QED
    BY <2>4
<1> HIDE DEF t, f, e, rest, E
<1>11. LastLineEnd(SubSeq(text', 1, pos')) = E + e
  BY <1>2, <1>9
<1>12. filtered' = Guard(SubSeq(text', 1, E + e)) /\ partial' = SubSeq(text', E + e + 1, pos')
  BY <1>2, <1>7, <1>9, <1>10
<1>13. phase' = "reading"
  BY <1>2
<1>14. QED
  BY <1>11, <1>12, <1>13 DEF LineInv

LEMMA LinesEnd == ASSUME HeldInv, LineInv, Finalize PROVE LineInv'
<1>1. SUFFICES ASSUME guarded', ~forced' PROVE LineInv'
  BY DEF LineInv
<1>2. /\ phase = "reading" /\ pos = Len(text) /\ phase' = "finalizing"
      /\ UNCHANGED <<text, guarded, forced>>
      /\ filtered' = filtered \o LastLine
  BY DEF Finalize, LastLine, inputVars
<1>3. guarded /\ ~forced
  BY <1>1, <1>2
<1>4. text \in Seq(Characters) /\ Len(text) \in Nat /\ pos \in 0..Len(text) /\ pos \in Nat
  BY <1>2 DEF HeldInv, StreamType
<1> DEFINE E == LastLineEnd(SubSeq(text, 1, pos))
           a == SubSeq(text, 1, E)
           b == SubSeq(text, E + 1, pos)
<1>5. filtered = Guard(a) /\ partial = b
  BY <1>2, <1>3 DEF LineInv
<1>6. filtered' = Guard(a) \o Guard(b)
  BY <1>2, <1>3, <1>5 DEF LastLine
<1>7. /\ E \in 0..pos
      /\ a \in Seq(Characters)
      /\ a = <<>> \/ a[Len(a)] = "nl"
  BY <1>4, CompleteLines
<1> HIDE DEF E
<1>8. b \in Seq(Characters)
  <2>1. E \in Nat /\ pos \in E..Len(text)
    BY <1>4, <1>7
  <2>2. QED
    BY <1>4, <2>1, Part
<1>9. a \o b = text
  <2>1. 0 <= E /\ E <= pos /\ pos <= Len(text) /\ E \in Nat
    BY <1>4, <1>7
  <2>2. SubSeq(text, 0 + 1, E) \o SubSeq(text, E + 1, pos) = SubSeq(text, 0 + 1, pos)
    BY <1>4, <2>1, Splice
  <2>3. SubSeq(text, 0 + 1, Len(text)) = text
    <3>1. /\ SubSeq(text, 0 + 1, Len(text)) \in Seq(Characters)
          /\ Len(SubSeq(text, 0 + 1, Len(text))) = Len(text) - 0
          /\ \A i \in 1..Len(text) - 0 : SubSeq(text, 0 + 1, Len(text))[i] = text[0 + i]
      <4>1. Len(text) \in 0..Len(text)
        BY <1>4
      <4>2. QED
        BY <1>4, <4>1, Part
    <3>2. Len(text) - 0 = Len(text) /\ \A i \in 1..Len(text) : 0 + i = i
      BY <1>4
    <3> DEFINE u == SubSeq(text, 0 + 1, Len(text))
    <3>3. u \in Seq(Characters) /\ Len(u) = Len(text) /\ \A i \in 1..Len(text) : u[i] = text[i]
      BY <3>1, <3>2
    <3> HIDE DEF u
    <3>4. u = text
      BY <1>4, <3>3, SeqEqual
    <3>5. QED
      BY <3>4 DEF u
  <2>4. 0 + 1 = 1
    OBVIOUS
  <2>5. QED
    BY <1>2, <2>2, <2>3, <2>4
<1> HIDE DEF a, b
<1>10. Guard(a \o b) = Guard(a) \o Guard(b)
  BY <1>7, <1>8, GuardConcat
<1>11. filtered' = Guard(text')
  BY <1>2, <1>6, <1>9, <1>10
<1>12. QED
  BY <1>2, <1>11 DEF LineInv

LEMMA LinesElsewhere ==
  ASSUME LineInv, \/ Emit \/ Flush \/ FlushSwallowed \/ EmbedFails \/ ReadFails
                  \/ Done \/ Cancelled \/ UNCHANGED vars
  PROVE  LineInv'
<1>1. UNCHANGED <<inputVars, pos, partial, historyVars>>
  BY DEF Emit, Flush, FlushSwallowed, EmbedFails, ReadFails, Done, Cancelled, Flushes, vars
<1>2. UNCHANGED <<text, guarded, pos, partial, filtered, forced>>
  BY <1>1 DEF inputVars, historyVars
<1>3. /\ phase' \in {"reading", "cut"} => phase \in {"reading", "cut"}
      /\ phase' \in {"finalizing", "done"} => phase \in {"finalizing", "done"}
  BY DEF Emit, Flush, FlushSwallowed, EmbedFails, ReadFails, Done, Cancelled, Flushes, vars
<1>4. QED
  BY <1>2, <1>3 DEF LineInv

LEMMA LinesStep == ASSUME HeldInv, LineInv, [Next]_vars PROVE LineInv'
BY LinesUnit, LinesEnd, LinesElsewhere DEF Next, Steps

\* However the object is cut into units, a line is judged whole, unless it has
\* outgrown the filter.
THEOREM WholeLines == Spec => []LinesAreJudgedWhole
<1> DEFINE Inv == HeldInv /\ LineInv
<1>1. Init => Inv
  BY HeldInit, LinesInit
<1>2. Inv /\ [Next]_vars => Inv'
  BY HeldStep, LinesStep
<1>3. Inv => LinesAreJudgedWhole
  BY DEF HeldInv, StreamType, LineInv, LinesAreJudgedWhole, Ended
<1>4. QED
  BY <1>1, <1>2, <1>3, PTL DEF Spec

(***************************************************************************)
(* Types                                                                   *)
(***************************************************************************)

\* What TypeOK says beyond HeldInv and CountInv.
KeptType ==
  /\ text \in Texts
  /\ guarded \in BOOLEAN
  /\ overlap \in Overlaps
  /\ half => text[pos + 1] \in Wide
  /\ \A i \in DOMAIN stored : stored[i] \in Contents
  /\ forced \in BOOLEAN

LEMMA KeptInit == ASSUME Init PROVE KeptType
<1>1. text \in Texts /\ overlap \in Overlaps /\ guarded \in BOOLEAN
  BY DEF Init
<1>2. ~half /\ forced \in BOOLEAN
  BY DEF Init
<1>3. stored = <<>> /\ DOMAIN <<>> = {}
  BY DEF Init
<1>4. \A i \in DOMAIN stored : stored[i] \in Contents
  BY <1>3
<1>5. QED
  BY <1>1, <1>2, <1>4 DEF KeptType

LEMMA KeptUnit ==
  ASSUME KeptType, NEW n \in 0..MaxUnit, ReadUnit(n)
  PROVE  KeptType'
<1>1. /\ UNCHANGED <<text, guarded, overlap, stored>> /\ pos' = pos + n
      /\ half' \in {FALSE, pos + n < Len(text) /\ text[pos + n + 1] \in Wide}
  BY DEF ReadUnit, inputVars, storeVars
<1>2. half' => text'[pos' + 1] \in Wide
  BY <1>1
<1>3. forced' \in BOOLEAN
  BY DEF ReadUnit
<1>4. QED
  BY <1>1, <1>2, <1>3 DEF KeptType

LEMMA KeptFlush == ASSUME HeldInv, CountInv, KeptType, Flush PROVE KeptType'
<1>1. /\ UNCHANGED <<text, guarded, overlap, pos, half, forced>>
      /\ Len(batch) = EmbedBatch \/ batch # <<>>
  BY DEF Flush, Flushes, inputVars, historyVars
<1>2. /\ batch \in Seq(ChunkRows) /\ Len(batch) \in Nat /\ total \in Nat
      /\ EmbedBatch \in Nat \ {0}
  BY ConstantsOK DEF HeldInv, StreamType
<1>3. Numbered(batch, total) /\ 1 \in 1..Len(batch)
  BY <1>1, <1>2 DEF CountInv
<1>4. batch[1].index = total
  BY <1>2, <1>3 DEF Numbered
<1>5. Indexes = total..total + Len(batch) - 1
  BY <1>2, <1>3, BatchIndexes
<1>6. \A m \in 1..Len(batch) : batch[m].content \in Contents
  <2>1. \A m \in 1..Len(batch) : batch[m] \in ChunkRows
    BY <1>2
  <2>2. \A row \in ChunkRows : row.content \in Contents
    BY DEF ChunkRows
  <2>3. QED
    BY <2>1, <2>2
<1>7. \A i \in Indexes : i - batch[1].index + 1 \in 1..Len(batch)
  BY <1>2, <1>4, <1>5
<1>8. \A i \in DOMAIN stored' : stored'[i] \in Contents
  <2> DEFINE D == DOMAIN stored \cup Indexes
             v(i) == batch[i - batch[1].index + 1].content
  <2>1. stored' = [i \in D |-> IF i \in Indexes THEN v(i) ELSE stored[i]]
    BY DEF Flush
  <2>2. \A i \in Indexes : v(i) \in Contents
    BY <1>6, <1>7
  <2>3. \A i \in DOMAIN stored : stored[i] \in Contents
    BY DEF KeptType
  <2> HIDE DEF v
  <2>4. QED
    BY <2>1, <2>2, <2>3
<1>9. QED
  BY <1>1, <1>8 DEF KeptType

LEMMA KeptElsewhere ==
  ASSUME KeptType, \/ Finalize \/ Emit \/ FlushSwallowed \/ EmbedFails \/ ReadFails
                   \/ Done \/ Cancelled \/ UNCHANGED vars
  PROVE  KeptType'
<1>1. UNCHANGED <<text, guarded, overlap, pos, half, forced, stored>>
  BY DEF Finalize, Emit, FlushSwallowed, EmbedFails, ReadFails, Done, Cancelled, Flushes,
         vars, inputVars, storeVars, historyVars
<1>2. QED
  BY <1>1 DEF KeptType

LEMMA KeptStep == ASSUME HeldInv, CountInv, KeptType, [Next]_vars PROVE KeptType'
BY KeptUnit, KeptFlush, KeptElsewhere DEF Next, Steps

\* Every variable keeps its type; a chunk has between MinChunkSize and ChunkSize
\* characters wherever it is.
THEOREM StreamTyped == Spec => []TypeOK
<1> DEFINE Inv == HeldInv /\ CountInv /\ KeptType
<1>1. Init => Inv
  BY HeldInit, CountInit, KeptInit
<1>2. Inv /\ [Next]_vars => Inv'
  BY HeldStep, CountStep, KeptStep
<1>3. ASSUME Inv PROVE TypeOK
  <2>1. \A c \in Contents : IsContent(c)
    BY DEF Contents, IsContent
  <2>2. \A s \in {out, batch} :
          \A n \in DOMAIN s : s[n].index \in Nat /\ IsContent(s[n].content)
    <3>1. out \in Seq(ChunkRows) /\ batch \in Seq(ChunkRows)
      BY <1>3 DEF HeldInv, StreamType
    <3>2. \A s \in Seq(ChunkRows) :
            \A n \in DOMAIN s : s[n].index \in Nat /\ s[n].content \in Contents
      <4>1. \A row \in ChunkRows : row.index \in Nat /\ row.content \in Contents
        BY DEF ChunkRows
      <4>2. \A s \in Seq(ChunkRows) : \A n \in DOMAIN s : s[n] \in ChunkRows
        OBVIOUS
      <4>3. QED
        BY <4>1, <4>2
    <3>3. QED
      BY <2>1, <3>1, <3>2
  <2>3. total \in Nat /\ DOMAIN stored \cup swallowed = 0..total - 1
    BY <1>3 DEF HeldInv, StreamType, CountInv
  <2>4. swallowed \subseteq Nat /\ \A i \in DOMAIN stored : i \in Nat
    BY <2>3
  <2>5. \A i \in DOMAIN stored : i \in Nat /\ IsContent(stored[i])
    BY <1>3, <2>1, <2>4 DEF KeptType
  <2>6. {idx, total} \subseteq Nat
    BY <1>3 DEF HeldInv, StreamType
  <2>7. QED
    BY <1>3, <2>2, <2>4, <2>5, <2>6 DEF TypeOK, HeldInv, StreamType, KeptType
<1>4. QED
  BY <1>1, <1>2, <1>3, PTL DEF Spec
=============================================================================
