--------------------------- MODULE SequenceLemmas ---------------------------
(***************************************************************************)
(* Facts about finite sets of numbers and about the operators on sequences *)
(* that the models use, for the proofs of several components.              *)
(***************************************************************************)
EXTENDS Integers, SequencesExt, FiniteSetTheorems, WellFoundedInduction, TLAPS

-----------------------------------------------------------------------------
(* Finite sets of numbers *)

\* Every set of naturals that is not empty has a least element.
LEMMA LeastNatural ==
    ASSUME NEW S \in SUBSET Nat, S # {}
    PROVE  \E m \in S : \A s \in S : m <= s
<1> DEFINE R == OpToRel(<, Nat)
<1>1. PICK m \in S : \A s \in S : <<s, m>> \notin R
  BY NatLessThanWellFounded, WFMin
<1>2. ASSUME NEW s \in S PROVE m <= s
  <2>1. ~(s < m)
    BY <1>1 DEF OpToRel
  <2> QED
    BY <2>1
<1> QED
  BY <1>2

\* Induction, for a set of positions
LEMMA AllPositions ==
    ASSUME NEW n \in Nat, NEW S, 0 \in S, \A k \in 1 .. n : k - 1 \in S => k \in S
    PROVE  \A k \in 0 .. n : k \in S
<1> DEFINE Bad == (0 .. n) \ S
<1> SUFFICES ASSUME Bad # {} PROVE FALSE
  OBVIOUS
<1>1. Bad \in SUBSET Nat
  OBVIOUS
<1>2. PICK k \in Bad : \A b \in Bad : k <= b
  <2> HIDE DEF Bad
  <2> QED
    BY <1>1, LeastNatural
<1>3. k \in 1 .. n /\ k - 1 \in 0 .. n /\ ~(k <= k - 1)
  OBVIOUS
<1>4. k - 1 \in S
  BY <1>2, <1>3
<1> QED
  BY <1>3, <1>4

\* A set of naturals with an upper bound has a greatest element, which Max is.
LEMMA MaxIsGreatest ==
    ASSUME NEW n \in Nat, NEW S \in SUBSET (0..n), S # {}
    PROVE  Max(S) \in S /\ \A s \in S : s <= Max(S)
<1> DEFINE T == {n - s : s \in S}
<1>1. T \in SUBSET Nat /\ T # {}
  <2>1. \A s \in S : n - s \in Nat
    OBVIOUS
  <2> QED
    BY <2>1
<1>2. PICK t \in T : \A u \in T : t <= u
  BY <1>1, LeastNatural
<1>3. PICK m \in S : t = n - m
  OBVIOUS
<1>4. ASSUME NEW s \in S PROVE m >= s
  <2>1. n - s \in T /\ t <= n - s
    BY <1>2
  <2> QED
    BY <1>3, <2>1
<1>5. Max(S) \in S /\ \A s \in S : Max(S) >= s
  BY <1>4 DEF Max
<1>6. Max(S) \in 0..n
  BY <1>5
<1> QED
  BY <1>5, <1>6

\* A set of naturals that is not empty has a least element, which Min is.
LEMMA MinIsLeast ==
    ASSUME NEW S \in SUBSET Nat, S # {}
    PROVE  Min(S) \in S /\ \A s \in S : Min(S) <= s
<1>1. PICK m \in S : \A s \in S : m <= s
  BY LeastNatural
<1> QED
  BY <1>1 DEF Min

\* The values of a sequence of naturals have an upper bound.
LEMMA ValuesAreBounded ==
    ASSUME NEW n \in Nat, NEW g \in [1..n -> Nat]
    PROVE  \E b \in Nat : \A i \in 1..n : g[i] <= b
<1> DEFINE Bounded(k) == \E b \in Nat : \A i \in 1..k : g[i] <= b
           Bad == {k \in 0..n : ~Bounded(k)}
<1>1. SUFFICES ASSUME Bad # {} PROVE FALSE
  <2>1. n \notin Bad => Bounded(n)
    OBVIOUS
  <2> QED
    BY <1>1, <2>1
<1>2. PICK m \in Bad : \A k \in Bad : m <= k
  <2>1. Bad \in SUBSET Nat
    OBVIOUS
  <2> QED
    BY <1>1, <2>1, LeastNatural
<1>3. m # 0
  <2>1. Bounded(0)
    <3>1. \A i \in 1..0 : g[i] <= 0
      OBVIOUS
    <3> QED
      BY <3>1
  <2> QED
    BY <1>2, <2>1
<1>4. m \in 0..n /\ m - 1 \in 0..n
  BY <1>2, <1>3
<1>5. PICK b \in Nat : \A i \in 1..(m - 1) : g[i] <= b
  <2>1. m - 1 \notin Bad
    <3>1. ~(m <= m - 1)
      BY <1>4
    <3> HIDE DEF Bad
    <3> QED
      BY <1>2, <3>1
  <2>2. Bounded(m - 1)
    BY <1>4, <2>1
  <2> QED
    BY <2>2
<1>6. \A i \in 1..m : g[i] <= (IF b < g[m] THEN g[m] ELSE b)
  <2>1. ASSUME NEW i \in 1..m, i # m PROVE g[i] <= b
    BY <1>5, <2>1
  <2>2. m \in 1..n /\ g[m] \in Nat
    BY <1>3
  <2>3. ASSUME NEW i \in 1..m PROVE g[i] \in Nat
    OBVIOUS
  <2> QED
    BY <2>1, <2>2, <2>3
<1>7. (IF b < g[m] THEN g[m] ELSE b) \in Nat
  BY <1>3
<1>8. Bounded(m)
  BY <1>6, <1>7
<1> QED
  BY <1>2, <1>8

\* How many members of a set of indices come up to an index, grows with it.
LEMMA CountsGrow ==
    ASSUME NEW n \in Nat, NEW S \in SUBSET (1..n), NEW i \in Nat, NEW j \in S, i < j
    PROVE  /\ Cardinality(S \cap 1..i) \in Nat
           /\ Cardinality(S \cap 1..j) \in Nat
           /\ Cardinality(S \cap 1..i) < Cardinality(S \cap 1..j)
<1> DEFINE A == S \cap 1..i
           B == S \cap 1..j
<1>1. IsFiniteSet(A) /\ IsFiniteSet(B)
  BY FS_Interval, FS_Subset
<1>2. A \in SUBSET B /\ A # B
  <2>1. j \in B /\ j \notin A
    OBVIOUS
  <2> QED
    BY <2>1
<1>3. Cardinality(A) <= Cardinality(B) /\ Cardinality(A) # Cardinality(B)
  BY <1>1, <1>2, FS_Subset
<1>4. Cardinality(A) \in Nat /\ Cardinality(B) \in Nat
  BY <1>1, FS_CardinalityType
<1> QED
  BY <1>3, <1>4

\* What SelectInSeq and SelectLastInSeq return, of the positions they look for.
LEMMA FirstPosition ==
    ASSUME NEW n \in Nat, NEW I \in SUBSET (1..n),
           NEW k, k = IF I # {} THEN Min(I) ELSE 0
    PROVE  /\ k \in 0..n /\ (k = 0 <=> I = {})
           /\ k # 0 => k \in I /\ \A i \in I : k <= i
<1>1. CASE I = {}
  BY <1>1
<1>2. CASE I # {}
  <2>1. I \in SUBSET Nat
    OBVIOUS
  <2>2. k \in I /\ \A i \in I : k <= i
    BY <1>2, <2>1, MinIsLeast
  <2> QED
    BY <1>2, <2>2
<1> QED
  BY <1>1, <1>2

LEMMA LastPosition ==
    ASSUME NEW n \in Nat, NEW I \in SUBSET (1..n),
           NEW k, k = IF I # {} THEN Max(I) ELSE 0
    PROVE  /\ k \in 0..n /\ (k = 0 <=> I = {})
           /\ k # 0 => k \in I /\ \A i \in I : i <= k
<1>1. CASE I = {}
  BY <1>1
<1>2. CASE I # {}
  <2>1. I \in SUBSET (0..n)
    OBVIOUS
  <2>2. k \in I /\ \A i \in I : i <= k
    BY <1>2, <2>1, MaxIsGreatest
  <2> QED
    BY <1>2, <2>2
<1> QED
  BY <1>1, <1>2

\* An enumeration without repetitions counts the members of a set.
LEMMA EnumerationCounts ==
    ASSUME NEW S, NEW n \in Nat, NEW g \in [1..n -> S],
           \A i, j \in 1..n : g[i] = g[j] => i = j,
           \A x \in S : \E i \in 1..n : g[i] = x
    PROVE  IsFiniteSet(S) /\ Cardinality(S) = n
<1>1. g \in Bijection(1..n, S)
  BY DEF Bijection, Injection, Surjection, IsInjective
<1>2. ExistsBijection(1..n, S)
  BY <1>1 DEF ExistsBijection
<1> QED
  BY <1>2, FS_CountingElements, FS_NatBijection

-----------------------------------------------------------------------------
(* Sequences *)

LEMMA FunctionIsASequence ==
    ASSUME NEW T, NEW n \in Nat, NEW g \in [1..n -> T]
    PROVE  g \in Seq(T) /\ Len(g) = n
OBVIOUS

LEMMA SequenceIsAFunction ==
    ASSUME NEW T, NEW s \in Seq(T)
    PROVE  /\ Len(s) \in Nat /\ DOMAIN s = 1..Len(s)
           /\ s \in [1..Len(s) -> T]
           /\ \A i \in DOMAIN s : s[i] \in T
OBVIOUS

LEMMA ReplaceType ==
    ASSUME NEW T, NEW s \in Seq(T), NEW i \in DOMAIN s, NEW e \in T
    PROVE  [s EXCEPT ![i] = e] \in Seq(T) /\ Len([s EXCEPT ![i] = e]) = Len(s)
<1>1. Len(s) \in Nat /\ s \in [1..Len(s) -> T]
  BY SequenceIsAFunction
<1>2. [s EXCEPT ![i] = e] \in [1..Len(s) -> T]
  BY <1>1
<1> QED
  BY <1>1, <1>2, FunctionIsASequence

\* A function on the positions of a sequence is a sequence as long as it.
LEMMA MapType ==
    ASSUME NEW T, NEW U, NEW s \in Seq(T), NEW g \in [DOMAIN s -> U]
    PROVE  g \in Seq(U) /\ Len(g) = Len(s)
<1>1. Len(s) \in Nat /\ DOMAIN s = 1..Len(s)
  BY SequenceIsAFunction
<1> QED
  BY <1>1, FunctionIsASequence

LEMMA InsertAtType ==
    ASSUME NEW T, NEW s \in Seq(T), NEW i \in 1..(Len(s) + 1), NEW e \in T
    PROVE  InsertAt(s, i, e) \in Seq(T)
BY DEF InsertAt

\* What InsertAt puts where.
LEMMA InsertAtValues ==
    ASSUME NEW T, NEW s \in Seq(T), NEW i \in 1..(Len(s) + 1), NEW e \in T
    PROVE  /\ DOMAIN InsertAt(s, i, e) = 1..(Len(s) + 1)
           /\ \A k \in 1..(Len(s) + 1) :
                 InsertAt(s, i, e)[k] = IF k < i THEN s[k] ELSE IF k = i THEN e ELSE s[k - 1]
<1> DEFINE a == SubSeq(s, 1, i - 1) \o <<e>>
           b == SubSeq(s, i, Len(s))
<1>0. Len(s) \in Nat
  OBVIOUS
<1>1. a \in Seq(T) /\ Len(a) = i /\ a[i] = e /\ \A k \in 1..(i - 1) : a[k] = s[k]
  <2> DEFINE p == SubSeq(s, 1, i - 1)
  <2>1. p \in Seq(T) /\ Len(p) = i - 1 /\ \A k \in 1..(i - 1) : p[k] = s[k]
    OBVIOUS
  <2>2. i \in Nat /\ i > 0 /\ a = p \o <<e>>
    BY <1>0
  <2> HIDE DEF p, a
  <2>3. <<e>> \in Seq(T) /\ Len(<<e>>) = 1 /\ <<e>>[1] = e
    OBVIOUS
  <2>4. p \o <<e>> \in Seq(T) /\ Len(p \o <<e>>) = i
    BY <2>1, <2>2, <2>3
  <2>5. (p \o <<e>>)[i] = e
    BY <2>1, <2>2, <2>3
  <2>6. \A k \in 1..(i - 1) : (p \o <<e>>)[k] = p[k]
    BY <2>1, <2>2, <2>3
  <2> QED
    BY <2>1, <2>2, <2>4, <2>5, <2>6
<1>2. b \in Seq(T) /\ Len(b) = Len(s) - i + 1 /\ \A k \in 1..(Len(s) - i + 1) : b[k] = s[k + i - 1]
  OBVIOUS
<1> HIDE DEF a, b
<1>3. InsertAt(s, i, e) = a \o b
  BY DEF InsertAt, a, b
<1>4. Len(a \o b) = Len(s) + 1 /\ DOMAIN (a \o b) = 1..(Len(s) + 1)
  BY <1>0, <1>1, <1>2
<1>5. ASSUME NEW k \in 1..(Len(s) + 1)
      PROVE  (a \o b)[k] = IF k < i THEN s[k] ELSE IF k = i THEN e ELSE s[k - 1]
  <2>1. CASE k <= i
    <3>1. (a \o b)[k] = a[k]
      BY <1>0, <1>1, <1>2, <2>1
    <3> QED
      BY <1>1, <2>1, <3>1
  <2>2. CASE ~(k <= i)
    <3>1. (a \o b)[k] = b[k - i]
      BY <1>0, <1>1, <1>2, <2>2
    <3>2. k - i \in 1..(Len(s) - i + 1) /\ (k - i) + i - 1 = k - 1
      BY <1>0, <2>2
    <3> QED
      BY <1>2, <2>2, <3>1, <3>2
  <2> QED
    BY <2>1, <2>2
<1> QED
  BY <1>3, <1>4, <1>5

LEMMA RemoveAtType ==
    ASSUME NEW T, NEW s \in Seq(T), NEW i \in DOMAIN s
    PROVE  RemoveAt(s, i) \in Seq(T)
<1>1. SubSeq(s, 1, i - 1) \in Seq(T)
  OBVIOUS
<1>2. SubSeq(s, i + 1, Len(s)) \in Seq(T)
  OBVIOUS
<1> QED
  BY <1>1, <1>2 DEF RemoveAt

\* An element of the second of two sequences that are put together
LEMMA ConcatRight ==
    ASSUME NEW T, NEW s \in Seq(T), NEW t \in Seq(T), NEW k \in (Len(s) + 1)..(Len(s) + Len(t))
    PROVE  (s \o t)[k] = t[k - Len(s)]
OBVIOUS

\* What RemoveAt leaves where.
LEMMA RemoveAtValues ==
    ASSUME NEW T, NEW s \in Seq(T), NEW i \in DOMAIN s
    PROVE  /\ DOMAIN RemoveAt(s, i) = 1..(Len(s) - 1)
           /\ \A k \in 1..(Len(s) - 1) :
                 RemoveAt(s, i)[k] = IF k < i THEN s[k] ELSE s[k + 1]
<1> DEFINE a == SubSeq(s, 1, i - 1)
           b == SubSeq(s, i + 1, Len(s))
<1>1. a \in Seq(T) /\ Len(a) = i - 1 /\ \A k \in 1..(i - 1) : a[k] = s[k]
  OBVIOUS
<1>2. b \in Seq(T) /\ Len(b) = Len(s) - i /\ \A k \in 1..(Len(s) - i) : b[k] = s[k + i]
  OBVIOUS
<1> HIDE DEF a, b
<1>3. RemoveAt(s, i) = a \o b
  BY DEF RemoveAt, a, b
<1>4. Len(s) \in Nat /\ i \in 1..Len(s)
  OBVIOUS
<1>5. Len(a \o b) = Len(s) - 1 /\ DOMAIN (a \o b) = 1..(Len(s) - 1)
  BY <1>1, <1>2, <1>4
<1>6. ASSUME NEW k \in 1..(Len(s) - 1) PROVE (a \o b)[k] = IF k < i THEN s[k] ELSE s[k + 1]
  <2>1. CASE k < i
    BY <1>1, <1>2, <1>4, <2>1
  <2>2. CASE ~(k < i)
    <3>1. (a \o b)[k] = b[k - (i - 1)]
      <4> DEFINE n == Len(a)
                 m == Len(b)
      <4>1. n \in Nat /\ m \in Nat /\ n = i - 1 /\ k \in (n + 1)..(n + m)
        BY <1>1, <1>2, <1>4, <2>2
      <4>2. \A j \in (n + 1)..(n + m) : (a \o b)[j] = b[j - n]
        BY <1>1, <1>2, ConcatRight
      <4> HIDE DEF n, m
      <4> QED
        BY <4>1, <4>2
    <3>2. k - (i - 1) \in 1..(Len(s) - i) /\ (k - (i - 1)) + i = k + 1
      BY <1>4, <2>2
    <3> QED
      BY <1>2, <2>2, <3>1, <3>2
  <2> QED
    BY <2>1, <2>2
<1> QED
  BY <1>3, <1>5, <1>6

-----------------------------------------------------------------------------
(* Enumerations: sequences that have each member of a set once *)

Enumerates(s, S) == s \in Seq(S) /\ IsInjective(s) /\ ToSet(s) = S

\* The same, element by element.
LEMMA EnumerationOf ==
    ASSUME NEW s, NEW S, NEW T, s \in Seq(T)
    PROVE  /\ Len(s) \in Nat /\ DOMAIN s = 1..Len(s)
           /\ (/\ \A i \in DOMAIN s : s[i] \in S
               /\ \A i, j \in DOMAIN s : s[i] = s[j] => i = j
               /\ \A x \in S : \E i \in DOMAIN s : s[i] = x) => Enumerates(s, S)
<1>1. Len(s) \in Nat /\ DOMAIN s = 1..Len(s) /\ s \in [1..Len(s) -> T]
  BY SequenceIsAFunction
<1>2. ASSUME \A i \in DOMAIN s : s[i] \in S PROVE s \in Seq(S)
  <2>1. s \in [1..Len(s) -> S]
    BY <1>1, <1>2
  <2> QED
    BY <1>1, <2>1, FunctionIsASequence
<1> QED
  BY <1>1, <1>2 DEF Enumerates, IsInjective, ToSet

LEMMA EnumerationHas ==
    ASSUME NEW s, NEW S, Enumerates(s, S)
    PROVE  /\ s \in Seq(S) /\ Len(s) \in Nat /\ DOMAIN s = 1..Len(s)
           /\ \A i \in DOMAIN s : s[i] \in S
           /\ \A i, j \in DOMAIN s : s[i] = s[j] => i = j
           /\ \A x \in S : \E i \in DOMAIN s : s[i] = x
<1>1. s \in Seq(S) /\ IsInjective(s) /\ ToSet(s) = S
  BY DEF Enumerates
<1>2. Len(s) \in Nat /\ DOMAIN s = 1..Len(s) /\ \A i \in DOMAIN s : s[i] \in S
  BY <1>1, SequenceIsAFunction
<1> QED
  BY <1>1, <1>2 DEF IsInjective, ToSet

\* An enumerated set is finite, and as large as the sequence is long.
LEMMA EnumerationLength ==
    ASSUME NEW s, NEW S, Enumerates(s, S)
    PROVE  IsFiniteSet(S) /\ Cardinality(S) = Len(s)
<1>1. /\ s \in Seq(S) /\ Len(s) \in Nat /\ DOMAIN s = 1..Len(s)
      /\ \A i, j \in DOMAIN s : s[i] = s[j] => i = j
      /\ \A x \in S : \E i \in DOMAIN s : s[i] = x
  BY EnumerationHas
<1>2. s \in [1..Len(s) -> S]
  BY <1>1, SequenceIsAFunction
<1> QED
  BY <1>1, <1>2, EnumerationCounts

LEMMA InsertEnumerates ==
    ASSUME NEW s, NEW S, Enumerates(s, S), NEW e, e \notin S, NEW i \in 1..(Len(s) + 1)
    PROVE  Enumerates(InsertAt(s, i, e), S \cup {e})
<1> DEFINE t == InsertAt(s, i, e)
           U == S \cup {e}
           from(k) == IF k < i THEN k ELSE k - 1
           to(k) == IF k < i THEN k ELSE k + 1
<1>1. /\ Len(s) \in Nat /\ DOMAIN s = 1..Len(s)
      /\ \A k \in DOMAIN s : s[k] \in S
      /\ \A k, l \in DOMAIN s : s[k] = s[l] => k = l
      /\ \A x \in S : \E k \in DOMAIN s : s[k] = x
  BY EnumerationHas
<1>2. s \in Seq(U)
  <2>1. s \in [1..Len(s) -> U]
    BY EnumerationHas, SequenceIsAFunction
  <2> QED
    BY <1>1, <2>1, FunctionIsASequence
<1>3. /\ t \in Seq(U) /\ DOMAIN t = 1..(Len(s) + 1)
      /\ \A k \in 1..(Len(s) + 1) : t[k] = IF k < i THEN s[k] ELSE IF k = i THEN e ELSE s[k - 1]
  BY <1>2, InsertAtType, InsertAtValues
<1> HIDE DEF t
<1>4. t[i] = e
  BY <1>3
<1>5. \A k \in DOMAIN t \ {i} : from(k) \in DOMAIN s /\ t[k] = s[from(k)]
  BY <1>1, <1>3
<1>6. \A k, l \in DOMAIN t \ {i} : k # l => from(k) # from(l)
  BY <1>1, <1>3
<1>7. \A k \in DOMAIN s : to(k) \in DOMAIN t /\ t[to(k)] = s[k]
  BY <1>1, <1>3
<1> HIDE DEF from, to
<1>8. \A k \in DOMAIN t : t[k] \in U
  BY <1>1, <1>4, <1>5
<1>9. ASSUME NEW k \in DOMAIN t, NEW l \in DOMAIN t, t[k] = t[l] PROVE k = l
  BY <1>1, <1>4, <1>5, <1>6, <1>9
<1>10. \A x \in U : \E k \in DOMAIN t : t[k] = x
  <2>1. i \in DOMAIN t
    BY <1>3
  <2>2. ASSUME NEW x \in S PROVE \E k \in DOMAIN t : t[k] = x
    BY <1>1, <1>7
  <2> QED
    BY <1>4, <2>1, <2>2
<1> HIDE DEF U
<1>11. Enumerates(t, U)
  BY <1>3, <1>8, <1>9, <1>10, EnumerationOf
<1> QED
  BY <1>11 DEF t, U

\* Where the positions are when one is left out
LEMMA SkippedPositions ==
    ASSUME NEW n \in Nat, NEW i \in 1..n
    PROVE  /\ \A k \in 1..(n - 1) : (IF k < i THEN k ELSE k + 1) \in (1..n) \ {i}
           /\ \A k, l \in 1..(n - 1) :
                 (IF k < i THEN k ELSE k + 1) = (IF l < i THEN l ELSE l + 1) => k = l
           /\ \A k \in (1..n) \ {i} : \E l \in 1..(n - 1) : k = IF l < i THEN l ELSE l + 1
<1>1. \A k \in 1..(n - 1) : (IF k < i THEN k ELSE k + 1) \in (1..n) \ {i}
  OBVIOUS
<1>2. \A k, l \in 1..(n - 1) :
         (IF k < i THEN k ELSE k + 1) = (IF l < i THEN l ELSE l + 1) => k = l
  OBVIOUS
<1>3. ASSUME NEW k \in (1..n) \ {i}
      PROVE  \E l \in 1..(n - 1) : k = IF l < i THEN l ELSE l + 1
  <2>1. CASE k < i
    <3>1. k \in 1..(n - 1)
      BY <2>1
    <3> QED
      BY <2>1, <3>1
  <2>2. CASE ~(k < i)
    <3>1. k - 1 \in 1..(n - 1) /\ ~(k - 1 < i) /\ (k - 1) + 1 = k
      BY <2>2
    <3> QED
      BY <3>1
  <2> QED
    BY <2>1, <2>2
<1> QED
  BY <1>1, <1>2, <1>3

LEMMA RemoveEnumerates ==
    ASSUME NEW s, NEW S, Enumerates(s, S), NEW i \in DOMAIN s
    PROVE  Enumerates(RemoveAt(s, i), S \ {s[i]})
<1> DEFINE t == RemoveAt(s, i)
           U == S \ {s[i]}
           from(k) == IF k < i THEN k ELSE k + 1
<1>1. /\ s \in Seq(S) /\ Len(s) \in Nat /\ DOMAIN s = 1..Len(s)
      /\ \A k \in DOMAIN s : s[k] \in S
      /\ \A k, l \in DOMAIN s : s[k] = s[l] => k = l
      /\ \A x \in S : \E k \in DOMAIN s : s[k] = x
  BY EnumerationHas
<1>2. /\ t \in Seq(S) /\ DOMAIN t = 1..(Len(s) - 1)
      /\ \A k \in DOMAIN t : t[k] = s[from(k)]
  <2>1. t \in Seq(S)
    BY <1>1, RemoveAtType
  <2>2. /\ DOMAIN t = 1..(Len(s) - 1)
        /\ \A k \in 1..(Len(s) - 1) : t[k] = IF k < i THEN s[k] ELSE s[k + 1]
    BY <1>1, RemoveAtValues
  <2> HIDE DEF t
  <2>3. \A k \in DOMAIN t : t[k] = s[from(k)]
    BY <2>2
  <2> QED
    BY <2>1, <2>2, <2>3
<1> HIDE DEF t
<1>3. /\ \A k \in DOMAIN t : from(k) \in DOMAIN s \ {i}
      /\ \A k, l \in DOMAIN t : from(k) = from(l) => k = l
      /\ \A k \in DOMAIN s \ {i} : \E l \in DOMAIN t : k = from(l)
  <2> DEFINE n == Len(s)
  <2>1. n \in Nat /\ i \in 1..n /\ DOMAIN s = 1..n /\ DOMAIN t = 1..(n - 1)
    BY <1>1, <1>2
  <2> HIDE DEF n
  <2>2. /\ \A k \in 1..(n - 1) : from(k) \in (1..n) \ {i}
        /\ \A k, l \in 1..(n - 1) : from(k) = from(l) => k = l
        /\ \A k \in (1..n) \ {i} : \E l \in 1..(n - 1) : k = from(l)
    BY <2>1, SkippedPositions
  <2> HIDE DEF from
  <2> QED
    BY <2>1, <2>2
<1> HIDE DEF from
<1>4. \A k \in DOMAIN t : t[k] \in U
  BY <1>1, <1>2, <1>3
<1>5. \A k, l \in DOMAIN t : t[k] = t[l] => k = l
  BY <1>1, <1>2, <1>3
<1>6. \A x \in U : \E k \in DOMAIN t : t[k] = x
  BY <1>1, <1>2, <1>3
<1> HIDE DEF U
<1>7. Enumerates(t, U)
  BY <1>2, <1>4, <1>5, <1>6, EnumerationOf
<1> QED
  BY <1>7 DEF t, U

LEMMA ConcatEnumerates ==
    ASSUME NEW s, NEW S, Enumerates(s, S), NEW t, NEW T, Enumerates(t, T), S \cap T = {}
    PROVE  Enumerates(s \o t, S \cup T)
<1> DEFINE u == s \o t
           U == S \cup T
<1>1. /\ s \in Seq(S) /\ Len(s) \in Nat /\ DOMAIN s = 1..Len(s)
      /\ \A k \in DOMAIN s : s[k] \in S
      /\ \A k, l \in DOMAIN s : s[k] = s[l] => k = l
      /\ \A x \in S : \E k \in DOMAIN s : s[k] = x
  BY EnumerationHas
<1>2. /\ t \in Seq(T) /\ Len(t) \in Nat /\ DOMAIN t = 1..Len(t)
      /\ \A k \in DOMAIN t : t[k] \in T
      /\ \A k, l \in DOMAIN t : t[k] = t[l] => k = l
      /\ \A x \in T : \E k \in DOMAIN t : t[k] = x
  BY EnumerationHas
<1>3. s \in Seq(U) /\ t \in Seq(U)
  <2>1. s \in [1..Len(s) -> U] /\ t \in [1..Len(t) -> U]
    BY <1>1, <1>2, SequenceIsAFunction
  <2> QED
    BY <1>1, <1>2, <2>1, FunctionIsASequence
<1>4. /\ u \in Seq(U) /\ DOMAIN u = 1..(Len(s) + Len(t))
      /\ \A k \in 1..(Len(s) + Len(t)) : u[k] = IF k <= Len(s) THEN s[k] ELSE t[k - Len(s)]
  BY <1>1, <1>2, <1>3
<1> HIDE DEF u
<1>5. \A k \in DOMAIN s : k \in DOMAIN u /\ u[k] = s[k]
  BY <1>1, <1>2, <1>4
<1>6. \A k \in DOMAIN t : k + Len(s) \in DOMAIN u /\ u[k + Len(s)] = t[k]
  <2> TAKE k \in DOMAIN t
  <2>1. k + Len(s) \in 1..(Len(s) + Len(t)) /\ ~(k + Len(s) <= Len(s)) /\ (k + Len(s)) - Len(s) = k
    BY <1>1, <1>2
  <2> QED
    BY <1>4, <2>1
<1>7. \A k \in DOMAIN u : \/ k \in DOMAIN s /\ u[k] = s[k]
                          \/ k - Len(s) \in DOMAIN t /\ u[k] = t[k - Len(s)] /\ k \notin DOMAIN s
  BY <1>1, <1>2, <1>4
<1>8. \A k \in DOMAIN u : u[k] \in U
  BY <1>1, <1>2, <1>7
<1>9. ASSUME NEW k \in DOMAIN u, NEW l \in DOMAIN u, u[k] = u[l] PROVE k = l
  <2>1. CASE k \in DOMAIN s /\ l \in DOMAIN s
    BY <1>1, <1>5, <1>9, <2>1
  <2>2. CASE k \notin DOMAIN s /\ l \notin DOMAIN s
    <3>1. k - Len(s) = l - Len(s)
      BY <1>2, <1>7, <1>9, <2>2
    <3>2. k \in Int /\ l \in Int /\ Len(s) \in Int
      BY <1>1, <1>4
    <3> QED
      BY <3>1, <3>2
  <2>3. CASE (k \in DOMAIN s) # (l \in DOMAIN s)
    <3>1. u[k] \in S \cap T \/ u[l] \in S \cap T
      BY <1>1, <1>2, <1>7, <1>9, <2>3
    <3> QED
      BY <3>1
  <2> QED
    BY <2>1, <2>2, <2>3
<1>10. \A x \in U : \E k \in DOMAIN u : u[k] = x
  BY <1>1, <1>2, <1>5, <1>6
<1> HIDE DEF U
<1>11. Enumerates(u, U)
  BY <1>4, <1>8, <1>9, <1>10, EnumerationOf
<1> QED
  BY <1>11 DEF u, U

\* An element of an enumeration may be replaced by one that is not in it.
LEMMA ReplaceEnumerates ==
    ASSUME NEW s, NEW S, Enumerates(s, S), NEW i \in DOMAIN s, NEW e, e \notin S \ {s[i]}
    PROVE  Enumerates([s EXCEPT ![i] = e], (S \ {s[i]}) \cup {e})
<1> DEFINE t == [s EXCEPT ![i] = e]
           U == (S \ {s[i]}) \cup {e}
<1>1. /\ s \in Seq(S) /\ DOMAIN s = 1..Len(s) /\ Len(s) \in Nat
      /\ \A k \in DOMAIN s : s[k] \in S
      /\ \A k, l \in DOMAIN s : s[k] = s[l] => k = l
      /\ \A x \in S : \E k \in DOMAIN s : s[k] = x
  BY EnumerationHas
<1>2. DOMAIN t = DOMAIN s /\ t[i] = e /\ \A k \in DOMAIN s : k # i => t[k] = s[k]
  OBVIOUS
<1> HIDE DEF t
<1>3. \A k \in DOMAIN t : t[k] \in U
  BY <1>1, <1>2
<1>4. t \in Seq(U)
  <2>1. t \in [1..Len(s) -> U]
    BY <1>1, <1>3 DEF t
  <2> QED
    BY <1>1, <2>1, FunctionIsASequence
<1>5. ASSUME NEW k \in DOMAIN t, NEW l \in DOMAIN t, t[k] = t[l] PROVE k = l
  BY <1>1, <1>2, <1>5
<1>6. ASSUME NEW x \in U PROVE \E k \in DOMAIN t : t[k] = x
  BY <1>1, <1>2
<1> QED
  BY <1>3, <1>4, <1>5, <1>6, EnumerationOf DEF t

LEMMA AppendEnumerates ==
    ASSUME NEW s, NEW S, Enumerates(s, S), NEW e, e \notin S
    PROVE  Enumerates(Append(s, e), S \cup {e})
<1>1. s \in Seq(S)
  BY EnumerationHas
<1>2. Append(s, e) = s \o <<e>>
  BY <1>1
<1>3. Enumerates(<<e>>, {e})
  BY DEF Enumerates, IsInjective, ToSet
<1> QED
  BY <1>2, <1>3, ConcatEnumerates

\* RemoveFirst takes a member out of an enumeration.
LEMMA RemoveFirstEnumerates ==
    ASSUME NEW s, NEW S, Enumerates(s, S), NEW e \in S
    PROVE  Enumerates(RemoveFirst(s, e), S \ {e})
<1> DEFINE I == {i \in 1..Len(s) : s[i] = e}
           k == IF I # {} THEN Min(I) ELSE 0
<1>1. Len(s) \in Nat /\ DOMAIN s = 1..Len(s) /\ \E i \in DOMAIN s : s[i] = e
  BY EnumerationHas
<1>2. RemoveFirst(s, e) = RemoveAt(s, k)
  BY <1>1 DEF RemoveFirst, SelectInSeq
<1>3. I \in SUBSET (1..Len(s)) /\ I # {}
  BY <1>1
<1> HIDE DEF I
<1>4. k \in I
  BY <1>1, <1>3, FirstPosition
<1> HIDE DEF k
<1>5. k \in DOMAIN s /\ s[k] = e
  BY <1>1, <1>4 DEF I
<1>6. Enumerates(RemoveAt(s, k), S \ {s[k]})
  BY <1>5, RemoveEnumerates
<1> QED
  BY <1>2, <1>5, <1>6

\* Every sequence of SetToSeqs enumerates its set.
LEMMA SetToSeqsEnumerates ==
    ASSUME NEW S, IsFiniteSet(S), NEW s \in SetToSeqs(S)
    PROVE  Enumerates(s, S)
<1> DEFINE c == Cardinality(S)
<1>1. c \in Nat /\ IsFiniteSet(1..c) /\ Cardinality(1..c) = c
  BY FS_CardinalityType, FS_Interval
<1>2. s \in [1..c -> S] /\ \A i, j \in 1..c : i # j => s[i] # s[j]
  BY DEF SetToSeqs
<1>3. s \in Injection(1..c, S)
  BY <1>2 DEF Injection, IsInjective
<1>4. s \in Surjection(1..c, S)
  BY <1>1, <1>3, FS_Injection
<1> HIDE DEF c
<1>5. \A x \in S : \E i \in 1..c : s[i] = x
  BY <1>4 DEF Surjection
<1>6. s \in Seq(S) /\ Len(s) = c /\ DOMAIN s = 1..c
  BY <1>1, <1>2, FunctionIsASequence
<1> QED
  BY <1>2, <1>5, <1>6, EnumerationOf

\* An index that is put within bounds is within them.
LEMMA WithinBounds ==
    ASSUME NEW i \in Nat, NEW n \in Nat
    PROVE  Max({1, Min({i, n + 1})}) \in 1..(n + 1)
<1> DEFINE m == Min({i, n + 1})
           M == Max({1, m})
<1>1. m \in {i, n + 1} /\ m <= n + 1
  <2>1. {i, n + 1} \in SUBSET Nat /\ {i, n + 1} # {}
    OBVIOUS
  <2> QED
    BY <2>1, MinIsLeast
<1> HIDE DEF m
<1>2. M \in {1, m} /\ 1 <= M
  <2>1. {1, m} \in SUBSET (0..(n + 1)) /\ {1, m} # {} /\ n + 1 \in Nat
    BY <1>1
  <2> QED
    BY <2>1, MaxIsGreatest
<1> QED
  BY <1>1, <1>2 DEF m

\* The greatest element of a finite set of naturals.
LEMMA MaxOfFinite ==
    ASSUME NEW S \in SUBSET Nat, IsFiniteSet(S), S # {}
    PROVE  Max(S) \in S /\ \A s \in S : s <= Max(S)
<1> DEFINE n == Cardinality(S)
<1>1. n \in Nat /\ ExistsBijection(1..n, S)
  BY FS_CardinalityType
<1> HIDE DEF n
<1>2. PICK g \in Bijection(1..n, S) : TRUE
  BY <1>1 DEF ExistsBijection
<1>3. g \in [1..n -> Nat] /\ \A s \in S : \E i \in 1..n : g[i] = s
  BY <1>2 DEF Bijection, Injection, Surjection
<1>4. PICK b \in Nat : \A i \in 1..n : g[i] <= b
  BY <1>1, <1>3, ValuesAreBounded
<1>5. S \in SUBSET (0..b)
  BY <1>3, <1>4
<1> QED
  BY <1>5, MaxIsGreatest

\* The image of a finite set under a function is finite.
LEMMA ImageIsFinite ==
    ASSUME NEW S, IsFiniteSet(S), NEW f, DOMAIN f = S, f = [x \in S |-> f[x]]
    PROVE  IsFiniteSet({f[x] : x \in S})
<1> DEFINE T == {f[x] : x \in S}
<1>1. f \in Surjection(S, T)
  <2>1. f \in [S -> T]
    OBVIOUS
  <2> QED
    BY <2>1 DEF Surjection
<1> HIDE DEF T
<1>2. IsFiniteSet(T)
  BY <1>1, FS_Surjection
<1> QED
  BY <1>2 DEF T

\* SetToSeq enumerates its set.
LEMMA SetToSeqEnumerates ==
    ASSUME NEW S, IsFiniteSet(S)
    PROVE  Enumerates(SetToSeq(S), S)
<1> DEFINE c == Cardinality(S)
<1>1. c \in Nat /\ ExistsBijection(1..c, S)
  BY FS_CardinalityType
<1>2. PICK g \in Bijection(1..c, S) : TRUE
  BY <1>1 DEF ExistsBijection
<1>3. g \in [1..c -> S] /\ (\A i, j \in DOMAIN g : g[i] = g[j] => i = j)
  BY <1>2 DEF Bijection, Injection, IsInjective
<1>4. SetToSeq(S) \in [1..c -> S] /\ \A i, j \in DOMAIN SetToSeq(S) :
                                        SetToSeq(S)[i] = SetToSeq(S)[j] => i = j
  BY <1>3 DEF SetToSeq, IsInjective
<1>5. SetToSeq(S) \in SetToSeqs(S)
  BY <1>4 DEF SetToSeqs
<1> QED
  BY <1>5, SetToSeqsEnumerates
=============================================================================
