------------------------------ MODULE DataLemmas -----------------------------
(***************************************************************************)
(* What the proofs use of natural numbers and of lists.                    *)
(***************************************************************************)
EXTENDS Integers, FiniteSets, FiniteSetsExt, FiniteSetTheorems,
        SequenceTheorems, TLAPS

\* A nonempty set of naturals has a least element.  It stands in for induction:
\* a walk or a search that goes wrong goes wrong at a first place.
LEMMA LeastElement ==
  ASSUME NEW B \in SUBSET Nat, B # {}
  PROVE  \E m \in B : \A k \in B : m <= k
<1> DEFINE T == {0 .. m : m \in B}
<1>1. T \subseteq FiniteSubsetsOf(Nat)
  <2> SUFFICES ASSUME NEW m \in B PROVE 0 .. m \in FiniteSubsetsOf(Nat)
    OBVIOUS
  <2>1. IsFiniteSet(0 .. m)
    BY FS_Interval
  <2> QED BY <2>1 DEF FiniteSubsetsOf
<1>2. T # {}
  OBVIOUS
<1>3. IsWellFoundedOn(StrictSubsetOrdering(Nat), FiniteSubsetsOf(Nat))
  BY FS_StrictSubsetOrderingWellFounded
<1> HIDE DEF T
<1>4. PICK x \in T : \A y \in T : ~ (<<y, x>> \in StrictSubsetOrdering(Nat))
  BY <1>1, <1>2, <1>3, WFMin
<1> USE DEF T
<1>5. PICK m \in B : x = 0 .. m
  BY <1>4
<1>6. ASSUME NEW k \in B, k < m PROVE FALSE
  <2>1. 0 .. k \in T
    OBVIOUS
  <2>2. 0 .. k \subseteq 0 .. m /\ 0 .. k # 0 .. m
    <3>1. m \in 0 .. m /\ m \notin 0 .. k
      BY <1>6
    <3> QED BY <3>1, <1>6
  <2>3. <<0 .. k, 0 .. m>> \in StrictSubsetOrdering(Nat)
    BY <2>2 DEF StrictSubsetOrdering
  <2> QED BY <2>1, <2>3, <1>4, <1>5
<1> QED BY <1>6

LEMMA MinIsLeast ==
  ASSUME NEW B \in SUBSET Nat, B # {}
  PROVE  Min(B) \in B /\ \A k \in B : Min(B) <= k
<1>1. \E m \in B : \A k \in B : m <= k
  BY LeastElement
<1> QED
  BY <1>1 DEF Min

-----------------------------------------------------------------------------
(* Lists.                                                                  *)

\* The list without its k-th element.
Without(f, k) == SubSeq(f, 1, k - 1) \o SubSeq(f, k + 1, Len(f))

\* The elements behind the k-th move up by one.
LEMMA WithoutIs ==
  ASSUME NEW S, NEW f \in Seq(S), NEW k \in 1 .. Len(f)
  PROVE  /\ Without(f, k) \in Seq(S)
         /\ Len(Without(f, k)) = Len(f) - 1
         /\ \A i \in 1 .. Len(f) - 1 : Without(f, k)[i] = IF i < k THEN f[i] ELSE f[i + 1]
<1> DEFINE s == SubSeq(f, 1, k - 1)
           t == SubSeq(f, k + 1, Len(f))
<1>1. Len(f) \in Nat /\ k \in Int /\ k - 1 \in Int /\ k + 1 \in Int
  BY LenProperties
<1>2. \A i \in 1 .. Len(f) : f[i] \in S
  BY ElementOfSeq
<1>3. /\ s \in Seq(S)
      /\ Len(s) = k - 1
      /\ \A i \in 1 .. k - 1 : s[i] = f[i]
  <2>1. \A i \in 1 .. k - 1 : f[i] \in S
    BY <1>1, <1>2
  <2>2. /\ s \in Seq(S)
        /\ Len(s) = IF 1 <= k - 1 THEN k - 1 - 1 + 1 ELSE 0
        /\ \A i \in 1 .. k - 1 - 1 + 1 : s[i] = f[1 + i - 1]
    BY <1>1, <2>1, SubSeqProperties
  <2> QED
    BY <2>2, <1>1
<1>4. /\ t \in Seq(S)
      /\ Len(t) = Len(f) - k
      /\ \A i \in 1 .. Len(f) - k : t[i] = f[k + i]
  <2>1. \A i \in k + 1 .. Len(f) : f[i] \in S
    BY <1>1, <1>2
  <2>2. /\ t \in Seq(S)
        /\ Len(t) = IF k + 1 <= Len(f) THEN Len(f) - (k + 1) + 1 ELSE 0
        /\ \A i \in 1 .. Len(f) - (k + 1) + 1 : t[i] = f[k + 1 + i - 1]
    BY <1>1, <2>1, SubSeqProperties
  <2> QED
    BY <2>2, <1>1
<1> HIDE DEF s, t
<1>5. /\ s \o t \in Seq(S)
      /\ Len(s \o t) = Len(s) + Len(t)
      /\ \A i \in 1 .. Len(s) + Len(t) : (s \o t)[i] = IF i <= Len(s) THEN s[i] ELSE t[i - Len(s)]
  BY <1>3, <1>4, ConcatProperties
<1>6. \A i \in 1 .. Len(f) - 1 : (s \o t)[i] = IF i < k THEN f[i] ELSE f[i + 1]
  <2> SUFFICES ASSUME NEW i \in 1 .. Len(f) - 1
               PROVE  (s \o t)[i] = IF i < k THEN f[i] ELSE f[i + 1]
    OBVIOUS
  <2>1. CASE i < k
    BY <2>1, <1>1, <1>3, <1>4, <1>5
  <2>2. CASE ~ (i < k)
    <3>1. i - (k - 1) \in 1 .. Len(f) - k /\ k + (i - (k - 1)) = i + 1
      BY <2>2, <1>1
    <3>2. (s \o t)[i] = t[i - (k - 1)]
      BY <2>2, <1>1, <1>3, <1>4, <1>5
    <3> QED
      BY <3>1, <3>2, <2>2, <1>4
  <2> QED
    BY <2>1, <2>2
<1>7. Without(f, k) = s \o t
  BY DEF Without, s, t
<1>8. Len(s \o t) = Len(f) - 1
  BY <1>1, <1>3, <1>4, <1>5
<1> QED
  BY <1>5, <1>6, <1>7, <1>8

\* List f with m in the place of the elements after the p-th and before the q-th.
Spliced(f, p, m, q) == SubSeq(f, 1, p) \o <<m>> \o SubSeq(f, q, Len(f))

\* Where the elements of a spliced list come from.
LEMMA SplicedIs ==
  ASSUME NEW S, NEW f \in Seq(S), NEW m \in S,
         NEW p \in 0 .. Len(f), NEW q \in p + 1 .. Len(f) + 1
  PROVE  /\ Spliced(f, p, m, q) \in Seq(S)
         /\ Len(Spliced(f, p, m, q)) = p + 1 + (Len(f) + 1 - q)
         /\ \A i \in 1 .. p + 1 + (Len(f) + 1 - q) :
              Spliced(f, p, m, q)[i] = IF i <= p THEN f[i]
                                       ELSE IF i = p + 1 THEN m ELSE f[i - p - 2 + q]
<1> DEFINE s == SubSeq(f, 1, p)
           t == SubSeq(f, q, Len(f))
           e == <<m>>
<1>1. Len(f) \in Nat /\ p \in Nat /\ q \in Nat /\ p <= Len(f) /\ p < q /\ q <= Len(f) + 1
  BY LenProperties
<1>2. \A i \in 1 .. Len(f) : f[i] \in S
  BY ElementOfSeq
<1>3. /\ s \in Seq(S)
      /\ Len(s) = p
      /\ \A i \in 1 .. p : s[i] = f[i]
  <2>1. \A i \in 1 .. p : f[i] \in S
    BY <1>1, <1>2
  <2>2. /\ s \in Seq(S)
        /\ Len(s) = IF 1 <= p THEN p - 1 + 1 ELSE 0
        /\ \A i \in 1 .. p - 1 + 1 : s[i] = f[1 + i - 1]
    BY <1>1, <2>1, SubSeqProperties
  <2> QED
    BY <2>2, <1>1
<1>4. /\ t \in Seq(S)
      /\ Len(t) = Len(f) + 1 - q
      /\ \A i \in 1 .. Len(f) + 1 - q : t[i] = f[q + i - 1]
  <2>1. \A i \in q .. Len(f) : f[i] \in S
    BY <1>1, <1>2
  <2>2. /\ t \in Seq(S)
        /\ Len(t) = IF q <= Len(f) THEN Len(f) - q + 1 ELSE 0
        /\ \A i \in 1 .. Len(f) - q + 1 : t[i] = f[q + i - 1]
    BY <1>1, <2>1, SubSeqProperties
  <2> QED
    BY <2>2, <1>1
<1>5. e \in Seq(S) /\ Len(e) = 1 /\ e[1] = m
  OBVIOUS
<1> HIDE DEF s, t, e
<1>6. /\ s \o e \in Seq(S)
      /\ Len(s \o e) = Len(s) + Len(e)
      /\ \A i \in 1 .. Len(s) + Len(e) : (s \o e)[i] = IF i <= Len(s) THEN s[i] ELSE e[i - Len(s)]
  BY <1>3, <1>5, ConcatProperties
<1> DEFINE d == s \o e
<1>7. /\ d \in Seq(S)
      /\ Len(d) = p + 1
      /\ \A i \in 1 .. p : d[i] = f[i]
      /\ d[p + 1] = m
  <2>1. \A i \in 1 .. p : d[i] = f[i]
    BY <1>1, <1>3, <1>5, <1>6
  <2>2. d[p + 1] = e[p + 1 - p]
    BY <1>1, <1>3, <1>5, <1>6
  <2> QED
    BY <2>1, <2>2, <1>1, <1>3, <1>5, <1>6
<1> HIDE DEF d
<1>8. /\ d \o t \in Seq(S)
      /\ Len(d \o t) = Len(d) + Len(t)
      /\ \A i \in 1 .. Len(d) + Len(t) : (d \o t)[i] = IF i <= Len(d) THEN d[i] ELSE t[i - Len(d)]
  BY <1>7, <1>4, ConcatProperties
<1>9. Spliced(f, p, m, q) = d \o t
  BY DEF Spliced, d, s, t, e
<1>10. ASSUME NEW i \in 1 .. p + 1 + (Len(f) + 1 - q)
       PROVE  (d \o t)[i] = IF i <= p THEN f[i] ELSE IF i = p + 1 THEN m ELSE f[i - p - 2 + q]
  <2>1. i \in 1 .. Len(d) + Len(t)
    BY <1>1, <1>4, <1>7
  <2>2. CASE i <= p
    BY <2>1, <2>2, <1>1, <1>7, <1>8
  <2>3. CASE i = p + 1
    BY <2>1, <2>3, <1>1, <1>7, <1>8
  <2>4. CASE i > p + 1
    <3>1. i - (p + 1) \in 1 .. Len(f) + 1 - q /\ q + (i - (p + 1)) - 1 = i - p - 2 + q
      BY <2>4, <1>1
    <3>2. (d \o t)[i] = t[i - (p + 1)]
      BY <2>1, <2>4, <1>1, <1>7, <1>8
    <3> QED
      BY <3>1, <3>2, <2>4, <1>1, <1>4
  <2>5. i <= p \/ i = p + 1 \/ i > p + 1
    BY <1>1
  <2>6. i = p + 1 => ~ (i <= p)
    BY <1>1
  <2> QED
    BY <2>2, <2>3, <2>4, <2>5, <2>6
<1>11. Len(d \o t) = p + 1 + (Len(f) + 1 - q)
  BY <1>4, <1>7, <1>8
<1> QED
  BY <1>8, <1>9, <1>10, <1>11

\* Sets that a function maps onto each other, one to one, have the same size.
LEMMA SameCount ==
  ASSUME NEW S, NEW T, IsFiniteSet(S), NEW F \in [S -> T],
         \A x, y \in S : F[x] = F[y] => x = y,
         \A t \in T : \E x \in S : F[x] = t
  PROVE  IsFiniteSet(T) /\ Cardinality(T) = Cardinality(S)
<1>1. F \in Injection(S, T)
  BY DEF Injection, IsInjective
<1>2. F \in Surjection(S, T)
  BY DEF Surjection
<1>3. ExistsBijection(S, T)
  BY <1>1, <1>2 DEF Bijection, ExistsBijection
<1> QED
  BY <1>3, FS_Bijection
=============================================================================
