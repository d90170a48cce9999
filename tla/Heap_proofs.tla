----------------------------- MODULE Heap_proofs -----------------------------
(***************************************************************************)
(* Proofs about the free list of kernel/k_mem.c, for every size of heap,   *)
(* every set of owners and every set of requests.  A list, or a block, is  *)
(* looked at through the units that lie in it: an allocation takes the     *)
(* units of the block from the list, a deallocation adds them.             *)
(***************************************************************************)
EXTENDS Heap, DataLemmas

\* Unit u lies in node or block b ...
In(u, b) == b.at <= u /\ u < EndOf(b)

\* ... or in a node of free list f.
Covered(f, u) == \E k \in 1 .. Len(f) : In(u, f[k])

\* f is a free list: nodes of the heap, in address order, no two of them touching.
Ordered(f) ==
  /\ f \in Seq(Node)
  /\ \A k \in 1 .. Len(f) : EndOf(f[k]) <= TAIL
  /\ \A j, k \in 1 .. Len(f) : j < k => EndOf(f[j]) < f[k].at

\* The inductive invariant.  A unit lies in a node exactly if it lies in no block.
IInv ==
  /\ Ordered(free)
  /\ taken \subseteq Block /\ IsFiniteSet(taken)
  /\ \A b \in taken : EndOf(b) <= TAIL
  /\ \A b, c \in taken, u \in 1 .. TAIL - 1 : In(u, b) /\ In(u, c) => b = c
  /\ \A u \in 1 .. TAIL - 1 : Covered(free, u) <=> \A b \in taken : ~ In(u, b)

-----------------------------------------------------------------------------
(* Lists.                                                                  *)

\* The heap has room for at least one unit.
LEMMA HeapBounds == TAIL \in Nat /\ TAIL > 1
BY TailAssumption

\* A node of a free list lies in the heap and is not empty.
LEMMA NodeFacts ==
  ASSUME NEW f, Ordered(f), NEW k \in 1 .. Len(f)
  PROVE  /\ f[k] \in Node
         /\ f[k].at \in Nat /\ f[k].at >= 1
         /\ f[k].size \in Nat /\ f[k].size >= 1
         /\ EndOf(f[k]) = f[k].at + f[k].size
         /\ EndOf(f[k]) \in Nat
         /\ EndOf(f[k]) <= TAIL
<1>1. f[k] \in Node
  BY DEF Ordered
<1>2. EndOf(f[k]) <= TAIL
  BY DEF Ordered
<1> QED
  BY <1>1, <1>2, HeapBounds DEF Node, EndOf

\* A block starts in the heap and is not empty.
LEMMA BlockFacts ==
  ASSUME NEW b \in Block
  PROVE  /\ b.at \in Nat /\ b.at >= 1
         /\ b.size \in Nat /\ b.size >= 1
         /\ EndOf(b) = b.at + b.size
         /\ EndOf(b) \in Nat
BY HeapBounds DEF Block, EndOf

\* A free list is a sequence.
LEMMA ListFacts ==
  ASSUME NEW f, Ordered(f)
  PROVE  /\ Len(f) \in Nat
         /\ DOMAIN f = 1 .. Len(f)
         /\ f \in Seq(Node)
<1>1. f \in Seq(Node)
  BY DEF Ordered
<1> QED
  BY <1>1, LenProperties

\* Free units that follow each other lie in one node, for no two nodes touch.
LEMMA OneNode ==
  ASSUME NEW f, Ordered(f), NEW a \in Nat, NEW n \in Nat, n >= 1,
         \A u \in a .. a + n - 1 : Covered(f, u)
  PROVE  \E k \in 1 .. Len(f) : f[k].at <= a /\ a + n <= EndOf(f[k])
<1>1. a \in a .. a + n - 1
  OBVIOUS
<1>2. PICK k \in 1 .. Len(f) : In(a, f[k])
  BY <1>1 DEF Covered
<1>3. f[k].at <= a /\ a < EndOf(f[k]) /\ f[k].at \in Nat /\ EndOf(f[k]) \in Nat
  BY <1>2, NodeFacts DEF In
<1>4. ASSUME EndOf(f[k]) < a + n
      PROVE  FALSE
  <2>1. EndOf(f[k]) \in a .. a + n - 1
    BY <1>3, <1>4
  <2>2. PICK j \in 1 .. Len(f) : In(EndOf(f[k]), f[j])
    BY <2>1 DEF Covered
  <2>3. f[j].at <= EndOf(f[k]) /\ EndOf(f[k]) < EndOf(f[j])
        /\ f[j].at \in Nat /\ EndOf(f[j]) \in Nat
    BY <2>2, NodeFacts DEF In
  <2>4. Len(f) \in Nat
    BY ListFacts
  <2>5. CASE j < k
    BY <2>5, <2>3, <1>3 DEF Ordered
  <2>6. CASE k < j
    BY <2>6, <2>3, <1>3 DEF Ordered
  <2>7. CASE j = k
    BY <2>7, <2>3, <1>3
  <2> QED
    BY <2>4, <2>5, <2>6, <2>7
<1> QED
  BY <1>3, <1>4

-----------------------------------------------------------------------------
(* k_mem_alloc.                                                            *)

\* The loop stops at the first node that is large enough.
LEMMA FirstFitIs ==
  ASSUME Ordered(free), NEW n \in Nat, \E k \in DOMAIN free : free[k].size >= n
  PROVE  /\ FirstFit(n) \in 1 .. Len(free)
         /\ free[FirstFit(n)].size >= n
         /\ \A k \in 1 .. Len(free) : free[k].size >= n => FirstFit(n) <= k
<1> DEFINE B == {k \in DOMAIN free : free[k].size >= n}
<1>1. B \in SUBSET Nat /\ B # {} /\ B \subseteq 1 .. Len(free)
  BY ListFacts
<1>2. Min(B) \in B /\ \A k \in B : Min(B) <= k
  BY <1>1, MinIsLeast
<1>3. FirstFit(n) = Min(B)
  BY DEF FirstFit
<1> QED
  BY <1>1, <1>2, <1>3

\* What is left of the free list when n units have been cut off its k-th node.
Cut(f, k, n) == IF f[k].size > n THEN [f EXCEPT ![k] = Split(f[k], n)] ELSE Without(f, k)

\* The block at the front of a node that is large enough leaves the list, and
\* nothing else does.
LEMMA CutIs ==
  ASSUME NEW f, Ordered(f), NEW k \in 1 .. Len(f), NEW n \in Nat, n >= 1, f[k].size >= n
  PROVE  /\ Ordered(Cut(f, k, n))
         /\ \A u \in Nat : Covered(Cut(f, k, n), u)
                            <=> Covered(f, u) /\ ~ (f[k].at <= u /\ u < f[k].at + n)
<1> DEFINE g == Cut(f, k, n)
<1>1. Len(f) \in Nat /\ f \in Seq(Node) /\ DOMAIN f = 1 .. Len(f)
  BY ListFacts
<1>2. \A i \in 1 .. Len(f) :
        /\ f[i] \in Node
        /\ f[i].at \in Nat /\ f[i].at >= 1
        /\ f[i].size \in Nat /\ f[i].size >= 1
        /\ EndOf(f[i]) = f[i].at + f[i].size
        /\ EndOf(f[i]) \in Nat
        /\ EndOf(f[i]) <= TAIL
  BY NodeFacts
<1>3. \A i, j \in 1 .. Len(f) : i < j => EndOf(f[i]) < f[j].at
  BY DEF Ordered
<1>4. CASE f[k].size > n
  <2> DEFINE m == Split(f[k], n)
  <2>1. m.at = f[k].at + n /\ m.size = f[k].size - n
    BY DEF Split
  <2>2. m \in Node /\ EndOf(m) = EndOf(f[k])
    <3>1. EndOf(m) = EndOf(f[k])
      BY <2>1, <1>2 DEF EndOf
    <3>2. m.at \in 1 .. TAIL - 1 /\ m.size \in 1 .. TAIL - 1
      BY <2>1, <1>2, <1>4, HeapBounds, SMTT(30)
    <3> QED
      BY <3>1, <3>2 DEF Split, Node
  <2> HIDE DEF m
  <2>3. g = [f EXCEPT ![k] = m]
    BY <1>4 DEF Cut, m
  <2>4. /\ g \in Seq(Node)
        /\ Len(g) = Len(f)
        /\ \A i \in 1 .. Len(f) : g[i] = IF i = k THEN m ELSE f[i]
    BY <2>2, <2>3, <1>1, ExceptSeq
  <2> HIDE DEF g
  <2>5. Ordered(g)
    <3>1. \A i \in 1 .. Len(g) : EndOf(g[i]) <= TAIL
      BY <2>2, <2>4, <1>2
    <3>2. \A i, j \in 1 .. Len(g) : i < j => EndOf(g[i]) < g[j].at
      BY <2>1, <2>2, <2>4, <1>2, <1>3, SMTT(30)
    <3> QED
      BY <2>4, <3>1, <3>2 DEF Ordered
  <2>6. ASSUME NEW u \in Nat
        PROVE  Covered(g, u) <=> Covered(f, u) /\ ~ (f[k].at <= u /\ u < f[k].at + n)
    <3>1. In(u, m) <=> In(u, f[k]) /\ ~ (f[k].at <= u /\ u < f[k].at + n)
      BY <2>1, <2>2, <1>2 DEF In
    <3>2. ASSUME NEW i \in 1 .. Len(f), i # k, In(u, f[i])
          PROVE  ~ (f[k].at <= u /\ u < f[k].at + n)
      <4>1. f[i].at <= u /\ u < EndOf(f[i])
        BY <3>2 DEF In
      <4>2. CASE i < k
        BY <4>1, <4>2, <1>2, <1>3
      <4>3. CASE k < i
        <5>1. EndOf(f[k]) < f[i].at
          BY <4>3, <1>3
        <5> QED
          BY <5>1, <4>1, <1>2, <1>4, SMTT(30)
      <4> QED
        BY <4>2, <4>3, <3>2, <1>1
    <3> QED
      BY <3>1, <3>2, <2>4 DEF Covered
  <2> QED
    BY <2>5, <2>6 DEF g
<1>5. CASE ~ (f[k].size > n)
  <2>1. f[k].size = n
    BY <1>5, <1>2
  <2>2. g = Without(f, k)
    BY <1>5 DEF Cut
  <2>3. /\ g \in Seq(Node)
        /\ Len(g) = Len(f) - 1
        /\ \A i \in 1 .. Len(f) - 1 : g[i] = IF i < k THEN f[i] ELSE f[i + 1]
    BY <2>2, <1>1, WithoutIs
  <2> HIDE DEF g
  <2>4. Ordered(g)
    <3> DEFINE at(i) == IF i < k THEN i ELSE i + 1
    <3>0. \A i \in 1 .. Len(g) : at(i) \in 1 .. Len(f) /\ g[i] = f[at(i)]
      BY <2>3, <1>1
    <3>1. \A i \in 1 .. Len(g) : EndOf(g[i]) <= TAIL
      <4> HIDE DEF at
      <4> QED
        BY <3>0, <1>2
    <3>2. \A i, j \in 1 .. Len(g) : i < j => EndOf(g[i]) < g[j].at
      <4>1. \A i, j \in 1 .. Len(g) : i < j => at(i) < at(j)
        BY <1>1
      <4> HIDE DEF at
      <4> QED
        BY <3>0, <4>1, <1>3
    <3> QED
      BY <2>3, <3>1, <3>2 DEF Ordered
  <2>5. ASSUME NEW u \in Nat
        PROVE  Covered(g, u) <=> Covered(f, u) /\ ~ (f[k].at <= u /\ u < f[k].at + n)
    <3>1. In(u, f[k]) <=> f[k].at <= u /\ u < f[k].at + n
      BY <2>1, <1>2 DEF In
    <3>2. ASSUME NEW i \in 1 .. Len(f), i # k, In(u, f[i])
          PROVE  ~ In(u, f[k])
      BY <3>2, <1>2, <1>3 DEF In
    <3>3. ASSUME NEW i \in 1 .. Len(f), i # k, In(u, f[i])
          PROVE  Covered(g, u)
      <4>1. CASE i < k
        <5>1. i \in 1 .. Len(g) /\ g[i] = f[i]
          BY <4>1, <2>3, <1>1
        <5> QED
          BY <5>1, <3>3 DEF Covered
      <4>2. CASE i > k
        <5>1. i - 1 \in 1 .. Len(g) /\ g[i - 1] = f[i]
          BY <4>2, <2>3, <1>1
        <5> QED
          BY <5>1, <3>3 DEF Covered
      <4> QED
        BY <4>1, <4>2, <3>3
    <3>4. ASSUME NEW i \in 1 .. Len(g), In(u, g[i])
          PROVE  \E j \in 1 .. Len(f) : j # k /\ In(u, f[j])
      <4>1. CASE i < k
        BY <4>1, <3>4, <2>3, <1>1
      <4>2. CASE ~ (i < k)
        BY <4>2, <3>4, <2>3, <1>1
      <4> QED
        BY <4>1, <4>2
    <3> QED
      BY <3>1, <3>2, <3>3, <3>4 DEF Covered
  <2> QED
    BY <2>4, <2>5 DEF g
<1> QED
  BY <1>4, <1>5

-----------------------------------------------------------------------------
(* k_mem_dealloc.                                                          *)

\* A node that fits between its neighbours keeps the list a free list.
LEMMA SplicedIsOrdered ==
  ASSUME NEW f, Ordered(f), NEW m \in Node, EndOf(m) <= TAIL,
         NEW p \in 0 .. Len(f), NEW q \in p + 1 .. Len(f) + 1,
         \A i \in 1 .. p : EndOf(f[i]) < m.at,
         \A i \in q .. Len(f) : EndOf(m) < f[i].at
  PROVE  /\ Ordered(Spliced(f, p, m, q))
         /\ \A u \in Nat : Covered(Spliced(f, p, m, q), u)
                  <=> \/ In(u, m)
                      \/ \E i \in 1 .. Len(f) : (i <= p \/ q <= i) /\ In(u, f[i])
<1> DEFINE g == Spliced(f, p, m, q)
           len == p + 1 + (Len(f) + 1 - q)
           at(i) == IF i <= p THEN i ELSE i - p - 2 + q
<1>1. Len(f) \in Nat /\ f \in Seq(Node)
  BY ListFacts
<1>2. p \in Nat /\ q \in Nat /\ p <= Len(f) /\ p < q /\ q <= Len(f) + 1
  BY <1>1
<1>3. /\ g \in Seq(Node)
      /\ Len(g) = len
      /\ \A i \in 1 .. len : g[i] = IF i <= p THEN f[i]
                                    ELSE IF i = p + 1 THEN m ELSE f[i - p - 2 + q]
  BY <1>1, SplicedIs
<1>4. /\ \A i \in 1 .. len : i # p + 1 => at(i) \in 1 .. Len(f) /\ g[i] = f[at(i)]
      /\ \A i \in 1 .. len : i < p + 1 => at(i) \in 1 .. p
      /\ \A i \in 1 .. len : i > p + 1 => at(i) \in q .. Len(f)
      /\ \A i, j \in 1 .. len : i < j /\ i # p + 1 /\ j # p + 1 => at(i) < at(j)
  <2>1. \A i \in 1 .. len : i < p + 1 => at(i) \in 1 .. p
    BY <1>1, <1>2
  <2>2. \A i \in 1 .. len : i > p + 1 => at(i) \in q .. Len(f)
    BY <1>1, <1>2
  <2>3. \A i \in 1 .. len : i # p + 1 => at(i) \in 1 .. Len(f) /\ g[i] = f[at(i)]
    BY <1>1, <1>2, <1>3
  <2>4. \A i, j \in 1 .. len : i < j /\ i # p + 1 /\ j # p + 1 => at(i) < at(j)
    BY <1>1, <1>2
  <2> QED
    BY <2>1, <2>2, <2>3, <2>4
<1>5. p + 1 \in 1 .. len /\ g[p + 1] = m /\ len \in Nat
  <2>1. p + 1 \in 1 .. len /\ len \in Nat /\ ~ (p + 1 <= p)
    BY <1>1, <1>2
  <2> HIDE DEF len, g
  <2>2. g[p + 1] = IF p + 1 <= p THEN f[p + 1] ELSE IF p + 1 = p + 1 THEN m ELSE f[p + 1 - p - 2 + q]
    BY <1>3, <2>1
  <2> QED
    BY <2>1, <2>2
<1>6. /\ \A i \in 1 .. p : \E k \in 1 .. len : k # p + 1 /\ at(k) = i
      /\ \A i \in q .. Len(f) : \E k \in 1 .. len : k # p + 1 /\ at(k) = i
  <2>1. ASSUME NEW i \in 1 .. p
        PROVE  i \in 1 .. len /\ i # p + 1 /\ at(i) = i
    BY <1>1, <1>2
  <2>2. ASSUME NEW i \in q .. Len(f)
        PROVE  i + p + 2 - q \in 1 .. len /\ i + p + 2 - q # p + 1 /\ at(i + p + 2 - q) = i
    BY <1>1, <1>2
  <2> HIDE DEF at, len
  <2> QED
    BY <2>1, <2>2
<1> HIDE DEF g, at, len
<1>7. Ordered(g)
  <2>1. \A i \in 1 .. Len(g) : EndOf(g[i]) <= TAIL
    <3>1. \A i \in 1 .. Len(f) : EndOf(f[i]) <= TAIL
      BY DEF Ordered
    <3> QED
      BY <3>1, <1>3, <1>4, <1>5
  <2>2. ASSUME NEW i \in 1 .. len, NEW j \in 1 .. len, i < j
        PROVE  EndOf(g[i]) < g[j].at
    <3>1. CASE i = p + 1
      <4>1. at(j) \in q .. Len(f) /\ g[j] = f[at(j)]
        BY <3>1, <2>2, <1>4, <1>5, <1>2
      <4> QED
        BY <4>1, <3>1, <1>5
    <3>2. CASE j = p + 1
      <4>1. at(i) \in 1 .. p /\ g[i] = f[at(i)]
        BY <3>2, <2>2, <1>4, <1>5, <1>2
      <4> QED
        BY <4>1, <3>2, <1>5
    <3>3. CASE i # p + 1 /\ j # p + 1
      <4>1. at(i) \in 1 .. Len(f) /\ at(j) \in 1 .. Len(f) /\ at(i) < at(j)
            /\ g[i] = f[at(i)] /\ g[j] = f[at(j)]
        BY <3>3, <2>2, <1>4
      <4> QED
        BY <4>1 DEF Ordered
    <3> QED
      BY <3>1, <3>2, <3>3
  <2> QED
    BY <2>1, <2>2, <1>3 DEF Ordered
<1>8. ASSUME NEW u \in Nat
      PROVE  Covered(g, u)
               <=> \/ In(u, m)
                   \/ \E i \in 1 .. Len(f) : (i <= p \/ q <= i) /\ In(u, f[i])
  <2>1. ASSUME NEW k \in 1 .. len, In(u, g[k])
        PROVE  In(u, m) \/ \E i \in 1 .. Len(f) : (i <= p \/ q <= i) /\ In(u, f[i])
    <3>1. CASE k = p + 1
      BY <3>1, <2>1, <1>5
    <3>2. CASE k < p + 1
      <4>1. at(k) \in 1 .. p /\ at(k) \in 1 .. Len(f) /\ g[k] = f[at(k)]
        BY <3>2, <1>2, <1>4, <1>5
      <4> QED
        BY <4>1, <2>1, <1>2
    <3>3. CASE k > p + 1
      <4>1. at(k) \in q .. Len(f) /\ at(k) \in 1 .. Len(f) /\ g[k] = f[at(k)]
        BY <3>3, <1>2, <1>4
      <4> QED
        BY <4>1, <2>1, <1>2
    <3> QED
      BY <3>1, <3>2, <3>3, <1>2
  <2>2. ASSUME NEW i \in 1 .. Len(f), i <= p \/ q <= i, In(u, f[i])
        PROVE  \E k \in 1 .. len : In(u, g[k])
    <3>1. i \in 1 .. p \/ i \in q .. Len(f)
      BY <2>2, <1>1, <1>2
    <3>2. PICK k \in 1 .. len : k # p + 1 /\ at(k) = i
      BY <3>1, <1>6
    <3>3. g[k] = f[i]
      BY <3>2, <1>4
    <3> QED
      BY <3>3, <2>2
  <2>3. In(u, m) => \E k \in 1 .. len : In(u, g[k])
    BY <1>5
  <2> QED
    BY <2>1, <2>2, <2>3, <1>3 DEF Covered
<1> QED
  BY <1>7, <1>8 DEF g

\* The search of k_mem_dealloc stops at the first node above the block; the
\* nodes before it are below, if the block is not in the list.
LEMMA RightOfIs ==
  ASSUME NEW f, Ordered(f), NEW b \in Block,
         \A u \in Nat : In(u, b) => ~ Covered(f, u)
  PROVE  /\ RightOf(f, b) \in 1 .. Len(f) + 1
         /\ \A i \in 1 .. Len(f) : i >= RightOf(f, b) => EndOf(b) <= f[i].at
         /\ \A i \in 1 .. Len(f) : i < RightOf(f, b) => EndOf(f[i]) <= b.at
<1> DEFINE B == {k \in DOMAIN f : f[k].at >= EndOf(b)} \cup {Len(f) + 1}
           k == Min(B)
<1>1. Len(f) \in Nat /\ DOMAIN f = 1 .. Len(f)
  BY ListFacts
<1>2. B \in SUBSET Nat /\ B # {} /\ B \subseteq 1 .. Len(f) + 1
  BY <1>1
<1>3. k \in B /\ \A i \in B : k <= i
  BY <1>2, MinIsLeast
<1>4. RightOf(f, b) = k
  BY DEF RightOf
<1>5. k \in 1 .. Len(f) + 1 /\ k \in Nat
  BY <1>2, <1>3
<1> HIDE DEF k
<1>6. \A i \in 1 .. Len(f) : i < k => ~ (f[i].at >= EndOf(b))
  <2> SUFFICES ASSUME NEW i \in 1 .. Len(f), i < k, f[i].at >= EndOf(b) PROVE FALSE
    OBVIOUS
  <2>1. i \in B
    BY <1>1
  <2>2. k <= i
    BY <2>1, <1>3
  <2> QED
    BY <2>2, <1>1, <1>5
<1>7. k <= Len(f) => f[k].at >= EndOf(b)
  BY <1>1, <1>3, <1>5
<1> HIDE DEF B
<1>8. /\ b.at \in Nat /\ EndOf(b) \in Nat /\ b.at < EndOf(b)
  BY BlockFacts
<1>9. ASSUME NEW i \in 1 .. Len(f), i >= k
      PROVE  EndOf(b) <= f[i].at
  <2>1. k \in 1 .. Len(f) /\ f[k].at >= EndOf(b)
    BY <1>9, <1>1, <1>5, <1>7
  <2>2. CASE i = k
    BY <2>1, <2>2, <1>8, NodeFacts
  <2>3. CASE k < i
    <3>1. EndOf(f[k]) < f[i].at
      BY <2>1, <2>3 DEF Ordered
    <3>2. f[k].at \in Nat /\ f[i].at \in Nat /\ EndOf(f[k]) \in Nat /\ f[k].at < EndOf(f[k])
      BY <2>1, NodeFacts
    <3> QED
      BY <3>1, <3>2, <2>1, <1>8
  <2> QED
    BY <2>2, <2>3, <1>5, <1>9
<1>10. ASSUME NEW i \in 1 .. Len(f), i < k
       PROVE  EndOf(f[i]) <= b.at
  <2>1. f[i].at \in Nat /\ EndOf(f[i]) \in Nat /\ f[i].at < EndOf(f[i])
    BY NodeFacts
  <2>2. f[i].at < EndOf(b)
    BY <1>6, <1>10, <1>8, <2>1
  <2>3. ~ In(b.at, f[i])
    BY <1>8 DEF In, Covered
  <2>4. ~ In(f[i].at, b)
    BY <2>1 DEF In, Covered
  <2> QED
    BY <2>1, <2>2, <2>3, <2>4, <1>8 DEF In
<1> QED
  BY <1>4, <1>5, <1>9, <1>10

\* A freed block joins the list, and nothing else does.
LEMMA JoinedIs ==
  ASSUME NEW f, Ordered(f), NEW b \in Block, EndOf(b) <= TAIL,
         \A u \in Nat : In(u, b) => ~ Covered(f, u)
  PROVE  /\ Ordered(Joined(f, b))
         /\ \A u \in Nat : Covered(Joined(f, b), u) <=> Covered(f, u) \/ In(u, b)
<1> DEFINE k == RightOf(f, b)
           prev == PREV_TOUCHING(f, b, k)
           next == NEXT_TOUCHING(f, b, k)
           first == IF prev THEN f[k - 1].at ELSE b.at
           end == IF next THEN EndOf(f[k]) ELSE EndOf(b)
           p == IF prev THEN k - 2 ELSE k - 1
           q == IF next THEN k + 1 ELSE k
           m == [at |-> first, size |-> end - first]
<1>1. Joined(f, b) = Spliced(f, p, m, q)
  BY DEF Joined, Spliced
<1>2. Len(f) \in Nat
  BY ListFacts
<1>3. /\ k \in 1 .. Len(f) + 1
      /\ \A i \in 1 .. Len(f) : i >= k => EndOf(b) <= f[i].at
      /\ \A i \in 1 .. Len(f) : i < k => EndOf(f[i]) <= b.at
  BY RightOfIs
<1>4. /\ b.at \in Nat /\ b.at >= 1 /\ EndOf(b) \in Nat /\ b.at < EndOf(b)
  BY BlockFacts
<1>5. \A i \in 1 .. Len(f) :
        /\ f[i].at \in Nat /\ f[i].at >= 1
        /\ EndOf(f[i]) \in Nat
        /\ f[i].at < EndOf(f[i])
        /\ EndOf(f[i]) <= TAIL
  BY NodeFacts
<1>6. prev <=> k > 1 /\ EndOf(f[k - 1]) = b.at
  BY DEF PREV_TOUCHING
<1>7. next <=> k <= Len(f) /\ EndOf(b) = f[k].at
  BY DEF NEXT_TOUCHING
<1> HIDE DEF k, prev, next
<1>8. /\ prev => k - 1 \in 1 .. Len(f) /\ k - 1 < k
      /\ next => k \in 1 .. Len(f)
  BY <1>2, <1>3, <1>6, <1>7
<1>9. first \in Nat /\ first >= 1 /\ first <= b.at
  BY <1>4, <1>5, <1>6, <1>8
<1>10. end \in Nat /\ end <= TAIL /\ end >= EndOf(b)
  BY <1>4, <1>5, <1>7, <1>8
<1>11. m \in Node /\ m.at = first /\ EndOf(m) = end
  <2>1. first \in 1 .. TAIL - 1 /\ end - first \in 1 .. TAIL - 1
    BY <1>4, <1>9, <1>10, HeapBounds
  <2>2. first + (end - first) = end
    BY <1>9, <1>10
  <2> HIDE DEF first, end
  <2> QED
    BY <2>1, <2>2 DEF Node, EndOf
<1>12. p \in 0 .. Len(f) /\ q \in p + 1 .. Len(f) + 1 /\ p \in Int /\ q \in Int
  BY <1>2, <1>3, <1>8
<1>13. ASSUME NEW i \in 1 .. Len(f)
       PROVE  /\ i <= p => EndOf(f[i]) < first
              /\ q <= i => end < f[i].at
  <2>1. ASSUME i <= p PROVE EndOf(f[i]) < first
    <3>1. i < k
      BY <2>1, <1>3
    <3>2. CASE prev
      <4>1. i < k - 1 /\ k - 1 \in 1 .. Len(f)
        BY <2>1, <3>2, <1>3, <1>8
      <4> QED
        BY <4>1, <3>2 DEF Ordered
    <3>3. CASE ~ prev
      <4>1. EndOf(f[i]) <= b.at
        BY <3>1, <1>3
      <4>2. CASE i = k - 1
        <5>1. EndOf(f[i]) # b.at
          BY <4>2, <3>3, <1>3, <1>6
        <5> QED
          BY <5>1, <4>1, <3>3, <1>4, <1>5
      <4>3. CASE i < k - 1
        <5>1. k - 1 \in 1 .. Len(f)
          BY <4>3, <1>2, <1>3
        <5>2. EndOf(f[i]) < f[k - 1].at /\ EndOf(f[k - 1]) <= b.at
          BY <4>3, <5>1, <1>3 DEF Ordered
        <5> QED
          BY <5>1, <5>2, <3>3, <1>4, <1>5
      <4> QED
        BY <4>2, <4>3, <3>1, <1>3
    <3> QED
      BY <3>2, <3>3
  <2>2. ASSUME q <= i PROVE end < f[i].at
    <3>1. i >= k
      BY <2>2, <1>3
    <3>2. CASE next
      <4>1. k < i /\ k \in 1 .. Len(f)
        BY <2>2, <3>2, <1>3, <1>8
      <4> QED
        BY <4>1, <3>2 DEF Ordered
    <3>3. CASE ~ next
      <4>1. EndOf(b) <= f[i].at
        BY <3>1, <1>3
      <4>2. CASE i = k
        <5>1. f[i].at # EndOf(b)
          BY <4>2, <3>3, <1>2, <1>7
        <5> QED
          BY <5>1, <4>1, <3>3, <1>4, <1>5
      <4>3. CASE k < i
        <5>1. k \in 1 .. Len(f)
          BY <4>3, <1>2, <1>3
        <5>2. EndOf(f[k]) < f[i].at /\ EndOf(b) <= f[k].at
          BY <4>3, <5>1, <1>3 DEF Ordered
        <5> QED
          BY <5>1, <5>2, <3>3, <1>4, <1>5
      <4> QED
        BY <4>2, <4>3, <3>1, <1>3
    <3> QED
      BY <3>2, <3>3
  <2> QED
    BY <2>1, <2>2
<1>14. ASSUME NEW u \in Nat
       PROVE  In(u, m) <=> In(u, b) \/ (prev /\ In(u, f[k - 1])) \/ (next /\ In(u, f[k]))
  <2>1. In(u, m) <=> first <= u /\ u < end
    BY <1>11 DEF In
  <2>2. CASE prev /\ next
    BY <2>1, <2>2, <1>4, <1>5, <1>6, <1>7, <1>8, SMTT(30) DEF In
  <2>3. CASE prev /\ ~ next
    BY <2>1, <2>3, <1>4, <1>5, <1>6, <1>7, <1>8 DEF In
  <2>4. CASE ~ prev /\ next
    BY <2>1, <2>4, <1>4, <1>5, <1>6, <1>7, <1>8 DEF In
  <2>5. CASE ~ prev /\ ~ next
    BY <2>1, <2>5, <1>4, <1>5, <1>6, <1>7, <1>8 DEF In
  <2> QED
    BY <2>2, <2>3, <2>4, <2>5
<1>15. \A i \in 1 .. Len(f) : i <= p \/ q <= i \/ (prev /\ i = k - 1) \/ (next /\ i = k)
  BY <1>2, <1>3, <1>6, <1>7
<1> HIDE DEF p, q, m, first, end
<1>16. /\ Ordered(Spliced(f, p, m, q))
       /\ \A u \in Nat : Covered(Spliced(f, p, m, q), u)
                <=> \/ In(u, m)
                    \/ \E i \in 1 .. Len(f) : (i <= p \/ q <= i) /\ In(u, f[i])
  <2>1. EndOf(m) <= TAIL
    BY <1>10, <1>11
  <2>2. \A i \in 1 .. p : EndOf(f[i]) < m.at
    BY <1>2, <1>11, <1>12, <1>13
  <2>3. \A i \in q .. Len(f) : EndOf(m) < f[i].at
    BY <1>2, <1>11, <1>12, <1>13
  <2> QED
    BY <2>1, <2>2, <2>3, <1>11, <1>12, SplicedIsOrdered
<1>17. ASSUME NEW u \in Nat
       PROVE  Covered(Joined(f, b), u) <=> Covered(f, u) \/ In(u, b)
  BY <1>1, <1>8, <1>14, <1>15, <1>16 DEF Covered
<1> QED
  BY <1>1, <1>16, <1>17

-----------------------------------------------------------------------------
(* The invariant.                                                          *)

\* k_mem_init leaves one node with all of the heap.
LEMMA InitIInv == Init => IInv
<1> SUFFICES ASSUME Init PROVE IInv
  OBVIOUS
<1> DEFINE m == [at |-> 1, size |-> TAIL - 1]
<1>1. m \in Node /\ EndOf(m) = TAIL /\ m.at = 1
  BY HeapBounds DEF Node, EndOf
<1>2. free = <<m>> /\ taken = {}
  BY DEF Init
<1> HIDE DEF m
<1>3. free \in Seq(Node) /\ Len(free) = 1 /\ free[1] = m
  BY <1>1, <1>2
<1>4. Ordered(free)
  BY <1>1, <1>3, HeapBounds DEF Ordered
<1>5. \A u \in 1 .. TAIL - 1 : Covered(free, u)
  <2> SUFFICES ASSUME NEW u \in 1 .. TAIL - 1 PROVE In(u, free[1])
    BY <1>3 DEF Covered
  <2> QED
    BY <1>1, <1>3, HeapBounds DEF In
<1>6. IsFiniteSet(taken)
  BY <1>2, FS_EmptySet
<1> QED
  BY <1>2, <1>4, <1>5, <1>6 DEF IInv

\* What k_mem_alloc does when there is room: the block is the front of a node,
\* and it leaves the list.
LEMMA AllocIs ==
  ASSUME IInv, NEW r \in Requests, NEW o \in Owners, Alloc(r, o)
  PROVE  LET c == BlockFor(r, o)
         IN /\ c \in Block /\ EndOf(c) <= TAIL /\ c.size = r + 1 /\ c.owner = o
            /\ r \in Nat /\ r >= 1
            /\ FirstFit(r + 1) \in 1 .. Len(free)
            /\ c.at = free[FirstFit(r + 1)].at
            /\ \A u \in Nat : In(u, c) => Covered(free, u)
            /\ taken' = taken \cup {c}
            /\ Ordered(free')
            /\ \A u \in Nat : Covered(free', u) <=> Covered(free, u) /\ ~ In(u, c)
<1> DEFINE n == r + 1
           k == FirstFit(n)
           c == BlockFor(r, o)
<1>1. r \in Nat /\ r >= 1 /\ n \in Nat /\ n >= 1
  BY RequestsAssumption
<1>2. Ordered(free)
  BY DEF IInv
<1>3. \E i \in DOMAIN free : free[i].size >= n
  BY DEF Alloc, HasNode, WithHeader
<1>4. k \in 1 .. Len(free) /\ free[k].size >= n
  <2> HIDE DEF n
  <2> QED
    BY <1>1, <1>2, <1>3, FirstFitIs
<1>5. c = [at |-> free[k].at, size |-> n, owner |-> o]
  BY DEF BlockFor, WithHeader
<1>6. free' = Cut(free, k, n)
  BY DEF Alloc, WithHeader, IsSplit, Cut, Without
<1>7. taken' = taken \cup {c}
  BY DEF Alloc
<1> HIDE DEF k, c
<1>8. /\ free[k] \in Node
      /\ free[k].at \in Nat /\ free[k].at >= 1
      /\ free[k].size \in Nat /\ free[k].size >= 1
      /\ EndOf(free[k]) = free[k].at + free[k].size
      /\ EndOf(free[k]) \in Nat
      /\ EndOf(free[k]) <= TAIL
  BY <1>2, <1>4, NodeFacts
<1>9. c.at = free[k].at /\ c.size = n /\ c.owner = o /\ EndOf(c) = free[k].at + n
  BY <1>5 DEF EndOf
<1>10. EndOf(c) <= TAIL /\ EndOf(c) <= EndOf(free[k])
  BY <1>1, <1>4, <1>8, <1>9, HeapBounds
<1>11. c \in Block
  <2>1. free[k].at \in 1 .. TAIL - 1 /\ n \in 1 .. TAIL - 1
    BY <1>1, <1>8, <1>9, <1>10, HeapBounds
  <2> HIDE DEF n
  <2> QED
    BY <2>1, <1>5 DEF Block
<1>12. ASSUME NEW u \in Nat, In(u, c)
       PROVE  Covered(free, u)
  <2>1. In(u, free[k])
    BY <1>12, <1>1, <1>8, <1>9, <1>10 DEF In
  <2> QED
    BY <2>1, <1>4 DEF Covered
<1>13. /\ Ordered(Cut(free, k, n))
       /\ \A u \in Nat : Covered(Cut(free, k, n), u)
                          <=> Covered(free, u) /\ ~ (free[k].at <= u /\ u < free[k].at + n)
  <2> HIDE DEF n
  <2> QED
    BY <1>1, <1>2, <1>4, CutIs
<1>14. \A u \in Nat : Covered(free', u) <=> Covered(free, u) /\ ~ In(u, c)
  BY <1>6, <1>9, <1>13 DEF In
<1> QED
  BY <1>1, <1>4, <1>6, <1>7, <1>9, <1>10, <1>11, <1>12, <1>13, <1>14 DEF k, c

\* k_mem_alloc keeps the invariant: what it takes from the list is what it gives
\* to the block.
LEMMA AllocIInv ==
  ASSUME IInv, NEW r \in Requests, NEW o \in Owners, Alloc(r, o)
  PROVE  IInv'
<1> DEFINE c == BlockFor(r, o)
<1>1. /\ c \in Block /\ EndOf(c) <= TAIL
      /\ \A u \in Nat : In(u, c) => Covered(free, u)
      /\ taken' = taken \cup {c}
      /\ Ordered(free')
      /\ \A u \in Nat : Covered(free', u) <=> Covered(free, u) /\ ~ In(u, c)
  BY AllocIs
<1> HIDE DEF c
<1>2. \A u \in 1 .. TAIL - 1 : u \in Nat
  BY HeapBounds
<1>3. taken' \subseteq Block /\ IsFiniteSet(taken')
  BY <1>1, FS_AddElement DEF IInv
<1>4. \A b \in taken' : EndOf(b) <= TAIL
  BY <1>1 DEF IInv
<1>5. \A b \in taken, u \in 1 .. TAIL - 1 : In(u, b) => ~ In(u, c)
  BY <1>1, <1>2 DEF IInv
<1>6. \A b, d \in taken', u \in 1 .. TAIL - 1 : In(u, b) /\ In(u, d) => b = d
  BY <1>1, <1>5 DEF IInv
<1>7. \A u \in 1 .. TAIL - 1 : Covered(free', u) <=> \A b \in taken' : ~ In(u, b)
  BY <1>1, <1>2 DEF IInv
<1> QED
  BY <1>1, <1>3, <1>4, <1>6, <1>7 DEF IInv

\* What k_mem_dealloc does: the units of the block come back to the list.
LEMMA DeallocIs ==
  ASSUME IInv, NEW b \in taken, NEW o \in Owners, Dealloc(b, o)
  PROVE  /\ taken' = taken \ {b}
         /\ Ordered(free')
         /\ \A u \in Nat : Covered(free', u) <=> Covered(free, u) \/ In(u, b)
<1>1. b \in Block /\ EndOf(b) <= TAIL /\ Ordered(free)
  BY DEF IInv
<1>2. b.at \in Nat /\ b.at >= 1 /\ EndOf(b) \in Nat
  BY <1>1, BlockFacts
<1>3. ASSUME NEW u \in Nat, In(u, b)
      PROVE  ~ Covered(free, u)
  <2>1. u \in 1 .. TAIL - 1
    BY <1>1, <1>2, <1>3, HeapBounds DEF In
  <2> QED
    BY <2>1, <1>3 DEF IInv
<1>4. free' = Joined(free, b) /\ taken' = taken \ {b}
  BY DEF Dealloc
<1>5. /\ Ordered(Joined(free, b))
      /\ \A u \in Nat : Covered(Joined(free, b), u) <=> Covered(free, u) \/ In(u, b)
  BY <1>1, <1>3, JoinedIs
<1> QED
  BY <1>4, <1>5

\* k_mem_dealloc keeps the invariant.
LEMMA DeallocIInv ==
  ASSUME IInv, NEW b \in taken, NEW o \in Owners, Dealloc(b, o)
  PROVE  IInv'
<1>1. /\ taken' = taken \ {b}
      /\ Ordered(free')
      /\ \A u \in Nat : Covered(free', u) <=> Covered(free, u) \/ In(u, b)
  BY DeallocIs
<1>2. \A u \in 1 .. TAIL - 1 : u \in Nat
  BY HeapBounds
<1>3. taken' \subseteq Block /\ IsFiniteSet(taken')
  BY <1>1, FS_RemoveElement DEF IInv
<1>4. \A u \in 1 .. TAIL - 1 : Covered(free', u) <=> \A c \in taken' : ~ In(u, c)
  BY <1>1, <1>2 DEF IInv
<1> QED
  BY <1>1, <1>3, <1>4 DEF IInv

\* Every call keeps the invariant.
LEMMA Inductive == IInv /\ [Next]_vars => IInv'
<1> SUFFICES ASSUME IInv, [Next]_vars PROVE IInv'
  OBVIOUS
<1>1. ASSUME NEW r \in Requests, NEW o \in Owners, Alloc(r, o)
      PROVE  IInv'
  BY <1>1, AllocIInv
<1>2. ASSUME NEW b \in taken, NEW o \in Owners, Dealloc(b, o)
      PROVE  IInv'
  BY <1>2, DeallocIInv
<1>3. ASSUME UNCHANGED vars
      PROVE  IInv'
  BY <1>3 DEF vars, IInv, Ordered, Covered, In, EndOf
<1> QED
  BY <1>1, <1>2, <1>3 DEF Next

\* The invariant of the free list and the blocks.
THEOREM Invariance == Spec => []IInv
BY InitIInv, Inductive, PTL DEF Spec

\* Nodes and blocks lie between the sentinels and none is empty.
THEOREM TypeCorrect == Spec => []TypeOK
<1>1. IInv => TypeOK
  BY DEF IInv, Ordered, TypeOK
<1> QED
  BY <1>1, Invariance, PTL

\* No two nodes of the free list touch: k_mem_dealloc joins all that can be joined.
THEOREM FreeListIsCoalesced == Spec => []FreeListCoalesced
<1>1. IInv => FreeListCoalesced
  <2> SUFFICES ASSUME IInv, NEW k \in 1 .. Len(free) - 1
               PROVE  EndOf(free[k]) < free[k + 1].at
    BY DEF FreeListCoalesced
  <2>1. Ordered(free)
    BY DEF IInv
  <2>2. Len(free) \in Nat
    BY <2>1, ListFacts
  <2>3. k \in 1 .. Len(free) /\ k + 1 \in 1 .. Len(free) /\ k < k + 1
    BY <2>2
  <2> QED
    BY <2>1, <2>3 DEF Ordered
<1> QED
  BY <1>1, Invariance, PTL

-----------------------------------------------------------------------------
(* The heap that knows only its blocks.                                    *)

\* The free units are those that the free list covers.
LEMMA FreeIs ==
  ASSUME IInv
  PROVE  \A u \in Int : u \in Abstract!Free <=> u \in Nat /\ u >= 1 /\ Covered(free, u)
<1> SUFFICES ASSUME NEW u \in Int
             PROVE  u \in Abstract!Free <=> u \in Nat /\ u >= 1 /\ Covered(free, u)
  OBVIOUS
<1>1. \A b \in taken : u \in Abstract!UnitsOf(b) <=> In(u, b)
  <2> SUFFICES ASSUME NEW b \in taken PROVE u \in Abstract!UnitsOf(b) <=> In(u, b)
    OBVIOUS
  <2>1. /\ b.at \in Nat /\ b.at >= 1
        /\ b.size \in Nat /\ b.size >= 1
        /\ EndOf(b) = b.at + b.size
    BY BlockFacts DEF IInv
  <2> QED
    BY <2>1 DEF In, Abstract!UnitsOf
<1>2. u \in Abstract!Free <=> u \in 1 .. TAIL - 1 /\ \A b \in taken : ~ In(u, b)
  BY <1>1 DEF Abstract!Free
<1>3. u >= 1 /\ Covered(free, u) => u \in 1 .. TAIL - 1
  <2> SUFFICES ASSUME u >= 1, Covered(free, u) PROVE u \in 1 .. TAIL - 1
    OBVIOUS
  <2>1. PICK k \in 1 .. Len(free) : In(u, free[k])
    BY DEF Covered
  <2>2. EndOf(free[k]) \in Nat /\ EndOf(free[k]) <= TAIL
    BY NodeFacts DEF IInv
  <2> QED
    BY <2>1, <2>2, HeapBounds DEF In
<1>4. u \in 1 .. TAIL - 1 => u \in Nat
  OBVIOUS
<1> QED
  BY <1>2, <1>3, <1>4 DEF IInv

\* A stretch of free memory lies in one node of the list.
LEMMA StretchInNode ==
  ASSUME IInv, NEW a \in Nat, NEW n \in Nat, n >= 1, a .. a + n - 1 \subseteq Abstract!Free
  PROVE  \E k \in 1 .. Len(free) : free[k].at <= a /\ a + n <= EndOf(free[k])
<1>1. \A u \in a .. a + n - 1 : Covered(free, u)
  BY FreeIs
<1> QED
  BY <1>1, OneNode DEF IInv

\* Where n units are free, a node is large enough and starts no higher.
LEMMA FitsInNode ==
  ASSUME IInv, NEW n \in Nat, n >= 1, NEW a \in Abstract!Fits(n)
  PROVE  /\ a \in Nat
         /\ \E k \in 1 .. Len(free) : free[k].at <= a /\ free[k].size >= n
<1>1. a \in Nat /\ a .. a + n - 1 \subseteq Abstract!Free
  BY HeapBounds DEF Abstract!Fits, Abstract!Free
<1>2. PICK k \in 1 .. Len(free) : free[k].at <= a /\ a + n <= EndOf(free[k])
  BY <1>1, StretchInNode
<1>3. /\ free[k].at \in Nat /\ free[k].size \in Nat
      /\ EndOf(free[k]) = free[k].at + free[k].size
  BY NodeFacts DEF IInv
<1>4. free[k].size >= n
  BY <1>1, <1>2, <1>3
<1> QED
  BY <1>1, <1>2, <1>4

\* k_mem_alloc returns NULL only if no stretch of free memory is long enough:
\* the free memory is never cut in two where it need not be.
THEOREM NeverRefusesWhatFits == Spec => []NullOnlyIfNothingFits
<1>1. IInv => NullOnlyIfNothingFits
  <2> SUFFICES ASSUME IInv, NEW r \in Requests, Abstract!Fits(r + 1) # {}
               PROVE  HasNode(r)
    BY DEF NullOnlyIfNothingFits
  <2>1. r + 1 \in Nat /\ r + 1 >= 1
    BY RequestsAssumption
  <2>2. PICK k \in 1 .. Len(free) : free[k].size >= r + 1
    BY <2>1, FitsInNode
  <2>3. DOMAIN free = 1 .. Len(free)
    BY ListFacts DEF IInv
  <2> QED
    BY <2>2, <2>3 DEF HasNode, WithHeader
<1> QED
  BY <1>1, Invariance, PTL

\* The first node that is large enough starts at the lowest address that fits.
LEMMA FirstFitIsLowest ==
  ASSUME IInv, NEW r \in Requests, NEW o \in Owners, Alloc(r, o)
  PROVE  /\ Abstract!Fits(r + 1) # {}
         /\ BlockFor(r, o).at = Abstract!Min(Abstract!Fits(r + 1))
<1> DEFINE n == r + 1
           k == FirstFit(n)
           c == BlockFor(r, o)
<1>1. /\ c \in Block /\ c.size = n /\ r \in Nat
      /\ k \in 1 .. Len(free)
      /\ c.at = free[k].at
      /\ \A u \in Nat : In(u, c) => Covered(free, u)
  BY AllocIs
<1>2. n \in Nat /\ n >= 1
  BY <1>1
<1>3. \A i \in 1 .. Len(free) : free[i].size >= n => k <= i
  <2>1. \E i \in DOMAIN free : free[i].size >= n
    BY DEF Alloc, HasNode, WithHeader
  <2> HIDE DEF n
  <2> QED
    BY <1>2, <2>1, FirstFitIs DEF IInv
<1> HIDE DEF k, c
<1>4. c.at \in Nat /\ c.at >= 1 /\ EndOf(c) = c.at + n
  BY <1>1, BlockFacts
<1>5. c.at .. c.at + n - 1 \subseteq Abstract!Free
  <2> SUFFICES ASSUME NEW u \in c.at .. c.at + n - 1 PROVE u \in Abstract!Free
    OBVIOUS
  <2>1. u \in Nat /\ u >= 1 /\ In(u, c)
    BY <1>2, <1>4 DEF In
  <2> QED
    BY <2>1, <1>1, FreeIs
<1>6. c.at \in Abstract!Fits(n)
  <2>1. c.at \in c.at .. c.at + n - 1
    BY <1>2, <1>4
  <2> HIDE DEF n
  <2> QED
    BY <2>1, <1>5 DEF Abstract!Fits
<1>7. ASSUME NEW a \in Abstract!Fits(n)
      PROVE  a \in Nat /\ c.at <= a
  <2>1. a \in Nat
    BY <1>2, FitsInNode
  <2>2. PICK i \in 1 .. Len(free) : free[i].at <= a /\ free[i].size >= n
    BY <1>2, FitsInNode
  <2>3. k <= i
    BY <2>2, <1>3
  <2>4. free[k].at <= free[i].at /\ free[i].at \in Nat /\ free[k].at \in Nat
    <3>1. /\ free[i].at \in Nat
          /\ free[k].at \in Nat
          /\ EndOf(free[k]) \in Nat /\ free[k].at < EndOf(free[k])
      BY <1>1, NodeFacts, SMTT(30) DEF IInv
    <3>2. k < i => EndOf(free[k]) < free[i].at
      BY <1>1 DEF IInv, Ordered
    <3> QED
      BY <3>1, <3>2, <2>3, <1>1
  <2> QED
    BY <2>1, <2>2, <2>4, <1>1
<1>8. c.at = Abstract!Min(Abstract!Fits(n))
  <2> DEFINE B == Abstract!Fits(n)
  <2>1. B \in SUBSET Nat /\ B # {} /\ c.at \in B /\ \A a \in B : c.at <= a
    BY <1>6, <1>7
  <2> HIDE DEF B
  <2>2. Min(B) \in B /\ \A a \in B : Min(B) <= a
    BY <2>1, MinIsLeast
  <2>3. Min(B) <= c.at /\ c.at <= Min(B) /\ Min(B) \in Nat /\ c.at \in Nat
    BY <2>1, <2>2
  <2>4. c.at = Min(B)
    BY <2>3
  <2>5. Abstract!Min(B) = Min(B)
    BY DEF Min, Abstract!Min
  <2> QED
    BY <2>4, <2>5 DEF B
<1> QED
  BY <1>6, <1>8 DEF c

\* The free list implements the heap that knows only its blocks: a block goes to
\* the lowest address where it fits, however the free memory came about.
THEOREM Refinement == Spec => ImplementsHeapSpec
<1>1. Init => Abstract!Init
  BY DEF Init, Abstract!Init
<1>2. ASSUME IInv, [Next]_vars
      PROVE  [Abstract!Next]_taken
  <2>1. ASSUME NEW r \in Requests, NEW o \in Owners, Alloc(r, o)
        PROVE  Abstract!Next
    <3> DEFINE c == BlockFor(r, o)
    <3>1. Abstract!Fits(r + 1) # {} /\ c.at = Abstract!Min(Abstract!Fits(r + 1))
      BY <1>2, <2>1, FirstFitIsLowest
    <3>2. taken' = taken \cup {c}
      BY <2>1 DEF Alloc
    <3>3. c = [at |-> c.at, size |-> r + 1, owner |-> o]
      BY DEF BlockFor, WithHeader
    <3> HIDE DEF c
    <3>4. Abstract!Alloc(r, o)
      BY <3>1, <3>2, <3>3 DEF Abstract!Alloc
    <3> QED
      BY <3>4 DEF Abstract!Next
  <2>2. ASSUME NEW b \in taken, NEW o \in Owners, Dealloc(b, o)
        PROVE  Abstract!Next
    BY <2>2 DEF Dealloc, OwnedBy, Abstract!Next, Abstract!Dealloc
  <2>3. CASE UNCHANGED vars
    BY <2>3 DEF vars
  <2> QED
    BY <1>2, <2>1, <2>2, <2>3 DEF Next
<1> QED
  BY <1>1, <1>2, Invariance, PTL DEF Spec, ImplementsHeapSpec, Abstract!Spec

-----------------------------------------------------------------------------
(* Shapes and counting.                                                    *)

\* What a node and a block look like to those that walk through the heap.
Shape(b) == [at |-> b.at, size |-> b.size]

\* The shapes of blocks and nodes are not empty and end where those end.
LEMMA ShapeFacts ==
  ASSUME IInv
  PROVE  /\ \A b \in taken : /\ Shape(b) \in Node
                             /\ EndOf(Shape(b)) = EndOf(b)
                             /\ Shape(b).at = b.at
                             /\ EndOf(b) <= TAIL
         /\ \A a \in Node : /\ a.at \in Nat /\ a.at >= 1
                            /\ EndOf(a) \in Nat /\ a.at < EndOf(a)
<1>1. ASSUME NEW b \in taken
      PROVE  /\ Shape(b) \in Node
             /\ EndOf(Shape(b)) = EndOf(b)
             /\ Shape(b).at = b.at
             /\ EndOf(b) <= TAIL
  BY DEF IInv, Block, Node, Shape, EndOf
<1>2. ASSUME NEW a \in Node
      PROVE  /\ a.at \in Nat /\ a.at >= 1
             /\ EndOf(a) \in Nat /\ a.at < EndOf(a)
  BY HeapBounds DEF Node, EndOf
<1> QED
  BY <1>1, <1>2

\* No two blocks start at one place, and none starts where a node does.
LEMMA StartsDiffer ==
  ASSUME IInv
  PROVE  /\ \A b, c \in taken : b.at = c.at => b = c
         /\ \A b \in taken, k \in 1 .. Len(free) : b.at # free[k].at
         /\ \A j, k \in 1 .. Len(free) : free[j].at = free[k].at => j = k
<1>1. ASSUME NEW b \in taken
      PROVE  b.at \in 1 .. TAIL - 1 /\ In(b.at, b)
  BY BlockFacts DEF IInv, Block, In
<1>2. ASSUME NEW b \in taken, NEW c \in taken, b.at = c.at
      PROVE  b = c
  BY <1>1, <1>2 DEF IInv
<1>3. ASSUME NEW b \in taken, NEW k \in 1 .. Len(free), b.at = free[k].at
      PROVE  FALSE
  <2>1. In(b.at, free[k])
    BY <1>3, NodeFacts DEF IInv, In
  <2> QED
    BY <2>1, <1>1 DEF IInv, Covered
<1>4. ASSUME NEW j \in 1 .. Len(free), NEW k \in 1 .. Len(free), free[j].at = free[k].at
      PROVE  j = k
  <2>1. \A i \in 1 .. Len(free) :
          free[i].at \in Nat /\ EndOf(free[i]) \in Nat /\ free[i].at < EndOf(free[i])
    BY NodeFacts DEF IInv
  <2>2. /\ j < k => EndOf(free[j]) < free[k].at
        /\ k < j => EndOf(free[k]) < free[j].at
    BY DEF IInv, Ordered
  <2> QED
    BY <2>1, <2>2, <1>4
<1> QED
  BY <1>2, <1>3, <1>4

\* Nodes and blocks tile the heap: they do not overlap and nothing is lost.
THEOREM Tiling == Spec => []BlocksTile
<1>1. IInv => BlocksTile
  <2> SUFFICES ASSUME IInv PROVE BlocksTile
    OBVIOUS
  <2> DEFINE B == {Shape(b) : b \in taken}
             N == {free[k] : k \in DOMAIN free}
             all == B \cup N
  <2>1. DOMAIN free = 1 .. Len(free) /\ Len(free) \in Nat
    BY ListFacts DEF IInv
  <2>2. \A a \in all : a \in Node /\ a.at \in Nat /\ a.at >= 1 /\ EndOf(a) \in Nat
                       /\ a.at < EndOf(a) /\ EndOf(a) <= TAIL
    <3>1. \A a \in B : a \in Node /\ EndOf(a) <= TAIL
      BY ShapeFacts
    <3>2. \A a \in N : a \in Node /\ EndOf(a) <= TAIL
      BY <2>1 DEF IInv, Ordered
    <3> QED
      BY <3>1, <3>2, ShapeFacts
  <2>3. \A u \in 1 .. TAIL - 1 : \E a \in all : In(u, a)
    <3> SUFFICES ASSUME NEW u \in 1 .. TAIL - 1 PROVE \E a \in all : In(u, a)
      OBVIOUS
    <3>1. CASE Covered(free, u)
      BY <3>1, <2>1 DEF Covered
    <3>2. CASE ~ Covered(free, u)
      <4>1. PICK b \in taken : In(u, b)
        BY <3>2 DEF IInv
      <4>2. In(u, Shape(b))
        BY <4>1, ShapeFacts DEF In
      <4> QED
        BY <4>2
    <3> QED
      BY <3>1, <3>2
  <2>4. \A a, c \in all, u \in 1 .. TAIL - 1 : In(u, a) /\ In(u, c) => a = c
    <3> SUFFICES ASSUME NEW a \in all, NEW c \in all, NEW u \in 1 .. TAIL - 1,
                        In(u, a), In(u, c)
                 PROVE  a = c
      OBVIOUS
    <3>1. \A b \in taken : In(u, Shape(b)) => In(u, b)
      BY ShapeFacts DEF In
    <3>2. CASE Covered(free, u)
      <4>1. a \notin B /\ c \notin B
        BY <3>1, <3>2 DEF IInv
      <4>2. PICK j \in 1 .. Len(free), k \in 1 .. Len(free) : a = free[j] /\ c = free[k]
        BY <4>1, <2>1
      <4>3. /\ j < k => EndOf(free[j]) < free[k].at
            /\ k < j => EndOf(free[k]) < free[j].at
        BY DEF IInv, Ordered
      <4>4. j = k
        BY <4>2, <4>3, <2>2, <2>1 DEF In
      <4> QED
        BY <4>2, <4>4
    <3>3. CASE ~ Covered(free, u)
      <4>1. a \in B /\ c \in B
        BY <3>3, <2>1 DEF Covered
      <4>2. PICK b \in taken, d \in taken : a = Shape(b) /\ c = Shape(d)
        BY <4>1
      <4>3. b = d
        BY <4>2, <3>1 DEF IInv
      <4> QED
        BY <4>2, <4>3
    <3> QED
      BY <3>2, <3>3
  <2>5. IsFiniteSet(B) /\ Cardinality(B) = Cardinality(taken)
    <3> DEFINE F == [b \in taken |-> Shape(b)]
    <3>1. F \in [taken -> B]
      OBVIOUS
    <3>2. \A b, c \in taken : F[b] = F[c] => b = c
      BY StartsDiffer, ShapeFacts
    <3>3. \A a \in B : \E b \in taken : F[b] = a
      OBVIOUS
    <3>4. IsFiniteSet(taken)
      BY DEF IInv
    <3> HIDE DEF F, B
    <3> QED
      BY <3>1, <3>2, <3>3, <3>4, SameCount
  <2>6. IsFiniteSet(N) /\ Cardinality(N) = Len(free)
    <3> DEFINE D == 1 .. Len(free)
               F == [k \in D |-> free[k]]
    <3>1. F \in [D -> N]
      BY <2>1
    <3>2. \A j, k \in D : F[j] = F[k] => j = k
      BY StartsDiffer
    <3>3. \A a \in N : \E k \in D : F[k] = a
      BY <2>1
    <3>4. IsFiniteSet(D) /\ Cardinality(D) = Len(free)
      <4>1. /\ IsFiniteSet(1 .. Len(free))
            /\ Cardinality(1 .. Len(free)) = IF 1 > Len(free) THEN 0 ELSE Len(free) - 1 + 1
        BY <2>1, FS_Interval
      <4> QED
        BY <4>1, <2>1
    <3> HIDE DEF F, N, D
    <3> QED
      BY <3>1, <3>2, <3>3, <3>4, SameCount
  <2>7. B \cap N = {}
    BY <2>1, StartsDiffer, ShapeFacts
  <2> HIDE DEF B, N
  <2>8. Cardinality(all) = Cardinality(taken) + Len(free)
    <3>1. Cardinality(B \cup N) = Cardinality(B) + Cardinality(N) - Cardinality(B \cap N)
      BY <2>5, <2>6, FS_Union
    <3>2. Cardinality(B \cap N) = 0
      BY <2>7, FS_EmptySet
    <3>3. Cardinality(taken) \in Nat
      BY FS_CardinalityType DEF IInv
    <3> QED
      BY <3>1, <3>2, <3>3, <2>1, <2>5, <2>6
  <2> HIDE DEF all
  <2>9. \A a, c \in all : a # c => EndOf(a) <= c.at \/ EndOf(c) <= a.at
    <3> SUFFICES ASSUME NEW a \in all, NEW c \in all, a # c, a.at < EndOf(c), c.at < EndOf(a)
                 PROVE  FALSE
      BY <2>2
    <3>1. CASE a.at <= c.at
      <4>1. c.at \in 1 .. TAIL - 1 /\ In(c.at, a) /\ In(c.at, c)
        BY <3>1, <2>2, HeapBounds DEF In
      <4> QED
        BY <4>1, <2>4
    <3>2. CASE c.at <= a.at
      <4>1. a.at \in 1 .. TAIL - 1 /\ In(a.at, a) /\ In(a.at, c)
        BY <3>2, <2>2, HeapBounds DEF In
      <4> QED
        BY <4>1, <2>4
    <3> QED
      BY <3>1, <3>2, <2>2
  <2>10. \A a \in all : EndOf(a) = TAIL \/ \E c \in all : c.at = EndOf(a)
    <3> SUFFICES ASSUME NEW a \in all, EndOf(a) # TAIL
                 PROVE  \E c \in all : c.at = EndOf(a)
      OBVIOUS
    <3>1. EndOf(a) \in 1 .. TAIL - 1
      BY <2>2, HeapBounds
    <3>2. PICK c \in all : In(EndOf(a), c)
      BY <3>1, <2>3
    <3>3. c # a
      BY <3>2, <2>2 DEF In
    <3>4. EndOf(a) <= c.at \/ EndOf(c) <= a.at
      BY <3>3, <2>9
    <3>5. c.at = EndOf(a)
      BY <3>2, <3>4, <2>2 DEF In
    <3> QED
      BY <3>5
  <2>11. \E a \in all : a.at = 1
    <3>1. 1 \in 1 .. TAIL - 1
      BY HeapBounds
    <3>2. PICK a \in all : In(1, a)
      BY <3>1, <2>3
    <3> QED
      BY <3>2, <2>2 DEF In
  <2> QED
    BY <2>8, <2>9, <2>10, <2>11 DEF BlocksTile, all, B, N, Shape
<1> QED
  BY <1>1, Invariance, PTL

\* The stretch of units that lie in a node.
StretchOf(m) == <<m.at, EndOf(m) - 1>>

\* Each node of the list is a stretch of free memory between blocks, for no two
\* nodes touch ...
LEMMA NodeIsGap ==
  ASSUME IInv, NEW k \in 1 .. Len(free)
  PROVE  StretchOf(free[k]) \in Abstract!Gaps
<1> DEFINE a == free[k].at
           z == EndOf(free[k]) - 1
<1>1. \A i \in 1 .. Len(free) :
        /\ free[i].at \in Nat /\ free[i].at >= 1
        /\ EndOf(free[i]) \in Nat /\ free[i].at < EndOf(free[i])
  BY NodeFacts DEF IInv
<1>2. a \in Nat /\ a >= 1 /\ z \in Nat /\ a <= z /\ EndOf(free[k]) = z + 1
  BY <1>1
<1>3. \A i \in 1 .. Len(free) : (i < k => EndOf(free[i]) < a) /\ (k < i => z + 1 < free[i].at)
  BY <1>2 DEF IInv, Ordered
<1> HIDE DEF z
<1>4. a .. z \subseteq Abstract!Free
  <2> SUFFICES ASSUME NEW u \in a .. z PROVE u \in Abstract!Free
    OBVIOUS
  <2>1. u \in Nat /\ u >= 1 /\ In(u, free[k])
    BY <1>2 DEF In
  <2> QED
    BY <2>1, FreeIs DEF Covered
<1>5. a - 1 \notin Abstract!Free
  <2> SUFFICES ASSUME a - 1 \in Nat, NEW i \in 1 .. Len(free), In(a - 1, free[i]) PROVE FALSE
    BY <1>2, FreeIs DEF Covered
  <2>1. free[i].at <= a - 1 /\ a - 1 < EndOf(free[i])
    BY DEF In
  <2>2. Len(free) \in Nat
    BY ListFacts DEF IInv
  <2>3. CASE i < k
    BY <2>1, <2>3, <1>1, <1>2, <1>3, SMTT(30)
  <2>4. CASE k < i
    BY <2>1, <2>4, <1>1, <1>2, <1>3
  <2>5. CASE i = k
    BY <2>1, <2>5, <1>2
  <2> QED
    BY <2>2, <2>3, <2>4, <2>5
<1>6. z + 1 \notin Abstract!Free
  <2> SUFFICES ASSUME NEW i \in 1 .. Len(free), In(z + 1, free[i]) PROVE FALSE
    BY <1>2, FreeIs DEF Covered
  <2>1. free[i].at <= z + 1 /\ z + 1 < EndOf(free[i])
    BY DEF In
  <2>2. Len(free) \in Nat
    BY ListFacts DEF IInv
  <2>3. CASE i < k
    BY <2>1, <2>3, <1>1, <1>2, <1>3
  <2>4. CASE k < i
    BY <2>1, <2>4, <1>1, <1>2, <1>3
  <2>5. CASE i = k
    BY <2>1, <2>5, <1>2
  <2> QED
    BY <2>2, <2>3, <2>4, <2>5
<1>7. a \in Abstract!Free /\ z \in Abstract!Free
  BY <1>2, <1>4
<1>8. StretchOf(free[k]) = <<a, z>>
  BY DEF StretchOf, z
<1> HIDE DEF a
<1> QED
  BY <1>2, <1>4, <1>5, <1>6, <1>7, <1>8 DEF Abstract!Gaps

\* ... and each such stretch is a node.
LEMMA GapIsNode ==
  ASSUME IInv, NEW g \in Abstract!Gaps
  PROVE  \E k \in 1 .. Len(free) : StretchOf(free[k]) = g
<1>1. /\ g \in Abstract!Free \X Abstract!Free
      /\ g[1] <= g[2]
      /\ g[1] .. g[2] \subseteq Abstract!Free
      /\ g[1] - 1 \notin Abstract!Free
      /\ g[2] + 1 \notin Abstract!Free
  BY DEF Abstract!Gaps
<1>2. g[1] \in Nat /\ g[1] >= 1 /\ g[2] \in Nat /\ g = <<g[1], g[2]>>
  BY <1>1, HeapBounds DEF Abstract!Free
<1> DEFINE a == g[1]
           z == g[2]
           n == z - a + 1
<1>3. n \in Nat /\ n >= 1 /\ a + n - 1 = z
  BY <1>1, <1>2
<1>4. a .. a + n - 1 \subseteq Abstract!Free
  BY <1>1, <1>3
<1> HIDE DEF n
<1>5. PICK k \in 1 .. Len(free) : free[k].at <= a /\ a + n <= EndOf(free[k])
  BY <1>2, <1>3, <1>4, StretchInNode
<1>6. free[k].at \in Nat /\ free[k].at >= 1 /\ EndOf(free[k]) \in Nat
  BY NodeFacts DEF IInv
<1>7. free[k].at = a
  <2> SUFFICES ASSUME free[k].at < a PROVE FALSE
    BY <1>2, <1>5, <1>6
  <2>1. a - 1 \in Nat /\ a - 1 >= 1 /\ In(a - 1, free[k])
    BY <1>2, <1>3, <1>5, <1>6, SMTT(30) DEF In
  <2>2. a - 1 \in Abstract!Free
    BY <2>1, FreeIs DEF Covered
  <2> QED
    BY <2>2, <1>1
<1>8. EndOf(free[k]) - 1 = z
  <2> SUFFICES ASSUME z + 1 < EndOf(free[k]) PROVE FALSE
    BY <1>2, <1>3, <1>5, <1>6
  <2>1. z + 1 \in Nat /\ z + 1 >= 1 /\ In(z + 1, free[k])
    BY <1>2, <1>1, <1>5, <1>6 DEF In
  <2>2. z + 1 \in Abstract!Free
    BY <2>1, FreeIs DEF Covered
  <2> QED
    BY <2>2, <1>1
<1> QED
  BY <1>2, <1>7, <1>8 DEF StretchOf

\* k_mem_count_extfrag counts the stretches of free memory below a size.
THEOREM ExtFragCorrect == Spec => []ExtFragExact
<1>1. IInv => ExtFragExact
  <2> SUFFICES ASSUME IInv, NEW n \in 1 .. TAIL
               PROVE  k_mem_count_extfrag(n)
                        = Cardinality({g \in Abstract!Gaps : g[2] - g[1] + 1 < n})
    BY DEF ExtFragExact
  <2> DEFINE S == {k \in 1 .. Len(free) : free[k].size < n}
             T == {g \in Abstract!Gaps : g[2] - g[1] + 1 < n}
             F == [k \in S |-> StretchOf(free[k])]
  <2>1. DOMAIN free = 1 .. Len(free) /\ Len(free) \in Nat
    BY ListFacts DEF IInv
  <2>2. \A k \in 1 .. Len(free) :
          LET g == StretchOf(free[k])
          IN g \in Abstract!Gaps /\ g[1] = free[k].at /\ g[2] - g[1] + 1 = free[k].size
    <3> SUFFICES ASSUME NEW k \in 1 .. Len(free)
                 PROVE  LET g == StretchOf(free[k])
                        IN g \in Abstract!Gaps /\ g[1] = free[k].at /\ g[2] - g[1] + 1 = free[k].size
      OBVIOUS
    <3>1. /\ free[k].at \in Nat /\ free[k].size \in Nat
          /\ EndOf(free[k]) = free[k].at + free[k].size
      BY NodeFacts DEF IInv
    <3>2. StretchOf(free[k]) \in Abstract!Gaps
      BY NodeIsGap
    <3> QED
      BY <3>1, <3>2 DEF StretchOf
  <2>3. F \in [S -> T]
    BY <2>2
  <2>4. \A j, k \in S : F[j] = F[k] => j = k
    BY <2>2, StartsDiffer
  <2>5. \A g \in T : \E k \in S : F[k] = g
    BY <2>2, GapIsNode
  <2>6. IsFiniteSet(S)
    <3>1. IsFiniteSet(1 .. Len(free))
      BY <2>1, FS_Interval
    <3> QED
      BY <3>1, FS_Subset
  <2>7. k_mem_count_extfrag(n) = Cardinality(S)
    BY <2>1 DEF k_mem_count_extfrag
  <2> HIDE DEF S, T, F
  <2>8. Cardinality(T) = Cardinality(S)
    BY <2>3, <2>4, <2>5, <2>6, SameCount
  <2> QED
    BY <2>7, <2>8 DEF T
<1> QED
  BY <1>1, Invariance, PTL
=============================================================================
