-------------------------- MODULE PrioQueue_proofs --------------------------
(***************************************************************************)
(* The operations of lib/queue.c on a queue that spells out FIFOs, for any *)
(* number of tasks and priorities.  f names the FIFOs; each lemma says     *)
(* which FIFOs the operation leaves the pointers spelling out.             *)
(***************************************************************************)
EXTENDS QueueLists, DataLemmas

-----------------------------------------------------------------------------
(* Sequences of distinct tasks.                                            *)

\* Fifo without its bound on the length, which follows from the distinctness.
LEMMA FifoIff ==
  ASSUME NEW s
  PROVE  s \in Fifo <=> /\ s \in Seq(Tid)
                        /\ \A i, j \in 1 .. Len(s) : s[i] = s[j] => i = j
<1>1. ASSUME s \in Fifo
      PROVE  /\ s \in Seq(Tid)
             /\ \A i, j \in 1 .. Len(s) : s[i] = s[j] => i = j
  <2>1. PICK n \in 0 .. MAX_TASKS :
          s \in [1 .. n -> Tid] /\ \A i, j \in 1 .. n : s[i] = s[j] => i = j
    BY <1>1 DEF Fifo
  <2>2. s \in Seq(Tid)
    BY <2>1, SeqDef, MaxTasksAssumption
  <2>3. Len(s) = n
    BY <2>1, <2>2, LenProperties, MaxTasksAssumption
  <2> QED BY <2>1, <2>2, <2>3
<1>2. ASSUME s \in Seq(Tid),
             \A i, j \in 1 .. Len(s) : s[i] = s[j] => i = j
      PROVE  s \in Fifo
  <2> DEFINE n == Len(s)
  <2>1. n \in Nat /\ s \in [1 .. n -> Tid]
    BY <1>2, LenProperties
  <2>2. s \in Injection(1 .. n, Tid)
    BY <1>2, <2>1 DEF Injection, IsInjective
  <2>3. IsFiniteSet(Tid) /\ Cardinality(Tid) = MAX_TASKS
    BY FS_Interval, MaxTasksAssumption DEF Tid
  <2>4. IsFiniteSet(1 .. n) /\ Cardinality(1 .. n) = n
    BY <2>1, FS_Interval, SMTT(30)
  <2>5. Cardinality(1 .. n) <= Cardinality(Tid)
    BY <2>2, <2>3, FS_Injection
  <2>6. n \in 0 .. MAX_TASKS
    BY <2>1, <2>3, <2>4, <2>5, MaxTasksAssumption
  <2> QED BY <2>1, <2>6, <1>2 DEF Fifo
<1> QED BY <1>1, <1>2

\* What the other lemmas use of it.
LEMMA FifoProperties ==
  ASSUME NEW s \in Fifo
  PROVE  /\ s \in Seq(Tid)
         /\ Len(s) \in Nat
         /\ DOMAIN s = 1 .. Len(s)
         /\ \A i \in 1 .. Len(s) : s[i] \in Tid
         /\ \A i, j \in 1 .. Len(s) : s[i] = s[j] => i = j
         /\ s = << >> <=> Len(s) = 0
BY FifoIff, LenProperties, ElementOfSeq, EmptySeq

-----------------------------------------------------------------------------
(* Lists.                                                                  *)

\* A walk that starts at the head of a list comes to the nodes of that list
\* and to no other.
LEMMA ListReaches ==
  ASSUME NEW q, NEW p, NEW s \in Fifo, s # << >>, IsList(q, p, s), NEW u
  PROVE  Reaches(q, s[1], u) <=> u \in Elems(s)
<1>1. /\ Len(s) \in Nat /\ Len(s) > 0
      /\ \A i \in 1 .. Len(s) : s[i] \in Tid
  BY FifoProperties
<1>2. \A i \in 1 .. Len(s) : q.next[s[i]] = IF i = Len(s) THEN NULL ELSE s[i + 1]
  BY DEF IsList
<1>3. ASSUME Reaches(q, s[1], u) PROVE u \in Elems(s)
  <2>1. Elems(s) \in SUBSET Tid /\ s[1] \in Elems(s)
    BY <1>1 DEF Elems
  <2>2. \A x \in Elems(s) : q.next[x] \in Elems(s) \cup {NULL}
    BY <1>1, <1>2 DEF Elems
  <2> QED BY <1>3, <2>1, <2>2 DEF Reaches
<1>4. ASSUME NEW i \in 1 .. Len(s), u = s[i] PROVE Reaches(q, s[1], u)
  <2> SUFFICES ASSUME NEW S \in SUBSET Tid, s[1] \in S,
                      \A x \in S : q.next[x] \in S \cup {NULL},
                      s[i] \notin S
               PROVE  FALSE
    BY <1>4 DEF Reaches
  <2> DEFINE B == {k \in 1 .. Len(s) : s[k] \notin S}
  <2>1. B \in SUBSET Nat /\ B # {}
    BY <1>1
  <2>2. PICK m \in B : \A k \in B : m <= k
    BY <2>1, LeastElement
  <2>3. m \in 1 .. Len(s) /\ m # 1 /\ m - 1 \in 1 .. Len(s) /\ m - 1 # Len(s)
    BY <1>1, <2>2
  <2>4. s[m - 1] \in S
    BY <1>1, <2>2, <2>3
  <2>5. q.next[s[m - 1]] = s[m]
    BY <1>1, <1>2, <2>3
  <2>6. s[m] \in Tid /\ s[m] \notin S
    BY <1>1, <2>2, <2>3
  <2> QED BY <2>4, <2>5, <2>6, NullAssumption
<1> QED BY <1>3, <1>4 DEF Elems

\* The walk of pq_add_node stops at the last node.
LEMMA LastOfList ==
  ASSUME NEW q, NEW p, NEW s \in Fifo, s # << >>, IsList(q, p, s)
  PROVE  LastFrom(q, q.arr[p]) = s[Len(s)]
<1>1. /\ Len(s) \in Nat /\ Len(s) > 0
      /\ \A i \in 1 .. Len(s) : s[i] \in Tid
  BY FifoProperties
<1>2. q.arr[p] = s[1]
  BY DEF IsList
<1>3. \A u : Reaches(q, s[1], u) <=> u \in Elems(s)
  BY ListReaches
<1>4. \A i \in 1 .. Len(s) : q.next[s[i]] = NULL <=> i = Len(s)
  <2> SUFFICES ASSUME NEW i \in 1 .. Len(s)
               PROVE  q.next[s[i]] = NULL <=> i = Len(s)
    OBVIOUS
  <2>1. q.next[s[i]] = IF i = Len(s) THEN NULL ELSE s[i + 1]
    BY DEF IsList
  <2>2. i # Len(s) => s[i + 1] \in Tid
    BY <1>1
  <2> QED BY <2>1, <2>2, NullAssumption
<1>5. \A u \in Tid : Reaches(q, s[1], u) /\ q.next[u] = NULL <=> u = s[Len(s)]
  <2>1. Len(s) \in 1 .. Len(s)
    BY <1>1
  <2> QED BY <1>3, <1>4, <2>1 DEF Elems
<1>6. s[Len(s)] \in Tid
  BY <1>1
<1> QED BY <1>2, <1>5, <1>6 DEF LastFrom

\* The pointers spell out at most one sequence.
LEMMA ListUnique ==
  ASSUME NEW q, NEW p, NEW s \in Fifo, NEW r \in Fifo,
         IsList(q, p, s), IsList(q, p, r)
  PROVE  s = r
<1>1. /\ Len(s) \in Nat /\ Len(r) \in Nat
      /\ \A i \in 1 .. Len(s) : s[i] \in Tid
      /\ \A i \in 1 .. Len(r) : r[i] \in Tid
      /\ s \in Seq(Tid) /\ r \in Seq(Tid)
      /\ s = << >> <=> Len(s) = 0
      /\ r = << >> <=> Len(r) = 0
  BY FifoProperties
<1>2. Len(s) > 0 <=> Len(r) > 0
  BY <1>1, NullAssumption DEF IsList
<1>3. \A i \in Nat \ {0} : i <= Len(s) => i <= Len(r) /\ s[i] = r[i]
  <2> DEFINE B == {i \in Nat \ {0} : i <= Len(s) /\ ~ (i <= Len(r) /\ s[i] = r[i])}
  <2> SUFFICES ASSUME B # {} PROVE FALSE
    OBVIOUS
  <2>1. PICK m \in B : \A k \in B : m <= k
    <3>1. B \in SUBSET Nat
      OBVIOUS
    <3> QED BY <3>1, LeastElement
  <2>2. m # 1
    <3> SUFFICES ASSUME m = 1 PROVE FALSE
      OBVIOUS
    <3>1. Len(s) > 0 /\ Len(r) > 0
      BY <1>1, <1>2, <2>1
    <3>2. s[1] = q.arr[p] /\ r[1] = q.arr[p]
      BY <1>1, <3>1 DEF IsList
    <3> QED BY <1>1, <2>1, <3>1, <3>2
  <2>3. m - 1 \in 1 .. Len(s) /\ m - 1 # Len(s) /\ m - 1 \in 1 .. Len(r)
        /\ s[m - 1] = r[m - 1]
    <3>1. m - 1 \in Nat \ {0} /\ m - 1 <= Len(s) /\ m - 1 # Len(s)
      BY <1>1, <2>1, <2>2
    <3>2. m - 1 \notin B
      BY <2>1, <3>1
    <3> QED BY <1>1, <3>1, <3>2
  <2>4. q.next[s[m - 1]] = s[m] /\ s[m] \in Tid
    <3>1. q.next[s[m - 1]] = s[(m - 1) + 1]
      BY <2>3 DEF IsList
    <3>2. m \in 1 .. Len(s) /\ (m - 1) + 1 = m
      BY <1>1, <2>1
    <3> QED BY <1>1, <3>1, <3>2
  <2>5. m - 1 # Len(r)
    BY <2>3, <2>4, NullAssumption DEF IsList
  <2>6. q.next[r[m - 1]] = r[m] /\ m <= Len(r)
    <3>1. q.next[r[m - 1]] = r[(m - 1) + 1]
      BY <2>3, <2>5 DEF IsList
    <3>2. (m - 1) + 1 = m /\ m <= Len(r)
      BY <1>1, <2>1, <2>3, <2>5
    <3> QED BY <3>1, <3>2
  <2> QED BY <2>1, <2>3, <2>4, <2>6
<1>4. Len(r) <= Len(s)
  <2> SUFFICES ASSUME Len(s) < Len(r) PROVE FALSE
    BY <1>1
  <2>1. Len(s) \in 1 .. Len(s) /\ Len(s) \in 1 .. Len(r) /\ s[Len(s)] = r[Len(s)]
    BY <1>1, <1>2, <1>3
  <2>2. q.next[s[Len(s)]] = NULL
    BY <2>1 DEF IsList
  <2>3. q.next[r[Len(s)]] = r[Len(s) + 1] /\ r[Len(s) + 1] \in Tid
    BY <1>1, <2>1 DEF IsList
  <2> QED BY <2>1, <2>2, <2>3, NullAssumption
<1>5. Len(r) = Len(s)
  <2>1. Len(s) <= Len(r)
    BY <1>1, <1>3
  <2> QED BY <1>1, <1>4, <2>1
<1> QED BY <1>1, <1>3, <1>5, SeqEqual

\* A change that spares the head and the links of a list spares the list.
LEMMA ListFrame ==
  ASSUME NEW q, NEW q2, NEW p, NEW s,
         IsList(q, p, s),
         q2.arr[p] = q.arr[p],
         \A u \in Elems(s) : /\ q2.prio[u] = q.prio[u]
                             /\ q2.next[u] = q.next[u]
                             /\ q2.prev[u] = q.prev[u]
  PROVE  IsList(q2, p, s)
BY ZenonT(40) DEF IsList, Elems

-----------------------------------------------------------------------------
(* Queues that represent FIFOs.                                            *)

\* The FIFOs f when t joins the one of priority p.
Joined(f, p, t) == [f EXCEPT ![p] = Append(@, t)]

\* s without its k-th element.
Cut(s, k) == [i \in 1 .. Len(s) - 1 |-> IF i < k THEN s[i] ELSE s[i + 1]]

\* The FIFOs f when the k-th task of priority p leaves.
Left(f, p, k) == [f EXCEPT ![p] = Cut(@, k)]

\* The task ids are finite in number, and so are the members of a queue.
LEMMA MembersFinite ==
  ASSUME NEW f
  PROVE  /\ IsFiniteSet(Tid) /\ Cardinality(Tid) = MAX_TASKS
         /\ IsFiniteSet(Members(f)) /\ Cardinality(Members(f)) \in 0 .. MAX_TASKS
<1>1. IsFiniteSet(Tid) /\ Cardinality(Tid) = MAX_TASKS
  BY FS_Interval, MaxTasksAssumption DEF Tid
<1>2. Members(f) \in SUBSET Tid
  BY DEF Members
<1>3. IsFiniteSet(Members(f)) /\ Cardinality(Members(f)) <= Cardinality(Tid)
  BY <1>1, <1>2, FS_Subset
<1>4. Cardinality(Members(f)) \in Nat
  BY <1>3, FS_CardinalityType
<1> QED BY <1>1, <1>3, <1>4, MaxTasksAssumption

\* A task of a list has the priority of the list, so it is on no other one.
LEMMA PriorityOfMember ==
  ASSUME NEW q, NEW f \in [Prio -> Fifo], Represents(q, f),
         NEW p \in Prio, NEW t \in Elems(f[p])
  PROVE  q.prio[t] = p /\ t \in Tid /\ t \in Members(f)
<1>1. f[p] \in Fifo /\ IsList(q, p, f[p])
  BY DEF Represents
<1>2. PICK i \in 1 .. Len(f[p]) : t = f[p][i]
  BY DEF Elems
<1>3. q.prio[t] = p
  BY <1>1, <1>2 DEF IsList
<1>4. t \in Tid
  BY <1>1, <1>2, FifoProperties
<1> QED BY <1>3, <1>4 DEF Members

\* So a member is on the list of its priority.
LEMMA MemberOfList ==
  ASSUME NEW q, NEW f \in [Prio -> Fifo], Represents(q, f), NEW t
  PROVE  t \in Members(f) <=> q.prio[t] \in Prio /\ t \in Elems(f[q.prio[t]])
BY PriorityOfMember DEF Members

\* The search of pq_move finds the members.
LEMMA QueuedIffMember ==
  ASSUME NEW q \in PRIO_Q, NEW f \in [Prio -> Fifo], Represents(q, f), NEW t \in Tid
  PROVE  Queued(q, t) <=> t \in Members(f)
<1> DEFINE p == q.prio[t]
<1>1. p \in Prio
  BY DEF PRIO_Q
<1>2. f[p] \in Fifo /\ IsList(q, p, f[p])
  BY <1>1 DEF Represents
<1>3. t \in Members(f) <=> t \in Elems(f[p])
  BY <1>1, MemberOfList
<1>4. CASE f[p] = << >>
  <2>1. q.arr[p] = NULL
    BY <1>2, <1>4 DEF IsList
  <2>2. Elems(f[p]) = {}
    BY <1>2, <1>4, FifoProperties DEF Elems
  <2> QED BY <1>3, <2>1, <2>2 DEF Queued
<1>5. CASE f[p] # << >>
  <2>1. q.arr[p] = f[p][1] /\ f[p][1] \in Tid
    <3>1. 1 \in 1 .. Len(f[p])
      BY <1>2, <1>5, FifoProperties
    <3> QED BY <1>2, <1>5, <3>1, FifoProperties DEF IsList
  <2>2. Reaches(q, f[p][1], t) <=> t \in Elems(f[p])
    BY <1>2, <1>5, ListReaches
  <2> QED BY <1>3, <2>1, <2>2, NullAssumption DEF Queued
<1> QED BY <1>4, <1>5

\* A queue represents at most one family of FIFOs, and Fifos names it.
LEMMA FifosOfQueue ==
  ASSUME NEW q, NEW f \in [Prio -> Fifo], Represents(q, f)
  PROVE  Fifos(q) = f
<1>1. ASSUME NEW p \in Prio
      PROVE  (CHOOSE s \in Fifo : IsList(q, p, s)) = f[p]
  <2>1. f[p] \in Fifo /\ IsList(q, p, f[p])
    BY DEF Represents
  <2>2. \A s \in Fifo : IsList(q, p, s) => s = f[p]
    BY <2>1, ListUnique
  <2> QED BY <2>1, <2>2
<1> QED BY <1>1 DEF Fifos

\* WellFormed says that there is such a family.
LEMMA WellFormedIff ==
  ASSUME NEW q
  PROVE  WellFormed(q) <=> \E f \in [Prio -> Fifo] : Represents(q, f)
<1>1. ASSUME WellFormed(q) PROVE \E f \in [Prio -> Fifo] : Represents(q, f)
  <2>1. Fifos(q) \in [Prio -> Fifo]
    BY <1>1 DEF WellFormed, Fifos
  <2> QED BY <1>1, <2>1 DEF WellFormed
<1>2. ASSUME NEW f \in [Prio -> Fifo], Represents(q, f) PROVE WellFormed(q)
  <2>1. Represents(q, Fifos(q))
    BY <1>2, FifosOfQueue
  <2> QED BY <1>2, <2>1 DEF WellFormed, Represents
<1> QED BY <1>1, <1>2

\* No list runs through the links of a task that is not a member, nor depends
\* on its priority.
LEMMA RepresentsFrame ==
  ASSUME NEW q, NEW q2, NEW f \in [Prio -> Fifo], Represents(q, f),
         q2.size = q.size, q2.next_dq = q.next_dq, q2.arr = q.arr,
         \A u \in Members(f) : /\ q2.prio[u] = q.prio[u]
                               /\ q2.next[u] = q.next[u]
                               /\ q2.prev[u] = q.prev[u]
  PROVE  Represents(q2, f)
<1>1. ASSUME NEW p \in Prio PROVE IsList(q2, p, f[p])
  <2>1. IsList(q, p, f[p])
    BY DEF Represents
  <2>2. \A u \in Elems(f[p]) : u \in Members(f)
    BY PriorityOfMember
  <2> QED BY <2>1, <2>2, ListFrame
<1> QED BY <1>1 DEF Represents

-----------------------------------------------------------------------------
(* pq_add.                                                                 *)

\* A task at the end of a sequence of other tasks.
LEMMA AppendFifo ==
  ASSUME NEW s \in Fifo, NEW t \in Tid, t \notin Elems(s)
  PROVE  /\ Append(s, t) \in Fifo
         /\ Append(s, t) # << >>
         /\ Len(Append(s, t)) = Len(s) + 1
         /\ \A i \in 1 .. Len(s) : Append(s, t)[i] = s[i]
         /\ Append(s, t)[Len(s) + 1] = t
         /\ Elems(Append(s, t)) = Elems(s) \cup {t}
<1> DEFINE a == Append(s, t)
<1>1. /\ a \in Seq(Tid) /\ a # << >>
      /\ Len(a) = Len(s) + 1
      /\ \A i \in 1 .. Len(s) : a[i] = s[i]
      /\ a[Len(s) + 1] = t
  BY FifoProperties, AppendProperties
<1>2. Len(s) \in Nat /\ \A i, j \in 1 .. Len(s) : s[i] = s[j] => i = j
  BY FifoProperties
<1> HIDE DEF a
<1>3. \A i \in 1 .. Len(a) : i \in 1 .. Len(s) \/ i = Len(s) + 1
  BY <1>1, <1>2
<1>4. \A i, j \in 1 .. Len(a) : a[i] = a[j] => i = j
  BY <1>1, <1>2, <1>3 DEF Elems
<1>5. Elems(a) = Elems(s) \cup {t}
  <2>1. 1 .. Len(a) = 1 .. Len(s) \cup {Len(s) + 1}
    BY <1>1, <1>2
  <2> QED BY <1>1, <2>1 DEF Elems
<1>6. a \in Fifo
  BY <1>1, <1>4, FifoIff
<1> QED BY <1>1, <1>5, <1>6 DEF a

\* The size is an unsigned short, which the number of tasks never overflows.
LEMMA ShortSize ==
  /\ USHRT_MAX \in Nat
  /\ \A n \in Nat : n + 1 <= USHRT_MAX =>
       (n + 1) % (USHRT_MAX + 1) = n + 1 /\ n + 1 \in 0 .. USHRT_MAX
<1>1. USHRT_MAX \in Nat
  BY DEF USHRT_MAX
<1>2. ASSUME NEW n \in Nat, n + 1 <= USHRT_MAX
      PROVE  (n + 1) % (USHRT_MAX + 1) = n + 1
  BY <1>2 DEF USHRT_MAX
<1> QED BY <1>1, <1>2

\* The fields of a queue to which t is added, when there is room.
LEMMA AddFields ==
  ASSUME NEW q \in PRIO_Q, NEW t \in Tid, ~ pq_full(q),
         q.arr[q.prio[t]] # NULL => LastFrom(q, q.arr[q.prio[t]]) \in Tid,
         q.size < MAX_TASKS
  PROVE  LET p    == q.prio[t]
             head == q.arr[p]
             tail == LastFrom(q, head)
             a    == pq_add(q, t)
         IN /\ a \in PRIO_Q
            /\ a.size = q.size + 1
            /\ a.next_dq = NextDqOnAdd(q, t)
            /\ a.prio = q.prio
            /\ a.arr = IF head = NULL THEN [q.arr EXCEPT ![p] = t] ELSE q.arr
            /\ a.next = IF head = NULL THEN [q.next EXCEPT ![t] = NULL]
                        ELSE [q.next EXCEPT ![tail] = t, ![t] = NULL]
            /\ a.prev = IF head = NULL THEN [q.prev EXCEPT ![t] = NULL]
                        ELSE [q.prev EXCEPT ![t] = tail]
<1> DEFINE p    == q.prio[t]
           head == q.arr[p]
           tail == LastFrom(q, head)
           n    == pq_add_node(q, t)
<1>1. p \in Prio /\ NextDqOnAdd(q, t) \in Prio
  BY DEF PRIO_Q, NextDqOnAdd
<1>2. (q.size + 1) % (USHRT_MAX + 1) = q.size + 1 /\ q.size + 1 \in 0 .. USHRT_MAX
  <2>1. q.size \in Nat /\ q.size + 1 <= USHRT_MAX
    BY MaxTasksAssumption, ShortSize DEF PRIO_Q
  <2> QED BY <2>1, ShortSize
<1>3. CASE head = NULL
  <2>1. n = [q EXCEPT !.arr[p] = t, !.next[t] = NULL, !.prev[t] = NULL]
    BY <1>3 DEF pq_add_node
  <2>2. n \in PRIO_Q
    <3> DEFINE A == [q.arr EXCEPT ![p] = t]
               N == [q.next EXCEPT ![t] = NULL]
               V == [q.prev EXCEPT ![t] = NULL]
    <3>1. n = [size |-> q.size, next_dq |-> q.next_dq, arr |-> A, next |-> N,
               prev |-> V, prio |-> q.prio]
      BY <2>1 DEF PRIO_Q
    <3>2. A \in [Prio -> Link] /\ N \in [Tid -> Link] /\ V \in [Tid -> Link]
      BY <1>1 DEF PRIO_Q, Link
    <3> HIDE DEF A, N, V, n
    <3> QED BY <3>1, <3>2 DEF PRIO_Q
  <2>3. /\ n.arr = [q.arr EXCEPT ![p] = t]
        /\ n.next = [q.next EXCEPT ![t] = NULL]
        /\ n.prev = [q.prev EXCEPT ![t] = NULL]
        /\ n.size = q.size /\ n.prio = q.prio
    BY <2>1 DEF PRIO_Q
  <2>4. pq_add(q, t) = [n EXCEPT !.next_dq = NextDqOnAdd(q, t), !.size = q.size + 1]
    BY <1>2, <2>2, <2>3 DEF pq_add
  <2> HIDE DEF n
  <2> QED BY <1>1, <1>2, <1>3, <2>2, <2>3, <2>4 DEF PRIO_Q
<1>4. CASE head # NULL
  <2>1. n = [q EXCEPT !.next = [@ EXCEPT ![tail] = t, ![t] = NULL], !.prev[t] = tail]
    BY <1>4 DEF pq_add_node
  <2>2. tail \in Tid
    BY <1>4
  <2> HIDE DEF tail
  <2>3. n \in PRIO_Q
    <3> DEFINE N == [q.next EXCEPT ![tail] = t, ![t] = NULL]
               V == [q.prev EXCEPT ![t] = tail]
    <3>1. n = [size |-> q.size, next_dq |-> q.next_dq, arr |-> q.arr, next |-> N,
               prev |-> V, prio |-> q.prio]
      BY <2>1 DEF PRIO_Q
    <3>2. N \in [Tid -> Link] /\ V \in [Tid -> Link]
      BY <1>1, <2>2 DEF PRIO_Q, Link
    <3> HIDE DEF N, V, n
    <3> QED BY <3>1, <3>2 DEF PRIO_Q
  <2>4. /\ n.arr = q.arr
        /\ n.next = [q.next EXCEPT ![tail] = t, ![t] = NULL]
        /\ n.prev = [q.prev EXCEPT ![t] = tail]
        /\ n.size = q.size /\ n.prio = q.prio
    BY <2>1 DEF PRIO_Q
  <2>5. pq_add(q, t) = [n EXCEPT !.next_dq = NextDqOnAdd(q, t), !.size = q.size + 1]
    BY <1>2, <2>3, <2>4 DEF pq_add
  <2> HIDE DEF n
  <2> QED BY <1>1, <1>2, <1>4, <2>3, <2>4, <2>5 DEF PRIO_Q, tail
<1> QED BY <1>3, <1>4

\* A list is empty exactly when its head is NULL, and then it has no elements.
LEMMA EmptyList ==
  ASSUME NEW q, NEW p, NEW s \in Fifo, IsList(q, p, s)
  PROVE  /\ s = << >> <=> q.arr[p] = NULL
         /\ s = << >> <=> Elems(s) = {}
<1>1. /\ Len(s) \in Nat
      /\ s = << >> <=> Len(s) = 0
      /\ \A i \in 1 .. Len(s) : s[i] \in Tid
  BY FifoProperties
<1>2. CASE s = << >>
  <2>1. 1 .. Len(s) = {}
    BY <1>1, <1>2
  <2> QED BY <1>2, <2>1 DEF Elems, IsList
<1>3. CASE s # << >>
  <2>1. 1 \in 1 .. Len(s)
    BY <1>1, <1>3
  <2>2. q.arr[p] = s[1] /\ s[1] \in Tid
    BY <1>1, <1>3, <2>1 DEF IsList
  <2>3. s[1] \in Elems(s)
    BY <2>1 DEF Elems
  <2> QED BY <1>3, <2>2, <2>3, NullAssumption
<1> QED BY <1>2, <1>3

\* A task that is not a member leaves room for one, so pq_add takes it.
LEMMA RoomForNonMember ==
  ASSUME NEW q, NEW f \in [Prio -> Fifo], Represents(q, f),
         NEW t \in Tid, t \notin Members(f)
  PROVE  q.size \in Nat /\ q.size < MAX_TASKS /\ ~ pq_full(q)
<1>1. /\ IsFiniteSet(Tid) /\ Cardinality(Tid) = MAX_TASKS
      /\ IsFiniteSet(Members(f)) /\ Cardinality(Members(f)) \in 0 .. MAX_TASKS
  BY MembersFinite
<1>2. Members(f) \in SUBSET Tid /\ Members(f) # Tid
  BY DEF Members
<1>3. Cardinality(Members(f)) # MAX_TASKS
  BY <1>1, <1>2, FS_Subset
<1>4. q.size = Cardinality(Members(f))
  BY DEF Represents
<1> QED BY <1>1, <1>3, <1>4, MaxTasksAssumption DEF pq_full

\* pq_add puts t at the end of the FIFO of its priority.
LEMMA AddRepresents ==
  ASSUME NEW q \in PRIO_Q, NEW f \in [Prio -> Fifo], Represents(q, f),
         NEW t \in Tid, t \notin Members(f)
  PROVE  /\ pq_add(q, t) \in PRIO_Q
         /\ pq_add(q, t).prio = q.prio
         /\ Joined(f, q.prio[t], t) \in [Prio -> Fifo]
         /\ Represents(pq_add(q, t), Joined(f, q.prio[t], t))
         /\ Members(Joined(f, q.prio[t], t)) = Members(f) \cup {t}
<1> DEFINE p    == q.prio[t]
           head == q.arr[p]
           tail == LastFrom(q, head)
           a    == pq_add(q, t)
           s    == f[p]
           r    == Append(s, t)
           g    == Joined(f, p, t)
<1>1. p \in Prio /\ q.arr \in [Prio -> Link] /\ q.next \in [Tid -> Link]
      /\ q.prev \in [Tid -> Link] /\ q.prio \in [Tid -> Prio]
  BY DEF PRIO_Q
<1>2. s \in Fifo /\ IsList(q, p, s)
  BY <1>1 DEF Represents
<1>3. t \notin Elems(s)
  BY <1>1, PriorityOfMember
<1>4. /\ r \in Fifo /\ r # << >> /\ Len(r) = Len(s) + 1
      /\ \A i \in 1 .. Len(s) : r[i] = s[i]
      /\ r[Len(s) + 1] = t
      /\ Elems(r) = Elems(s) \cup {t}
  BY <1>2, <1>3, AppendFifo
<1>5. /\ Len(s) \in Nat
      /\ \A i \in 1 .. Len(s) : s[i] \in Tid /\ s[i] # t
      /\ \A i, j \in 1 .. Len(s) : s[i] = s[j] => i = j
      /\ s = << >> <=> Len(s) = 0
  BY <1>2, <1>3, FifoProperties DEF Elems
<1>6. (s = << >> <=> head = NULL) /\ (head # NULL => tail = s[Len(s)] /\ tail \in Tid)
  BY <1>2, <1>5, EmptyList, LastOfList
<1>7. q.size \in Nat /\ q.size < MAX_TASKS /\ ~ pq_full(q)
  BY RoomForNonMember
<1>8. /\ a \in PRIO_Q
      /\ a.size = q.size + 1
      /\ a.next_dq = NextDqOnAdd(q, t)
      /\ a.prio = q.prio
      /\ a.arr = IF head = NULL THEN [q.arr EXCEPT ![p] = t] ELSE q.arr
      /\ a.next = IF head = NULL THEN [q.next EXCEPT ![t] = NULL]
                  ELSE [q.next EXCEPT ![tail] = t, ![t] = NULL]
      /\ a.prev = IF head = NULL THEN [q.prev EXCEPT ![t] = NULL]
                  ELSE [q.prev EXCEPT ![t] = tail]
  BY <1>6, <1>7, AddFields
<1>9. g \in [Prio -> Fifo] /\ g[p] = r /\ \A o \in Prio \ {p} : g[o] = f[o]
  BY <1>1, <1>4 DEF Joined
<1> HIDE DEF a, r, s, tail, head, p, g
<1>10. IsList(a, p, r)
  <2>1. CASE s = << >>
    <3>1. Len(s) = 0 /\ Len(r) = 1 /\ r[1] = t /\ head = NULL
      BY <1>4, <1>5, <1>6, <2>1
    <3>2. a.arr[p] = t /\ a.prio[t] = p /\ a.next[t] = NULL /\ a.prev[t] = NULL
      BY <1>1, <1>8, <3>1 DEF p
    <3> QED BY <1>4, <3>1, <3>2 DEF IsList
  <2>2. CASE s # << >>
    <3>1. head # NULL /\ tail = s[Len(s)] /\ tail \in Tid /\ tail # t
          /\ Len(s) \in 1 .. Len(s)
      BY <1>5, <1>6, <2>2
    <3>2. a.arr[p] = r[1]
      BY <1>2, <1>4, <1>8, <2>2, <3>1 DEF IsList
    <3>3. ASSUME NEW i \in 1 .. Len(r)
          PROVE  /\ a.prio[r[i]] = p
                 /\ a.next[r[i]] = IF i = Len(r) THEN NULL ELSE r[i + 1]
                 /\ a.prev[r[i]] = IF i = 1 THEN NULL ELSE r[i - 1]
      <4>1. CASE i = Len(r)
        <5>1. r[i] = t /\ i = Len(s) + 1 /\ i # 1 /\ i - 1 = Len(s)
          BY <1>4, <1>5, <3>1, <4>1
        <5>2. r[i - 1] = tail
          BY <1>4, <3>1, <5>1
        <5> QED BY <1>1, <1>8, <3>1, <4>1, <5>1, <5>2 DEF p
      <4>2. CASE i # Len(r)
        <5>1. i \in 1 .. Len(s)
          BY <1>4, <1>5, <4>2
        <5>2. r[i] = s[i] /\ s[i] # t /\ s[i] \in Tid /\ (s[i] = tail <=> i = Len(s))
          BY <1>4, <1>5, <3>1, <5>1
        <5>3. /\ q.prio[s[i]] = p
              /\ q.next[s[i]] = IF i = Len(s) THEN NULL ELSE s[i + 1]
              /\ q.prev[s[i]] = IF i = 1 THEN NULL ELSE s[i - 1]
          BY <1>2, <5>1 DEF IsList
        <5>4. i # 1 => r[i - 1] = s[i - 1]
          <6>1. i # 1 => i - 1 \in 1 .. Len(s)
            BY <1>5, <5>1
          <6> QED BY <1>4, <6>1
        <5>5. a.prev[r[i]] = IF i = 1 THEN NULL ELSE r[i - 1]
          BY <1>1, <1>8, <3>1, <5>2, <5>3, <5>4
        <5>6. a.next[r[i]] = r[i + 1]
          <6>1. CASE i = Len(s)
            BY <1>1, <1>4, <1>8, <3>1, <5>2, <6>1
          <6>2. CASE i # Len(s)
            <7>1. r[i + 1] = s[i + 1]
              BY <1>4, <1>5, <5>1, <6>2
            <7> QED BY <1>1, <1>8, <3>1, <5>2, <5>3, <6>2, <7>1
          <6> QED BY <6>1, <6>2
        <5> QED BY <1>8, <4>2, <5>2, <5>3, <5>5, <5>6
      <4> QED BY <4>1, <4>2
    <3> QED BY <1>4, <3>2, <3>3 DEF IsList
  <2> QED BY <2>1, <2>2
<1>11. ASSUME NEW o \in Prio, o # p PROVE IsList(a, o, g[o])
  <2>1. f[o] \in Fifo /\ IsList(q, o, f[o])
    BY DEF Represents
  <2>2. \A u \in Elems(f[o]) : u \in Tid /\ u # t /\ q.prio[u] = o
    BY <1>11, PriorityOfMember DEF p
  <2>3. s # << >> => tail \notin Elems(f[o])
    <3>1. s # << >> => tail \in Elems(s)
      BY <1>5, <1>6 DEF Elems
    <3>2. \A u \in Elems(s) : q.prio[u] = p
      BY <1>1, PriorityOfMember DEF s
    <3> QED BY <1>11, <2>2, <3>1, <3>2
  <2>4. a.arr[o] = q.arr[o]
    BY <1>1, <1>8, <1>11
  <2>5. \A u \in Elems(f[o]) : /\ a.prio[u] = q.prio[u]
                               /\ a.next[u] = q.next[u]
                               /\ a.prev[u] = q.prev[u]
    BY <1>1, <1>6, <1>8, <2>2, <2>3
  <2>6. IsList(a, o, f[o])
    BY <2>1, <2>4, <2>5, ListFrame
  <2> QED BY <1>9, <1>11, <2>6
<1>12. Members(g) = Members(f) \cup {t}
  <2>1. ASSUME NEW u \in Tid
        PROVE  (\E o \in Prio : u \in Elems(g[o]))
               <=> (\E o \in Prio : u \in Elems(f[o])) \/ u = t
    BY <1>1, <1>4, <1>9 DEF s
  <2> QED BY <2>1 DEF Members
<1>13. a.size = Cardinality(Members(g))
  BY <1>8, <1>12, MembersFinite, FS_AddElement DEF Represents
<1>14. /\ g[a.next_dq] # << >>
       /\ \A o \in Prio : g[o] # << >> => a.next_dq <= o
  <2>1. q.next_dq \in Prio
    BY DEF PRIO_Q
  <2>2. CASE q.size = 0
    <3>1. \A o \in Prio : f[o] = << >>
      <4>1. Members(f) = {}
        BY <2>2, MembersFinite, FS_EmptySet DEF Represents
      <4>2. \A o \in Prio : Elems(f[o]) = {}
        BY <4>1, PriorityOfMember
      <4>3. \A o \in Prio : f[o] \in Fifo /\ IsList(q, o, f[o])
        BY DEF Represents
      <4> QED BY <4>2, <4>3, EmptyList
    <3>2. a.next_dq = p
      BY <1>8, <2>2 DEF NextDqOnAdd, p
    <3> QED BY <1>1, <1>4, <1>9, <3>1, <3>2 DEF Prio
  <2>3. CASE q.size # 0
    <3>1. f[q.next_dq] # << >> /\ \A o \in Prio : f[o] # << >> => q.next_dq <= o
      BY <2>3, FS_EmptySet DEF Represents
    <3>2. g[q.next_dq] # << >>
      BY <1>4, <1>9, <2>1, <3>1
    <3>3. CASE head = NULL /\ p < q.next_dq
      <4>1. a.next_dq = p
        BY <1>8, <3>3 DEF NextDqOnAdd, p, head
      <4> QED BY <1>1, <1>4, <1>9, <2>1, <3>1, <3>3, <4>1 DEF Prio
    <3>4. CASE ~ (head = NULL /\ p < q.next_dq)
      <4>1. a.next_dq = q.next_dq
        BY <1>8, <2>3, <3>4 DEF NextDqOnAdd, p, head
      <4>2. q.next_dq <= p
        BY <1>1, <1>6, <2>1, <3>1, <3>4 DEF s, Prio
      <4> QED BY <1>9, <3>1, <3>2, <4>1, <4>2
    <3> QED BY <3>3, <3>4
  <2> QED BY <2>2, <2>3
<1>15. Represents(a, g)
  BY <1>9, <1>10, <1>11, <1>13, <1>14 DEF Represents
<1> QED BY <1>8, <1>9, <1>12, <1>15 DEF a, g, p

-----------------------------------------------------------------------------
(* pq_remove and pq_dequeue.                                               *)

\* A sequence of tasks without one of them.
LEMMA CutFifo ==
  ASSUME NEW s \in Fifo, NEW k \in 1 .. Len(s)
  PROVE  /\ Cut(s, k) \in Fifo
         /\ Len(Cut(s, k)) = Len(s) - 1
         /\ \A i \in 1 .. Len(s) - 1 :
              Cut(s, k)[i] = IF i < k THEN s[i] ELSE s[i + 1]
         /\ Elems(Cut(s, k)) = Elems(s) \ {s[k]}
<1> DEFINE n == Len(s) - 1
           c == Cut(s, k)
<1>1. /\ n \in Nat /\ Len(s) = n + 1
      /\ \A i \in 1 .. Len(s) : s[i] \in Tid
      /\ \A i, j \in 1 .. Len(s) : s[i] = s[j] => i = j
  BY FifoProperties
<1>2. c \in [1 .. n -> Tid] /\ \A i \in 1 .. n : c[i] = IF i < k THEN s[i] ELSE s[i + 1]
  <2>1. \A i \in 1 .. n : i \in 1 .. Len(s) /\ i + 1 \in 1 .. Len(s)
    BY <1>1
  <2> QED BY <1>1, <2>1 DEF Cut
<1> HIDE DEF c
<1>3. c \in Seq(Tid)
  BY <1>1, <1>2, SeqDef
<1>4. Len(c) = n
  <2>1. Len(c) \in Nat /\ DOMAIN c = 1 .. Len(c) /\ DOMAIN c = 1 .. n
    BY <1>2, <1>3, LenProperties
  <2>2. Len(c) \in 1 .. Len(c) \/ Len(c) = 0
    BY <2>1
  <2>3. n \in 1 .. n \/ n = 0
    BY <1>1
  <2>4. Len(c) <= n
    BY <1>1, <2>1, <2>2
  <2>5. n <= Len(c)
    BY <1>1, <2>1, <2>3
  <2>6. Len(c) \in Int /\ n \in Int
    BY <1>1, <2>1
  <2> HIDE DEF n
  <2> QED BY <2>4, <2>5, <2>6
<1>5. \A i, j \in 1 .. n : c[i] = c[j] => i = j
  <2> SUFFICES ASSUME NEW i \in 1 .. n, NEW j \in 1 .. n, c[i] = c[j] PROVE i = j
    OBVIOUS
  <2>1. i \in 1 .. Len(s) /\ i + 1 \in 1 .. Len(s) /\ j \in 1 .. Len(s) /\ j + 1 \in 1 .. Len(s)
    BY <1>1
  <2> QED BY <1>1, <1>2, <2>1
<1>6. Elems(c) = Elems(s) \ {s[k]}
  <2>1. ASSUME NEW i \in 1 .. n PROVE c[i] \in Elems(s) \ {s[k]}
    <3>1. i \in 1 .. Len(s) /\ i + 1 \in 1 .. Len(s)
      BY <1>1
    <3> QED BY <1>1, <1>2, <3>1 DEF Elems
  <2>2. ASSUME NEW i \in 1 .. Len(s), i # k PROVE s[i] \in Elems(c)
    <3>1. CASE i < k
      <4>1. i \in 1 .. n /\ c[i] = s[i]
        BY <1>1, <1>2, <3>1
      <4> QED BY <1>4, <4>1 DEF Elems
    <3>2. CASE i > k
      <4>1. i - 1 \in 1 .. n /\ c[i - 1] = s[(i - 1) + 1] /\ (i - 1) + 1 = i
        BY <1>1, <1>2, <3>2
      <4> QED BY <1>4, <4>1 DEF Elems
    <3> QED BY <2>2, <3>1, <3>2
  <2>3. Elems(c) \subseteq Elems(s) \ {s[k]}
    BY <1>4, <2>1 DEF Elems
  <2>4. Elems(s) \ {s[k]} \subseteq Elems(c)
    BY <2>2 DEF Elems
  <2> QED BY <2>3, <2>4
<1> QED BY <1>1, <1>2, <1>3, <1>4, <1>5, <1>6, FifoIff DEF c

\* The search of pq_remove and pq_dequeue: the first FIFO that is not empty.
LEMMA FirstNonEmptyProperties ==
  ASSUME NEW q, q.next_dq \in Prio, NEW from \in Nat
  PROVE  LET m == FirstNonEmpty(q, from)
         IN /\ m \in Prio
            /\ \A i \in Prio : i >= from /\ q.arr[i] # NULL =>
                 m <= i /\ m >= from /\ q.arr[m] # NULL
<1> DEFINE C == NonEmpty(q, from)
<1>1. C \in SUBSET Nat /\ C \in SUBSET Prio
  BY PrioNullAssumption DEF Prio, NonEmpty
<1>2. CASE C = {}
  <2>1. FirstNonEmpty(q, from) = q.next_dq
    BY <1>2 DEF FirstNonEmpty
  <2>2. \A i \in Prio : i >= from => i \in from .. PRIO_NULL
    BY PrioNullAssumption DEF Prio
  <2> QED BY <1>2, <2>1, <2>2 DEF NonEmpty
<1>3. CASE C # {}
  <2>1. \E m \in C : \A k \in C : m <= k
    BY <1>1, <1>3, LeastElement
  <2>2. /\ FirstNonEmpty(q, from) \in C
        /\ \A k \in C : FirstNonEmpty(q, from) <= k
    BY <1>3, <2>1 DEF FirstNonEmpty, Min
  <2>3. \A i \in Prio : i >= from => i \in from .. PRIO_NULL
    BY PrioNullAssumption DEF Prio
  <2> QED BY <1>1, <2>2, <2>3, PrioNullAssumption DEF Prio, NonEmpty
<1> QED BY <1>2, <1>3

\* The size of a queue that is not empty does not wrap around.
LEMMA DecProperties ==
  ASSUME NEW n \in Nat, n > 0, n <= MAX_TASKS
  PROVE  Dec16(n) = n - 1 /\ n - 1 \in 0 .. USHRT_MAX
BY MaxTasksAssumption, ShortSize DEF Dec16

\* Changing two fields of a queue, spelled out.
LEMMA NextAndPrev ==
  ASSUME NEW q \in PRIO_Q, NEW x, NEW y
  PROVE  [q EXCEPT !.next = x, !.prev = y] =
         [size |-> q.size, next_dq |-> q.next_dq, arr |-> q.arr, next |-> x,
          prev |-> y, prio |-> q.prio]
<1> DEFINE r == [q EXCEPT !.next = x]
<1>1. r = [size |-> q.size, next_dq |-> q.next_dq, arr |-> q.arr, next |-> x,
           prev |-> q.prev, prio |-> q.prio]
  BY DEF PRIO_Q
<1>2. [q EXCEPT !.next = x, !.prev = y] = [r EXCEPT !.prev = y]
  OBVIOUS
<1> HIDE DEF r
<1> QED BY <1>1, <1>2

\* The same with the heads of the FIFOs.
LEMMA HeadAndPrev ==
  ASSUME NEW q \in PRIO_Q, NEW x, NEW y
  PROVE  [q EXCEPT !.arr = x, !.prev = y] =
         [size |-> q.size, next_dq |-> q.next_dq, arr |-> x, next |-> q.next,
          prev |-> y, prio |-> q.prio]
<1> DEFINE r == [q EXCEPT !.arr = x]
<1>1. r = [size |-> q.size, next_dq |-> q.next_dq, arr |-> x, next |-> q.next,
           prev |-> q.prev, prio |-> q.prio]
  BY DEF PRIO_Q
<1>2. [q EXCEPT !.arr = x, !.prev = y] = [r EXCEPT !.prev = y]
  OBVIOUS
<1> HIDE DEF r
<1> QED BY <1>1, <1>2

\* The fields of a queue from which t is removed: its neighbours are linked to
\* each other, and the head of the FIFO counts as a neighbour.
LEMMA RemoveFields ==
  ASSUME NEW q \in PRIO_Q, NEW t \in Tid,
         q.prev[t] = NULL => q.arr[q.prio[t]] = t,
         q.size > 0, q.size <= MAX_TASKS
  PROVE  LET p  == q.prio[t]
             pv == q.prev[t]
             nx == q.next[t]
             a  == pq_remove(q, t)
         IN /\ a \in PRIO_Q
            /\ a.size = q.size - 1
            /\ a.next_dq = IF pv = NULL /\ nx = NULL
                           THEN FirstNonEmpty([q EXCEPT !.arr[p] = NULL], q.next_dq)
                           ELSE q.next_dq
            /\ a.prio = q.prio
            /\ a.arr  = IF pv = NULL THEN [q.arr EXCEPT ![p] = nx] ELSE q.arr
            /\ a.next = IF pv = NULL THEN q.next ELSE [q.next EXCEPT ![pv] = nx]
            /\ a.prev = IF nx = NULL THEN q.prev ELSE [q.prev EXCEPT ![nx] = pv]
<1> DEFINE p  == q.prio[t]
           pv == q.prev[t]
           nx == q.next[t]
           qa == [q EXCEPT !.arr[p] = NULL]
           D  == IF pv = NULL /\ nx = NULL THEN FirstNonEmpty(qa, q.next_dq)
                 ELSE q.next_dq
           A  == IF pv = NULL THEN [q.arr EXCEPT ![p] = nx] ELSE q.arr
           N  == IF pv = NULL THEN q.next ELSE [q.next EXCEPT ![pv] = nx]
           V  == IF nx = NULL THEN q.prev ELSE [q.prev EXCEPT ![nx] = pv]
           a  == pq_remove(q, t)
<1>1. /\ p \in Prio /\ pv \in Link /\ nx \in Link /\ q.next_dq \in Prio /\ q.size \in Nat
      /\ q.arr \in [Prio -> Link] /\ q.next \in [Tid -> Link]
      /\ q.prev \in [Tid -> Link] /\ q.prio \in [Tid -> Prio]
  BY DEF PRIO_Q
<1>2. Dec16(q.size) = q.size - 1 /\ q.size - 1 \in 0 .. USHRT_MAX
  BY <1>1, DecProperties
<1>3. FirstNonEmpty(qa, q.next_dq) \in Prio
  <2>1. qa.next_dq = q.next_dq
    BY DEF PRIO_Q
  <2>2. q.next_dq \in Nat
    BY <1>1 DEF Prio
  <2> QED BY <1>1, <2>1, <2>2, FirstNonEmptyProperties
<1>4. A \in [Prio -> Link] /\ N \in [Tid -> Link] /\ V \in [Tid -> Link] /\ D \in Prio
  BY <1>1, <1>3 DEF Link
<1>5. a = [size |-> q.size - 1, next_dq |-> D, arr |-> A, next |-> N, prev |-> V,
           prio |-> q.prio]
  <2>1. q = [size |-> q.size, next_dq |-> q.next_dq, arr |-> q.arr, next |-> q.next,
             prev |-> q.prev, prio |-> q.prio]
    BY DEF PRIO_Q
  <2> DEFINE R(d, x, y, z) == [size |-> q.size, next_dq |-> d, arr |-> x, next |-> y,
                               prev |-> z, prio |-> q.prio]
  <2>2. CASE pv = NULL /\ nx = NULL
    <3> DEFINE d == FirstNonEmpty(qa, q.next_dq)
    <3>1. qa = R(q.next_dq, [q.arr EXCEPT ![p] = NULL], q.next, q.prev)
      BY <2>1
    <3>2. [qa EXCEPT !.next_dq = d] = R(d, [q.arr EXCEPT ![p] = NULL], q.next, q.prev)
      <4> HIDE DEF qa, d
      <4> QED BY <3>1
    <3>3. a = [[qa EXCEPT !.next_dq = d] EXCEPT !.size = q.size - 1]
      BY <1>2, <2>2, <3>2 DEF pq_remove
    <3> HIDE DEF d, qa, a
    <3>4. a = [R(d, [q.arr EXCEPT ![p] = NULL], q.next, q.prev) EXCEPT !.size = q.size - 1]
      BY <3>2, <3>3
    <3> QED BY <2>2, <3>4 DEF d
  <2>3. CASE pv = NULL /\ nx # NULL
    <3> DEFINE qb == [q EXCEPT !.arr[p] = q.next[q.arr[p]], !.prev[q.next[t]] = NULL]
    <3>1. qb = R(q.next_dq, [q.arr EXCEPT ![p] = nx], q.next, [q.prev EXCEPT ![nx] = NULL])
      <4>1. qb = [q EXCEPT !.arr = [q.arr EXCEPT ![p] = q.next[q.arr[p]]],
                           !.prev = [q.prev EXCEPT ![nx] = NULL]]
        BY DEF PRIO_Q
      <4>2. q.next[q.arr[p]] = nx
        BY <2>3
      <4> HIDE DEF qb, pv, nx, p
      <4> QED BY <4>1, <4>2, HeadAndPrev
    <3>2. a = [qb EXCEPT !.size = q.size - 1]
      BY <1>2, <2>3, <3>1 DEF pq_remove
    <3> HIDE DEF qb, a
    <3> QED BY <2>3, <3>1, <3>2
  <2>4. CASE pv # NULL /\ nx = NULL
    <3> DEFINE qb == [q EXCEPT !.next[q.prev[t]] = NULL]
    <3>1. qb = R(q.next_dq, q.arr, [q.next EXCEPT ![pv] = NULL], q.prev)
      BY <2>1, <2>4
    <3>2. a = [qb EXCEPT !.size = q.size - 1]
      BY <1>2, <2>4, <3>1 DEF pq_remove
    <3> HIDE DEF qb, a
    <3> QED BY <2>4, <3>1, <3>2
  <2>5. CASE pv # NULL /\ nx # NULL
    <3> DEFINE qb == UnlinkMiddle(q, t)
    <3>1. qb = R(q.next_dq, q.arr, [q.next EXCEPT ![pv] = nx], [q.prev EXCEPT ![nx] = pv])
      <4>1. qb = [q EXCEPT !.next = [q.next EXCEPT ![pv] = nx],
                           !.prev = [q.prev EXCEPT ![nx] = pv]]
        BY DEF UnlinkMiddle, PRIO_Q
      <4> HIDE DEF qb
      <4> QED BY <4>1, NextAndPrev
    <3>2. a = [qb EXCEPT !.size = q.size - 1]
      BY <1>2, <2>5, <3>1 DEF pq_remove
    <3> HIDE DEF qb, a
    <3> QED BY <2>5, <3>1, <3>2
  <2> QED BY <2>2, <2>3, <2>4, <2>5
<1> HIDE DEF D, A, N, V, a
<1>6. a \in PRIO_Q
  BY <1>1, <1>2, <1>4, <1>5 DEF PRIO_Q
<1>7. a.size = q.size - 1 /\ a.next_dq = D /\ a.prio = q.prio /\ a.arr = A /\ a.next = N
      /\ a.prev = V
  BY <1>5
<1> QED BY <1>6, <1>7 DEF D, A, N, V, a

\* pq_remove takes t, the k-th of its FIFO, out of it.
LEMMA RemoveRepresents ==
  ASSUME NEW q \in PRIO_Q, NEW f \in [Prio -> Fifo], Represents(q, f),
         NEW t \in Tid, NEW k \in 1 .. Len(f[q.prio[t]]), t = f[q.prio[t]][k]
  PROVE  /\ pq_remove(q, t) \in PRIO_Q
         /\ pq_remove(q, t).prio = q.prio
         /\ Left(f, q.prio[t], k) \in [Prio -> Fifo]
         /\ Represents(pq_remove(q, t), Left(f, q.prio[t], k))
         /\ Members(Left(f, q.prio[t], k)) = Members(f) \ {t}
<1> DEFINE p == q.prio[t]
           s == f[p]
           n == Len(s)
           r == Cut(s, k)
           a == pq_remove(q, t)
           g == Left(f, p, k)
<1>1. p \in Prio /\ q.arr \in [Prio -> Link] /\ q.next \in [Tid -> Link]
      /\ q.prev \in [Tid -> Link] /\ q.prio \in [Tid -> Prio] /\ q.next_dq \in Prio
  BY DEF PRIO_Q
<1>2. s \in Fifo /\ IsList(q, p, s)
  BY <1>1 DEF Represents
<1>3. /\ n \in Nat /\ n > 0
      /\ \A i \in 1 .. n : s[i] \in Tid
      /\ \A i, j \in 1 .. n : s[i] = s[j] => i = j
      /\ s # << >>
  BY <1>2, FifoProperties
<1>4. /\ r \in Fifo /\ Len(r) = n - 1
      /\ \A i \in 1 .. n - 1 : r[i] = IF i < k THEN s[i] ELSE s[i + 1]
      /\ Elems(r) = Elems(s) \ {t}
  BY <1>2, CutFifo
<1>5. /\ q.next[t] = IF k = n THEN NULL ELSE s[k + 1]
      /\ q.prev[t] = IF k = 1 THEN NULL ELSE s[k - 1]
      /\ q.arr[p] = s[1]
  BY <1>2, <1>3 DEF IsList
<1>6. /\ (k = n) <=> (q.next[t] = NULL)
      /\ (k = 1) <=> (q.prev[t] = NULL)
  <2>1. (k # n => k + 1 \in 1 .. n) /\ (k # 1 => k - 1 \in 1 .. n)
    BY <1>3
  <2>2. (k # n => s[k + 1] \in Tid) /\ (k # 1 => s[k - 1] \in Tid)
    BY <1>3, <2>1
  <2> QED BY <1>5, <2>2, NullAssumption
<1>7. t \in Elems(s) /\ t \in Members(f)
  <2>1. t \in Elems(s)
    BY DEF Elems
  <2> QED BY <1>1, <2>1 DEF Members
<1>8. /\ q.size \in Nat /\ q.size > 0 /\ q.size <= MAX_TASKS
      /\ q.size = Cardinality(Members(f))
  BY <1>7, MembersFinite, FS_EmptySet, MaxTasksAssumption DEF Represents
<1>9. /\ a \in PRIO_Q
      /\ a.size = q.size - 1
      /\ a.next_dq = IF q.prev[t] = NULL /\ q.next[t] = NULL
                     THEN FirstNonEmpty([q EXCEPT !.arr[p] = NULL], q.next_dq)
                     ELSE q.next_dq
      /\ a.prio = q.prio
      /\ a.arr  = IF q.prev[t] = NULL THEN [q.arr EXCEPT ![p] = q.next[t]] ELSE q.arr
      /\ a.next = IF q.prev[t] = NULL THEN q.next ELSE [q.next EXCEPT ![q.prev[t]] = q.next[t]]
      /\ a.prev = IF q.next[t] = NULL THEN q.prev ELSE [q.prev EXCEPT ![q.next[t]] = q.prev[t]]
  <2>1. q.prev[t] = NULL => q.arr[p] = t
    BY <1>5, <1>6
  <2> QED BY <1>8, <2>1, RemoveFields
<1>10. g \in [Prio -> Fifo] /\ g[p] = r /\ \A o \in Prio \ {p} : g[o] = f[o]
  BY <1>1, <1>4 DEF Left
<1>11. t = s[k] /\ k \in 1 .. n
  OBVIOUS
<1> HIDE DEF a, g, r, n, s, p
<1>12. IsList(a, p, r)
  <2>1. a.arr[p] = IF r = << >> THEN NULL ELSE r[1]
    <3>1. r = << >> <=> n = 1
      BY <1>3, <1>4, FifoProperties
    <3>2. CASE k = 1
      <4>1. a.arr[p] = q.next[t]
        BY <1>1, <1>6, <1>9, <3>2
      <4>2. n # 1 => r[1] = s[2] /\ k # n
        BY <1>3, <1>4, <3>2
      <4> QED BY <1>5, <1>11, <3>1, <3>2, <4>1, <4>2
    <3>3. CASE k # 1
      <4>1. n # 1 /\ r[1] = s[1]
        BY <1>3, <1>4, <1>11, <3>3
      <4> QED BY <1>5, <1>6, <1>9, <3>1, <3>3, <4>1
    <3> QED BY <3>2, <3>3
  <2>2. ASSUME NEW i \in 1 .. n - 1
        PROVE  /\ a.prio[r[i]] = p
               /\ a.next[r[i]] = IF i = n - 1 THEN NULL ELSE r[i + 1]
               /\ a.prev[r[i]] = IF i = 1 THEN NULL ELSE r[i - 1]
    <3> DEFINE j == IF i < k THEN i ELSE i + 1
    <3>1. j \in 1 .. n /\ r[i] = s[j] /\ j # k /\ s[j] \in Tid
      BY <1>3, <1>4
    <3>2. /\ q.prio[s[j]] = p
          /\ q.next[s[j]] = IF j = n THEN NULL ELSE s[j + 1]
          /\ q.prev[s[j]] = IF j = 1 THEN NULL ELSE s[j - 1]
      BY <1>2, <3>1 DEF IsList, n
    <3>3. (k # 1 => k - 1 \in 1 .. n) /\ (k # n => k + 1 \in 1 .. n)
      BY <1>3, <1>11
    <3>4. a.next[s[j]] = IF j = k - 1 THEN q.next[t] ELSE q.next[s[j]]
      BY <1>1, <1>3, <1>5, <1>6, <1>9, <3>1, <3>3
    <3>5. a.prev[s[j]] = IF j = k + 1 THEN q.prev[t] ELSE q.prev[s[j]]
      BY <1>1, <1>3, <1>5, <1>6, <1>9, <3>1, <3>3
    <3>6. a.next[r[i]] = IF i = n - 1 THEN NULL ELSE r[i + 1]
      <4>1. CASE i < k - 1
        <5>1. j = i /\ i # n - 1 /\ i + 1 < k /\ i + 1 \in 1 .. n - 1 /\ j # n
          BY <1>3, <1>11, <4>1
        <5>2. r[i + 1] = s[i + 1]
          BY <1>4, <5>1
        <5> QED BY <3>1, <3>2, <3>4, <4>1, <5>1, <5>2
      <4>2. CASE i = k - 1
        <5>1. j = k - 1 /\ (i = n - 1 <=> k = n) /\ i + 1 = k
          BY <1>3, <1>11, <4>2
        <5>2. k # n => k \in 1 .. n - 1 /\ r[k] = s[k + 1]
          BY <1>3, <1>4, <1>11
        <5> QED BY <1>5, <3>1, <3>4, <5>1, <5>2
      <4>3. CASE i > k - 1
        <5>1. j = i + 1 /\ j # k - 1 /\ (i = n - 1 <=> j = n)
          BY <1>3, <1>11, <4>3
        <5>2. i # n - 1 => i + 1 \in 1 .. n - 1 /\ r[i + 1] = s[(i + 1) + 1]
          BY <1>3, <1>4, <1>11, <4>3
        <5> QED BY <3>1, <3>2, <3>4, <5>1, <5>2
      <4> QED BY <1>11, <4>1, <4>2, <4>3
    <3>7. a.prev[r[i]] = IF i = 1 THEN NULL ELSE r[i - 1]
      <4>1. CASE i < k
        <5>1. j = i /\ j # k + 1
          BY <1>11, <4>1
        <5>2. i # 1 => i - 1 \in 1 .. n - 1 /\ r[i - 1] = s[i - 1]
          BY <1>3, <1>4, <1>11, <4>1
        <5> QED BY <3>1, <3>2, <3>5, <5>1, <5>2
      <4>2. CASE i = k
        <5>1. j = k + 1
          BY <1>11, <4>2
        <5>2. i # 1 => i - 1 \in 1 .. n - 1 /\ r[i - 1] = s[k - 1]
          BY <1>3, <1>4, <1>11, <4>2
        <5> QED BY <1>5, <3>1, <3>5, <4>2, <5>1, <5>2
      <4>3. CASE i > k
        <5>1. j = i + 1 /\ j # k + 1 /\ i # 1 /\ j # 1 /\ j - 1 = i
          BY <1>3, <1>11, <4>3
        <5>2. i - 1 \in 1 .. n - 1 /\ r[i - 1] = s[(i - 1) + 1] /\ (i - 1) + 1 = i
          BY <1>3, <1>4, <1>11, <4>3
        <5> QED BY <3>1, <3>2, <3>5, <5>1, <5>2
      <4> QED BY <1>11, <4>1, <4>2, <4>3
    <3> QED BY <1>9, <3>1, <3>2, <3>6, <3>7
  <2> QED BY <1>4, <2>1, <2>2 DEF IsList
<1>13. ASSUME NEW o \in Prio, o # p PROVE IsList(a, o, g[o])
  <2>1. f[o] \in Fifo /\ IsList(q, o, f[o])
    BY DEF Represents
  <2>2. \A u \in Elems(f[o]) : u \in Tid /\ q.prio[u] = o
    BY PriorityOfMember
  <2>3. \A u \in Elems(s) : q.prio[u] = p
    BY <1>1, PriorityOfMember DEF s
  <2>4. /\ q.prev[t] # NULL => q.prev[t] \in Elems(s)
        /\ q.next[t] # NULL => q.next[t] \in Elems(s)
    <3>1. (k # 1 => k - 1 \in 1 .. n) /\ (k # n => k + 1 \in 1 .. n)
      BY <1>3, <1>11
    <3> QED BY <1>5, <3>1 DEF Elems, n
  <2>5. a.arr[o] = q.arr[o]
    BY <1>1, <1>9, <1>13
  <2>6. \A u \in Elems(f[o]) : /\ a.prio[u] = q.prio[u]
                               /\ a.next[u] = q.next[u]
                               /\ a.prev[u] = q.prev[u]
    BY <1>1, <1>9, <1>13, <2>2, <2>3, <2>4
  <2>7. IsList(a, o, f[o])
    BY <2>1, <2>5, <2>6, ListFrame
  <2> QED BY <1>10, <1>13, <2>7
<1>14. Members(g) = Members(f) \ {t}
  <2>1. \A o \in Prio : t \in Elems(f[o]) => o = p
    BY PriorityOfMember DEF p
  <2>2. ASSUME NEW u \in Tid
        PROVE  (\E o \in Prio : u \in Elems(g[o]))
               <=> (\E o \in Prio : u \in Elems(f[o])) /\ u # t
    BY <1>1, <1>4, <1>10, <2>1 DEF s
  <2> QED BY <2>2 DEF Members
<1>15. a.size = Cardinality(Members(g))
  BY <1>7, <1>8, <1>9, <1>14, MembersFinite, FS_RemoveElement
<1>16. /\ Members(g) # {} => g[a.next_dq] # << >>
       /\ \A o \in Prio : g[o] # << >> => a.next_dq <= o
  <2>1. f[q.next_dq] # << >> /\ \A o \in Prio : f[o] # << >> => q.next_dq <= o
    BY <1>7 DEF Represents
  <2>2. CASE n = 1
    <3> DEFINE qa == [q EXCEPT !.arr[p] = NULL]
    <3>1. r = << >>
      BY <1>4, <2>2, FifoProperties
    <3>2. a.next_dq = FirstNonEmpty(qa, q.next_dq)
      BY <1>3, <1>6, <1>9, <1>11, <2>2
    <3>3. qa.next_dq = q.next_dq /\ qa.arr = [q.arr EXCEPT ![p] = NULL]
      BY DEF PRIO_Q
    <3>4. q.next_dq \in Nat
      BY <1>1 DEF Prio
    <3> HIDE DEF qa
    <3>5. \A i \in Prio : i >= q.next_dq /\ qa.arr[i] # NULL =>
            a.next_dq \in Prio /\ a.next_dq <= i /\ qa.arr[a.next_dq] # NULL
      BY <1>1, <3>2, <3>3, <3>4, FirstNonEmptyProperties
    <3>6. \A o \in Prio : g[o] # << >> <=> qa.arr[o] # NULL
      <4>1. \A o \in Prio \ {p} : g[o] \in Fifo /\ IsList(q, o, g[o])
        BY <1>10 DEF Represents
      <4> QED BY <1>1, <1>10, <3>1, <3>3, <4>1, EmptyList
    <3>7. \A o \in Prio : g[o] # << >> => o >= q.next_dq
      BY <1>1, <1>10, <2>1, <3>1 DEF Prio
    <3>8. ASSUME Members(g) # {} PROVE g[a.next_dq] # << >>
      <4>1. PICK o \in Prio : Elems(g[o]) # {}
        BY <3>8 DEF Members
      <4>2. g[o] # << >>
        <5>1. o # p
          BY <1>10, <3>1, <4>1, EmptySeq DEF Elems
        <5>2. g[o] \in Fifo /\ IsList(q, o, g[o])
          BY <1>10, <5>1 DEF Represents
        <5> QED BY <4>1, <5>2, EmptyList
      <4> QED BY <3>5, <3>6, <3>7, <4>2
    <3> QED BY <3>5, <3>6, <3>7, <3>8
  <2>3. CASE n # 1
    <3>1. a.next_dq = q.next_dq
      BY <1>3, <1>6, <1>9, <1>11, <2>3
    <3>2. r # << >>
      BY <1>3, <1>4, <2>3, FifoProperties
    <3>3. \A o \in Prio : g[o] # << >> <=> f[o] # << >>
      BY <1>3, <1>10, <3>2 DEF s
    <3> QED BY <1>1, <2>1, <3>1, <3>3
  <2> QED BY <2>2, <2>3
<1>17. Represents(a, g)
  BY <1>10, <1>12, <1>13, <1>15, <1>16 DEF Represents
<1> QED BY <1>9, <1>10, <1>14, <1>17 DEF a, g, p

\* The head of the most urgent FIFO.
LEMMA PeekOfNonEmpty ==
  ASSUME NEW q \in PRIO_Q, NEW f \in [Prio -> Fifo], Represents(q, f), Members(f) # {}
  PROVE  /\ q.size # 0
         /\ f[q.next_dq] # << >> /\ 1 \in 1 .. Len(f[q.next_dq])
         /\ pq_peek(q) = f[q.next_dq][1]
         /\ pq_peek(q) = q.arr[q.next_dq]
         /\ pq_peek(q) \in Tid /\ pq_peek(q) \in Members(f)
         /\ q.prio[pq_peek(q)] = q.next_dq
         /\ \A t \in Members(f) : q.prio[pq_peek(q)] <= q.prio[t]
<1> DEFINE p == q.next_dq
<1>1. p \in Prio
  BY DEF PRIO_Q
<1>2. f[p] \in Fifo /\ IsList(q, p, f[p]) /\ f[p] # << >>
      /\ \A o \in Prio : f[o] # << >> => p <= o
  BY <1>1 DEF Represents
<1>3. 1 \in 1 .. Len(f[p])
  BY <1>2, FifoProperties
<1>4. q.arr[p] = f[p][1]
  BY <1>2 DEF IsList
<1>5. f[p][1] \in Elems(f[p])
  BY <1>3 DEF Elems
<1>6. q.size # 0
  BY MembersFinite, FS_EmptySet DEF Represents
<1>7. pq_peek(q) = f[p][1] /\ pq_peek(q) = q.arr[p]
  BY <1>4, <1>6 DEF pq_peek
<1>8. f[p][1] \in Tid /\ f[p][1] \in Members(f) /\ q.prio[f[p][1]] = p
  BY <1>1, <1>5, PriorityOfMember
<1>9. ASSUME NEW t \in Members(f) PROVE p <= q.prio[t]
  <2>1. q.prio[t] \in Prio /\ t \in Elems(f[q.prio[t]])
    BY <1>9, MemberOfList
  <2>2. f[q.prio[t]] \in Fifo /\ IsList(q, q.prio[t], f[q.prio[t]])
    BY <2>1 DEF Represents
  <2>3. f[q.prio[t]] # << >>
    BY <2>1, <2>2, EmptyList
  <2> QED BY <1>2, <2>1, <2>3
<1> QED BY <1>2, <1>3, <1>6, <1>7, <1>8, <1>9

\* pq_dequeue removes the head of the most urgent FIFO, as pq_remove would.
LEMMA DequeueIsRemove ==
  ASSUME NEW q \in PRIO_Q, NEW f \in [Prio -> Fifo], Represents(q, f), Members(f) # {}
  PROVE  pq_dequeue(q) = pq_remove(q, pq_peek(q))
<1> DEFINE t  == pq_peek(q)
           p  == q.next_dq
           nx == q.next[t]
           qa == [q EXCEPT !.arr[p] = NULL]
           q1 == [q EXCEPT !.arr[p] = nx, !.size = q.size - 1]
           d  == pq_dequeue(q)
           a  == pq_remove(q, t)
<1>1. /\ q.size # 0 /\ t = q.arr[p] /\ t \in Tid /\ t \in Members(f) /\ q.prio[t] = p
      /\ t = f[p][1] /\ f[p] # << >> /\ 1 \in 1 .. Len(f[p])
  BY PeekOfNonEmpty
<1>2. p \in Prio /\ q.size \in Nat /\ q.arr \in [Prio -> Link] /\ q.next \in [Tid -> Link]
      /\ q.prev \in [Tid -> Link]
  BY DEF PRIO_Q
<1>3. q.size > 0 /\ q.size <= MAX_TASKS
  BY <1>1, <1>2, MembersFinite, MaxTasksAssumption DEF Represents
<1>4. Dec16(q.size) = q.size - 1
  BY <1>2, <1>3, DecProperties
<1>5. q.prev[t] = NULL
  BY <1>1, <1>2 DEF Represents, IsList
<1> HIDE DEF t, p
<1>6. q1 = [size |-> q.size - 1, next_dq |-> p, arr |-> [q.arr EXCEPT ![p] = nx],
            next |-> q.next, prev |-> q.prev, prio |-> q.prio]
  <2> DEFINE r == [q EXCEPT !.arr = [q.arr EXCEPT ![p] = nx]]
  <2>1. r = [size |-> q.size, next_dq |-> p, arr |-> [q.arr EXCEPT ![p] = nx],
             next |-> q.next, prev |-> q.prev, prio |-> q.prio]
    BY DEF PRIO_Q, p
  <2>2. q1 = [r EXCEPT !.size = q.size - 1]
    BY DEF PRIO_Q
  <2> HIDE DEF r
  <2> QED BY <2>1, <2>2
<1>7. d = IF nx = NULL THEN [q1 EXCEPT !.next_dq = FirstNonEmpty(q1, p + 1)]
          ELSE [q1 EXCEPT !.prev[nx] = NULL]
  BY <1>1, <1>4 DEF pq_dequeue, p
<1>8. /\ a \in PRIO_Q
      /\ a.size = q.size - 1
      /\ a.next_dq = IF nx = NULL THEN FirstNonEmpty(qa, p) ELSE p
      /\ a.prio = q.prio
      /\ a.arr  = [q.arr EXCEPT ![p] = nx]
      /\ a.next = q.next
      /\ a.prev = IF nx = NULL THEN q.prev ELSE [q.prev EXCEPT ![nx] = NULL]
  <2>1. /\ a \in PRIO_Q
        /\ a.size = q.size - 1
        /\ a.next_dq = IF q.prev[t] = NULL /\ q.next[t] = NULL
                       THEN FirstNonEmpty([q EXCEPT !.arr[q.prio[t]] = NULL], q.next_dq)
                       ELSE q.next_dq
        /\ a.prio = q.prio
        /\ a.arr  = IF q.prev[t] = NULL THEN [q.arr EXCEPT ![q.prio[t]] = q.next[t]]
                    ELSE q.arr
        /\ a.next = IF q.prev[t] = NULL THEN q.next
                    ELSE [q.next EXCEPT ![q.prev[t]] = q.next[t]]
        /\ a.prev = IF q.next[t] = NULL THEN q.prev
                    ELSE [q.prev EXCEPT ![q.next[t]] = q.prev[t]]
    <3>1. q.arr[q.prio[t]] = t
      BY <1>1
    <3> QED BY <1>1, <1>3, <3>1, RemoveFields
  <2> HIDE DEF a
  <2>2. q.next_dq = p
    BY DEF p
  <2> QED BY <1>1, <1>5, <2>1, <2>2
<1>9. a = [size |-> a.size, next_dq |-> a.next_dq, arr |-> a.arr, next |-> a.next,
           prev |-> a.prev, prio |-> a.prio]
  BY <1>8 DEF PRIO_Q
<1>10. ASSUME nx = NULL PROVE d = a
  <2>1. q1.arr = qa.arr /\ q1.next_dq = qa.next_dq /\ qa.arr[p] = NULL
    BY <1>2, <1>6, <1>10 DEF PRIO_Q, p
  <2> HIDE DEF q1, qa
  <2>2. NonEmpty(qa, p) = NonEmpty(q1, p + 1)
    <3>1. \A i : i \in p .. PRIO_NULL <=> i = p \/ i \in p + 1 .. PRIO_NULL
      BY <1>2, PrioNullAssumption DEF Prio
    <3> QED BY <2>1, <3>1 DEF NonEmpty
  <2>3. FirstNonEmpty(q1, p + 1) = FirstNonEmpty(qa, p)
    BY <2>1, <2>2 DEF FirstNonEmpty
  <2> DEFINE m == FirstNonEmpty(qa, p)
  <2>4. d = [q1 EXCEPT !.next_dq = m]
    BY <1>7, <1>10, <2>3
  <2>5. a.next_dq = m /\ a.prev = q.prev
    BY <1>8, <1>10
  <2> HIDE DEF d, a, m
  <2> QED BY <1>6, <1>8, <1>9, <2>4, <2>5
<1>11. ASSUME nx # NULL PROVE d = a
  <2> HIDE DEF q1, qa, d, a, nx
  <2>1. d = [size |-> q.size - 1, next_dq |-> p, arr |-> [q.arr EXCEPT ![p] = nx],
             next |-> q.next, prev |-> [q.prev EXCEPT ![nx] = NULL], prio |-> q.prio]
    BY <1>6, <1>7, <1>11
  <2> QED BY <1>8, <1>9, <1>11, <2>1
<1> QED BY <1>10, <1>11 DEF t

\* So the head of the most urgent FIFO leaves it.
LEMMA DequeueRepresents ==
  ASSUME NEW q \in PRIO_Q, NEW f \in [Prio -> Fifo], Represents(q, f), Members(f) # {}
  PROVE  /\ pq_dequeue(q) \in PRIO_Q
         /\ pq_dequeue(q).prio = q.prio
         /\ Left(f, q.next_dq, 1) \in [Prio -> Fifo]
         /\ Represents(pq_dequeue(q), Left(f, q.next_dq, 1))
         /\ Members(Left(f, q.next_dq, 1)) = Members(f) \ {pq_peek(q)}
<1> DEFINE t == pq_peek(q)
<1>1. /\ q.prio[t] = q.next_dq /\ t \in Tid
      /\ t = f[q.prio[t]][1] /\ 1 \in 1 .. Len(f[q.prio[t]])
  BY PeekOfNonEmpty
<1>2. pq_dequeue(q) = pq_remove(q, t)
  BY DequeueIsRemove
<1> HIDE DEF t
<1> QED BY <1>1, <1>2, RemoveRepresents DEF t

-----------------------------------------------------------------------------
(* pq_move.                                                                *)

\* The priority and the links of a TCB outside the queue change.
LEMMA RelinkRepresents ==
  ASSUME NEW q \in PRIO_Q, NEW f \in [Prio -> Fifo], Represents(q, f),
         NEW t \in Tid, t \notin Members(f), NEW p \in Prio
  PROVE  LET r == [q EXCEPT !.prio[t] = p, !.prev[t] = NULL, !.next[t] = NULL]
         IN r \in PRIO_Q /\ r.prio = [q.prio EXCEPT ![t] = p] /\ Represents(r, f)
<1> DEFINE r == [q EXCEPT !.prio[t] = p, !.prev[t] = NULL, !.next[t] = NULL]
           P == [q.prio EXCEPT ![t] = p]
           V == [q.prev EXCEPT ![t] = NULL]
           N == [q.next EXCEPT ![t] = NULL]
<1>1. r = [size |-> q.size, next_dq |-> q.next_dq, arr |-> q.arr, next |-> N,
           prev |-> V, prio |-> P]
  <2> DEFINE x == [q EXCEPT !.prio = P]
             y == [x EXCEPT !.prev = V]
  <2>1. x = [size |-> q.size, next_dq |-> q.next_dq, arr |-> q.arr, next |-> q.next,
             prev |-> q.prev, prio |-> P]
    BY DEF PRIO_Q
  <2>2. r = [q EXCEPT !.prio = P, !.prev = V, !.next = N]
    BY DEF PRIO_Q
  <2>3. [q EXCEPT !.prio = P, !.prev = V, !.next = N] = [y EXCEPT !.next = N]
    OBVIOUS
  <2> HIDE DEF x, P, V, N, r
  <2>4. y = [size |-> q.size, next_dq |-> q.next_dq, arr |-> q.arr, next |-> q.next,
             prev |-> V, prio |-> P]
    BY <2>1
  <2> HIDE DEF y
  <2> QED BY <2>2, <2>3, <2>4
<1>2. P \in [Tid -> Prio] /\ V \in [Tid -> Link] /\ N \in [Tid -> Link]
  BY DEF PRIO_Q, Link
<1>3. q.size \in 0 .. USHRT_MAX /\ q.next_dq \in Prio /\ q.arr \in [Prio -> Link]
  BY DEF PRIO_Q
<1> HIDE DEF r, P, V, N
<1>4. r \in PRIO_Q
  BY <1>1, <1>2, <1>3 DEF PRIO_Q
<1>5. r.size = q.size /\ r.next_dq = q.next_dq /\ r.arr = q.arr /\ r.next = N /\ r.prev = V
      /\ r.prio = P
  BY <1>1
<1>6. \A u \in Members(f) : r.prio[u] = q.prio[u] /\ r.next[u] = q.next[u]
                            /\ r.prev[u] = q.prev[u]
  <2>1. \A u \in Members(f) : u \in Tid /\ u # t
    BY DEF Members
  <2>2. \A u \in Tid : u # t => P[u] = q.prio[u] /\ V[u] = q.prev[u] /\ N[u] = q.next[u]
    BY DEF P, V, N, PRIO_Q
  <2> QED BY <1>5, <2>1, <2>2
<1>7. Represents(r, f)
  BY <1>5, <1>6, RepresentsFrame
<1> QED BY <1>4, <1>5, <1>7 DEF r, P

\* The queue once t has left its FIFO for the one of priority p.
Moved(q, t, p) ==
  pq_add([pq_remove(q, t) EXCEPT !.prio[t] = p, !.prev[t] = NULL, !.next[t] = NULL], t)

\* A member leaves its FIFO and goes to the end of another.
LEMMA MovedRepresents ==
  ASSUME NEW q \in PRIO_Q, NEW f \in [Prio -> Fifo], Represents(q, f),
         NEW t \in Tid, NEW k \in 1 .. Len(f[q.prio[t]]), t = f[q.prio[t]][k],
         NEW p \in Prio
  PROVE  LET h == Joined(Left(f, q.prio[t], k), p, t)
         IN /\ Moved(q, t, p) \in PRIO_Q
            /\ \A u \in Tid : Moved(q, t, p).prio[u] = IF u = t THEN p ELSE q.prio[u]
            /\ h \in [Prio -> Fifo]
            /\ Represents(Moved(q, t, p), h)
            /\ Members(h) = Members(f)
<1> DEFINE a == pq_remove(q, t)
           r == [a EXCEPT !.prio[t] = p, !.prev[t] = NULL, !.next[t] = NULL]
           g == Left(f, q.prio[t], k)
           h == Joined(g, p, t)
<1>1. t \in Members(f)
  <2>1. q.prio[t] \in Prio
    BY DEF PRIO_Q
  <2> QED BY <2>1 DEF Members, Elems
<1>2. Moved(q, t, p) = pq_add(r, t)
  BY DEF Moved
<1>3. a \in PRIO_Q /\ a.prio = q.prio /\ g \in [Prio -> Fifo] /\ Represents(a, g)
      /\ Members(g) = Members(f) \ {t}
  BY RemoveRepresents
<1> HIDE DEF a, g
<1>4. r \in PRIO_Q /\ r.prio = [a.prio EXCEPT ![t] = p] /\ Represents(r, g)
  BY <1>3, RelinkRepresents
<1>5. \A u \in Tid : r.prio[u] = IF u = t THEN p ELSE q.prio[u]
  BY <1>3, <1>4 DEF PRIO_Q
<1> HIDE DEF r
<1>6. /\ pq_add(r, t) \in PRIO_Q /\ pq_add(r, t).prio = r.prio
      /\ h \in [Prio -> Fifo] /\ Represents(pq_add(r, t), h)
      /\ Members(h) = Members(g) \cup {t}
  <2>1. t \notin Members(g) /\ r \in PRIO_Q /\ g \in [Prio -> Fifo] /\ Represents(r, g)
    BY <1>3, <1>4
  <2>2. /\ pq_add(r, t) \in PRIO_Q /\ pq_add(r, t).prio = r.prio
        /\ Joined(g, r.prio[t], t) \in [Prio -> Fifo]
        /\ Represents(pq_add(r, t), Joined(g, r.prio[t], t))
        /\ Members(Joined(g, r.prio[t], t)) = Members(g) \cup {t}
    BY <2>1, AddRepresents
  <2> QED BY <1>5, <2>2
<1> QED BY <1>1, <1>2, <1>3, <1>5, <1>6 DEF g

\* pq_move of a member does that.
LEMMA MoveIsMoved ==
  ASSUME NEW q \in PRIO_Q, NEW f \in [Prio -> Fifo], Represents(q, f),
         NEW t \in Members(f), NEW dormant \in BOOLEAN, NEW p \in Prio,
         ~ pq_move_err(q, dormant, p)
  PROVE  pq_move(q, t, dormant, p) = Moved(q, t, p)
<1>1. t \in Tid
  BY DEF Members
<1> QED BY <1>1, QueuedIffMember DEF pq_move, Moved

-----------------------------------------------------------------------------
(* pq_init, and the priority of a TCB outside the queue.                   *)

\* The queue without FIFOs.
LEMMA EmptyRepresents ==
  ASSUME NEW q \in PRIO_Q
  PROVE  LET e == [p \in Prio |-> << >>]
         IN /\ pq_init(q) \in PRIO_Q
            /\ pq_init(q).prio = q.prio
            /\ e \in [Prio -> Fifo]
            /\ Represents(pq_init(q), e)
            /\ Members(e) = {}
<1> DEFINE e == [p \in Prio |-> << >>]
           A == [p \in Prio |-> NULL]
           i == pq_init(q)
<1>1. i = [size |-> 0, next_dq |-> 0, arr |-> A, next |-> q.next, prev |-> q.prev,
           prio |-> q.prio]
  <2> DEFINE a == [q EXCEPT !.size = 0]
             b == [a EXCEPT !.next_dq = 0]
             c == [b EXCEPT !.size = 0]
             d == [c EXCEPT !.next_dq = 0]
  <2>1. i = [d EXCEPT !.arr = A]
    BY DEF pq_init, pq_clear
  <2>2. a = [size |-> 0, next_dq |-> q.next_dq, arr |-> q.arr, next |-> q.next,
             prev |-> q.prev, prio |-> q.prio]
    BY DEF PRIO_Q
  <2> HIDE DEF a, A, i
  <2>3. b = [size |-> 0, next_dq |-> 0, arr |-> q.arr, next |-> q.next,
             prev |-> q.prev, prio |-> q.prio]
    BY <2>2
  <2> HIDE DEF b
  <2>4. c = b
    BY <2>3
  <2> HIDE DEF c
  <2>5. d = b
    BY <2>3, <2>4
  <2> HIDE DEF d
  <2> QED BY <2>1, <2>3, <2>5
<1>2. 0 \in Prio /\ 0 \in 0 .. USHRT_MAX
  BY PrioNullAssumption, ShortSize DEF Prio
<1>3. A \in [Prio -> Link]
  BY DEF Link
<1> HIDE DEF A, i
<1>4. i \in PRIO_Q
  BY <1>1, <1>2, <1>3 DEF PRIO_Q
<1>5. << >> \in Fifo /\ Len(<< >>) = 0
  <2>1. << >> \in Seq(Tid) /\ Len(<< >>) = 0
    BY EmptySeq
  <2>2. 1 .. Len(<< >>) = {}
    BY <2>1
  <2> QED BY <2>1, <2>2, FifoIff
<1>6. e \in [Prio -> Fifo] /\ \A p \in Prio : e[p] = << >>
  BY <1>5
<1> HIDE DEF e
<1>7. Members(e) = {}
  BY <1>5, <1>6 DEF Members, Elems
<1>8. \A p \in Prio : IsList(i, p, e[p])
  BY <1>1, <1>5, <1>6 DEF IsList, A
<1>9. i.size = Cardinality(Members(e))
  BY <1>1, <1>7, FS_EmptySet
<1>10. Represents(i, e)
  BY <1>6, <1>7, <1>8, <1>9 DEF Represents
<1> QED BY <1>1, <1>4, <1>6, <1>7, <1>10 DEF i, e

\* The priority of a TCB outside the queue changes.
LEMMA ReprioRepresents ==
  ASSUME NEW q \in PRIO_Q, NEW f \in [Prio -> Fifo], Represents(q, f),
         NEW t \in Tid, t \notin Members(f), NEW p \in Prio
  PROVE  LET r == [q EXCEPT !.prio[t] = p]
         IN r \in PRIO_Q /\ r.prio = [q.prio EXCEPT ![t] = p] /\ Represents(r, f)
<1> DEFINE r == [q EXCEPT !.prio[t] = p]
           P == [q.prio EXCEPT ![t] = p]
<1>1. r = [size |-> q.size, next_dq |-> q.next_dq, arr |-> q.arr, next |-> q.next,
           prev |-> q.prev, prio |-> P]
  BY DEF PRIO_Q
<1>2. P \in [Tid -> Prio]
  BY DEF PRIO_Q
<1>3. /\ q.size \in 0 .. USHRT_MAX /\ q.next_dq \in Prio /\ q.arr \in [Prio -> Link]
      /\ q.next \in [Tid -> Link] /\ q.prev \in [Tid -> Link]
  BY DEF PRIO_Q
<1> HIDE DEF r, P
<1>4. r \in PRIO_Q
  BY <1>1, <1>2, <1>3 DEF PRIO_Q
<1>5. r.size = q.size /\ r.next_dq = q.next_dq /\ r.arr = q.arr /\ r.next = q.next
      /\ r.prev = q.prev /\ r.prio = P
  BY <1>1
<1>6. \A u \in Members(f) : r.prio[u] = q.prio[u]
  <2>1. \A u \in Members(f) : u \in Tid /\ u # t
    BY DEF Members
  <2>2. \A u \in Tid : u # t => P[u] = q.prio[u]
    BY DEF P, PRIO_Q
  <2> QED BY <1>5, <2>1, <2>2
<1>7. Represents(r, f)
  BY <1>5, <1>6, RepresentsFrame
<1> QED BY <1>4, <1>5, <1>7 DEF r, P

-----------------------------------------------------------------------------
(* The order within a FIFO.                                                *)

\* u stands in front of t in a FIFO of f.
InFront(f, u, t) ==
  \E p \in Prio : \E i, j \in 1 .. Len(f[p]) : i < j /\ f[p][i] = u /\ f[p][j] = t

\* The walk from u comes to t: what InFront means for the pointers.
Precedes(q, u, t) ==
  /\ u # t
  /\ Queued(q, u) /\ Queued(q, t)
  /\ q.prio[u] = q.prio[t]
  /\ Reaches(q, u, t)

\* A walk that starts inside a list comes to the rest of the list.
LEMMA RestReaches ==
  ASSUME NEW q, NEW p, NEW s \in Fifo, IsList(q, p, s), NEW k \in 1 .. Len(s), NEW u
  PROVE  Reaches(q, s[k], u) <=> \E j \in 1 .. Len(s) : k <= j /\ u = s[j]
<1>1. /\ Len(s) \in Nat
      /\ \A i \in 1 .. Len(s) : s[i] \in Tid
  BY FifoProperties
<1>2. \A i \in 1 .. Len(s) : q.next[s[i]] = IF i = Len(s) THEN NULL ELSE s[i + 1]
  BY DEF IsList
<1> DEFINE R == {s[j] : j \in {i \in 1 .. Len(s) : k <= i}}
<1>3. ASSUME Reaches(q, s[k], u)
      PROVE  \E j \in 1 .. Len(s) : k <= j /\ u = s[j]
  <2>1. R \in SUBSET Tid /\ s[k] \in R
    BY <1>1
  <2>2. \A x \in R : q.next[x] \in R \cup {NULL}
    BY <1>1, <1>2
  <2>3. u \in R
    <3> HIDE DEF R
    <3> QED BY <1>3, <2>1, <2>2 DEF Reaches
  <2> QED BY <2>3
<1>4. ASSUME NEW j \in 1 .. Len(s), k <= j, u = s[j]
      PROVE  Reaches(q, s[k], u)
  <2> SUFFICES ASSUME NEW S \in SUBSET Tid, s[k] \in S,
                      \A x \in S : q.next[x] \in S \cup {NULL},
                      s[j] \notin S
               PROVE  FALSE
    BY <1>4 DEF Reaches
  <2> DEFINE B == {i \in 1 .. Len(s) : k <= i /\ s[i] \notin S}
  <2>1. B \in SUBSET Nat /\ B # {}
    BY <1>1, <1>4
  <2>2. PICK m \in B : \A i \in B : m <= i
    BY <2>1, LeastElement
  <2>3. m \in 1 .. Len(s) /\ k <= m - 1 /\ m - 1 \in 1 .. Len(s) /\ m - 1 # Len(s)
    BY <1>1, <2>2
  <2>4. s[m - 1] \in S
    BY <1>1, <2>2, <2>3
  <2>5. q.next[s[m - 1]] = s[m]
    BY <1>1, <1>2, <2>3, SMTT(30)
  <2>6. s[m] \in Tid /\ s[m] \notin S
    BY <1>1, <2>2, <2>3
  <2> QED BY <2>4, <2>5, <2>6, NullAssumption
<1> QED BY <1>3, <1>4

LEMMA PrecedesIff ==
  ASSUME NEW q \in PRIO_Q, NEW f \in [Prio -> Fifo], Represents(q, f),
         NEW u \in Tid, NEW t \in Tid
  PROVE  Precedes(q, u, t) <=> InFront(f, u, t)
<1>1. ASSUME Precedes(q, u, t)
      PROVE  InFront(f, u, t)
  <2> DEFINE p == q.prio[u]
  <2>1. /\ u # t /\ Reaches(q, u, t)
        /\ u \in Members(f)
        /\ q.prio[u] = q.prio[t]
    BY <1>1, QueuedIffMember DEF Precedes
  <2>2. p \in Prio /\ u \in Elems(f[p])
    BY <2>1, MemberOfList
  <2>3. f[p] \in Fifo /\ IsList(q, p, f[p])
    BY <2>2 DEF Represents
  <2>4. PICK i \in 1 .. Len(f[p]) : u = f[p][i]
    BY <2>2 DEF Elems
  <2>5. Reaches(q, f[p][i], t)
    BY <2>1, <2>4
  <2> HIDE DEF p
  <2>6. PICK j \in 1 .. Len(f[p]) : i <= j /\ t = f[p][j]
    <3> DEFINE s == f[p]
    <3>1. s \in Fifo /\ IsList(q, p, s) /\ i \in 1 .. Len(s) /\ Reaches(q, s[i], t)
      BY <2>3, <2>5
    <3>2. \E l \in 1 .. Len(s) : i <= l /\ t = s[l]
      <4> HIDE DEF s
      <4> QED BY <3>1, RestReaches
    <3> QED BY <3>2
  <2>7. i < j
    BY <2>1, <2>4, <2>6
  <2> QED BY <2>2, <2>4, <2>6, <2>7 DEF InFront
<1>2. ASSUME InFront(f, u, t)
      PROVE  Precedes(q, u, t)
  <2>1. PICK p \in Prio : \E i, j \in 1 .. Len(f[p]) : i < j /\ f[p][i] = u /\ f[p][j] = t
    BY <1>2 DEF InFront
  <2>2. PICK i \in 1 .. Len(f[p]), j \in 1 .. Len(f[p]) : i < j /\ f[p][i] = u /\ f[p][j] = t
    BY <2>1
  <2>3. f[p] \in Fifo /\ IsList(q, p, f[p])
    BY DEF Represents
  <2>4. u \in Elems(f[p]) /\ t \in Elems(f[p])
    BY <2>2 DEF Elems
  <2>5. u # t
    BY <2>2, <2>3, FifoProperties
  <2>6. /\ q.prio[u] = p /\ q.prio[t] = p
        /\ u \in Members(f) /\ t \in Members(f)
    BY <2>4, PriorityOfMember
  <2>7. Queued(q, u) /\ Queued(q, t)
    BY <2>6, QueuedIffMember
  <2>8. \E l \in 1 .. Len(f[p]) : i <= l /\ t = f[p][l]
    BY <2>2
  <2>9. Reaches(q, f[p][i], t)
    <3> DEFINE s == f[p]
    <3>1. s \in Fifo /\ IsList(q, p, s) /\ i \in 1 .. Len(s)
      BY <2>2, <2>3
    <3>2. \E l \in 1 .. Len(s) : i <= l /\ t = s[l]
      BY <2>8
    <3>3. Reaches(q, s[i], t) <=> \E l \in 1 .. Len(s) : i <= l /\ t = s[l]
      <4> HIDE DEF s
      <4> QED BY <3>1, RestReaches
    <3> QED BY <3>2, <3>3
  <2>10. Reaches(q, u, t)
    BY <2>2, <2>9
  <2> QED BY <2>5, <2>6, <2>7, <2>10 DEF Precedes
<1> QED BY <1>1, <1>2

\* Whoever joins a FIFO is in front of nobody.
LEMMA JoinedOrder ==
  ASSUME NEW f \in [Prio -> Fifo], NEW p \in Prio, NEW x \in Tid, x \notin Elems(f[p]),
         NEW u, NEW t, t # x, InFront(Joined(f, p, x), u, t)
  PROVE  InFront(f, u, t)
<1> DEFINE g == Joined(f, p, x)
<1>1. PICK r \in Prio : \E i, j \in 1 .. Len(g[r]) : i < j /\ g[r][i] = u /\ g[r][j] = t
  BY DEF InFront
<1>2. CASE r # p
  <2>1. g[r] = f[r]
    BY <1>2 DEF Joined
  <2> QED BY <1>1, <2>1 DEF InFront
<1>3. CASE r = p
  <2>1. g[p] = Append(f[p], x)
    BY DEF Joined
  <2>2. /\ Len(Append(f[p], x)) = Len(f[p]) + 1
        /\ \A i \in 1 .. Len(f[p]) : Append(f[p], x)[i] = f[p][i]
        /\ Append(f[p], x)[Len(f[p]) + 1] = x
    BY AppendFifo
  <2>3. Len(f[p]) \in Nat
    BY FifoProperties
  <2>4. PICK i \in 1 .. Len(g[p]), j \in 1 .. Len(g[p]) : i < j /\ g[p][i] = u /\ g[p][j] = t
    BY <1>1, <1>3
  <2> HIDE DEF g
  <2>5. j # Len(f[p]) + 1
    BY <2>1, <2>2, <2>4
  <2>6. i \in 1 .. Len(f[p]) /\ j \in 1 .. Len(f[p])
    BY <2>1, <2>2, <2>3, <2>4, <2>5
  <2>7. f[p][i] = u /\ f[p][j] = t
    BY <2>1, <2>2, <2>4, <2>6
  <2> QED BY <2>4, <2>6, <2>7 DEF InFront
<1> QED BY <1>2, <1>3

\* Whoever leaves a FIFO lets nobody past.
LEMMA LeftOrder ==
  ASSUME NEW f \in [Prio -> Fifo], NEW p \in Prio, NEW k \in 1 .. Len(f[p]),
         NEW u, NEW t, InFront(Left(f, p, k), u, t)
  PROVE  InFront(f, u, t)
<1> DEFINE g == Left(f, p, k)
<1>1. PICK r \in Prio : \E i, j \in 1 .. Len(g[r]) : i < j /\ g[r][i] = u /\ g[r][j] = t
  BY DEF InFront
<1>2. CASE r # p
  <2>1. g[r] = f[r]
    BY <1>2 DEF Left
  <2> QED BY <1>1, <2>1 DEF InFront
<1>3. CASE r = p
  <2>1. g[p] = Cut(f[p], k)
    BY DEF Left
  <2>2. /\ Len(Cut(f[p], k)) = Len(f[p]) - 1
        /\ \A i \in 1 .. Len(f[p]) - 1 :
             Cut(f[p], k)[i] = IF i < k THEN f[p][i] ELSE f[p][i + 1]
    BY CutFifo
  <2>3. Len(f[p]) \in Nat
    BY FifoProperties
  <2>4. PICK i \in 1 .. Len(g[p]), j \in 1 .. Len(g[p]) : i < j /\ g[p][i] = u /\ g[p][j] = t
    BY <1>1, <1>3
  <2> HIDE DEF g
  <2> DEFINE a == IF i < k THEN i ELSE i + 1
             b == IF j < k THEN j ELSE j + 1
  <2>5. i \in 1 .. Len(f[p]) - 1 /\ j \in 1 .. Len(f[p]) - 1 /\ i < j
    BY <2>1, <2>2, <2>4
  <2>6. a \in 1 .. Len(f[p]) /\ b \in 1 .. Len(f[p]) /\ a < b
    BY <2>3, <2>5
  <2>7. f[p][a] = u /\ f[p][b] = t
    BY <2>1, <2>2, <2>4, <2>5
  <2> HIDE DEF a, b
  <2> QED BY <2>6, <2>7 DEF InFront
<1> QED BY <1>2, <1>3

\* pq_add lets a task in front of nobody.
LEMMA AddOrder ==
  ASSUME NEW q \in PRIO_Q, NEW f \in [Prio -> Fifo], Represents(q, f),
         NEW x \in Tid, x \notin Members(f),
         NEW u \in Tid, NEW t \in Tid, t # x, Precedes(pq_add(q, x), u, t)
  PROVE  Precedes(q, u, t)
<1> DEFINE g == Joined(f, q.prio[x], x)
<1>1. /\ pq_add(q, x) \in PRIO_Q
      /\ g \in [Prio -> Fifo]
      /\ Represents(pq_add(q, x), g)
  BY AddRepresents
<1>2. InFront(g, u, t)
  BY <1>1, PrecedesIff
<1>3. q.prio[x] \in Prio
  BY DEF PRIO_Q
<1>4. x \notin Elems(f[q.prio[x]])
  BY <1>3, MemberOfList
<1>5. InFront(f, u, t)
  BY <1>2, <1>3, <1>4, JoinedOrder
<1> QED BY <1>5, PrecedesIff

\* pq_dequeue lets nobody past anybody, ...
LEMMA DequeueOrder ==
  ASSUME NEW q \in PRIO_Q, NEW f \in [Prio -> Fifo], Represents(q, f), Members(f) # {},
         NEW u \in Tid, NEW t \in Tid, Precedes(pq_dequeue(q), u, t)
  PROVE  Precedes(q, u, t)
<1> DEFINE g == Left(f, q.next_dq, 1)
<1>1. /\ pq_dequeue(q) \in PRIO_Q
      /\ g \in [Prio -> Fifo]
      /\ Represents(pq_dequeue(q), g)
  BY DequeueRepresents
<1>2. InFront(g, u, t)
  BY <1>1, PrecedesIff
<1>3. q.next_dq \in Prio /\ 1 \in 1 .. Len(f[q.next_dq])
  BY PeekOfNonEmpty DEF PRIO_Q
<1>4. InFront(f, u, t)
  BY <1>2, <1>3, LeftOrder
<1> QED BY <1>4, PrecedesIff

\* ... and the task it takes was in front of all others of its priority.
LEMMA HeadPrecedes ==
  ASSUME NEW q \in PRIO_Q, NEW f \in [Prio -> Fifo], Represents(q, f),
         NEW t \in Members(f), t # pq_peek(q), q.prio[t] = q.prio[pq_peek(q)]
  PROVE  Precedes(q, pq_peek(q), t)
<1> DEFINE p == q.next_dq
<1>1. /\ 1 \in 1 .. Len(f[p])
      /\ pq_peek(q) = f[p][1]
      /\ pq_peek(q) \in Tid
      /\ q.prio[pq_peek(q)] = p
  BY PeekOfNonEmpty
<1>2. p \in Prio /\ t \in Tid
  BY DEF PRIO_Q, Members
<1>3. t \in Elems(f[p])
  BY <1>1, MemberOfList
<1>4. PICK j \in 1 .. Len(f[p]) : t = f[p][j]
  BY <1>3 DEF Elems
<1>5. 1 < j
  BY <1>1, <1>4
<1> HIDE DEF p
<1>6. InFront(f, pq_peek(q), t)
  BY <1>1, <1>2, <1>4, <1>5 DEF InFront
<1> QED BY <1>1, <1>2, <1>6, PrecedesIff

\* A task that pq_move sends elsewhere lets nobody past and is in front of nobody.
LEMMA MovedOrder ==
  ASSUME NEW q \in PRIO_Q, NEW f \in [Prio -> Fifo], Represents(q, f),
         NEW x \in Members(f), NEW p \in Prio,
         NEW u \in Tid, NEW t \in Tid, t # x, Precedes(Moved(q, x, p), u, t)
  PROVE  Precedes(q, u, t)
<1>1. x \in Tid /\ q.prio[x] \in Prio /\ x \in Elems(f[q.prio[x]])
  BY MemberOfList DEF Members
<1>2. PICK k \in 1 .. Len(f[q.prio[x]]) : x = f[q.prio[x]][k]
  BY <1>1 DEF Elems
<1> DEFINE l == Left(f, q.prio[x], k)
           h == Joined(l, p, x)
<1>3. /\ Moved(q, x, p) \in PRIO_Q
      /\ h \in [Prio -> Fifo]
      /\ Represents(Moved(q, x, p), h)
  BY <1>1, <1>2, MovedRepresents
<1>4. InFront(h, u, t)
  BY <1>3, PrecedesIff
<1>5. l \in [Prio -> Fifo] /\ Members(l) = Members(f) \ {x}
  BY <1>1, <1>2, RemoveRepresents
<1>6. x \notin Elems(l[p])
  BY <1>1, <1>5 DEF Members
<1> HIDE DEF l
<1>7. InFront(l, u, t)
  BY <1>1, <1>4, <1>5, <1>6, JoinedOrder
<1>8. InFront(f, u, t)
  BY <1>1, <1>7, LeftOrder DEF l
<1> QED BY <1>8, PrecedesIff
=============================================================================
