-------------------------- MODULE ReadyQueue_proofs --------------------------
(***************************************************************************)
(* For any number of tasks and priorities, lib/queue.c under its callers'  *)
(* contract keeps its pointers in order and implements ReadyFifo.          *)
(*                                                                         *)
(* The inductive invariant says that the queue represents some family of   *)
(* FIFOs.  What a call does to that family is the matter of the lemmas of  *)
(* PrioQueue_proofs; here each call is matched with the operation of       *)
(* ReadyFifo that does the same.                                           *)
(***************************************************************************)
EXTENDS ReadyQueue, PrioQueue_proofs

IInv ==
  /\ rq \in PRIO_Q
  /\ out \in Link
  /\ \E f \in [Prio -> Fifo] : Represents(rq, f)


\* Leaving a FIFO is said in the same way on both sides.
LEMMA CutIsRemoveAt ==
  ASSUME NEW s \in Fifo, NEW k \in 1 .. Len(s)
  PROVE  Abs!RemoveAt(s, k) = Cut(s, k) /\ (k = 1 => Tail(s) = Cut(s, k))
<1> DEFINE n == Len(s)
           a == SubSeq(s, 1, k - 1)
           b == SubSeq(s, k + 1, n)
<1>1. n \in Nat /\ s \in Seq(Tid) /\ \A i \in 1 .. n : s[i] \in Tid
  BY FifoProperties
<1>2. /\ Cut(s, k) \in Seq(Tid) /\ Len(Cut(s, k)) = n - 1
      /\ \A i \in 1 .. n - 1 : Cut(s, k)[i] = IF i < k THEN s[i] ELSE s[i + 1]
  BY CutFifo, FifoProperties
<1>3. a \in Seq(Tid) /\ Len(a) = k - 1 /\ \A i \in 1 .. k - 1 : a[i] = s[i]
  <2>1. \A i \in 1 .. k - 1 : s[i] \in Tid /\ 1 + i - 1 = i
    BY <1>1
  <2>2. 1 \in Int /\ k - 1 \in Int /\ (k - 1) - 1 + 1 = k - 1
        /\ (1 <= k - 1 \/ k - 1 = 0)
    OBVIOUS
  <2>3. /\ a \in Seq(Tid) /\ Len(a) = IF 1 <= k - 1 THEN (k - 1) - 1 + 1 ELSE 0
        /\ \A i \in 1 .. (k - 1) - 1 + 1 : a[i] = s[1 + i - 1]
    BY <2>1, <2>2, SubSeqProperties
  <2> HIDE DEF a
  <2> QED BY <2>1, <2>2, <2>3
<1>4. b \in Seq(Tid) /\ Len(b) = n - k /\ \A i \in 1 .. n - k : b[i] = s[k + i]
  <2>1. \A i \in k + 1 .. n : s[i] \in Tid
    BY <1>1
  <2>2. k + 1 \in Int /\ n \in Int /\ n - (k + 1) + 1 = n - k
        /\ (k + 1 <= n \/ n - k = 0)
    BY <1>1
  <2>3. \A i \in 1 .. n - k : (k + 1) + i - 1 = k + i
    BY <1>1
  <2> DEFINE m == k + 1
  <2>4. \A i \in m .. n : s[i] \in Tid
    BY <2>1
  <2>5. b = SubSeq(s, m, n) /\ m \in Int /\ n \in Int
    BY <2>2
  <2> HIDE DEF m, n, b
  <2>6. /\ b \in Seq(Tid) /\ Len(b) = IF m <= n THEN n - m + 1 ELSE 0
        /\ \A i \in 1 .. n - m + 1 : b[i] = s[m + i - 1]
    BY <2>4, <2>5, SubSeqProperties
  <2> QED BY <1>1, <2>2, <2>3, <2>6 DEF m
<1>5. Abs!RemoveAt(s, k) = a \o b
  BY DEF Abs!RemoveAt
<1> HIDE DEF a, b, n
<1>6. /\ a \o b \in Seq(Tid) /\ Len(a \o b) = n - 1
      /\ \A i \in 1 .. n - 1 : (a \o b)[i] = IF i <= k - 1 THEN a[i] ELSE b[i - (k - 1)]
  <2>1. (k - 1) + (n - k) = n - 1
    BY <1>1
  <2>2. /\ a \o b \in Seq(Tid) /\ Len(a \o b) = Len(a) + Len(b)
        /\ \A i \in 1 .. Len(a) + Len(b) :
             (a \o b)[i] = IF i <= Len(a) THEN a[i] ELSE b[i - Len(a)]
    BY <1>3, <1>4, ConcatProperties
  <2>3. Len(a) + Len(b) = n - 1
    BY <1>3, <1>4, <2>1
  <2> QED BY <1>3, <2>2, <2>3
<1>7. \A i \in 1 .. n - 1 : (a \o b)[i] = Cut(s, k)[i]
  <2> SUFFICES ASSUME NEW i \in 1 .. n - 1 PROVE (a \o b)[i] = Cut(s, k)[i]
    OBVIOUS
  <2>1. k \in Int /\ k >= 1
    OBVIOUS
  <2>2. CASE i <= k - 1
    <3>1. i \in 1 .. k - 1 /\ i < k
      BY <1>1, <2>1, <2>2
    <3> QED BY <1>2, <1>3, <1>6, <2>2, <3>1
  <2>3. CASE ~ (i <= k - 1)
    <3>1. i - (k - 1) \in 1 .. n - k /\ ~ (i < k) /\ k + (i - (k - 1)) = i + 1
      BY <1>1, <2>1, <2>3
    <3> QED BY <1>2, <1>4, <1>6, <2>3, <3>1
  <2> QED BY <2>2, <2>3
<1>8. a \o b = Cut(s, k)
  BY <1>2, <1>6, <1>7, SeqEqual
<1>9. ASSUME k = 1 PROVE Tail(s) = Cut(s, k)
  <2>1. s # << >>
    BY <1>9, FifoProperties
  <2>2. Tail(s) \in Seq(Tid) /\ Len(Tail(s)) = n - 1
        /\ \A i \in 1 .. n - 1 : Tail(s)[i] = s[i + 1]
    BY <1>1, <2>1, HeadTailProperties DEF n
  <2>3. \A i \in 1 .. n - 1 : Tail(s)[i] = Cut(s, k)[i]
    BY <1>1, <1>2, <1>9, <2>2
  <2> QED BY <1>2, <2>2, <2>3, SeqEqual
<1> QED BY <1>5, <1>8, <1>9

-----------------------------------------------------------------------------
(* One lemma for each call.                                                *)

\* A task on the queue, and where it stands.
LEMMA PlaceOfQueued ==
  ASSUME rq \in PRIO_Q, NEW f \in [Prio -> Fifo], Represents(rq, f),
         NEW t \in Tid, Queued(rq, t)
  PROVE  \E k \in 1 .. Len(f[rq.prio[t]]) :
           /\ t = f[rq.prio[t]][k]
           /\ rq.prio[t] \in Prio /\ f[rq.prio[t]] \in Fifo /\ f[rq.prio[t]] # << >>
<1>1. t \in Members(f)
  BY QueuedIffMember
<1>2. rq.prio[t] \in Prio /\ t \in Elems(f[rq.prio[t]])
  BY <1>1, MemberOfList
<1>3. f[rq.prio[t]] \in Fifo /\ IsList(rq, rq.prio[t], f[rq.prio[t]])
  BY <1>2 DEF Represents
<1>4. f[rq.prio[t]] # << >>
  BY <1>2, <1>3, EmptyList
<1> QED BY <1>2, <1>3, <1>4 DEF Elems

\* pq_add is Enqueue.
LEMMA AddStep ==
  ASSUME IInv, NEW t \in Tid, NEW p \in Prio, Add(t, p)
  PROVE  IInv' /\ Abs!Enqueue(t, p)
<1>1. PICK f \in [Prio -> Fifo] : Represents(rq, f)
  BY DEF IInv
<1>2. rq \in PRIO_Q
  BY DEF IInv
<1> DEFINE r == [rq EXCEPT !.prio[t] = p]
           g == Joined(f, p, t)
<1>3. t \notin Members(f)
  BY <1>1, <1>2, QueuedIffMember DEF Add
<1>4. r \in PRIO_Q /\ r.prio[t] = p /\ Represents(r, f)
  <2>1. r \in PRIO_Q /\ r.prio = [rq.prio EXCEPT ![t] = p] /\ Represents(r, f)
    BY <1>1, <1>2, <1>3, ReprioRepresents
  <2>2. rq.prio \in [Tid -> Prio]
    BY <1>2 DEF PRIO_Q
  <2> HIDE DEF r
  <2> QED BY <2>1, <2>2
<1>5. rq' = pq_add(r, t) /\ out' = NULL
  BY DEF Add
<1> HIDE DEF r
<1>6. pq_add(r, t) \in PRIO_Q /\ g \in [Prio -> Fifo] /\ Represents(pq_add(r, t), g)
  BY <1>3, <1>4, AddRepresents
<1>7. Fifos(rq) = f /\ Fifos(rq') = g
  BY <1>1, <1>5, <1>6, FifosOfQueue
<1>8. IInv'
  BY <1>5, <1>6 DEF IInv, Link
<1>9. ~ Abs!In(t)
  <2>1. \A o \in Prio : t \notin Elems(f[o])
    BY <1>3 DEF Members
  <2> QED BY <1>7, <2>1 DEF Abs!In, Elems, Prio
<1> QED BY <1>5, <1>7, <1>8, <1>9 DEF Abs!Enqueue, Joined

\* pq_dequeue is Dequeue.
LEMMA DequeueStep ==
  ASSUME IInv, Dequeue
  PROVE  IInv' /\ Abs!Dequeue
<1>1. PICK f \in [Prio -> Fifo] : Represents(rq, f)
  BY DEF IInv
<1>2. rq \in PRIO_Q
  BY DEF IInv
<1> DEFINE p == rq.next_dq
           g == Left(f, p, 1)
<1>3. Members(f) # {}
  <2>1. rq.size # 0
    BY DEF Dequeue, pq_peek
  <2> QED BY <1>1, <2>1, FS_EmptySet DEF Represents
<1>4. /\ f[p] # << >> /\ 1 \in 1 .. Len(f[p])
      /\ pq_peek(rq) = f[p][1] /\ pq_peek(rq) \in Tid
  BY <1>1, <1>2, <1>3, PeekOfNonEmpty
<1>5. pq_dequeue(rq) \in PRIO_Q /\ g \in [Prio -> Fifo] /\ Represents(pq_dequeue(rq), g)
  BY <1>1, <1>2, <1>3, DequeueRepresents
<1>6. rq' = pq_dequeue(rq) /\ out' = pq_peek(rq)
  BY DEF Dequeue
<1>7. Fifos(rq) = f /\ Fifos(rq') = g
  BY <1>1, <1>5, <1>6, FifosOfQueue
<1>8. IInv'
  BY <1>4, <1>5, <1>6 DEF IInv, Link
<1>9. p \in Prio /\ f[p] \in Fifo /\ \A o \in Prio : f[o] # << >> => p <= o
  <2>1. p \in Prio
    BY <1>2 DEF PRIO_Q
  <2> QED BY <1>1, <2>1 DEF Represents
<1>10. Tail(f[p]) = Cut(f[p], 1) /\ Head(f[p]) = f[p][1]
  <2>1. Tail(f[p]) = Cut(f[p], 1)
    BY <1>4, <1>9, CutIsRemoveAt
  <2>2. f[p] \in Seq(Tid)
    BY <1>9, FifoProperties
  <2> QED BY <1>4, <2>1, <2>2
<1>11. g = [f EXCEPT ![p] = Tail(@)]
  BY <1>10 DEF Left
<1>12. p \in Abs!Occupied /\ \A o \in Abs!Occupied : p <= o
  BY <1>4, <1>7, <1>9 DEF Abs!Occupied, Prio
<1> QED BY <1>4, <1>6, <1>7, <1>8, <1>10, <1>11, <1>12 DEF Abs!Dequeue

\* pq_remove is Withdraw.
LEMMA RemoveStep ==
  ASSUME IInv, NEW t \in Tid, Remove(t)
  PROVE  IInv' /\ Abs!Withdraw(t)
<1>1. PICK f \in [Prio -> Fifo] : Represents(rq, f)
  BY DEF IInv
<1>2. rq \in PRIO_Q
  BY DEF IInv
<1> DEFINE p == rq.prio[t]
<1>3. PICK k \in 1 .. Len(f[p]) :
        t = f[p][k] /\ p \in Prio /\ f[p] \in Fifo /\ f[p] # << >>
  BY <1>1, <1>2, PlaceOfQueued DEF Remove
<1> DEFINE g == Left(f, p, k)
<1>4. pq_remove(rq, t) \in PRIO_Q /\ g \in [Prio -> Fifo] /\ Represents(pq_remove(rq, t), g)
  BY <1>1, <1>2, <1>3, RemoveRepresents
<1>5. rq' = pq_remove(rq, t) /\ out' = NULL
  BY DEF Remove
<1>6. Fifos(rq) = f /\ Fifos(rq') = g
  BY <1>1, <1>4, <1>5, FifosOfQueue
<1>7. IInv'
  BY <1>4, <1>5 DEF IInv, Link
<1>8. g = [f EXCEPT ![p] = Abs!RemoveAt(@, k)]
  BY <1>3, CutIsRemoveAt DEF Left
<1>9. p \in Abs!Occupied
  BY <1>3, <1>6 DEF Abs!Occupied, Prio
<1> QED BY <1>3, <1>5, <1>6, <1>7, <1>8, <1>9 DEF Abs!Withdraw

\* pq_move is Move.
LEMMA MoveStep ==
  ASSUME IInv, NEW t \in Tid, NEW p \in Prio, Move(t, p)
  PROVE  IInv' /\ Abs!Move(t, p)
<1>1. PICK f \in [Prio -> Fifo] : Represents(rq, f)
  BY DEF IInv
<1>2. rq \in PRIO_Q
  BY DEF IInv
<1> DEFINE o == rq.prio[t]
<1>3. PICK k \in 1 .. Len(f[o]) :
        t = f[o][k] /\ o \in Prio /\ f[o] \in Fifo /\ f[o] # << >>
  BY <1>1, <1>2, PlaceOfQueued DEF Move
<1> DEFINE h == Joined(Left(f, o, k), p, t)
           m == Moved(rq, t, p)
<1>4. m \in PRIO_Q /\ h \in [Prio -> Fifo] /\ Represents(m, h)
  BY <1>1, <1>2, <1>3, MovedRepresents
<1>5. rq' = m /\ out' = NULL
  <2>1. t \in Members(f)
    BY <1>1, <1>2, QueuedIffMember DEF Move
  <2>2. pq_move(rq, t, FALSE, p) = m
    BY <1>1, <1>2, <2>1, MoveIsMoved DEF Move
  <2> QED BY <2>2 DEF Move
<1>6. Fifos(rq) = f /\ Fifos(rq') = h
  BY <1>1, <1>4, <1>5, FifosOfQueue
<1>7. IInv'
  BY <1>4, <1>5 DEF IInv, Link
<1>8. h = [[f EXCEPT ![o] = Abs!RemoveAt(@, k)] EXCEPT ![p] = Append(@, t)]
  <2>1. Left(f, o, k) = [f EXCEPT ![o] = Abs!RemoveAt(@, k)]
    BY <1>3, CutIsRemoveAt DEF Left
  <2> QED BY <2>1 DEF Joined
<1>9. o \in Abs!Occupied
  BY <1>3, <1>6 DEF Abs!Occupied, Prio
<1>10. /\ k \in 1 .. Len(Fifos(rq)[o]) /\ Fifos(rq)[o][k] = t
       /\ Fifos(rq)' = [[Fifos(rq) EXCEPT ![o] = Abs!RemoveAt(@, k)]
                        EXCEPT ![p] = Append(@, t)]
  BY <1>3, <1>6, <1>8
<1> QED BY <1>5, <1>7, <1>9, <1>10 DEF Abs!Move

-----------------------------------------------------------------------------
\* The queue is empty to begin with.
LEMMA InitStep ==
  ASSUME Init
  PROVE  IInv /\ Abs!Init
<1> DEFINE q == [ size    |-> 0,
                  next_dq |-> 0,
                  arr     |-> [p \in Prio |-> NULL],
                  next    |-> [t \in Tid |-> NULL],
                  prev    |-> [t \in Tid |-> NULL],
                  prio    |-> [t \in Tid |-> 0] ]
           e == [p \in Prio |-> << >>]
<1>1. q \in PRIO_Q
  BY PrioNullAssumption, ShortSize DEF PRIO_Q, Link, Prio
<1>2. rq = pq_init(q) /\ out = NULL
  BY DEF Init
<1> HIDE DEF q
<1>3. pq_init(q) \in PRIO_Q /\ e \in [Prio -> Fifo] /\ Represents(pq_init(q), e)
  BY <1>1, EmptyRepresents
<1>4. Fifos(rq) = e
  BY <1>2, <1>3, FifosOfQueue
<1> QED BY <1>2, <1>3, <1>4 DEF IInv, Link, Abs!Init, Prio

\* Every call keeps the invariant and is a step of ReadyFifo.
LEMMA NextStep ==
  ASSUME IInv, [Next]_vars
  PROVE  IInv' /\ [Abs!Next]_<<Fifos(rq), out>>
<1>1. CASE Dequeue
  BY <1>1, DequeueStep DEF Abs!Next
<1>2. CASE \E t \in Tid : Remove(t)
  BY <1>2, RemoveStep DEF Abs!Next
<1>3. CASE \E t \in Tid, p \in Prio : Add(t, p)
  BY <1>3, AddStep DEF Abs!Next, Prio
<1>4. CASE \E t \in Tid, p \in Prio : Move(t, p)
  BY <1>4, MoveStep DEF Abs!Next, Prio
<1>5. CASE UNCHANGED vars
  BY <1>5 DEF vars, IInv
<1> QED BY <1>1, <1>2, <1>3, <1>4, <1>5 DEF Next

\* The pointers represent FIFOs for ever.
THEOREM Invariance == Spec => []IInv
<1>1. Init => IInv
  BY InitStep
<1>2. IInv /\ [Next]_vars => IInv'
  BY NextStep
<1> QED BY <1>1, <1>2, PTL DEF Spec

\* No field of the queue leaves its range (queue.c): size does not wrap.
THEOREM TypeCorrect == Spec => []TypeOK
<1>1. IInv => TypeOK
  BY DEF IInv, TypeOK
<1> QED BY <1>1, Invariance, PTL

\* After every call the lists of queue.c are disjoint, end, and are linked both
\* ways, size counts them and next_dq names the most urgent.
THEOREM WellFormedQueue == Spec => []QueueWellFormed
<1>1. IInv => QueueWellFormed
  BY WellFormedIff DEF IInv, QueueWellFormed
<1> QED BY <1>1, Invariance, PTL

\* queue.c under its callers' contract implements the priority FIFO.
THEOREM Refinement == Spec => ImplementsReadyFifo
<1>1. Init => Abs!Init
  BY InitStep
<1>2. IInv /\ [Next]_vars => [Abs!Next]_<<Fifos(rq), out>>
  BY NextStep
<1> QED BY <1>1, <1>2, Invariance, PTL DEF Spec, ImplementsReadyFifo, Abs!Spec
=============================================================================
