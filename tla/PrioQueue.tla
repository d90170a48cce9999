----------------------------- MODULE PrioQueue -----------------------------
(***************************************************************************)
(* The ready queue of the kernel: PRIO_Q and the functions of lib/queue.c. *)
(* The queue is intrusive.  arr[p] points to the first TCB of the FIFO of  *)
(* priority p, and the FIFO goes on through the next/prev fields of the    *)
(* TCBs themselves, so a TCB holds its links and its priority whether it   *)
(* is queued or not and nothing but those links says that it is queued.    *)
(*                                                                         *)
(* A queue value is a record with the three fields of PRIO_Q and the three *)
(* fields of the TCBs the functions read and write:                        *)
(*    size, next_dq, arr : PRIO_Q          next, prev, prio : per TCB      *)
(* The functions are operators from a queue value to the one they leave.   *)
(* Pointers to TCBs are task ids (the TCB table is indexed by them).       *)
(***************************************************************************)
EXTENDS Integers, Sequences, FiniteSets, FiniteSetsExt

CONSTANTS
  MAX_TASKS,   \* the number of TCBs (common.h: 160)
  PRIO_NULL,   \* the lowest priority, that of the null task (common.h: 255)
  NULL         \* the null pointer

\* The largest unsigned short.
USHRT_MAX == 65535

ASSUME MaxTasksAssumption == MAX_TASKS \in Nat /\ 2 <= MAX_TASKS /\ MAX_TASKS <= USHRT_MAX
ASSUME PrioNullAssumption == PRIO_NULL \in Nat /\ PRIO_NULL >= 2

Tid  == 0 .. MAX_TASKS - 1
Prio == 0 .. PRIO_NULL

ASSUME NullAssumption == NULL \notin Tid

Link == Tid \cup {NULL}

\* struct priority_q, with the fields of the TCBs that the queue is made of.
PRIO_Q == [ size    : 0 .. USHRT_MAX,
            next_dq : Prio,
            arr     : [Prio -> Link],
            next    : [Tid -> Link],
            prev    : [Tid -> Link],
            prio    : [Tid -> Prio] ]

\* unsigned short size: SIZE-- of an empty queue wraps around.
Dec16(n) == IF n = 0 THEN USHRT_MAX ELSE n - 1

(***************************************************************************)
(* The walk "while (p != NULL) p = p->next" from node h comes to node u:   *)
(* every set that holds h and is closed under next holds u.                *)
(***************************************************************************)
Reaches(q, h, u) ==
  \A S \in SUBSET Tid :
     (/\ h \in S
      /\ \A x \in S : q.next[x] \in S \cup {NULL}) => u \in S

\* The node at which the walk of pq_add_node stops.
LastFrom(q, h) == CHOOSE u \in Tid : q.next[u] = NULL /\ Reaches(q, h, u)

-----------------------------------------------------------------------------
pq_clear(q) == [q EXCEPT !.size = 0, !.next_dq = 0, !.arr = [p \in Prio |-> NULL]]

pq_init(q) == pq_clear([q EXCEPT !.size = 0, !.next_dq = 0])

pq_peek(q) == IF q.size = 0 THEN NULL ELSE q.arr[q.next_dq]

\* The only reason pq_add has to return RTX_ERR when its pointers are valid.
pq_full(q) == q.size = MAX_TASKS

\* Seeded fault: a node joins its FIFO at the front.
InsertAtFront(q, t) ==
  LET head == q.arr[q.prio[t]]
      q1   == [q EXCEPT !.arr[q.prio[t]] = t, !.next[t] = head, !.prev[t] = NULL]
  IN IF head = NULL THEN q1 ELSE [q1 EXCEPT !.prev[head] = t]

\* At the head, or behind the last node of the FIFO.
pq_add_node(q, t) ==
  LET head == q.arr[q.prio[t]]
      tail == LastFrom(q, head)
  IN IF head = NULL
     THEN [q EXCEPT !.arr[q.prio[t]] = t, !.next[t] = NULL, !.prev[t] = NULL]
     ELSE [q EXCEPT !.next = [@ EXCEPT ![tail] = t, ![t] = NULL],
                    !.prev[t] = tail]

\* Seeded fault: next_dq follows every task that opens a FIFO.
NextDqIsLatest(q, t) ==
  IF q.arr[q.prio[t]] = NULL THEN q.prio[t] ELSE q.next_dq

\* next_dq once t is added: the priority of t when the queue was empty or t is
\* the first of a FIFO more urgent than any other.
NextDqOnAdd(q, t) ==
  IF q.size = 0 \/ (q.arr[q.prio[t]] = NULL /\ q.prio[t] < q.next_dq)
  THEN q.prio[t] ELSE q.next_dq

pq_add(q, t) ==
  IF pq_full(q) THEN q
  ELSE [pq_add_node(q, t) EXCEPT !.next_dq = NextDqOnAdd(q, t),
                                 !.size    = (@ + 1) % (USHRT_MAX + 1)]

\* The priorities from "from" down whose FIFO is not empty.
NonEmpty(q, from) == {i \in from .. PRIO_NULL : q.arr[i] # NULL}

\* Seeded fault: a search that finds nothing stores its loop index.
SearchStoresIndex(q, from) ==
  IF NonEmpty(q, from) = {} THEN PRIO_NULL + 1 ELSE Min(NonEmpty(q, from))

\* The linear search of pq_dequeue and pq_remove; next_dq keeps its value if
\* every FIFO is empty.
FirstNonEmpty(q, from) ==
  IF NonEmpty(q, from) = {} THEN q.next_dq ELSE Min(NonEmpty(q, from))

\* The queue that pq_dequeue leaves; the TCB it returns is pq_peek(q).
\* The links of the TCB that leaves are not cleared.
pq_dequeue(q) ==
  IF q.size = 0 THEN q
  ELSE LET head == q.arr[q.next_dq]
           rest == q.next[head]
           q1   == [q EXCEPT !.arr[q.next_dq] = rest, !.size = Dec16(@)]
       IN IF rest = NULL
          THEN [q1 EXCEPT !.next_dq = FirstNonEmpty(q1, q.next_dq + 1)]
          ELSE [q1 EXCEPT !.prev[rest] = NULL]

\* Seeded fault: unlinking a middle node leaves the back link of its successor.
UnlinkForwardOnly(q, t) == [q EXCEPT !.next[q.prev[t]] = q.next[t]]

\* Case D of pq_remove: a node with a neighbour on both sides.
UnlinkMiddle(q, t) ==
  [q EXCEPT !.next[q.prev[t]] = q.next[t], !.prev[q.next[t]] = q.prev[t]]

\* pq_remove looks only at the links of t: it cannot tell a TCB that is not
\* queued (both links NULL) from one that is alone in its FIFO.
pq_remove(q, t) ==
  LET p  == q.prio[t]
      qa == [q EXCEPT !.arr[p] = NULL]
      qr == IF q.prev[t] = NULL /\ q.next[t] = NULL
              THEN [qa EXCEPT !.next_dq = FirstNonEmpty(qa, q.next_dq)]
            ELSE IF q.prev[t] = NULL
              THEN [q EXCEPT !.arr[p] = q.next[q.arr[p]], !.prev[q.next[t]] = NULL]
            ELSE IF q.next[t] = NULL
              THEN [q EXCEPT !.next[q.prev[t]] = NULL]
            ELSE UnlinkMiddle(q, t)
  IN [qr EXCEPT !.size = Dec16(@)]

\* The search of pq_move: t is on the FIFO of its priority.
Queued(q, t) == q.arr[q.prio[t]] # NULL /\ Reaches(q, q.arr[q.prio[t]], t)

\* pq_move changes nothing and returns RTX_ERR.
pq_move_err(q, dormant, p) == q.size = 0 \/ dormant \/ p >= PRIO_NULL

\* Seeded fault: a task that moves stays on its old FIFO.
MoveKeepsOld(q, t, dormant, p) ==
  IF pq_move_err(q, dormant, p) THEN q
  ELSE pq_add([q EXCEPT !.prio[t] = p, !.prev[t] = NULL, !.next[t] = NULL], t)

\* t leaves its FIFO if it is found there, and is added to the FIFO of priority
\* p in both cases.
pq_move(q, t, dormant, p) ==
  IF pq_move_err(q, dormant, p) THEN q
  ELSE LET q1 == IF Queued(q, t) THEN pq_remove(q, t) ELSE q
       IN pq_add([q1 EXCEPT !.prio[t] = p, !.prev[t] = NULL, !.next[t] = NULL], t)

=============================================================================
