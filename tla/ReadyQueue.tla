----------------------------- MODULE ReadyQueue -----------------------------
(***************************************************************************)
(* lib/queue.c in use: every sequence of calls its callers may make.  The  *)
(* contract of the callers is that only a task that is not queued is added *)
(* and only a queued one is moved or removed; under it the pointers always *)
(* spell out the FIFOs of ReadyFifo.  Kernel.tla says when k_task.c and    *)
(* k_msg.c keep to the contract.                                           *)
(***************************************************************************)
EXTENDS QueueLists

VARIABLES
  rq,    \* the PRIO_Q and the links and priorities of the TCBs
  out    \* the TCB the last pq_dequeue returned, or NULL

vars == <<rq, out>>

\* g_tcbs is cleared (k_tsk_init) and pq_init has run (k_mem_init).
Init ==
  /\ rq = pq_init([ size    |-> 0,
                    next_dq |-> 0,
                    arr     |-> [p \in Prio |-> NULL],
                    next    |-> [t \in Tid |-> NULL],
                    prev    |-> [t \in Tid |-> NULL],
                    prio    |-> [t \in Tid |-> 0] ])
  /\ out = NULL

\* A TCB that is not queued gets a priority and is added.
Add(t, p) ==
  /\ ~ Queued(rq, t)
  /\ rq' = pq_add([rq EXCEPT !.prio[t] = p], t)
  /\ out' = NULL

Dequeue ==
  /\ pq_peek(rq) # NULL
  /\ rq' = pq_dequeue(rq)
  /\ out' = pq_peek(rq)

Remove(t) ==
  /\ Queued(rq, t)
  /\ rq' = pq_remove(rq, t)
  /\ out' = NULL

Move(t, p) ==
  /\ Queued(rq, t)
  /\ ~ pq_move_err(rq, FALSE, p)
  /\ rq' = pq_move(rq, t, FALSE, p)
  /\ out' = NULL

Next ==
  \/ Dequeue
  \/ \E t \in Tid :
       \/ Remove(t)
       \/ \E p \in Prio : Add(t, p) \/ Move(t, p)

Spec == Init /\ [][Next]_vars

-----------------------------------------------------------------------------
\* Every field stays in its range (size never wraps, no link dangles).
TypeOK == rq \in PRIO_Q /\ out \in Link

\* The pointers always spell out one FIFO per priority (queue.c: pq_add,
\* pq_dequeue, pq_remove, pq_move): the lists end, share no task and are linked
\* both ways, size is their total length and next_dq the most urgent of them.
QueueWellFormed == WellFormed(rq)

\* The pointer operations are the FIFO operations of ReadyFifo: first in first
\* out within a priority and the most urgent priority first.
Abs == INSTANCE ReadyFifo WITH Task <- Tid, fifo <- Fifos(rq)

\* Every call of queue.c is one operation of ReadyFifo (README.md:76).
ImplementsReadyFifo == Abs!Spec
=============================================================================
