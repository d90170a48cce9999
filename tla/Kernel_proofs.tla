---------------------------- MODULE Kernel_proofs ----------------------------
(***************************************************************************)
(* Proofs about kernel/k_task.c and kernel/k_msg.c, first alone and then   *)
(* under the UART interrupts of kernel/HAL_CA.c, for any number of tasks   *)
(* and priorities and any capacity of the mailboxes, as long as no call    *)
(* lapses.  The ready queue is known through the FIFOs it represents       *)
(* (PrioQueue_proofs): by their members alone for the invariant and strict *)
(* priority, and by who precedes whom for the order in which tasks run.    *)
(* MCInterrupt names the property of the queue, which Interrupt cannot: it *)
(* does not know the FIFOs.                                                *)
(***************************************************************************)
EXTENDS MCInterrupt, PrioQueue_proofs

\* Queue q holds the tasks of the set M.
Holds(q, M) == \E f \in [Prio -> Fifo] : Represents(q, f) /\ Members(f) = M

\* The null task has the lowest priority and no other task shares it.
Ranked(q, st) ==
  /\ q.prio[TID_NULL] = PRIO_NULL
  /\ st[TID_NULL] \in {READY, RUNNING}
  /\ \A t \in Tid \ {TID_NULL} : st[t] # DORMANT => q.prio[t] < PRIO_NULL

\* Between two calls, with cur running: queue q holds the READY tasks and the
\* null task, and of the others only cur is RUNNING.
Standing(q, st, cur) ==
  /\ q \in PRIO_Q /\ st \in [Tid -> States]
  /\ Ranked(q, st)
  /\ Holds(q, {t \in Tid : st[t] = READY} \cup {TID_NULL})
  /\ \A t \in Tid \ {TID_NULL} : st[t] = RUNNING <=> t = cur

\* What the scheduler may find when cur calls it: cur has been queued, whatever
\* its state says, or it has exited or waits.
CanRun(q, st, cur) ==
  /\ q \in PRIO_Q /\ st \in [Tid -> States]
  /\ Ranked(q, st)
  /\ Holds(q, {t \in Tid : st[t] \in {READY, RUNNING}} \cup {TID_NULL})
  /\ \A t \in Tid \ {TID_NULL} : st[t] = RUNNING => t = cur

\* Task states that differ only in who is ready and who runs.
SameKinds(st, st2) ==
  \A t \in Tid : /\ st[t] = DORMANT <=> st2[t] = DORMANT
                 /\ st[t] = BLK_MSG <=> st2[t] = BLK_MSG

-----------------------------------------------------------------------------
(* The scheduler.                                                          *)

\* The constants are what they should be: two slots, and two priorities for tasks.
LEMMA Ids ==
  /\ TID_NULL \in Tid /\ TID_KCD \in Tid /\ TID_KCD # TID_NULL
  /\ MAX_TASKS \in Nat /\ MAX_TASKS >= 2
  /\ PRIO_NULL \in Nat /\ PRIO_NULL >= 2 /\ PRIO_NULL \in Prio
  /\ NULL \notin Tid
  /\ TaskPrio \subseteq Prio
  /\ \A p \in TaskPrio : p < PRIO_NULL
BY MaxTasksAssumption, PrioNullAssumption, NullAssumption
   DEF TID_NULL, TID_KCD, Tid, Prio, TaskPrio, PRIO_RT

\* Priorities are numbers.
LEMMA PrioOf ==
  ASSUME NEW q \in PRIO_Q, NEW t \in Tid
  PROVE  q.prio[t] \in Prio /\ q.prio[t] \in Nat /\ q.prio[t] <= PRIO_NULL
<1>1. q.prio \in [Tid -> Prio]
  BY DEF PRIO_Q
<1> QED
  BY <1>1, Ids DEF Prio

\* pq_add of a task that is not on the queue.
LEMMA AddHolds ==
  ASSUME NEW q \in PRIO_Q, NEW M, Holds(q, M), NEW t \in Tid, t \notin M
  PROVE  /\ ~ pq_full(q)
         /\ pq_add(q, t) \in PRIO_Q
         /\ pq_add(q, t).prio = q.prio
         /\ Holds(pq_add(q, t), M \cup {t})
<1>1. PICK f \in [Prio -> Fifo] : Represents(q, f) /\ Members(f) = M
  BY DEF Holds
<1>2. ~ pq_full(q)
  BY <1>1, RoomForNonMember
<1>3. /\ pq_add(q, t) \in PRIO_Q
      /\ pq_add(q, t).prio = q.prio
      /\ Joined(f, q.prio[t], t) \in [Prio -> Fifo]
      /\ Represents(pq_add(q, t), Joined(f, q.prio[t], t))
      /\ Members(Joined(f, q.prio[t], t)) = M \cup {t}
  BY <1>1, AddRepresents
<1> QED
  BY <1>2, <1>3 DEF Holds

\* The head of a queue that is not empty, and what pq_dequeue leaves.
LEMMA HeadHolds ==
  ASSUME NEW q \in PRIO_Q, NEW M, Holds(q, M), M # {}
  PROVE  LET h == pq_peek(q)
         IN /\ h \in M /\ h \in Tid
            /\ q.prio[h] = q.next_dq
            /\ \A t \in M : q.prio[h] <= q.prio[t]
            /\ pq_dequeue(q) \in PRIO_Q
            /\ pq_dequeue(q).prio = q.prio
            /\ Holds(pq_dequeue(q), M \ {h})
<1>1. PICK f \in [Prio -> Fifo] : Represents(q, f) /\ Members(f) = M
  BY DEF Holds
<1>2. /\ pq_peek(q) \in Tid /\ pq_peek(q) \in Members(f)
      /\ q.prio[pq_peek(q)] = q.next_dq
      /\ \A t \in Members(f) : q.prio[pq_peek(q)] <= q.prio[t]
  BY <1>1, PeekOfNonEmpty
<1>3. /\ pq_dequeue(q) \in PRIO_Q
      /\ pq_dequeue(q).prio = q.prio
      /\ Left(f, q.next_dq, 1) \in [Prio -> Fifo]
      /\ Represents(pq_dequeue(q), Left(f, q.next_dq, 1))
      /\ Members(Left(f, q.next_dq, 1)) = Members(f) \ {pq_peek(q)}
  BY <1>1, DequeueRepresents
<1> QED
  BY <1>1, <1>2, <1>3 DEF Holds

\* k_tsk_run_new leaves the processor with a task as urgent as any, RUNNING and
\* off the queue, and everybody else that is ready on the queue.
LEMMA RunNew ==
  ASSUME NEW q, NEW st, gp_current_task \in Tid,
         CanRun(q, st, gp_current_task), run_new(q, st)
  PROVE  /\ gp_current_task' \in Tid
         /\ Standing(rq', state', gp_current_task')
         /\ rq'.prio = q.prio
         /\ SameKinds(state', st)
         /\ \A t \in Tid : state'[t] = READY =>
              rq'.prio[gp_current_task'] <= rq'.prio[t]
<1> DEFINE M    == {t \in Tid : st[t] \in {READY, RUNNING}} \cup {TID_NULL}
           cur  == gp_current_task
           idle == q.next_dq = PRIO_NULL
           new  == pq_peek(q)
           s1   == IF idle THEN st ELSE [st EXCEPT ![new] = RUNNING]
           s2   == SwitchedOut(s1, new)
<1>1. /\ q \in PRIO_Q /\ st \in [Tid -> States]
      /\ Ranked(q, st)
      /\ Holds(q, M)
      /\ \A t \in Tid \ {TID_NULL} : st[t] = RUNNING => t = cur
  BY DEF CanRun
<1>2. M # {} /\ \A t \in M : t \in Tid
  BY Ids
<1>3. /\ gp_current_task' = new
      /\ rq' = IF idle THEN q ELSE pq_dequeue(q)
      /\ state' = s2
  BY DEF run_new
<1>4. /\ new \in M /\ new \in Tid
      /\ q.prio[new] = q.next_dq
      /\ \A t \in M : q.prio[new] <= q.prio[t]
      /\ pq_dequeue(q) \in PRIO_Q
      /\ pq_dequeue(q).prio = q.prio
      /\ Holds(pq_dequeue(q), M \ {new})
  <2> HIDE DEF M, new
  <2> QED
    BY <1>1, <1>2, HeadHolds DEF new
<1>5. \A t \in Tid : t \in M <=> st[t] \in {READY, RUNNING} \/ t = TID_NULL
  BY Ids
<1> HIDE DEF M, new
<1>6. \A t \in M \ {TID_NULL} : q.prio[t] < PRIO_NULL
  BY <1>1, <1>2, <1>5 DEF Ranked, DORMANT, READY, RUNNING
<1>7. idle <=> new = TID_NULL
  <2>1. new = TID_NULL => idle
    BY <1>1, <1>4 DEF Ranked
  <2>2. new # TID_NULL => q.next_dq < PRIO_NULL
    BY <1>4, <1>6
  <2>3. PRIO_NULL \in Nat
    BY Ids
  <2> QED
    BY <2>1, <2>2, <2>3
<1>8. idle => M = {TID_NULL}
  <2> SUFFICES ASSUME idle, NEW t \in M, t # TID_NULL PROVE FALSE
    BY <1>5, Ids
  <2>1. q.prio[t] < PRIO_NULL /\ q.prio[new] <= q.prio[t] /\ q.prio[new] = PRIO_NULL
    BY <1>4, <1>6
  <2>2. q.prio[t] \in Nat /\ PRIO_NULL \in Nat
    BY <1>1, <1>2, PrioOf, Ids
  <2> QED
    BY <2>1, <2>2
<1> HIDE DEF idle
<1>9. rq' \in PRIO_Q /\ rq'.prio = q.prio
  BY <1>1, <1>3, <1>4
<1>10. s1 \in [Tid -> States] /\ s2 \in [Tid -> States]
  BY <1>1, <1>4 DEF SwitchedOut, States
<1>11. \A t \in Tid : s1[t] = IF t = new /\ ~ idle THEN RUNNING ELSE st[t]
  BY <1>1, <1>4
<1>12. \A t \in Tid : s2[t] = IF t = cur /\ new # cur /\ s1[cur] \notin {DORMANT, BLK_MSG}
                              THEN READY ELSE s1[t]
  <2> HIDE DEF s1
  <2> QED
    BY <1>10 DEF SwitchedOut
<1> HIDE DEF s1, s2
<1>13. \A t \in Tid : /\ st[t] = DORMANT <=> s2[t] = DORMANT
                      /\ st[t] = BLK_MSG <=> s2[t] = BLK_MSG
  <2> SUFFICES ASSUME NEW t \in Tid
               PROVE  /\ st[t] = DORMANT <=> s2[t] = DORMANT
                      /\ st[t] = BLK_MSG <=> s2[t] = BLK_MSG
    OBVIOUS
  <2>1. t = new /\ ~ idle => st[t] \in {READY, RUNNING}
    BY <1>4, <1>5, <1>7
  <2> QED
    BY <2>1, <1>11, <1>12 DEF DORMANT, READY, RUNNING, BLK_MSG
<1>14. \A t \in Tid \ {TID_NULL} : s2[t] = RUNNING <=> t = new
  <2> SUFFICES ASSUME NEW t \in Tid \ {TID_NULL} PROVE s2[t] = RUNNING <=> t = new
    OBVIOUS
  <2>1. CASE t = new
    BY <2>1, <1>7, <1>11, <1>12 DEF READY, RUNNING
  <2>2. CASE t # new /\ t = cur
    BY <2>2, <1>1, <1>11, <1>12 DEF READY, RUNNING, DORMANT, BLK_MSG
  <2>3. CASE t # new /\ t # cur
    BY <2>3, <1>1, <1>11, <1>12
  <2> QED
    BY <2>1, <2>2, <2>3
<1>15. s2[TID_NULL] \in {READY, RUNNING}
  <2>1. st[TID_NULL] \in {READY, RUNNING}
    BY <1>1 DEF Ranked
  <2> QED
    BY <2>1, <1>11, <1>12, Ids
<1>16. \A t \in Tid \ {TID_NULL} : s2[t] = READY <=> t \in M /\ t # new
  <2> SUFFICES ASSUME NEW t \in Tid \ {TID_NULL}
               PROVE  s2[t] = READY <=> t \in M /\ t # new
    OBVIOUS
  <2>1. s2[t] \in States
    BY <1>10
  <2>2. t \in M <=> s2[t] \in {READY, RUNNING}
    BY <2>1, <1>1, <1>5, <1>13 DEF States
  <2> QED
    BY <2>2, <1>14 DEF READY, RUNNING
<1>17. Holds(rq', {t \in Tid : s2[t] = READY} \cup {TID_NULL})
  <2> DEFINE N == {t \in Tid : s2[t] = READY} \cup {TID_NULL}
  <2>1. CASE idle
    <3>1. N = M
      BY <2>1, <1>8, <1>16, <1>5
    <3> QED
      BY <3>1, <2>1, <1>1, <1>3
  <2>2. CASE ~ idle
    <3>1. N = M \ {new}
      BY <2>2, <1>2, <1>5, <1>7, <1>16, Ids
    <3> QED
      BY <3>1, <2>2, <1>3, <1>4
  <2> QED
    BY <2>1, <2>2
<1>18. Ranked(rq', s2)
  BY <1>1, <1>9, <1>13, <1>15 DEF Ranked
<1>19. \A t \in Tid : s2[t] = READY => rq'.prio[new] <= rq'.prio[t]
  <2> SUFFICES ASSUME NEW t \in Tid, s2[t] = READY PROVE q.prio[new] <= q.prio[t]
    BY <1>9
  <2>1. t \in M
    BY <1>5, <1>16
  <2> QED
    BY <2>1, <1>4
<1> QED
  BY <1>3, <1>4, <1>9, <1>10, <1>13, <1>14, <1>17, <1>18, <1>19 DEF Standing, SameKinds

-----------------------------------------------------------------------------
(* What the calls hand to the scheduler.                                   *)

\* The caller has been put back on the queue.
LEMMA PutBackCanRun ==
  ASSUME NEW q, NEW st, NEW cur \in Tid \ {TID_NULL}, Standing(q, st, cur)
  PROVE  ~ pq_full(q) /\ CanRun(pq_add(q, cur), st, cur)
<1> DEFINE M == {t \in Tid : st[t] = READY} \cup {TID_NULL}
           N == {t \in Tid : st[t] \in {READY, RUNNING}} \cup {TID_NULL}
           a == pq_add(q, cur)
<1>1. q \in PRIO_Q /\ Holds(q, M) /\ st[cur] = RUNNING
  BY DEF Standing
<1>2. cur \notin M /\ cur \in Tid
  BY <1>1 DEF READY, RUNNING
<1>3. N = M \cup {cur}
  BY <1>1, <1>2, Ids DEF Standing
<1> HIDE DEF M, N
<1>4. ~ pq_full(q) /\ a \in PRIO_Q /\ a.prio = q.prio /\ Holds(a, M \cup {cur})
  BY <1>1, <1>2, AddHolds
<1>5. Ranked(a, st)
  BY <1>4 DEF Standing, Ranked
<1>6. Holds(a, N)
  BY <1>3, <1>4
<1> HIDE DEF a
<1> QED
  BY <1>4, <1>5, <1>6 DEF Standing, CanRun, N, a

\* The null task calls: it is on the queue.
LEMMA NullCanRun ==
  ASSUME NEW q, NEW st, Standing(q, st, TID_NULL)
  PROVE  CanRun(q, st, TID_NULL)
<1>1. {t \in Tid : st[t] \in {READY, RUNNING}} \cup {TID_NULL}
        = {t \in Tid : st[t] = READY} \cup {TID_NULL}
  BY DEF Standing
<1>2. \A t \in Tid \ {TID_NULL} : st[t] = RUNNING => t = TID_NULL
  BY DEF Standing
<1> QED
  BY <1>1, <1>2 DEF Standing, CanRun

\* The caller exits, or waits for a message.
LEMMA LeaveCanRun ==
  ASSUME NEW q, NEW st, NEW cur \in Tid \ {TID_NULL}, Standing(q, st, cur),
         NEW k \in {DORMANT, BLK_MSG}
  PROVE  CanRun(q, [st EXCEPT ![cur] = k], cur)
<1> DEFINE s2 == [st EXCEPT ![cur] = k]
<1>1. st \in [Tid -> States] /\ k \in States /\ k \notin {READY, RUNNING}
  BY DEF Standing, States, DORMANT, READY, RUNNING, BLK_MSG
<1>2. s2 \in [Tid -> States] /\ \A t \in Tid : s2[t] = IF t = cur THEN k ELSE st[t]
  BY <1>1
<1> HIDE DEF s2
<1>3. {t \in Tid : s2[t] \in {READY, RUNNING}} \cup {TID_NULL}
        = {t \in Tid : st[t] = READY} \cup {TID_NULL}
  <2> SUFFICES ASSUME NEW t \in Tid \ {TID_NULL}
               PROVE  s2[t] \in {READY, RUNNING} <=> st[t] = READY
    OBVIOUS
  <2> QED
    BY <1>1, <1>2 DEF Standing, READY, RUNNING
<1>4. Ranked(q, s2)
  <2>1. st[cur] # DORMANT
    BY DEF Standing, DORMANT, RUNNING
  <2> QED
    BY <1>2, <2>1, Ids DEF Standing, Ranked
<1>5. \A t \in Tid \ {TID_NULL} : s2[t] = RUNNING => t = cur
  BY <1>2 DEF Standing
<1> QED
  BY <1>2, <1>3, <1>4, <1>5 DEF Standing, CanRun, s2

\* A task that was not on the queue becomes READY and joins it.
LEMMA ArriveStanding ==
  ASSUME NEW q, NEW st, NEW cur, Standing(q, st, cur),
         NEW t \in Tid \ {TID_NULL}, st[t] \in {DORMANT, BLK_MSG}, q.prio[t] < PRIO_NULL
  PROVE  /\ ~ pq_full(q)
         /\ Standing(pq_add(q, t), [st EXCEPT ![t] = READY], cur)
         /\ pq_add(q, t).prio = q.prio
<1> DEFINE M == {u \in Tid : st[u] = READY} \cup {TID_NULL}
           s2 == [st EXCEPT ![t] = READY]
           N == {u \in Tid : s2[u] = READY} \cup {TID_NULL}
           a == pq_add(q, t)
<1>1. q \in PRIO_Q /\ Holds(q, M) /\ st \in [Tid -> States]
  BY DEF Standing
<1>2. t \notin M
  BY DEF DORMANT, BLK_MSG, READY
<1>3. s2 \in [Tid -> States] /\ \A u \in Tid : s2[u] = IF u = t THEN READY ELSE st[u]
  BY <1>1 DEF States
<1> HIDE DEF s2
<1>4. N = M \cup {t}
  BY <1>3
<1> HIDE DEF M, N
<1>5. ~ pq_full(q) /\ a \in PRIO_Q /\ a.prio = q.prio /\ Holds(a, M \cup {t})
  BY <1>1, <1>2, AddHolds
<1>6. Ranked(a, s2)
  BY <1>3, <1>5, Ids DEF Standing, Ranked
<1>7. \A u \in Tid \ {TID_NULL} : s2[u] = RUNNING <=> u = cur
  BY <1>3 DEF Standing, DORMANT, READY, RUNNING, BLK_MSG
<1>8. Holds(a, N)
  BY <1>4, <1>5
<1> HIDE DEF a
<1> QED
  BY <1>3, <1>5, <1>6, <1>7, <1>8 DEF Standing, N, s2, a

\* The queue with another priority, and with other links too, in the TCB of t.
Reprioed(q, t, p) == [q EXCEPT !.prio[t] = p]

Relinked(q, t, p) == [q EXCEPT !.next[t] = NULL, !.prev[t] = NULL, !.prio[t] = p]

\* The priority, and the links, of a task that is not on the queue change.
LEMMA ReprioStanding ==
  ASSUME NEW q, NEW st, NEW cur, Standing(q, st, cur),
         NEW t \in Tid \ {TID_NULL}, st[t] # READY, NEW p \in TaskPrio
  PROVE  /\ Standing(Reprioed(q, t, p), st, cur) /\ Reprioed(q, t, p).prio[t] = p
         /\ Standing(Relinked(q, t, p), st, cur) /\ Relinked(q, t, p).prio[t] = p
         /\ pq_full(Reprioed(q, t, p)) = pq_full(q)
<1> DEFINE M == {u \in Tid : st[u] = READY} \cup {TID_NULL}
           r == [q EXCEPT !.prio[t] = p]
           x == [q EXCEPT !.next[t] = NULL, !.prev[t] = NULL, !.prio[t] = p]
           y == [q EXCEPT !.prio[t] = p, !.prev[t] = NULL, !.next[t] = NULL]
<1>1. q \in PRIO_Q /\ p \in Prio /\ p < PRIO_NULL
  BY Ids DEF Standing
<1>2. PICK f \in [Prio -> Fifo] : Represents(q, f) /\ Members(f) = M
  BY DEF Standing, Holds
<1>3. t \notin Members(f)
  BY <1>2
<1>4. r \in PRIO_Q /\ r.prio = [q.prio EXCEPT ![t] = p] /\ Represents(r, f)
  BY <1>1, <1>2, <1>3, ReprioRepresents
<1>5. y \in PRIO_Q /\ y.prio = [q.prio EXCEPT ![t] = p] /\ Represents(y, f)
  BY <1>1, <1>2, <1>3, RelinkRepresents
<1>6. x = y
  BY <1>1 DEF PRIO_Q
<1>7. q.prio \in [Tid -> Prio]
  BY <1>1 DEF PRIO_Q
<1> HIDE DEF x, y, r, M
<1>8. ASSUME NEW z \in PRIO_Q, z.prio = [q.prio EXCEPT ![t] = p], Represents(z, f)
      PROVE  Standing(z, st, cur) /\ z.prio[t] = p
  <2>1. Holds(z, M)
    BY <1>2, <1>8 DEF Holds
  <2>2. \A u \in Tid : z.prio[u] = IF u = t THEN p ELSE q.prio[u]
    BY <1>7, <1>8
  <2>3. Ranked(z, st)
    BY <1>1, <2>2, Ids DEF Standing, Ranked
  <2> QED
    BY <2>1, <2>2, <2>3 DEF Standing, M
<1>9. Standing(r, st, cur) /\ r.prio[t] = p
  BY <1>4, <1>8
<1>10. Standing(x, st, cur) /\ x.prio[t] = p
  BY <1>5, <1>6, <1>8
<1>11. pq_full(r) = pq_full(q)
  <2>1. r.size = q.size
    BY <1>1 DEF r, PRIO_Q
  <2> QED
    BY <2>1 DEF pq_full
<1>12. r = Reprioed(q, t, p) /\ x = Relinked(q, t, p)
  BY DEF r, x, Reprioed, Relinked
<1> QED
  BY <1>9, <1>10, <1>11, <1>12

\* pq_move of a task that is READY.
LEMMA MoveStanding ==
  ASSUME NEW q, NEW st, NEW cur, Standing(q, st, cur),
         NEW t \in Tid \ {TID_NULL}, st[t] = READY, NEW p \in TaskPrio,
         NEW dormant \in BOOLEAN, ~ pq_move_err(q, dormant, p)
  PROVE  Standing(pq_move(q, t, dormant, p), st, cur)
<1> DEFINE M == {u \in Tid : st[u] = READY} \cup {TID_NULL}
           m == Moved(q, t, p)
<1>1. q \in PRIO_Q /\ p \in Prio /\ p < PRIO_NULL /\ t \in Tid
  BY Ids DEF Standing
<1>2. PICK f \in [Prio -> Fifo] : Represents(q, f) /\ Members(f) = M
  BY DEF Standing, Holds
<1>3. t \in Members(f)
  BY <1>2
<1>4. q.prio[t] \in Prio /\ t \in Elems(f[q.prio[t]])
  BY <1>2, <1>3, MemberOfList
<1>5. PICK k \in 1 .. Len(f[q.prio[t]]) : t = f[q.prio[t]][k]
  BY <1>4 DEF Elems
<1> DEFINE h == Joined(Left(f, q.prio[t], k), p, t)
<1> HIDE DEF M
<1>6. /\ m \in PRIO_Q
      /\ \A u \in Tid : m.prio[u] = IF u = t THEN p ELSE q.prio[u]
      /\ h \in [Prio -> Fifo]
      /\ Represents(m, h)
      /\ Members(h) = Members(f)
  BY <1>1, <1>2, <1>5, MovedRepresents
<1> HIDE DEF m, h
<1>7. Holds(m, M)
  BY <1>2, <1>6 DEF Holds
<1>8. Ranked(m, st)
  BY <1>1, <1>6, Ids DEF Standing, Ranked
<1> QED
  <2>1. pq_move(q, t, dormant, p) = Moved(q, t, p)
    BY <1>1, <1>2, <1>3, MoveIsMoved
  <2>2. Standing(Moved(q, t, p), st, cur)
    BY <1>6, <1>7, <1>8 DEF Standing, M, m
  <2> QED
    BY <2>1, <2>2

\* A send that gives way: the sender and then the receiver join the queue.
LEMMA SendCanRun ==
  ASSUME NEW q, NEW st, NEW cur \in Tid \ {TID_NULL}, Standing(q, st, cur),
         NEW r \in Tid \ {TID_NULL}, st[r] = BLK_MSG
  PROVE  CanRun(pq_add(pq_add(q, cur), r), [[st EXCEPT ![r] = READY] EXCEPT ![cur] = READY], cur)
<1> DEFINE M == {u \in Tid : st[u] = READY} \cup {TID_NULL}
           s2 == [[st EXCEPT ![r] = READY] EXCEPT ![cur] = READY]
           N == {u \in Tid : s2[u] \in {READY, RUNNING}} \cup {TID_NULL}
           a == pq_add(q, cur)
           b == pq_add(a, r)
<1>1. q \in PRIO_Q /\ Holds(q, M) /\ st \in [Tid -> States]
      /\ st[cur] = RUNNING
      /\ \A u \in Tid \ {TID_NULL} : st[u] = RUNNING <=> u = cur
  BY DEF Standing
<1>2. cur \notin M /\ r \notin M /\ r # cur
  BY <1>1 DEF READY, RUNNING, BLK_MSG
<1>3. s2 \in [Tid -> States] /\ \A u \in Tid : s2[u] = IF u \in {r, cur} THEN READY ELSE st[u]
  BY <1>1 DEF States
<1> HIDE DEF s2
<1>4. N = (M \cup {cur}) \cup {r}
  <2>1. \A u \in Tid \ {TID_NULL} : s2[u] \in {READY, RUNNING} <=> u \in M \/ u = cur \/ u = r
    BY <1>1, <1>3
  <2> QED
    BY <2>1, Ids
<1> HIDE DEF M, N
<1>5. a \in PRIO_Q /\ a.prio = q.prio /\ Holds(a, M \cup {cur})
  BY <1>1, <1>2, AddHolds
<1> HIDE DEF a
<1>6. b \in PRIO_Q /\ b.prio = a.prio /\ Holds(b, (M \cup {cur}) \cup {r})
  BY <1>2, <1>5, AddHolds
<1>7. Ranked(b, s2)
  <2>1. b.prio = q.prio
    BY <1>5, <1>6
  <2>2. /\ q.prio[TID_NULL] = PRIO_NULL
        /\ st[TID_NULL] \in {READY, RUNNING}
        /\ \A t \in Tid \ {TID_NULL} : st[t] # DORMANT => q.prio[t] < PRIO_NULL
    BY DEF Standing, Ranked
  <2>3. st[cur] # DORMANT /\ st[r] # DORMANT
    BY <1>1 DEF DORMANT, RUNNING, BLK_MSG
  <2> HIDE DEF b
  <2> QED
    BY <2>1, <2>2, <2>3, <1>3, Ids DEF Ranked
<1>8. \A u \in Tid \ {TID_NULL} : s2[u] = RUNNING => u = cur
  BY <1>1, <1>3 DEF READY, RUNNING
<1>9. Holds(b, N)
  BY <1>4, <1>6
<1> HIDE DEF b
<1> QED
  BY <1>3, <1>6, <1>7, <1>8, <1>9 DEF CanRun, N, s2, a, b

-----------------------------------------------------------------------------
(* The invariant.                                                          *)

\* A task that waits for a message has an empty mailbox; one that was woken, and
\* has yet to read, has a message.
Waiting(st, mb, ct) ==
  /\ mb \in [Tid -> {NULL} \cup 0 .. MBX_CAP]
  /\ ct \in [Tid -> {"none"} \cup Reads]
  /\ \A t \in Tid : st[t] = BLK_MSG => mb[t] = 0 /\ ct[t] # "none"
  /\ \A t \in Tid : ct[t] # "none" => /\ t # TID_NULL
                                      /\ st[t] # DORMANT
                                      /\ st[t] # BLK_MSG => mb[t] \in 1 .. MBX_CAP

Alive(st) == {t \in Tid : st[t] # DORMANT}

Stacked(st, us) == {t \in Tid : us[t] = "heap" /\ st[t] # DORMANT}

Boxed(st, mb) == {t \in Tid : mb[t] # NULL /\ st[t] # DORMANT}

\* The user tasks have stacks, and the two counters count.
Counted(st, pr, us, mb, n, k) ==
  /\ pr \in [Tid -> BOOLEAN]
  /\ us \in [Tid -> Stacks]
  /\ \A t \in Tid : st[t] # DORMANT => us[t] = IF pr[t] THEN "none" ELSE "heap"
  /\ n = Cardinality(Alive(st))
  /\ k = Cardinality(Stacked(st, us)) + Cardinality(Boxed(st, mb))

\* The boot loop fills the slots in order, and there are slots left for what it
\* has still to create; if the KCD is among that, its own is one of them.
Booting(st, b) ==
  /\ b \in [left : 0 .. MAX_TASKS - 1, j : 1 .. MAX_TASKS]
  /\ b.left > 0 =>
       /\ b.j + b.left <= MAX_TASKS
       /\ st[TID_KCD] # DORMANT => b.j + b.left < MAX_TASKS
       /\ \A t \in Tid : b.j <= t /\ t < TID_KCD => st[t] = DORMANT

Data(st) ==
  /\ Waiting(st, mailbox, cont)
  /\ Counted(st, priv, ustack, mailbox, g_num_active_tasks, kblocks)
  /\ Booting(st, boot)

KInv ==
  /\ gp_current_task \in Tid
  /\ Standing(rq, state, gp_current_task)
  /\ Data(state)

\* The new current task, if there is one, is as urgent as any that is ready.
UrgentSwitch ==
  gp_current_task' # gp_current_task =>
    \A t \in Tid : state'[t] = READY => rq'.prio[gp_current_task'] <= rq'.prio[t]

\* What follows a call sees of the task states only who is DORMANT or waits.
LEMMA KindsKeepData ==
  ASSUME NEW st, NEW st2, SameKinds(st2, st),
         NEW mb, NEW ct, NEW pr, NEW us, NEW n, NEW k, NEW b,
         Waiting(st, mb, ct), Counted(st, pr, us, mb, n, k), Booting(st, b)
  PROVE  Waiting(st2, mb, ct) /\ Counted(st2, pr, us, mb, n, k) /\ Booting(st2, b)
<1>1. \A t \in Tid : (st2[t] = DORMANT <=> st[t] = DORMANT) /\ (st2[t] = BLK_MSG <=> st[t] = BLK_MSG)
  BY DEF SameKinds
<1>2. Waiting(st2, mb, ct)
  BY <1>1 DEF Waiting
<1>3. Alive(st2) = Alive(st) /\ Stacked(st2, us) = Stacked(st, us) /\ Boxed(st2, mb) = Boxed(st, mb)
  BY <1>1 DEF Alive, Stacked, Boxed
<1>4. Counted(st2, pr, us, mb, n, k)
  BY <1>1, <1>3 DEF Counted
<1>5. Booting(st2, b)
  BY <1>1, Ids DEF Booting
<1> QED
  BY <1>2, <1>4, <1>5

\* A call that ends in the scheduler.
LEMMA Dispatch ==
  ASSUME NEW q, NEW st, gp_current_task \in Tid,
         CanRun(q, st, gp_current_task), run_new(q, st),
         Waiting(st, mailbox', cont'),
         Counted(st, priv', ustack', mailbox', g_num_active_tasks', kblocks'),
         Booting(st, boot')
  PROVE  KInv' /\ UrgentSwitch
<1>1. /\ gp_current_task' \in Tid
      /\ Standing(rq', state', gp_current_task')
      /\ SameKinds(state', st)
      /\ \A t \in Tid : state'[t] = READY => rq'.prio[gp_current_task'] <= rq'.prio[t]
  BY RunNew
<1>2. Data(state)'
  BY <1>1, KindsKeepData DEF Data
<1> QED
  BY <1>1, <1>2 DEF KInv, UrgentSwitch

\* A call after which the caller goes on.
LEMMA GoOn ==
  ASSUME gp_current_task \in Tid,
         Standing(rq', state', gp_current_task), Data(state)', UNCHANGED gp_current_task
  PROVE  KInv' /\ UrgentSwitch
BY DEF KInv, UrgentSwitch

\* A call that requeues the caller.
LEMMA RequeueKeeps ==
  ASSUME NEW q, NEW st, gp_current_task \in Tid \ {TID_NULL},
         Standing(q, st, gp_current_task), Requeue(q, st),
         Waiting(st, mailbox', cont'),
         Counted(st, priv', ustack', mailbox', g_num_active_tasks', kblocks'),
         Booting(st, boot')
  PROVE  KInv' /\ UrgentSwitch
<1>1. ~ pq_full(q) /\ CanRun(pq_add(q, gp_current_task), st, gp_current_task)
  BY PutBackCanRun
<1>2. run_new(pq_add(q, gp_current_task), st)
  BY <1>1 DEF Requeue
<1> QED
  BY <1>1, <1>2, Dispatch

\* What a running task can be.
LEMMA CallerIs ==
  ASSUME KInv, Calls
  PROVE  /\ gp_current_task \in Tid \ {TID_NULL}
         /\ state[gp_current_task] = RUNNING
         /\ cont[gp_current_task] = "none"
         /\ boot.left = 0
BY DEF KInv, Calls, Running, Standing

\* The boot loop is over for good.
LEMMA BootOver ==
  ASSUME NEW st, NEW b, Booting(st, b), b.left = 0, NEW st2
  PROVE  Booting(st2, b)
BY DEF Booting

-----------------------------------------------------------------------------
(* k_tsk_yield and k_tsk_set_prio.                                         *)

\* k_tsk_yield: the caller goes back to the queue, except the null task, which
\* never left it.
LEMMA YieldKeeps ==
  ASSUME KInv, Yield
  PROVE  KInv' /\ UrgentSwitch
<1>1. /\ gp_current_task \in Tid
      /\ Standing(rq, state, gp_current_task)
      /\ Waiting(state, mailbox', cont')
      /\ Counted(state, priv', ustack', mailbox', g_num_active_tasks', kblocks')
      /\ Booting(state, boot')
  BY DEF KInv, Data, Yield, TaskData
<1>2. CASE gp_current_task = TID_NULL
  <2>1. CanRun(rq, state, gp_current_task) /\ run_new(rq, state)
    BY <1>1, <1>2, NullCanRun DEF Yield
  <2> QED
    BY <1>1, <2>1, Dispatch
<1>3. CASE gp_current_task # TID_NULL
  <2>1. /\ CanRun(pq_add(rq, gp_current_task), state, gp_current_task)
        /\ run_new(pq_add(rq, gp_current_task), state)
    BY <1>1, <1>3, PutBackCanRun DEF Yield
  <2> QED
    BY <1>1, <2>1, Dispatch
<1> QED
  BY <1>2, <1>3

\* The caller is on no FIFO while its priority changes.
LEMMA SetOwnPrioKeeps ==
  ASSUME KInv, NEW p \in TaskPrio, SetOwnPrio(p)
  PROVE  KInv' /\ UrgentSwitch
<1> DEFINE q == Reprioed(rq, gp_current_task, p)
<1>1. gp_current_task \in Tid \ {TID_NULL} /\ state[gp_current_task] = RUNNING
  BY CallerIs DEF SetOwnPrio
<1>2. Standing(q, state, gp_current_task)
  <2>1. Standing(rq, state, gp_current_task)
    BY DEF KInv
  <2>2. state[gp_current_task] # READY
    BY <1>1 DEF READY, RUNNING
  <2> QED
    BY <1>1, <2>1, <2>2, ReprioStanding
<1>3. /\ Waiting(state, mailbox', cont')
      /\ Counted(state, priv', ustack', mailbox', g_num_active_tasks', kblocks')
      /\ Booting(state, boot')
  BY DEF KInv, Data, SetOwnPrio, TaskData
<1>4. \/ Requeue(q, state)
      \/ rq' = q /\ UNCHANGED <<state, gp_current_task>>
  BY DEF SetOwnPrio, Reprioed
<1> HIDE DEF q
<1>5. CASE Requeue(q, state)
  BY <1>1, <1>2, <1>3, <1>5, RequeueKeeps
<1>6. CASE rq' = q /\ UNCHANGED <<state, gp_current_task>>
  <2>1. Standing(rq', state', gp_current_task) /\ Data(state)'
    BY <1>2, <1>3, <1>6 DEF Data
  <2> QED
    BY <2>1, <1>1, <1>6, GoOn
<1> QED
  BY <1>4, <1>5, <1>6

\* The task whose priority changes is on the queue: it is not the caller, nor
\* dormant, nor waiting.
LEMMA SetPrioKeeps ==
  ASSUME Lapses = {}, KInv, NEW t \in Tid, NEW p \in TaskPrio, SetPrio(t, p)
  PROVE  KInv' /\ UrgentSwitch
<1> DEFINE q == pq_move(rq, t, state[t] = DORMANT, p)
<1>1. gp_current_task \in Tid \ {TID_NULL} /\ state[gp_current_task] = RUNNING
  BY CallerIs DEF SetPrio
<1>2. /\ t \in Tid \ {TID_NULL}
      /\ t # gp_current_task
      /\ ~ pq_move_err(rq, state[t] = DORMANT, p)
      /\ state[t] # BLK_MSG
  BY DEF SetPrio
<1>3. Standing(rq, state, gp_current_task)
  BY DEF KInv
<1>4. state[t] = READY
  <2>1. state[t] # DORMANT
    BY <1>2 DEF pq_move_err
  <2> QED
    BY <2>1, <1>2, <1>3 DEF Standing, States
<1>5. Standing(q, state, gp_current_task)
  <2> DEFINE d == state[t] = DORMANT
  <2>1. d \in BOOLEAN /\ ~ pq_move_err(rq, d, p)
    BY <1>2
  <2> HIDE DEF d
  <2>2. Standing(pq_move(rq, t, d, p), state, gp_current_task)
    BY <1>2, <1>3, <1>4, <2>1, MoveStanding
  <2> QED
    BY <2>2 DEF d
<1>6. /\ Waiting(state, mailbox', cont')
      /\ Counted(state, priv', ustack', mailbox', g_num_active_tasks', kblocks')
      /\ Booting(state, boot')
  BY DEF KInv, Data, SetPrio, TaskData
<1>7. \/ Requeue(q, state)
      \/ rq' = q /\ UNCHANGED <<state, gp_current_task>>
  BY DEF SetPrio
<1> HIDE DEF q
<1>8. CASE Requeue(q, state)
  BY <1>1, <1>5, <1>6, <1>8, RequeueKeeps
<1>9. CASE rq' = q /\ UNCHANGED <<state, gp_current_task>>
  <2>1. Standing(rq', state', gp_current_task) /\ Data(state)'
    BY <1>5, <1>6, <1>9 DEF Data
  <2> QED
    BY <2>1, <1>1, <1>9, GoOn
<1> QED
  BY <1>7, <1>8, <1>9

-----------------------------------------------------------------------------
(* Task creation and exit: what they do to the data.                       *)

\* Sets of tasks are finite, and a set with one task more counts one more.
LEMMA TaskSets ==
  ASSUME NEW S \in SUBSET Tid
  PROVE  /\ IsFiniteSet(S) /\ Cardinality(S) \in 0 .. MAX_TASKS
         /\ \A t \in Tid \ S : Cardinality(S \cup {t}) = Cardinality(S) + 1
         /\ \A t \in S : Cardinality(S \ {t}) = Cardinality(S) - 1
         /\ S = {} <=> Cardinality(S) = 0
<1>1. IsFiniteSet(Tid) /\ Cardinality(Tid) = MAX_TASKS
  BY MembersFinite
<1>2. IsFiniteSet(S) /\ Cardinality(S) <= MAX_TASKS
  BY <1>1, FS_Subset
<1>3. Cardinality(S) \in Nat
  BY <1>2, FS_CardinalityType
<1>4. MAX_TASKS \in Nat
  BY Ids
<1>5. \A t \in Tid \ S : Cardinality(S \cup {t}) = Cardinality(S) + 1
  BY <1>2, FS_AddElement
<1>6. \A t \in S : Cardinality(S \ {t}) = Cardinality(S) - 1
  BY <1>2, FS_RemoveElement
<1>7. S = {} <=> Cardinality(S) = 0
  BY <1>2, FS_EmptySet
<1> QED
  BY <1>2, <1>3, <1>4, <1>5, <1>6, <1>7

\* A task gets a slot that was free, and a user task gets its stack.
LEMMA BornData ==
  ASSUME NEW st, NEW t \in Tid \ {TID_NULL}, st \in [Tid -> States], st[t] = DORMANT,
         NEW mb, NEW ct, NEW pr, NEW us, NEW n, NEW k,
         Waiting(st, mb, ct), Counted(st, pr, us, mb, n, k), NEW p \in BOOLEAN
  PROVE  LET st2 == [st EXCEPT ![t] = READY]
             mb2 == [mb EXCEPT ![t] = NULL]
             us2 == [us EXCEPT ![t] = IF p THEN "none" ELSE "heap"]
         IN /\ Waiting(st2, mb2, [ct EXCEPT ![t] = "none"])
            /\ Counted(st2, [pr EXCEPT ![t] = p], us2, mb2, n + 1,
                       k + (IF p THEN 0 ELSE 1))
<1> DEFINE st2 == [st EXCEPT ![t] = READY]
           mb2 == [mb EXCEPT ![t] = NULL]
           ct2 == [ct EXCEPT ![t] = "none"]
           pr2 == [pr EXCEPT ![t] = p]
           us2 == [us EXCEPT ![t] = IF p THEN "none" ELSE "heap"]
<1>1. /\ mb \in [Tid -> {NULL} \cup 0 .. MBX_CAP] /\ ct \in [Tid -> {"none"} \cup Reads]
      /\ pr \in [Tid -> BOOLEAN] /\ us \in [Tid -> Stacks]
  BY DEF Waiting, Counted
<1>2. \A u \in Tid : /\ st2[u] = IF u = t THEN READY ELSE st[u]
                     /\ mb2[u] = IF u = t THEN NULL ELSE mb[u]
                     /\ ct2[u] = IF u = t THEN "none" ELSE ct[u]
                     /\ pr2[u] = IF u = t THEN p ELSE pr[u]
                     /\ us2[u] = IF u = t THEN (IF p THEN "none" ELSE "heap") ELSE us[u]
  BY <1>1
<1>3. /\ mb2 \in [Tid -> {NULL} \cup 0 .. MBX_CAP] /\ ct2 \in [Tid -> {"none"} \cup Reads]
      /\ pr2 \in [Tid -> BOOLEAN] /\ us2 \in [Tid -> Stacks]
  BY <1>1 DEF Stacks
<1> HIDE DEF st2, mb2, ct2, pr2, us2
<1>4. Waiting(st2, mb2, ct2)
  <2>1. \A u \in Tid : st2[u] = BLK_MSG => mb2[u] = 0 /\ ct2[u] # "none"
    BY <1>2 DEF Waiting, READY, BLK_MSG
  <2>2. \A u \in Tid : ct2[u] # "none" => /\ u # TID_NULL
                                          /\ st2[u] # DORMANT
                                          /\ st2[u] # BLK_MSG => mb2[u] \in 1 .. MBX_CAP
    BY <1>2 DEF Waiting
  <2> QED
    BY <1>3, <2>1, <2>2 DEF Waiting
<1>5. Alive(st2) = Alive(st) \cup {t} /\ t \in Tid \ Alive(st)
  BY <1>2 DEF Alive, READY, DORMANT
<1>6. Stacked(st2, us2) = (IF p THEN Stacked(st, us) ELSE Stacked(st, us) \cup {t})
      /\ t \in Tid \ Stacked(st, us)
  BY <1>2 DEF Stacked, READY, DORMANT
<1>7. Boxed(st2, mb2) = Boxed(st, mb)
  BY <1>2 DEF Boxed, READY, DORMANT
<1>8. /\ Alive(st) \in SUBSET Tid /\ Stacked(st, us) \in SUBSET Tid
      /\ Boxed(st, mb) \in SUBSET Tid
  BY DEF Alive, Stacked, Boxed
<1>9. n + 1 = Cardinality(Alive(st2))
  BY <1>5, <1>8, TaskSets DEF Counted
<1>10. k + (IF p THEN 0 ELSE 1) = Cardinality(Stacked(st2, us2)) + Cardinality(Boxed(st2, mb2))
  <2>1. k = Cardinality(Stacked(st, us)) + Cardinality(Boxed(st, mb))
    BY DEF Counted
  <2>2. Cardinality(Stacked(st, us)) \in Nat /\ Cardinality(Boxed(st, mb)) \in Nat
    BY <1>8, TaskSets
  <2>3. ~ p => Cardinality(Stacked(st2, us2)) = Cardinality(Stacked(st, us)) + 1
    BY <1>6, <1>8, TaskSets
  <2>4. p => Cardinality(Stacked(st2, us2)) = Cardinality(Stacked(st, us))
    BY <1>6
  <2> QED
    BY <1>7, <2>1, <2>2, <2>3, <2>4
<1>11. \A u \in Tid : st2[u] # DORMANT => us2[u] = IF pr2[u] THEN "none" ELSE "heap"
  BY <1>2 DEF Counted
<1>12. Counted(st2, pr2, us2, mb2, n + 1, k + (IF p THEN 0 ELSE 1))
  BY <1>3, <1>9, <1>10, <1>11 DEF Counted
<1> QED
  BY <1>4, <1>12 DEF st2, mb2, ct2, pr2, us2

\* A running task exits: its stack and its mailbox are the blocks that go.
LEMMA DiedData ==
  ASSUME NEW st, NEW t \in Tid, st \in [Tid -> States], st[t] = RUNNING,
         NEW mb, NEW ct, NEW pr, NEW us, NEW n, NEW k, ct[t] = "none",
         Waiting(st, mb, ct), Counted(st, pr, us, mb, n, k)
  PROVE  LET st2 == [st EXCEPT ![t] = DORMANT]
             mb2 == [mb EXCEPT ![t] = NULL]
             us2 == [us EXCEPT ![t] = "none"]
         IN /\ Waiting(st2, mb2, ct)
            /\ Counted(st2, pr, us2, mb2, n - 1,
                       k - ((IF ~ pr[t] /\ us[t] = "heap" THEN 1 ELSE 0)
                            + (IF mb[t] # NULL THEN 1 ELSE 0)))
<1> DEFINE st2 == [st EXCEPT ![t] = DORMANT]
           mb2 == [mb EXCEPT ![t] = NULL]
           us2 == [us EXCEPT ![t] = "none"]
           a   == IF ~ pr[t] /\ us[t] = "heap" THEN 1 ELSE 0
           b   == IF mb[t] # NULL THEN 1 ELSE 0
<1>1. /\ mb \in [Tid -> {NULL} \cup 0 .. MBX_CAP] /\ ct \in [Tid -> {"none"} \cup Reads]
      /\ pr \in [Tid -> BOOLEAN] /\ us \in [Tid -> Stacks]
      /\ st[t] # DORMANT
  BY DEF Waiting, Counted, RUNNING, DORMANT
<1>2. \A u \in Tid : /\ st2[u] = IF u = t THEN DORMANT ELSE st[u]
                     /\ mb2[u] = IF u = t THEN NULL ELSE mb[u]
                     /\ us2[u] = IF u = t THEN "none" ELSE us[u]
  BY <1>1
<1>3. /\ mb2 \in [Tid -> {NULL} \cup 0 .. MBX_CAP]
      /\ us2 \in [Tid -> Stacks]
  BY <1>1 DEF Stacks
<1> HIDE DEF st2, mb2, us2
<1>4. Waiting(st2, mb2, ct)
  <2>1. \A u \in Tid : st2[u] = BLK_MSG => mb2[u] = 0 /\ ct[u] # "none"
    BY <1>2 DEF Waiting, DORMANT, BLK_MSG
  <2>2. \A u \in Tid : ct[u] # "none" => /\ u # TID_NULL
                                         /\ st2[u] # DORMANT
                                         /\ st2[u] # BLK_MSG => mb2[u] \in 1 .. MBX_CAP
    BY <1>2 DEF Waiting
  <2> QED
    BY <1>1, <1>3, <2>1, <2>2 DEF Waiting
<1>5. Alive(st2) = Alive(st) \ {t} /\ t \in Alive(st)
  BY <1>1, <1>2 DEF Alive
<1>6. Stacked(st2, us2) = Stacked(st, us) \ {t}
      /\ (t \in Stacked(st, us) <=> us[t] = "heap")
  BY <1>1, <1>2 DEF Stacked
<1>7. Boxed(st2, mb2) = Boxed(st, mb) \ {t} /\ (t \in Boxed(st, mb) <=> mb[t] # NULL)
  BY <1>1, <1>2 DEF Boxed
<1>8. /\ Alive(st) \in SUBSET Tid /\ Stacked(st, us) \in SUBSET Tid
      /\ Boxed(st, mb) \in SUBSET Tid
  BY DEF Alive, Stacked, Boxed
<1>9. us[t] = "heap" => ~ pr[t]
  BY <1>1 DEF Counted
<1>10. n - 1 = Cardinality(Alive(st2))
  BY <1>5, <1>8, TaskSets DEF Counted
<1>11. Cardinality(Stacked(st2, us2)) = Cardinality(Stacked(st, us)) - a
  <2>1. CASE us[t] = "heap"
    BY <2>1, <1>6, <1>8, <1>9, TaskSets
  <2>2. CASE us[t] # "heap"
    <3>1. Stacked(st2, us2) = Stacked(st, us) /\ a = 0
      BY <2>2, <1>6
    <3>2. Cardinality(Stacked(st, us)) \in Nat
      BY <1>8, TaskSets
    <3> QED
      BY <3>1, <3>2
  <2> QED
    BY <2>1, <2>2
<1>12. Cardinality(Boxed(st2, mb2)) = Cardinality(Boxed(st, mb)) - b
  <2>1. CASE mb[t] # NULL
    BY <2>1, <1>7, <1>8, TaskSets
  <2>2. CASE mb[t] = NULL
    <3>1. Boxed(st2, mb2) = Boxed(st, mb) /\ b = 0
      BY <2>2, <1>7
    <3>2. Cardinality(Boxed(st, mb)) \in Nat
      BY <1>8, TaskSets
    <3> QED
      BY <3>1, <3>2
  <2> QED
    BY <2>1, <2>2
<1>13. a \in {0, 1} /\ b \in {0, 1}
  OBVIOUS
<1> HIDE DEF a, b
<1>14. k - (a + b) = Cardinality(Stacked(st2, us2)) + Cardinality(Boxed(st2, mb2))
  <2>1. k = Cardinality(Stacked(st, us)) + Cardinality(Boxed(st, mb))
    BY DEF Counted
  <2>2. Cardinality(Stacked(st, us)) \in Nat /\ Cardinality(Boxed(st, mb)) \in Nat
    BY <1>8, TaskSets
  <2> QED
    BY <1>11, <1>12, <1>13, <2>1, <2>2
<1>15. \A u \in Tid : st2[u] # DORMANT => us2[u] = IF pr[u] THEN "none" ELSE "heap"
  BY <1>2 DEF Counted
<1>16. Counted(st2, pr, us2, mb2, n - 1, k - (a + b))
  BY <1>1, <1>3, <1>10, <1>14, <1>15 DEF Counted
<1> QED
  BY <1>4, <1>16 DEF st2, mb2, us2, a, b

\* A slot that CreateContract lets a creation use is free, but for the KCD's,
\* and the heap has room; CreateNew is what BornData speaks of.
LEMMA CreateNewIs ==
  ASSUME Lapses = {}, KInv, NEW t \in Tid, NEW kcd \in BOOLEAN, NEW pr \in BOOLEAN,
         NEW alloc \in BOOLEAN,
         CreateContract(t, kcd, pr, alloc), CreateNew(t, pr, alloc),
         state[t] = DORMANT,
         g_num_active_tasks' = g_num_active_tasks + 1
  PROVE  /\ Waiting([state EXCEPT ![t] = READY], mailbox', cont')
         /\ Counted([state EXCEPT ![t] = READY], priv', ustack', mailbox',
                    g_num_active_tasks', kblocks')
<1>1. t # TID_NULL /\ (~ pr => alloc)
  BY DEF CreateContract
<1>2. /\ Waiting(state, mailbox, cont)
      /\ Counted(state, priv, ustack, mailbox, g_num_active_tasks, kblocks)
      /\ state \in [Tid -> States]
  BY DEF KInv, Data, Standing
<1>3. /\ priv' = [priv EXCEPT ![t] = pr]
      /\ ustack' = [ustack EXCEPT ![t] = IF pr THEN "none" ELSE "heap"]
      /\ mailbox' = [mailbox EXCEPT ![t] = NULL]
      /\ cont' = [cont EXCEPT ![t] = "none"]
  BY <1>1 DEF CreateNew
<1>4. kblocks' = kblocks + (IF pr THEN 0 ELSE 1)
  <2>1. (IF ~ pr /\ alloc THEN 1 ELSE 0) = (IF pr THEN 0 ELSE 1)
    BY <1>1
  <2> QED
    BY <2>1 DEF CreateNew
<1> QED
  BY <1>1, <1>2, <1>3, <1>4, BornData

\* A new task that is not on the queue is given its priority and joins it.
LEMMA BornStanding ==
  ASSUME NEW q, NEW st, NEW cur, Standing(q, st, cur),
         NEW t \in Tid \ {TID_NULL}, st[t] = DORMANT, NEW p \in TaskPrio
  PROVE  /\ ~ pq_full(q)
         /\ Standing(pq_add(Reprioed(q, t, p), t), [st EXCEPT ![t] = READY], cur)
         /\ Standing(pq_add(Relinked(q, t, p), t), [st EXCEPT ![t] = READY], cur)
<1>1. st[t] # READY /\ st[t] \in {DORMANT, BLK_MSG}
  BY DEF READY, DORMANT
<1>2. /\ Standing(Reprioed(q, t, p), st, cur) /\ Reprioed(q, t, p).prio[t] = p
      /\ Standing(Relinked(q, t, p), st, cur) /\ Relinked(q, t, p).prio[t] = p
      /\ pq_full(Reprioed(q, t, p)) = pq_full(q)
  BY <1>1, ReprioStanding
<1>3. p < PRIO_NULL
  BY Ids
<1>4. /\ ~ pq_full(Reprioed(q, t, p))
      /\ Standing(pq_add(Reprioed(q, t, p), t), [st EXCEPT ![t] = READY], cur)
  BY <1>1, <1>2, <1>3, ArriveStanding
<1>5. Standing(pq_add(Relinked(q, t, p), t), [st EXCEPT ![t] = READY], cur)
  BY <1>1, <1>2, <1>3, ArriveStanding
<1> QED
  BY <1>2, <1>4, <1>5

\* The slot k_tsk_create takes was free.
LEMMA NewTidIsFree ==
  ASSUME Lapses = {}, KInv, NEW kcd \in BOOLEAN, NEW alloc \in BOOLEAN,
         CreateContract(NewTid(kcd), kcd, FALSE, alloc)
  PROVE  NewTid(kcd) \in Tid \ {TID_NULL} /\ state[NewTid(kcd)] = DORMANT
<1>1. NewTid(kcd) # TID_NULL /\ (kcd => state[TID_KCD] = DORMANT)
  BY DEF CreateContract
<1>2. CASE kcd
  BY <1>1, <1>2, Ids DEF NewTid
<1>3. CASE ~ kcd
  <2> DEFINE free == {t \in Tid \ {TID_NULL, TID_KCD} : state[t] = DORMANT}
  <2>1. free # {} /\ NewTid(kcd) = Min(free)
    BY <1>1, <1>3 DEF NewTid
  <2>2. free \in SUBSET Nat
    BY MaxTasksAssumption DEF Tid
  <2>3. NewTid(kcd) \in free
    <3> HIDE DEF free
    <3> QED
      BY <2>1, <2>2, MinIsLeast
  <2> QED
    BY <2>3
<1> QED
  BY <1>2, <1>3

\* k_tsk_create: the new task joins the queue, and then, if it is the more
\* urgent, the caller does.
LEMMA CreateKeeps ==
  ASSUME Lapses = {}, KInv, NEW kcd \in BOOLEAN, NEW alloc \in BOOLEAN,
         NEW p \in TaskPrio, Create(kcd, p, alloc)
  PROVE  KInv' /\ UrgentSwitch
<1> DEFINE t  == NewTid(kcd)
           st == [state EXCEPT ![t] = READY]
           r  == Reprioed(rq, t, p)
           q  == pq_add(r, t)
<1>1. gp_current_task \in Tid \ {TID_NULL} /\ boot.left = 0
  BY CallerIs DEF Create
<1>2. CreateContract(t, kcd, FALSE, alloc) /\ CreateNew(t, FALSE, alloc) /\ boot' = boot
  BY DEF Create
<1>3. t \in Tid \ {TID_NULL} /\ state[t] = DORMANT
  BY <1>2, NewTidIsFree
<1>4. Standing(rq, state, gp_current_task)
  BY DEF KInv
<1>5. ~ pq_full(rq) /\ Standing(q, st, gp_current_task)
  <2> HIDE DEF t
  <2> QED
    BY <1>3, <1>4, BornStanding
<1>6. g_num_active_tasks' = g_num_active_tasks + 1
  BY <1>5 DEF Create
<1>7. /\ Waiting(st, mailbox', cont')
      /\ Counted(st, priv', ustack', mailbox', g_num_active_tasks', kblocks')
  <2> HIDE DEF t
  <2> QED
    BY <1>2, <1>3, <1>6, CreateNewIs
<1>8. Booting(st, boot')
  <2>1. Booting(state, boot')
    BY <1>2 DEF KInv, Data
  <2> QED
    BY <1>1, <1>2, <2>1, BootOver
<1>9. \/ Requeue(q, st)
      \/ rq' = q /\ state' = st /\ UNCHANGED gp_current_task
  BY DEF Create, Reprioed
<1> HIDE DEF t, st, r, q
<1>10. CASE Requeue(q, st)
  BY <1>1, <1>5, <1>7, <1>8, <1>10, RequeueKeeps
<1>11. CASE rq' = q /\ state' = st /\ UNCHANGED gp_current_task
  <2>1. Standing(rq', state', gp_current_task) /\ Data(state)'
    BY <1>5, <1>7, <1>8, <1>11 DEF Data
  <2> QED
    BY <2>1, <1>1, <1>11, GoOn
<1> QED
  BY <1>9, <1>10, <1>11

\* The slot a turn of the boot loop fills was free.
LEMMA BootSlotIsFree ==
  ASSUME Lapses = {}, KInv, NEW kcd \in BOOLEAN, NEW pr \in BOOLEAN,
         NEW p \in TaskPrio, BootTask(kcd, p, pr)
  PROVE  LET t == IF kcd THEN TID_KCD ELSE boot.j
         IN t \in Tid \ {TID_NULL} /\ state[t] = DORMANT
<1> DEFINE t == IF kcd THEN TID_KCD ELSE boot.j
<1>1. boot.left > 0 /\ CreateContract(t, kcd, pr, TRUE)
  BY DEF BootTask
<1>2. /\ boot.left \in 0 .. MAX_TASKS - 1 /\ boot.j \in 1 .. MAX_TASKS
      /\ boot.j + boot.left <= MAX_TASKS
      /\ state[TID_KCD] # DORMANT => boot.j + boot.left < MAX_TASKS
      /\ \A u \in Tid : boot.j <= u /\ u < TID_KCD => state[u] = DORMANT
  BY <1>1 DEF KInv, Data, Booting
<1>3. boot.j \in Tid /\ boot.j <= TID_KCD /\ MAX_TASKS \in Nat /\ TID_KCD = MAX_TASKS - 1
  BY <1>1, <1>2, MaxTasksAssumption DEF Tid, TID_KCD
<1>4. t # TID_NULL /\ t \in Tid
  BY <1>1, <1>3, Ids DEF CreateContract
<1>5. state[t] = DORMANT
  <2>1. CASE kcd
    BY <2>1, <1>1 DEF CreateContract
  <2>2. CASE ~ kcd /\ boot.j = TID_KCD
    BY <2>2, <1>1, <1>2, <1>3
  <2>3. CASE ~ kcd /\ boot.j # TID_KCD
    BY <2>3, <1>2, <1>3
  <2> QED
    BY <2>1, <2>2, <2>3
<1> QED
  BY <1>4, <1>5

\* A turn of the boot loop fills a free slot, and leaves enough for the rest.
LEMMA BootTaskKeeps ==
  ASSUME Lapses = {}, KInv, NEW kcd \in BOOLEAN, NEW pr \in BOOLEAN,
         NEW p \in TaskPrio, BootTask(kcd, p, pr)
  PROVE  KInv' /\ UrgentSwitch
<1> DEFINE t  == IF kcd THEN TID_KCD ELSE boot.j
           st == [state EXCEPT ![t] = READY]
           x  == Relinked(rq, t, p)
<1>1. /\ boot.left > 0
      /\ CreateContract(t, kcd, pr, TRUE) /\ CreateNew(t, pr, TRUE)
      /\ rq' = pq_add(x, t)
      /\ state' = st
      /\ g_num_active_tasks' = g_num_active_tasks + 1
      /\ boot' = [left |-> boot.left - 1, j |-> IF kcd THEN boot.j ELSE boot.j + 1]
      /\ UNCHANGED gp_current_task
  BY DEF BootTask, Relinked
<1>2. /\ boot.left \in 0 .. MAX_TASKS - 1 /\ boot.j \in 1 .. MAX_TASKS
      /\ boot.j + boot.left <= MAX_TASKS
      /\ state[TID_KCD] # DORMANT => boot.j + boot.left < MAX_TASKS
      /\ \A u \in Tid : boot.j <= u /\ u < TID_KCD => state[u] = DORMANT
  BY <1>1 DEF KInv, Data, Booting
<1>3. boot.j \in Tid /\ boot.j <= TID_KCD /\ MAX_TASKS \in Nat /\ TID_KCD = MAX_TASKS - 1
  BY <1>1, <1>2, MaxTasksAssumption DEF Tid, TID_KCD
<1>4. t # TID_NULL /\ t \in Tid
  BY BootSlotIsFree
<1>5. state[t] = DORMANT
  BY BootSlotIsFree
<1>6. gp_current_task \in Tid /\ Standing(rq, state, gp_current_task)
  BY DEF KInv
<1>7. Standing(rq', state', gp_current_task)
  <2> HIDE DEF t
  <2>1. Standing(pq_add(x, t), st, gp_current_task)
    BY <1>4, <1>5, <1>6, BornStanding
  <2> QED
    BY <2>1, <1>1
<1>8. /\ Waiting(state', mailbox', cont')
      /\ Counted(state', priv', ustack', mailbox', g_num_active_tasks', kblocks')
  <2> HIDE DEF t
  <2>1. /\ Waiting(st, mailbox', cont')
        /\ Counted(st, priv', ustack', mailbox', g_num_active_tasks', kblocks')
    BY <1>1, <1>4, <1>5, CreateNewIs
  <2> QED
    BY <2>1, <1>1
<1>9. Booting(state', boot')
  <2>1. state \in [Tid -> States]
    BY <1>6 DEF Standing
  <2>2. \A u \in Tid : state'[u] = IF u = t THEN READY ELSE state[u]
    BY <1>1, <2>1
  <2>3. boot'.left = boot.left - 1 /\ boot'.j = (IF kcd THEN boot.j ELSE boot.j + 1)
    BY <1>1
  <2>4. boot' \in [left : 0 .. MAX_TASKS - 1, j : 1 .. MAX_TASKS]
    <3>1. boot.left - 1 \in 0 .. MAX_TASKS - 1
      BY <1>1, <1>2, <1>3
    <3>2. (IF kcd THEN boot.j ELSE boot.j + 1) \in 1 .. MAX_TASKS
      BY <1>1, <1>2, <1>3
    <3> QED
      BY <1>1, <3>1, <3>2
  <2>5. ASSUME boot'.left > 0
        PROVE  /\ boot'.j + boot'.left <= MAX_TASKS
               /\ state'[TID_KCD] # DORMANT => boot'.j + boot'.left < MAX_TASKS
               /\ \A u \in Tid : boot'.j <= u /\ u < TID_KCD => state'[u] = DORMANT
    <3>1. boot'.j + boot'.left <= MAX_TASKS
      BY <1>2, <1>3, <2>3
    <3>2. state'[TID_KCD] # DORMANT => boot'.j + boot'.left < MAX_TASKS
      <4>1. CASE kcd
        BY <4>1, <1>2, <1>3, <2>3
      <4>2. CASE ~ kcd
        <5>1. boot.j # TID_KCD
          BY <2>3, <2>5, <1>2, <1>3, <4>2
        <5>2. state'[TID_KCD] = state[TID_KCD]
          BY <5>1, <2>2, <4>2, Ids
        <5> QED
          BY <5>2, <1>2, <1>3, <2>3, <4>2
      <4> QED
        BY <4>1, <4>2
    <3>3. ASSUME NEW u \in Tid, boot'.j <= u, u < TID_KCD PROVE state'[u] = DORMANT
      <4>1. u \in Nat
        BY MaxTasksAssumption DEF Tid
      <4>2. u # t
        BY <3>3, <4>1, <1>2, <1>3, <2>3
      <4> QED
        BY <3>3, <4>1, <4>2, <1>2, <1>3, <2>2, <2>3
    <3> QED
      BY <3>1, <3>2, <3>3
  <2> QED
    BY <2>4, <2>5 DEF Booting
<1> QED
  BY <1>1, <1>6, <1>7, <1>8, <1>9, GoOn DEF Data

\* A boot entry that is not valid changes nothing but the loop.
LEMMA BootStopKeeps ==
  ASSUME KInv, BootStop
  PROVE  KInv' /\ UrgentSwitch
<1>1. Booting(state', boot')
  <2>1. boot' \in [left : 0 .. MAX_TASKS - 1, j : 1 .. MAX_TASKS] /\ boot'.left = 0
    BY Ids DEF BootStop, KInv, Data, Booting
  <2> QED
    BY <2>1 DEF Booting
<1>2. /\ gp_current_task \in Tid
      /\ Standing(rq', state', gp_current_task)
      /\ Waiting(state', mailbox', cont')
      /\ Counted(state', priv', ustack', mailbox', g_num_active_tasks', kblocks')
      /\ UNCHANGED gp_current_task
  BY DEF BootStop, KInv, Data
<1> QED
  BY <1>1, <1>2, GoOn DEF Data

\* k_tsk_exit.
LEMMA ExitKeeps ==
  ASSUME KInv, Exit
  PROVE  KInv' /\ UrgentSwitch
<1> DEFINE t  == gp_current_task
           st == [state EXCEPT ![t] = DORMANT]
<1>1. /\ t \in Tid \ {TID_NULL} /\ state[t] = RUNNING
      /\ cont[t] = "none" /\ boot.left = 0
  BY CallerIs DEF Exit
<1>2. /\ Standing(rq, state, t) /\ state \in [Tid -> States]
      /\ Waiting(state, mailbox, cont)
      /\ Counted(state, priv, ustack, mailbox, g_num_active_tasks, kblocks)
      /\ Booting(state, boot)
  BY DEF KInv, Data, Standing
<1>3. CanRun(rq, st, t)
  BY <1>1, <1>2, LeaveCanRun
<1>4. /\ Waiting(st, mailbox', cont')
      /\ Counted(st, priv', ustack', mailbox', g_num_active_tasks', kblocks')
  <2>1. /\ mailbox' = [mailbox EXCEPT ![t] = NULL]
        /\ ustack' = [ustack EXCEPT ![t] = "none"]
        /\ g_num_active_tasks' = g_num_active_tasks - 1
        /\ kblocks' = kblocks - ((IF ~ priv[t] /\ ustack[t] = "heap" THEN 1 ELSE 0)
                                 + (IF mailbox[t] # NULL THEN 1 ELSE 0))
        /\ UNCHANGED <<priv, cont>>
    BY DEF Exit, ActiveAfterExit, Freed
  <2> QED
    BY <1>1, <1>2, <2>1, DiedData
<1>5. Booting(st, boot')
  BY <1>1, <1>2, BootOver DEF Exit
<1>6. run_new(rq, st)
  BY DEF Exit
<1> QED
  BY <1>1, <1>3, <1>4, <1>5, <1>6, Dispatch

-----------------------------------------------------------------------------
(* Mailboxes.                                                              *)

\* The null pointer is no count of messages.
LEMMA Counts ==
  /\ MBX_CAP \in Nat /\ MBX_CAP >= 1
  /\ NUM_WRAP \in Nat /\ NUM_WRAP > MBX_CAP
  /\ NULL \notin 0 .. MBX_CAP
BY MailboxAssumption, NoMailboxAssumption

\* k_mbx_create: the caller gets an empty mailbox, and with it one block.
LEMMA MbxCreateKeeps ==
  ASSUME KInv, MbxCreate
  PROVE  KInv' /\ UrgentSwitch
<1> DEFINE t == gp_current_task
<1>1. t \in Tid \ {TID_NULL} /\ state[t] = RUNNING /\ boot.left = 0
  BY CallerIs DEF MbxCreate
<1>2. /\ Standing(rq, state, t)
      /\ Waiting(state, mailbox, cont)
      /\ Counted(state, priv, ustack, mailbox, g_num_active_tasks, kblocks)
      /\ Booting(state, boot)
  BY DEF KInv, Data
<1>3. /\ mailbox[t] = NULL
      /\ mailbox' = [mailbox EXCEPT ![t] = 0]
      /\ kblocks' = kblocks + 1
      /\ UNCHANGED <<rq, state, priv, ustack, cont, gp_current_task, g_num_active_tasks, boot>>
  BY DEF MbxCreate
<1>4. /\ mailbox' \in [Tid -> {NULL} \cup 0 .. MBX_CAP]
      /\ \A u \in Tid : mailbox'[u] = IF u = t THEN 0 ELSE mailbox[u]
  BY <1>1, <1>2, <1>3, Counts DEF Waiting
<1>5. Waiting(state, mailbox', cont)
  <2>1. \A u \in Tid : state[u] = BLK_MSG => mailbox'[u] = 0 /\ cont[u] # "none"
    BY <1>2, <1>4 DEF Waiting
  <2>2. cont[t] = "none"
    BY CallerIs DEF MbxCreate
  <2>3. \A u \in Tid : cont[u] # "none" => /\ u # TID_NULL
                                           /\ state[u] # DORMANT
                                           /\ state[u] # BLK_MSG => mailbox'[u] \in 1 .. MBX_CAP
    BY <1>2, <1>4, <2>2 DEF Waiting
  <2> QED
    BY <1>2, <1>4, <2>1, <2>3 DEF Waiting
<1>6. Boxed(state, mailbox') = Boxed(state, mailbox) \cup {t} /\ t \in Tid \ Boxed(state, mailbox)
  <2>1. 0 # NULL /\ state[t] # DORMANT
    BY <1>1, Counts DEF RUNNING, DORMANT
  <2> QED
    BY <1>1, <1>3, <1>4, <2>1 DEF Boxed
<1>7. Counted(state, priv, ustack, mailbox', g_num_active_tasks, kblocks')
  <2>1. Boxed(state, mailbox) \in SUBSET Tid /\ Stacked(state, ustack) \in SUBSET Tid
    BY DEF Boxed, Stacked
  <2>2. Cardinality(Boxed(state, mailbox')) = Cardinality(Boxed(state, mailbox)) + 1
    BY <1>6, <2>1, TaskSets
  <2>3. Cardinality(Boxed(state, mailbox)) \in Nat /\ Cardinality(Stacked(state, ustack)) \in Nat
    BY <2>1, TaskSets
  <2>4. kblocks' = Cardinality(Stacked(state, ustack)) + Cardinality(Boxed(state, mailbox'))
    BY <1>2, <1>3, <2>2, <2>3 DEF Counted
  <2> QED
    BY <1>2, <2>4 DEF Counted
<1>8. Data(state)'
  BY <1>2, <1>3, <1>5, <1>7 DEF Data
<1> QED
  BY <1>1, <1>2, <1>3, <1>8, GoOn

\* st2 differs from st only in who is ready and who runs, and r does not wait.
Woken(st, st2, r) ==
  /\ \A u \in Tid : u # r => /\ st2[u] = DORMANT <=> st[u] = DORMANT
                             /\ st2[u] = BLK_MSG <=> st[u] = BLK_MSG
  /\ st2[r] \notin {DORMANT, BLK_MSG}

\* A message arrives in a mailbox with room; whoever waited for it is READY.
LEMMA DepositData ==
  ASSUME NEW st, NEW st2, NEW r \in Tid, NEW mb, NEW ct, NEW pr, NEW us, NEW n, NEW k,
         Waiting(st, mb, ct), Counted(st, pr, us, mb, n, k),
         st[r] # DORMANT, mb[r] # NULL, mb[r] < MBX_CAP,
         Woken(st, st2, r), NEW mb2, mb2 = [mb EXCEPT ![r] = mb[r] + 1]
  PROVE  Waiting(st2, mb2, ct) /\ Counted(st2, pr, us, mb2, n, k)
<1>1. mb[r] \in 0 .. MBX_CAP - 1 /\ mb[r] + 1 \in 1 .. MBX_CAP /\ mb[r] + 1 # NULL
  BY Counts DEF Waiting
<1>2. /\ mb2 \in [Tid -> {NULL} \cup 0 .. MBX_CAP]
      /\ \A u \in Tid : mb2[u] = IF u = r THEN mb[r] + 1 ELSE mb[u]
  BY <1>1, Counts DEF Waiting
<1>3. Waiting(st2, mb2, ct)
  <2>1. \A u \in Tid : st2[u] = BLK_MSG => mb2[u] = 0 /\ ct[u] # "none"
    BY <1>2 DEF Waiting, Woken
  <2>2. \A u \in Tid : ct[u] # "none" => /\ u # TID_NULL
                                         /\ st2[u] # DORMANT
                                         /\ st2[u] # BLK_MSG => mb2[u] \in 1 .. MBX_CAP
    BY <1>1, <1>2 DEF Waiting, Woken
  <2> QED
    BY <1>2, <2>1, <2>2 DEF Waiting
<1>4. Alive(st2) = Alive(st) /\ Stacked(st2, us) = Stacked(st, us)
  BY DEF Alive, Stacked, Woken
<1>5. Boxed(st2, mb2) = Boxed(st, mb)
  BY <1>1, <1>2 DEF Boxed, Woken
<1>6. Counted(st2, pr, us, mb2, n, k)
  BY <1>4, <1>5 DEF Counted, Woken
<1> QED
  BY <1>3, <1>6

\* k_send_msg.
LEMMA SendKeeps ==
  ASSUME KInv, NEW r \in Tid, Send(r)
  PROVE  KInv' /\ UrgentSwitch
<1> DEFINE c     == gp_current_task
           woken == [state EXCEPT ![r] = READY]
           both  == [woken EXCEPT ![c] = READY]
<1>1. c \in Tid \ {TID_NULL} /\ state[c] = RUNNING /\ boot.left = 0
  BY CallerIs DEF Send
<1>2. /\ Standing(rq, state, c) /\ state \in [Tid -> States] /\ rq \in PRIO_Q
      /\ Waiting(state, mailbox, cont)
      /\ Counted(state, priv, ustack, mailbox, g_num_active_tasks, kblocks)
      /\ Booting(state, boot)
  BY DEF KInv, Data, Standing
<1>3. /\ state[r] # DORMANT /\ mailbox[r] # NULL /\ mailbox[r] < MBX_CAP
      /\ mailbox' = [mailbox EXCEPT ![r] = @ + 1]
      /\ UNCHANGED <<priv, ustack, cont, g_num_active_tasks, kblocks, boot>>
  BY DEF Send, HasRoom, Deposit
<1>4. ASSUME NEW st2, Woken(state, st2, r)
      PROVE  /\ Waiting(st2, mailbox', cont')
             /\ Counted(st2, priv', ustack', mailbox', g_num_active_tasks', kblocks')
             /\ Booting(st2, boot')
  <2>1. /\ Waiting(st2, mailbox', cont)
        /\ Counted(st2, priv, ustack, mailbox', g_num_active_tasks, kblocks)
    <3>1. mailbox' = [mailbox EXCEPT ![r] = mailbox[r] + 1]
      BY <1>3
    <3> QED
      BY <3>1, <1>2, <1>3, <1>4, DepositData
  <2>2. Booting(st2, boot)
    BY <1>1, <1>2, BootOver
  <2> QED
    BY <2>1, <2>2, <1>3
<1>5. CASE ~ Wakes(r)
  <2>1. UNCHANGED <<rq, state, gp_current_task>>
    BY <1>5 DEF Send
  <2>2. state[r] \notin {DORMANT, BLK_MSG}
    BY <1>1, <1>3, <1>5 DEF Wakes, RUNNING, BLK_MSG
  <2>3. Data(state)'
    <3>1. Woken(state, state', r)
      BY <2>1, <2>2 DEF Woken
    <3> QED
      BY <2>1, <3>1, <1>4 DEF Data
  <2> QED
    BY <1>1, <1>2, <2>1, <2>3, GoOn
<1>6. CASE Wakes(r)
  <2>1. r # c /\ state[r] = BLK_MSG
    BY <1>6 DEF Wakes
  <2>2. r # TID_NULL
    BY <2>1, <1>2 DEF Standing, Ranked, READY, RUNNING, BLK_MSG
  <2>3. \A u \in Tid : /\ woken[u] = IF u = r THEN READY ELSE state[u]
                       /\ both[u] = IF u \in {r, c} THEN READY ELSE state[u]
    BY <1>2
  <2>4. CASE rq.prio[r] < rq.prio[c]
    <3>1. run_new(pq_add(pq_add(rq, c), r), both)
      BY <1>6, <2>4 DEF Send
    <3>2. CanRun(pq_add(pq_add(rq, c), r), both, c)
      BY <1>1, <1>2, <2>1, <2>2, SendCanRun
    <3> HIDE DEF woken, both
    <3>3. Woken(state, both, r)
      BY <1>1, <2>3 DEF Woken, DORMANT, READY, RUNNING, BLK_MSG
    <3>4. /\ Waiting(both, mailbox', cont')
          /\ Counted(both, priv', ustack', mailbox', g_num_active_tasks', kblocks')
          /\ Booting(both, boot')
      BY <3>3, <1>4
    <3> QED
      BY <1>1, <3>1, <3>2, <3>4, Dispatch
  <2>5. CASE ~ (rq.prio[r] < rq.prio[c])
    <3>1. rq' = pq_add(rq, r) /\ state' = woken /\ UNCHANGED gp_current_task
      BY <1>6, <2>5 DEF Send, QueueBehind
    <3>2. rq.prio[r] < PRIO_NULL
      BY <1>2, <1>3, <2>2 DEF Standing, Ranked
    <3>3. Standing(pq_add(rq, r), woken, c)
      BY <1>2, <2>1, <2>2, <3>2, ArriveStanding
    <3> HIDE DEF woken
    <3>4. Woken(state, woken, r)
      BY <2>3 DEF Woken, DORMANT, READY, BLK_MSG
    <3>5. Data(state)'
      BY <3>1, <3>4, <1>4 DEF Data
    <3> QED
      BY <1>1, <3>1, <3>3, <3>5, GoOn
  <2> QED
    BY <2>4, <2>5
<1> QED
  BY <1>5, <1>6

\* cq_read of a mailbox that holds a message.
LEMMA ReadData ==
  ASSUME KInv, gp_current_task # TID_NULL, NEW how \in Reads, cq_read(how),
         mailbox[gp_current_task] \in 1 .. MBX_CAP
  PROVE  /\ Waiting(state, mailbox', [cont EXCEPT ![gp_current_task] = "none"])
         /\ Counted(state, priv, ustack, mailbox', g_num_active_tasks, kblocks)
<1> DEFINE t   == gp_current_task
           ct2 == [cont EXCEPT ![t] = "none"]
<1>1. /\ t \in Tid /\ state[t] = RUNNING
      /\ Waiting(state, mailbox, cont)
      /\ Counted(state, priv, ustack, mailbox, g_num_active_tasks, kblocks)
  BY DEF KInv, Data, Standing
<1>2. mailbox[t] \in 1 .. MBX_CAP /\ MBX_CAP \in Nat /\ NULL \notin 0 .. MBX_CAP
  BY Counts
<1>3. PICK m \in 0 .. MBX_CAP : mailbox' = [mailbox EXCEPT ![t] = m]
  <2> DEFINE v == IF how = "keep" THEN mailbox[t]
                  ELSE IF mailbox[t] = 0 THEN NUM_WRAP ELSE mailbox[t] - 1
  <2>1. mailbox' = [mailbox EXCEPT ![t] = v]
    BY DEF cq_read
  <2>2. v \in 0 .. MBX_CAP
    BY <1>2
  <2> QED
    BY <2>1, <2>2
<1>4. /\ mailbox' \in [Tid -> {NULL} \cup 0 .. MBX_CAP]
      /\ \A u \in Tid : mailbox'[u] = IF u = t THEN m ELSE mailbox[u]
  BY <1>1, <1>3 DEF Waiting
<1>5. /\ ct2 \in [Tid -> {"none"} \cup Reads]
      /\ \A u \in Tid : ct2[u] = IF u = t THEN "none" ELSE cont[u]
  BY <1>1 DEF Waiting
<1> HIDE DEF ct2
<1>6. Waiting(state, mailbox', ct2)
  <2>1. \A u \in Tid : state[u] = BLK_MSG => mailbox'[u] = 0 /\ ct2[u] # "none"
    BY <1>1, <1>4, <1>5 DEF Waiting, RUNNING, BLK_MSG
  <2>2. \A u \in Tid : ct2[u] # "none" => /\ u # TID_NULL
                                          /\ state[u] # DORMANT
                                          /\ state[u] # BLK_MSG => mailbox'[u] \in 1 .. MBX_CAP
    BY <1>1, <1>4, <1>5 DEF Waiting
  <2> QED
    BY <1>4, <1>5, <2>1, <2>2 DEF Waiting
<1>7. m # NULL /\ mailbox[t] # NULL
  BY <1>2, <1>3
<1>8. Boxed(state, mailbox') = Boxed(state, mailbox)
  BY <1>4, <1>7 DEF Boxed
<1>9. Counted(state, priv, ustack, mailbox', g_num_active_tasks, kblocks)
  BY <1>1, <1>8 DEF Counted
<1> QED
  BY <1>6, <1>9 DEF ct2

\* k_recv_msg of a mailbox that is not empty.
LEMMA RecvKeeps ==
  ASSUME KInv, NEW how \in Reads, Recv(how)
  PROVE  KInv' /\ UrgentSwitch
<1>1. /\ gp_current_task \in Tid \ {TID_NULL}
      /\ cont[gp_current_task] = "none"
  BY CallerIs DEF Recv
<1>2. mailbox[gp_current_task] \in 1 .. MBX_CAP /\ cq_read(how)
  BY <1>1, Counts DEF Recv, KInv, Data, Waiting
<1>3. /\ Standing(rq, state, gp_current_task) /\ Booting(state, boot)
      /\ cont \in [Tid -> {"none"} \cup Reads]
  BY DEF KInv, Data, Waiting
<1>4. [cont EXCEPT ![gp_current_task] = "none"] = cont
  BY <1>1, <1>3
<1>5. UNCHANGED <<rq, state, priv, ustack, cont, gp_current_task, g_num_active_tasks, kblocks, boot>>
  BY DEF Recv
<1>6. /\ Waiting(state, mailbox', cont)
      /\ Counted(state, priv, ustack, mailbox', g_num_active_tasks, kblocks)
  BY <1>1, <1>2, <1>4, ReadData
<1> QED
  BY <1>1, <1>3, <1>5, <1>6, GoOn DEF Data

\* k_recv_msg of an empty mailbox.
LEMMA RecvBlockKeeps ==
  ASSUME KInv, NEW how \in Reads, RecvBlock(how)
  PROVE  KInv' /\ UrgentSwitch
<1> DEFINE t  == gp_current_task
           st == [state EXCEPT ![t] = BLK_MSG]
<1>1. t \in Tid \ {TID_NULL} /\ state[t] = RUNNING /\ boot.left = 0
  BY CallerIs DEF RecvBlock
<1>2. /\ Standing(rq, state, t) /\ state \in [Tid -> States]
      /\ Waiting(state, mailbox, cont)
      /\ Counted(state, priv, ustack, mailbox, g_num_active_tasks, kblocks)
      /\ Booting(state, boot)
  BY DEF KInv, Data, Standing
<1>3. /\ mailbox[t] = 0
      /\ cont' = [cont EXCEPT ![t] = how]
      /\ run_new(rq, st)
      /\ UNCHANGED <<priv, ustack, mailbox, g_num_active_tasks, kblocks, boot>>
  BY DEF RecvBlock
<1>4. CanRun(rq, st, t)
  BY <1>1, <1>2, LeaveCanRun
<1>5. \A u \in Tid : st[u] = IF u = t THEN BLK_MSG ELSE state[u]
  BY <1>2
<1> HIDE DEF st
<1>6. Waiting(st, mailbox, cont')
  <2>1. /\ cont' \in [Tid -> {"none"} \cup Reads]
        /\ \A u \in Tid : cont'[u] = IF u = t THEN how ELSE cont[u]
    BY <1>2, <1>3 DEF Waiting
  <2>2. how # "none"
    BY DEF Reads
  <2>3. \A u \in Tid : st[u] = BLK_MSG => mailbox[u] = 0 /\ cont'[u] # "none"
    BY <1>2, <1>3, <1>5, <2>1, <2>2 DEF Waiting
  <2>4. \A u \in Tid : cont'[u] # "none" => /\ u # TID_NULL
                                            /\ st[u] # DORMANT
                                            /\ st[u] # BLK_MSG => mailbox[u] \in 1 .. MBX_CAP
    BY <1>1, <1>2, <1>5, <2>1 DEF Waiting, DORMANT, BLK_MSG
  <2> QED
    BY <1>2, <2>1, <2>3, <2>4 DEF Waiting
<1>7. Counted(st, priv, ustack, mailbox, g_num_active_tasks, kblocks)
  <2>1. \A u \in Tid : st[u] = DORMANT <=> state[u] = DORMANT
    BY <1>1, <1>5 DEF DORMANT, RUNNING, BLK_MSG
  <2>2. /\ Alive(st) = Alive(state) /\ Stacked(st, ustack) = Stacked(state, ustack)
        /\ Boxed(st, mailbox) = Boxed(state, mailbox)
    BY <2>1 DEF Alive, Stacked, Boxed
  <2> QED
    BY <1>2, <2>1, <2>2 DEF Counted
<1>8. Booting(st, boot)
  BY <1>1, <1>2, BootOver
<1> QED
  BY <1>1, <1>3, <1>4, <1>6, <1>7, <1>8, Dispatch

\* k_recv_msg when the switch returns: there is a message.
LEMMA RecvResumeKeeps ==
  ASSUME KInv, RecvResume
  PROVE  KInv' /\ UrgentSwitch
<1> DEFINE t == gp_current_task
<1>1. /\ t \in Tid /\ Standing(rq, state, t) /\ Booting(state, boot)
      /\ Waiting(state, mailbox, cont)
  BY DEF KInv, Data
<1>2. /\ cont[t] # "none" /\ cq_read(cont[t])
      /\ cont' = [cont EXCEPT ![t] = "none"]
      /\ UNCHANGED <<rq, state, priv, ustack, gp_current_task, g_num_active_tasks, kblocks, boot>>
  BY DEF RecvResume
<1>3. t # TID_NULL /\ cont[t] \in Reads
  BY <1>1, <1>2 DEF Waiting
<1>4. state[t] # BLK_MSG
  BY <1>1, <1>3 DEF Standing, RUNNING, BLK_MSG
<1>5. mailbox[t] \in 1 .. MBX_CAP
  BY <1>1, <1>2, <1>4 DEF Waiting
<1>6. /\ Waiting(state, mailbox', cont')
      /\ Counted(state, priv, ustack, mailbox', g_num_active_tasks, kblocks)
  BY <1>2, <1>3, <1>5, ReadData
<1> QED
  BY <1>1, <1>2, <1>6, GoOn DEF Data

\* The boot loop is over and stays so.
LEMMA BootStays ==
  ASSUME boot.left = 0, Next
  PROVE  boot' = boot
<1>1. Yield => boot' = boot
  BY DEF Yield, TaskData
<1>2. \A kcd, alloc \in BOOLEAN, p \in TaskPrio : Create(kcd, p, alloc) => boot' = boot
  BY DEF Create
<1>3. Exit => boot' = boot
  BY DEF Exit
<1>4. \A p \in TaskPrio : SetOwnPrio(p) => boot' = boot
  BY DEF SetOwnPrio, TaskData
<1>5. \A t \in Tid, p \in TaskPrio : SetPrio(t, p) => boot' = boot
  BY DEF SetPrio, TaskData
<1>6. MbxCreate => boot' = boot
  BY DEF MbxCreate
<1>7. \A r \in Tid : Send(r) => boot' = boot
  BY DEF Send
<1>8. \A how \in Reads : Recv(how) \/ RecvBlock(how) => boot' = boot
  BY DEF Recv, RecvBlock
<1>9. RecvResume => boot' = boot
  BY DEF RecvResume
<1>10. ~ BootStop
       /\ \A kcd, pr \in BOOLEAN, p \in TaskPrio : ~ BootTask(kcd, p, pr)
  BY DEF BootStop, BootTask
<1> QED
  BY <1>1, <1>2, <1>3, <1>4, <1>5, <1>6, <1>7, <1>8, <1>9, <1>10 DEF Next

-----------------------------------------------------------------------------
(* The invariant holds, and says what the properties say.                  *)

\* The null task alone, running and queued.
LEMMA InitStanding ==
  ASSUME Init
  PROVE  Standing(rq, state, TID_NULL)
<1> DEFINE z == [ size    |-> 0,
                  next_dq |-> 0,
                  arr     |-> [p \in Prio |-> NULL],
                  next    |-> [t \in Tid |-> NULL],
                  prev    |-> [t \in Tid |-> NULL],
                  prio    |-> [t \in Tid |-> IF t = TID_NULL THEN PRIO_NULL ELSE 0] ]
           i == pq_init(z)
<1>1. z \in PRIO_Q /\ z.prio[TID_NULL] = PRIO_NULL
  <2>1. 0 \in 0 .. USHRT_MAX /\ 0 \in Prio /\ PRIO_NULL \in Prio /\ TID_NULL \in Tid
    BY Ids DEF Prio, USHRT_MAX
  <2> QED
    BY <2>1 DEF PRIO_Q, Link
<1>2. rq = pq_add(i, TID_NULL)
  BY DEF Init
<1> HIDE DEF z
<1>3. i \in PRIO_Q /\ i.prio = z.prio /\ Holds(i, {})
  <2> DEFINE e == [p \in Prio |-> << >>]
  <2>1. /\ i \in PRIO_Q /\ i.prio = z.prio
        /\ e \in [Prio -> Fifo] /\ Represents(i, e) /\ Members(e) = {}
    BY <1>1, EmptyRepresents
  <2> HIDE DEF e
  <2> QED
    BY <2>1 DEF Holds
<1> HIDE DEF i
<1>4. /\ pq_add(i, TID_NULL) \in PRIO_Q /\ pq_add(i, TID_NULL).prio = i.prio
      /\ Holds(pq_add(i, TID_NULL), {} \cup {TID_NULL})
  BY <1>3, Ids, AddHolds
<1>5. rq \in PRIO_Q /\ rq.prio[TID_NULL] = PRIO_NULL /\ Holds(rq, {} \cup {TID_NULL})
  BY <1>1, <1>2, <1>3, <1>4
<1>6. /\ state \in [Tid -> States]
      /\ \A t \in Tid : state[t] = IF t = TID_NULL THEN RUNNING ELSE DORMANT
  BY DEF Init, States
<1>7. {t \in Tid : state[t] = READY} \cup {TID_NULL} = {} \cup {TID_NULL}
  BY <1>6 DEF RUNNING, DORMANT, READY
<1>8. Ranked(rq, state)
  BY <1>5, <1>6, Ids DEF Ranked, DORMANT, READY, RUNNING
<1>9. \A t \in Tid \ {TID_NULL} : state[t] = RUNNING <=> t = TID_NULL
  BY <1>6 DEF DORMANT, RUNNING
<1> QED
  BY <1>5, <1>6, <1>7, <1>8, <1>9 DEF Standing

\* After k_tsk_init has set up the null task.
LEMMA InitKInv ==
  ASSUME Init
  PROVE  KInv
<1>1. gp_current_task = TID_NULL /\ TID_NULL \in Tid
  BY Ids DEF Init
<1>2. /\ \A t \in Tid : state[t] = IF t = TID_NULL THEN RUNNING ELSE DORMANT
      /\ priv \in [Tid -> BOOLEAN] /\ priv[TID_NULL]
      /\ ustack \in [Tid -> Stacks] /\ \A t \in Tid : ustack[t] = "none"
      /\ mailbox \in [Tid -> {NULL} \cup 0 .. MBX_CAP] /\ \A t \in Tid : mailbox[t] = NULL
      /\ cont \in [Tid -> {"none"} \cup Reads] /\ \A t \in Tid : cont[t] = "none"
      /\ g_num_active_tasks = 1 /\ kblocks = 0
  BY Ids DEF Init, Stacks
<1>3. Waiting(state, mailbox, cont)
  BY <1>2 DEF Waiting, RUNNING, DORMANT, BLK_MSG
<1>4. Alive(state) = {TID_NULL} /\ Stacked(state, ustack) = {} /\ Boxed(state, mailbox) = {}
  BY <1>1, <1>2 DEF Alive, Stacked, Boxed, RUNNING, DORMANT
<1>5. Cardinality({TID_NULL}) = 1 /\ Cardinality({}) = 0
  BY FS_Singleton, FS_EmptySet
<1>6. Counted(state, priv, ustack, mailbox, g_num_active_tasks, kblocks)
  BY <1>2, <1>4, <1>5 DEF Counted
<1>7. Booting(state, boot)
  <2>1. PICK n \in 0 .. MAX_TASKS - 1 : boot = [left |-> n, j |-> 1]
    BY DEF Init
  <2>2. 1 \in 1 .. MAX_TASKS /\ 1 + n <= MAX_TASKS
    BY Ids
  <2>3. state[TID_KCD] = DORMANT
    BY <1>2, Ids
  <2>4. \A t \in Tid : 1 <= t => t # TID_NULL
    BY DEF TID_NULL
  <2>5. boot.left = n /\ boot.j = 1
    BY <2>1
  <2> QED
    BY <2>1, <2>2, <2>3, <2>4, <2>5, <1>2 DEF Booting
<1> QED
  BY <1>1, <1>3, <1>6, <1>7, InitStanding DEF KInv, Data

\* Every step of the kernel keeps the invariant, and hands the processor to a
\* most urgent task.
LEMMA NextKeeps ==
  ASSUME Lapses = {}, KInv, Next
  PROVE  KInv' /\ UrgentSwitch
<1>1. CASE BootStop
  BY <1>1, BootStopKeeps
<1>2. ASSUME NEW kcd \in BOOLEAN, NEW pr \in BOOLEAN, NEW p \in TaskPrio,
             BootTask(kcd, p, pr)
      PROVE  KInv' /\ UrgentSwitch
  BY <1>2, BootTaskKeeps
<1>3. CASE Yield
  BY <1>3, YieldKeeps
<1>4. ASSUME NEW kcd \in BOOLEAN, NEW alloc \in BOOLEAN, NEW p \in TaskPrio,
             Create(kcd, p, alloc)
      PROVE  KInv' /\ UrgentSwitch
  BY <1>4, CreateKeeps
<1>5. CASE Exit
  BY <1>5, ExitKeeps
<1>6. ASSUME NEW p \in TaskPrio, SetOwnPrio(p) PROVE KInv' /\ UrgentSwitch
  BY <1>6, SetOwnPrioKeeps
<1>7. ASSUME NEW t \in Tid, NEW p \in TaskPrio, SetPrio(t, p) PROVE KInv' /\ UrgentSwitch
  BY <1>7, SetPrioKeeps
<1>8. CASE MbxCreate
  BY <1>8, MbxCreateKeeps
<1>9. ASSUME NEW r \in Tid, Send(r) PROVE KInv' /\ UrgentSwitch
  BY <1>9, SendKeeps
<1>10. ASSUME NEW how \in Reads, Recv(how) PROVE KInv' /\ UrgentSwitch
  BY <1>10, RecvKeeps
<1>11. ASSUME NEW how \in Reads, RecvBlock(how) PROVE KInv' /\ UrgentSwitch
  BY <1>11, RecvBlockKeeps
<1>12. CASE RecvResume
  BY <1>12, RecvResumeKeeps
<1> QED
  BY <1>1, <1>2, <1>3, <1>4, <1>5, <1>6, <1>7, <1>8, <1>9, <1>10, <1>11, <1>12 DEF Next

\* The invariant depends on the kernel's variables alone.
LEMMA StutterKeeps ==
  ASSUME KInv, UNCHANGED vars
  PROVE  KInv' /\ UrgentSwitch
<1>1. UNCHANGED <<rq, state, priv, ustack, mailbox, cont, gp_current_task,
                  g_num_active_tasks, kblocks, boot>>
  BY DEF vars
<1> QED
  BY <1>1 DEF KInv, Data, UrgentSwitch

\* What the invariant says of the queue and the task states.
LEMMA QueueOfKInv ==
  ASSUME KInv
  PROVE  WellFormed(rq) /\ ReadyIffQueued /\ CurrentRuns
<1>1. /\ gp_current_task \in Tid /\ rq \in PRIO_Q
      /\ Holds(rq, {t \in Tid : state[t] = READY} \cup {TID_NULL})
      /\ CurrentRuns
  BY DEF KInv, Standing, CurrentRuns
<1>2. PICK f \in [Prio -> Fifo] :
        Represents(rq, f) /\ Members(f) = {t \in Tid : state[t] = READY} \cup {TID_NULL}
  BY <1>1 DEF Holds
<1>3. WellFormed(rq)
  BY <1>2, WellFormedIff
<1>4. ReadyIffQueued
  <2> SUFFICES ASSUME NEW t \in Tid
               PROVE  Queued(rq, t) <=> (state[t] = READY \/ t = TID_NULL)
    BY DEF ReadyIffQueued
  <2>1. Queued(rq, t) <=> t \in Members(f)
    BY <1>1, <1>2, QueuedIffMember
  <2> QED
    BY <2>1, <1>2
<1> QED
  BY <1>1, <1>3, <1>4

\* What the invariant says of the mailboxes and the counters.
LEMMA DataOfKInv ==
  ASSUME KInv
  PROVE  ActiveCountExact /\ NoLostWakeup /\ ResumeFindsMessage /\ HeapBlocksOwned
<1>1. /\ Waiting(state, mailbox, cont)
      /\ Counted(state, priv, ustack, mailbox, g_num_active_tasks, kblocks)
  BY DEF KInv, Data
<1>2. NoLostWakeup /\ ResumeFindsMessage
  BY <1>1 DEF Waiting, NoLostWakeup, ResumeFindsMessage
<1>3. ActiveCountExact /\ HeapBlocksOwned
  BY <1>1 DEF Counted, Alive, Stacked, Boxed, ActiveCountExact, HeapBlocksOwned
<1> QED
  BY <1>2, <1>3

\* The fields of the kernel keep their ranges.
LEMMA TypesOfKInv ==
  ASSUME KInv
  PROVE  TypeOK
<1>1. /\ gp_current_task \in Tid /\ rq \in PRIO_Q /\ state \in [Tid -> States]
      /\ Waiting(state, mailbox, cont)
      /\ Counted(state, priv, ustack, mailbox, g_num_active_tasks, kblocks)
      /\ boot \in [left : 0 .. MAX_TASKS - 1, j : 1 .. MAX_TASKS]
      /\ state[TID_NULL] \in {READY, RUNNING}
  BY DEF KInv, Data, Standing, Ranked, Booting
<1>2. mailbox \in [Tid -> {NULL} \cup 0 .. MBX_CAP]
  BY <1>1 DEF Waiting
<1>3. /\ Alive(state) \in SUBSET Tid /\ Stacked(state, ustack) \in SUBSET Tid
      /\ Boxed(state, mailbox) \in SUBSET Tid
      /\ Alive(state) # {}
  BY <1>1, Ids DEF Alive, Stacked, Boxed, DORMANT, READY, RUNNING
<1>4. g_num_active_tasks \in 1 .. MAX_TASKS
  <2>1. Cardinality(Alive(state)) \in 0 .. MAX_TASKS /\ Cardinality(Alive(state)) # 0
    BY <1>3, TaskSets
  <2> QED
    BY <1>1, <2>1, Ids DEF Counted
<1>5. kblocks \in Nat
  <2>1. Cardinality(Stacked(state, ustack)) \in Nat /\ Cardinality(Boxed(state, mailbox)) \in Nat
    BY <1>3, TaskSets
  <2> QED
    BY <1>1, <2>1 DEF Counted
<1> QED
  BY <1>1, <1>2, <1>4, <1>5 DEF TypeOK, Waiting, Counted

-----------------------------------------------------------------------------
(* First in, first out.                                                    *)

\* What the queue operations do to the order of a queue known by its members: a
\* task that is added, that is moved, or whose TCB is written while it is off the
\* queue lets nobody past another, ...
LEMMA AddHoldsOrder ==
  ASSUME NEW q \in PRIO_Q, NEW M, Holds(q, M), NEW x \in Tid, x \notin M,
         NEW u \in Tid, NEW t \in Tid, t # x, Precedes(pq_add(q, x), u, t)
  PROVE  Precedes(q, u, t)
<1>1. PICK f \in [Prio -> Fifo] : Represents(q, f) /\ Members(f) = M
  BY DEF Holds
<1> QED
  BY <1>1, AddOrder

LEMMA MoveHoldsOrder ==
  ASSUME NEW q \in PRIO_Q, NEW M, Holds(q, M), NEW x \in M, NEW p \in Prio,
         NEW dormant \in BOOLEAN, ~ pq_move_err(q, dormant, p),
         NEW u \in Tid, NEW t \in Tid, t # x, Precedes(pq_move(q, x, dormant, p), u, t)
  PROVE  Precedes(q, u, t)
<1>1. PICK f \in [Prio -> Fifo] : Represents(q, f) /\ Members(f) = M
  BY DEF Holds
<1>2. x \in Members(f) /\ x \in Tid
  BY <1>1 DEF Members
<1>3. pq_move(q, x, dormant, p) = Moved(q, x, p)
  BY <1>1, <1>2, MoveIsMoved
<1> QED
  BY <1>1, <1>2, <1>3, MovedOrder

LEMMA RewriteHoldsOrder ==
  ASSUME NEW q \in PRIO_Q, NEW M, Holds(q, M), NEW x \in Tid, x \notin M, NEW p \in Prio,
         NEW u \in Tid, NEW t \in Tid,
         Precedes(Reprioed(q, x, p), u, t) \/ Precedes(Relinked(q, x, p), u, t)
  PROVE  Precedes(q, u, t)
<1> DEFINE r == [q EXCEPT !.prio[x] = p]
           y == [q EXCEPT !.prio[x] = p, !.prev[x] = NULL, !.next[x] = NULL]
<1>1. PICK f \in [Prio -> Fifo] : Represents(q, f) /\ Members(f) = M
  BY DEF Holds
<1>2. r \in PRIO_Q /\ Represents(r, f)
  BY <1>1, ReprioRepresents
<1>3. y \in PRIO_Q /\ Represents(y, f)
  BY <1>1, RelinkRepresents
<1>4. r = Reprioed(q, x, p) /\ y = Relinked(q, x, p)
  BY DEF Reprioed, Relinked, PRIO_Q
<1> HIDE DEF r, y
<1>5. Precedes(r, u, t) => InFront(f, u, t)
  BY <1>1, <1>2, PrecedesIff
<1>6. Precedes(y, u, t) => InFront(f, u, t)
  BY <1>1, <1>3, PrecedesIff
<1>7. InFront(f, u, t) => Precedes(q, u, t)
  BY <1>1, PrecedesIff
<1> QED
  BY <1>4, <1>5, <1>6, <1>7

\* ... and so does the head that leaves, which was ahead of all of its priority.
LEMMA HeadHoldsOrder ==
  ASSUME NEW q \in PRIO_Q, NEW M, Holds(q, M), NEW t \in M, NEW u \in Tid
  PROVE  /\ Precedes(pq_dequeue(q), u, t) => Precedes(q, u, t)
         /\ u # t /\ u = pq_peek(q) /\ q.prio[u] = q.prio[t] => Precedes(q, u, t)
<1>1. PICK f \in [Prio -> Fifo] : Represents(q, f) /\ Members(f) = M
  BY DEF Holds
<1>2. t \in Members(f) /\ t \in Tid
  BY <1>1 DEF Members
<1>3. Precedes(pq_dequeue(q), u, t) => Precedes(q, u, t)
  BY <1>1, <1>2, DequeueOrder
<1>4. u # t /\ u = pq_peek(q) /\ q.prio[u] = q.prio[t] => Precedes(q, u, t)
  BY <1>1, <1>2, HeadPrecedes
<1> QED
  BY <1>3, <1>4

\* Whoever is ahead of t on q was ahead of it when the step began.
Behind(q, t) == \A u \in Tid : Precedes(q, u, t) => Precedes(rq, u, t)

\* After the step, whoever is ahead of t, or has got the processor at its
\* priority, was ahead of it when the step began.
InTurn(t) ==
  /\ Behind(rq', t)
  /\ \A u \in Tid \ {t} :
       u = gp_current_task' /\ u # gp_current_task /\ rq'.prio[u] = rq'.prio[t]
         => Precedes(rq, u, t)

\* The scheduler takes the head.
LEMMA RunNewOrder ==
  ASSUME NEW q, NEW st, gp_current_task \in Tid,
         CanRun(q, st, gp_current_task), run_new(q, st),
         NEW t \in Tid, st[t] = READY, Behind(q, t)
  PROVE  InTurn(t)
<1> DEFINE M == {u \in Tid : st[u] \in {READY, RUNNING}} \cup {TID_NULL}
<1>1. q \in PRIO_Q /\ Holds(q, M) /\ t \in M
  BY DEF CanRun
<1>2. gp_current_task' = pq_peek(q) /\ (rq' = q \/ rq' = pq_dequeue(q))
  BY DEF run_new
<1>3. rq'.prio = q.prio
  BY RunNew
<1> HIDE DEF M
<1>4. ASSUME NEW u \in Tid, Precedes(rq', u, t)
      PROVE  Precedes(rq, u, t)
  <2>1. Precedes(q, u, t)
    BY <1>1, <1>2, <1>4, HeadHoldsOrder
  <2> QED
    BY <2>1 DEF Behind
<1>5. ASSUME NEW u \in Tid \ {t}, u = gp_current_task', rq'.prio[u] = rq'.prio[t]
      PROVE  Precedes(rq, u, t)
  <2>1. u = pq_peek(q) /\ q.prio[u] = q.prio[t]
    BY <1>2, <1>3, <1>5
  <2>2. Precedes(q, u, t)
    BY <2>1, <1>1, <1>5, HeadHoldsOrder
  <2> QED
    BY <2>2 DEF Behind
<1> QED
  BY <1>4, <1>5 DEF InTurn, Behind

\* A call after which the caller goes on.
LEMMA GoOnOrder ==
  ASSUME NEW t, Behind(rq', t), UNCHANGED gp_current_task
  PROVE  InTurn(t)
BY DEF InTurn

\* The caller joins the queue behind t.
LEMMA PutBackOrder ==
  ASSUME NEW q, NEW st, NEW cur \in Tid \ {TID_NULL}, Standing(q, st, cur),
         NEW t \in Tid \ {TID_NULL}, st[t] = READY, Behind(q, t)
  PROVE  Behind(pq_add(q, cur), t)
<1> DEFINE M == {u \in Tid : st[u] = READY} \cup {TID_NULL}
<1>1. q \in PRIO_Q /\ Holds(q, M) /\ st[cur] = RUNNING
  BY DEF Standing
<1>2. cur \notin M /\ t # cur /\ cur \in Tid
  BY <1>1 DEF READY, RUNNING
<1> HIDE DEF M
<1>3. \A u \in Tid : Precedes(pq_add(q, cur), u, t) => Precedes(q, u, t)
  BY <1>1, <1>2, AddHoldsOrder
<1> QED
  BY <1>3 DEF Behind

\* A call that requeues the caller, or goes on.
LEMMA RequeueOrder ==
  ASSUME NEW q, NEW st, gp_current_task \in Tid \ {TID_NULL},
         Standing(q, st, gp_current_task),
         Requeue(q, st) \/ (rq' = q /\ UNCHANGED gp_current_task),
         NEW t \in Tid \ {TID_NULL}, st[t] = READY, Behind(q, t)
  PROVE  InTurn(t)
<1>1. CASE rq' = q /\ UNCHANGED gp_current_task
  BY <1>1, GoOnOrder
<1>2. CASE Requeue(q, st)
  <2>1. ~ pq_full(q) /\ CanRun(pq_add(q, gp_current_task), st, gp_current_task)
    BY PutBackCanRun
  <2>2. run_new(pq_add(q, gp_current_task), st)
    BY <1>2, <2>1 DEF Requeue
  <2>3. Behind(pq_add(q, gp_current_task), t)
    BY PutBackOrder
  <2> QED
    BY <2>1, <2>2, <2>3, RunNewOrder
<1> QED
  BY <1>1, <1>2

\* k_tsk_yield.
LEMMA YieldOrder ==
  ASSUME KInv, Yield, NEW t \in Tid \ {TID_NULL}, state[t] = READY
  PROVE  InTurn(t)
<1>1. gp_current_task \in Tid /\ Standing(rq, state, gp_current_task) /\ Behind(rq, t)
  BY DEF KInv, Behind
<1>2. CASE gp_current_task = TID_NULL
  <2>1. CanRun(rq, state, gp_current_task) /\ run_new(rq, state)
    BY <1>1, <1>2, NullCanRun DEF Yield
  <2> QED
    BY <1>1, <2>1, RunNewOrder
<1>3. CASE gp_current_task # TID_NULL
  <2>1. /\ CanRun(pq_add(rq, gp_current_task), state, gp_current_task)
        /\ run_new(pq_add(rq, gp_current_task), state)
    BY <1>1, <1>3, PutBackCanRun DEF Yield
  <2>2. Behind(pq_add(rq, gp_current_task), t)
    BY <1>1, <1>3, PutBackOrder
  <2> QED
    BY <1>1, <2>1, <2>2, RunNewOrder
<1> QED
  BY <1>2, <1>3

\* The caller changes its own priority, and joins the FIFO of that at its end.
LEMMA SetOwnPrioOrder ==
  ASSUME KInv, NEW p \in TaskPrio, SetOwnPrio(p),
         NEW t \in Tid \ {TID_NULL}, state[t] = READY
  PROVE  InTurn(t)
<1> DEFINE q == Reprioed(rq, gp_current_task, p)
           M == {u \in Tid : state[u] = READY} \cup {TID_NULL}
<1>1. gp_current_task \in Tid \ {TID_NULL} /\ state[gp_current_task] = RUNNING
  BY CallerIs DEF SetOwnPrio
<1>2. Standing(rq, state, gp_current_task) /\ rq \in PRIO_Q /\ Holds(rq, M)
  BY DEF KInv, Standing
<1>3. gp_current_task \notin M /\ state[gp_current_task] # READY
  BY <1>1 DEF READY, RUNNING
<1>4. Standing(q, state, gp_current_task)
  BY <1>1, <1>2, <1>3, ReprioStanding
<1>5. Requeue(q, state) \/ (rq' = q /\ UNCHANGED gp_current_task)
  BY DEF SetOwnPrio, Reprioed
<1>6. Behind(q, t)
  <2> SUFFICES ASSUME NEW u \in Tid, Precedes(q, u, t) PROVE Precedes(rq, u, t)
    BY DEF Behind
  <2> HIDE DEF M
  <2>1. p \in Prio /\ gp_current_task \in Tid
    BY <1>1, Ids
  <2> QED
    BY <1>2, <1>3, <2>1, RewriteHoldsOrder
<1> HIDE DEF q
<1> QED
  BY <1>1, <1>4, <1>5, <1>6, RequeueOrder

\* The priority of another task changes: it joins the end of a FIFO.
LEMMA SetPrioOrder ==
  ASSUME Lapses = {}, KInv, NEW x \in Tid, NEW p \in TaskPrio, SetPrio(x, p),
         NEW t \in Tid \ {TID_NULL}, t # x, state[t] = READY
  PROVE  InTurn(t)
<1> DEFINE d == state[x] = DORMANT
           q == pq_move(rq, x, d, p)
           M == {u \in Tid : state[u] = READY} \cup {TID_NULL}
<1>1. gp_current_task \in Tid \ {TID_NULL}
  BY CallerIs DEF SetPrio
<1>2. /\ x \in Tid \ {TID_NULL} /\ x # gp_current_task
      /\ d \in BOOLEAN /\ ~ pq_move_err(rq, d, p)
      /\ state[x] # BLK_MSG
  BY DEF SetPrio
<1>3. Standing(rq, state, gp_current_task) /\ rq \in PRIO_Q /\ Holds(rq, M)
  BY DEF KInv, Standing
<1>4. state[x] = READY
  <2>1. state[x] # DORMANT
    BY <1>2 DEF pq_move_err
  <2> QED
    BY <2>1, <1>2, <1>3 DEF Standing, States
<1>5. x \in M /\ p \in Prio
  BY <1>4, Ids
<1>6. Requeue(q, state) \/ (rq' = q /\ UNCHANGED gp_current_task)
  BY DEF SetPrio
<1> HIDE DEF d, M
<1>7. Standing(q, state, gp_current_task)
  BY <1>2, <1>3, <1>4, MoveStanding
<1>8. Behind(q, t)
  <2> SUFFICES ASSUME NEW u \in Tid, Precedes(q, u, t) PROVE Precedes(rq, u, t)
    BY DEF Behind
  <2> QED
    BY <1>2, <1>3, <1>5, MoveHoldsOrder
<1> HIDE DEF q
<1> QED
  BY <1>1, <1>6, <1>7, <1>8, RequeueOrder

\* A new task joins the end of its FIFO.
LEMMA BornOrder ==
  ASSUME KInv, NEW x \in Tid \ {TID_NULL}, state[x] = DORMANT, NEW p \in TaskPrio,
         NEW t \in Tid \ {TID_NULL}, state[t] = READY
  PROVE  Behind(pq_add(Reprioed(rq, x, p), x), t) /\ Behind(pq_add(Relinked(rq, x, p), x), t)
<1> DEFINE M == {u \in Tid : state[u] = READY} \cup {TID_NULL}
<1>1. Standing(rq, state, gp_current_task) /\ rq \in PRIO_Q /\ Holds(rq, M)
  BY DEF KInv, Standing
<1>2. x \in Tid /\ x \notin M /\ x # t /\ state[x] # READY /\ p \in Prio
  BY Ids DEF DORMANT, READY
<1>3. /\ Standing(Reprioed(rq, x, p), state, gp_current_task)
      /\ Standing(Relinked(rq, x, p), state, gp_current_task)
  BY <1>1, <1>2, ReprioStanding
<1>4. ASSUME NEW z, z = Reprioed(rq, x, p) \/ z = Relinked(rq, x, p)
      PROVE  Behind(pq_add(z, x), t)
  <2>1. z \in PRIO_Q /\ Holds(z, M)
    BY <1>3, <1>4 DEF Standing
  <2> HIDE DEF M
  <2> SUFFICES ASSUME NEW u \in Tid, Precedes(pq_add(z, x), u, t) PROVE Precedes(rq, u, t)
    BY DEF Behind
  <2>2. Precedes(z, u, t)
    BY <1>2, <2>1, AddHoldsOrder
  <2> QED
    BY <1>1, <1>2, <1>4, <2>2, RewriteHoldsOrder
<1> QED
  BY <1>4

\* k_tsk_create.
LEMMA CreateOrder ==
  ASSUME Lapses = {}, KInv, NEW kcd \in BOOLEAN, NEW alloc \in BOOLEAN,
         NEW p \in TaskPrio, Create(kcd, p, alloc),
         NEW t \in Tid \ {TID_NULL}, state[t] = READY
  PROVE  InTurn(t)
<1> DEFINE x  == NewTid(kcd)
           st == [state EXCEPT ![x] = READY]
           q  == pq_add(Reprioed(rq, x, p), x)
<1>1. gp_current_task \in Tid \ {TID_NULL}
  BY CallerIs DEF Create
<1>2. x \in Tid \ {TID_NULL} /\ state[x] = DORMANT
  BY NewTidIsFree DEF Create
<1>3. Requeue(q, st) \/ (rq' = q /\ UNCHANGED gp_current_task)
  BY DEF Create, Reprioed
<1>4. st[t] = READY
  BY DEF KInv, Standing
<1> HIDE DEF x
<1>5. Standing(q, st, gp_current_task)
  BY <1>2, BornStanding DEF KInv
<1>6. Behind(q, t)
  BY <1>2, BornOrder
<1> HIDE DEF st, q
<1> QED
  BY <1>1, <1>3, <1>4, <1>5, <1>6, RequeueOrder

\* A turn of the boot loop.
LEMMA BootTaskOrder ==
  ASSUME Lapses = {}, KInv, NEW kcd \in BOOLEAN, NEW pr \in BOOLEAN,
         NEW p \in TaskPrio, BootTask(kcd, p, pr),
         NEW t \in Tid \ {TID_NULL}, state[t] = READY
  PROVE  InTurn(t)
<1> DEFINE x == IF kcd THEN TID_KCD ELSE boot.j
<1>1. rq' = pq_add(Relinked(rq, x, p), x) /\ UNCHANGED gp_current_task
  BY DEF BootTask, Relinked
<1>2. x \in Tid \ {TID_NULL} /\ state[x] = DORMANT
  BY BootSlotIsFree
<1> HIDE DEF x
<1>3. Behind(rq', t)
  BY <1>1, <1>2, BornOrder
<1> QED
  BY <1>1, <1>3, GoOnOrder

\* The caller exits, or waits for a message.
LEMMA LeaveOrder ==
  ASSUME KInv, gp_current_task # TID_NULL, NEW k \in {DORMANT, BLK_MSG},
         run_new(rq, [state EXCEPT ![gp_current_task] = k]),
         NEW t \in Tid \ {TID_NULL}, state[t] = READY
  PROVE  InTurn(t)
<1> DEFINE st == [state EXCEPT ![gp_current_task] = k]
<1>1. /\ gp_current_task \in Tid \ {TID_NULL}
      /\ Standing(rq, state, gp_current_task) /\ state \in [Tid -> States]
      /\ state[gp_current_task] = RUNNING
  BY DEF KInv, Standing
<1>2. CanRun(rq, st, gp_current_task)
  BY <1>1, LeaveCanRun
<1>3. st[t] = READY
  BY <1>1 DEF READY, RUNNING
<1>4. Behind(rq, t)
  BY DEF Behind
<1> HIDE DEF st
<1> QED
  BY <1>1, <1>2, <1>3, <1>4, RunNewOrder DEF st

\* k_send_msg: a receiver that waited joins the end of its FIFO, and so does the
\* sender if it gives way.
LEMMA SendOrder ==
  ASSUME KInv, NEW r \in Tid, Send(r), NEW t \in Tid \ {TID_NULL}, state[t] = READY
  PROVE  InTurn(t)
<1> DEFINE c     == gp_current_task
           woken == [state EXCEPT ![r] = READY]
           both  == [woken EXCEPT ![c] = READY]
           M     == {u \in Tid : state[u] = READY} \cup {TID_NULL}
<1>1. c \in Tid \ {TID_NULL} /\ state[c] = RUNNING
  BY CallerIs DEF Send
<1>2. /\ Standing(rq, state, c) /\ state \in [Tid -> States]
      /\ rq \in PRIO_Q /\ Holds(rq, M)
      /\ Behind(rq, t)
  BY DEF KInv, Standing, Behind
<1>3. CASE ~ Wakes(r)
  <2>1. UNCHANGED <<rq, gp_current_task>>
    BY <1>3 DEF Send
  <2> QED
    BY <1>2, <2>1, GoOnOrder
<1>4. CASE Wakes(r)
  <2>1. r # c /\ state[r] = BLK_MSG
    BY <1>4 DEF Wakes
  <2>2. r # TID_NULL
    BY <2>1, <1>2 DEF Standing, Ranked, READY, RUNNING, BLK_MSG
  <2>3. c \notin M /\ r \notin M /\ t # c /\ t # r
    BY <1>1, <2>1, <2>2 DEF READY, RUNNING, BLK_MSG
  <2>4. both[t] = READY
    BY <1>2, <2>3
  <2> HIDE DEF M
  <2>5. CASE rq.prio[r] < rq.prio[c]
    <3>1. run_new(pq_add(pq_add(rq, c), r), both)
      BY <1>4, <2>5 DEF Send
    <3>2. CanRun(pq_add(pq_add(rq, c), r), both, c)
      BY <1>1, <1>2, <2>1, <2>2, SendCanRun
    <3> HIDE DEF woken, both
    <3>3. pq_add(rq, c) \in PRIO_Q /\ Holds(pq_add(rq, c), M \cup {c})
      BY <1>1, <1>2, <2>3, AddHolds
    <3>4. ASSUME NEW u \in Tid, Precedes(pq_add(pq_add(rq, c), r), u, t)
          PROVE  Precedes(rq, u, t)
      <4>1. Precedes(pq_add(rq, c), u, t)
        BY <2>1, <2>3, <3>3, <3>4, AddHoldsOrder
      <4> QED
        BY <1>1, <1>2, <2>3, <4>1, AddHoldsOrder
    <3>5. Behind(pq_add(pq_add(rq, c), r), t)
      BY <3>4 DEF Behind
    <3> QED
      BY <1>1, <2>4, <3>1, <3>2, <3>5, RunNewOrder
  <2>6. CASE ~ (rq.prio[r] < rq.prio[c])
    <3>1. rq' = pq_add(rq, r) /\ UNCHANGED gp_current_task
      BY <1>4, <2>6 DEF Send, QueueBehind
    <3>2. Behind(rq', t)
      BY <1>2, <2>3, <3>1, AddHoldsOrder DEF Behind
    <3> QED
      BY <3>1, <3>2, GoOnOrder
  <2> QED
    BY <2>5, <2>6
<1> QED
  BY <1>3, <1>4

\* Of all steps of the kernel only k_tsk_set_prio of t itself lets others past t.
LEMMA NextOrder ==
  ASSUME Lapses = {}, KInv, Next, NEW t \in Tid \ {TID_NULL}, state[t] = READY
  PROVE  InTurn(t) \/ \E p \in TaskPrio : SetPrio(t, p)
<1>1. CASE UNCHANGED <<rq, gp_current_task>>
  BY <1>1, GoOnOrder DEF Behind
<1>2. ASSUME NEW kcd \in BOOLEAN, NEW pr \in BOOLEAN, NEW p \in TaskPrio,
             BootTask(kcd, p, pr)
      PROVE  InTurn(t)
  BY <1>2, BootTaskOrder
<1>3. CASE Yield
  BY <1>3, YieldOrder
<1>4. ASSUME NEW kcd \in BOOLEAN, NEW alloc \in BOOLEAN, NEW p \in TaskPrio,
             Create(kcd, p, alloc)
      PROVE  InTurn(t)
  BY <1>4, CreateOrder
<1>5. CASE Exit
  BY <1>5, LeaveOrder DEF Exit, Calls
<1>6. ASSUME NEW p \in TaskPrio, SetOwnPrio(p) PROVE InTurn(t)
  BY <1>6, SetOwnPrioOrder
<1>7. ASSUME NEW x \in Tid, NEW p \in TaskPrio, SetPrio(x, p)
      PROVE  InTurn(t) \/ SetPrio(t, p)
  BY <1>7, SetPrioOrder
<1>8. ASSUME NEW r \in Tid, Send(r) PROVE InTurn(t)
  BY <1>8, SendOrder
<1>9. ASSUME NEW how \in Reads, RecvBlock(how) PROVE InTurn(t)
  BY <1>9, LeaveOrder DEF RecvBlock, Calls
<1>10. BootStop \/ MbxCreate \/ RecvResume \/ (\E how \in Reads : Recv(how))
         => UNCHANGED <<rq, gp_current_task>>
  BY DEF BootStop, MbxCreate, RecvResume, Recv
<1> QED
  BY <1>1, <1>2, <1>3, <1>4, <1>5, <1>6, <1>7, <1>8, <1>9, <1>10 DEF Next

\* What NoOvertaking says of one step.
OrderStep ==
  \A t, u \in Tid \ {TID_NULL} :
     /\ state[t] = READY /\ state'[t] = READY
     /\ ~ Before(u, t)
     /\ rq'.prio[u] = rq'.prio[t]
     /\ Before(u, t)' \/ u \in {gp_current_task'} \ {gp_current_task}
     => \E p \in TaskPrio : SetPrio(t, p)

\* A step in which every ready task keeps its turn is such a step.
LEMMA TurnsAreOrder ==
  ASSUME KInv',
         \A t \in Tid \ {TID_NULL} :
            state[t] = READY => InTurn(t) \/ \E p \in TaskPrio : SetPrio(t, p)
  PROVE  OrderStep
<1> SUFFICES ASSUME NEW t \in Tid \ {TID_NULL}, NEW u \in Tid \ {TID_NULL},
                    InTurn(t), state'[t] = READY, rq'.prio[u] = rq'.prio[t],
                    Before(u, t)' \/ u \in {gp_current_task'} \ {gp_current_task}
             PROVE  Before(u, t)
  BY DEF OrderStep
<1>1. CASE Before(u, t)'
  <2>1. Precedes(rq', u, t)
    BY <1>1 DEF Before, Precedes
  <2>2. Precedes(rq, u, t)
    BY <2>1 DEF InTurn, Behind
  <2> QED
    BY <2>2 DEF Before, Precedes
<1>2. CASE u = gp_current_task' /\ u # gp_current_task
  <2>1. state'[u] = RUNNING
    BY <1>2 DEF KInv, Standing
  <2>2. u # t
    BY <2>1 DEF READY, RUNNING
  <2>3. Precedes(rq, u, t)
    BY <1>2, <2>2 DEF InTurn
  <2> QED
    BY <2>3 DEF Before, Precedes
<1> QED
  BY <1>1, <1>2

\* Every step of the kernel is one.
LEMMA NextIsOrderStep ==
  ASSUME Lapses = {}, KInv, Next
  PROVE  OrderStep
<1>1. KInv'
  BY NextKeeps
<1>2. \A t \in Tid \ {TID_NULL} :
        state[t] = READY => InTurn(t) \/ \E p \in TaskPrio : SetPrio(t, p)
  BY NextOrder
<1> QED
  BY <1>1, <1>2, TurnsAreOrder

-----------------------------------------------------------------------------
(* Strict priority.                                                        *)

\* While the boot loop runs the null task is current; any other task that is
\* current is as urgent as those that are ready.
StrictInv ==
  /\ boot.left > 0 => gp_current_task = TID_NULL
  /\ gp_current_task # TID_NULL =>
       \A t \in Tid : state[t] = READY => rq.prio[gp_current_task] <= rq.prio[t]

\* The current task is as urgent as those that are ready.
UrgentNow ==
  \A t \in Tid : state'[t] = READY => rq'.prio[gp_current_task'] <= rq'.prio[t]

\* A call that requeues the caller.
LEMMA RequeueUrgent ==
  ASSUME NEW q, NEW st, gp_current_task \in Tid \ {TID_NULL},
         Standing(q, st, gp_current_task), Requeue(q, st)
  PROVE  UrgentNow
<1>1. ~ pq_full(q) /\ CanRun(pq_add(q, gp_current_task), st, gp_current_task)
  BY PutBackCanRun
<1>2. run_new(pq_add(q, gp_current_task), st)
  BY <1>1 DEF Requeue
<1> QED
  BY <1>1, <1>2, RunNew DEF UrgentNow

\* A call that compares the caller with the head of the queue it leaves, and
\* goes on if the head is no more urgent.
LEMMA GoOnUrgent ==
  ASSUME gp_current_task \in Tid, Standing(rq', state', gp_current_task),
         UNCHANGED gp_current_task,
         ~ (rq'.prio[pq_peek(rq')] < rq'.prio[gp_current_task])
  PROVE  UrgentNow
<1> DEFINE M == {t \in Tid : state'[t] = READY} \cup {TID_NULL}
           h == pq_peek(rq')
<1>1. rq' \in PRIO_Q /\ Holds(rq', M) /\ M # {}
  BY DEF Standing
<1> HIDE DEF M
<1>2. h \in Tid /\ \A t \in M : rq'.prio[h] <= rq'.prio[t]
  BY <1>1, HeadHolds
<1> SUFFICES ASSUME NEW t \in Tid, state'[t] = READY
             PROVE  rq'.prio[gp_current_task] <= rq'.prio[t]
  BY DEF UrgentNow
<1>3. rq'.prio[h] <= rq'.prio[t]
  BY <1>2 DEF M
<1>4. rq'.prio[h] \in Nat /\ rq'.prio[t] \in Nat /\ rq'.prio[gp_current_task] \in Nat
  BY <1>1, <1>2, PrioOf
<1> QED
  BY <1>3, <1>4

\* k_tsk_yield.
LEMMA YieldUrgent ==
  ASSUME KInv, Yield
  PROVE  UrgentNow
<1>1. gp_current_task \in Tid /\ Standing(rq, state, gp_current_task)
  BY DEF KInv
<1>2. CASE gp_current_task = TID_NULL
  <2>1. CanRun(rq, state, gp_current_task) /\ run_new(rq, state)
    BY <1>1, <1>2, NullCanRun DEF Yield
  <2> QED
    BY <1>1, <2>1, RunNew DEF UrgentNow
<1>3. CASE gp_current_task # TID_NULL
  <2>1. /\ CanRun(pq_add(rq, gp_current_task), state, gp_current_task)
        /\ run_new(pq_add(rq, gp_current_task), state)
    BY <1>1, <1>3, PutBackCanRun DEF Yield
  <2> QED
    BY <1>1, <2>1, RunNew DEF UrgentNow
<1> QED
  BY <1>2, <1>3

\* k_tsk_set_prio of the caller.
LEMMA SetOwnPrioUrgent ==
  ASSUME KInv, NEW p \in TaskPrio, SetOwnPrio(p)
  PROVE  UrgentNow
<1> DEFINE q == Reprioed(rq, gp_current_task, p)
<1>1. gp_current_task \in Tid \ {TID_NULL} /\ state[gp_current_task] = RUNNING
  BY CallerIs DEF SetOwnPrio
<1>2. Standing(q, state, gp_current_task) /\ q.prio[gp_current_task] = p
  <2>1. Standing(rq, state, gp_current_task) /\ state[gp_current_task] # READY
    BY <1>1 DEF KInv, READY, RUNNING
  <2> QED
    BY <1>1, <2>1, ReprioStanding
<1>3. \/ Requeue(q, state)
      \/ /\ ~ (q.prio[pq_peek(q)] <= p)
         /\ rq' = q /\ UNCHANGED <<state, gp_current_task>>
  BY DEF SetOwnPrio, Reprioed
<1> HIDE DEF q
<1>4. CASE Requeue(q, state)
  BY <1>1, <1>2, <1>4, RequeueUrgent
<1>5. CASE /\ ~ (q.prio[pq_peek(q)] <= p)
           /\ rq' = q /\ UNCHANGED <<state, gp_current_task>>
  <2>1. q \in PRIO_Q /\ pq_peek(q) \in Tid
    <3>1. q \in PRIO_Q /\ Holds(q, {t \in Tid : state[t] = READY} \cup {TID_NULL})
      BY <1>2 DEF Standing
    <3> QED
      BY <3>1, HeadHolds
  <2>2. q.prio[pq_peek(q)] \in Nat /\ q.prio[gp_current_task] \in Nat
    BY <1>1, <2>1, PrioOf
  <2>3. ~ (q.prio[pq_peek(q)] < q.prio[gp_current_task])
    BY <1>2, <1>5, <2>2
  <2> QED
    BY <1>1, <1>2, <1>5, <2>3, GoOnUrgent
<1> QED
  BY <1>3, <1>4, <1>5

\* k_tsk_create.
LEMMA CreateUrgent ==
  ASSUME Lapses = {}, KInv, NEW kcd \in BOOLEAN, NEW alloc \in BOOLEAN,
         NEW p \in TaskPrio, Create(kcd, p, alloc)
  PROVE  UrgentNow
<1> DEFINE t  == NewTid(kcd)
           st == [state EXCEPT ![t] = READY]
           q  == pq_add(Reprioed(rq, t, p), t)
<1>1. gp_current_task \in Tid \ {TID_NULL}
  BY CallerIs DEF Create
<1>2. t \in Tid \ {TID_NULL} /\ state[t] = DORMANT
  BY NewTidIsFree DEF Create
<1>3. ~ pq_full(rq) /\ Standing(q, st, gp_current_task)
  <2>1. Standing(rq, state, gp_current_task)
    BY DEF KInv
  <2> HIDE DEF t
  <2> QED
    BY <1>2, <2>1, BornStanding
<1>4. \/ Requeue(q, st)
      \/ /\ ~ (q.prio[pq_peek(q)] < q.prio[gp_current_task])
         /\ rq' = q /\ state' = st /\ UNCHANGED gp_current_task
  BY <1>3 DEF Create, Reprioed
<1> HIDE DEF st, q
<1>5. CASE Requeue(q, st)
  BY <1>1, <1>3, <1>5, RequeueUrgent
<1>6. CASE /\ ~ (q.prio[pq_peek(q)] < q.prio[gp_current_task])
           /\ rq' = q /\ state' = st /\ UNCHANGED gp_current_task
  BY <1>1, <1>3, <1>6, GoOnUrgent
<1> QED
  BY <1>4, <1>5, <1>6

\* k_tsk_exit, and k_recv_msg of an empty mailbox.
LEMMA LeaveUrgent ==
  ASSUME KInv, gp_current_task # TID_NULL, NEW k \in {DORMANT, BLK_MSG},
         run_new(rq, [state EXCEPT ![gp_current_task] = k])
  PROVE  UrgentNow
<1>1. gp_current_task \in Tid \ {TID_NULL} /\ Standing(rq, state, gp_current_task)
  BY DEF KInv
<1>2. CanRun(rq, [state EXCEPT ![gp_current_task] = k], gp_current_task)
  BY <1>1, LeaveCanRun
<1> QED
  BY <1>1, <1>2, RunNew DEF UrgentNow

\* k_send_msg compares the caller with the only task that becomes ready.
LEMMA SendUrgent ==
  ASSUME KInv, StrictInv, NEW r \in Tid, Send(r)
  PROVE  UrgentNow
<1> DEFINE c     == gp_current_task
           woken == [state EXCEPT ![r] = READY]
           both  == [woken EXCEPT ![c] = READY]
<1>1. c \in Tid \ {TID_NULL}
  BY CallerIs DEF Send
<1>2. /\ Standing(rq, state, c) /\ state \in [Tid -> States] /\ rq \in PRIO_Q
      /\ \A t \in Tid : state[t] = READY => rq.prio[c] <= rq.prio[t]
  BY <1>1 DEF KInv, Standing, StrictInv
<1>3. CASE ~ Wakes(r)
  <2>1. UNCHANGED <<rq, state, gp_current_task>>
    BY <1>3 DEF Send
  <2> QED
    BY <1>2, <2>1 DEF UrgentNow
<1>4. CASE Wakes(r)
  <2>1. r # c /\ state[r] = BLK_MSG /\ r # TID_NULL
    BY <1>2, <1>4 DEF Wakes, Standing, Ranked, READY, RUNNING, BLK_MSG
  <2>2. CASE rq.prio[r] < rq.prio[c]
    <3>1. run_new(pq_add(pq_add(rq, c), r), both)
      BY <1>4, <2>2 DEF Send
    <3>2. CanRun(pq_add(pq_add(rq, c), r), both, c)
      BY <1>1, <1>2, <2>1, SendCanRun
    <3> QED
      BY <1>1, <3>1, <3>2, RunNew DEF UrgentNow
  <2>3. CASE ~ (rq.prio[r] < rq.prio[c])
    <3>1. rq' = pq_add(rq, r) /\ state' = woken /\ UNCHANGED gp_current_task
      BY <1>4, <2>3 DEF Send, QueueBehind
    <3>2. rq'.prio = rq.prio
      <4>1. rq.prio[r] < PRIO_NULL
        BY <1>2, <2>1 DEF Standing, Ranked, DORMANT, BLK_MSG
      <4> QED
        BY <1>2, <2>1, <3>1, <4>1, ArriveStanding
    <3>3. rq.prio[c] <= rq.prio[r]
      <4>1. rq.prio[c] \in Nat /\ rq.prio[r] \in Nat
        BY <1>1, <1>2, PrioOf
      <4> QED
        BY <4>1, <2>3
    <3>4. \A t \in Tid : woken[t] = READY => t = r \/ state[t] = READY
      BY <1>2
    <3> HIDE DEF woken
    <3> QED
      BY <1>2, <3>1, <3>2, <3>3, <3>4 DEF UrgentNow
  <2> QED
    BY <2>2, <2>3
<1> QED
  BY <1>3, <1>4

\* Only k_tsk_set_prio of another task can leave the processor with a task that
\* is not a most urgent one: it compares the caller with a head that is stale.
LEMMA NextStrict ==
  ASSUME Lapses = {}, KInv, StrictInv,
         CooperativeNext \/ \E p \in TaskPrio : SetOwnPrio(p)
  PROVE  StrictInv'
<1>0. Next
  BY DEF Next, CooperativeNext
<1>1. ASSUME boot.left > 0 PROVE StrictInv'
  <2>1. gp_current_task = TID_NULL /\ ~ Running
    BY <1>1 DEF StrictInv, Running, KInv, Data, Booting
  <2>2. UNCHANGED gp_current_task
    BY <1>0, <1>1, <2>1 DEF Next, BootStop, BootTask, Yield, Create, Exit, SetOwnPrio, SetPrio,
                      MbxCreate, Send, Recv, RecvBlock, RecvResume, Calls
  <2> QED
    BY <2>1, <2>2 DEF StrictInv
<1>2. ASSUME boot.left = 0 PROVE StrictInv'
  <2>1. boot'.left = 0
    BY <1>0, <1>2, BootStays
  <2>2. ASSUME UNCHANGED <<rq, state, gp_current_task>>
        PROVE  StrictInv'
    BY <2>1, <2>2 DEF StrictInv
  <2>3. CASE Yield
    BY <2>1, <2>3, YieldUrgent DEF StrictInv, UrgentNow
  <2>4. ASSUME NEW kcd \in BOOLEAN, NEW alloc \in BOOLEAN, NEW p \in TaskPrio,
               Create(kcd, p, alloc)
        PROVE  StrictInv'
    BY <2>1, <2>4, CreateUrgent DEF StrictInv, UrgentNow
  <2>5. CASE Exit
    <3>1. UrgentNow
      BY <2>5, LeaveUrgent DEF Exit, Calls
    <3> QED
      BY <2>1, <3>1 DEF StrictInv, UrgentNow
  <2>6. ASSUME NEW p \in TaskPrio, SetOwnPrio(p) PROVE StrictInv'
    BY <2>1, <2>6, SetOwnPrioUrgent DEF StrictInv, UrgentNow
  <2>7. ASSUME NEW r \in Tid, Send(r) PROVE StrictInv'
    BY <2>1, <2>7, SendUrgent DEF StrictInv, UrgentNow
  <2>8. ASSUME NEW how \in Reads, RecvBlock(how) PROVE StrictInv'
    <3>1. UrgentNow
      BY <2>8, LeaveUrgent DEF RecvBlock, Calls
    <3> QED
      BY <2>1, <3>1 DEF StrictInv, UrgentNow
  <2>9. MbxCreate \/ RecvResume \/ (\E how \in Reads : Recv(how))
          => UNCHANGED <<rq, state, gp_current_task>>
    BY DEF MbxCreate, RecvResume, Recv
  <2>10. ~ BootStop
         /\ \A kcd, pr \in BOOLEAN, p \in TaskPrio : ~ BootTask(kcd, p, pr)
    BY <1>2 DEF BootStop, BootTask
  <2> QED
    BY <2>2, <2>3, <2>4, <2>5, <2>6, <2>7, <2>8, <2>9, <2>10
       DEF CooperativeNext
<1>3. boot.left > 0 \/ boot.left = 0
  BY DEF KInv, Data, Booting
<1> QED
  BY <1>1, <1>2, <1>3

\* At boot the null task is current.
LEMMA InitStrict ==
  ASSUME Init
  PROVE  StrictInv
BY DEF Init, StrictInv

-----------------------------------------------------------------------------
(* Bounded waiting.                                                        *)

\* A yield takes the head of the FIFO of every task that is due.
LEMMA YieldShortensWait ==
  ASSUME KInv, Yield, NEW t \in Tid \ {TID_NULL}, Due(t), gp_current_task' # t
  PROVE  Ahead(t)' \subseteq Ahead(t) /\ Ahead(t)' # Ahead(t)
<1> DEFINE q == IF gp_current_task = TID_NULL THEN rq ELSE pq_add(rq, gp_current_task)
           M == {u \in Tid : state[u] \in {READY, RUNNING}} \cup {TID_NULL}
           h == pq_peek(q)
<1>1. /\ gp_current_task \in Tid /\ Standing(rq, state, gp_current_task)
      /\ rq \in PRIO_Q /\ Holds(rq, {u \in Tid : state[u] = READY} \cup {TID_NULL})
      /\ state[t] = READY /\ state[t] # DORMANT
  BY DEF KInv, Standing, Due, READY, DORMANT
<1>2. run_new(q, state) /\ h = gp_current_task'
  BY DEF Yield, run_new
<1>3. CanRun(q, state, gp_current_task) /\ q.prio = rq.prio /\ Behind(q, t)
  <2>1. CASE gp_current_task = TID_NULL
    BY <1>1, <2>1, NullCanRun DEF Behind
  <2>2. CASE gp_current_task # TID_NULL
    <3>1. CanRun(q, state, gp_current_task)
      BY <1>1, <2>2, PutBackCanRun
    <3>2. gp_current_task \notin {u \in Tid : state[u] = READY} \cup {TID_NULL}
      BY <1>1, <2>2 DEF Standing, READY, RUNNING
    <3>3. q.prio = rq.prio
      BY <1>1, <2>2, <3>2, AddHolds
    <3>4. Behind(q, t)
      BY <1>1, <2>2, PutBackOrder DEF Behind
    <3> QED
      BY <3>1, <3>3, <3>4
  <2> QED
    BY <2>1, <2>2
<1> HIDE DEF q
<1>4. q \in PRIO_Q /\ Holds(q, M) /\ t \in M /\ M # {}
  BY <1>1, <1>3 DEF CanRun
<1>5. h \in M /\ h \in Tid /\ q.prio[h] <= q.prio[t]
  <2> HIDE DEF M
  <2> QED
    BY <1>4, HeadHolds
<1>6. rq.prio[h] \in Nat /\ rq.prio[t] \in Nat /\ PRIO_NULL \in Nat
  BY <1>1, <1>5, PrioOf, Ids
<1>7. h # TID_NULL
  <2>1. rq.prio[TID_NULL] = PRIO_NULL /\ rq.prio[t] < PRIO_NULL
    BY <1>1 DEF Standing, Ranked
  <2> QED
    BY <1>3, <1>5, <1>6, <2>1
<1>8. state[h] \in {READY, RUNNING}
  BY <1>5, <1>7
<1>9. rq.prio[t] <= rq.prio[h]
  BY <1>5, <1>7, <1>8 DEF Due
<1>10. q.prio[h] = q.prio[t]
  BY <1>3, <1>5, <1>6, <1>9
<1>11. h # t
  BY <1>2
<1> HIDE DEF h, M
<1>12. Precedes(q, h, t)
  <2>1. h = pq_peek(q)
    BY DEF h
  <2> QED
    BY <1>4, <1>5, <1>10, <1>11, <2>1, HeadHoldsOrder
<1>13. Precedes(rq, h, t)
  BY <1>3, <1>5, <1>12 DEF Behind
<1>14. h \in Ahead(t)
  BY <1>5, <1>13 DEF Ahead, Before, Precedes
<1>15. h \notin Ahead(t)'
  <2>1. KInv'
    BY YieldKeeps
  <2>2. ReadyIffQueued' /\ state'[h] = RUNNING
    <3>1. ReadyIffQueued'
      BY <2>1, QueueOfKInv, PTL
    <3>2. state'[h] = RUNNING
      BY <1>2, <1>5, <1>7, <2>1 DEF KInv, Standing
    <3> QED
      BY <3>1, <3>2
  <2>3. ~ Queued(rq', h)
    BY <1>5, <1>7, <2>2 DEF ReadyIffQueued, READY, RUNNING
  <2> QED
    BY <2>3 DEF Ahead, Before
<1>16. Ahead(t)' \subseteq Ahead(t)
  <2>1. InTurn(t)
    BY <1>1, YieldOrder
  <2> SUFFICES ASSUME NEW u \in Tid, Before(u, t)' PROVE Before(u, t)
    BY DEF Ahead
  <2>2. Precedes(rq', u, t)
    BY DEF Before, Precedes
  <2>3. Precedes(rq, u, t)
    BY <2>1, <2>2 DEF InTurn, Behind
  <2> QED
    BY <2>3 DEF Before, Precedes
<1> QED
  BY <1>14, <1>15, <1>16

\* What WaitShortens says of one step.
WaitStep ==
  \A t \in Tid \ {TID_NULL} :
     Due(t) /\ Yield => \/ gp_current_task' = t
                        \/ Ahead(t)' \subseteq Ahead(t) /\ Ahead(t)' # Ahead(t)

\* Every step is one.
LEMMA NextIsWaitStep ==
  ASSUME KInv
  PROVE  WaitStep
BY YieldShortensWait DEF WaitStep

-----------------------------------------------------------------------------
(* The null task.  Nothing here needs the contract of queue.c, so it holds *)
(* whatever lapses the other calls are allowed.                            *)

\* In the TCBs of q the null task has the lowest priority.
NullIsLast(q) ==
  /\ "prio" \in DOMAIN q /\ TID_NULL \in DOMAIN q.prio
  /\ q.prio[TID_NULL] = PRIO_NULL

NullInv ==
  /\ NullIsLast(rq)
  /\ TID_NULL \in DOMAIN priv /\ priv[TID_NULL]

\* Giving another task a priority leaves that of the null task alone.
LEMMA GiveKeepsNull ==
  ASSUME NEW q, NullIsLast(q), NEW t, t # TID_NULL, NEW p
  PROVE  NullIsLast([q EXCEPT !.prio[t] = p])
BY DEF NullIsLast

\* So do the operations on the lists: they write links, not priorities.
LEMMA AddKeepsNull ==
  ASSUME NEW q, NullIsLast(q), NEW t
  PROVE  NullIsLast(pq_add(q, t))
BY DEF NullIsLast, pq_add, pq_add_node

LEMMA DequeueKeepsNull ==
  ASSUME NEW q, NullIsLast(q)
  PROVE  NullIsLast(pq_dequeue(q))
BY DEF NullIsLast, pq_dequeue

LEMMA RemoveKeepsNull ==
  ASSUME NEW q, NullIsLast(q), NEW t
  PROVE  NullIsLast(pq_remove(q, t))
BY DEF NullIsLast, pq_remove, UnlinkMiddle

LEMMA MoveKeepsNull ==
  ASSUME NEW q, NullIsLast(q), NEW t, t # TID_NULL, NEW dormant, NEW p
  PROVE  NullIsLast(pq_move(q, t, dormant, p))
<1> DEFINE q1 == IF Queued(q, t) THEN pq_remove(q, t) ELSE q
           q2 == [q1 EXCEPT !.prio[t] = p, !.prev[t] = NULL, !.next[t] = NULL]
<1>1. NullIsLast(q1)
  BY RemoveKeepsNull
<1> HIDE DEF q1
<1>2. NullIsLast(q2)
  BY <1>1 DEF NullIsLast
<1> HIDE DEF q2
<1>3. NullIsLast(pq_add(q2, t))
  BY <1>2, AddKeepsNull
<1> QED
  BY <1>3 DEF pq_move, q1, q2

LEMMA RunNewKeepsNull ==
  ASSUME NEW q, NullIsLast(q), NEW st, run_new(q, st)
  PROVE  NullIsLast(rq')
BY DequeueKeepsNull DEF run_new

LEMMA RequeueKeepsNull ==
  ASSUME NEW q, NullIsLast(q), NEW st, Requeue(q, st)
  PROVE  NullIsLast(rq')
BY AddKeepsNull, RunNewKeepsNull DEF Requeue

\* A task that is created gets a TCB of its own.
LEMMA CreateNewKeepsNull ==
  ASSUME NullInv, NEW t, t # TID_NULL, NEW pr, NEW alloc, CreateNew(t, pr, alloc)
  PROVE  TID_NULL \in DOMAIN priv' /\ priv'[TID_NULL]
<1>1. priv' = [priv EXCEPT ![t] = pr]
  BY DEF CreateNew
<1>2. DOMAIN priv' = DOMAIN priv /\ priv'[TID_NULL] = priv[TID_NULL]
  BY <1>1 DEF NullInv
<1> QED
  BY <1>2 DEF NullInv

\* Only a creation that finds no free slot writes to the TCB of the null task.
LEMMA NextKeepsNull ==
  ASSUME "slots_full" \notin Lapses, NullInv, [Next]_vars
  PROVE  NullInv'
<1>1. NullIsLast(rq) /\ TID_NULL \in DOMAIN priv /\ priv[TID_NULL]
  BY DEF NullInv
<1>2. ASSUME UNCHANGED <<rq, priv>> PROVE NullInv'
  BY <1>1, <1>2 DEF NullInv, NullIsLast
<1>3. ASSUME UNCHANGED priv, NullIsLast(rq') PROVE NullInv'
  BY <1>1, <1>3 DEF NullInv, NullIsLast
<1>4. ASSUME NEW kcd \in BOOLEAN, NEW pr \in BOOLEAN, NEW p \in TaskPrio,
             BootTask(kcd, p, pr)
      PROVE  NullInv'
  <2> DEFINE t == IF kcd THEN TID_KCD ELSE boot.j
             q == [rq EXCEPT !.next[t] = NULL, !.prev[t] = NULL, !.prio[t] = p]
  <2>1. t # TID_NULL /\ CreateNew(t, pr, TRUE) /\ rq' = pq_add(q, t)
    BY <1>4 DEF BootTask, CreateContract
  <2> HIDE DEF t
  <2>2. NullIsLast(q)
    BY <1>1, <2>1 DEF NullIsLast
  <2> HIDE DEF q
  <2>3. NullIsLast(rq')
    BY <2>1, <2>2, AddKeepsNull
  <2>4. TID_NULL \in DOMAIN priv' /\ priv'[TID_NULL]
    BY <2>1, CreateNewKeepsNull
  <2> QED
    BY <2>3, <2>4 DEF NullInv, NullIsLast
<1>5. CASE Yield
  <2>1. /\ UNCHANGED priv
        /\ run_new(rq, state) \/ run_new(pq_add(rq, gp_current_task), state)
    BY <1>5 DEF Yield, TaskData
  <2>2. NullIsLast(rq')
    BY <1>1, <2>1, AddKeepsNull, RunNewKeepsNull
  <2> QED
    BY <1>3, <2>1, <2>2
<1>6. ASSUME NEW kcd \in BOOLEAN, NEW alloc \in BOOLEAN, NEW p \in TaskPrio,
             Create(kcd, p, alloc)
      PROVE  NullInv'
  <2> DEFINE t  == NewTid(kcd)
             st == [state EXCEPT ![t] = READY]
             q  == pq_add([rq EXCEPT !.prio[t] = p], t)
  <2>1. /\ t # TID_NULL /\ CreateNew(t, FALSE, alloc)
        /\ Requeue(q, st) \/ rq' = q
    BY <1>6 DEF Create, CreateContract
  <2> HIDE DEF t, st
  <2>2. NullIsLast(q)
    BY <1>1, <2>1, GiveKeepsNull, AddKeepsNull
  <2> HIDE DEF q
  <2>3. NullIsLast(rq')
    BY <2>1, <2>2, RequeueKeepsNull
  <2>4. TID_NULL \in DOMAIN priv' /\ priv'[TID_NULL]
    BY <2>1, CreateNewKeepsNull
  <2> QED
    BY <2>3, <2>4 DEF NullInv, NullIsLast
<1>7. CASE Exit
  <2>1. NullIsLast(rq') /\ UNCHANGED priv
    BY <1>1, <1>7, RunNewKeepsNull DEF Exit
  <2> QED
    BY <1>3, <2>1
<1>8. ASSUME NEW p \in TaskPrio, SetOwnPrio(p) PROVE NullInv'
  <2> DEFINE q == [rq EXCEPT !.prio[gp_current_task] = p]
  <2>1. /\ gp_current_task # TID_NULL /\ UNCHANGED priv
        /\ Requeue(q, state) \/ rq' = q
    BY <1>8 DEF SetOwnPrio, Calls, TaskData
  <2>2. NullIsLast(q)
    BY <1>1, <2>1, GiveKeepsNull
  <2> HIDE DEF q
  <2> QED
    BY <1>3, <2>1, <2>2, RequeueKeepsNull
<1>9. ASSUME NEW t \in Tid, NEW p \in TaskPrio, SetPrio(t, p) PROVE NullInv'
  <2> DEFINE q == pq_move(rq, t, state[t] = DORMANT, p)
  <2>1. /\ t # TID_NULL /\ UNCHANGED priv
        /\ Requeue(q, state) \/ rq' = q
    BY <1>9 DEF SetPrio, TaskData
  <2>2. NullIsLast(q)
    BY <1>1, <2>1, MoveKeepsNull
  <2> HIDE DEF q
  <2> QED
    BY <1>3, <2>1, <2>2, RequeueKeepsNull
<1>10. ASSUME NEW r \in Tid, Send(r) PROVE NullInv'
  <2> DEFINE q == pq_add(pq_add(rq, gp_current_task), r)
  <2>1. /\ UNCHANGED priv
        /\ \/ UNCHANGED rq
           \/ run_new(q, [[state EXCEPT ![r] = READY] EXCEPT ![gp_current_task] = READY])
           \/ rq' = pq_add(rq, r)
    BY <1>10 DEF Send, QueueBehind
  <2>2. NullIsLast(q) /\ NullIsLast(pq_add(rq, r))
    BY <1>1, AddKeepsNull
  <2> HIDE DEF q
  <2>3. NullIsLast(rq')
    BY <1>1, <2>1, <2>2, RunNewKeepsNull
  <2> QED
    BY <1>3, <2>1, <2>3
<1>11. ASSUME NEW how \in Reads, RecvBlock(how) PROVE NullInv'
  <2>1. NullIsLast(rq') /\ UNCHANGED priv
    BY <1>1, <1>11, RunNewKeepsNull DEF RecvBlock
  <2> QED
    BY <1>3, <2>1
<1>12. BootStop \/ MbxCreate \/ RecvResume \/ (\E how \in Reads : Recv(how))
         \/ UNCHANGED vars
         => UNCHANGED <<rq, priv>>
  BY DEF BootStop, MbxCreate, RecvResume, Recv, vars
<1> QED
  BY <1>2, <1>4, <1>5, <1>6, <1>7, <1>8, <1>9, <1>10, <1>11, <1>12 DEF Next

\* k_tsk_init gives it the lowest priority.
LEMMA InitNullInv ==
  ASSUME Init
  PROVE  NullInv
<1> DEFINE q0 == pq_init([ size    |-> 0,
                           next_dq |-> 0,
                           arr     |-> [p \in Prio |-> NULL],
                           next    |-> [t \in Tid |-> NULL],
                           prev    |-> [t \in Tid |-> NULL],
                           prio    |-> [t \in Tid |-> IF t = TID_NULL THEN PRIO_NULL
                                                      ELSE 0] ])
<1>1. NullIsLast(q0)
  BY Ids DEF NullIsLast, pq_init, pq_clear
<1>2. rq = pq_add(q0, TID_NULL) /\ priv = [t \in Tid |-> t = TID_NULL]
  BY DEF Init
<1> HIDE DEF q0
<1>3. NullIsLast(rq)
  BY <1>1, <1>2, AddKeepsNull
<1> QED
  BY <1>2, <1>3, Ids DEF NullInv

-----------------------------------------------------------------------------
(* The theorems.                                                           *)

\* The kernel alone, with no interrupts: as long as no call lapses its state is
\* what k_task.c and k_msg.c take it to be.
THEOREM KernelSafe ==
  ASSUME Lapses = {}
  PROVE  Spec => []KInv /\ SwitchToMostUrgent
<1>1. Init => KInv
  BY InitKInv
<1>2. KInv /\ [Next]_vars => KInv' /\ UrgentSwitch
  BY NextKeeps, StutterKeeps
<1>3. KInv /\ [Next]_vars => KInv' /\ [UrgentSwitch]_vars
  BY <1>2
<1>4. [][UrgentSwitch]_vars => SwitchToMostUrgent
  BY PTL DEF UrgentSwitch, SwitchToMostUrgent
<1> QED
  BY <1>1, <1>3, <1>4, PTL DEF Spec

\* Tasks of one priority run first in, first out: whatever the others call, no one
\* gets past a task that waits in a FIFO of queue.c, nor gets the processor before
\* it, unless k_tsk_set_prio sends that task itself to the end.
THEOREM FirstInFirstOut ==
  ASSUME Lapses = {}
  PROVE  Spec => NoOvertaking
<1>1. Init => KInv
  BY InitKInv
<1>2. KInv /\ [Next]_vars => KInv' /\ [OrderStep]_vars
  BY NextKeeps, StutterKeeps, NextIsOrderStep
<1>3. [][OrderStep]_vars => NoOvertaking
  BY PTL DEF OrderStep, NoOvertaking
<1> QED
  BY <1>1, <1>2, <1>3, PTL DEF Spec

\* No step names another task to k_tsk_set_prio.
NoSetPrio == \A t \in Tid, p \in TaskPrio : ~ SetPrio(t, p)

\* Of all the calls only k_tsk_set_prio of another task can leave the processor
\* with a task while a more urgent one is ready: it compares the caller with a
\* head it read before pq_move (k_task.c), and nothing else reads a stale one.
THEOREM PriorityIsStrict ==
  ASSUME Lapses = {}
  PROVE  Spec /\ [][NoSetPrio]_vars => []StrictPriority
<1>1. Init => KInv /\ StrictInv
  BY InitKInv, InitStrict
<1>2. KInv /\ StrictInv /\ [Next]_vars /\ [NoSetPrio]_vars => KInv' /\ StrictInv'
  <2> SUFFICES ASSUME KInv, StrictInv, [Next]_vars, [NoSetPrio]_vars
               PROVE  KInv' /\ StrictInv'
    OBVIOUS
  <2>1. CASE UNCHANGED vars
    <3>1. UNCHANGED <<rq, state, gp_current_task, boot>>
      BY <2>1 DEF vars
    <3> QED
      BY <2>1, <3>1, StutterKeeps DEF StrictInv
  <2>2. CASE Next /\ NoSetPrio
    <3>1. CooperativeNext \/ \E p \in TaskPrio : SetOwnPrio(p)
      BY <2>2 DEF Next, CooperativeNext, NoSetPrio
    <3> QED
      BY <2>2, <3>1, NextKeeps, NextStrict
  <2> QED
    BY <2>1, <2>2
<1>3. StrictInv => StrictPriority
  BY DEF StrictInv, StrictPriority
<1> QED
  BY <1>1, <1>2, <1>3, PTL DEF Spec

\* Tasks that cooperate call no k_tsk_set_prio: among them priority is strict.
THEOREM CooperationIsStrict ==
  ASSUME Lapses = {}
  PROVE  CooperativeSpec => []StrictPriority
<1>1. Init => KInv /\ StrictInv
  BY InitKInv, InitStrict
<1>2. KInv /\ StrictInv /\ [CooperativeNext]_vars => KInv' /\ StrictInv'
  <2> SUFFICES ASSUME KInv, StrictInv, [CooperativeNext]_vars
               PROVE  KInv' /\ StrictInv'
    OBVIOUS
  <2>1. CASE UNCHANGED vars
    <3>1. UNCHANGED <<rq, state, gp_current_task, boot>>
      BY <2>1 DEF vars
    <3> QED
      BY <2>1, <3>1, StutterKeeps DEF StrictInv
  <2>2. CASE CooperativeNext
    <3>1. Next
      BY <2>2 DEF CooperativeNext, Next
    <3> QED
      BY <2>2, <3>1, NextKeeps, NextStrict
  <2> QED
    BY <2>1, <2>2
<1>3. StrictInv => StrictPriority
  BY DEF StrictInv, StrictPriority
<1> QED
  BY <1>1, <1>2, <1>3, PTL DEF CooperativeSpec

\* Whoever is due waits for no more yields than there are tasks before it.
THEOREM WaitIsBounded ==
  ASSUME Lapses = {}
  PROVE  Spec => WaitShortens
<1>1. KInv => [WaitStep]_vars
  BY NextIsWaitStep
<1>2. Spec => []KInv
  BY KernelSafe
<1>3. [][WaitStep]_vars => WaitShortens
  BY PTL DEF WaitStep, WaitShortens
<1> QED
  BY <1>1, <1>2, <1>3, PTL

\* The null task keeps the lowest priority and its privilege through every call,
\* whatever the others lapse into, unless k_tsk_create is called with only the
\* slot of the KCD free: nothing but the out-parameter that stays 0 leads
\* k_task.c to the TCB of the null task.
THEOREM OnlyFullSlotsHarmNullTask ==
  ASSUME "slots_full" \notin Lapses
  PROVE  Spec => []NullTaskIntact
<1>1. NullInv => NullTaskIntact
  BY DEF NullInv, NullIsLast, NullTaskIntact
<1> QED
  BY <1>1, InitNullInv, NextKeepsNull, PTL DEF Spec

-----------------------------------------------------------------------------
(* Interrupts: kernel/HAL_CA.c over the kernel, for any number of keys     *)
(* that the UART holds.                                                    *)

\* The task under the handler runs or is on the queue: it left the processor, if
\* it did, by one of the handler's sends, and no one else can make it wait.
Handling ==
  /\ rx \in 0 .. RX_FIFO
  /\ handler \in Link
  /\ handler # NULL =>
       /\ handler \in Tid \ {TID_NULL}
       /\ boot.left = 0
       /\ state[handler] \in {READY, RUNNING}
       /\ cont[handler] = "none"

IrqInv == KInv /\ Handling

-----------------------------------------------------------------------------
(* The task under the handler.                                             *)

\* The scheduler makes nobody exit or wait.
LEMMA RunNewKeepsLive ==
  ASSUME NEW q, NEW st \in [Tid -> States], run_new(q, st),
         NEW h \in Tid, st[h] \in {READY, RUNNING}
  PROVE  state'[h] \in {READY, RUNNING}
<1> DEFINE new == pq_peek(q)
           s1  == IF q.next_dq = PRIO_NULL THEN st ELSE [st EXCEPT ![new] = RUNNING]
<1>1. state' = SwitchedOut(s1, new)
  BY DEF run_new
<1>2. s1 \in [Tid -> States] /\ s1[h] \in {READY, RUNNING}
  BY DEF States
<1> HIDE DEF s1, new
<1> QED
  BY <1>1, <1>2 DEF SwitchedOut

\* Nor does a call that requeues its caller.
LEMMA RequeueKeepsLive ==
  ASSUME NEW q, NEW st \in [Tid -> States], Requeue(q, st),
         NEW h \in Tid, st[h] \in {READY, RUNNING}
  PROVE  state'[h] \in {READY, RUNNING}
<1>1. CASE pq_full(q)
  BY <1>1 DEF Requeue
<1>2. CASE ~ pq_full(q)
  <2>1. run_new(pq_add(q, gp_current_task), st)
    BY <1>2 DEF Requeue
  <2> QED
    BY <2>1, RunNewKeepsLive
<1> QED
  BY <1>1, <1>2

\* Nor does a send, by a task or by the handler.
LEMMA SendKeepsLive ==
  ASSUME state \in [Tid -> States], NEW r \in Tid, Send(r),
         NEW h \in Tid, state[h] \in {READY, RUNNING}
  PROVE  state'[h] \in {READY, RUNNING} /\ cont' = cont
<1> DEFINE c     == gp_current_task
           woken == [state EXCEPT ![r] = READY]
           both  == [woken EXCEPT ![c] = READY]
<1>1. /\ woken \in [Tid -> States] /\ woken[h] \in {READY, RUNNING}
      /\ both \in [Tid -> States] /\ both[h] \in {READY, RUNNING}
  BY DEF States
<1>2. \/ UNCHANGED state
      \/ run_new(pq_add(pq_add(rq, c), r), both)
      \/ state' = woken
  BY DEF Send
<1>3. cont' = cont
  BY DEF Send
<1> HIDE DEF woken, both
<1> QED
  BY <1>1, <1>2, <1>3, RunNewKeepsLive

\* A task that is on the queue is taken off it by the scheduler only, whatever
\* the current task calls.
LEMMA ReadyStays ==
  ASSUME KInv, boot.left = 0, Next,
         NEW h \in Tid, h # gp_current_task, state[h] \in {READY, RUNNING}, cont[h] = "none"
  PROVE  state'[h] \in {READY, RUNNING} /\ cont'[h] = "none"
<1>1. /\ state \in [Tid -> States] /\ gp_current_task \in Tid
      /\ cont \in [Tid -> {"none"} \cup Reads]
  BY DEF KInv, Data, Standing, Waiting
<1>2. CASE Yield
  <2>1. PICK q : run_new(q, state)
    BY <1>2 DEF Yield
  <2>2. cont' = cont
    BY <1>2 DEF Yield, TaskData
  <2> QED
    BY <1>1, <2>1, <2>2, RunNewKeepsLive
<1>3. ASSUME NEW kcd \in BOOLEAN, NEW alloc \in BOOLEAN, NEW p \in TaskPrio,
             Create(kcd, p, alloc)
      PROVE  state'[h] \in {READY, RUNNING} /\ cont'[h] = "none"
  <2> DEFINE t  == NewTid(kcd)
             st == [state EXCEPT ![t] = READY]
  <2>1. /\ \/ \E q : Requeue(q, st)
           \/ state' = st
        /\ cont' = [cont EXCEPT ![t] = "none"]
    BY <1>3 DEF Create, CreateNew
  <2> HIDE DEF t
  <2>2. st \in [Tid -> States] /\ st[h] \in {READY, RUNNING}
    BY <1>1 DEF States
  <2>3. cont'[h] = "none"
    BY <1>1, <2>1
  <2> HIDE DEF st
  <2> QED
    BY <2>1, <2>2, <2>3, RequeueKeepsLive
<1>4. CASE Exit
  <2> DEFINE st == [state EXCEPT ![gp_current_task] = DORMANT]
  <2>1. run_new(rq, st) /\ cont' = cont
    BY <1>4 DEF Exit
  <2>2. st \in [Tid -> States] /\ st[h] \in {READY, RUNNING}
    BY <1>1 DEF States
  <2> HIDE DEF st
  <2> QED
    BY <2>1, <2>2, RunNewKeepsLive
<1>5. ASSUME NEW p \in TaskPrio, SetOwnPrio(p)
      PROVE  state'[h] \in {READY, RUNNING} /\ cont'[h] = "none"
  <2>1. /\ \/ \E q : Requeue(q, state)
           \/ state' = state
        /\ cont' = cont
    BY <1>5 DEF SetOwnPrio, TaskData
  <2> QED
    BY <1>1, <2>1, RequeueKeepsLive
<1>6. ASSUME NEW t \in Tid, NEW p \in TaskPrio, SetPrio(t, p)
      PROVE  state'[h] \in {READY, RUNNING} /\ cont'[h] = "none"
  <2>1. /\ \/ \E q : Requeue(q, state)
           \/ state' = state
        /\ cont' = cont
    BY <1>6 DEF SetPrio, TaskData
  <2> QED
    BY <1>1, <2>1, RequeueKeepsLive
<1>7. CASE MbxCreate
  BY <1>7 DEF MbxCreate
<1>8. ASSUME NEW r \in Tid, Send(r)
      PROVE  state'[h] \in {READY, RUNNING} /\ cont'[h] = "none"
  BY <1>1, <1>8, SendKeepsLive
<1>9. ASSUME NEW how \in Reads, Recv(how)
      PROVE  state'[h] \in {READY, RUNNING} /\ cont'[h] = "none"
  BY <1>9 DEF Recv
<1>10. ASSUME NEW how \in Reads, RecvBlock(how)
       PROVE  state'[h] \in {READY, RUNNING} /\ cont'[h] = "none"
  <2> DEFINE st == [state EXCEPT ![gp_current_task] = BLK_MSG]
  <2>1. run_new(rq, st) /\ cont' = [cont EXCEPT ![gp_current_task] = how]
    BY <1>10 DEF RecvBlock
  <2>2. st \in [Tid -> States] /\ st[h] \in {READY, RUNNING}
    BY <1>1 DEF States
  <2>3. cont'[h] = "none"
    BY <1>1, <2>1
  <2> HIDE DEF st
  <2> QED
    BY <2>1, <2>2, <2>3, RunNewKeepsLive
<1>11. CASE RecvResume
  BY <1>1, <1>11 DEF RecvResume
<1>12. ~ BootStop
       /\ \A kcd, pr \in BOOLEAN, p \in TaskPrio : ~ BootTask(kcd, p, pr)
  BY DEF BootStop, BootTask
<1> QED
  BY <1>2, <1>3, <1>4, <1>5, <1>6, <1>7, <1>8, <1>9, <1>10, <1>11, <1>12 DEF Next

-----------------------------------------------------------------------------
(* The invariant with the handler.                                         *)

\* No key and no handler at boot.
LEMMA InitIrqInv ==
  ASSUME IrqInit
  PROVE  IrqInv
<1>1. KInv
  BY InitKInv DEF IrqInit
<1>2. Handling
  BY RxFifoAssumption DEF IrqInit, Handling, Link
<1> QED
  BY <1>1, <1>2 DEF IrqInv

\* The UART counts a key that no one has seen.
LEMMA KeyArrivesKeeps ==
  ASSUME IrqInv, KeyArrives
  PROVE  IrqInv' /\ UrgentSwitch
<1>1. UNCHANGED vars /\ UNCHANGED handler
  BY DEF KeyArrives
<1>2. UNCHANGED <<state, cont, boot>>
  BY <1>1 DEF vars
<1>3. rx' \in 0 .. RX_FIFO
  BY RxFifoAssumption DEF KeyArrives, IrqInv, Handling
<1>4. Handling'
  BY <1>1, <1>2, <1>3 DEF IrqInv, Handling
<1> QED
  BY <1>1, <1>4, StutterKeeps DEF IrqInv

\* The handler starts in a task that is between two calls.
LEMMA TakeInterruptKeeps ==
  ASSUME IrqInv, TakeInterrupt
  PROVE  IrqInv' /\ UrgentSwitch
<1>1. UNCHANGED vars /\ UNCHANGED rx /\ handler' = gp_current_task
  BY DEF TakeInterrupt
<1>2. UNCHANGED <<state, cont, boot>>
  BY <1>1 DEF vars
<1>3. /\ gp_current_task \in Tid \ {TID_NULL}
      /\ state[gp_current_task] = RUNNING
      /\ cont[gp_current_task] = "none"
      /\ boot.left = 0
  BY CallerIs DEF IrqInv, TakeInterrupt, Interruptible
<1>4. Handling'
  BY <1>1, <1>2, <1>3 DEF IrqInv, Handling, Link
<1> QED
  BY <1>1, <1>4, StutterKeeps DEF IrqInv

\* A key is sent to the KCD, or dropped.
LEMMA ReadKeyKeeps ==
  ASSUME IrqInv, ReadKey
  PROVE  IrqInv' /\ UrgentSwitch
<1>1. /\ rx > 0 /\ rx' = rx - 1 /\ handler' = handler /\ handler = gp_current_task
      /\ Send(TID_KCD) \/ UNCHANGED vars
  BY DEF ReadKey, InHandler
<1>2. /\ KInv /\ TID_KCD \in Tid
      /\ gp_current_task \in Tid /\ state \in [Tid -> States]
  BY Ids DEF IrqInv, KInv, Standing
<1>3. KInv' /\ UrgentSwitch
  BY <1>1, <1>2, SendKeeps, StutterKeeps
<1>4. /\ handler # NULL /\ handler \in Tid \ {TID_NULL} /\ boot.left = 0
      /\ state[handler] \in {READY, RUNNING} /\ cont[handler] = "none"
  BY <1>1, <1>2, Ids DEF IrqInv, Handling
<1>5. boot'.left = 0 /\ state'[handler] \in {READY, RUNNING} /\ cont'[handler] = "none"
  <2>1. CASE Send(TID_KCD)
    <3>1. boot' = boot
      BY <2>1 DEF Send
    <3> QED
      BY <2>1, <3>1, <1>2, <1>4, SendKeepsLive
  <2>2. CASE UNCHANGED vars
    BY <2>2, <1>4 DEF vars
  <2> QED
    BY <1>1, <2>1, <2>2
<1>6. rx' \in 0 .. RX_FIFO
  BY <1>1, RxFifoAssumption DEF IrqInv, Handling
<1>7. Handling'
  BY <1>1, <1>4, <1>5, <1>6 DEF Handling, Link
<1> QED
  BY <1>3, <1>7 DEF IrqInv

\* The interrupted task is put back and the scheduler runs.
LEMMA EndInterruptKeeps ==
  ASSUME IrqInv, EndInterrupt
  PROVE  IrqInv' /\ UrgentSwitch
<1>1. /\ handler = gp_current_task /\ handler' = NULL /\ UNCHANGED rx
      /\ run_new(pq_add(rq, gp_current_task), state)
      /\ UNCHANGED <<priv, ustack, mailbox, cont, g_num_active_tasks, kblocks, boot>>
  BY DEF EndInterrupt, InHandler, PutBack, TaskData
<1>2. /\ gp_current_task \in Tid
      /\ Standing(rq, state, gp_current_task)
      /\ Waiting(state, mailbox', cont')
      /\ Counted(state, priv', ustack', mailbox', g_num_active_tasks', kblocks')
      /\ Booting(state, boot')
  BY <1>1 DEF IrqInv, KInv, Data
<1>3. gp_current_task \in Tid \ {TID_NULL}
  BY <1>1, <1>2, Ids DEF IrqInv, Handling
<1>4. CanRun(pq_add(rq, gp_current_task), state, gp_current_task)
  BY <1>2, <1>3, PutBackCanRun
<1>5. KInv' /\ UrgentSwitch
  BY <1>1, <1>2, <1>4, Dispatch
<1>6. Handling'
  BY <1>1 DEF IrqInv, Handling, Link
<1> QED
  BY <1>5, <1>6 DEF IrqInv

\* A task calls the kernel while a handler, if there is one, waits elsewhere.
LEMMA TaskStepKeeps ==
  ASSUME Lapses = {}, IrqInv, TaskStep
  PROVE  IrqInv' /\ UrgentSwitch
<1>1. handler # gp_current_task /\ Next /\ UNCHANGED <<rx, handler>>
  BY DEF TaskStep, InHandler
<1>2. KInv' /\ UrgentSwitch
  BY <1>1, NextKeeps DEF IrqInv
<1>3. ASSUME handler # NULL
      PROVE  boot'.left = 0 /\ state'[handler] \in {READY, RUNNING} /\ cont'[handler] = "none"
  <2>1. /\ handler \in Tid /\ boot.left = 0
        /\ state[handler] \in {READY, RUNNING} /\ cont[handler] = "none"
    BY <1>3 DEF IrqInv, Handling
  <2>2. state'[handler] \in {READY, RUNNING} /\ cont'[handler] = "none"
    BY <2>1, <1>1, ReadyStays DEF IrqInv
  <2>3. boot' = boot
    BY <2>1, <1>1, BootStays
  <2> QED
    BY <2>1, <2>2, <2>3
<1>4. Handling'
  BY <1>1, <1>3 DEF IrqInv, Handling
<1> QED
  BY <1>2, <1>4 DEF IrqInv

\* Every step keeps the invariant, and hands the processor to a most urgent task.
LEMMA IrqNextKeeps ==
  ASSUME Lapses = {}, IrqInv, [IrqNext]_irqVars
  PROVE  IrqInv' /\ UrgentSwitch
<1>1. CASE UNCHANGED irqVars
  <2>1. UNCHANGED vars /\ UNCHANGED <<rx, handler>>
    BY <1>1 DEF irqVars
  <2>2. KInv' /\ UrgentSwitch
    BY <2>1, StutterKeeps DEF IrqInv
  <2>3. UNCHANGED <<state, cont, boot>>
    BY <2>1 DEF vars
  <2>4. Handling'
    BY <2>1, <2>3 DEF IrqInv, Handling
  <2> QED
    BY <2>2, <2>4 DEF IrqInv
<1>2. CASE IrqNext
  BY <1>2, KeyArrivesKeeps, TakeInterruptKeeps, ReadKeyKeeps, EndInterruptKeeps,
     TaskStepKeeps DEF IrqNext
<1> QED
  BY <1>1, <1>2

\* The end of an interrupt: the interrupted task joins the end of its FIFO.
LEMMA EndInterruptOrder ==
  ASSUME IrqInv, EndInterrupt, NEW t \in Tid \ {TID_NULL}, state[t] = READY
  PROVE  InTurn(t)
<1>1. handler = gp_current_task /\ run_new(pq_add(rq, gp_current_task), state)
  BY DEF EndInterrupt, InHandler, PutBack
<1>2. /\ gp_current_task \in Tid \ {TID_NULL}
      /\ Standing(rq, state, gp_current_task)
      /\ Behind(rq, t)
  BY <1>1, Ids DEF IrqInv, KInv, Handling, Behind
<1>3. CanRun(pq_add(rq, gp_current_task), state, gp_current_task)
  BY <1>2, PutBackCanRun
<1>4. Behind(pq_add(rq, gp_current_task), t)
  BY <1>2, PutBackOrder
<1> QED
  BY <1>1, <1>2, <1>3, <1>4, RunNewOrder

\* No step of the handler lets anybody past a task that waits.
LEMMA IrqNextOrder ==
  ASSUME Lapses = {}, IrqInv, [IrqNext]_irqVars
  PROVE  [OrderStep]_vars
<1>1. KInv /\ KInv'
  BY IrqNextKeeps DEF IrqInv
<1>2. CASE UNCHANGED vars
  BY <1>2
<1>3. CASE Send(TID_KCD)
  <2>1. \A t \in Tid \ {TID_NULL} : state[t] = READY => InTurn(t)
    BY <1>1, <1>3, Ids, SendOrder
  <2> QED
    BY <1>1, <2>1, TurnsAreOrder
<1>4. CASE EndInterrupt
  <2>1. \A t \in Tid \ {TID_NULL} : state[t] = READY => InTurn(t)
    BY <1>4, EndInterruptOrder
  <2> QED
    BY <1>1, <2>1, TurnsAreOrder
<1>5. CASE TaskStep
  BY <1>1, <1>5, NextIsOrderStep DEF TaskStep
<1>6. \/ UNCHANGED vars
      \/ Send(TID_KCD)
      \/ EndInterrupt
      \/ TaskStep
  BY DEF IrqNext, irqVars, KeyArrives, TakeInterrupt, ReadKey
<1> QED
  BY <1>2, <1>3, <1>4, <1>5, <1>6

\* The interrupted task is weighed at the end against those that became ready,
\* and the KCD when it is woken: the handler leaves nobody behind.
LEMMA IrqNextStrict ==
  ASSUME Lapses = {}, IrqInv, StrictInv, [IrqNext]_irqVars, [NoSetPrio]_vars
  PROVE  StrictInv'
<1>1. ASSUME UNCHANGED vars PROVE StrictInv'
  <2>1. UNCHANGED <<rq, state, gp_current_task, boot>>
    BY <1>1 DEF vars
  <2> QED
    BY <2>1 DEF StrictInv
<1>2. CASE Send(TID_KCD)
  <2>1. CooperativeNext
    BY <1>2, Ids DEF CooperativeNext
  <2> QED
    BY <2>1, NextStrict DEF IrqInv
<1>3. CASE EndInterrupt
  <2>1. /\ handler = gp_current_task
        /\ run_new(pq_add(rq, gp_current_task), state)
        /\ UNCHANGED boot
    BY <1>3 DEF EndInterrupt, InHandler, PutBack, TaskData
  <2>2. /\ gp_current_task \in Tid \ {TID_NULL}
        /\ Standing(rq, state, gp_current_task)
        /\ boot.left = 0
    BY <2>1, Ids DEF IrqInv, KInv, Handling
  <2>3. CanRun(pq_add(rq, gp_current_task), state, gp_current_task)
    BY <2>2, PutBackCanRun
  <2>4. UrgentNow
    BY <2>1, <2>2, <2>3, RunNew DEF UrgentNow
  <2> QED
    BY <2>1, <2>2, <2>4 DEF StrictInv, UrgentNow
<1>4. CASE Next
  <2>1. CASE UNCHANGED vars
    BY <1>1, <2>1
  <2>2. CASE NoSetPrio
    <3>1. CooperativeNext \/ \E p \in TaskPrio : SetOwnPrio(p)
      BY <1>4, <2>2 DEF Next, CooperativeNext, NoSetPrio
    <3> QED
      BY <3>1, NextStrict DEF IrqInv
  <2> QED
    BY <2>1, <2>2
<1>5. \/ UNCHANGED vars
      \/ Send(TID_KCD)
      \/ EndInterrupt
      \/ Next
  BY DEF IrqNext, irqVars, KeyArrives, TakeInterrupt, ReadKey, TaskStep
<1> QED
  BY <1>1, <1>2, <1>3, <1>4, <1>5

\* The invariant always holds.
LEMMA Invariance ==
  ASSUME Lapses = {}
  PROVE  IrqSpec => []IrqInv
<1>1. IrqInit => IrqInv
  BY InitIrqInv
<1>2. IrqInv /\ [IrqNext]_irqVars => IrqInv'
  BY IrqNextKeeps
<1> QED
  BY <1>1, <1>2, PTL DEF IrqSpec

-----------------------------------------------------------------------------
(* The theorems about the kernel under interrupts.                         *)

\* No field of the kernel leaves its range: a mailbox that the handler and the
\* tasks both fill holds no more than fits, num_msgs never wraps, and
\* g_num_active_tasks stays within the TCBs.
THEOREM TypeCorrect ==
  ASSUME Lapses = {}
  PROVE  IrqSpec => []IrqTypeOK
<1>1. IrqInv => IrqTypeOK
  BY TypesOfKInv DEF IrqInv, Handling, IrqTypeOK
<1> QED
  BY <1>1, Invariance, PTL

\* The pointers of the ready queue spell out FIFOs after every call and every
\* turn of the handler: k_task.c, k_msg.c and HAL_CA.c call queue.c only in ways
\* that keep its lists whole.
THEOREM QueueIsWellFormed ==
  ASSUME Lapses = {}
  PROVE  IrqSpec => []QueueWellFormed
<1>1. IrqInv => QueueWellFormed
  BY QueueOfKInv DEF IrqInv, QueueWellFormed
<1> QED
  BY <1>1, Invariance, PTL

\* Whoever is READY is on the queue, and nobody else but the null task: no task
\* is forgotten, queued twice or run while it waits.
THEOREM ReadyTasksAreQueued ==
  ASSUME Lapses = {}
  PROVE  IrqSpec => []ReadyIffQueued
<1>1. IrqInv => ReadyIffQueued
  BY QueueOfKInv DEF IrqInv
<1> QED
  BY <1>1, Invariance, PTL

\* Of the tasks above the null task, RUNNING is the current one alone.
THEOREM OnlyCurrentRuns ==
  ASSUME Lapses = {}
  PROVE  IrqSpec => []CurrentRuns
<1>1. IrqInv => CurrentRuns
  BY QueueOfKInv DEF IrqInv
<1> QED
  BY <1>1, Invariance, PTL

\* g_num_active_tasks counts the tasks that are not dormant, whatever the order
\* of boot, creation and exit.
THEOREM ActiveCountIsExact ==
  ASSUME Lapses = {}
  PROVE  IrqSpec => []ActiveCountExact
<1>1. IrqInv => ActiveCountExact
  BY DataOfKInv DEF IrqInv
<1> QED
  BY <1>1, Invariance, PTL

\* A task that waits for a message has an empty mailbox: no send of a task or of
\* the handler slips in between the test of num_msgs and the switch.
THEOREM NoWakeupIsLost ==
  ASSUME Lapses = {}
  PROVE  IrqSpec => []NoLostWakeup
<1>1. IrqInv => NoLostWakeup
  BY DataOfKInv DEF IrqInv
<1> QED
  BY <1>1, Invariance, PTL

\* A receiver that runs again finds a message, so the cq_read after its switch,
\* which tests nothing, never reads an empty ring.
THEOREM WokenReceiverHasMessage ==
  ASSUME Lapses = {}
  PROVE  IrqSpec => []ResumeFindsMessage
<1>1. IrqInv => ResumeFindsMessage
  BY DataOfKInv DEF IrqInv
<1> QED
  BY <1>1, Invariance, PTL

\* The kernel's heap blocks are the stacks and the mailboxes of the tasks that
\* live: none leaks, and none is freed twice.
THEOREM NoKernelBlockLeaks ==
  ASSUME Lapses = {}
  PROVE  IrqSpec => []HeapBlocksOwned
<1>1. IrqInv => HeapBlocksOwned
  BY DataOfKInv DEF IrqInv
<1> QED
  BY <1>1, Invariance, PTL

\* The task under the handler can always be dispatched again, so an interrupt
\* that has been acknowledged can be ended.
THEOREM HandlerGoesOn ==
  ASSUME Lapses = {}
  PROVE  IrqSpec => []HandlerCanGoOn
<1>1. IrqInv => HandlerCanGoOn
  BY Ids DEF IrqInv, Handling, HandlerCanGoOn, Link
<1> QED
  BY <1>1, Invariance, PTL

\* Every change of hands, by a call, by a send of the handler or at the end of
\* an interrupt, gives the processor to a task as urgent as any that is ready.
THEOREM MostUrgentIsDispatched ==
  ASSUME Lapses = {}
  PROVE  IrqSpec => SwitchToMostUrgent
<1>1. IrqInv /\ [IrqNext]_irqVars => [UrgentSwitch]_vars
  BY IrqNextKeeps
<1>2. [][UrgentSwitch]_vars => SwitchToMostUrgent
  BY PTL DEF UrgentSwitch, SwitchToMostUrgent
<1> QED
  BY <1>1, <1>2, Invariance, PTL DEF IrqSpec

\* Nor does the handler: its sends queue the KCD, and its end the interrupted
\* task, behind all that wait, so tasks of one priority run first in, first out
\* under interrupts too.
THEOREM NobodyIsOvertaken ==
  ASSUME Lapses = {}
  PROVE  IrqSpec => NoOvertaking
<1>1. IrqInv /\ [IrqNext]_irqVars => [OrderStep]_vars
  BY IrqNextOrder
<1>2. [][OrderStep]_vars => NoOvertaking
  BY PTL DEF OrderStep, NoOvertaking
<1> QED
  BY <1>1, <1>2, Invariance, PTL DEF IrqSpec

\* Interrupts do not change that priority is strict: whatever the handler wakes,
\* and wherever it switches, no task runs while a more urgent one is ready, as
\* long as no call names another task to k_tsk_set_prio.
THEOREM InterruptsKeepPriority ==
  ASSUME Lapses = {}
  PROVE  IrqSpec /\ [][NoSetPrio]_vars => []StrictPriority
<1>1. IrqInit => StrictInv
  BY InitStrict DEF IrqInit
<1>2. IrqInv /\ StrictInv /\ [IrqNext]_irqVars /\ [NoSetPrio]_vars => StrictInv'
  BY IrqNextStrict
<1>3. StrictInv => StrictPriority
  BY DEF StrictInv, StrictPriority
<1> QED
  BY <1>1, <1>2, <1>3, Invariance, PTL DEF IrqSpec
=============================================================================
