------------------------------- MODULE Kernel -------------------------------
(***************************************************************************)
(* Task management and message passing of the RTX kernel: kernel/k_task.c  *)
(* and kernel/k_msg.c over the ready queue of lib/queue.c.                 *)
(*                                                                         *)
(* One processor runs.  A user task enters the kernel through SVC_Handler  *)
(* with interrupts masked, so a call runs to the point where k_tsk_switch  *)
(* leaves the caller, and one action is one such run: the call, the queue  *)
(* operations it makes and the dispatch it ends with.  Only k_recv_msg has *)
(* work to do after the switch returns: cont remembers it, and RecvResume  *)
(* does it when the receiver is dispatched again.                          *)
(*                                                                         *)
(* A mailbox is the number of messages it holds.  All messages have one    *)
(* length and MBX_CAP of them fit.                                         *)
(*                                                                         *)
(* An early return that changes nothing is a stuttering step: its negation *)
(* is a guard of the action.                                               *)
(***************************************************************************)
EXTENDS PrioQueue

CONSTANTS
  MBX_CAP,     \* messages that fit in a mailbox
  NUM_WRAP,    \* what num_msgs-- makes of 0 (2^32 - 1 in the code)
  Lapses       \* the calls outside the kernel's contract that tasks may make

TID_NULL == 0
TID_KCD  == MAX_TASKS - 1
PRIO_RT  == 0

DORMANT == 0
READY   == 1
RUNNING == 2
BLK_MSG == 4

(***************************************************************************)
(* Calls that the kernel accepts and mishandles.  A behaviour that makes   *)
(* none of them has Lapses = {}.                                           *)
(*   "prio_blocked"   k_tsk_set_prio on a task blocked on its mailbox      *)
(*   "kcd_twice"      creating the KCD when slot TID_KCD is taken          *)
(*   "slots_full"     k_tsk_create when only slot TID_KCD is free          *)
(*   "heap_exhausted" creating a user task when the heap has no room       *)
(***************************************************************************)
LapseKinds == {"prio_blocked", "kcd_twice", "slots_full", "heap_exhausted"}

ASSUME MailboxAssumption ==
  MBX_CAP \in Nat \ {0} /\ NUM_WRAP \in Nat /\ NUM_WRAP > MBX_CAP
ASSUME LapsesAssumption == Lapses \subseteq LapseKinds
ASSUME NoMailboxAssumption == NULL \notin 0 .. NUM_WRAP

VARIABLES
  rq,                  \* queue, and next, prev and prio of every TCB
  state,               \* state of every TCB
  priv,                \* TRUE for a privileged task
  ustack,              \* user stack: none, a heap block, or no memory at all
  mailbox,             \* NULL, or num_msgs of the task's mailbox
  cont,                \* what a task does when k_tsk_switch returns to it
  gp_current_task,
  g_num_active_tasks,
  kblocks,             \* heap blocks that the kernel owns
  boot                 \* boot-time tasks still to create, and the next slot

vars == <<rq, state, priv, ustack, mailbox, cont, gp_current_task,
          g_num_active_tasks, kblocks, boot>>

States == {DORMANT, READY, RUNNING, BLK_MSG}
Stacks == {"none", "heap", "lost"}

(***************************************************************************)
(* After the switch, k_recv_msg reads the mailbox: "take" removes a        *)
(* message (it is copied, or dropped because it is longer than the         *)
(* caller's buffer), "keep" removes none (the buffer is too short for any  *)
(* message and cq_read returns RTX_ERR at once).                           *)
(***************************************************************************)
Reads == {"take", "keep"}

\* Priorities a task may be given: neither PRIO_RT nor PRIO_NULL.
TaskPrio == PRIO_RT + 1 .. PRIO_NULL - 1

\* After k_tsk_init has made the null task the current one and queued it;
\* num_tasks entries of the boot list are still to be read.
Init ==
  /\ rq = pq_add(pq_init([ size    |-> 0,
                           next_dq |-> 0,
                           arr     |-> [p \in Prio |-> NULL],
                           next    |-> [t \in Tid |-> NULL],
                           prev    |-> [t \in Tid |-> NULL],
                           prio    |-> [t \in Tid |-> IF t = TID_NULL THEN PRIO_NULL
                                                      ELSE 0] ]), TID_NULL)
  /\ state = [t \in Tid |-> IF t = TID_NULL THEN RUNNING ELSE DORMANT]
  /\ priv = [t \in Tid |-> t = TID_NULL]
  /\ ustack = [t \in Tid |-> "none"]
  /\ mailbox = [t \in Tid |-> NULL]
  /\ cont = [t \in Tid |-> "none"]
  /\ gp_current_task = TID_NULL
  /\ g_num_active_tasks = 1
  /\ kblocks = 0
  /\ \E n \in 0 .. MAX_TASKS - 1 : boot = [left |-> n, j |-> 1]

-----------------------------------------------------------------------------
(* k_tsk_create_new, and the fields of the TCB its two callers set.        *)

\* A task gets slot t: ready, no mailbox, a stack if it is a user task.  The
\* stack comes from the heap unless k_mem_alloc fails, which nothing notices:
\* k_alloc_p_stack tests the sum of the null pointer and the stack size.
CreateNew(t, pr, alloc) ==
  /\ priv'    = [priv EXCEPT ![t] = pr]
  /\ ustack'  = [ustack EXCEPT ![t] = IF pr THEN "none"
                                      ELSE IF alloc THEN "heap" ELSE "lost"]
  /\ kblocks' = kblocks + (IF ~ pr /\ alloc THEN 1 ELSE 0)
  /\ mailbox' = [mailbox EXCEPT ![t] = NULL]
  /\ cont'    = [cont EXCEPT ![t] = "none"]

\* What a creation of slot t must not ask for, unless Lapses lets it.
CreateContract(t, kcd, pr, alloc) ==
  /\ kcd /\ state[TID_KCD] # DORMANT => "kcd_twice" \in Lapses
  /\ t = TID_NULL                    => "slots_full" \in Lapses
  /\ ~ pr /\ ~ alloc                 => "heap_exhausted" \in Lapses

\* One turn of the loop of k_tsk_init.  The KCD goes to its own slot.  The heap is
\* still untouched and has room for the stack of every task of the boot list.
BootTask(kcd, p, pr) ==
  LET t == IF kcd THEN TID_KCD ELSE boot.j
      q == [rq EXCEPT !.next[t] = NULL, !.prev[t] = NULL, !.prio[t] = p]
  IN /\ boot.left > 0
     /\ CreateContract(t, kcd, pr, TRUE)
     /\ CreateNew(t, pr, TRUE)
     /\ rq' = pq_add(q, t)
     /\ state' = [state EXCEPT ![t] = READY]
     /\ g_num_active_tasks' = g_num_active_tasks + 1
     /\ boot' = [left |-> boot.left - 1, j |-> IF kcd THEN boot.j ELSE boot.j + 1]
     /\ UNCHANGED gp_current_task

\* A boot entry that is not valid ends the loop.  k_tsk_init returns RTX_ERR,
\* main ignores it and runs the null task with what was created so far.
BootStop ==
  /\ boot.left > 0
  /\ boot' = [boot EXCEPT !.left = 0]
  /\ UNCHANGED <<rq, state, priv, ustack, mailbox, cont, gp_current_task,
                 g_num_active_tasks, kblocks>>

-----------------------------------------------------------------------------
(* The scheduler.                                                          *)

\* Seeded fault: the task that is switched out stays RUNNING.
StaysRunning(st, new) == st

\* The old task becomes READY unless it has exited, is blocked, or goes on.
SwitchedOut(st, new) ==
  IF new = gp_current_task \/ st[gp_current_task] \in {DORMANT, BLK_MSG} THEN st
  ELSE [st EXCEPT ![gp_current_task] = READY]

(***************************************************************************)
(* k_tsk_run_new with the queue and the task states it finds: the most     *)
(* urgent task leaves the queue and becomes current; the null task becomes *)
(* current without leaving it, and its state is not set.  (\E over a set   *)
(* of one queue makes TLC evaluate the queue once, here and below.)        *)
(***************************************************************************)
run_new(queue, tasks) ==
  \E q \in {queue}, st \in {tasks} :
    LET idle == q.next_dq = PRIO_NULL
        new  == pq_peek(q)
    IN /\ gp_current_task' = new
       /\ rq' = IF idle THEN q ELSE pq_dequeue(q)
       /\ state' = SwitchedOut(IF idle THEN st ELSE [st EXCEPT ![new] = RUNNING], new)

\* The caller goes back to the queue and the scheduler runs; if pq_add fails
\* the call returns RTX_ERR and the caller goes on running.
Requeue(q, st) ==
  IF pq_full(q)
  THEN rq' = q /\ state' = st /\ UNCHANGED gp_current_task
  ELSE run_new(pq_add(q, gp_current_task), st)

Running == boot.left = 0 /\ cont[gp_current_task] = "none"

\* The null task only ever yields (task_null in main_svc_cw.c).
Calls == Running /\ gp_current_task # TID_NULL

TaskData == <<priv, ustack, mailbox, cont, g_num_active_tasks, kblocks, boot>>

\* Seeded fault: a yield gives way only to a task that is more urgent.
YieldsToMoreUrgent(head) == rq.prio[head] < rq.prio[gp_current_task]

YieldsTo(head) == rq.prio[head] <= rq.prio[gp_current_task]

\* k_tsk_yield.
Yield ==
  /\ Running
  /\ YieldsTo(pq_peek(rq))
  /\ run_new(IF gp_current_task = TID_NULL THEN rq ELSE pq_add(rq, gp_current_task), state)
  /\ UNCHANGED TaskData

\* The slot k_tsk_create takes: TID_KCD for the KCD, and the first free one
\* below it for any other task; the out-parameter stays 0 if there is none.
NewTid(kcd) ==
  LET free == {t \in Tid \ {TID_NULL, TID_KCD} : state[t] = DORMANT}
  IN IF kcd THEN TID_KCD
     ELSE IF free = {} THEN TID_NULL
     ELSE Min(free)

\* k_tsk_create of a user task with valid arguments.  Whether the heap has room
\* for its stack (alloc) is up to the heap, which Applications brings in.
Create(kcd, p, alloc) ==
  LET t  == NewTid(kcd)
      st == [state EXCEPT ![t] = READY]
  IN /\ Calls
     /\ g_num_active_tasks # MAX_TASKS
     /\ CreateContract(t, kcd, FALSE, alloc)
     /\ CreateNew(t, FALSE, alloc)
     /\ g_num_active_tasks' = g_num_active_tasks + (IF pq_full(rq) THEN 0 ELSE 1)
     /\ \E q \in {pq_add([rq EXCEPT !.prio[t] = p], t)} :
          IF ~ pq_full(rq) /\ q.prio[pq_peek(q)] < q.prio[gp_current_task]
          THEN Requeue(q, st)
          ELSE rq' = q /\ state' = st /\ UNCHANGED gp_current_task
     /\ UNCHANGED boot

\* Seeded fault: an exit forgets the task's mailbox.
FreesStackOnly(t) == IF ~ priv[t] /\ ustack[t] = "heap" THEN 1 ELSE 0

\* The heap blocks that k_tsk_exit deallocates.
Freed(t) == (IF ~ priv[t] /\ ustack[t] = "heap" THEN 1 ELSE 0)
            + (IF mailbox[t] # NULL THEN 1 ELSE 0)

\* Seeded fault: an exit does not count.
ActiveAsBefore == g_num_active_tasks

ActiveAfterExit == g_num_active_tasks - 1

\* k_tsk_exit: the caller's stack and mailbox go back to the heap.
Exit ==
  LET t == gp_current_task
  IN /\ Calls
     /\ kblocks' = kblocks - Freed(t)
     /\ ustack' = [ustack EXCEPT ![t] = "none"]
     /\ mailbox' = [mailbox EXCEPT ![t] = NULL]
     /\ g_num_active_tasks' = ActiveAfterExit
     /\ run_new(rq, [state EXCEPT ![t] = DORMANT])
     /\ UNCHANGED <<priv, cont, boot>>

\* k_tsk_set_prio of the caller itself.
SetOwnPrio(p) ==
  LET q == [rq EXCEPT !.prio[gp_current_task] = p]
  IN /\ Calls
     /\ IF q.prio[pq_peek(q)] <= p
        THEN Requeue(q, state)
        ELSE rq' = q /\ UNCHANGED <<state, gp_current_task>>
     /\ UNCHANGED TaskData

\* k_tsk_set_prio of another task.  The head of the queue is read before
\* pq_move and its priority is compared after it.
SetPrio(t, p) ==
  LET head == pq_peek(rq)
  IN /\ Calls
     /\ t \notin {TID_NULL, gp_current_task}
     /\ priv[gp_current_task] \/ ~ priv[t]
     /\ ~ pq_move_err(rq, state[t] = DORMANT, p)
     /\ state[t] = BLK_MSG => "prio_blocked" \in Lapses
     /\ \E q \in {pq_move(rq, t, state[t] = DORMANT, p)} :
          IF q.prio[head] < q.prio[gp_current_task]
          THEN Requeue(q, state)
          ELSE rq' = q /\ UNCHANGED <<state, gp_current_task>>
     /\ UNCHANGED TaskData

-----------------------------------------------------------------------------
(* Message passing.                                                        *)

\* k_mbx_create of a task that has no mailbox, when the heap has room for one.
\* The size is above that of a message header.
MbxCreate ==
  /\ Calls
  /\ mailbox[gp_current_task] = NULL
  /\ mailbox' = [mailbox EXCEPT ![gp_current_task] = 0]
  /\ kblocks' = kblocks + 1
  /\ UNCHANGED <<rq, state, priv, ustack, cont, gp_current_task,
                 g_num_active_tasks, boot>>

\* Seeded fault: no test for room in the mailbox.
AlwaysRoom(r) == TRUE

\* cq_write finds room.
HasRoom(r) == mailbox[r] < MBX_CAP

\* Seeded fault: a blocked receiver is woken without its message.
DepositUnlessBlocked(r) ==
  mailbox' = [mailbox EXCEPT ![r] = IF state[r] = BLK_MSG THEN @ ELSE @ + 1]

Deposit(r) == mailbox' = [mailbox EXCEPT ![r] = @ + 1]

\* Seeded fault: a receiver is woken only if it can run at once.
WakesMoreUrgent(r) == state[r] = BLK_MSG /\ rq.prio[r] < rq.prio[gp_current_task]

Wakes(r) == r # gp_current_task /\ state[r] = BLK_MSG

\* Seeded fault: a receiver that must wait is not queued.
LeaveUnqueued(r) == rq

\* The queue with a receiver that the caller goes on ahead of.
QueueBehind(r) == pq_add(rq, r)

\* k_send_msg to r.  A receiver that is blocked becomes ready, and runs at once
\* if it is more urgent than the caller.
Send(r) ==
  LET c     == gp_current_task
      woken == [state EXCEPT ![r] = READY]
  IN /\ Calls
     /\ state[r] # DORMANT
     /\ mailbox[r] # NULL
     /\ HasRoom(r)
     /\ Deposit(r)
     /\ IF ~ Wakes(r)
          THEN UNCHANGED <<rq, state, gp_current_task>>
        ELSE IF rq.prio[r] < rq.prio[c]
          THEN run_new(pq_add(pq_add(rq, c), r), [woken EXCEPT ![c] = READY])
        ELSE rq' = QueueBehind(r) /\ state' = woken /\ UNCHANGED gp_current_task
     /\ UNCHANGED <<priv, ustack, cont, g_num_active_tasks, kblocks, boot>>

\* cq_read of the caller's mailbox: num_msgs-- unless the buffer is too short
\* for a header.
cq_read(how) ==
  mailbox' = [mailbox EXCEPT ![gp_current_task] =
                IF how = "keep" THEN @ ELSE IF @ = 0 THEN NUM_WRAP ELSE @ - 1]

\* k_recv_msg when the mailbox holds a message.
Recv(how) ==
  /\ Calls
  /\ mailbox[gp_current_task] \notin {NULL, 0}
  /\ cq_read(how)
  /\ UNCHANGED <<rq, state, priv, ustack, cont, gp_current_task,
                 g_num_active_tasks, kblocks, boot>>

\* k_recv_msg when it is empty: the caller blocks.
RecvBlock(how) ==
  /\ Calls
  /\ mailbox[gp_current_task] = 0
  /\ cont' = [cont EXCEPT ![gp_current_task] = how]
  /\ run_new(rq, [state EXCEPT ![gp_current_task] = BLK_MSG])
  /\ UNCHANGED <<priv, ustack, mailbox, g_num_active_tasks, kblocks, boot>>

\* k_recv_msg from the return of k_tsk_run_new on.
RecvResume ==
  /\ boot.left = 0
  /\ cont[gp_current_task] # "none"
  /\ cq_read(cont[gp_current_task])
  /\ cont' = [cont EXCEPT ![gp_current_task] = "none"]
  /\ UNCHANGED <<rq, state, priv, ustack, gp_current_task, g_num_active_tasks,
                 kblocks, boot>>

-----------------------------------------------------------------------------
Next ==
  \/ BootStop
  \/ \E kcd, pr \in BOOLEAN, p \in TaskPrio : BootTask(kcd, p, pr)
  \/ Yield
  \/ \E kcd, alloc \in BOOLEAN, p \in TaskPrio : Create(kcd, p, alloc)
  \/ Exit
  \/ \E p \in TaskPrio : SetOwnPrio(p)
  \/ \E t \in Tid, p \in TaskPrio : SetPrio(t, p)
  \/ MbxCreate
  \/ \E r \in Tid : Send(r)
  \/ \E how \in Reads : Recv(how) \/ RecvBlock(how)
  \/ RecvResume

Spec == Init /\ [][Next]_vars

(***************************************************************************)
(* There is no time slicing: a task keeps the processor until it calls the *)
(* kernel.  Tasks that cooperate yield again and again, as the null task   *)
(* does (task_null), and a call that resumes after a switch goes on.       *)
(* k_tsk_set_prio sends the task it names to the end of a FIFO even when   *)
(* its priority stays the same; repeated for ever it can starve a task, so *)
(* progress is promised only to tasks that no one does that to.            *)
(***************************************************************************)
CooperativeNext ==
  \/ BootStop
  \/ \E kcd, pr \in BOOLEAN, p \in TaskPrio : BootTask(kcd, p, pr)
  \/ Yield
  \/ \E kcd, alloc \in BOOLEAN, p \in TaskPrio : Create(kcd, p, alloc)
  \/ Exit
  \/ MbxCreate
  \/ \E r \in Tid : Send(r)
  \/ \E how \in Reads : Recv(how) \/ RecvBlock(how)
  \/ RecvResume

CooperativeSpec ==
  Init /\ [][CooperativeNext]_vars /\ WF_vars(Yield) /\ WF_vars(RecvResume)

-----------------------------------------------------------------------------
TypeOK ==
  /\ rq \in PRIO_Q
  /\ state \in [Tid -> States]
  /\ priv \in [Tid -> BOOLEAN]
  /\ ustack \in [Tid -> Stacks]
  \* num_msgs neither passes the capacity nor wraps below 0.
  /\ mailbox \in [Tid -> {NULL} \cup 0 .. MBX_CAP]
  /\ cont \in [Tid -> {"none"} \cup Reads]
  /\ gp_current_task \in Tid
  /\ g_num_active_tasks \in 1 .. MAX_TASKS
  /\ kblocks \in Nat
  /\ boot \in [left : 0 .. MAX_TASKS - 1, j : 1 .. MAX_TASKS]

\* A task is on the queue exactly when it is READY; the null task always is
\* (k_task.c, k_msg.c: every change of state has its pq_add or pq_dequeue).
ReadyIffQueued ==
  \A t \in Tid : Queued(rq, t) <=> (state[t] = READY \/ t = TID_NULL)

\* Of the other tasks, exactly the current one is RUNNING.
CurrentRuns ==
  \A t \in Tid \ {TID_NULL} : state[t] = RUNNING <=> t = gp_current_task

\* "number of non-dormant tasks" (k_task.c:80).
ActiveCountExact ==
  g_num_active_tasks = Cardinality({t \in Tid : state[t] # DORMANT})

\* No wakeup is lost: a task blocked in k_recv_msg has a mailbox, and it is
\* empty, so the message that arrives next finds it blocked.
NoLostWakeup ==
  \A t \in Tid : state[t] = BLK_MSG => mailbox[t] = 0 /\ cont[t] # "none"

\* A task whose k_tsk_run_new returns in k_recv_msg finds a message there: the
\* cq_read after the switch does not test num_msgs (k_msg.c:177).
ResumeFindsMessage ==
  \A t \in Tid : cont[t] # "none" /\ state[t] # BLK_MSG => mailbox[t] \in 1 .. MBX_CAP

\* Every heap block of the kernel is the stack or the mailbox of a task that is
\* not dormant: k_tsk_exit frees both, and nothing drops a pointer to one.
HeapBlocksOwned ==
  kblocks = Cardinality({t \in Tid : ustack[t] = "heap" /\ state[t] # DORMANT})
            + Cardinality({t \in Tid : mailbox[t] # NULL /\ state[t] # DORMANT})

\* A user task runs on a stack of its own: k_tsk_create_new returns "RTX_OK on
\* success; RTX_ERR on failure" (k_task.c:276).
UserTaskHasStack ==
  \A t \in Tid : state[t] # DORMANT /\ ~ priv[t] => ustack[t] = "heap"

\* A processor that changes hands goes to a task as urgent as any that is
\* ready (scheduler, k_task.c:100).
SwitchToMostUrgent ==
  [][gp_current_task' # gp_current_task =>
       \A t \in Tid : state'[t] = READY => rq'.prio[gp_current_task'] <= rq'.prio[t]]_vars

\* t stands before u in the FIFO they share.
Before(t, u) ==
  /\ t # u
  /\ Queued(rq, t) /\ Queued(rq, u)
  /\ rq.prio[t] = rq.prio[u]
  /\ Reaches(rq, t, u)

\* First in, first out among the tasks of a priority: while t waits, a task that
\* is not ahead of it neither gets ahead nor gets the processor, unless
\* k_tsk_set_prio sends t to the end (pq_add_node, k_tsk_yield, k_send_msg).
NoOvertaking ==
  [][\A t, u \in Tid \ {TID_NULL} :
        /\ state[t] = READY /\ state'[t] = READY
        /\ ~ Before(u, t)
        /\ rq'.prio[u] = rq'.prio[t]
        /\ Before(u, t)' \/ u \in {gp_current_task'} \ {gp_current_task}
        => \E p \in TaskPrio : SetPrio(t, p)]_vars

\* Strict priority: the task that runs is at least as urgent as every ready one.
StrictPriority ==
  boot.left = 0 /\ gp_current_task # TID_NULL =>
     \A t \in Tid : state[t] = READY => rq.prio[gp_current_task] <= rq.prio[t]

\* The null task keeps its priority and its privilege: no other task is ever
\* created in its TCB (k_task.c:553).
NullTaskIntact ==
  rq.prio[TID_NULL] = PRIO_NULL /\ priv[TID_NULL]

\* t is ready and no task that could run is more urgent.
Due(t) ==
  /\ state[t] = READY
  /\ \A u \in Tid \ {TID_NULL} :
       state[u] \in {READY, RUNNING} => rq.prio[t] <= rq.prio[u]

\* The tasks that are to run before t at its priority.
Ahead(t) == {u \in Tid : Before(u, t)}

\* The wait of a task that is due is bounded by the length of its FIFO: a yield
\* gives it the processor, or takes a task from before it and puts none there
\* (k_tsk_yield, pq_add_node, pq_dequeue).
WaitShortens ==
  [][\A t \in Tid \ {TID_NULL} :
        Due(t) /\ Yield =>
          \/ gp_current_task' = t
          \/ Ahead(t)' \subseteq Ahead(t) /\ Ahead(t)' # Ahead(t)]_vars

\* A task that stays ready and most urgent gets the processor, however many
\* tasks share its priority and whatever they do between their yields.
DueTaskRuns ==
  \A t \in Tid \ {TID_NULL} : boot.left = 0 /\ Due(t) ~> ~ Due(t)
=============================================================================
