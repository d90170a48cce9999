------------------------------ MODULE MCKernel ------------------------------
(***************************************************************************)
(* Kernel on small instances.                                              *)
(***************************************************************************)
EXTENDS Kernel

(***************************************************************************)
(* The links of a TCB that is not queued and the priority of one that is   *)
(* dormant are leftovers: whoever queues or creates the task overwrites    *)
(* them before they are read.  Two states that differ in them alone have   *)
(* the same futures, and TLC need keep one.  (Sound while no call lapses,  *)
(* when QueueWellFormed says that no list runs through such a TCB.)        *)
(***************************************************************************)
Leftover(t) == state[t] # READY /\ t # TID_NULL

KernelView ==
  << [rq EXCEPT !.next = [t \in Tid |-> IF Leftover(t) THEN NULL ELSE @[t]],
                !.prev = [t \in Tid |-> IF Leftover(t) THEN NULL ELSE @[t]],
                !.prio = [t \in Tid |-> IF state[t] = DORMANT THEN 0 ELSE @[t]]],
     state, [t \in Tid |-> priv[t] /\ state[t] # DORMANT], ustack, mailbox, cont,
     gp_current_task, g_num_active_tasks, kblocks,
     IF boot.left = 0 THEN 0 ELSE boot >>
=============================================================================
