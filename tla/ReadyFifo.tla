----------------------------- MODULE ReadyFifo -----------------------------
(***************************************************************************)
(* What lib/queue.c promises to the scheduler, without pointers: one FIFO  *)
(* of tasks per priority, and a dequeue that takes the oldest task of the  *)
(* most urgent FIFO (the "strict-priority FIFO" of README.md:76).          *)
(***************************************************************************)
EXTENDS Integers, SequencesExt

CONSTANTS
  Task,        \* the tasks that may be queued
  PRIO_NULL,   \* the priorities are 0 (most urgent) .. PRIO_NULL
  NULL         \* no task

VARIABLES
  fifo,        \* fifo[p] : the queued tasks of priority p, oldest first
  out          \* the task the last step took out to run, or NULL

In(t)    == \E p \in 0 .. PRIO_NULL : \E i \in 1 .. Len(fifo[p]) : fifo[p][i] = t
Occupied == {p \in 0 .. PRIO_NULL : fifo[p] # << >>}

Init == fifo = [p \in 0 .. PRIO_NULL |-> << >>] /\ out = NULL

\* A task that is not queued joins the end of the FIFO of its priority.
Enqueue(t, p) ==
  /\ ~ In(t)
  /\ fifo' = [fifo EXCEPT ![p] = Append(@, t)]
  /\ out' = NULL

\* The oldest task of the most urgent FIFO leaves.
Dequeue ==
  \E p \in Occupied :
     /\ \A o \in Occupied : p <= o
     /\ fifo' = [fifo EXCEPT ![p] = Tail(@)]
     /\ out' = Head(fifo[p])

\* A queued task leaves, wherever it stands.
Withdraw(t) ==
  \E p \in Occupied : \E k \in 1 .. Len(fifo[p]) :
     /\ fifo[p][k] = t
     /\ fifo' = [fifo EXCEPT ![p] = RemoveAt(@, k)]
     /\ out' = NULL

\* A queued task goes to the end of the FIFO of another priority, or of its own.
Move(t, p) ==
  \E o \in Occupied : \E k \in 1 .. Len(fifo[o]) :
     /\ fifo[o][k] = t
     /\ fifo' = [[fifo EXCEPT ![o] = RemoveAt(@, k)] EXCEPT ![p] = Append(@, t)]
     /\ out' = NULL

Next ==
  \/ Dequeue
  \/ \E t \in Task :
       \/ Withdraw(t)
       \/ \E p \in 0 .. PRIO_NULL : Enqueue(t, p) \/ Move(t, p)

Spec == Init /\ [][Next]_<<fifo, out>>
=============================================================================
