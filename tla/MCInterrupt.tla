----------------------------- MODULE MCInterrupt -----------------------------
(***************************************************************************)
(* Interrupt on small instances, with the view of MCKernel.                *)
(***************************************************************************)
EXTENDS Interrupt, QueueLists

K == INSTANCE MCKernel

InterruptView == <<K!KernelView, rx, handler>>

\* The pointers of the ready queue spell out one FIFO per priority after every
\* call of k_task.c and k_msg.c and every turn of the handler.
QueueWellFormed == WellFormed(rq)
=============================================================================
