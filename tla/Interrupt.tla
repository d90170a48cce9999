------------------------------ MODULE Interrupt ------------------------------
(***************************************************************************)
(* The UART interrupt over the kernel: SVC_Handler, IRQ_Handler and        *)
(* c_IRQ_Handler of kernel/HAL_CA.c.                                       *)
(*                                                                         *)
(* A task is interrupted between two of its calls: SVC_Handler runs with   *)
(* interrupts masked, and so does the null task, which is main itself.     *)
(* The handler runs on the kernel stack of the task it interrupts, as that *)
(* task, and sends each key to the KCD with a system call.  That call may  *)
(* switch: the handler then waits on the stack of its task, and goes on    *)
(* with the next key when the task is dispatched again.  Until it signals  *)
(* the end of the interrupt the interrupt controller lets no other through *)
(* (all have one priority).                                                *)
(*                                                                         *)
(* The timer interrupts change no state of the kernel.  The calls that a   *)
(* privileged task makes to k_ functions without SVC are taken to be run   *)
(* with interrupts masked, as those of the user tasks are.                 *)
(***************************************************************************)
EXTENDS Kernel

CONSTANT RX_FIFO    \* keys that wait in the UART

ASSUME RxFifoAssumption == RX_FIFO \in Nat \ {0}

VARIABLES
  rx,        \* keys that the UART holds
  handler    \* the task whose stack holds c_IRQ_Handler, or NULL

irqVars == <<vars, rx, handler>>

IrqInit == Init /\ rx = 0 /\ handler = NULL

\* The UART receives a key.
KeyArrives ==
  /\ rx < RX_FIFO
  /\ rx' = rx + 1
  /\ UNCHANGED <<vars, handler>>

\* Seeded fault: the null task runs with interrupts enabled.
AnyTask == Running

\* Seeded fault: system calls run with interrupts enabled.
EvenInCall == boot.left = 0 /\ gp_current_task # TID_NULL

\* The current task runs in user mode, or as a privileged task outside a call.
Interruptible == Calls

\* IRQ_Handler enters c_IRQ_Handler, which acknowledges the interrupt.
TakeInterrupt ==
  /\ rx > 0
  /\ handler = NULL
  /\ Interruptible
  /\ handler' = gp_current_task
  /\ UNCHANGED <<vars, rx>>

InHandler == handler = gp_current_task

\* k_send_msg rejects the key if the KCD has exited or has no mailbox, or if
\* the mailbox is full; the handler does not look at the result.
KcdAccepts ==
  /\ state[TID_KCD] # DORMANT
  /\ mailbox[TID_KCD] # NULL
  /\ HasRoom(TID_KCD)

\* Seeded fault: the handler reads one key and clears the rest of the UART's FIFO.
ReadsOneKey ==
  /\ InHandler
  /\ rx > 0
  /\ rx' = 0
  /\ IF KcdAccepts THEN Send(TID_KCD) ELSE UNCHANGED vars
  /\ UNCHANGED handler

\* One turn of the loop of c_IRQ_Handler.
ReadKey ==
  /\ InHandler
  /\ rx > 0
  /\ rx' = rx - 1
  /\ IF KcdAccepts THEN Send(TID_KCD) ELSE UNCHANGED vars
  /\ UNCHANGED handler

\* Seeded fault: the interrupted task is not put back before the scheduler runs.
NotPutBack == rq

PutBack == pq_add(rq, gp_current_task)

\* After the last key: the end of the interrupt, then the interrupted task goes
\* to the end of its FIFO.
EndInterrupt ==
  /\ InHandler
  /\ rx = 0
  /\ handler' = NULL
  /\ run_new(PutBack, state)
  /\ UNCHANGED <<TaskData, rx>>

\* A step of the current task.
TaskStep ==
  /\ ~ InHandler
  /\ Next
  /\ UNCHANGED <<rx, handler>>

IrqNext == KeyArrives \/ TakeInterrupt \/ ReadKey \/ EndInterrupt \/ TaskStep

IrqSpec == IrqInit /\ [][IrqNext]_irqVars

-----------------------------------------------------------------------------
\* The kernel's fields keep their ranges under interrupts too; the count of a
\* mailbox that the handler and the tasks both fill does not pass its capacity.
IrqTypeOK ==
  /\ TypeOK
  /\ rx \in 0 .. RX_FIFO
  /\ handler \in Link

\* An interrupt that has been acknowledged can still be ended: the task under
\* the handler runs or is ready, though the handler's own sends may have parked
\* it, and it waits in no other call.
HandlerCanGoOn ==
  handler # NULL =>
    /\ handler # TID_NULL
    /\ state[handler] \in {READY, RUNNING}
    /\ cont[handler] = "none"

\* "Make sure to call line 246 before context switching" (HAL_CA.c:307): while
\* an interrupt waits for its end the processor does not change hands.
EndInterruptBeforeSwitch ==
  [][handler # NULL /\ gp_current_task' # gp_current_task => handler' = NULL]_irqVars
=============================================================================
