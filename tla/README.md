# A TLA+ model of RTX-OS

RTX-OS (`src/RTX`) is a small kernel for one core of a DE1-SoC board:
cooperative tasks with strict priorities, a heap, mailboxes, a UART
interrupt handler and a keyboard command decoder. This directory models the
parts that decide *which task runs and what it finds when it does*, checks the
models with TLC and proves the results that matter most with TLAPS.
Paths below are relative to `src/RTX/src`.

## 1. The system

| component | state | operations | talks to |
|---|---|---|---|
| ready queue, `lib/queue.c` | `PRIO_Q`: `size`, `next_dq`, head pointer per priority; `next`/`prev`/`prio` in every TCB | `pq_init`, `pq_clear`, `pq_peek`, `pq_add`, `pq_add_node`, `pq_dequeue`, `pq_remove`, `pq_move` | called by task management and message passing, which own the TCBs it links |
| task management, `kernel/k_task.c` | `g_tcbs` (state, priority, privilege, stacks, mailbox pointer), `gp_current_task`, `g_num_active_tasks` | `k_tsk_init`, `k_tsk_create`, `k_tsk_exit`, `k_tsk_yield`, `k_tsk_set_prio`, `k_tsk_run_new`, `k_tsk_switch`, `k_tsk_get_info` | queue, heap (stacks), SVC entry |
| message passing, `kernel/k_msg.c` | one mailbox per task | `k_mbx_create`, `k_send_msg`, `k_recv_msg` | circular queue, ready queue, scheduler |
| circular queue, `lib/cqueue.c` | byte ring: `head`, `tail`, `num_msgs` | `cq_init`, `cq_clear`, `cq_write`, `cq_read`, `cq_count_space` | called by message passing |
| heap, `kernel/k_mem.c` | free list, headers with owner and allocated bit | `k_mem_init`, `k_mem_alloc`, `k_mem_dealloc`, `k_mem_count_extfrag`, `k_alloc_p_stack` | tasks, task management, message passing |
| interrupt entry, `kernel/HAL_CA.c` | saved registers on the kernel stack of the interrupted task | `SVC_Handler`, `IRQ_Handler`, `c_IRQ_Handler` | `k_send_msg`, `k_tsk_run_new` |
| command decoder, `app/kcd_task.c`, `lib/ascii_array.c` | command buffer, registration table | one loop over its mailbox | message passing |
| null task, `kernel/main_svc_cw.c` | none | `task_null`: yields for ever | scheduler |
| test applications, `app/ae.c`, `ae_mem.c`, `ae_priv_tasks.c`, `ae_usr_tasks.c` | the variables of their tasks; a turn and a score shared by two | 34 tests: what each boots, what its tasks call, what they expect | every call of `INC/rtx.h` |

How they interact. A user task traps into `SVC_Handler`, which runs the `k_`
function with interrupts masked. The function changes the queue and the TCBs
and may end in `k_tsk_run_new`, which takes the most urgent task from the queue
and switches kernel stacks: control leaves in the middle of one task's call and
arrives in the middle of another's. Nothing preempts a user task but its own
calls and the UART interrupt; there is no time slice.

What is hard here:

* The queue is intrusive. Nothing but four pointers says whether a TCB is
  queued, they are left as they were when it leaves, and `pq_remove` and
  `pq_move` believe them. One call made at the wrong moment joins two lists.
* Every change of a task's state must have its queue operation. They are
  written by hand in seven places of two files.
* `k_recv_msg` decides to block, switches, and acts when the switch comes back,
  in a world that other tasks have changed.
* `k_tsk_set_prio` reads the head of the queue, changes the queue, and decides
  on the old head.
* Slots, heap and mailboxes run out, and the failure of one step must not leave
  the others done.

What makes the components correct:

* *ready queue*: the pointers always spell out one FIFO per priority; each call
  is one FIFO operation.
* *task management*: a task is queued exactly when it is READY; exactly one
  task runs; a switch goes to the most urgent ready task, and within a priority
  to the one that has waited longest; every slot, block and count that a task
  takes is given back once.
* *message passing*: no wakeup is lost or doubled; whoever is woken finds a
  message.
* *circular queue*: a bounded FIFO of whole messages.
* *heap*: blocks tile the heap and do not overlap; adjacent free blocks merge;
  only the owner frees a block.
* *interrupts*: every interrupt taken is ended once, and a key that was
  accepted reaches the decoder.
* *command decoder*: a command goes to the task that registered it last.
* *the whole*: a test gives the result it is written for, prints its lines in
  the order of their numbers, and ends, whatever keys interrupt it.

## 2. The modules

```
PrioQueue                 lib/queue.c as operators on a queue value
  QueueLists              the FIFOs that a queue value spells out
  ReadyQueue              the operations, in any order their contract allows
    ReadyFifo             what it promises (refinement)
  Kernel                  k_task.c and k_msg.c over the queue
    MCKernel              the instance TLC checks
    Interrupt             HAL_CA.c over the kernel
      MCInterrupt         the instance TLC checks
      Applications        a test on kernel, interrupts, Heap and CommandLine
  TestTasks               the 34 tests of app/ as data
  PrioQueue_proofs        what each queue operation does to the FIFOs and their order
    ReadyQueue_proofs     type, shape and refinement of ReadyQueue
    Kernel_proofs         the invariant of Kernel and of Interrupt, who runs before whom
      Applications_proofs the invariant of the whole system
CircQ                     lib/cqueue.c, the ring of bytes in a mailbox
  MsgFifo                 what it promises (refinement)
  MCCircQ                 the instance TLC checks
  CircQ_proofs            type, layout and refinement
Heap                      kernel/k_mem.c, the free list
  HeapSpec                what it promises (refinement)
  Heap_proofs             type, shape and refinement
Kcd                       app/kcd_task.c and lib/ascii_array.c
  CommandLine             what it promises (refinement)
  Kcd_proofs              type and refinement
DataLemmas                facts on numbers, lists and counts that the proofs share
```

**PrioQueue.** A queue value is a record of the three fields of `PRIO_Q` and
of the three TCB fields the functions touch, so every pointer write of
`queue.c` is there: `pq_remove` has the four cases of the code, `pq_dequeue`
leaves the links of the TCB it returns, and `size` is an unsigned short. Loops
are replaced by what they compute: the walk to the last node by `LastFrom`, the
search for the next non-empty priority by `FirstNonEmpty`. In `QueueLists`,
`Represents(q, f)` says that the pointers of `q` spell out the FIFOs `f`;
`WellFormed(q)` that they spell out some.

**ReadyQueue and ReadyFifo.** `ReadyQueue` makes every call whose contract
holds (only a task that is not queued is added, only a queued one is moved or
removed). `ReadyFifo` is the queue without pointers: one sequence per priority.
`ImplementsReadyFifo` maps a queue value to the FIFOs it spells out.

**Kernel.** The variables are the TCB fields (`rq` holds the queue and the
links and priorities of the TCBs, then `state`, `priv`, `ustack`, `mailbox`),
the two globals, the number of heap blocks the kernel owns, the boot loop's
position, and `cont`: what a task still has to do when `k_tsk_switch` returns
to it. `kblocks` counts the stacks and mailboxes the kernel holds in the heap;
which bytes they are is the business of `Heap`. One action is one run of kernel code up to the switch:

| action | code |
|---|---|
| `BootTask`, `BootStop` | one turn of the loop of `k_tsk_init`, and its early return |
| `Yield`, `Create`, `Exit` | `k_tsk_yield`, `k_tsk_create`, `k_tsk_exit` |
| `SetOwnPrio`, `SetPrio` | the two halves of `k_tsk_set_prio` |
| `MbxCreate`, `Send` | `k_mbx_create`, `k_send_msg` |
| `Recv`, `RecvBlock`, `RecvResume` | `k_recv_msg` with a message waiting, up to the switch, and from the switch on |

`run_new` is `k_tsk_run_new` and is part of each action that ends in it. A call
that returns an error without changing anything is a stuttering step, so its
condition is a guard. A mailbox is the number of messages in it; all messages
have one length and `MBX_CAP` of them fit. `num_msgs--` of an empty mailbox
wraps to `NUM_WRAP`, so a reader that finds nothing shows: `TypeOK` bounds the
count by `MBX_CAP`. Whether the heap has room for the stack of a new task is a
parameter of `Create`, which `Applications` takes from the free list; at boot
the heap is untouched and has room for all.

**CircQ and MsgFifo.** A mailbox as a record of the fields of `CIRC_Q`, with the
pointers as offsets into the buffer. `cq_write` and `cq_read` move a pointer byte
by byte with a test for the end of the buffer; `Ahead` says where it ends up.
Messages are sequences of bytes whose first four spell their length, because
that is all the ring has to find the next one by: `MsgLength` reads those four
bytes back, from both ends of the buffer if the message wraps. `Write` and
`Read` are the calls in `k_send_msg` and `k_recv_msg`, with the receiver's
buffer length chosen freely. `sent` is a history variable, the messages
accepted and not yet removed; no guard reads it. `MsgFifo` is the queue of
messages with a budget of bytes.

**Heap and HeapSpec.** The free list is a sequence of `[at, size]` in units of
eight bytes, which everything in `k_mem.c` is a multiple of; the sentinels are
the ends of the sequence. `Alloc` is the first-fit loop with its two ways out,
`Dealloc` the search for the neighbours and the four cases of the join, which
differ only in which neighbour is absorbed. `taken` holds the headers of
allocated blocks. `HeapSpec` knows the allocated blocks and nothing else, so
the refinement says that no trace of earlier splits decides where a block goes
or whether it fits.

**Interrupt.** Adds two variables to `Kernel`: the keys the UART holds, and the
task on whose stack `c_IRQ_Handler` is. `TakeInterrupt` enters the handler,
`ReadKey` is one turn of its loop and contains the whole of `Send`, switch
included, and `EndInterrupt` is what follows the loop. While another task runs
in the middle of the loop, no second interrupt is taken: the interrupt
controller has not been told the end of the first, and all interrupts have one
priority. The null task is `main`, which never enables interrupts.

**Kcd and CommandLine.** One action per message the decoder receives, by kind:
`Register`, `Key`, `EnterInvalid`, `EnterCommand`. The look-up of the task and
the `send_msg` to it (`SendCommand`) are two steps, since `mem_alloc` and the
send are system calls and tasks come and go in between (`ComeOrGo`). The buffer is
never cleared, `UNREGISTERED` is cut to eight bits on its way into a `task_t`,
and the state of a task beyond the table is arbitrary. `CommandLine` is the
line as a person sees it, with the table as a function.

**TestTasks and Applications.** `TestTasks` writes every test of `app/` down as
data. `Boot` has the boot lists of `ae.c`. `Code` has the task functions, each
the sequence of the calls it makes: `create("utask1", 90, 512)` is a
`tsk_create`, `say(7)` a line that the test numbers, `expect_from(2)` a
comparison, `goto(3)` a loop. Printing that no test numbers, delays, and calls
that only read are left out. `Applications` runs one test on the whole system.
It extends `Interrupt`, and so `Kernel`, and instantiates `Heap` and
`CommandLine`. A step of a task is the call its function is at, and the action
of that name takes together what the kernel, the heap and the mailboxes do:

| action | call | takes with it |
|---|---|---|
| `Boots` | `k_tsk_init` | `BootTask` or `BootStop`; `Heap!Alloc` of the user stack |
| `Yields`, `NullYields` | `tsk_yield` | `Yield` |
| `Creates`, `Exits` | `tsk_create`, `tsk_exit` | `Create`, `Exit`; the stack and the mailbox in the heap |
| `SetsPrio` | `tsk_set_prio` | `SetOwnPrio`, `SetPrio`, or none on an error |
| `MemInit`, `MemAlloc`, `MemDealloc` | `mem_init`, `mem_alloc`, `mem_dealloc` | `Heap!Alloc`, `Heap!Dealloc`; `MemInit` also empties the ready queue |
| `MbxCreates`, `Sends`, `Receives`, `Resumes` | `mbx_create`, `send_msg`, `recv_msg` | `MbxCreate`, `Send`, `Recv`, `RecvBlock`, `RecvResume`; the message itself |
| `Decode`, `AllocCommand` | the body of `kcd_task` | `CommandLine`; `Heap!Alloc` of the command |
| `Interrupted`, `SendsKey` | the UART interrupt | `TakeInterrupt`, `ReadKey`, `EndInterrupt` |
| `Types` | the tester at the terminal | `KeyArrives` |
| `Computes` | what a task does by itself | nothing of the kernel |

The variables it adds are the position and the local variables of every task,
the heap, the contents of the mailboxes, the keys typed, and what a test prints
and reports. In test 2 the tester types a command each time the test asks for
one (`%cGTA`, or `%d...`); in the other tests a stray key may come at any time.
That and the low byte of a function address, which four tests pass where a task
id is expected, are the inputs.

Several tests leave what C and the kernel define: they let a privileged task
return, call the kernel from user mode past the SVC, or give the memory under
their own stack back. `LosesItself` is that step: nothing is said of what
follows it, and `StaysDefined` says which tests come to it.

*Lapses.* Four calls are accepted by the kernel and mishandled (section 5).
The constant `Lapses` names the ones that tasks may make. With `Lapses = {}`
the model is the kernel used within its contract, and everything below holds;
each run that shows a fault allows one lapse.

## 3. What is checked

| run | instance | question |
|---|---|---|
| `ready_queue` | 3 tasks, 3 priorities | do the pointers always spell out FIFOs, and does every call do to them what `ReadyFifo` says? |
| `interrupt` | 4 tasks, 4 priorities, 1 message per mailbox, one key in the UART at a time | do states, queue, mailboxes, counts and heap blocks agree through every interleaving of calls with a handler that sends and switches in its loop? |
| `cooperative` | the same tasks without keys, with fairness | does a ready task that no one is more urgent than get the processor, one yield nearer at a time, and does none run that is less urgent? |
| `circ_q` | ring of 12 bytes, messages of 5 to 7, receive buffers of 4, 5 and 7 | does every message come back whole, in order, wherever it wraps? |
| `heap` | 10 units, two owners, three sizes | is the free list always the exact, fully joined complement of the blocks? |
| `kcd` | commands of 3 characters, lines of up to 6, two tasks | is what a task is sent what was typed since the last Enter? |
| `applications` | all 34 tests, 12 task slots, all 256 priorities | does every test end and, but for the three of section 5, give its result and print its lines in order, whatever keys interrupt it? |
| `interrupt_eoi` | the KCD and one task, two keys in the UART | the disagreement about the end of interrupt of section 5 |
| `stale_peek` | that of `cooperative`, with `k_tsk_set_prio` | a fault of section 5 |
| `prio_of_blocked`, `slots_full` | tests 2 and 33 alone, 5 task slots | two faults of section 5, reached by the repository's own tests |
| `heap_exhausted` | test 25 alone, a heap of one kilobyte | a fault of section 5 |

The properties of `interrupt`:

* `QueueWellFormed`, `ReadyIffQueued`, `CurrentRuns`: pointers, queue and task
  states agree. These are what a missing or doubled queue operation breaks.
* `ActiveCountExact`, `HeapBlocksOwned`: the count of active tasks and the
  kernel's heap blocks are exact after any sequence of creations and exits.
* `NoLostWakeup`, `ResumeFindsMessage`: a blocked receiver's mailbox is empty,
  and one that has been woken finds a message, whatever ran in between.
* `SwitchToMostUrgent`, `NoOvertaking`: strict priority at every switch and
  first in, first out within a priority.
* `HandlerCanGoOn`: a task under the handler is running or ready and waits in
  no call of its own, so that an interrupt that was taken can be ended.

The properties of the other runs:

* `cooperative`: `DueTaskRuns` is the promise that a task which stays due gets
  the processor. `WaitShortens` bounds the wait: each yield either hands it the
  processor or strictly shrinks the set of tasks before it. `StrictPriority`
  says that the processor is never with a task less urgent than a ready one, and
  not only at a switch. It fails when any task may call `k_tsk_set_prio`
  (`stale_peek`).
* `circ_q`: `RingSpellsMessages` says that from `head` to `tail` the ring holds
  the unread messages, whole and without overlap; `ImplementsMsgFifo` that a
  message is refused exactly when its bytes do not fit, that the owner gets the
  oldest one as it was sent, and that one too long for its buffer is lost alone.
* `heap`: `FreeListCoalesced` (no two free blocks touch), `BlocksTile` (nothing
  overlaps, nothing is lost), `NullOnlyIfNothingFits`, `ExtFragExact`, and
  `ImplementsHeapSpec`: first fit over the list is the lowest address over the
  free memory.
* `kcd`: `ImplementsCommandLine`. The old contents of the buffer, characters
  beyond its end and the mark for "unregistered" never show in what is sent:
  a stale line is too short for `k_send_msg`, and the task id that 999 becomes
  is beyond the table, where `k_send_msg` rejects it.
* `applications`:
  * `KernelBlocksAccounted`: the blocks that `MAGICNUMBER` owns in the heap are
    the stack and the mailbox of every task that is there, and no other. It
    relates three modules, and any one that forgets a block breaks it.
  * `KeysReachDecoder`: what the decoder has of the line and what waits in its
    mailbox is what was typed, in order, although the handler is left in the
    middle of its loop.
  * `VerdictsCorrect`: a test that reports, reports what it is written for, in
    every interleaving: tests 2 and 3 have 11 of 11 and 17 of 17, the heap tests
    102, 110, 111 and 169 pass. Tests 101 and 103 do not, and are left out
    (section 5).
  * `PreemptionOrder`: the lines of tests 37 and 39 come in the order of their
    numbers. Those of test 38 do not, and are left out (section 5). The
    order of test 37 is fixed only if no key comes: its tasks come to share a
    priority, and each key passes the processor from one to the other
    (`HAL_CA.c:310`).
  * `StaysDefined`: only tests 10, 14, 20, 21, 22, 26, 27, 33 and the heap tests
    leave what the code defines. In particular no receiver of the others
    resumes to an empty mailbox, though tests 2 and 3 both put a blocked one on
    the ready queue (section 5): each then makes sure, unknowingly, that a
    message comes before it runs.
  * `TestCompletes`: every test with a result or numbered lines gets there. In
    test 2 this depends on `utask3`, which yields for ever and so keeps the null
    task, and with it the masked interrupts, from the processor: without it the
    first key would never be read.

*Bounds.* Three tasks are the fewest whose FIFO has a head, a middle and a
tail, and three priorities the fewest with a gap between the most urgent FIFO
and the next, which is all `queue.c` distinguishes. In `Kernel` four slots are
the null task, the decoder's and two others; two priorities remain for tasks,
one more and one less urgent. A capacity of one message makes a mailbox both
empty and full in a few steps. `NUM_WRAP = 2` lies just above the capacity.
Every initial number of boot tasks is tried.

A ring of twelve bytes is filled by two messages of six, the state in which
`head = tail` means full, and messages of five, six and seven bring both
pointers to every offset, so every byte of a length word is cut off by the end
of the buffer in some state. Ten units of heap hold up to five blocks, with free
blocks of every size and on either, both or no side of the one being freed. In
`Interrupt` one key is enough for a second to arrive in the middle of the loop,
and three tasks besides the null task are the KCD, the interrupted task and one
that runs while both wait. A line of six characters overruns a buffer of four
and comes back into it by backspaces.

`Applications` has the sizes, priorities and capacities of the code, with two
exceptions. Twelve slots instead of 160 leave one more than the largest boot
list needs, and make the tests that fill the table do so (27 boots one task per
slot, the KCD's included; 33 creates `MAX_TASKS + 5`, the code 1000). One stray key per
test finds every point at which a handler can come between two calls; two keys
in the UART at once make the handler loop. All messages of a test have one
length, and the capacity of its mailbox in messages is given with it. Memory
that was never written does not hold the mark of the UART where a message has
its sender, and a function address is a multiple of four.

*The view.* TLC tells states apart by `KernelView`, which hides the links of a
TCB that is not queued and the priority of one that is dormant. Both are
written before they are next read: `pq_add` sets the links, creation the
priority. The argument needs `QueueWellFormed`, which the same run checks, so
the view is used only in runs without lapses that corrupt the queue. The run
`interrupt` uses it with the two variables of `Interrupt` added; `applications`
uses none.

*Fairness.* `CooperativeSpec` asks that a task which can always yield does
(`WF(Yield)`) and that a call which has returned from its switch goes on
(`WF(RecvResume)`). The second is how a processor works. The first is the
discipline of the system: there is no time slice, the null task yields for
ever, and a task that never calls the kernel does starve the others. It leaves
out `k_tsk_set_prio`, because giving a task the priority it already has sends
it to the end of its FIFO, and one task can starve another by repeating that.

`AppSpec` asks, for the tests that end, that the processor goes on (`TaskSteps`),
that an interrupt which can be taken is taken and its handler goes on
(`Interrupted`, `SendsKey`), and that the tester types what is asked for
(`Types`). There is one processor and every step is enabled by the state alone,
so weak fairness is enough. The other tests loop by design and end at no point.

## 4. What is proved

**The ready queue.** For every number of tasks up to 65535, every number of priorities from three
on, and every sequence of calls within the contract:

| theorem of `ReadyQueue_proofs` | says |
|---|---|
| `TypeCorrect` | `[]TypeOK`: `size` never wraps, no link dangles |
| `WellFormedQueue` | `[]QueueWellFormed` |
| `Refinement` | `ImplementsReadyFifo`: `queue.c` implements the FIFOs |

*Assumptions.* `MAX_TASKS` is between 2 and 65535 (`size` is an unsigned short;
the code has 160), there are at least three priorities (the code has 256), and
`NULL` is no task.

*The argument.* `QueueWellFormed` alone is awkward as an induction hypothesis,
since it speaks of the FIFOs through a CHOOSE. The inductive invariant `IInv`
says that some FIFOs `f` are represented. `PrioQueue_proofs` follows each
operation on such an `f`:

1. `LeastElement` (`DataLemmas`): a nonempty set of naturals has a least element.
   It stands in for induction along a list: a walk that goes wrong goes wrong at
   a first node.
2. `ListReaches`, `LastOfList`, `ListUnique`: a walk from the head visits the
   nodes of the list and no other, ends at its last node, and pointers spell
   out at most one sequence. So `Fifos(q) = f` (`FifosOfQueue`).
3. `AddFields`, `RemoveFields`: the record each function leaves, case by case.
4. `AddRepresents`, `RemoveRepresents`, `DequeueRepresents`, `MovedRepresents`:
   which FIFOs that record spells out. The lists of other priorities are
   untouched because a task's `prio` field puts it on one list only
   (`PriorityOfMember`), and `next_dq` stays the most urgent occupied priority
   (`FirstNonEmptyProperties`). A dequeue is a removal of the head
   (`DequeueIsRemove`).

`ReadyQueue_proofs` matches each call with one abstract operation (`AddStep`,
`DequeueStep`, `RemoveStep`, `MoveStep`) and concludes.

**The ring.** For every ring size, every header size from four bytes up, every
set of messages whose length word is right and every receive buffer:

| theorem of `CircQ_proofs` | says |
|---|---|
| `TypeCorrect` | `[]TypeOK`: both pointers stay in the buffer |
| `RingCorrect` | `[]RingSpellsMessages`: no write ever touches an unread byte |
| `Refinement` | `ImplementsMsgFifo` |

*Assumptions.* The length word of a message is its length, and a message is
longer than its header: `k_send_msg` takes the length from the header and
rejects shorter ones. The ring is larger than a header, which `cq_init` tests.

*The argument.* `RingSpellsMessages` is inductive together with `TypeOK`. It
carries a witness, the offsets at which the messages begin, as a function and
not as a recursive sum, so that an append adds one offset (`WriteLaysOut`), a
read drops the first and shifts the others (`ReadLaysOut`), and no induction
over the messages is needed. All wrap-around is in five lemmas about `Ahead`
and `Distance` (`AheadAhead`, `DistanceOn`, `DistanceBack`, ...). `SpaceIs`
shows that `cq_count_space` is the size less the last offset, in the empty and
the full ring too; `FirstMessage` that the length word at `head` is that of
the oldest message. `WriteStep` and `ReadStep` match the steps of `MsgFifo`.

**The heap.** For every size of the heap and every set of requests:

| theorem of `Heap_proofs` | says |
|---|---|
| `TypeCorrect` | `[]TypeOK` |
| `FreeListIsCoalesced` | `[]FreeListCoalesced`: no two free blocks touch |
| `Tiling` | `[]BlocksTile`: free and allocated blocks tile the heap |
| `NeverRefusesWhatFits` | `[]NullOnlyIfNothingFits` |
| `ExtFragCorrect` | `[]ExtFragExact` |
| `Refinement` | `ImplementsHeapSpec` |

*Assumptions.* The heap holds at least one unit (`TailAssumption`), and a request
is for at least one besides its header (`RequestsAssumption`).

*The argument.* A list or a set of blocks is looked at through the units it
covers. `IInv` says that the free list is in address order with a gap between
neighbours, that blocks do not overlap, and that every unit of the heap lies in
exactly one node or block. `CutIs` says which units `k_mem_alloc` takes from a
node, `SplicedIsOrdered`, `RightOfIs` and `JoinedIs` which nodes the four cases
of `k_mem_dealloc` leave. The rest follows from `OneNode`: a contiguous stretch
of free units lies in one node, since the unit after a node belongs to a block.
So a request that fits in the free memory fits in a node, the first node it fits
in is the lowest address it fits at, and the nodes are the gaps of `HeapSpec`.

**The kernel under interrupts.** For every number of tasks up to 65535, every
number of priorities from three on, every mailbox capacity, every depth of the
UART's FIFO, and every interleaving of calls and keys, as long as no call lapses
(`Lapses = {}`):

| theorem of `Kernel_proofs` | says, of the kernel under interrupts |
|---|---|
| `TypeCorrect` | `[]IrqTypeOK`; of a mailbox, that its count never passes the capacity and never wraps |
| `QueueIsWellFormed` | `[]QueueWellFormed` |
| `ReadyTasksAreQueued` | `[]ReadyIffQueued` |
| `OnlyCurrentRuns` | `[]CurrentRuns` |
| `ActiveCountIsExact` | `[]ActiveCountExact` |
| `NoWakeupIsLost` | `[]NoLostWakeup` |
| `WokenReceiverHasMessage` | `[]ResumeFindsMessage` |
| `NoKernelBlockLeaks` | `[]HeapBlocksOwned` |
| `HandlerGoesOn` | `[]HandlerCanGoOn` |
| `MostUrgentIsDispatched` | `SwitchToMostUrgent` |
| `NobodyIsOvertaken` | `NoOvertaking` |
| `InterruptsKeepPriority` | `[]StrictPriority`, if no step is `SetPrio` |

| theorem of `Kernel_proofs` | says, of the kernel without interrupts |
|---|---|
| `KernelSafe` | `[]KInv` and `SwitchToMostUrgent` |
| `FirstInFirstOut` | `NoOvertaking` |
| `PriorityIsStrict` | `[]StrictPriority`, if no step is `SetPrio` |
| `CooperationIsStrict` | `[]StrictPriority` of `CooperativeSpec` |
| `WaitIsBounded` | `WaitShortens` |
| `OnlyFullSlotsHarmNullTask` | `[]NullTaskIntact`, whatever lapses but `slots_full` |

Three of these are the other side of a fault of section 5. The run shows that
the property fails with the faulty call, the theorem that it holds without it:
`StrictPriority` needs a `k_tsk_set_prio` of another task to fail,
`NullTaskIntact` a creation with only the decoder's slot free (every other
lapse is allowed in that theorem), `ReadyIffQueued` some lapse.

*Assumptions.* Those of the ready queue; a mailbox holds at least one message and
`NULL` is no count; the UART holds at least one key.

*The argument.* The invariants of the run are not inductive one by one: that a
task is queued exactly when it is READY depends on the shape of the queue, on who
is RUNNING and on the null task being last. `KInv` has four parts.

1. `Standing(rq, state, cur)`: the queue holds, as FIFOs that its pointers spell
   out, the READY tasks and the null task; only `cur` is RUNNING; the null task
   alone has `PRIO_NULL`. `CanRun` is the same at the moment the scheduler is
   called, when `cur` has been put back while its state still says RUNNING, or
   has left. The FIFOs are known by their members alone (`Holds`).
2. `Waiting`: an empty mailbox under a blocked task, a message for one that was
   woken and has not yet read.
3. `Counted`: stacks, mailboxes, and the two counters over them.
4. `Booting`: the boot loop has slots left for what it has still to create, and
   the decoder's own if the decoder is among it. Without it a boot entry could
   overwrite a task.

`RunNew` leads from `CanRun` to `Standing`: the head of the queue is as urgent as
any, and it is the null task only if nothing else is queued. Each way a call
changes queue and states before it has a lemma (`PutBackCanRun`, `LeaveCanRun`,
`ArriveStanding`, `ReprioStanding`, `MoveStanding`, `SendCanRun`), and so has each
change of the data (`BornData`, `DiedData`, `DepositData`, `ReadData`); then there is one lemma
per action, and `NextKeeps`. `IrqInv` adds `Handling`: the
task under the handler is READY or RUNNING and in no call. It is inductive
because a task on the queue is taken off it by the scheduler only (`ReadyStays`).

*The order.* `NoOvertaking` needs to know where a task stands in its FIFO, which
`Holds` has forgotten. It is not part of the invariant: the members are enough to
know that the pointers spell out some FIFOs, and the order is then read off the
pointers. `Precedes(q, u, t)`, the walk of the links from `u` comes to `t`, is
`u` being in front of `t` in those FIFOs (`PrecedesIff`), so that `JoinedOrder`,
`LeftOrder`, `DequeueOrder` and `MovedOrder` of `PrioQueue_proofs` are facts
about sequences, and say how each queue operation changes it. `Behind(q, t)` says
that `q` has nobody in front of `t` who was not there when the step began. An
addition (`PutBackOrder`) or a change of another task's priority keeps it on the
way to the scheduler; the scheduler takes the head, so the task it gives the
processor to preceded `t` (`RunNewOrder`). A yield takes the head of the FIFO
of a task that is due and puts the caller behind it, so the set of those before
it loses one and gains none (`YieldShortensWait`).

*Strict priority.* `StrictInv` holds from the first step and is kept by every
call that ends in the scheduler (`RequeueUrgent`, `LeaveUrgent`) or compares the
caller with the head of the queue it leaves (`GoOnUrgent`). `k_tsk_set_prio` of
another task compares it with an earlier head, and is the one call without a lemma.

*The null task.* `NullInv` needs neither `KInv` nor the contract of `queue.c`:
the list operations write links and never priorities, whatever the pointers say.

**The command decoder.** For every size of the buffer, every length of line,
every alphabet and every set of tasks that leaves room for the mark:

| theorem of `Kcd_proofs` | says |
|---|---|
| `TypeCorrect` | `[]TypeOK` |
| `Refinement` | `ImplementsCommandLine` |

*Assumptions.* Those of `Kcd`: the buffer holds two characters at least, and
`MAX_TASKS` is at most 231, the id that 999 becomes in eight bits (the code has
160). `NOBODY` is no task id (`NobodyAssumption`).

*The argument.* `KcdInv` adds `LookedUp` to `TypeOK`: between the look-up of a
task and the send to it, the line that was looked up is still in the buffer and the table
still says where it goes. The refinement maps buffer and count to a sequence in which
a character beyond the buffer is `LOST`. `LineGrows`, `LineShrinks` and
`LineTail` follow a key, a backspace and the copy to the message; `DeliveredIs`
shows that the mark, cut to eight bits, is an id that no task has.

**The whole system.** For every number of tasks, priorities, keys and messages, every
size of the heap, and *every* test programs that are well formed, as long as no call lapses
and the test is not one of the heap tests:

| theorem of `Applications_proofs` | says |
|---|---|
| `AppsRunOnTheKernel` | `AppSpec => IrqSpec`: what is proved of the kernel holds under the programs |
| `AppTypeCorrect` | `[]AppTypeOK` |
| `KernelBlocksAreAccounted` | `[]KernelBlocksAccounted` |
| `TasksKeepApart` | `[]Apart(free, taken)`: no stack, mailbox or task block overlaps another or a free node |

*Assumptions.* Those of the kernel and the heap, `AppsAssumption`, and
`ProgramsAssumption` of `TestTasks`: the size in a call is a number, a jump
stays in its function, what is created is a function of the test, and only the
heap tests call `mem_init`. TLC evaluates it for the 34 tests. Beyond it the
proofs do not look at what a program calls, so they hold of any other programs.
`Lapses = {}` stops tests 2, 3 and 33 at the call of section 5 that they make;
the run `applications` follows them past it. The heap tests start over with
the heap under their own stacks and accounts (`MemInit`), after which the
kernel's blocks are not accounted for, by design of those tests. A creation for
whose stack the heap has no room is a lapse (`CreateAllocates`), and any other
allocation without room is no step of `Applications`.

*The argument.* `AppInv` is five invariants, each of which needs the others.

1. `IrqInv` of the kernel. Every step of `AppNext` is one of `IrqNext` or leaves
   the kernel alone (`AppStep`): a call of a program meets the guard of the
   action it stands for. For that the caller must be at a call of its function.
2. `Programs`: it is, or past the last. `CallIs` looks up the call of the current
   task, `BootIs`, `CreateIs` and `ExitIs` who comes and goes, and there is one lemma
   per step. A task that blocks in `k_recv_msg` stays at its call until it
   resumes, and nobody else moves it (`CallerGoesOn`, `CallerFollows`).
3. `Inboxes`: a mailbox has the messages that the kernel counts, and a dormant
   task has none. This is what joins the two halves of `k_send_msg` and `k_recv_msg`, the
   counting of `Kernel` and the copying of `Applications`.
4. `Memory`: nodes and blocks share no unit (`Apart`), and the places of the
   kernel's blocks are those of the stacks and mailboxes, each used once
   (`Placed`). `KernelBlocksAccounted` alone is not inductive: if two tasks had
   one place, the exit of one would free the other's block; if a dormant or
   privileged task kept a place, `k_tsk_exit` would give back what
   is not its own. `Apart` is weaker than the invariant of `Heap_proofs`, and needs
   no order of the list, for it is kept by the list alone
   (`AllocKeepsApart`, `JoinedKeepsApart`, `GivenBackKeepsApart`), whoever calls.
5. `Keyboard`: keys, and the text on the command line.

`PlacedCount` counts the places for `kblocks`.

**Model-checked only.** What the 34 concrete programs add up to: the results
they report (`VerdictsCorrect`), the order of their lines (`PreemptionOrder`), which of them
leave the code (`StaysDefined`), and that no key of test 2 is lost
(`KeysReachDecoder`). These hold because of what those tests call, in which order
and how often, and most of the tests lapse; a proof would follow each program
through its interleavings, which is what TLC does. Three of the
faults (`prio_of_blocked`, `heap_exhausted`, `interrupt_eoi`) and the violations
themselves. What needs fairness (`DueTaskRuns`, `TestCompletes`), which is out of the
prover's reach; `WaitIsBounded` is the part of `DueTaskRuns` that does not.

## 5. Disagreements between the code and what is said of it

* `stale_peek`: `k_tsk_set_prio` compares a queue head it read before
  `pq_move` (`k_task.c:662` and `688`). A ready task that was not the head and
  is raised above the caller does not preempt it.
* `prio_of_blocked`: `pq_move` adds a TCB it has not found on the queue, so
  setting the priority of a task that waits for a message queues it
  (`queue.c:228`). It runs without a message, and a later send may queue it
  twice. Tests 2 and 3 make the call (`ae_usr_tasks.c:399`, `562`, `586`).
* `slots_full`: when only the decoder's slot is free, `k_tsk_create` tests the
  pointer to the task id instead of the id and overwrites the null task
  (`k_task.c:553`). Test 33 does it.
* `heap_exhausted`: `k_alloc_p_stack` tests the sum of the block address and
  the stack size for NULL, so a task is created on memory that was never
  allocated (`k_mem.c:102`). The board has a gigabyte, which any task may fill
  with `mem_alloc`; the run makes the heap a kilobyte, and there the second
  creation of test 25 finds no room.
* `interrupt_eoi`: a comment of `c_IRQ_Handler` asks for the end of interrupt
  before any context switch (`HAL_CA.c:307`), but the handler's own `send_msg`
  switches to the decoder before it (`HAL_CA.c:266`). No interrupt is served
  until the interrupted task runs again. `HandlerCanGoOn` shows that it can.

Three tests expect what the kernel does not do. They say more of the tests than
of the kernel, and have no run of their own: `Applications.cfg` with `Tests` cut
down to the test, and `ReportsVerdict` or `LinesAsNumbered` as its invariant,
gives the trace. The properties of `applications` leave out what these three
report and print, and keep the rest of them: that they end, stay defined, and
keep the kernel's blocks.

* Test 101 (`ReportsVerdict`) frees block after block and asks each time for one
  fragment smaller than four bytes (`ae_mem.c:316-317`), meaning that all free
  memory is "one giant unallocated block" (`ae_mem.c:271-272`). A free node has at
  least eight bytes, so the count is 0 (`k_mem.c:354`) and the test reports
  failure at the first deallocation, whether or not the heap coalesces.
  `ExtFragExact` is about the count with any argument.
* Test 103 (`ReportsVerdict`) says that it frees all its blocks before it
  allocates them again, and compares the places (`ae_mem.c:410`, `442`). It frees
  none, so the places differ in the second turn and it reports failure.
* Test 38 (`LinesAsNumbered`) numbers its lines against strict priority.
  `utask6` prints line 10 (`ae_usr_tasks.c:1066`) after it has lowered itself below
  all others, `utask3` prints 12 (1023) and `utask1` 15 (994) after more urgent
  tasks have printed 13 (1039) and 16 (1010). The lines come as 1 to 9, 11, 13, 12,
  14, 16, 15, 17, 18, 10.

## 6. What is not modelled

* Registers, stack frames, the SVC and IRQ assembly, the GIC, the timer and the
  UART: device and register access, below the level of the state above.
* `k_tsk_get_info` and `k_tsk_get_tid`, which only read; `pq_print`; the stubs
  (`k_tsk_ls`, `k_tsk_suspend`, the real-time calls, `k_recv_msg_nb`,
  `k_mbx_ls`).
* Message contents and lengths in `Kernel`, which counts messages; `CircQ` has
  both, `Applications` the contents. Sizes of 12 bytes or less, for which `cq_init` fails and
  `k_mbx_create` leaves a mailbox that was never initialised.
* Privileged tasks calling `k_` functions directly, with interrupts enabled:
  `Interrupt` takes every call as one step.
* `k_mem_dealloc` of an address that is no allocated block: it believes the bytes
  it finds there. Sizes so near to 2^32 that adding the header wraps.
* Registrations for a character that is no letter or digit, which write before
  the table; a decoder whose `mem_alloc` fails.
* Of the test applications: printing, delays, reads of task information, and
  what follows undefined behaviour. Test 32 is empty.
* `board/`: register access of UART, timer and interrupt controller, start-up
  code, and a third-party `printf`.

## 7. Plan

1. The end of an interrupt after a switch: a theorem that only a send which wakes
   a more urgent decoder delays it.
2. More of the code: `k_mbx_create` with a size too small and `kcd_twice` as runs,
   sizes modulo a word in `Heap`, a privileged task's call split by an interrupt.
