------------------------- MODULE Applications_proofs -------------------------
(***************************************************************************)
(* Proofs about the whole system of Applications: tasks on the kernel with *)
(* its interrupts, its heap and the command decoder, for any programs that *)
(* are well formed (ProgramsAssumption) and do not start over with the     *)
(* heap, as long as no call lapses.  What the programs call is not looked  *)
(* at: what is proved holds of the tests of app/ and of any others.        *)
(***************************************************************************)
EXTENDS Applications, Kernel_proofs

\* A finite sequence, whatever its elements are.
IsSomeSeq(s) == s \in Seq({s[k] : k \in DOMAIN s})

\* r has the fields that Start gives a task.
IsTask(r) ==
  r = [entry |-> r.entry, pc |-> r.pc, child |-> r.child, ptr |-> r.ptr, got |-> r.got,
       passed |-> r.passed, count |-> r.count, stack |-> r.stack, box |-> r.box, cap |-> r.cap]

\* A task is at a call of a function of its test, or past the last; if it waits
\* in a call it is at one.
InItsFunction(st, ct, pg) ==
  \A t \in Tid \ {TID_NULL} : st[t] # DORMANT =>
    /\ pg[t].entry \in DOMAIN Code[test]
    /\ pg[t].pc \in 1 .. Len(Code[test][pg[t].entry]) + 1
    /\ ct[t] # "none" => pg[t].pc <= Len(Code[test][pg[t].entry])

\* The test, and where its boot list and its tasks are.
Programs ==
  /\ test \in DOMAIN Boot \ HeapTests
  /\ boot.left <= Len(Boot[test])
  /\ prog = [t \in Tid |-> prog[t]] /\ \A t \in Tid : IsTask(prog[t])
  /\ InItsFunction(state, cont, prog)

\* A mailbox holds as many messages as it counts, and only a task that is there
\* has one; a receiver that waits will take a message.
Inboxes ==
  /\ inbox = [t \in Tid |-> inbox[t]]
  /\ \A t \in Tid : /\ IsSomeSeq(inbox[t])
                    /\ Len(inbox[t]) = IF mailbox[t] = NULL THEN 0 ELSE mailbox[t]
                    /\ state[t] = DORMANT => mailbox[t] = NULL
                    /\ cont[t] \in {"none", "take"}

\* Two pieces of the heap that share no unit.
Disjoint(a, b) == H!EndOf(a) <= b.at \/ H!EndOf(b) <= a.at

\* Free list f and blocks tk lie in the heap and share no unit, whatever the
\* order of the list.
Apart(f, tk) ==
  /\ f \in Seq(H!Node) /\ tk \subseteq H!Block
  /\ \A k \in 1 .. Len(f) : H!EndOf(f[k]) <= TAIL
  /\ \A b \in tk : H!EndOf(b) <= TAIL
  /\ \A j, k \in 1 .. Len(f) : j # k => Disjoint(f[j], f[k])
  /\ \A k \in 1 .. Len(f), b \in tk : Disjoint(f[k], b)
  /\ \A b, c \in tk : b # c => Disjoint(b, c)

\* Where the blocks of the kernel are.
KernelPlaces(tk) == {b.at : b \in {x \in tk : x.owner = MAGICNUMBER}}

\* The tasks of S have their stacks, and those of B their mailboxes, in the
\* places of P: one place each, and all of them.
Placed(P, S, B, pg) ==
  /\ P = {pg[t].stack : t \in S} \cup {pg[t].box : t \in B}
  /\ \A t, u \in S : pg[t].stack = pg[u].stack => t = u
  /\ \A t, u \in B : pg[t].box = pg[u].box => t = u
  /\ \A t \in S, u \in B : pg[t].stack # pg[u].box

\* Heap and task table agree; a task that lacks one of the two blocks has no
\* place of one.
Memory ==
  /\ Apart(free, taken)
  /\ Placed(KernelPlaces(taken), Stacked(state, ustack), Boxed(state, mailbox), prog)
  /\ \A t \in Alive(state) : /\ priv[t] => prog[t].stack = 0
                             /\ mailbox[t] = NULL => prog[t].box = 0

\* The keys that came, and what is on the command line.
Keyboard ==
  /\ keys = [typed |-> keys.typed, asked |-> keys.asked]
  /\ keys.typed \in Nat /\ keys.asked \in Nat /\ keys.typed <= MaxTyped
  /\ IsSomeSeq(line)
  /\ delivered # NULL => IsSomeSeq(delivered.text)
  /\ undefined \in BOOLEAN

-----------------------------------------------------------------------------
(* Every step is one of the kernel under interrupts, or none of its.       *)

\* Who makes a call, and what call.
LEMMA CallIs ==
  ASSUME IrqInv, Programs, NEW ops, At(ops)
  PROVE  /\ Me \in Tid \ {TID_NULL}
         /\ state[Me] = RUNNING /\ cont[Me] = "none" /\ boot.left = 0
         /\ Calls /\ ~ InHandler
         /\ prog[Me].entry \in DOMAIN Code[test]
         /\ prog[Me].pc \in 1 .. Len(CodeOf(Me))
         /\ Len(CodeOf(Me)) \in Nat /\ DOMAIN CodeOf(Me) = 1 .. Len(CodeOf(Me))
         /\ WellFormedCall(test, CodeOf(Me), prog[Me].pc)
         /\ Call = CodeOf(Me)[prog[Me].pc]
         /\ Call.op \in ops
         /\ UNCHANGED <<rx, handler, test, low_byte, undefined>>
<1>1. /\ Calls /\ ~ InHandler /\ ~ LeavesTheCode /\ Call.op \in ops
      /\ UNCHANGED <<rx, handler, test, low_byte, undefined>>
  BY DEF At, Going
<1>2. /\ Me \in Tid \ {TID_NULL} /\ state[Me] = RUNNING /\ cont[Me] = "none" /\ boot.left = 0
  BY <1>1, CallerIs DEF IrqInv, Me
<1>3. ~ Returned
  BY <1>1, <1>2 DEF LeavesTheCode
<1>4. /\ prog[Me].entry \in DOMAIN Code[test]
      /\ prog[Me].pc \in 1 .. Len(CodeOf(Me)) + 1
  BY <1>2 DEF Programs, InItsFunction, CodeOf, RUNNING, DORMANT
<1>5. WellFormedTest(test)
  BY ProgramsAssumption DEF Programs
<1>6. /\ Len(CodeOf(Me)) \in Nat /\ DOMAIN CodeOf(Me) = 1 .. Len(CodeOf(Me))
      /\ \A k \in 1 .. Len(CodeOf(Me)) : WellFormedCall(test, CodeOf(Me), k)
  BY <1>4, <1>5 DEF WellFormedTest, CodeOf
<1>7. prog[Me].pc \in 1 .. Len(CodeOf(Me))
  BY <1>3, <1>4, <1>6 DEF Returned
<1>8. Call = CodeOf(Me)[prog[Me].pc]
  BY DEF Call
<1> QED
  BY <1>1, <1>2, <1>4, <1>6, <1>7, <1>8

\* The boot list entry that is read.
LEMMA EntryIs ==
  ASSUME IrqInv, Programs, boot.left > 0
  PROVE  /\ Entry.entry \in DOMAIN Code[test] /\ Entry.priv \in BOOLEAN /\ Entry.stack \in Nat
         /\ Len(Boot[test]) \in Nat /\ boot.left \in Nat
<1>1. WellFormedTest(test)
  BY ProgramsAssumption DEF Programs
<1>2. boot.left \in 0 .. MAX_TASKS - 1 /\ boot.left <= Len(Boot[test])
  BY DEF IrqInv, KInv, Data, Booting, Programs
<1>3. MAX_TASKS \in Nat
  BY MaxTasksAssumption
<1>4. Len(Boot[test]) \in Nat
  BY <1>1 DEF WellFormedTest
<1>5. Len(Boot[test]) - boot.left + 1 \in 1 .. Len(Boot[test])
  BY <1>2, <1>3, <1>4
<1> QED
  BY <1>1, <1>2, <1>3, <1>4, <1>5 DEF WellFormedTest, Entry

\* A task that is not under the handler takes a step of the kernel, or none.
LEMMA TaskStepIs ==
  ASSUME IrqInv, UNCHANGED <<rx, handler>>, Next \/ UNCHANGED vars, ~ InHandler
  PROVE  [IrqNext]_irqVars
BY DEF IrqNext, TaskStep, irqVars

\* While the kernel boots, and in the null task, there is no handler.
LEMMA NotInHandler ==
  ASSUME IrqInv, boot.left > 0 \/ Me = TID_NULL
  PROVE  ~ InHandler
<1>1. handler # NULL => handler \in Tid \ {TID_NULL} /\ boot.left = 0
  BY DEF IrqInv, Handling
<1>2. Me \in Tid
  BY DEF IrqInv, KInv, Me
<1> QED
  BY <1>1, <1>2, NullAssumption DEF InHandler, Me

\* k_tsk_init.
LEMMA BootsStep ==
  ASSUME IrqInv, Programs, Boots
  PROVE  [IrqNext]_irqVars
<1>1. boot.left > 0 /\ UNCHANGED <<rx, handler>> /\ ~ InHandler
  BY NotInHandler DEF Boots
<1>2. CASE Valid(Entry)
  <2> DEFINE kcd == Entry.entry = "kcd_task"
  <2>1. BootTask(kcd, Entry.prio, Entry.priv)
    BY <1>2 DEF Boots
  <2>2. Entry.prio \in TaskPrio /\ Entry.priv \in BOOLEAN /\ kcd \in BOOLEAN
    BY <1>1, <1>2, EntryIs DEF Valid
  <2>3. Next
    BY <2>1, <2>2 DEF Next
  <2> QED
    BY <1>1, <2>3, TaskStepIs
<1>3. CASE ~ Valid(Entry)
  <2>1. BootStop
    BY <1>3 DEF Boots
  <2> QED
    BY <1>1, <2>1, TaskStepIs DEF Next
<1> QED
  BY <1>2, <1>3

\* k_tsk_yield, in a task and in the null task.
LEMMA YieldsStep ==
  ASSUME IrqInv, Programs, Yields \/ NullYields
  PROVE  [IrqNext]_irqVars
<1>1. UNCHANGED <<rx, handler>> /\ ~ InHandler
  <2>1. CASE Yields
    BY <2>1, CallIs DEF Yields
  <2>2. CASE NullYields
    BY <2>2, NotInHandler DEF NullYields
  <2> QED
    BY <2>1, <2>2
<1>2. Yield \/ UNCHANGED vars
  BY DEF Yields, NullYields, YieldOrGoOn
<1> QED
  BY <1>1, <1>2, TaskStepIs DEF Next

\* k_tsk_exit.
LEMMA ExitsStep ==
  ASSUME IrqInv, Programs, Exits
  PROVE  [IrqNext]_irqVars
<1>1. UNCHANGED <<rx, handler>> /\ ~ InHandler
  BY CallIs DEF Exits
<1>2. Exit
  BY DEF Exits
<1> QED
  BY <1>1, <1>2, TaskStepIs DEF Next

\* k_tsk_create.
LEMMA CreatesStep ==
  ASSUME IrqInv, Programs, Creates
  PROVE  [IrqNext]_irqVars
<1>1. UNCHANGED <<rx, handler>> /\ ~ InHandler
  BY CallIs DEF Creates
<1>2. CASE CanCreate(Call)
  <2>1. Create(FALSE, Call.prio, H!HasNode(Units(Call.stack))) /\ Call.prio \in TaskPrio
    BY <1>2 DEF Creates, CanCreate
  <2>2. H!HasNode(Units(Call.stack)) \in BOOLEAN
    BY DEF H!HasNode
  <2>3. Next
    BY <2>1, <2>2 DEF Next
  <2> QED
    BY <1>1, <2>3, TaskStepIs
<1>3. CASE ~ CanCreate(Call)
  <2>1. UNCHANGED vars
    BY <1>3 DEF Creates
  <2> QED
    BY <1>1, <2>1, TaskStepIs
<1> QED
  BY <1>2, <1>3

\* k_tsk_set_prio.
LEMMA SetsPrioStep ==
  ASSUME IrqInv, Programs, SetsPrio
  PROVE  [IrqNext]_irqVars
<1>1. UNCHANGED <<rx, handler>> /\ ~ InHandler
  BY CallIs DEF SetsPrio
<1>2. CASE SetPrioFails(Named, Call.prio)
  <2>1. UNCHANGED vars
    BY <1>2 DEF SetsPrio
  <2> QED
    BY <1>1, <2>1, TaskStepIs
<1>3. CASE ~ SetPrioFails(Named, Call.prio)
  <2>1. Named \in Tid /\ Call.prio \in TaskPrio
    BY <1>3 DEF SetPrioFails
  <2>2. SetOwnPrio(Call.prio) \/ SetPrio(Named, Call.prio)
    BY <1>3 DEF SetsPrio
  <2>3. Next
    BY <2>1, <2>2 DEF Next
  <2> QED
    BY <1>1, <2>3, TaskStepIs
<1> QED
  BY <1>2, <1>3

\* k_mem_alloc, k_mem_dealloc, and what a task does by itself.
LEMMA LocalStep ==
  ASSUME IrqInv, Programs, MemAlloc \/ MemDealloc \/ Decode \/ AllocCommand \/ Computes
  PROVE  [IrqNext]_irqVars
<1>1. \E ops : At(ops)
  BY DEF MemAlloc, MemDealloc, Decode, AllocCommand, Computes
<1>2. UNCHANGED <<rx, handler>> /\ ~ InHandler
  BY <1>1, CallIs
<1>3. UNCHANGED vars
  BY DEF MemAlloc, MemDealloc, Decode, AllocCommand, Computes
<1> QED
  BY <1>2, <1>3, TaskStepIs

\* k_mbx_create, k_send_msg and k_recv_msg.
LEMMA MessageStep ==
  ASSUME IrqInv, Programs, MbxCreates \/ Sends \/ Receives \/ Resumes
  PROVE  [IrqNext]_irqVars
<1>1. UNCHANGED <<rx, handler>> /\ ~ InHandler
  <2>1. CASE MbxCreates
    BY <2>1, CallIs DEF MbxCreates
  <2>2. CASE Sends
    BY <2>2, CallIs DEF Sends
  <2>3. CASE Receives
    BY <2>3, CallIs DEF Receives
  <2>4. CASE Resumes
    BY <2>4 DEF Resumes
  <2> QED
    BY <2>1, <2>2, <2>3, <2>4
<1>2. Next \/ UNCHANGED vars
  <2>1. CASE MbxCreates
    BY <2>1 DEF MbxCreates, Next
  <2>2. CASE Sends
    <3>1. \E r, m, p, p0 : Delivers(r, m, p, p0)
      BY <2>2 DEF Sends
    <3>2. PICK r : UNCHANGED vars \/ (r \in Tid /\ Send(r))
      BY <3>1 DEF Delivers, Accepts
    <3> QED
      BY <3>2 DEF Next
  <2>3. CASE Receives
    <3>1. Recv("take") \/ RecvBlock("take")
      BY <2>3 DEF Receives
    <3> QED
      BY <3>1 DEF Next, Reads
  <2>4. CASE Resumes
    BY <2>4 DEF Resumes, Next
  <2> QED
    BY <2>1, <2>2, <2>3, <2>4
<1> QED
  BY <1>1, <1>2, TaskStepIs

\* The UART and the handler.
LEMMA KeyStep ==
  ASSUME Types \/ Interrupted \/ SendsKey \/ LosesItself
  PROVE  [IrqNext]_irqVars
BY DEF Types, Interrupted, SendsKey, LosesItself, IrqNext

\* k_mem_init is called by the heap tests alone.
LEMMA NoMemInit ==
  ASSUME IrqInv, Programs
  PROVE  ~ MemInit
<1> SUFFICES ASSUME MemInit PROVE FALSE
  OBVIOUS
<1>1. /\ Call.op = "mem_init"
      /\ WellFormedCall(test, CodeOf(Me), prog[Me].pc)
      /\ Call = CodeOf(Me)[prog[Me].pc]
  BY CallIs DEF MemInit
<1> QED
  BY <1>1 DEF WellFormedCall, Programs

\* All steps.
LEMMA AppStep ==
  ASSUME IrqInv, Programs, [AppNext]_appVars
  PROVE  [IrqNext]_irqVars
<1>1. CASE UNCHANGED appVars
  BY <1>1 DEF appVars
<1>2. CASE AppNext
  BY <1>2, BootsStep, YieldsStep, ExitsStep, CreatesStep, SetsPrioStep, LocalStep,
     MessageStep, KeyStep, NoMemInit DEF AppNext, TaskSteps
<1> QED
  BY <1>1, <1>2

-----------------------------------------------------------------------------
(* Who is there after a step.                                              *)

\* The scheduler makes nobody exit ...
LEMMA RunNewKeepsAll ==
  ASSUME NEW q, NEW st \in [Tid -> States], run_new(q, st), NEW t \in Tid, st[t] # DORMANT
  PROVE  state'[t] # DORMANT
<1> DEFINE new == pq_peek(q)
           s1  == IF q.next_dq = PRIO_NULL THEN st ELSE [st EXCEPT ![new] = RUNNING]
<1>1. state' = SwitchedOut(s1, new)
  BY DEF run_new
<1>2. RUNNING \in States /\ RUNNING # DORMANT
  BY DEF States, RUNNING, DORMANT
<1>3. s1 \in [Tid -> States] /\ s1[t] # DORMANT
  BY <1>2
<1> HIDE DEF s1, new
<1> QED
  BY <1>1, <1>3 DEF SwitchedOut, READY, DORMANT

\* ... and, since g_num_active_tasks counts who is there, nobody appear.
LEMMA CountedAlive ==
  ASSUME KInv', NEW st \in [Tid -> States],
         \A t \in Tid : st[t] # DORMANT => state'[t] # DORMANT,
         g_num_active_tasks' = Cardinality(Alive(st))
  PROVE  \A t \in Tid : state'[t] = DORMANT <=> st[t] = DORMANT
<1>1. g_num_active_tasks' = Cardinality(Alive(state'))
  BY DEF KInv, Data, Counted
<1>2. IsFiniteSet(Tid)
  BY FS_Interval, MaxTasksAssumption DEF Tid
<1>3. Alive(st) \subseteq Alive(state') /\ Alive(state') \subseteq Tid
  BY DEF Alive
<1>4. IsFiniteSet(Alive(state'))
  BY <1>2, <1>3, FS_Subset
<1>5. Alive(st) = Alive(state')
  BY <1>1, <1>3, <1>4, FS_Subset
<1> QED
  BY <1>5 DEF Alive

\* Calls that take no block from the heap for the kernel and give none back, and
\* what the handler does.
Tame ==
  \/ UNCHANGED vars
  \/ Yield
  \/ \E p \in TaskPrio : SetOwnPrio(p)
  \/ \E t \in Tid, p \in TaskPrio : SetPrio(t, p)
  \/ \E r \in Tid : Send(r)
  \/ \E how \in Reads : Recv(how) \/ RecvBlock(how)
  \/ RecvResume
  \/ EndInterrupt

\* The tasks that are there stay the same.
LEMMA TameKeepsAlive ==
  ASSUME IrqInv, IrqInv', Tame \/ MbxCreate
  PROVE  /\ \A t \in Tid : state'[t] = DORMANT <=> state[t] = DORMANT
         /\ UNCHANGED <<priv, boot>>
<1>1. /\ state \in [Tid -> States] /\ Me \in Tid /\ KInv'
      /\ g_num_active_tasks = Cardinality(Alive(state))
  BY DEF IrqInv, KInv, Data, Counted, Standing, Me
<1>2. UNCHANGED <<priv, boot, g_num_active_tasks>>
  <2>1. UNCHANGED vars => UNCHANGED <<priv, boot, g_num_active_tasks>>
    BY DEF vars
  <2>2. UNCHANGED TaskData => UNCHANGED <<priv, boot, g_num_active_tasks>>
    BY DEF TaskData
  <2> QED
    BY <2>1, <2>2 DEF Tame, Yield, SetOwnPrio, SetPrio, MbxCreate, Send, Recv, RecvBlock,
       RecvResume, EndInterrupt
<1>3. ASSUME NEW st \in [Tid -> States],
             \A t \in Tid : st[t] = DORMANT <=> state[t] = DORMANT,
             \/ \E q : run_new(q, st)
             \/ state' = st
      PROVE  \A t \in Tid : state'[t] = DORMANT <=> state[t] = DORMANT
  <2>1. Alive(st) = Alive(state)
    BY <1>3 DEF Alive
  <2>2. \A t \in Tid : st[t] # DORMANT => state'[t] # DORMANT
    BY <1>3, RunNewKeepsAll
  <2>3. g_num_active_tasks' = Cardinality(Alive(st))
    BY <1>1, <1>2, <2>1
  <2>4. \A t \in Tid : state'[t] = DORMANT <=> st[t] = DORMANT
    BY <1>1, <2>2, <2>3, CountedAlive
  <2> QED
    BY <1>3, <2>4
<1>4. \/ UNCHANGED state
      \/ \E q : run_new(q, state)
      => \A t \in Tid : state'[t] = DORMANT <=> state[t] = DORMANT
  BY <1>1, <1>3
<1>5. CASE \/ UNCHANGED vars \/ Yield \/ MbxCreate \/ RecvResume \/ EndInterrupt
           \/ \E how \in Reads : Recv(how)
  <2>1. UNCHANGED vars => UNCHANGED state
    BY DEF vars
  <2>2. Yield \/ EndInterrupt => \E q : run_new(q, state)
    BY DEF Yield, EndInterrupt
  <2>3. MbxCreate \/ RecvResume \/ (\E how \in Reads : Recv(how)) => UNCHANGED state
    BY DEF MbxCreate, RecvResume, Recv
  <2> QED
    BY <1>2, <1>4, <1>5, <2>1, <2>2, <2>3
<1>6. CASE (\E p \in TaskPrio : SetOwnPrio(p)) \/ (\E t \in Tid, p \in TaskPrio : SetPrio(t, p))
  <2>1. UNCHANGED state \/ \E q : Requeue(q, state)
    BY <1>6 DEF SetOwnPrio, SetPrio
  <2>2. UNCHANGED state \/ \E q : run_new(q, state)
    BY <2>1 DEF Requeue
  <2> QED
    BY <1>2, <1>4, <2>2
<1>7. ASSUME NEW r \in Tid, Send(r)
      PROVE  \A t \in Tid : state'[t] = DORMANT <=> state[t] = DORMANT
  <2> DEFINE woken == [state EXCEPT ![r] = READY]
             both  == [woken EXCEPT ![Me] = READY]
  <2>1. state[Me] = RUNNING /\ state[r] # DORMANT
    BY <1>7, CallerIs DEF Send, IrqInv, Me
  <2>2. /\ woken \in [Tid -> States] /\ both \in [Tid -> States]
        /\ \A t \in Tid : woken[t] = DORMANT <=> state[t] = DORMANT
        /\ \A t \in Tid : both[t] = DORMANT <=> state[t] = DORMANT
    BY <1>1, <2>1 DEF States, READY, RUNNING, DORMANT
  <2>3. \/ UNCHANGED state
        \/ run_new(pq_add(pq_add(rq, Me), r), both)
        \/ state' = woken
    BY <1>7 DEF Send, Me
  <2> HIDE DEF woken, both
  <2> QED
    BY <1>3, <1>4, <2>2, <2>3
<1>8. ASSUME NEW how \in Reads, RecvBlock(how)
      PROVE  \A t \in Tid : state'[t] = DORMANT <=> state[t] = DORMANT
  <2> DEFINE st == [state EXCEPT ![Me] = BLK_MSG]
  <2>1. state[Me] = RUNNING
    BY <1>8, CallerIs DEF RecvBlock, IrqInv, Me
  <2>2. st \in [Tid -> States] /\ \A t \in Tid : st[t] = DORMANT <=> state[t] = DORMANT
    BY <1>1, <2>1 DEF States, BLK_MSG, RUNNING, DORMANT
  <2>3. run_new(rq, st)
    BY <1>8 DEF RecvBlock, Me
  <2> HIDE DEF st
  <2> QED
    BY <1>3, <2>2, <2>3
<1> QED
  BY <1>2, <1>5, <1>6, <1>7, <1>8 DEF Tame

-----------------------------------------------------------------------------
(* Every task stays in its function.                                       *)

\* The step moves the tasks of M on, and no other.
Moves(M) ==
  /\ prog' = [t \in Tid |-> prog'[t]]
  /\ \A t \in Tid \ M : /\ prog'[t] = prog[t]
                        /\ state'[t] # DORMANT => state[t] # DORMANT
                        /\ cont'[t] # "none" => cont[t] # "none"
  /\ \A t \in M : IsTask(prog'[t])
  /\ \A t \in M \ {TID_NULL} : state'[t] # DORMANT =>
       /\ prog'[t].entry \in DOMAIN Code[test]
       /\ prog'[t].pc \in 1 .. Len(Code[test][prog'[t].entry]) + 1
       /\ cont'[t] # "none" => prog'[t].pc <= Len(Code[test][prog'[t].entry])

\* Every task stays in its function.
LEMMA ProgramsKept ==
  ASSUME Programs, UNCHANGED test, boot'.left <= boot.left,
         boot.left \in Int, boot'.left \in Int, NEW M \in SUBSET Tid, Moves(M)
  PROVE  Programs'
<1>1. test' \in DOMAIN Boot \ HeapTests
  BY DEF Programs
<1>2. boot'.left <= Len(Boot[test'])
  <2>1. Len(Boot[test]) \in Nat
    BY ProgramsAssumption DEF Programs, WellFormedTest
  <2> QED
    BY <2>1 DEF Programs
<1>3. prog' = [t \in Tid |-> prog'[t]] /\ \A t \in Tid : IsTask(prog'[t])
  BY DEF Programs, Moves
<1>4. InItsFunction(state, cont, prog)'
  <2> SUFFICES ASSUME NEW t \in Tid \ {TID_NULL}, state'[t] # DORMANT
               PROVE  /\ prog'[t].entry \in DOMAIN Code[test]
                      /\ prog'[t].pc \in 1 .. Len(Code[test][prog'[t].entry]) + 1
                      /\ cont'[t] # "none" => prog'[t].pc <= Len(Code[test][prog'[t].entry])
    BY DEF InItsFunction
  <2>1. CASE t \in M
    BY <2>1 DEF Moves
  <2>2. CASE t \notin M
    BY <2>2 DEF Programs, InItsFunction, Moves
  <2> QED
    BY <2>1, <2>2
<1> QED
  BY <1>1, <1>2, <1>3, <1>4 DEF Programs

\* The task r that calls, with something noted down.
Noted(q, r) ==
  IsTask(q) /\ q.entry = r.entry /\ q.pc = r.pc /\ q.stack = r.stack /\ q.box = r.box

\* The fields of a task are written one by one.
LEMMA TaskWritten ==
  ASSUME NEW r, IsTask(r), NEW a
  PROVE  /\ Noted([r EXCEPT !.count = a], r) /\ Noted([r EXCEPT !.passed = a], r)
         /\ Noted([r EXCEPT !.ptr = a], r) /\ Noted([r EXCEPT !.got = a], r)
         /\ Noted([r EXCEPT !.cap = a], r) /\ Noted([r EXCEPT !.child = a], r)
<1>1. Noted([r EXCEPT !.count = a], r)
  BY DEF IsTask, Noted
<1>2. Noted([r EXCEPT !.passed = a], r)
  BY DEF IsTask, Noted
<1>3. Noted([r EXCEPT !.ptr = a], r)
  BY DEF IsTask, Noted
<1>4. Noted([r EXCEPT !.got = a], r)
  BY DEF IsTask, Noted
<1>5. Noted([r EXCEPT !.child = a], r)
  BY DEF IsTask, Noted
<1>6. Noted([r EXCEPT !.cap = a], r)
  BY DEF IsTask, Noted
<1> QED
  BY <1>1, <1>2, <1>3, <1>4, <1>5, <1>6

LEMMA PcWritten ==
  ASSUME NEW r, IsTask(r), NEW a
  PROVE  LET q == [r EXCEPT !.pc = a]
         IN /\ IsTask(q) /\ q.entry = r.entry /\ q.pc = a
            /\ q.stack = r.stack /\ q.box = r.box
BY DEF IsTask

LEMMA BoxWritten ==
  ASSUME NEW r, IsTask(r), NEW a
  PROVE  LET q == [r EXCEPT !.box = a]
         IN /\ IsTask(q) /\ q.entry = r.entry /\ q.pc = r.pc
            /\ q.stack = r.stack /\ q.box = a
BY DEF IsTask

\* The caller, gone on in its function, and with its blocks where they were.
GoesOn(p) ==
  IsTask(p) /\ p.entry = prog[Me].entry /\ p.pc \in 1 .. Len(CodeOf(Me)) + 1

Follows(p) ==
  GoesOn(p) /\ p.stack = prog[Me].stack /\ p.box = prog[Me].box

\* No task has its blocks moved.
PlacesKept ==
  \A t \in Tid : prog'[t].stack = prog[t].stack /\ prog'[t].box = prog[t].box

\* The blocks of the kernel stay who has them, and where.
Steady == Tame /\ PlacesKept

\* A call after which the caller goes on in its function.
LEMMA CallerGoesOn ==
  ASSUME IrqInv, IrqInv', Programs, NEW ops, At(ops), Tame \/ MbxCreate, UNCHANGED cont,
         NEW p, prog' = [prog EXCEPT ![Me] = p], GoesOn(p)
  PROVE  Programs' /\ (Follows(p) => PlacesKept)
<1>1. /\ Me \in Tid \ {TID_NULL} /\ cont[Me] = "none" /\ UNCHANGED test
      /\ prog[Me].entry \in DOMAIN Code[test]
  BY CallIs
<1>2. UNCHANGED boot /\ \A t \in Tid : state'[t] = DORMANT <=> state[t] = DORMANT
  BY TameKeepsAlive
<1>3. prog = [t \in Tid |-> prog[t]]
  BY DEF Programs
<1>4. /\ prog' = [t \in Tid |-> prog'[t]] /\ prog'[Me] = p
      /\ \A t \in Tid \ {Me} : prog'[t] = prog[t]
  BY <1>1, <1>3
<1>5. boot.left \in Int
  BY DEF IrqInv, KInv, Data, Booting
<1>6. Moves({Me})
  BY <1>1, <1>2, <1>4 DEF Moves, CodeOf, GoesOn
<1>7. {Me} \in SUBSET Tid
  BY <1>1
<1>8. Programs'
  BY <1>1, <1>2, <1>5, <1>6, <1>7, ProgramsKept
<1>9. Follows(p) => PlacesKept
  BY <1>4 DEF Follows, PlacesKept
<1> QED
  BY <1>8, <1>9

LEMMA CallerFollows ==
  ASSUME IrqInv, IrqInv', Programs, NEW ops, At(ops), Tame, UNCHANGED cont,
         NEW p, prog' = [prog EXCEPT ![Me] = p], Follows(p)
  PROVE  Programs' /\ Steady
<1>1. GoesOn(p)
  BY DEF Follows
<1> QED
  BY <1>1, CallerGoesOn DEF Steady

\* The next call, another of the function, or its end.
LEMMA CallsToGoTo ==
  ASSUME IrqInv, Programs, NEW ops, At(ops)
  PROVE  /\ Follows([prog[Me] EXCEPT !.pc = @ + 1])
         /\ Follows([prog[Me] EXCEPT !.pc = TheNextMessage])
         /\ Call.op \in Branches => Follows([prog[Me] EXCEPT !.pc = Target(Call.miss)])
         /\ Call.op = "goto" => Follows([prog[Me] EXCEPT !.pc = Call.to])
         /\ Follows(prog[Me])
<1> DEFINE n == Len(CodeOf(Me))
<1>1. /\ Me \in Tid /\ n \in Nat /\ prog[Me].pc \in 1 .. n
      /\ DOMAIN CodeOf(Me) = 1 .. n
      /\ WellFormedCall(test, CodeOf(Me), prog[Me].pc) /\ Call = CodeOf(Me)[prog[Me].pc]
  BY CallIs
<1>2. IsTask(prog[Me])
  BY <1>1 DEF Programs
<1>3. ASSUME NEW k \in 1 .. n + 1
      PROVE  Follows([prog[Me] EXCEPT !.pc = k])
  <2>1. LET p == [prog[Me] EXCEPT !.pc = k]
        IN /\ IsTask(p) /\ p.entry = prog[Me].entry /\ p.pc = k
           /\ p.stack = prog[Me].stack /\ p.box = prog[Me].box
    BY <1>2, PcWritten
  <2> QED
    BY <2>1 DEF Follows, GoesOn
<1>4. prog[Me].pc + 1 \in 1 .. n + 1 /\ TheNextMessage \in 1 .. n + 1
  BY <1>1 DEF TheNextMessage
<1>5. Call.op \in Branches => Target(Call.miss) \in 1 .. n + 1
  <2> SUFFICES ASSUME Call.op \in Branches PROVE Target(Call.miss) \in 1 .. n + 1
    OBVIOUS
  <2>1. Call.miss \in 0 .. n + 1 - prog[Me].pc
    BY <1>1 DEF WellFormedCall
  <2>2. Finale \in 1 .. n + 1
    <3> DEFINE B == {k \in DOMAIN CodeOf(Me) : CodeOf(Me)[k].op \in {"report", "exit"}} \cup {n + 1}
    <3>1. B \in SUBSET Nat /\ B # {} /\ B \subseteq 1 .. n + 1
      BY <1>1
    <3>2. Finale = Min(B)
      BY DEF Finale
    <3> HIDE DEF B
    <3> QED
      BY <3>1, <3>2, MinIsLeast
  <2> QED
    BY <1>1, <2>1, <2>2 DEF Target
<1>6. Call.op = "goto" => Call.to \in 1 .. n + 1
  BY <1>1 DEF WellFormedCall
<1> QED
  BY <1>1, <1>2, <1>3, <1>4, <1>5, <1>6 DEF Follows, GoesOn

\* What the caller notes down does not move it.
LEMMA FollowsWritten ==
  ASSUME NEW p, Follows(p), NEW a
  PROVE  /\ Follows([p EXCEPT !.count = a]) /\ Follows([p EXCEPT !.passed = a])
         /\ Follows([p EXCEPT !.ptr = a]) /\ Follows([p EXCEPT !.got = a])
         /\ Follows([p EXCEPT !.cap = a]) /\ Follows([p EXCEPT !.child = a])
         /\ GoesOn([p EXCEPT !.box = a])
<1>1. IsTask(p)
  BY DEF Follows, GoesOn
<1>2. ASSUME NEW q, Noted(q, p)
      PROVE  Follows(q)
  BY <1>2 DEF Noted, Follows, GoesOn
<1>3. /\ Noted([p EXCEPT !.count = a], p) /\ Noted([p EXCEPT !.passed = a], p)
      /\ Noted([p EXCEPT !.ptr = a], p) /\ Noted([p EXCEPT !.got = a], p)
      /\ Noted([p EXCEPT !.cap = a], p) /\ Noted([p EXCEPT !.child = a], p)
  BY <1>1, TaskWritten
<1>4. LET q == [p EXCEPT !.box = a]
      IN IsTask(q) /\ q.entry = p.entry /\ q.pc = p.pc
  BY <1>1, BoxWritten
<1>5. GoesOn([p EXCEPT !.box = a])
  BY <1>4 DEF Follows, GoesOn
<1> QED
  BY <1>2, <1>3, <1>5

\* One turn of the loop of k_tsk_init gives a free slot to a task.
LEMMA BootIs ==
  ASSUME Lapses = {}, IrqInv, Programs, Boots, Valid(Entry)
  PROVE  \E t \in Tid \ {TID_NULL} :
           /\ state[t] = DORMANT
           /\ state' = [state EXCEPT ![t] = READY]
           /\ CreateNew(t, Entry.priv, TRUE)
           /\ Launch(t, Entry.entry, Entry.priv, Entry.stack)
           /\ boot'.left = boot.left - 1
<1> DEFINE kcd == Entry.entry = "kcd_task"
           t   == IF kcd THEN TID_KCD ELSE boot.j
<1>1. /\ BootTask(kcd, Entry.prio, Entry.priv)
      /\ Launch(t, Entry.entry, Entry.priv, Entry.stack)
  BY DEF Boots
<1>2. /\ state' = [state EXCEPT ![t] = READY] /\ CreateNew(t, Entry.priv, TRUE)
      /\ boot'.left = boot.left - 1
  BY <1>1 DEF BootTask
<1>3. Entry.prio \in TaskPrio /\ Entry.priv \in BOOLEAN /\ kcd \in BOOLEAN /\ TRUE \in BOOLEAN
      /\ KInv
  BY EntryIs DEF Valid, Boots, IrqInv
<1>4. t \in Tid \ {TID_NULL} /\ state[t] = DORMANT
  <2> HIDE DEF kcd
  <2> QED
    BY <1>1, <1>3, BootSlotIsFree
<1> QED
  BY <1>1, <1>2, <1>4

\* k_tsk_init starts a task in its first call.
LEMMA BootsPrograms ==
  ASSUME Lapses = {}, IrqInv, IrqInv', Programs, Boots
  PROVE  Programs'
<1>1. boot.left > 0 /\ UNCHANGED test
  BY DEF Boots, Going
<1>2. /\ Entry.entry \in DOMAIN Code[test] /\ boot.left \in Nat
  BY <1>1, EntryIs
<1>3. CASE Valid(Entry)
  <2>1. PICK t \in Tid \ {TID_NULL} :
           /\ state' = [state EXCEPT ![t] = READY]
           /\ CreateNew(t, Entry.priv, TRUE)
           /\ Launch(t, Entry.entry, Entry.priv, Entry.stack)
           /\ boot'.left = boot.left - 1
    BY <1>3, BootIs
  <2>2. PICK at : prog' = [prog EXCEPT ![t] = Start(Entry.entry, at)]
    BY <2>1 DEF Launch
  <2>3. IsTask(Start(Entry.entry, at))
        /\ Start(Entry.entry, at).entry = Entry.entry /\ Start(Entry.entry, at).pc = 1
    BY DEF IsTask, Start
  <2>4. Len(Code[test][Entry.entry]) \in Nat
    BY <1>2, ProgramsAssumption DEF Programs, WellFormedTest
  <2>5. Moves({t})
    <3>1. /\ prog = [u \in Tid |-> prog[u]] /\ state \in [Tid -> States]
          /\ cont \in [Tid -> {"none"} \cup Reads] /\ cont' = [cont EXCEPT ![t] = "none"]
      BY <2>1 DEF Programs, IrqInv, KInv, Standing, Data, Waiting, CreateNew
    <3>2. /\ prog' = [u \in Tid |-> prog'[u]] /\ prog'[t] = Start(Entry.entry, at)
          /\ cont'[t] = "none"
          /\ \A u \in Tid \ {t} : prog'[u] = prog[u] /\ state'[u] = state[u] /\ cont'[u] = cont[u]
      BY <2>1, <2>2, <3>1
    <3> QED
      BY <1>2, <2>3, <2>4, <3>2 DEF Moves
  <2> QED
    BY <1>1, <1>2, <2>1, <2>5, ProgramsKept
<1>4. CASE ~ Valid(Entry)
  <2>1. UNCHANGED <<state, cont, prog>> /\ boot'.left = 0
    BY <1>4 DEF Boots, BootStop, IrqInv, KInv, Data, Booting
  <2>2. Moves({})
    BY <2>1 DEF Moves, Programs
  <2> QED
    BY <1>1, <1>2, <2>1, <2>2, ProgramsKept
<1> QED
  BY <1>3, <1>4

\* k_tsk_create goes on only with a stack, if no lapse lets it do without.
LEMMA CreateAllocates ==
  ASSUME Lapses = {}, Creates, CanCreate(Call)
  PROVE  LET t  == NewTid(FALSE)
             at == H!BlockFor(Units(Call.stack), MAGICNUMBER).at
         IN /\ Create(FALSE, Call.prio, TRUE) /\ H!Alloc(Units(Call.stack), MAGICNUMBER)
            /\ prog' = [prog EXCEPT ![Me].pc = @ + 1, ![Me].child = t,
                                    ![t] = Start(Call.entry, at)]
            /\ inbox' = [inbox EXCEPT ![t] = << >>]
<1> DEFINE size  == Units(Call.stack)
           alloc == H!HasNode(size)
           t     == NewTid(FALSE)
<1>1. /\ Create(FALSE, Call.prio, alloc)
      /\ IF alloc THEN H!Alloc(size, MAGICNUMBER) ELSE NoMemory
      /\ prog' = [prog EXCEPT ![Me].pc = @ + 1, ![Me].child = t,
                              ![t] = Start(Call.entry, IF alloc THEN H!BlockFor(size, MAGICNUMBER).at
                                                       ELSE 0)]
      /\ inbox' = [inbox EXCEPT ![t] = << >>]
  BY DEF Creates
<1>2. alloc = TRUE
  <2>1. alloc \in BOOLEAN
    BY DEF H!HasNode
  <2>2. CreateContract(NewTid(FALSE), FALSE, FALSE, alloc)
    BY <1>1 DEF Create
  <2> QED
    BY <2>1, <2>2 DEF CreateContract
<1> HIDE DEF size, alloc
<1>3. /\ Create(FALSE, Call.prio, TRUE) /\ H!Alloc(size, MAGICNUMBER)
      /\ prog' = [prog EXCEPT ![Me].pc = @ + 1, ![Me].child = t,
                              ![t] = Start(Call.entry, H!BlockFor(size, MAGICNUMBER).at)]
      /\ inbox' = [inbox EXCEPT ![t] = << >>]
  BY <1>1, <1>2
<1> QED
  BY <1>3 DEF size

\* The scheduler keeps who is there, so a slot filled is one task more ...
LEMMA CreateIs ==
  ASSUME Lapses = {}, IrqInv, IrqInv', Programs, Creates, CanCreate(Call)
  PROVE  LET t == NewTid(FALSE)
         IN /\ t \in Tid \ {TID_NULL, Me} /\ state[t] = DORMANT
            /\ \A u \in Tid : state'[u] = DORMANT <=> state[u] = DORMANT /\ u # t
            /\ CreateNew(t, FALSE, TRUE) /\ UNCHANGED boot
<1> DEFINE t  == NewTid(FALSE)
           st == [state EXCEPT ![t] = READY]
<1>1. Create(FALSE, Call.prio, TRUE)
  BY CreateAllocates
<1>2. CreateContract(t, FALSE, FALSE, TRUE) /\ CreateNew(t, FALSE, TRUE) /\ UNCHANGED boot
      /\ Calls
  BY <1>1 DEF Create
<1>3. t \in Tid \ {TID_NULL} /\ state[t] = DORMANT
  BY <1>2, NewTidIsFree DEF IrqInv
<1> HIDE DEF t
<1>4. t # Me
  BY <1>2, <1>3, CallerIs DEF Me, RUNNING, DORMANT, IrqInv
<1>5. state \in [Tid -> States] /\ KInv' /\ g_num_active_tasks = Cardinality(Alive(state))
  BY DEF IrqInv, KInv, Standing, Data, Counted
<1>6. st \in [Tid -> States] /\ \A u \in Tid : st[u] = DORMANT <=> state[u] = DORMANT /\ u # t
  BY <1>3, <1>5 DEF States, READY, DORMANT
<1>7. ~ pq_full(rq)
  <2>1. PICK p \in TaskPrio : TRUE
    BY DEF Creates, CanCreate
  <2> QED
    BY <1>3, <2>1, BornStanding DEF IrqInv, KInv
<1>8. g_num_active_tasks' = Cardinality(Alive(st))
  <2>1. Alive(st) = Alive(state) \cup {t} /\ t \in Tid \ Alive(state)
    BY <1>3, <1>6 DEF Alive
  <2>2. Alive(state) \in SUBSET Tid
    BY DEF Alive
  <2>3. g_num_active_tasks' = g_num_active_tasks + 1
    BY <1>1, <1>7 DEF Create
  <2> QED
    BY <1>5, <2>1, <2>2, <2>3, TaskSets
<1>9. \A u \in Tid : st[u] # DORMANT => state'[u] # DORMANT
  <2>1. \/ \E q : run_new(q, st)
        \/ state' = st
    BY <1>1 DEF Create, Requeue, t
  <2> HIDE DEF st
  <2> QED
    BY <1>6, <2>1, RunNewKeepsAll
<1>10. \A u \in Tid : state'[u] = DORMANT <=> st[u] = DORMANT
  <2> HIDE DEF st
  <2> QED
    BY <1>5, <1>6, <1>8, <1>9, CountedAlive
<1> QED
  BY <1>2, <1>3, <1>4, <1>6, <1>10 DEF t

\* ... and one that the caller gives up is one less.
LEMMA ExitIs ==
  ASSUME IrqInv, IrqInv', Programs, Exits
  PROVE  /\ Me \in Tid \ {TID_NULL} /\ state[Me] = RUNNING
         /\ \A u \in Tid : state'[u] = DORMANT <=> state[u] = DORMANT \/ u = Me
         /\ ustack' = [ustack EXCEPT ![Me] = "none"] /\ mailbox' = [mailbox EXCEPT ![Me] = NULL]
         /\ UNCHANGED <<priv, cont, boot>>
<1> DEFINE st == [state EXCEPT ![Me] = DORMANT]
<1>1. /\ Calls /\ run_new(rq, st) /\ g_num_active_tasks' = g_num_active_tasks - 1
      /\ ustack' = [ustack EXCEPT ![Me] = "none"] /\ mailbox' = [mailbox EXCEPT ![Me] = NULL]
      /\ UNCHANGED <<priv, cont, boot>>
  BY DEF Exits, Exit, Me, ActiveAfterExit
<1>2. Me \in Tid \ {TID_NULL} /\ state[Me] = RUNNING
  BY <1>1, CallerIs DEF Me, IrqInv
<1>3. state \in [Tid -> States] /\ KInv' /\ g_num_active_tasks = Cardinality(Alive(state))
  BY DEF IrqInv, KInv, Standing, Data, Counted
<1>4. st \in [Tid -> States] /\ \A u \in Tid : st[u] = DORMANT <=> state[u] = DORMANT \/ u = Me
  BY <1>2, <1>3 DEF States, DORMANT
<1>5. g_num_active_tasks' = Cardinality(Alive(st))
  <2>1. Alive(st) = Alive(state) \ {Me} /\ Me \in Alive(state)
    BY <1>2, <1>4 DEF Alive, RUNNING, DORMANT
  <2>2. Alive(state) \in SUBSET Tid
    BY DEF Alive
  <2> QED
    BY <1>1, <1>3, <2>1, <2>2, TaskSets
<1> HIDE DEF st
<1>6. \A u \in Tid : st[u] # DORMANT => state'[u] # DORMANT
  BY <1>1, <1>4, RunNewKeepsAll
<1>7. \A u \in Tid : state'[u] = DORMANT <=> st[u] = DORMANT
  BY <1>3, <1>4, <1>5, <1>6, CountedAlive
<1> QED
  BY <1>1, <1>2, <1>4, <1>7

\* k_tsk_create and k_tsk_exit.
LEMMA CreatesPrograms ==
  ASSUME Lapses = {}, IrqInv, IrqInv', Programs, Creates
  PROVE  Programs'
<1>1. /\ At({"create"}) /\ Me \in Tid \ {TID_NULL} /\ UNCHANGED test /\ Call.op = "create"
      /\ WellFormedCall(test, CodeOf(Me), prog[Me].pc) /\ Call = CodeOf(Me)[prog[Me].pc]
      /\ prog[Me].entry \in DOMAIN Code[test] /\ cont[Me] = "none"
  BY CallIs DEF Creates
<1>2. CASE CanCreate(Call)
  <2> DEFINE t == NewTid(FALSE)
             p == [[prog[Me] EXCEPT !.pc = @ + 1] EXCEPT !.child = t]
  <2>1. /\ t \in Tid \ {TID_NULL, Me}
        /\ \A u \in Tid : state'[u] = DORMANT <=> state[u] = DORMANT /\ u # t
        /\ CreateNew(t, FALSE, TRUE) /\ UNCHANGED boot
    BY <1>2, CreateIs
  <2> HIDE DEF t
  <2>2. PICK at : prog' = [prog EXCEPT ![Me].pc = @ + 1, ![Me].child = t,
                                       ![t] = Start(Call.entry, at)]
    BY <1>2, CreateAllocates DEF t
  <2>3. prog = [u \in Tid |-> prog[u]] /\ cont' = [cont EXCEPT ![t] = "none"]
        /\ cont \in [Tid -> {"none"} \cup Reads] /\ boot.left \in Int
    BY <2>1 DEF Programs, CreateNew, IrqInv, KInv, Data, Waiting, Booting
  <2>4. /\ prog' = [u \in Tid |-> prog'[u]] /\ prog'[t] = Start(Call.entry, at)
        /\ prog'[Me] = p
        /\ cont'[t] = "none" /\ cont'[Me] = "none"
        /\ \A u \in Tid \ {Me, t} : prog'[u] = prog[u] /\ cont'[u] = cont[u]
    BY <1>1, <2>1, <2>2, <2>3
  <2>5. Follows(p)
    BY <1>1, CallsToGoTo, FollowsWritten
  <2>6. /\ IsTask(Start(Call.entry, at))
        /\ Start(Call.entry, at).entry = Call.entry /\ Start(Call.entry, at).pc = 1
    BY DEF IsTask, Start
  <2>7. Call.entry \in DOMAIN Code[test]
    BY <1>1, <1>2 DEF WellFormedCall, CanCreate
  <2>8. Len(Code[test][Call.entry]) \in Nat
    BY <2>7, ProgramsAssumption DEF Programs, WellFormedTest
  <2> HIDE DEF p
  <2>9. Moves({Me, t})
    <3>1. /\ IsTask(prog'[t]) /\ prog'[t].entry \in DOMAIN Code[test]
          /\ prog'[t].pc \in 1 .. Len(Code[test][prog'[t].entry]) + 1
      BY <2>4, <2>6, <2>7, <2>8
    <3>2. /\ IsTask(prog'[Me]) /\ prog'[Me].entry \in DOMAIN Code[test]
          /\ prog'[Me].pc \in 1 .. Len(Code[test][prog'[Me].entry]) + 1
      BY <1>1, <2>4, <2>5 DEF Follows, GoesOn, CodeOf
    <3> QED
      BY <2>1, <2>4, <3>1, <3>2 DEF Moves
  <2>10. {Me, t} \in SUBSET Tid /\ boot'.left = boot.left
    BY <1>1, <2>1
  <2> QED
    BY <1>1, <2>3, <2>9, <2>10, ProgramsKept
<1>3. CASE ~ CanCreate(Call)
  <2>1. UNCHANGED vars /\ Advance
    BY <1>3 DEF Creates
  <2>2. Tame /\ UNCHANGED cont /\ prog' = [prog EXCEPT ![Me] = [prog[Me] EXCEPT !.pc = @ + 1]]
    BY <2>1 DEF Tame, vars, Advance, GoTo
  <2> QED
    BY <1>1, <2>2, CallsToGoTo, CallerFollows
<1> QED
  BY <1>2, <1>3

LEMMA ExitsPrograms ==
  ASSUME Lapses = {}, IrqInv, IrqInv', Programs, Exits
  PROVE  Programs'
<1>1. /\ At({"exit"}) /\ Advance /\ UNCHANGED test /\ cont[Me] = "none"
  BY CallIs DEF Exits
<1>2. /\ Me \in Tid /\ UNCHANGED <<cont, boot>>
      /\ \A u \in Tid : state'[u] = DORMANT <=> state[u] = DORMANT \/ u = Me
  BY ExitIs
<1>3. prog' = [prog EXCEPT ![Me] = [prog[Me] EXCEPT !.pc = @ + 1]]
      /\ prog = [t \in Tid |-> prog[t]] /\ boot.left \in Int
  BY <1>1 DEF Advance, GoTo, Programs, IrqInv, KInv, Data, Booting
<1>4. IsTask([prog[Me] EXCEPT !.pc = @ + 1])
  BY <1>1, CallsToGoTo DEF Follows, GoesOn
<1>5. Moves({Me})
  BY <1>2, <1>3, <1>4 DEF Moves
<1> QED
  BY <1>1, <1>2, <1>3, <1>5, ProgramsKept

\* k_tsk_yield, k_tsk_set_prio, the heap, k_mbx_create and what a task does by
\* itself: the caller goes on to another call of its function.
LEMMA YieldsPrograms ==
  ASSUME IrqInv, IrqInv', Programs, Yields \/ SetsPrio
  PROVE  Programs' /\ Steady
<1>1. CASE Yields
  <2>1. At({"yield"}) /\ Advance /\ (Yield \/ UNCHANGED vars)
    BY <1>1 DEF Yields, YieldOrGoOn
  <2>2. Tame /\ UNCHANGED cont /\ prog' = [prog EXCEPT ![Me] = [prog[Me] EXCEPT !.pc = @ + 1]]
    BY <2>1 DEF Tame, vars, Advance, GoTo, Yield, TaskData
  <2> QED
    BY <2>1, <2>2, CallsToGoTo, CallerFollows
<1>2. CASE SetsPrio
  <2>1. At({"prio"}) /\ Call.op \in Branches
    BY <1>2, CallIs DEF SetsPrio, Branches
  <2>2. CASE SetPrioFails(Named, Call.prio)
    <3>1. /\ UNCHANGED vars
          /\ prog' = [prog EXCEPT ![Me] = [prog[Me] EXCEPT !.pc = Target(Call.miss)]]
      BY <1>2, <2>2 DEF SetsPrio, GoTo
    <3>2. Tame /\ UNCHANGED cont
      BY <3>1 DEF Tame, vars
    <3> QED
      BY <2>1, <3>1, <3>2, CallsToGoTo, CallerFollows
  <2>3. CASE ~ SetPrioFails(Named, Call.prio)
    <3>1. /\ SetOwnPrio(Call.prio) \/ SetPrio(Named, Call.prio)
          /\ prog' = [prog EXCEPT ![Me] = [prog[Me] EXCEPT !.pc = @ + 1]]
          /\ Named \in Tid /\ Call.prio \in TaskPrio
      BY <1>2, <2>3 DEF SetsPrio, Advance, GoTo, SetPrioFails
    <3>2. Tame
      BY <3>1 DEF Tame
    <3>3. UNCHANGED cont
      BY <3>1 DEF SetOwnPrio, SetPrio, TaskData
    <3> QED
      BY <2>1, <3>1, <3>2, <3>3, CallsToGoTo, CallerFollows
  <2> QED
    BY <2>2, <2>3
<1> QED
  BY <1>1, <1>2

LEMMA MemoryPrograms ==
  ASSUME IrqInv, IrqInv', Programs, MemAlloc \/ MemDealloc \/ AllocCommand
  PROVE  Programs' /\ Steady
<1> DEFINE next == [prog[Me] EXCEPT !.pc = @ + 1]
<1>1. CASE MemAlloc \/ AllocCommand
  <2>1. PICK ops, a : At(ops) /\ UNCHANGED vars
                      /\ prog' = [prog EXCEPT ![Me].pc = @ + 1, ![Me].ptr = a]
    BY <1>1 DEF MemAlloc, AllocCommand
  <2>2. prog' = [prog EXCEPT ![Me] = [next EXCEPT !.ptr = a]]
    BY <2>1 DEF Programs
  <2>3. Tame /\ UNCHANGED cont
    BY <2>1 DEF Tame, vars
  <2>4. Follows([next EXCEPT !.ptr = a])
    BY <2>1, CallsToGoTo, FollowsWritten
  <2> QED
    BY <2>1, <2>2, <2>3, <2>4, CallerFollows
<1>2. CASE MemDealloc
  <2>1. At({"mem_dealloc"}) /\ UNCHANGED vars /\ prog' = [prog EXCEPT ![Me] = next]
    BY <1>2 DEF MemDealloc, Advance, GoTo
  <2>2. Tame /\ UNCHANGED cont
    BY <2>1 DEF Tame, vars
  <2> QED
    BY <2>1, <2>2, CallsToGoTo, CallerFollows
<1> QED
  BY <1>1, <1>2

LEMMA MbxCreatesPrograms ==
  ASSUME IrqInv, IrqInv', Programs, MbxCreates
  PROVE  Programs'
<1> DEFINE next == [prog[Me] EXCEPT !.pc = @ + 1]
<1>1. PICK c, b : At({"mbx_create"}) /\ MbxCreate
                  /\ prog' = [prog EXCEPT ![Me].pc = @ + 1, ![Me].cap = c, ![Me].box = b]
  BY DEF MbxCreates
<1>2. prog' = [prog EXCEPT ![Me] = [[next EXCEPT !.cap = c] EXCEPT !.box = b]]
  BY <1>1 DEF Programs
<1>3. UNCHANGED cont
  BY <1>1 DEF MbxCreate
<1>4. GoesOn([[next EXCEPT !.cap = c] EXCEPT !.box = b])
  BY <1>1, CallsToGoTo, FollowsWritten
<1> QED
  BY <1>1, <1>2, <1>3, <1>4, CallerGoesOn

\* The command decoder goes on to what is next, or back to the next message.
LEMMA DecodePrograms ==
  ASSUME IrqInv, IrqInv', Programs, Decode
  PROVE  Programs' /\ Steady
<1>1. At({"decode"}) /\ UNCHANGED vars /\ (Advance \/ GoTo(TheNextMessage))
  BY DEF Decode
<1>2. PICK p : prog' = [prog EXCEPT ![Me] = p] /\ Follows(p)
  BY <1>1, CallsToGoTo DEF Advance, GoTo
<1>3. Tame /\ UNCHANGED cont
  BY <1>1 DEF Tame, vars
<1> QED
  BY <1>1, <1>2, <1>3, CallerFollows

LEMMA ComputesPrograms ==
  ASSUME IrqInv, IrqInv', Programs, Computes
  PROVE  Programs' /\ Steady
<1> DEFINE me   == prog[Me]
           next == [me EXCEPT !.pc = @ + 1]
           away == [me EXCEPT !.pc = Target(Call.miss)]
<1>1. PICK ops : At(ops)
  BY DEF Computes
<1>2. Local /\ UNCHANGED vars
  BY DEF Computes
<1>3. Tame /\ UNCHANGED cont
  BY <1>2 DEF Tame, vars
<1>4. /\ Follows(next) /\ (Call.op \in Branches => Follows(away))
      /\ \A a : Follows([next EXCEPT !.passed = a])
      /\ Call.op = "goto" => Follows([me EXCEPT !.pc = Call.to])
  BY <1>1, CallsToGoTo, FollowsWritten
<1>5. \/ Call.op \in Branches /\ \E ok : prog' = [prog EXCEPT ![Me] = IF ok THEN next ELSE away]
      \/ Call.op = "goto" /\ prog' = [prog EXCEPT ![Me] = [me EXCEPT !.pc = Call.to]]
      \/ prog' = [prog EXCEPT ![Me] = next]
      \/ \E a : prog' = [prog EXCEPT ![Me] = [next EXCEPT !.passed = a]]
  BY <1>2 DEF Local, GoTo, Branches
<1> HIDE DEF next, away
<1>6. \E p : prog' = [prog EXCEPT ![Me] = p] /\ Follows(p)
  BY <1>4, <1>5
<1> QED
  BY <1>1, <1>3, <1>6, CallerFollows

\* A step after which no task has moved.
LEMMA NobodyMoves ==
  ASSUME IrqInv, IrqInv', Programs, Tame, UNCHANGED <<test, prog, cont>>
  PROVE  Programs' /\ Steady
<1>1. UNCHANGED boot /\ \A t \in Tid : state'[t] = DORMANT <=> state[t] = DORMANT
  BY TameKeepsAlive
<1>2. Moves({})
  BY <1>1 DEF Moves, Programs
<1>3. boot.left \in Int /\ {} \in SUBSET Tid
  BY DEF IrqInv, KInv, Data, Booting
<1>4. Steady
  BY DEF Steady, PlacesKept
<1> QED
  BY <1>1, <1>2, <1>3, <1>4, ProgramsKept

\* k_send_msg: the caller goes on, wherever the result takes it.
LEMMA SendsPrograms ==
  ASSUME IrqInv, IrqInv', Programs, Sends
  PROVE  Programs' /\ Steady
<1> DEFINE me   == prog[Me]
           next == [me EXCEPT !.pc = @ + 1]
           away == [me EXCEPT !.pc = Target(Call.miss)]
<1>1. PICK ops : At(ops)
  BY DEF Sends
<1>2. /\ Follows(next) /\ (Call.op \in Branches => Follows(away))
      /\ \A a : Follows([next EXCEPT !.count = a])
      /\ \A a : Follows([me EXCEPT !.count = a])
  BY <1>1, CallsToGoTo, FollowsWritten
<1>3. \E r, m, p, p0 : Delivers(r, m, p, p0) /\ Follows(p) /\ Follows(p0)
  <2>1. CASE Call.op \in {"send", "send_count"}
    <3>1. Call.op \in Branches
      BY <2>1 DEF Branches
    <3>2. \E r, m, p : Delivers(r, m, p, away) /\ (p = next \/ \E a : p = [next EXCEPT !.count = a])
      BY <2>1, ZenonT(40) DEF Sends
    <3> HIDE DEF next, away
    <3> QED
      BY <1>2, <3>1, <3>2
  <2>2. CASE Call.op = "fill"
    <3>1. \E r, m, a : Delivers(r, m, [me EXCEPT !.count = a], next)
      BY <2>2 DEF Sends
    <3> HIDE DEF next, away
    <3> QED
      BY <1>2, <3>1
  <2>3. CASE Call.op \in {"send_score", "send_command"}
    <3>1. \E r, m : Delivers(r, m, next, next)
      BY <2>3 DEF Sends
    <3> HIDE DEF next, away
    <3> QED
      BY <1>2, <3>1
  <2> QED
    BY <2>1, <2>2, <2>3 DEF Sends
<1>4. PICK p : prog' = [prog EXCEPT ![Me] = p] /\ Follows(p)
  BY <1>3 DEF Delivers
<1>5. Tame /\ UNCHANGED cont
  <2>1. \/ UNCHANGED vars
        \/ \E r \in Tid : Send(r)
    BY <1>3 DEF Delivers, Accepts
  <2> QED
    BY <2>1 DEF Tame, vars, Send
<1> QED
  BY <1>1, <1>4, <1>5, CallerFollows

\* k_recv_msg: the caller has its message, or waits where it is.
LEMMA ReceivesPrograms ==
  ASSUME IrqInv, IrqInv', Programs, Receives
  PROVE  Programs' /\ Steady
<1>1. At({"recv"})
  BY DEF Receives
<1>2. CASE Recv("take") /\ Takes(Call.fits)
  <2>1. PICK a : prog' = [prog EXCEPT ![Me].pc = @ + 1, ![Me].got = a]
    BY <1>2 DEF Takes
  <2>2. prog' = [prog EXCEPT ![Me] = [[prog[Me] EXCEPT !.pc = @ + 1] EXCEPT !.got = a]]
    BY <2>1 DEF Programs
  <2>3. Follows([[prog[Me] EXCEPT !.pc = @ + 1] EXCEPT !.got = a])
    BY <1>1, CallsToGoTo, FollowsWritten
  <2>4. Tame /\ UNCHANGED cont
    BY <1>2 DEF Tame, Recv, Reads
  <2> QED
    BY <1>1, <2>2, <2>3, <2>4, CallerFollows
<1>3. CASE RecvBlock("take") /\ UNCHANGED <<prog, inbox>>
  <2>1. /\ Me \in Tid \ {TID_NULL} /\ prog[Me].entry \in DOMAIN Code[test]
        /\ prog[Me].pc \in 1 .. Len(CodeOf(Me)) /\ Len(CodeOf(Me)) \in Nat /\ UNCHANGED test
    BY <1>1, CallIs
  <2>2. Tame
    BY <1>3 DEF Tame, Reads
  <2>3. UNCHANGED boot /\ \A t \in Tid : state'[t] = DORMANT <=> state[t] = DORMANT
    BY <2>2, TameKeepsAlive
  <2>4. /\ cont' = [cont EXCEPT ![Me] = "take"] /\ UNCHANGED prog
        /\ cont \in [Tid -> {"none"} \cup Reads] /\ boot.left \in Int
    BY <1>3 DEF RecvBlock, Me, IrqInv, KInv, Data, Waiting, Booting
  <2>5. \A t \in Tid \ {Me} : cont'[t] = cont[t]
    BY <2>1, <2>4
  <2>6. prog = [t \in Tid |-> prog[t]] /\ IsTask(prog[Me])
    BY <2>1 DEF Programs
  <2>7. Moves({Me})
    BY <2>1, <2>3, <2>4, <2>5, <2>6 DEF Moves, CodeOf
  <2>8. {Me} \in SUBSET Tid
    BY <2>1
  <2>9. Steady
    BY <2>2, <2>4 DEF Steady, PlacesKept
  <2> QED
    BY <2>1, <2>3, <2>4, <2>7, <2>8, <2>9, ProgramsKept
<1> QED
  BY <1>2, <1>3 DEF Receives

\* A receiver that was woken has its message.
LEMMA ResumesPrograms ==
  ASSUME IrqInv, IrqInv', Programs, Resumes
  PROVE  Programs' /\ Steady
<1>1. RecvResume /\ Takes(Call.fits) /\ UNCHANGED test
  BY DEF Resumes, Going
<1>2. /\ Me \in Tid \ {TID_NULL} /\ state[Me] # DORMANT /\ cont[Me] # "none"
      /\ cont' = [cont EXCEPT ![Me] = "none"] /\ cont \in [Tid -> {"none"} \cup Reads]
      /\ boot.left \in Int
  BY <1>1 DEF RecvResume, IrqInv, KInv, Data, Waiting, Booting, Me
<1>3. /\ prog[Me].entry \in DOMAIN Code[test]
      /\ prog[Me].pc \in 1 .. Len(CodeOf(Me)) + 1 /\ prog[Me].pc <= Len(CodeOf(Me))
      /\ IsTask(prog[Me]) /\ prog = [t \in Tid |-> prog[t]]
  BY <1>2 DEF Programs, InItsFunction, CodeOf
<1>4. Len(CodeOf(Me)) \in Nat
  BY <1>3, ProgramsAssumption DEF Programs, WellFormedTest, CodeOf
<1>5. PICK a : prog' = [prog EXCEPT ![Me].pc = @ + 1, ![Me].got = a]
  BY <1>1 DEF Takes
<1> DEFINE next == [prog[Me] EXCEPT !.pc = prog[Me].pc + 1]
           p    == [next EXCEPT !.got = a]
<1>6. prog' = [prog EXCEPT ![Me] = p]
  BY <1>5 DEF Programs
<1>7. /\ IsTask(next) /\ next.entry = prog[Me].entry /\ next.pc = prog[Me].pc + 1
      /\ next.stack = prog[Me].stack /\ next.box = prog[Me].box
  <2>1. IsTask(prog[Me])
    BY <1>3
  <2> QED
    BY <2>1, PcWritten
<1>8. /\ IsTask(p) /\ p.entry = prog[Me].entry /\ p.pc = prog[Me].pc + 1
      /\ p.stack = prog[Me].stack /\ p.box = prog[Me].box
  <2> HIDE DEF next
  <2>1. /\ IsTask(p) /\ p.entry = next.entry /\ p.pc = next.pc
        /\ p.stack = next.stack /\ p.box = next.box
    BY <1>7, TaskWritten, ZenonT(40) DEF Noted
  <2> QED
    BY <1>7, <2>1
<1> HIDE DEF p
<1>9. Moves({Me})
  <2>1. /\ prog' = [t \in Tid |-> prog'[t]] /\ prog'[Me] = p /\ cont'[Me] = "none"
        /\ \A t \in Tid \ {Me} : prog'[t] = prog[t] /\ cont'[t] = cont[t]
    BY <1>2, <1>3, <1>6
  <2>2. \A t \in Tid : state'[t] = DORMANT <=> state[t] = DORMANT
    BY <1>1, TameKeepsAlive DEF Tame
  <2>3. p.pc \in 1 .. Len(CodeOf(Me)) + 1
    BY <1>3, <1>4, <1>8
  <2> QED
    BY <1>3, <1>8, <2>1, <2>2, <2>3 DEF Moves, CodeOf
<1>10. {Me} \in SUBSET Tid /\ UNCHANGED boot
  BY <1>1, <1>2 DEF RecvResume
<1>11. Steady
  BY <1>1, <1>3, <1>6, <1>8 DEF Steady, PlacesKept, Tame
<1> QED
  BY <1>1, <1>2, <1>9, <1>10, <1>11, ProgramsKept

\* Neither the null task, nor the handler, nor what is undefined moves a task.
LEMMA OthersPrograms ==
  ASSUME IrqInv, IrqInv', Programs, NullYields \/ Types \/ Interrupted \/ SendsKey \/ LosesItself
  PROVE  Programs' /\ Steady
<1>1. UNCHANGED <<test, prog>>
  BY DEF NullYields, Types, Interrupted, SendsKey, LosesItself, Going
<1>2. Tame
  <2>1. CASE NullYields
    BY <2>1 DEF NullYields, YieldOrGoOn, Tame
  <2>2. CASE Types
    BY <2>2 DEF Types, KeyArrives, Tame
  <2>3. CASE Interrupted
    BY <2>3 DEF Interrupted, TakeInterrupt, Tame
  <2>4. CASE SendsKey
    <3>1. TID_KCD \in Tid
      BY Ids
    <3> QED
      BY <2>4, <3>1 DEF SendsKey, ReadKey, Tame
  <2>5. CASE LosesItself
    BY <2>5 DEF LosesItself, Tame, irqVars
  <2> QED
    BY <2>1, <2>2, <2>3, <2>4, <2>5
<1>3. UNCHANGED cont
  <2>1. UNCHANGED vars => UNCHANGED cont
    BY DEF vars
  <2>2. UNCHANGED irqVars => UNCHANGED cont
    BY <2>1 DEF irqVars
  <2>3. Yield \/ EndInterrupt \/ Send(TID_KCD) => UNCHANGED cont
    BY DEF Yield, EndInterrupt, Send, TaskData
  <2> QED
    BY <2>1, <2>2, <2>3 DEF NullYields, Types, Interrupted, SendsKey, LosesItself, YieldOrGoOn,
       KeyArrives, TakeInterrupt, ReadKey
<1> QED
  BY <1>1, <1>2, <1>3, NobodyMoves

\* All steps.
LEMMA NextPrograms ==
  ASSUME Lapses = {}, IrqInv, IrqInv', Programs, [AppNext]_appVars
  PROVE  Programs'
<1>1. CASE UNCHANGED appVars
  <2>1. UNCHANGED <<test, prog, cont>> /\ Tame
    BY <1>1 DEF appVars, irqVars, vars, Tame
  <2> QED
    BY <2>1, NobodyMoves
<1>2. CASE AppNext
  BY <1>2, NoMemInit, BootsPrograms, YieldsPrograms, OthersPrograms, ExitsPrograms,
     CreatesPrograms, MemoryPrograms, MbxCreatesPrograms, SendsPrograms, ReceivesPrograms, ResumesPrograms,
     DecodePrograms, ComputesPrograms DEF AppNext, TaskSteps
<1> QED
  BY <1>1, <1>2

-----------------------------------------------------------------------------
(* The heap.                                                               *)

\* A node or a block lies in the heap and is not empty.
LEMMA PieceIs ==
  ASSUME NEW b, b \in H!Node \/ b \in H!Block
  PROVE  /\ b.at \in Nat /\ b.at >= 1 /\ b.size \in Nat /\ b.size >= 1
         /\ H!EndOf(b) = b.at + b.size /\ H!EndOf(b) \in Nat
         /\ b.at < H!EndOf(b)
<1>1. TAIL \in Nat
  BY AppsAssumption
<1>2. b.at \in 1 .. TAIL - 1 /\ b.size \in 1 .. TAIL - 1
  BY DEF H!Node, H!Block
<1> QED
  BY <1>1, <1>2 DEF H!EndOf

\* A piece that ends where the heap does at the latest is a node.
LEMMA NodeIs ==
  ASSUME NEW a \in Nat, NEW n \in Nat, a >= 1, n >= 1, a + n <= TAIL
  PROVE  [at |-> a, size |-> n] \in H!Node
<1>1. TAIL \in Nat
  BY AppsAssumption
<1> QED
  BY <1>1 DEF H!Node

\* The nodes of the list, by their places in it.
LEMMA NodesOf ==
  ASSUME NEW f, f \in Seq(H!Node)
  PROVE  Len(f) \in Nat /\ DOMAIN f = 1 .. Len(f) /\ \A k \in 1 .. Len(f) : f[k] \in H!Node
BY LenProperties, ElementOfSeq

\* k_mem_alloc: the block is cut off the front of a node.
LEMMA AllocKeepsApart ==
  ASSUME Apart(free, taken), NEW r \in Nat, NEW o \in Tid \cup {MAGICNUMBER}, H!Alloc(r, o)
  PROVE  /\ Apart(free', taken')
         /\ H!BlockFor(r, o) \in H!Block /\ H!BlockFor(r, o).owner = o
         /\ taken' = taken \cup {H!BlockFor(r, o)}
         /\ \A b \in taken : b.at # H!BlockFor(r, o).at
<1> DEFINE n == r + 1
           k == H!FirstFit(n)
           b == H!BlockFor(r, o)
<1>1. /\ free \in Seq(H!Node) /\ taken \subseteq H!Block
      /\ Len(free) \in Nat /\ DOMAIN free = 1 .. Len(free)
      /\ \A i \in 1 .. Len(free) : free[i] \in H!Node
  BY NodesOf DEF Apart
<1>2. k \in 1 .. Len(free) /\ free[k].size >= n
  <2> DEFINE B == {i \in DOMAIN free : free[i].size >= n}
  <2>1. B \in SUBSET Nat /\ B # {}
    BY <1>1 DEF H!Alloc, H!HasNode, H!WithHeader
  <2>2. Min(B) \in B
    <3> HIDE DEF B
    <3> QED
      BY <2>1, MinIsLeast
  <2>3. k = Min(B)
    BY DEF H!FirstFit, H!Min, Min
  <2> QED
    BY <1>1, <2>2, <2>3
<1>3. b = [at |-> free[k].at, size |-> n, owner |-> o]
  BY DEF H!BlockFor, H!WithHeader
<1>4. /\ free' = IF free[k].size > n THEN [free EXCEPT ![k] = H!Split(free[k], n)]
                 ELSE Without(free, k)
      /\ taken' = taken \cup {b}
  BY DEF H!Alloc, H!IsSplit, H!WithHeader, Without
<1> HIDE DEF k, b
<1>5. /\ free[k].at \in Nat /\ free[k].at >= 1 /\ free[k].size \in Nat
      /\ H!EndOf(free[k]) = free[k].at + free[k].size
      /\ H!EndOf(free[k]) <= TAIL /\ n \in Nat /\ n >= 1
  BY <1>1, <1>2, PieceIs DEF Apart
<1>6. /\ b \in H!Block /\ b.owner = o /\ b.at = free[k].at
      /\ H!EndOf(b) = free[k].at + n
  <2>1. TAIL \in Nat
    BY AppsAssumption
  <2> QED
    BY <1>2, <1>3, <1>5, <2>1 DEF H!Block, H!EndOf
\* Who keeps clear of the node keeps clear of the block.
<1>7. ASSUME NEW x, x \in H!Node \/ x \in H!Block, Disjoint(free[k], x)
      PROVE  Disjoint(b, x) /\ Disjoint(x, b) /\ x.at # b.at
  BY <1>2, <1>5, <1>6, <1>7, PieceIs DEF Disjoint
<1>8. /\ \A x \in taken : Disjoint(b, x) /\ Disjoint(x, b) /\ x.at # b.at
      /\ \A j \in 1 .. Len(free) : j # k => Disjoint(free[j], b)
  BY <1>1, <1>2, <1>7 DEF Apart
<1>9. \A x, y \in taken' : x # y => Disjoint(x, y)
  BY <1>4, <1>8 DEF Apart
<1>10. taken' \subseteq H!Block /\ \A x \in taken' : H!EndOf(x) <= TAIL
  <2>1. H!EndOf(b) <= TAIL
    <3>1. TAIL \in Nat
      BY AppsAssumption
    <3> QED
      BY <1>2, <1>5, <1>6, <3>1
  <2> QED
    BY <1>1, <1>4, <1>6, <2>1 DEF Apart
<1>11. CASE free[k].size > n
  <2> DEFINE m == H!Split(free[k], n)
  <2>1. m.at = free[k].at + n /\ m.size = free[k].size - n /\ m \in H!Node
        /\ H!EndOf(m) = H!EndOf(free[k])
    <3>1. m = [at |-> free[k].at + n, size |-> free[k].size - n]
      BY DEF H!Split
    <3>2. m \in H!Node
      <4> HIDE DEF m
      <4> QED
        BY <1>5, <1>11, <3>1, NodeIs
    <3> QED
      BY <1>5, <1>11, <3>1, <3>2 DEF H!EndOf
  <2>2. free' = [free EXCEPT ![k] = m]
    BY <1>4, <1>11
  <2> HIDE DEF m
  <2>3. /\ free' \in Seq(H!Node) /\ Len(free') = Len(free)
        /\ \A j \in 1 .. Len(free) : free'[j] = IF j = k THEN m ELSE free[j]
    BY <1>1, <1>2, <2>1, <2>2, ExceptSeq
  <2>4. ASSUME NEW x, x \in H!Node \/ x \in H!Block, Disjoint(free[k], x) \/ x = b
        PROVE  Disjoint(m, x) /\ Disjoint(x, m)
    <3>1. CASE Disjoint(free[k], x)
      BY <1>5, <2>1, <2>4, <3>1, PieceIs DEF Disjoint
    <3>2. CASE x = b
      BY <1>5, <1>6, <2>1, <3>2 DEF Disjoint
    <3> QED
      BY <2>4, <3>1, <3>2
  <2>5. \A j \in 1 .. Len(free') : H!EndOf(free'[j]) <= TAIL
    BY <1>5, <2>1, <2>3 DEF Apart
  <2>6. \A i, j \in 1 .. Len(free') : i # j => Disjoint(free'[i], free'[j])
    BY <1>1, <1>2, <2>3, <2>4 DEF Apart
  <2>7. \A j \in 1 .. Len(free'), x \in taken' : Disjoint(free'[j], x)
    <3> SUFFICES ASSUME NEW j \in 1 .. Len(free'), NEW x \in taken'
                 PROVE  Disjoint(free'[j], x)
      OBVIOUS
    <3>1. CASE j = k
      <4>1. x \in H!Block /\ (Disjoint(free[k], x) \/ x = b)
        BY <1>2, <1>4, <1>10 DEF Apart
      <4> QED
        BY <2>3, <2>4, <3>1, <4>1
    <3>2. CASE j # k
      BY <1>4, <1>8, <2>3, <3>2 DEF Apart
    <3> QED
      BY <3>1, <3>2
  <2> QED
    BY <1>4, <1>6, <1>8, <1>9, <1>10, <2>3, <2>5, <2>6, <2>7 DEF Apart, b
<1>12. CASE ~ (free[k].size > n)
  <2>1. free' = Without(free, k)
    BY <1>4, <1>12
  <2>2. /\ free' \in Seq(H!Node) /\ Len(free') = Len(free) - 1
        /\ \A j \in 1 .. Len(free) - 1 : free'[j] = IF j < k THEN free[j] ELSE free[j + 1]
    BY <1>1, <1>2, <2>1, WithoutIs
  <2> DEFINE up(j) == IF j < k THEN j ELSE j + 1
  <2>3. \A j \in 1 .. Len(free') : /\ up(j) \in 1 .. Len(free) /\ up(j) # k
                                   /\ free'[j] = free[up(j)]
    BY <1>1, <1>2, <2>2
  <2>4. \A i, j \in 1 .. Len(free') : i # j => up(i) # up(j)
    BY <1>1, <1>2, <2>2
  <2> HIDE DEF up
  <2>5. \A j \in 1 .. Len(free') : H!EndOf(free'[j]) <= TAIL
    BY <2>3 DEF Apart
  <2>6. \A i, j \in 1 .. Len(free') : i # j => Disjoint(free'[i], free'[j])
    BY <2>3, <2>4 DEF Apart
  <2>7. \A j \in 1 .. Len(free'), x \in taken' : Disjoint(free'[j], x)
    BY <1>4, <1>8, <2>3 DEF Apart
  <2> QED
    BY <1>4, <1>6, <1>8, <1>9, <1>10, <2>2, <2>5, <2>6, <2>7 DEF Apart, b
<1> QED
  BY <1>11, <1>12

\* k_mem_dealloc, of one block or of two in turn: list f, which keeps clear of
\* the other blocks tk, takes block b in.
LEMMA JoinedKeepsApart ==
  ASSUME NEW f, NEW tk, NEW b \in tk, Apart(f, tk)
  PROVE  Apart(H!Joined(f, b), tk \ {b})
<1> DEFINE k     == H!RightOf(f, b)
           prev  == H!PREV_TOUCHING(f, b, k)
           next  == H!NEXT_TOUCHING(f, b, k)
           first == IF prev THEN f[k - 1].at ELSE b.at
           end   == IF next THEN H!EndOf(f[k]) ELSE H!EndOf(b)
           m     == [at |-> first, size |-> end - first]
           p     == IF prev THEN k - 2 ELSE k - 1
           q     == IF next THEN k + 1 ELSE k
           g     == H!Joined(f, b)
<1>1. /\ f \in Seq(H!Node) /\ tk \subseteq H!Block /\ b \in H!Block
      /\ Len(f) \in Nat /\ DOMAIN f = 1 .. Len(f)
      /\ \A i \in 1 .. Len(f) : f[i] \in H!Node /\ H!EndOf(f[i]) <= TAIL
      /\ H!EndOf(b) <= TAIL
  BY NodesOf DEF Apart
<1>2. k \in 1 .. Len(f) + 1
  <2> DEFINE B == {i \in DOMAIN f : f[i].at >= H!EndOf(b)} \cup {Len(f) + 1}
  <2>1. B \in SUBSET Nat /\ B # {} /\ B \subseteq 1 .. Len(f) + 1
    BY <1>1
  <2>2. k = Min(B)
    BY DEF H!RightOf, H!Min, Min
  <2> HIDE DEF B, k
  <2> QED
    BY <2>1, <2>2, MinIsLeast
<1>3. g = Spliced(f, p, m, q)
  BY DEF H!Joined, Spliced
<1> HIDE DEF k, g
<1>4. /\ b.at \in Nat /\ b.at >= 1 /\ H!EndOf(b) \in Nat /\ b.at < H!EndOf(b)
      /\ \A i \in 1 .. Len(f) : /\ f[i].at \in Nat /\ f[i].at >= 1 /\ H!EndOf(f[i]) \in Nat
                                /\ f[i].at < H!EndOf(f[i])
  BY <1>1, PieceIs
<1>5. /\ prev \in BOOLEAN /\ next \in BOOLEAN
      /\ prev => k - 1 \in 1 .. Len(f) /\ H!EndOf(f[k - 1]) = b.at
      /\ next => k \in 1 .. Len(f) /\ f[k].at = H!EndOf(b)
  BY <1>1, <1>2 DEF H!PREV_TOUCHING, H!NEXT_TOUCHING
<1> HIDE DEF prev, next
<1>6. /\ first \in Nat /\ first >= 1 /\ first <= b.at /\ end \in Nat /\ H!EndOf(b) <= end
      /\ end <= TAIL
      /\ p \in 0 .. Len(f) /\ q \in p + 1 .. Len(f) + 1
  BY <1>1, <1>2, <1>4, <1>5
<1>7. m \in H!Node /\ m.at = first /\ H!EndOf(m) = end
  <2> HIDE DEF first, end
  <2>1. end - first \in Nat /\ end - first >= 1 /\ first + (end - first) = end
    BY <1>4, <1>6
  <2>2. first + (end - first) <= TAIL
    BY <1>6, <2>1
  <2>3. m \in H!Node
    BY <1>6, <2>1, <2>2, NodeIs
  <2> QED
    BY <2>1, <2>3 DEF H!EndOf
\* Who keeps clear of the block and of the nodes it is joined with keeps clear of
\* what they become.
<1>8. ASSUME NEW x, x \in H!Node \/ x \in H!Block, Disjoint(b, x) \/ Disjoint(x, b),
             prev => Disjoint(f[k - 1], x) \/ Disjoint(x, f[k - 1]),
             next => Disjoint(f[k], x) \/ Disjoint(x, f[k])
      PROVE  Disjoint(m, x) /\ Disjoint(x, m)
  <2>1. x.at \in Nat /\ H!EndOf(x) \in Nat /\ x.at < H!EndOf(x)
    BY <1>8, PieceIs
  <2>2. H!EndOf(x) <= first \/ end <= x.at
    <3>1. H!EndOf(x) <= b.at \/ H!EndOf(b) <= x.at
      BY <1>8 DEF Disjoint
    <3>2. prev => H!EndOf(x) <= f[k - 1].at \/ b.at <= x.at
      BY <1>5, <1>8 DEF Disjoint
    <3>3. next => H!EndOf(f[k]) <= x.at \/ H!EndOf(x) <= H!EndOf(b)
      BY <1>5, <1>8 DEF Disjoint
    <3> QED
      BY <1>1, <1>4, <1>5, <2>1, <3>1, <3>2, <3>3
  <2> HIDE DEF m, first, end
  <2> QED
    BY <1>7, <2>2 DEF Disjoint
<1> DEFINE at(j) == IF j <= p THEN j ELSE j - p - 2 + q
<1>9. /\ g \in Seq(H!Node) /\ Len(g) = p + 1 + (Len(f) + 1 - q)
      /\ \A j \in 1 .. Len(g) : g[j] = IF j <= p THEN f[j]
                                       ELSE IF j = p + 1 THEN m ELSE f[j - p - 2 + q]
  <2> HIDE DEF m, p, q
  <2>1. m \in H!Node /\ f \in Seq(H!Node)
    BY <1>1, <1>7
  <2>2. p \in 0 .. Len(f) /\ q \in p + 1 .. Len(f) + 1
    BY <1>6
  <2>3. /\ Spliced(f, p, m, q) \in Seq(H!Node)
        /\ Len(Spliced(f, p, m, q)) = p + 1 + (Len(f) + 1 - q)
        /\ \A i \in 1 .. p + 1 + (Len(f) + 1 - q) :
             Spliced(f, p, m, q)[i] = IF i <= p THEN f[i]
                                      ELSE IF i = p + 1 THEN m ELSE f[i - p - 2 + q]
    BY <2>1, <2>2, SplicedIs
  <2> QED
    BY <1>3, <2>3
\* The other nodes of the new list are those of the old that were not joined.
<1>10. \A j \in 1 .. Len(g) \ {p + 1} : /\ at(j) \in 1 .. Len(f) /\ g[j] = f[at(j)]
                                        /\ prev => at(j) # k - 1
                                        /\ next => at(j) # k
  <2>1. /\ prev => p = k - 2
        /\ next => q = k + 1
        /\ p <= k - 1 /\ k <= q
    BY <1>2
  <2> HIDE DEF p, q, m
  <2>2. ASSUME NEW j \in 1 .. Len(g) \ {p + 1}
        PROVE  /\ at(j) \in 1 .. Len(f) /\ g[j] = f[at(j)]
               /\ prev => at(j) # k - 1
               /\ next => at(j) # k
    <3>1. CASE j <= p
      BY <1>1, <1>2, <1>6, <1>9, <2>1, <3>1
    <3>2. CASE j > p + 1
      BY <1>1, <1>2, <1>6, <1>9, <2>1, <3>2
    <3> QED
      BY <1>1, <1>6, <1>9, <3>1, <3>2
  <2> QED
    BY <2>2
<1>11. \A i, j \in 1 .. Len(g) \ {p + 1} : i # j => at(i) # at(j)
  <2> HIDE DEF p, q, m
  <2>1. p \in Nat /\ q \in Int /\ q >= p + 1 /\ Len(g) \in Nat
    BY <1>1, <1>6, <1>9
  <2> HIDE DEF g
  <2> SUFFICES ASSUME NEW i \in 1 .. Len(g) \ {p + 1}, NEW j \in 1 .. Len(g) \ {p + 1}, i # j
               PROVE  at(i) # at(j)
    OBVIOUS
  <2>2. i \in Int /\ j \in Int /\ i # p + 1 /\ j # p + 1
    BY <2>1
  <2> QED
    BY <2>1, <2>2
<1>12. p + 1 \in 1 .. Len(g) /\ g[p + 1] = m
  <2> HIDE DEF p, q, m
  <2> QED
    BY <1>1, <1>6, <1>9
<1> HIDE DEF at, p, q, m, first, end
<1>13. \A j \in 1 .. Len(g) \ {p + 1} : Disjoint(m, g[j]) /\ Disjoint(g[j], m)
  <2> SUFFICES ASSUME NEW j \in 1 .. Len(g) \ {p + 1}
               PROVE  Disjoint(m, f[at(j)]) /\ Disjoint(f[at(j)], m)
    BY <1>10
  <2>1. at(j) \in 1 .. Len(f) /\ f[at(j)] \in H!Node
    BY <1>1, <1>10
  <2>2. Disjoint(f[at(j)], b)
    BY <2>1 DEF Apart
  <2>3. prev => Disjoint(f[k - 1], f[at(j)])
    BY <1>5, <1>10, <2>1 DEF Apart
  <2>4. next => Disjoint(f[k], f[at(j)])
    BY <1>5, <1>10, <2>1 DEF Apart
  <2> QED
    BY <1>8, <2>1, <2>2, <2>3, <2>4
<1>14. \A x \in tk \ {b} : Disjoint(m, x)
  <2> SUFFICES ASSUME NEW x \in tk \ {b} PROVE Disjoint(m, x)
    OBVIOUS
  <2>1. x \in H!Block /\ Disjoint(b, x)
    BY <1>1 DEF Apart
  <2>2. /\ prev => Disjoint(f[k - 1], x)
        /\ next => Disjoint(f[k], x)
    BY <1>5 DEF Apart
  <2> QED
    BY <1>8, <2>1, <2>2
<1>15. \A j \in 1 .. Len(g) : H!EndOf(g[j]) <= TAIL
  BY <1>1, <1>6, <1>7, <1>10, <1>12
<1>16. \A i, j \in 1 .. Len(g) : i # j => Disjoint(g[i], g[j])
  <2> SUFFICES ASSUME NEW i \in 1 .. Len(g), NEW j \in 1 .. Len(g), i # j
               PROVE  Disjoint(g[i], g[j])
    OBVIOUS
  <2>1. CASE i = p + 1 \/ j = p + 1
    BY <1>12, <1>13, <2>1
  <2>2. CASE i # p + 1 /\ j # p + 1
    BY <1>10, <1>11, <2>2 DEF Apart
  <2> QED
    BY <2>1, <2>2
<1>17. \A j \in 1 .. Len(g), x \in tk \ {b} : Disjoint(g[j], x)
  <2> SUFFICES ASSUME NEW j \in 1 .. Len(g), NEW x \in tk \ {b}
               PROVE  Disjoint(g[j], x)
    OBVIOUS
  <2>1. CASE j = p + 1
    BY <1>12, <1>14, <2>1
  <2>2. CASE j # p + 1
    BY <1>10, <2>2 DEF Apart
  <2> QED
    BY <2>1, <2>2
<1>18. /\ tk \ {b} \subseteq H!Block /\ \A x \in tk \ {b} : H!EndOf(x) <= TAIL
       /\ \A x, y \in tk \ {b} : x # y => Disjoint(x, y)
  BY DEF Apart
<1>19. Apart(g, tk \ {b})
  BY <1>9, <1>15, <1>16, <1>17, <1>18 DEF Apart
<1> QED
  BY <1>19 DEF g

-----------------------------------------------------------------------------
(* The blocks of the kernel.                                               *)

\* Nobody but the caller of k_mbx_create gets a mailbox, and only an exit takes
\* a mailbox or a stack away.
LEMMA TameKeepsBoxes ==
  ASSUME IrqInv, IrqInv', Tame
  PROVE  UNCHANGED ustack /\ \A t \in Tid : mailbox'[t] = NULL <=> mailbox[t] = NULL
<1>1. /\ mailbox \in [Tid -> {NULL} \cup 0 .. MBX_CAP]
      /\ mailbox' \in [Tid -> {NULL} \cup 0 .. MBX_CAP]
      /\ gp_current_task \in Tid
  BY DEF IrqInv, KInv, Data, Waiting
<1>2. UNCHANGED ustack
  BY DEF Tame, vars, Yield, SetOwnPrio, SetPrio, Send, Recv, RecvBlock, RecvResume,
     EndInterrupt, TaskData
<1>3. ASSUME NEW how, cq_read(how), mailbox[gp_current_task] # NULL
      PROVE  \A t \in Tid : mailbox'[t] = NULL <=> mailbox[t] = NULL
  <2>1. mailbox[gp_current_task] \in 0 .. MBX_CAP
    BY <1>1, <1>3
  <2>2. \A t \in Tid \ {gp_current_task} : mailbox'[t] = mailbox[t]
    BY <1>1, <1>3 DEF cq_read
  <2>3. mailbox'[gp_current_task] \in {mailbox[gp_current_task], NUM_WRAP,
                                       mailbox[gp_current_task] - 1}
        /\ (mailbox[gp_current_task] = 0 => mailbox'[gp_current_task] \in {0, NUM_WRAP})
    BY <1>1, <1>3 DEF cq_read
  <2>4. mailbox'[gp_current_task] # NULL
    BY <2>1, <2>3, Counts, NoMailboxAssumption
  <2> QED
    BY <1>3, <2>2, <2>4
<1>4. CASE \/ UNCHANGED vars \/ Yield \/ EndInterrupt
           \/ \E p \in TaskPrio : SetOwnPrio(p)
           \/ \E t \in Tid, p \in TaskPrio : SetPrio(t, p)
           \/ \E how \in Reads : RecvBlock(how)
  <2>1. UNCHANGED mailbox
    BY <1>4 DEF vars, Yield, EndInterrupt, SetOwnPrio, SetPrio, RecvBlock, TaskData
  <2> QED
    BY <1>2, <2>1
<1>5. ASSUME NEW r \in Tid, Send(r)
      PROVE  \A t \in Tid : mailbox'[t] = NULL <=> mailbox[t] = NULL
  <2>1. /\ mailbox' = [mailbox EXCEPT ![r] = mailbox[r] + 1]
        /\ mailbox[r] # NULL /\ mailbox[r] < MBX_CAP
    BY <1>5 DEF Send, Deposit, HasRoom
  <2>2. mailbox[r] \in 0 .. MBX_CAP - 1 /\ mailbox[r] + 1 # NULL
    BY <1>1, <2>1, Counts
  <2> QED
    BY <1>1, <2>1, <2>2
<1>6. ASSUME NEW how \in Reads, Recv(how)
      PROVE  \A t \in Tid : mailbox'[t] = NULL <=> mailbox[t] = NULL
  BY <1>3, <1>6 DEF Recv
<1>7. CASE RecvResume
  <2>1. mailbox[gp_current_task] # NULL
    <3>1. cont[gp_current_task] # "none"
      BY <1>7 DEF RecvResume
    <3>2. Waiting(state, mailbox, cont)
      BY DEF IrqInv, KInv, Data
    <3>3. mailbox[gp_current_task] \in 0 .. MBX_CAP
      BY <1>1, <3>1, <3>2, Counts DEF Waiting
    <3> QED
      BY <3>3, Counts
  <2> QED
    BY <1>3, <1>7, <2>1 DEF RecvResume
<1> QED
  BY <1>2, <1>4, <1>5, <1>6, <1>7 DEF Tame

\* A step that leaves the blocks of the kernel as they are, whatever it does to
\* the rest of the heap.
LEMMA SteadyMemory ==
  ASSUME IrqInv, IrqInv', Memory, Steady, Apart(free', taken'),
         KernelPlaces(taken') = KernelPlaces(taken)
  PROVE  Memory'
<1>1. /\ UNCHANGED <<priv, ustack>>
      /\ \A t \in Tid : state'[t] = DORMANT <=> state[t] = DORMANT
      /\ \A t \in Tid : mailbox'[t] = NULL <=> mailbox[t] = NULL
      /\ \A t \in Tid : prog'[t].stack = prog[t].stack /\ prog'[t].box = prog[t].box
  BY TameKeepsAlive, TameKeepsBoxes DEF Steady, PlacesKept
<1> DEFINE S  == Stacked(state, ustack)
           B  == Boxed(state, mailbox)
<1>2. /\ Stacked(state', ustack') = S /\ Boxed(state', mailbox') = B /\ Alive(state') = Alive(state)
      /\ S \subseteq Tid /\ B \subseteq Tid /\ Alive(state) \subseteq Tid
  BY <1>1 DEF Stacked, Boxed, Alive
<1> HIDE DEF S, B
<1>3. Placed(KernelPlaces(taken), S, B, prog)
  BY DEF Memory, S, B
<1>4. Placed(KernelPlaces(taken'), S, B, prog')
  <2>1. /\ {prog'[t].stack : t \in S} = {prog[t].stack : t \in S}
        /\ {prog'[t].box : t \in B} = {prog[t].box : t \in B}
    BY <1>1, <1>2
  <2> QED
    BY <1>1, <1>2, <1>3, <2>1 DEF Placed
<1>5. \A t \in Alive(state') : /\ priv'[t] => prog'[t].stack = 0
                               /\ mailbox'[t] = NULL => prog'[t].box = 0
  BY <1>1, <1>2 DEF Memory
<1> QED
  BY <1>2, <1>4, <1>5 DEF Memory

\* Sizes come in units.
LEMMA UnitsAreNat ==
  ASSUME NEW n \in Nat
  PROVE  Units(n) \in Nat
BY DEF Units

\* No block starts at 0, and no two start at one place.
LEMMA PlacesDiffer ==
  ASSUME Apart(free, taken)
  PROVE  /\ 0 \notin KernelPlaces(taken)
         /\ \A b, c \in taken : b.at = c.at => b = c
<1>1. \A b \in taken : /\ b.at \in Nat /\ b.at >= 1 /\ b.at < H!EndOf(b) /\ H!EndOf(b) \in Nat
  BY PieceIs DEF Apart
<1>2. 0 \notin KernelPlaces(taken)
  BY <1>1 DEF KernelPlaces
<1>3. ASSUME NEW b \in taken, NEW c \in taken, b.at = c.at, b # c
      PROVE  FALSE
  <2>1. H!EndOf(b) <= c.at \/ H!EndOf(c) <= b.at
    BY <1>3 DEF Apart, Disjoint
  <2> QED
    BY <1>1, <1>3, <2>1
<1> QED
  BY <1>2, <1>3

\* Whoever asks, the blocks of the kernel that were there stay.
LEMMA AllocPlaces ==
  ASSUME Apart(free, taken), NEW r \in Nat, NEW o \in Tid \cup {MAGICNUMBER}, H!Alloc(r, o)
  PROVE  LET at == H!BlockFor(r, o).at
         IN /\ Apart(free', taken')
            /\ at \notin KernelPlaces(taken)
            /\ KernelPlaces(taken') = IF o = MAGICNUMBER THEN KernelPlaces(taken) \cup {at}
                                      ELSE KernelPlaces(taken)
<1> DEFINE b == H!BlockFor(r, o)
<1>1. /\ Apart(free', taken') /\ b.owner = o /\ taken' = taken \cup {b}
      /\ \A c \in taken : c.at # b.at
  BY AllocKeepsApart
<1> HIDE DEF b
<1>2. b.at \notin KernelPlaces(taken)
  BY <1>1 DEF KernelPlaces
<1>3. KernelPlaces(taken') = IF o = MAGICNUMBER THEN KernelPlaces(taken) \cup {b.at}
                             ELSE KernelPlaces(taken)
  BY <1>1 DEF KernelPlaces
<1> QED
  BY <1>1, <1>2, <1>3 DEF b

\* k_mem_alloc and k_mem_dealloc for a task leave the blocks of the kernel alone.
LEMMA HeapCallsMemory ==
  ASSUME IrqInv, IrqInv', Programs, Memory, Keyboard, Steady,
         MemAlloc \/ MemDealloc \/ AllocCommand
  PROVE  Memory'
<1>1. Me \in Tid /\ Me # MAGICNUMBER /\ Me \in Tid \cup {MAGICNUMBER}
  BY AppsAssumption DEF IrqInv, KInv, Me
<1>2. Apart(free, taken)
  BY DEF Memory
<1>3. ASSUME NEW r \in Nat, H!Alloc(r, Me)
      PROVE  Memory'
  <2>1. Apart(free', taken') /\ KernelPlaces(taken') = KernelPlaces(taken)
    BY <1>1, <1>2, <1>3, AllocPlaces
  <2> QED
    BY <2>1, SteadyMemory
<1>4. CASE MemAlloc
  <2>1. /\ Call.op = "mem_alloc" /\ Call = CodeOf(Me)[prog[Me].pc]
        /\ WellFormedCall(test, CodeOf(Me), prog[Me].pc)
    BY <1>4, CallIs DEF MemAlloc
  <2>2. Call.size \in Nat
    BY <2>1 DEF WellFormedCall
  <2>3. H!Alloc(Units(Call.size), Me)
    BY <1>4 DEF MemAlloc
  <2> QED
    BY <1>3, <2>2, <2>3, UnitsAreNat
<1>5. CASE AllocCommand
  <2>1. /\ IsSomeSeq(delivered.text)
        /\ H!Alloc(Units(12 + Len(delivered.text)), Me)
    BY <1>5 DEF AllocCommand, Keyboard
  <2>2. 12 + Len(delivered.text) \in Nat
    BY <2>1, LenProperties DEF IsSomeSeq
  <2> QED
    BY <1>3, <2>1, <2>2, UnitsAreNat
<1>6. CASE MemDealloc
  <2>1. CASE NoMemory
    BY <1>2, <2>1, SteadyMemory DEF NoMemory, memVars
  <2>2. ASSUME NEW b \in taken, b.owner = Me, H!Dealloc(b, Me)
        PROVE  Memory'
    <3>1. free' = H!Joined(free, b) /\ taken' = taken \ {b}
      BY <2>2 DEF H!Dealloc
    <3>2. Apart(free', taken')
      BY <1>2, <3>1, JoinedKeepsApart
    <3>3. KernelPlaces(taken') = KernelPlaces(taken)
      BY <1>1, <2>2, <3>1 DEF KernelPlaces
    <3> QED
      BY <3>2, <3>3, SteadyMemory
  <2> QED
    BY <1>6, <2>1, <2>2 DEF MemDealloc
<1> QED
  BY <1>4, <1>5, <1>6

\* A task more has a stack of its own, and no mailbox yet.
LEMMA BornMemory ==
  ASSUME IrqInv, Memory, NEW t \in Tid, NEW pr \in BOOLEAN, NEW e, NEW at, state[t] = DORMANT,
         \A u \in Tid : state'[u] = DORMANT <=> state[u] = DORMANT /\ u # t,
         CreateNew(t, pr, TRUE), prog'[t] = Start(e, IF pr THEN 0 ELSE at),
         \A u \in Tid \ {t} : prog'[u].stack = prog[u].stack /\ prog'[u].box = prog[u].box,
         Apart(free', taken'), at \notin KernelPlaces(taken),
         KernelPlaces(taken') = IF pr THEN KernelPlaces(taken) ELSE KernelPlaces(taken) \cup {at}
  PROVE  Memory'
<1> DEFINE S == Stacked(state, ustack)
           B == Boxed(state, mailbox)
           P == KernelPlaces(taken)
<1>1. /\ ustack \in [Tid -> Stacks] /\ priv \in [Tid -> BOOLEAN]
      /\ mailbox \in [Tid -> {NULL} \cup 0 .. MBX_CAP]
  BY DEF IrqInv, KInv, Data, Counted, Waiting
<1>2. /\ \A u \in Tid : /\ ustack'[u] = IF u = t THEN IF pr THEN "none" ELSE "heap" ELSE ustack[u]
                        /\ mailbox'[u] = IF u = t THEN NULL ELSE mailbox[u]
                        /\ priv'[u] = IF u = t THEN pr ELSE priv[u]
  BY <1>1 DEF CreateNew
<1>3. /\ Stacked(state', ustack') = IF pr THEN S ELSE S \cup {t}
      /\ Boxed(state', mailbox') = B
      /\ S \subseteq Tid \ {t} /\ B \subseteq Tid \ {t}
  BY <1>2 DEF Stacked, Boxed
<1>4. prog'[t].stack = (IF pr THEN 0 ELSE at) /\ prog'[t].box = 0
  BY DEF Start
<1>5. Placed(P, S, B, prog)
  BY DEF Memory
<1> HIDE DEF S, B, P
<1>6. /\ {prog'[u].stack : u \in S} = {prog[u].stack : u \in S}
      /\ {prog'[u].box : u \in B} = {prog[u].box : u \in B}
  BY <1>3
<1>7. Placed(P, S, B, prog')
  BY <1>3, <1>5, <1>6 DEF Placed
<1>8. Placed(KernelPlaces(taken'), Stacked(state', ustack'), Boxed(state', mailbox'), prog')
  <2>1. CASE pr
    BY <1>3, <1>7, <2>1 DEF P
  <2>2. CASE ~ pr
    <3>1. at \notin P /\ prog'[t].stack = at
      BY <1>4, <2>2 DEF P
    <3>2. Placed(P \cup {at}, S \cup {t}, B, prog')
      BY <1>7, <3>1 DEF Placed
    <3> QED
      BY <1>3, <2>2, <3>2 DEF P
  <2> QED
    BY <2>1, <2>2
<1>9. \A u \in Alive(state') : /\ priv'[u] => prog'[u].stack = 0
                               /\ mailbox'[u] = NULL => prog'[u].box = 0
  BY <1>2, <1>4 DEF Memory, Alive
<1> QED
  BY <1>8, <1>9 DEF Memory

\* k_tsk_init.
LEMMA BootsMemory ==
  ASSUME Lapses = {}, IrqInv, IrqInv', Programs, Memory, Boots
  PROVE  Memory'
<1>1. boot.left > 0 /\ Apart(free, taken)
  BY DEF Boots, Memory
<1>2. Entry.priv \in BOOLEAN /\ Entry.stack \in Nat
  BY <1>1, EntryIs
<1>3. CASE Valid(Entry)
  <2> DEFINE at == H!BlockFor(Units(Entry.stack), MAGICNUMBER).at
  <2>1. PICK t \in Tid \ {TID_NULL} :
           /\ state[t] = DORMANT
           /\ state' = [state EXCEPT ![t] = READY]
           /\ CreateNew(t, Entry.priv, TRUE)
           /\ Launch(t, Entry.entry, Entry.priv, Entry.stack)
    BY <1>3, BootIs
  <2>2. prog' = [prog EXCEPT ![t] = Start(Entry.entry, IF Entry.priv THEN 0 ELSE at)]
    BY <2>1 DEF Launch
  <2>3. \A u \in Tid : state'[u] = DORMANT <=> state[u] = DORMANT /\ u # t
    BY <2>1 DEF IrqInv, KInv, Standing, READY, DORMANT
  <2>4. /\ prog'[t] = Start(Entry.entry, IF Entry.priv THEN 0 ELSE at)
        /\ \A u \in Tid \ {t} : prog'[u].stack = prog[u].stack /\ prog'[u].box = prog[u].box
    BY <2>2 DEF Programs
  <2>5. CASE Entry.priv
    <3>1. UNCHANGED <<free, taken>>
      BY <2>1, <2>5 DEF Launch, NoMemory, memVars
    <3>2. prog'[t] = Start(Entry.entry, IF TRUE THEN 0 ELSE 0)
      BY <2>4, <2>5
    <3>3. 0 \notin KernelPlaces(taken)
      BY <1>1, PlacesDiffer
    <3>4. /\ TRUE \in BOOLEAN /\ CreateNew(t, TRUE, TRUE)
          /\ KernelPlaces(taken') = IF TRUE THEN KernelPlaces(taken)
                                    ELSE KernelPlaces(taken) \cup {0}
      BY <1>2, <2>1, <2>5, <3>1
    <3> QED
      BY <1>1, <2>1, <2>3, <2>4, <3>1, <3>2, <3>3, <3>4, BornMemory
  <2>6. CASE ~ Entry.priv
    <3>1. H!Alloc(Units(Entry.stack), MAGICNUMBER) /\ Units(Entry.stack) \in Nat
          /\ MAGICNUMBER \in Tid \cup {MAGICNUMBER}
      BY <1>2, <2>1, <2>6, UnitsAreNat DEF Launch
    <3>2. /\ Apart(free', taken') /\ at \notin KernelPlaces(taken)
          /\ KernelPlaces(taken') = KernelPlaces(taken) \cup {at}
      BY <1>1, <3>1, AllocPlaces
    <3> HIDE DEF at
    <3>3. /\ FALSE \in BOOLEAN /\ CreateNew(t, FALSE, TRUE)
          /\ prog'[t] = Start(Entry.entry, IF FALSE THEN 0 ELSE at)
          /\ KernelPlaces(taken') = IF FALSE THEN KernelPlaces(taken)
                                    ELSE KernelPlaces(taken) \cup {at}
      BY <1>2, <2>1, <2>4, <2>6, <3>2
    <3> QED
      BY <2>1, <2>3, <2>4, <3>2, <3>3, BornMemory
  <2> QED
    BY <1>2, <2>5, <2>6
<1>4. CASE ~ Valid(Entry)
  <2>1. UNCHANGED <<state, priv, ustack, mailbox, prog, free, taken>>
    BY <1>4 DEF Boots, BootStop, NoMemory, memVars
  <2> QED
    BY <2>1 DEF Memory
<1> QED
  BY <1>3, <1>4

\* k_tsk_create.
LEMMA CreatesMemory ==
  ASSUME Lapses = {}, IrqInv, IrqInv', Programs, Memory, Creates
  PROVE  Memory'
<1>1. /\ At({"create"}) /\ Call.op = "create" /\ Me \in Tid
      /\ WellFormedCall(test, CodeOf(Me), prog[Me].pc) /\ Call = CodeOf(Me)[prog[Me].pc]
  BY CallIs DEF Creates
<1>2. Apart(free, taken)
  BY DEF Memory
<1>3. CASE CanCreate(Call)
  <2> DEFINE t  == NewTid(FALSE)
             at == H!BlockFor(Units(Call.stack), MAGICNUMBER).at
  <2>1. /\ t \in Tid \ {TID_NULL, Me} /\ state[t] = DORMANT
        /\ \A u \in Tid : state'[u] = DORMANT <=> state[u] = DORMANT /\ u # t
        /\ CreateNew(t, FALSE, TRUE)
    BY <1>3, CreateIs
  <2>2. /\ H!Alloc(Units(Call.stack), MAGICNUMBER)
        /\ prog' = [prog EXCEPT ![Me].pc = @ + 1, ![Me].child = t, ![t] = Start(Call.entry, at)]
    BY <1>3, CreateAllocates
  <2>3. Units(Call.stack) \in Nat /\ MAGICNUMBER \in Tid \cup {MAGICNUMBER}
    BY <1>1, UnitsAreNat DEF WellFormedCall
  <2>4. /\ Apart(free', taken') /\ at \notin KernelPlaces(taken)
        /\ KernelPlaces(taken') = KernelPlaces(taken) \cup {at}
    BY <1>2, <2>2, <2>3, AllocPlaces
  <2> HIDE DEF t, at
  <2>5. /\ prog'[t] = Start(Call.entry, at)
        /\ prog'[Me] = [[prog[Me] EXCEPT !.pc = @ + 1] EXCEPT !.child = t]
        /\ \A u \in Tid \ {Me, t} : prog'[u] = prog[u]
    BY <1>1, <2>1, <2>2 DEF Programs
  <2>6. Follows([[prog[Me] EXCEPT !.pc = @ + 1] EXCEPT !.child = t])
    BY <1>1, CallsToGoTo, FollowsWritten
  <2>7. \A u \in Tid \ {t} : prog'[u].stack = prog[u].stack /\ prog'[u].box = prog[u].box
    BY <2>5, <2>6 DEF Follows
  <2>8. /\ FALSE \in BOOLEAN
        /\ prog'[t] = Start(Call.entry, IF FALSE THEN 0 ELSE at)
        /\ KernelPlaces(taken') = IF FALSE THEN KernelPlaces(taken)
                                  ELSE KernelPlaces(taken) \cup {at}
    BY <2>4, <2>5
  <2> QED
    BY <2>1, <2>4, <2>7, <2>8, BornMemory
<1>4. CASE ~ CanCreate(Call)
  <2>1. UNCHANGED vars /\ NoMemory
        /\ prog' = [prog EXCEPT ![Me] = [prog[Me] EXCEPT !.pc = @ + 1]]
    BY <1>4 DEF Creates, Advance, GoTo
  <2>2. Tame /\ UNCHANGED cont /\ UNCHANGED <<free, taken>>
    BY <2>1 DEF Tame, vars, NoMemory, memVars
  <2>3. Steady
    BY <1>1, <2>1, <2>2, CallsToGoTo, CallerFollows
  <2> QED
    BY <1>2, <2>2, <2>3, SteadyMemory
<1> QED
  BY <1>3, <1>4

\* k_mbx_create.
LEMMA MbxCreatesMemory ==
  ASSUME IrqInv, IrqInv', Programs, Memory, MbxCreates
  PROVE  Memory'
<1> DEFINE size == Units(Call.size + SIZEOF_CIRC_Q)
           at   == H!BlockFor(size, MAGICNUMBER).at
           S    == Stacked(state, ustack)
           B    == Boxed(state, mailbox)
           P    == KernelPlaces(taken)
<1>1. /\ At({"mbx_create"}) /\ Call.op = "mbx_create" /\ Me \in Tid /\ state[Me] # DORMANT
      /\ WellFormedCall(test, CodeOf(Me), prog[Me].pc) /\ Call = CodeOf(Me)[prog[Me].pc]
      /\ IsTask(prog[Me])
  BY CallIs DEF MbxCreates, RUNNING, DORMANT, Programs
<1>2. /\ MbxCreate /\ H!Alloc(size, MAGICNUMBER)
      /\ prog' = [prog EXCEPT ![Me].pc = @ + 1, ![Me].cap = Call.cap, ![Me].box = at]
  BY DEF MbxCreates
<1>3. size \in Nat /\ MAGICNUMBER \in Tid \cup {MAGICNUMBER}
  <2>1. Call.size + SIZEOF_CIRC_Q \in Nat
    BY <1>1 DEF WellFormedCall, SIZEOF_CIRC_Q
  <2> QED
    BY <2>1, UnitsAreNat
<1>4. /\ Apart(free', taken') /\ at \notin P /\ KernelPlaces(taken') = P \cup {at}
  BY <1>2, <1>3, AllocPlaces DEF Memory
<1> HIDE DEF at, size
<1>5. /\ prog'[Me].box = at /\ prog'[Me].stack = prog[Me].stack
      /\ \A u \in Tid \ {Me} : prog'[u] = prog[u]
  <2>1. prog'[Me] = [[[prog[Me] EXCEPT !.pc = @ + 1] EXCEPT !.cap = Call.cap] EXCEPT !.box = at]
        /\ \A u \in Tid \ {Me} : prog'[u] = prog[u]
    BY <1>1, <1>2 DEF Programs
  <2>2. Follows([[prog[Me] EXCEPT !.pc = @ + 1] EXCEPT !.cap = Call.cap])
    BY <1>1, CallsToGoTo, FollowsWritten
  <2>3. LET p == [[prog[Me] EXCEPT !.pc = @ + 1] EXCEPT !.cap = Call.cap]
            q == [p EXCEPT !.box = at]
        IN q.stack = prog[Me].stack /\ q.box = at
    BY <2>2, BoxWritten DEF Follows, GoesOn
  <2> QED
    BY <2>1, <2>3
<1>6. /\ mailbox[Me] = NULL /\ mailbox'[Me] = 0 /\ 0 # NULL
      /\ \A u \in Tid \ {Me} : mailbox'[u] = mailbox[u]
      /\ UNCHANGED <<state, ustack, priv>>
  <2>1. mailbox \in [Tid -> {NULL} \cup 0 .. MBX_CAP]
    BY DEF IrqInv, KInv, Data, Waiting
  <2> QED
    BY <1>1, <1>2, <2>1, Counts DEF MbxCreate, Me
<1>7. /\ Stacked(state', ustack') = S /\ Boxed(state', mailbox') = B \cup {Me}
      /\ Me \notin B /\ S \subseteq Tid /\ B \subseteq Tid
  BY <1>1, <1>6 DEF Stacked, Boxed
<1>8. Placed(P, S, B, prog)
  BY DEF Memory
<1> HIDE DEF S, B, P
<1>9. /\ \A u \in S : prog'[u].stack = prog[u].stack
      /\ \A u \in B : prog'[u].box = prog[u].box
  BY <1>5, <1>7
<1>10. /\ {prog'[u].stack : u \in S} = {prog[u].stack : u \in S}
       /\ {prog'[u].box : u \in B} = {prog[u].box : u \in B}
  BY <1>9
<1>11. Placed(P, S, B, prog')
  BY <1>8, <1>9, <1>10 DEF Placed
<1>12. Placed(P \cup {at}, S, B \cup {Me}, prog')
  BY <1>4, <1>5, <1>11 DEF Placed
<1>13. \A u \in Alive(state') : /\ priv'[u] => prog'[u].stack = 0
                                /\ mailbox'[u] = NULL => prog'[u].box = 0
  BY <1>5, <1>6 DEF Memory, Alive
<1> QED
  BY <1>4, <1>7, <1>12, <1>13 DEF Memory

\* The free list takes back the block of the kernel at a place, if there is one.
LEMMA GivenBackKeepsApart ==
  ASSUME Apart(free, taken), NEW f, NEW tk, Apart(f, tk), tk \subseteq taken, NEW at,
         KernelBlocks(at) \subseteq tk
  PROVE  Apart(GivenBack(f, at), tk \ KernelBlocks(at))
<1>1. CASE KernelBlocks(at) = {}
  BY <1>1 DEF GivenBack
<1>2. CASE KernelBlocks(at) # {}
  <2> DEFINE b == CHOOSE b \in KernelBlocks(at) : TRUE
  <2>1. b \in KernelBlocks(at) /\ GivenBack(f, at) = H!Joined(f, b)
    BY <1>2 DEF GivenBack
  <2> HIDE DEF b
  <2>2. KernelBlocks(at) = {b}
    BY <2>1, PlacesDiffer DEF KernelBlocks
  <2>3. b \in tk
    BY <2>1
  <2> QED
    BY <2>1, <2>2, <2>3, JoinedKeepsApart
<1> QED
  BY <1>1, <1>2

\* k_tsk_exit: the stack and the mailbox of the caller are blocks of its own, so
\* the second is still there when the first has gone back.
LEMMA ExitsMemory ==
  ASSUME IrqInv, IrqInv', Programs, Memory, Exits
  PROVE  Memory'
<1> DEFINE s == prog[Me].stack
           x == prog[Me].box
           S == Stacked(state, ustack)
           B == Boxed(state, mailbox)
           P == KernelPlaces(taken)
<1>1. /\ Me \in Tid /\ state[Me] # DORMANT
      /\ \A u \in Tid : state'[u] = DORMANT <=> state[u] = DORMANT \/ u = Me
      /\ ustack' = [ustack EXCEPT ![Me] = "none"] /\ mailbox' = [mailbox EXCEPT ![Me] = NULL]
      /\ UNCHANGED priv
  BY ExitIs DEF RUNNING, DORMANT
<1>2. /\ free' = GivenBack(GivenBack(free, s), x)
      /\ taken' = taken \ (KernelBlocks(s) \cup KernelBlocks(x))
      /\ prog' = [prog EXCEPT ![Me].pc = @ + 1]
  BY DEF Exits, MailboxOf, Advance, GoTo
<1>3. /\ Apart(free, taken) /\ Placed(P, S, B, prog)
      /\ priv[Me] => s = 0
      /\ mailbox[Me] = NULL => x = 0
  BY <1>1 DEF Memory, Alive
<1>4. 0 \notin P /\ \A b, c \in taken : b.at = c.at => b = c
  BY <1>3, PlacesDiffer
<1>5. /\ ustack \in [Tid -> Stacks] /\ mailbox \in [Tid -> {NULL} \cup 0 .. MBX_CAP]
      /\ ustack[Me] = IF priv[Me] THEN "none" ELSE "heap"
  BY <1>1 DEF IrqInv, KInv, Data, Waiting, Counted
<1>6. /\ Me \in S \/ s = 0
      /\ Me \in B \/ x = 0
  BY <1>1, <1>3, <1>5 DEF Stacked, Boxed
<1>7. /\ Stacked(state', ustack') = S \ {Me} /\ Boxed(state', mailbox') = B \ {Me}
      /\ S \subseteq Tid /\ B \subseteq Tid
  BY <1>1, <1>5 DEF Stacked, Boxed
<1> HIDE DEF S, B
<1>8. s = x => s = 0 /\ x = 0
  BY <1>3, <1>4, <1>6 DEF Placed
<1>9. KernelBlocks(0) = {}
  BY <1>4 DEF KernelBlocks, KernelPlaces
<1>10. KernelBlocks(x) \subseteq taken \ KernelBlocks(s)
  <2>1. CASE s = x
    BY <1>8, <1>9, <2>1
  <2>2. CASE s # x
    BY <2>2 DEF KernelBlocks
  <2> QED
    BY <2>1, <2>2
<1>11. Apart(free', taken')
  <2>1. KernelBlocks(s) \subseteq taken
    BY DEF KernelBlocks
  <2>2. Apart(GivenBack(free, s), taken \ KernelBlocks(s))
    BY <1>3, <2>1, GivenBackKeepsApart
  <2>3. Apart(GivenBack(GivenBack(free, s), x), (taken \ KernelBlocks(s)) \ KernelBlocks(x))
    BY <1>3, <1>10, <2>2, GivenBackKeepsApart
  <2>4. (taken \ KernelBlocks(s)) \ KernelBlocks(x) = taken'
    BY <1>2
  <2> QED
    BY <1>2, <2>3, <2>4
<1>12. KernelPlaces(taken') = P \ {s, x}
  BY <1>2 DEF KernelPlaces, KernelBlocks
<1> HIDE DEF P
<1>13. \A u \in Tid \ {Me} : prog'[u] = prog[u]
  BY <1>2 DEF Programs
<1>14. /\ {prog'[u].stack : u \in S \ {Me}} = {prog[u].stack : u \in S \ {Me}}
       /\ {prog'[u].box : u \in B \ {Me}} = {prog[u].box : u \in B \ {Me}}
  BY <1>7, <1>13
<1>15. P \ {s, x} = {prog[u].stack : u \in S \ {Me}} \cup {prog[u].box : u \in B \ {Me}}
  <2>1. ASSUME NEW u \in S \ {Me}
        PROVE  prog[u].stack \in P /\ prog[u].stack \notin {s, x}
    <3>1. prog[u].stack \in P /\ prog[u].stack # 0
      BY <1>3, <1>4 DEF Placed
    <3> QED
      BY <1>3, <1>6, <3>1 DEF Placed
  <2>2. ASSUME NEW u \in B \ {Me}
        PROVE  prog[u].box \in P /\ prog[u].box \notin {s, x}
    <3>1. prog[u].box \in P /\ prog[u].box # 0
      BY <1>3, <1>4 DEF Placed
    <3> QED
      BY <1>3, <1>6, <3>1 DEF Placed
  <2>3. P \ {s, x} \subseteq {prog[u].stack : u \in S \ {Me}} \cup {prog[u].box : u \in B \ {Me}}
    BY <1>3 DEF Placed
  <2> QED
    BY <2>1, <2>2, <2>3
<1>16. Placed(KernelPlaces(taken'), S \ {Me}, B \ {Me}, prog')
  BY <1>3, <1>7, <1>12, <1>13, <1>14, <1>15, ZenonT(40) DEF Placed
<1>17. \A u \in Alive(state') : /\ priv'[u] => prog'[u].stack = 0
                                /\ mailbox'[u] = NULL => prog'[u].box = 0
  BY <1>1, <1>5, <1>13 DEF Memory, Alive
<1> QED
  BY <1>7, <1>11, <1>16, <1>17 DEF Memory

\* All steps.
LEMMA NextMemory ==
  ASSUME Lapses = {}, IrqInv, IrqInv', Programs, Memory, Keyboard, [AppNext]_appVars
  PROVE  Memory'
<1>1. CASE UNCHANGED appVars
  BY <1>1 DEF appVars, irqVars, vars, memVars, Memory
<1>2. ASSUME Steady, UNCHANGED <<free, taken>>
      PROVE  Memory'
  <2>1. Apart(free', taken') /\ KernelPlaces(taken') = KernelPlaces(taken)
    BY <1>2 DEF Memory
  <2> QED
    BY <1>2, <2>1, SteadyMemory
<1>3. CASE Yields \/ SetsPrio \/ Sends \/ Receives \/ Resumes \/ Decode \/ Computes
  <2>1. Steady
    BY <1>3, YieldsPrograms, SendsPrograms, ReceivesPrograms, ResumesPrograms,
       DecodePrograms, ComputesPrograms
  <2>2. UNCHANGED <<free, taken>>
    BY <1>3 DEF Yields, SetsPrio, Sends, Receives, Resumes, Decode, Computes, NoMemory, memVars
  <2> QED
    BY <1>2, <2>1, <2>2
<1>4. CASE NullYields \/ Types \/ Interrupted \/ SendsKey \/ LosesItself
  <2>1. Steady
    BY <1>4, OthersPrograms
  <2>2. UNCHANGED <<free, taken>>
    BY <1>4 DEF NullYields, Types, Interrupted, SendsKey, LosesItself, NoMemory, memVars
  <2> QED
    BY <1>2, <2>1, <2>2
<1>5. CASE MemAlloc \/ MemDealloc \/ AllocCommand
  BY <1>5, MemoryPrograms, HeapCallsMemory
<1>6. CASE Boots \/ Creates \/ MbxCreates \/ Exits
  BY <1>6, BootsMemory, CreatesMemory, MbxCreatesMemory, ExitsMemory
<1> QED
  BY <1>1, <1>3, <1>4, <1>5, <1>6, NoMemInit DEF AppNext, TaskSteps

-----------------------------------------------------------------------------
(* The messages in the mailboxes, and the keys.                            *)

\* A sequence over any set is a list.
LEMMA SeqIsSomeSeq ==
  ASSUME NEW S, NEW s \in Seq(S)
  PROVE  IsSomeSeq(s)
<1>1. Len(s) \in Nat /\ s \in [1 .. Len(s) -> S] /\ DOMAIN s = 1 .. Len(s)
  BY LenProperties
<1>2. s \in [1 .. Len(s) -> {s[k] : k \in DOMAIN s}]
  BY <1>1
<1> QED
  BY <1>1, <1>2, SeqDef DEF IsSomeSeq

\* Lists grow at the end and shrink at the front.
LEMMA Lists ==
  /\ IsSomeSeq(<< >>) /\ Len(<< >>) = 0
  /\ \A s, m : IsSomeSeq(s) =>
       /\ Len(s) \in Nat
       /\ IsSomeSeq(Append(s, m)) /\ Len(Append(s, m)) = Len(s) + 1
       /\ Len(s) >= 1 => IsSomeSeq(Tail(s)) /\ Len(Tail(s)) = Len(s) - 1
<1>1. IsSomeSeq(<< >>) /\ Len(<< >>) = 0
  BY EmptySeq, SeqIsSomeSeq
<1>2. ASSUME NEW s, NEW m, IsSomeSeq(s)
      PROVE  /\ Len(s) \in Nat
             /\ IsSomeSeq(Append(s, m)) /\ Len(Append(s, m)) = Len(s) + 1
             /\ Len(s) >= 1 => IsSomeSeq(Tail(s)) /\ Len(Tail(s)) = Len(s) - 1
  <2> DEFINE S == {s[k] : k \in DOMAIN s} \cup {m}
  <2>1. s \in Seq(S)
    BY <1>2, SeqMonotonic DEF IsSomeSeq
  <2> HIDE DEF S
  <2>2. m \in S
    BY DEF S
  <2>3. Append(s, m) \in Seq(S) /\ Len(Append(s, m)) = Len(s) + 1
    BY <2>1, <2>2, AppendProperties
  <2>4. Len(s) \in Nat
    BY <2>1, LenProperties
  <2>5. Len(s) >= 1 => Tail(s) \in Seq(S) /\ Len(Tail(s)) = Len(s) - 1
    <3>1. Len(s) >= 1 => s # << >>
      BY EmptySeq
    <3> QED
      BY <2>1, <3>1, HeadTailProperties
  <2> QED
    BY <2>3, <2>4, <2>5, SeqIsSomeSeq
<1> QED
  BY <1>1, <1>2

\* A step that takes no message and brings none.
LEMMA InboxesStay ==
  ASSUME Inboxes, UNCHANGED inbox, \A t \in Tid : mailbox'[t] = mailbox[t],
         \A t \in Tid : state'[t] = DORMANT => state[t] = DORMANT,
         \A t \in Tid : cont'[t] \in {"none", "take"}
  PROVE  Inboxes'
BY DEF Inboxes

\* A step that writes one mailbox.
LEMMA InboxWritten ==
  ASSUME Inboxes, mailbox \in [Tid -> {NULL} \cup 0 .. MBX_CAP], NEW r \in Tid, NEW s, NEW m,
         inbox' = [inbox EXCEPT ![r] = s], mailbox' = [mailbox EXCEPT ![r] = m],
         IsSomeSeq(s), Len(s) = IF m = NULL THEN 0 ELSE m,
         state'[r] = DORMANT => m = NULL,
         \A t \in Tid \ {r} : state'[t] = DORMANT => state[t] = DORMANT,
         \A t \in Tid : cont'[t] \in {"none", "take"}
  PROVE  Inboxes'
<1>1. /\ inbox = [t \in Tid |-> inbox[t]] /\ inbox' = [t \in Tid |-> inbox'[t]]
      /\ inbox'[r] = s /\ mailbox'[r] = m
      /\ \A t \in Tid \ {r} : inbox'[t] = inbox[t] /\ mailbox'[t] = mailbox[t]
  BY DEF Inboxes
<1>2. \A t \in Tid \ {r} : /\ IsSomeSeq(inbox'[t])
                           /\ Len(inbox'[t]) = IF mailbox'[t] = NULL THEN 0 ELSE mailbox'[t]
                           /\ state'[t] = DORMANT => mailbox'[t] = NULL
  BY <1>1 DEF Inboxes
<1>3. /\ IsSomeSeq(inbox'[r])
      /\ Len(inbox'[r]) = IF mailbox'[r] = NULL THEN 0 ELSE mailbox'[r]
      /\ state'[r] = DORMANT => mailbox'[r] = NULL
  BY <1>1
<1> QED
  BY <1>1, <1>2, <1>3 DEF Inboxes

\* k_send_msg: the message is counted, and it is there.
LEMMA SendInboxes ==
  ASSUME IrqInv, IrqInv', Inboxes, NEW r \in Tid, Send(r), NEW m, Put(r, m)
  PROVE  Inboxes'
<1>1. /\ mailbox \in [Tid -> {NULL} \cup 0 .. MBX_CAP]
      /\ mailbox[r] # NULL /\ mailbox[r] < MBX_CAP /\ state[r] # DORMANT
      /\ mailbox' = [mailbox EXCEPT ![r] = mailbox[r] + 1]
      /\ UNCHANGED cont
  BY DEF IrqInv, KInv, Data, Waiting, Send, HasRoom, Deposit
<1>2. mailbox[r] \in 0 .. MBX_CAP - 1 /\ mailbox[r] + 1 # NULL
  BY <1>1, Counts
<1>3. \A t \in Tid : state'[t] = DORMANT <=> state[t] = DORMANT
  BY TameKeepsAlive DEF Tame
<1>4. IsSomeSeq(inbox[r]) /\ Len(inbox[r]) = mailbox[r]
  BY <1>1 DEF Inboxes
<1>5. IsSomeSeq(Append(inbox[r], m)) /\ Len(Append(inbox[r], m)) = mailbox[r] + 1
  BY <1>4, Lists
<1>6. inbox' = [inbox EXCEPT ![r] = Append(inbox[r], m)]
  BY DEF Put
<1>7. \A t \in Tid : cont'[t] \in {"none", "take"}
  BY <1>1 DEF Inboxes
<1> QED
  BY <1>1, <1>2, <1>3, <1>5, <1>6, <1>7, InboxWritten

\* cq_read: there is a message, and it goes.
LEMMA TakeInboxes ==
  ASSUME IrqInv, Inboxes, mailbox[Me] \in 1 .. MBX_CAP, cq_read("take"), Takes(Call.fits),
         UNCHANGED state, \A t \in Tid : cont'[t] \in {"none", "take"}, state[Me] # DORMANT
  PROVE  Inboxes'
<1>1. Me \in Tid /\ mailbox \in [Tid -> {NULL} \cup 0 .. MBX_CAP]
  BY DEF IrqInv, KInv, Data, Waiting, Me
<1>2. mailbox[Me] - 1 \in 0 .. MBX_CAP /\ mailbox[Me] - 1 # NULL /\ mailbox[Me] # NULL
  BY Counts
<1>3. mailbox' = [mailbox EXCEPT ![Me] = mailbox[Me] - 1]
  <2>1. mailbox[Me] # 0 /\ "take" # "keep"
    BY Counts
  <2> QED
    BY <2>1 DEF cq_read, Me
<1>4. IsSomeSeq(inbox[Me]) /\ Len(inbox[Me]) = mailbox[Me] /\ Len(inbox[Me]) >= 1
  BY <1>1, <1>2 DEF Inboxes
<1>5. IsSomeSeq(Tail(inbox[Me])) /\ Len(Tail(inbox[Me])) = mailbox[Me] - 1
  BY <1>4, Lists
<1>6. inbox' = [inbox EXCEPT ![Me] = Tail(inbox[Me])]
  BY DEF Takes
<1>7. /\ Len(Tail(inbox[Me])) = IF mailbox[Me] - 1 = NULL THEN 0 ELSE mailbox[Me] - 1
      /\ state'[Me] = DORMANT => mailbox[Me] - 1 = NULL
      /\ \A t \in Tid \ {Me} : state'[t] = DORMANT => state[t] = DORMANT
  BY <1>1, <1>2, <1>5
<1> QED
  BY <1>1, <1>3, <1>5, <1>6, <1>7, InboxWritten

\* k_tsk_create_new: a task that was not there had no mailbox, and has none.
LEMMA BornInboxes ==
  ASSUME IrqInv, Inboxes, NEW t \in Tid, NEW pr, state[t] = DORMANT, CreateNew(t, pr, TRUE),
         \A u \in Tid : state'[u] = DORMANT <=> state[u] = DORMANT /\ u # t,
         inbox' = [inbox EXCEPT ![t] = << >>] \/ UNCHANGED inbox
  PROVE  Inboxes'
<1>1. /\ mailbox \in [Tid -> {NULL} \cup 0 .. MBX_CAP] /\ cont \in [Tid -> {"none"} \cup Reads]
      /\ mailbox' = [mailbox EXCEPT ![t] = NULL] /\ cont' = [cont EXCEPT ![t] = "none"]
  BY DEF IrqInv, KInv, Data, Waiting, CreateNew
<1>2. \A u \in Tid : cont'[u] \in {"none", "take"}
  BY <1>1 DEF Inboxes
<1>3. mailbox[t] = NULL
  BY DEF Inboxes
<1>4. CASE UNCHANGED inbox
  <2>1. \A u \in Tid : mailbox'[u] = mailbox[u]
    BY <1>1, <1>3
  <2> QED
    BY <1>2, <1>4, <2>1, InboxesStay
<1>5. CASE inbox' = [inbox EXCEPT ![t] = << >>]
  <2>1. IsSomeSeq(<< >>) /\ Len(<< >>) = IF NULL = NULL THEN 0 ELSE NULL
    BY Lists
  <2>2. NULL = NULL /\ \A u \in Tid \ {t} : state'[u] = DORMANT => state[u] = DORMANT
    OBVIOUS
  <2> QED
    BY <1>1, <1>2, <1>5, <2>1, <2>2, InboxWritten
<1> QED
  BY <1>4, <1>5

\* k_tsk_init and k_tsk_create.
LEMMA BirthsInboxes ==
  ASSUME Lapses = {}, IrqInv, IrqInv', Programs, Inboxes, Boots \/ Creates
  PROVE  Inboxes'
<1>1. CASE Boots /\ Valid(Entry)
  <2>1. PICK t \in Tid \ {TID_NULL} :
           /\ state[t] = DORMANT
           /\ state' = [state EXCEPT ![t] = READY]
           /\ CreateNew(t, Entry.priv, TRUE)
    BY <1>1, BootIs
  <2>2. \A u \in Tid : state'[u] = DORMANT <=> state[u] = DORMANT /\ u # t
    BY <2>1 DEF IrqInv, KInv, Standing, READY, DORMANT
  <2>3. UNCHANGED inbox
    BY <1>1 DEF Boots
  <2> QED
    BY <2>1, <2>2, <2>3, BornInboxes
<1>2. CASE Boots /\ ~ Valid(Entry)
  <2>1. UNCHANGED <<inbox, mailbox, state, cont>>
    BY <1>2 DEF Boots, BootStop
  <2> QED
    BY <2>1 DEF Inboxes
<1>3. CASE Creates /\ CanCreate(Call)
  <2> DEFINE t == NewTid(FALSE)
  <2>1. /\ t \in Tid /\ state[t] = DORMANT
        /\ \A u \in Tid : state'[u] = DORMANT <=> state[u] = DORMANT /\ u # t
        /\ CreateNew(t, FALSE, TRUE)
    BY <1>3, CreateIs
  <2>2. inbox' = [inbox EXCEPT ![t] = << >>]
    BY <1>3, CreateAllocates
  <2> HIDE DEF t
  <2> QED
    BY <2>1, <2>2, BornInboxes
<1>4. CASE Creates /\ ~ CanCreate(Call)
  <2>1. UNCHANGED <<vars, inbox>>
    BY <1>4 DEF Creates
  <2> QED
    BY <2>1 DEF Inboxes, vars
<1> QED
  BY <1>1, <1>2, <1>3, <1>4

\* k_tsk_exit and k_mbx_create.
LEMMA BoxesInboxes ==
  ASSUME IrqInv, IrqInv', Programs, Inboxes, Exits \/ MbxCreates
  PROVE  Inboxes'
<1>1. /\ mailbox \in [Tid -> {NULL} \cup 0 .. MBX_CAP]
      /\ inbox = [t \in Tid |-> inbox[t]]
  BY DEF IrqInv, KInv, Data, Waiting, Inboxes
<1>2. CASE Exits
  <2>1. /\ Me \in Tid /\ UNCHANGED cont /\ mailbox' = [mailbox EXCEPT ![Me] = NULL]
        /\ \A u \in Tid : state'[u] = DORMANT <=> state[u] = DORMANT \/ u = Me
    BY <1>2, ExitIs
  <2>2. inbox' = [inbox EXCEPT ![Me] = << >>]
    BY <1>2 DEF Exits
  <2>3. IsSomeSeq(<< >>) /\ Len(<< >>) = IF NULL = NULL THEN 0 ELSE NULL
    BY Lists
  <2>4. \A u \in Tid : cont'[u] \in {"none", "take"}
    BY <2>1 DEF Inboxes
  <2> QED
    BY <1>1, <2>1, <2>2, <2>3, <2>4, InboxWritten
<1>3. CASE MbxCreates
  <2>1. /\ Me \in Tid /\ mailbox[Me] = NULL /\ mailbox' = [mailbox EXCEPT ![Me] = 0]
        /\ UNCHANGED <<state, cont, inbox>> /\ state[Me] # DORMANT
    BY <1>3, CallIs DEF MbxCreates, MbxCreate, Me, RUNNING, DORMANT
  <2>2. IsSomeSeq(inbox[Me]) /\ Len(inbox[Me]) = 0
    BY <2>1 DEF Inboxes
  <2>3. inbox' = [inbox EXCEPT ![Me] = inbox[Me]]
    BY <1>1, <2>1
  <2>4. \A u \in Tid : cont'[u] \in {"none", "take"}
    BY <2>1 DEF Inboxes
  <2>5. Len(inbox[Me]) = IF 0 = NULL THEN 0 ELSE 0
    BY <2>2
  <2> QED
    BY <1>1, <2>1, <2>2, <2>3, <2>4, <2>5, InboxWritten
<1> QED
  BY <1>2, <1>3

\* k_send_msg, of a task and of the handler, and k_recv_msg.
LEMMA MessagesInboxes ==
  ASSUME IrqInv, IrqInv', Programs, Inboxes, Sends \/ SendsKey \/ Receives \/ Resumes
  PROVE  Inboxes'
<1>1. CASE UNCHANGED <<vars, inbox>>
  BY <1>1 DEF vars, Inboxes
<1>2. CASE Sends
  <2>1. \E r, m, p, p0 : Delivers(r, m, p, p0)
    BY <1>2 DEF Sends
  <2>2. \/ UNCHANGED <<vars, inbox>>
        \/ \E r \in Tid : \E m : Send(r) /\ Put(r, m)
    BY <2>1 DEF Delivers, Accepts
  <2> QED
    BY <1>1, <2>2, SendInboxes
<1>3. CASE SendsKey
  <2>1. TID_KCD \in Tid
    BY Ids
  <2>2. \/ UNCHANGED <<vars, inbox>>
        \/ \E m : Send(TID_KCD) /\ Put(TID_KCD, m)
    BY <1>3 DEF SendsKey, ReadKey
  <2> QED
    BY <1>1, <2>1, <2>2, SendInboxes
<1>4. CASE Receives
  <2>1. Me \in Tid /\ state[Me] # DORMANT
        /\ mailbox \in [Tid -> {NULL} \cup 0 .. MBX_CAP] /\ cont \in [Tid -> {"none"} \cup Reads]
    BY <1>4, CallIs DEF Receives, RUNNING, DORMANT, IrqInv, KInv, Data, Waiting
  <2>2. CASE Recv("take") /\ Takes(Call.fits)
    <3>1. /\ mailbox[Me] \notin {NULL, 0} /\ cq_read("take") /\ UNCHANGED <<state, cont>>
      BY <2>2 DEF Recv, Me
    <3>2. mailbox[Me] \in 1 .. MBX_CAP
      BY <2>1, <3>1, Counts
    <3>3. \A t \in Tid : cont'[t] \in {"none", "take"}
      BY <3>1 DEF Inboxes
    <3> QED
      BY <2>1, <2>2, <3>1, <3>2, <3>3, TakeInboxes
  <2>3. CASE RecvBlock("take") /\ UNCHANGED <<prog, inbox>>
    <3>1. UNCHANGED <<mailbox, inbox>> /\ cont' = [cont EXCEPT ![Me] = "take"]
      BY <2>3 DEF RecvBlock, Me
    <3>2. \A t \in Tid : state'[t] = DORMANT <=> state[t] = DORMANT
      BY <2>3, TameKeepsAlive DEF Tame, Reads
    <3>3. \A t \in Tid : cont'[t] \in {"none", "take"}
      BY <2>1, <3>1 DEF Inboxes
    <3> QED
      BY <3>1, <3>2, <3>3, InboxesStay
  <2> QED
    BY <1>4, <2>2, <2>3 DEF Receives
<1>5. CASE Resumes
  <2>1. /\ RecvResume /\ Takes(Call.fits)
        /\ Me \in Tid /\ cont[Me] # "none" /\ cq_read(cont[Me])
        /\ cont' = [cont EXCEPT ![Me] = "none"] /\ UNCHANGED state
        /\ cont \in [Tid -> {"none"} \cup Reads]
    BY <1>5 DEF Resumes, RecvResume, Me, IrqInv, KInv, Data, Waiting
  <2>2. cont[Me] = "take"
    BY <2>1 DEF Inboxes
  <2>3. Me # TID_NULL /\ state[Me] # DORMANT /\ (state[Me] # BLK_MSG => mailbox[Me] \in 1 .. MBX_CAP)
    BY <2>1 DEF IrqInv, KInv, Data, Waiting
  <2>4. state[Me] # BLK_MSG
    BY <2>3 DEF IrqInv, KInv, Standing, Me, RUNNING, BLK_MSG
  <2>5. \A t \in Tid : cont'[t] \in {"none", "take"}
    BY <2>1 DEF Inboxes
  <2>6. cq_read("take")
    BY <2>1, <2>2
  <2> QED
    BY <2>1, <2>3, <2>4, <2>5, <2>6, TakeInboxes
<1> QED
  BY <1>2, <1>3, <1>4, <1>5

\* All steps.
LEMMA NextInboxes ==
  ASSUME Lapses = {}, IrqInv, IrqInv', Programs, Inboxes, [AppNext]_appVars
  PROVE  Inboxes'
<1>1. CASE UNCHANGED <<vars, inbox>>
  BY <1>1 DEF vars, Inboxes
<1>2. CASE \/ UNCHANGED appVars
           \/ MemAlloc \/ MemDealloc \/ Decode \/ AllocCommand \/ Computes \/ LosesItself \/ Types
  <2>1. UNCHANGED <<vars, inbox>>
    BY <1>2 DEF appVars, irqVars, MemAlloc, MemDealloc, Decode, AllocCommand, Computes,
       LosesItself, Types, KeyArrives
  <2> QED
    BY <1>1, <2>1
<1>3. CASE Yields \/ NullYields \/ SetsPrio \/ Interrupted
  <2>1. \/ UNCHANGED <<vars, inbox>>
        \/ /\ Yield \/ EndInterrupt \/ \E p \in TaskPrio : SetOwnPrio(p) \/ \E t \in Tid : SetPrio(t, p)
           /\ UNCHANGED inbox
    <3>1. CASE Yields \/ NullYields
      BY <3>1 DEF Yields, NullYields, YieldOrGoOn
    <3>2. CASE SetsPrio
      BY <3>2 DEF SetsPrio, SetPrioFails
    <3>3. CASE Interrupted
      BY <3>3 DEF Interrupted, TakeInterrupt
    <3> QED
      BY <1>3, <3>1, <3>2, <3>3
  <2>2. ASSUME Tame, UNCHANGED <<inbox, mailbox, cont>>
        PROVE  Inboxes'
    <3>1. \A t \in Tid : state'[t] = DORMANT <=> state[t] = DORMANT
      BY <2>2, TameKeepsAlive
    <3> QED
      BY <2>2, <3>1 DEF Inboxes
  <2>3. Yield \/ EndInterrupt \/ (\E p \in TaskPrio : SetOwnPrio(p) \/ \E t \in Tid : SetPrio(t, p))
        => Tame /\ UNCHANGED <<mailbox, cont>>
    BY DEF Tame, Yield, EndInterrupt, SetOwnPrio, SetPrio, TaskData
  <2> QED
    BY <1>1, <2>1, <2>2, <2>3
<1>4. CASE \/ Boots \/ Creates \/ Exits \/ MbxCreates
           \/ Sends \/ SendsKey \/ Receives \/ Resumes
  BY <1>4, BirthsInboxes, BoxesInboxes, MessagesInboxes
<1> QED
  BY <1>2, <1>3, <1>4, NoMemInit DEF AppNext, TaskSteps

\* The keys and the command line.  The decoder takes away only what is there:
\* a command has two characters.
LEMMA NextKeyboard ==
  ASSUME Keyboard, Programs, [AppNext]_appVars
  PROVE  Keyboard'
<1>1. /\ keys = [typed |-> keys.typed, asked |-> keys.asked]
      /\ keys.typed \in Nat /\ keys.asked \in Nat /\ keys.typed <= MaxTyped
      /\ IsSomeSeq(line) /\ (delivered # NULL => IsSomeSeq(delivered.text))
      /\ undefined \in BOOLEAN
  BY DEF Keyboard
<1>2. CASE UNCHANGED <<keys, test, undefined, line, delivered>>
  BY <1>1, <1>2 DEF Keyboard, MaxTyped
<1>3. CASE Types
  <2>1. /\ keys.typed < MaxTyped /\ keys' = [keys EXCEPT !.typed = @ + 1]
        /\ UNCHANGED <<test, undefined, line, delivered>>
    BY <1>3 DEF Types, Going, cmdVars
  <2>2. MaxTyped' = MaxTyped /\ MaxTyped \in Int
    BY <1>1, <2>1, TestsAssumption DEF MaxTyped
  <2> QED
    BY <1>1, <2>1, <2>2 DEF Keyboard
<1>4. CASE Computes
  <2>1. UNCHANGED <<test, undefined, line, delivered>>
    BY <1>4 DEF Computes, At, Going, cmdVars
  <2>2. UNCHANGED keys \/ keys' = [keys EXCEPT !.asked = @ + 1]
    BY <1>4 DEF Computes, Local
  <2>3. CASE keys' = [keys EXCEPT !.asked = @ + 1]
    <3>1. /\ keys' = [typed |-> keys'.typed, asked |-> keys'.asked]
          /\ keys'.typed = keys.typed /\ keys'.asked = keys.asked + 1
      BY <1>1, <2>3
    <3>2. keys'.typed <= MaxTyped'
      BY <1>1, <2>1, <3>1, TestsAssumption DEF MaxTyped
    <3> QED
      BY <1>1, <2>1, <3>1, <3>2 DEF Keyboard
  <2> QED
    BY <1>2, <2>1, <2>2, <2>3
<1>5. CASE /\ UNCHANGED <<keys, test, undefined>>
           /\ IsSomeSeq(line') /\ (delivered' # NULL => IsSomeSeq(delivered'.text))
  BY <1>1, <1>5 DEF Keyboard, MaxTyped
<1>6. CASE Decode
  <2>1. UNCHANGED <<keys, test, undefined>>
    BY <1>6 DEF Decode, At, Going
  <2>2. \/ UNCHANGED cmdVars
        \/ delivered' = NULL /\ UNCHANGED line
        \/ delivered' = NULL /\ line' = << >>
        \/ delivered' = NULL /\ \E c : line' = Append(line, c)
        \/ \E t : delivered' = [to |-> t, text |-> Tail(line)] /\ line' = << >> /\ Len(line) \in 2 .. 64
    BY <1>6 DEF Decode, C!Register, C!Hand, C!IsCommand, C!Discard, C!Type
  <2>3. IsSomeSeq(line') /\ (delivered' # NULL => IsSomeSeq(delivered'.text))
    <3>1. CASE \E t : delivered' = [to |-> t, text |-> Tail(line)] /\ line' = << >> /\ Len(line) \in 2 .. 64
      <4> DEFINE n == Len(line)
      <4>1. n \in 2 .. 64
        BY <3>1
      <4> HIDE DEF n
      <4>2. n >= 1
        BY <4>1
      <4>3. IsSomeSeq(Tail(line)) /\ IsSomeSeq(<< >>)
        BY <1>1, <4>2, Lists DEF n
      <4> QED
        BY <3>1, <4>3
    <3>2. CASE UNCHANGED cmdVars
      BY <1>1, <3>2 DEF cmdVars
    <3> QED
      BY <1>1, <2>2, <3>1, <3>2, Lists
  <2> QED
    BY <1>5, <2>1, <2>3
<1>7. CASE Sends
  <2>1. UNCHANGED <<keys, test, undefined>>
    BY <1>7 DEF Sends, At, Going, Quiet
  <2>2. UNCHANGED cmdVars \/ (delivered' = NULL /\ UNCHANGED line)
    BY <1>7 DEF Sends, Quiet, C!Wait
  <2> QED
    BY <1>1, <1>5, <2>1, <2>2 DEF cmdVars
<1>8. CASE LosesItself
  BY <1>1, <1>8 DEF LosesItself, Keyboard, MaxTyped, cmdVars
<1>9. CASE \/ UNCHANGED appVars
           \/ Boots \/ Yields \/ NullYields \/ Exits \/ Creates \/ SetsPrio \/ MemInit \/ MemAlloc
           \/ MemDealloc \/ MbxCreates \/ Receives \/ Resumes \/ AllocCommand
           \/ Interrupted \/ SendsKey
  <2>1. UNCHANGED <<keys, test, undefined, cmdVars>>
    BY <1>9 DEF appVars, Boots, Yields, NullYields, Exits, Creates, SetsPrio, MemInit, MemAlloc,
       MemDealloc, MbxCreates, Receives, Resumes, AllocCommand, Interrupted, SendsKey,
       At, Going, Quiet
  <2> QED
    BY <1>2, <2>1 DEF cmdVars
<1> QED
  BY <1>3, <1>4, <1>6, <1>7, <1>8, <1>9 DEF AppNext, TaskSteps

-----------------------------------------------------------------------------
(* The invariant of the whole system.                                      *)

AppInv == IrqInv /\ Programs /\ Inboxes /\ Memory /\ Keyboard

\* k_tsk_init has read nothing, the heap is one node, no key has come.
LEMMA InitAppInv ==
  ASSUME AppInit, test \notin HeapTests
  PROVE  AppInv
<1>1. IrqInv
  BY InitIrqInv DEF AppInit
<1>2. /\ state = [t \in Tid |-> IF t = TID_NULL THEN RUNNING ELSE DORMANT]
      /\ priv = [t \in Tid |-> t = TID_NULL] /\ ustack = [t \in Tid |-> "none"]
      /\ mailbox = [t \in Tid |-> NULL] /\ cont = [t \in Tid |-> "none"]
  BY DEF AppInit, IrqInit, Init
<1>3. Programs
  <2>1. prog = [t \in Tid |-> Start("task_null", 0)]
    BY DEF AppInit
  <2>2. test \in DOMAIN Boot \ HeapTests
    BY TestsAssumption DEF AppInit
  <2>3. boot.left <= Len(Boot[test])
    <3>1. Len(Boot[test]) \in Nat
      BY <2>2, ProgramsAssumption DEF WellFormedTest
    <3> QED
      BY <3>1 DEF AppInit
  <2>4. \A t \in Tid : prog[t] = Start("task_null", 0)
    BY <2>1
  <2>5. IsTask(Start("task_null", 0))
    BY DEF IsTask, Start
  <2>6. prog = [t \in Tid |-> prog[t]] /\ \A t \in Tid : IsTask(prog[t])
    BY <2>1, <2>4, <2>5
  <2>7. InItsFunction(state, cont, prog)
    BY <1>2 DEF InItsFunction
  <2> QED
    BY <2>2, <2>3, <2>6, <2>7 DEF Programs
<1>4. Inboxes
  <2>1. inbox = [t \in Tid |-> << >>]
    BY DEF AppInit
  <2>2. IsSomeSeq(<< >>) /\ Len(<< >>) = 0
    BY Lists
  <2> QED
    BY <1>2, <2>1, <2>2 DEF Inboxes
<1>5. Memory
  <2> DEFINE a == [at |-> 1, size |-> TAIL - 1]
  <2>1. free = << a >> /\ taken = {}
    BY DEF AppInit, H!Init
  <2>2. TAIL \in Nat /\ TAIL > 1
    BY AppsAssumption
  <2>3. a \in H!Node /\ H!EndOf(a) <= TAIL
    BY <2>2 DEF H!Node, H!EndOf
  <2> HIDE DEF a
  <2>4. << a >> \in Seq(H!Node) /\ Len(<< a >>) = 1 /\ << a >>[1] = a
    BY <2>3
  <2>5. Apart(free, taken)
    BY <2>1, <2>3, <2>4 DEF Apart
  <2>6. /\ KernelPlaces(taken) = {} /\ Stacked(state, ustack) = {} /\ Boxed(state, mailbox) = {}
    BY <1>2, <2>1 DEF KernelPlaces, Stacked, Boxed
  <2>7. Placed({}, {}, {}, prog)
    BY DEF Placed
  <2>8. \A t \in Alive(state) : prog[t].stack = 0 /\ prog[t].box = 0
    BY DEF Alive, AppInit, Start
  <2> QED
    BY <2>5, <2>6, <2>7, <2>8 DEF Memory
<1>6. Keyboard
  <2>1. keys = [typed |-> 0, asked |-> 0] /\ line = << >> /\ delivered = NULL /\ undefined = FALSE
    BY DEF AppInit
  <2>2. 0 <= MaxTyped
    BY <2>1, TestsAssumption DEF MaxTyped
  <2>3. IsSomeSeq(<< >>)
    BY Lists
  <2> QED
    BY <2>1, <2>2, <2>3 DEF Keyboard
<1> QED
  BY <1>1, <1>3, <1>4, <1>5, <1>6 DEF AppInv

\* Every step of the system keeps it, and is one of the kernel under interrupts
\* or none of its.
LEMMA NextAppInv ==
  ASSUME Lapses = {}, AppInv, [AppNext]_appVars
  PROVE  AppInv' /\ [IrqNext]_irqVars
<1>1. IrqInv /\ Programs /\ Inboxes /\ Memory /\ Keyboard
  BY DEF AppInv
<1>2. [IrqNext]_irqVars
  BY <1>1, AppStep
<1>3. IrqInv'
  BY <1>1, <1>2, IrqNextKeeps
<1>4. Programs'
  BY <1>1, <1>3, NextPrograms
<1>5. Inboxes'
  BY <1>1, <1>3, NextInboxes
<1>6. Memory'
  BY <1>1, <1>3, NextMemory
<1>7. Keyboard'
  BY <1>1, NextKeyboard
<1> QED
  BY <1>2, <1>3, <1>4, <1>5, <1>6, <1>7 DEF AppInv

LEMMA AppInvariance ==
  ASSUME Lapses = {}
  PROVE  AppSpec /\ test \notin HeapTests => []AppInv /\ [][IrqNext]_irqVars
<1>1. AppInit /\ test \notin HeapTests => AppInv
  BY InitAppInv
<1>2. AppInv /\ [AppNext]_appVars => AppInv'
  BY NextAppInv
<1>3. AppInv /\ [AppNext]_appVars => [IrqNext]_irqVars
  BY NextAppInv
<1> QED
  BY <1>1, <1>2, <1>3, PTL DEF AppSpec

-----------------------------------------------------------------------------
(* What the invariant says of the heap and the task table.                 *)

\* The places of the kernel's blocks are as many as stacks and mailboxes.
LEMMA PlacedCount ==
  ASSUME NEW P, NEW S \in SUBSET Tid, NEW B \in SUBSET Tid, NEW pg, Placed(P, S, B, pg)
  PROVE  Cardinality(P) = Cardinality(S) + Cardinality(B)
<1> DEFINE stacks == {pg[t].stack : t \in S}
           boxes  == {pg[t].box : t \in B}
           FS     == [t \in S |-> pg[t].stack]
           FB     == [t \in B |-> pg[t].box]
<1>1. IsFiniteSet(S) /\ IsFiniteSet(B) /\ Cardinality(S) \in Nat /\ Cardinality(B) \in Nat
  BY TaskSets, FS_CardinalityType
<1>2. IsFiniteSet(stacks) /\ Cardinality(stacks) = Cardinality(S)
  <2>1. /\ FS \in [S -> stacks]
        /\ \A x, y \in S : FS[x] = FS[y] => x = y
        /\ \A at \in stacks : \E x \in S : FS[x] = at
    BY DEF Placed
  <2> HIDE DEF FS, stacks
  <2> QED
    BY <1>1, <2>1, SameCount
<1>3. IsFiniteSet(boxes) /\ Cardinality(boxes) = Cardinality(B)
  <2>1. /\ FB \in [B -> boxes]
        /\ \A x, y \in B : FB[x] = FB[y] => x = y
        /\ \A at \in boxes : \E x \in B : FB[x] = at
    BY DEF Placed
  <2> HIDE DEF FB, boxes
  <2> QED
    BY <1>1, <2>1, SameCount
<1>4. P = stacks \cup boxes /\ stacks \cap boxes = {}
  BY DEF Placed
<1> HIDE DEF stacks, boxes
<1>5. Cardinality(stacks \cap boxes) = 0
  BY <1>4, FS_EmptySet
<1>6. Cardinality(stacks \cup boxes)
        = Cardinality(stacks) + Cardinality(boxes) - Cardinality(stacks \cap boxes)
  BY <1>2, <1>3, FS_Union
<1>7. Cardinality(P) = Cardinality(S) + Cardinality(B) - 0
  BY <1>2, <1>3, <1>4, <1>5, <1>6
<1> QED
  BY <1>1, <1>7

LEMMA AccountedOfAppInv ==
  ASSUME AppInv
  PROVE  KernelBlocksAccounted
<1> DEFINE S == Stacked(state, ustack)
           B == Boxed(state, mailbox)
           P == KernelPlaces(taken)
<1>1. /\ Counted(state, priv, ustack, mailbox, g_num_active_tasks, kblocks)
      /\ Placed(P, S, B, prog)
  BY DEF AppInv, IrqInv, KInv, Data, Memory
<1>2. S = {t \in Tid : state[t] # DORMANT /\ ~ priv[t]}
  BY <1>1 DEF Counted, Stacked
<1>3. B = {t \in Tid : state[t] # DORMANT /\ mailbox[t] # NULL}
  BY DEF Boxed
<1>4. kblocks = Cardinality(S) + Cardinality(B)
  BY <1>1 DEF Counted
<1> DEFINE here == {t \in Tid : state[t] # DORMANT}
<1>5. S = {u \in here : ~ priv[u]} /\ B = {u \in here : mailbox[u] # NULL}
  BY <1>2, <1>3
<1>6. S \in SUBSET Tid /\ B \in SUBSET Tid
  BY DEF Stacked, Boxed
<1> HIDE DEF S, B, P
<1>7. Cardinality(P) = kblocks
  BY <1>1, <1>4, <1>6, PlacedCount
<1>8. P = {prog[t].stack : t \in {u \in here : ~ priv[u]}}
          \cup {prog[t].box : t \in {u \in here : mailbox[u] # NULL}}
  BY <1>1, <1>5 DEF Placed
<1>9. P = {b.at : b \in {x \in taken : x.owner = MAGICNUMBER}}
  BY DEF P, KernelPlaces
<1> QED
  BY <1>7, <1>8, <1>9 DEF KernelBlocksAccounted

LEMMA TypesOfAppInv ==
  ASSUME AppInv
  PROVE  AppTypeOK
<1>1. TypeOK
  BY TypesOfKInv DEF AppInv, IrqInv
<1>2. \A t \in Tid : Len(inbox[t]) = IF mailbox[t] = NULL THEN 0 ELSE mailbox[t]
  BY DEF AppInv, Inboxes
<1>3. \A t \in Tid \ {TID_NULL} :
        state[t] # DORMANT => prog[t].pc \in 1 .. Len(CodeOf(t)) + 1
  BY DEF AppInv, Programs, InItsFunction, CodeOf
<1>4. free \in Seq(H!Node) /\ taken \subseteq H!Block
  BY DEF AppInv, Memory, Apart
<1>5. keys.typed \in 0 .. MaxTyped /\ undefined \in BOOLEAN
  <2>1. keys.typed \in Nat /\ keys.asked \in Nat /\ keys.typed <= MaxTyped /\ undefined \in BOOLEAN
    BY DEF AppInv, Keyboard
  <2>2. MaxTyped \in Nat
    BY <2>1, TestsAssumption DEF MaxTyped
  <2> QED
    BY <2>1, <2>2
<1> QED
  BY <1>1, <1>2, <1>3, <1>4, <1>5 DEF AppTypeOK

-----------------------------------------------------------------------------
(* The theorems about the whole system.                                    *)

\* The system of tasks, heap, handler and decoder does with the kernel nothing
\* but what IrqSpec lets it: every call of k_task.c, k_msg.c and HAL_CA.c that a
\* program makes is one of its steps, so all that is proved of IrqSpec holds of
\* every task program.
THEOREM AppsRunOnTheKernel ==
  ASSUME Lapses = {}
  PROVE  AppSpec /\ test \notin HeapTests => IrqSpec
<1>1. AppInit => IrqInit
  BY DEF AppInit
<1> QED
  BY <1>1, AppInvariance, PTL DEF AppSpec, IrqSpec

\* In every test every task is at a call of its function or past the last one,
\* and its mailbox holds the messages that num_msgs counts (k_send_msg and
\* k_recv_msg, with their sends from the handler).
THEOREM AppTypeCorrect ==
  ASSUME Lapses = {}
  PROVE  AppSpec /\ test \notin HeapTests => []AppTypeOK
<1>1. AppInv => AppTypeOK
  BY TypesOfAppInv
<1> QED
  BY <1>1, AppInvariance, PTL

\* What MAGICNUMBER owns on the heap is at all times the stack and the mailbox of
\* every live task, each at a place of its own, and nothing else: k_tsk_exit
\* gives both back, k_mbx_create and k_alloc_p_stack take one each, and no
\* k_mem_dealloc of a task reaches them.
THEOREM KernelBlocksAreAccounted ==
  ASSUME Lapses = {}
  PROVE  AppSpec /\ test \notin HeapTests => []KernelBlocksAccounted
<1>1. AppInv => KernelBlocksAccounted
  BY AccountedOfAppInv
<1> QED
  BY <1>1, AppInvariance, PTL

\* No two blocks of the heap, whoever owns them, share a byte, and none lies in a
\* free node: neither the stack of a task nor its mailbox is ever handed to
\* another task by k_mem_alloc while it lives.
THEOREM TasksKeepApart ==
  ASSUME Lapses = {}
  PROVE  AppSpec /\ test \notin HeapTests => []Apart(free, taken)
<1>1. AppInv => Apart(free, taken)
  BY DEF AppInv, Memory
<1> QED
  BY <1>1, AppInvariance, PTL
=============================================================================
