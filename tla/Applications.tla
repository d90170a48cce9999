---------------------------- MODULE Applications ----------------------------
(***************************************************************************)
(* The whole system under its test applications: the tasks of one test of  *)
(* TestTasks run on the kernel with its interrupts, its heap and, in test  *)
(* 2, the keyboard command decoder.  Each call of a task is one step, and  *)
(* takes the step that the kernel, the heap and the decoder take for it.   *)
(*                                                                         *)
(* A test is left where it leaves what the code defines (undefined).  The  *)
(* heap of the board has room for what every test asks; where TAIL makes   *)
(* it smaller, the stack of a new task may find no room (heap_exhausted),  *)
(* and any other allocation that finds none is not taken further.          *)
(***************************************************************************)
EXTENDS Interrupt, TestTasks
LOCAL INSTANCE TLC

CONSTANTS
  Tests,        \* the tests to run
  STRAY,        \* bound: keys hit during a test that asks for none
  TAIL,         \* the heap, as in Heap
  MAGICNUMBER   \* the owner of what the kernel allocates

TID_UART_IRQ == 255
U_STACK_SIZE == 512

ASSUME TestsAssumption == Tests \subseteq DOMAIN Boot /\ STRAY \in Nat
ASSUME AppsAssumption == TAIL \in Nat /\ TAIL > 1 /\ MAGICNUMBER \in Nat \ Tid /\ TID_UART_IRQ \notin Tid

VARIABLES
  test,        \* TEST of ae.h
  low_byte,    \* of the address of a task function
  prog,        \* of every task: its function, the next call, its local variables
  free, taken, \* the heap
  inbox,       \* the messages in every mailbox: [from, type, data]
  keys,        \* keys typed, and commands asked for
  out,         \* numbered lines printed, result reported, and turn of test 2
  line, registered, delivered,   \* the command line
  undefined    \* the test has done what the code gives no meaning to

memVars == <<free, taken>>
cmdVars == <<line, registered, delivered>>
appVars == <<irqVars, test, low_byte, prog, memVars, inbox, keys, out, cmdVars, undefined>>

H == INSTANCE Heap WITH Owners <- Tid \cup {MAGICNUMBER}, Requests <- Nat \ {0}

C == INSTANCE CommandLine WITH
       MAX_CMD_SIZE <- 64, MAX_LINE <- 64, PERCENT <- "%", LOST <- "lost", NOBODY <- NULL,
       Ids <- {"c", "d", "G", "T", "A"}, Chars <- {"%"}, Tasks <- Tid,
       alive <- {t \in Tid : state[t] # DORMANT}

NoMessage == [from |-> TID_NULL, type |-> "DEFAULT", data |-> << >>]

\* A task that starts function e, on a user stack at that place of the heap.
Start(e, at) ==
  [entry |-> e, pc |-> 1, child |-> TID_NULL, ptr |-> << >>, got |-> NoMessage,
   passed |-> 0, count |-> 0, stack |-> at, box |-> 0, cap |-> 0]

AppInit ==
  /\ IrqInit
  /\ test \in Tests
  /\ boot.left = Len(Boot[test])
  /\ low_byte \in {b \in Tid : b % 4 = 0}
  /\ prog = [t \in Tid |-> Start("task_null", 0)]
  /\ H!Init
  /\ inbox = [t \in Tid |-> << >>]
  /\ keys = [typed |-> 0, asked |-> 0]
  /\ out = [said |-> << >>, verdict |-> NULL, turn |-> 1]
  /\ line = << >> /\ registered = [c \in {"c", "d", "G", "T", "A"} |-> NULL]
  /\ delivered = NULL
  /\ undefined = FALSE

Me == gp_current_task

CodeOf(t) == Code[test][prog[t].entry]

Returned == prog[Me].pc > Len(CodeOf(Me))

Call == CodeOf(Me)[prog[Me].pc]

\* The end of the function: its report, or its exit.
Finale ==
  Min({k \in DOMAIN CodeOf(Me) : CodeOf(Me)[k].op \in {"report", "exit"}}
      \cup {Len(CodeOf(Me)) + 1})

Target(miss) == IF miss = 0 THEN Finale ELSE prog[Me].pc + miss

-----------------------------------------------------------------------------
(* Undefined behaviour.                                                    *)

\* A user task that calls k_ functions without SVC switches stacks in the wrong
\* mode.
CallsKernelDirectly ==
  ~ priv[Me] /\ (prog[Me].entry \in Names(FiveKernelTasks) \/ test = 26)

\* The current task returns from its function, comes back after its exit, takes
\* a message that is not there, calls the kernel from user mode, or leaves the
\* processor when pq_init has emptied the queue; or the null task has lost its
\* TCB to another.
LeavesTheCode ==
  \/ prog[TID_NULL].entry # "task_null"
  \/ /\ Me # TID_NULL
     /\ \/ cont[Me] # "none" /\ mailbox[Me] = 0
        \/ cont[Me] = "none" /\ Returned
        \/ cont[Me] = "none" /\ ~ Returned /\ CallsKernelDirectly
        \/ cont[Me] = "none" /\ ~ Returned /\ rq.size = 0 /\ Call.op \in {"yield", "exit", "recv"}

\* k_mem_init has given the stack of the current task back to the heap: the
\* headers that the heap writes and the stack may overwrite each other.
StackInFreeMemory ==
  ~ priv[Me] /\ \A b \in taken : b.at = prog[Me].stack => b.owner # MAGICNUMBER

LosesItself ==
  /\ boot.left = 0 /\ ~ InHandler /\ ~ undefined
  /\ LeavesTheCode \/ StackInFreeMemory
  /\ undefined' = TRUE
  /\ UNCHANGED <<irqVars, test, low_byte, prog, memVars, inbox, keys, out, cmdVars>>

Going == ~ undefined /\ UNCHANGED <<undefined, test, low_byte>>

\* The current task is about to make one of these calls.
At(ops) ==
  /\ Going
  /\ Calls /\ ~ InHandler /\ ~ LeavesTheCode
  /\ Call.op \in ops
  /\ UNCHANGED <<rx, handler>>

GoTo(pc) == prog' = [prog EXCEPT ![Me].pc = pc]

Advance == GoTo(prog[Me].pc + 1)

Quiet == UNCHANGED <<keys, out, cmdVars>>

Units(bytes) == (bytes + 7) \div 8

NoMemory == UNCHANGED memVars

-----------------------------------------------------------------------------
(* Booting.                                                                *)

Entry == Boot[test][Len(Boot[test]) - boot.left + 1]

\* What k_tsk_init accepts.
Valid(e) == e.prio \in TaskPrio /\ (e.priv \/ e.stack >= U_STACK_SIZE)

\* The task of slot t starts function e; one that is not privileged has its user
\* stack from the heap.
Launch(t, e, pr, bytes) ==
  /\ prog' = [prog EXCEPT ![t] = Start(e, IF pr THEN 0
                                          ELSE H!BlockFor(Units(bytes), MAGICNUMBER).at)]
  /\ IF pr THEN NoMemory ELSE H!Alloc(Units(bytes), MAGICNUMBER)

\* One turn of the loop of k_tsk_init.
Boots ==
  /\ Going /\ boot.left > 0
  /\ IF Valid(Entry)
     THEN LET kcd == Entry.entry = "kcd_task"
          IN /\ BootTask(kcd, Entry.prio, Entry.priv)
             /\ Launch(IF kcd THEN TID_KCD ELSE boot.j, Entry.entry, Entry.priv, Entry.stack)
     ELSE BootStop /\ NoMemory /\ UNCHANGED prog
  /\ UNCHANGED <<rx, handler, inbox>> /\ Quiet

-----------------------------------------------------------------------------
(* Calls to task management.                                               *)

YieldOrGoOn == IF YieldsTo(pq_peek(rq)) THEN Yield ELSE UNCHANGED vars

Yields ==
  /\ At({"yield"})
  /\ YieldOrGoOn
  /\ Advance
  /\ NoMemory /\ UNCHANGED inbox /\ Quiet

\* task_null, which runs when nothing else can.
NullYields ==
  /\ Going /\ Running /\ ~ LeavesTheCode
  /\ Me = TID_NULL
  /\ YieldOrGoOn
  /\ NoMemory /\ UNCHANGED <<rx, handler, prog, inbox>> /\ Quiet

\* The kernel's block at that place of the heap, if there is one.
KernelBlocks(at) == {b \in taken : b.owner = MAGICNUMBER /\ b.at = at}

\* Free list f once that block is given back.
GivenBack(f, at) ==
  IF KernelBlocks(at) = {} THEN f ELSE H!Joined(f, CHOOSE b \in KernelBlocks(at) : TRUE)

\* Seeded fault: an exit leaves the mailbox allocated.
NoMailbox(t) == 0

MailboxOf(t) == prog[t].box

\* k_tsk_exit gives back the user stack first, then the mailbox.
Exits ==
  /\ At({"exit"})
  /\ Exit
  /\ free' = GivenBack(GivenBack(free, prog[Me].stack), MailboxOf(Me))
  /\ taken' = taken \ (KernelBlocks(prog[Me].stack) \cup KernelBlocks(MailboxOf(Me)))
  /\ inbox' = [inbox EXCEPT ![Me] = << >>]
  /\ Advance
  /\ Quiet

\* What k_tsk_create accepts.
CanCreate(c) ==
  /\ g_num_active_tasks # MAX_TASKS
  /\ c.stack >= U_STACK_SIZE /\ c.prio \in TaskPrio /\ c.entry # "NULL"

Creates ==
  /\ At({"create"})
  /\ IF CanCreate(Call)
     THEN LET t     == NewTid(FALSE)
              size  == Units(Call.stack)
              alloc == H!HasNode(size)
          IN /\ Create(FALSE, Call.prio, alloc)
             /\ IF alloc THEN H!Alloc(size, MAGICNUMBER) ELSE NoMemory
             /\ prog' = [prog EXCEPT ![Me].pc = @ + 1, ![Me].child = t,
                           ![t] = Start(Call.entry, IF alloc THEN H!BlockFor(size, MAGICNUMBER).at
                                                    ELSE 0)]
             /\ inbox' = [inbox EXCEPT ![t] = << >>]
     ELSE UNCHANGED <<vars, inbox>> /\ NoMemory /\ Advance
  /\ Quiet

\* The task that a call to tsk_set_prio names.
Named ==
  CASE Call.who = "own"      -> Me
    [] Call.who = "child"    -> prog[Me].child
    [] Call.who = "other"    -> 3 - Me
    [] Call.who = "tid"      -> Call.tid
    [] Call.who = "function" -> low_byte

\* The error returns of k_tsk_set_prio.
SetPrioFails(t, p) ==
  \/ p \notin TaskPrio \/ t \notin Tid \/ t = TID_NULL
  \/ ~ priv[Me] /\ priv[t]
  \/ pq_peek(rq) = NULL
  \/ t # Me /\ pq_move_err(rq, state[t] = DORMANT, p)

SetsPrio ==
  /\ At({"prio"})
  /\ IF SetPrioFails(Named, Call.prio)
     THEN UNCHANGED vars /\ GoTo(Target(Call.miss))
     ELSE /\ IF Named = Me THEN SetOwnPrio(Call.prio) ELSE SetPrio(Named, Call.prio)
          /\ Advance
  /\ NoMemory /\ UNCHANGED inbox /\ Quiet

-----------------------------------------------------------------------------
(* Calls to the heap and to the mailboxes.                                 *)

\* k_mem_init starts over with the heap and with the ready queue.
MemInit ==
  /\ At({"mem_init"})
  /\ rq' = pq_init(rq)
  /\ free' = << [at |-> 1, size |-> TAIL - 1] >> /\ taken' = {}
  /\ Advance
  /\ UNCHANGED <<state, gp_current_task, TaskData, inbox>> /\ Quiet

MemAlloc ==
  /\ At({"mem_alloc"})
  /\ H!Alloc(Units(Call.size), Me)
  /\ prog' = [prog EXCEPT ![Me].pc = @ + 1,
                          ![Me].ptr = Append(@, H!BlockFor(Units(Call.size), Me).at)]
  /\ UNCHANGED <<vars, inbox>> /\ Quiet

\* RTX_ERR if the pointer is not to a block of the caller.
MemDealloc ==
  LET mine == {b \in taken : b.at = prog[Me].ptr[Call.ptr] /\ b.owner = Me}
  IN /\ At({"mem_dealloc"})
     /\ IF mine = {} THEN NoMemory ELSE \E b \in mine : H!Dealloc(b, Me)
     /\ Advance
     /\ UNCHANGED <<vars, inbox>> /\ Quiet

SIZEOF_CIRC_Q == 20

\* All that a test sends to a mailbox has one length; cap of them fit.
MbxCreates ==
  LET size == Units(Call.size + SIZEOF_CIRC_Q)
  IN /\ At({"mbx_create"})
     /\ MbxCreate
     /\ H!Alloc(size, MAGICNUMBER)
     /\ prog' = [prog EXCEPT ![Me].pc = @ + 1, ![Me].cap = Call.cap,
                             ![Me].box = H!BlockFor(size, MAGICNUMBER).at]
     /\ UNCHANGED inbox /\ Quiet

\* Seeded fault: a message is counted and not copied.
PutNothing(r, m) == UNCHANGED inbox

\* cq_write and cq_read keep the order of the messages (MsgFifo).
Put(r, m) == inbox' = [inbox EXCEPT ![r] = Append(@, m)]

\* k_send_msg finds a task, a mailbox and room.
Accepts(r) ==
  /\ r \in Tid /\ state[r] # DORMANT /\ mailbox[r] # NULL
  /\ HasRoom(r) /\ mailbox[r] < prog[r].cap

\* m goes to r and the caller on with prog p, or with p0 if k_send_msg fails.
Delivers(r, m, p, p0) ==
  IF Accepts(r)
  THEN Send(r) /\ Put(r, m) /\ prog' = [prog EXCEPT ![Me] = p]
  ELSE UNCHANGED <<vars, inbox>> /\ prog' = [prog EXCEPT ![Me] = p0]

Message(type, data) == [from |-> Me, type |-> type, data |-> data]

Sends ==
  LET me   == prog[Me]
      next == [me EXCEPT !.pc = @ + 1]
  IN /\ At({"send", "send_count", "send_score", "fill", "send_command"})
     /\ \/ /\ Call.op = "send"
           /\ Delivers(Call.to, Message(Call.type, Call.data), next,
                       [me EXCEPT !.pc = Target(Call.miss)])
           /\ Quiet
        \/ /\ Call.op = "send_count"
           /\ Delivers(Call.to, Message("DEFAULT", <<me.count>>), [next EXCEPT !.count = @ + 1],
                       [me EXCEPT !.pc = Target(Call.miss)])
           /\ Quiet
        \/ /\ Call.op = "fill"
           /\ Delivers(Call.to, Message("DEFAULT", <<me.count>>), [me EXCEPT !.count = @ + 1],
                       next)
           /\ Quiet
        \/ /\ Call.op = "send_score"
           /\ Delivers(Call.to, Message("DEFAULT", <<me.passed>>), next, next)
           /\ Quiet
        \/ /\ Call.op = "send_command"
           /\ Delivers(delivered.to, Message("KCD_CMD", delivered.text), next, next)
           /\ C!Wait /\ UNCHANGED <<keys, out>>
     /\ NoMemory

\* The first message leaves the mailbox; it is lost if the buffer is too short.
Takes(fits) ==
  /\ inbox' = [inbox EXCEPT ![Me] = Tail(@)]
  /\ prog' = [prog EXCEPT ![Me].pc = @ + 1,
                          ![Me].got = IF fits THEN Head(inbox[Me]) ELSE @]

Receives ==
  /\ At({"recv"})
  /\ \/ Recv("take") /\ Takes(Call.fits)
     \/ RecvBlock("take") /\ UNCHANGED <<prog, inbox>>
  /\ NoMemory /\ Quiet

\* k_recv_msg after the switch.
Resumes ==
  /\ Going /\ ~ InHandler /\ ~ LeavesTheCode
  /\ RecvResume
  /\ Takes(Call.fits)
  /\ NoMemory /\ UNCHANGED <<rx, handler>> /\ Quiet

-----------------------------------------------------------------------------
(* The keyboard command decoder, which is task kcd_task of test 2.         *)

TheNextMessage == 2

\* The line is a command and its task is there.
IsForSomebody == C!IsCommand /\ registered[line[2]] \in {t \in Tid : state[t] # DORMANT}

\* A command goes on to alloc_command; all else to the next message.
Decode ==
  LET m == prog[Me].got
  IN /\ At({"decode"})
     /\ UNCHANGED <<vars, inbox, keys, out>> /\ NoMemory
     /\ \/ /\ m.type = "KCD_REG"
           /\ C!Register(m.data[1], m.from)
           /\ GoTo(TheNextMessage)
        \/ /\ m.type = "KEY_IN" /\ m.from = TID_UART_IRQ
           /\ \/ /\ m.data[1] = "enter"
                 /\ IF IsForSomebody THEN C!Hand /\ Advance
                    ELSE C!Discard /\ GoTo(TheNextMessage)
              \/ /\ m.data[1] # "enter"
                 /\ C!Type(m.data[1])
                 /\ GoTo(TheNextMessage)
        \/ /\ m.type \notin {"KCD_REG", "KEY_IN"}
           /\ GoTo(TheNextMessage)
           /\ UNCHANGED cmdVars

\* The message of the command that Decode handed on comes from the heap.
AllocCommand ==
  LET size == Units(12 + Len(delivered.text))
  IN /\ At({"alloc_command"}) /\ delivered # NULL
     /\ H!Alloc(size, Me)
     /\ prog' = [prog EXCEPT ![Me].pc = @ + 1, ![Me].ptr = <<H!BlockFor(size, Me).at>>]
     /\ UNCHANGED <<vars, inbox>> /\ Quiet

-----------------------------------------------------------------------------
(* What a task does by itself.                                             *)

\* sflag is one variable of both tasks in test 3.
Passed == IF test = 3 THEN prog[1].passed + prog[2].passed ELSE prog[Me].passed

Local ==
  LET me   == prog[Me]
      next == [me EXCEPT !.pc = @ + 1]
      Mine(p) == prog' = [prog EXCEPT ![Me] = p]
      Check(ok) == Mine(IF ok THEN next ELSE [me EXCEPT !.pc = Target(Call.miss)])
  IN \/ /\ UNCHANGED <<keys, out>>
        /\ \/ Call.op = "goto"         /\ GoTo(Call.to)
           \/ Call.op = "pass"         /\ Mine([next EXCEPT !.passed = @ + 1])
           \/ Call.op = "await_turn"   /\ out.turn = 2 /\ Mine(next)
           \/ /\ Call.op = "add_score"
              /\ Mine(IF me.got.data[1] < 10 THEN [next EXCEPT !.passed = @ + me.got.data[1]]
                      ELSE next)
           \/ Call.op = "expect"       /\ Check(me.got.from = Call.from /\ me.got.data = Call.data)
           \/ Call.op = "expect_from"  /\ Check(me.got.from = Call.from)
           \/ Call.op = "expect_data"  /\ Check(me.got.data = Call.data)
           \/ Call.op = "expect_count" /\ Check(me.count > Call.more_than)
           \/ /\ Call.op = "expect_frag"
              /\ Check(H!k_mem_count_extfrag(Units(Call.size)) = Call.count)
           \/ /\ Call.op = "expect_apart"
              /\ Check(8 * me.ptr[Call.lo] + Call.dist < 8 * me.ptr[Call.hi])
           \/ /\ Call.op = "expect_same"
              /\ Check(8 * me.ptr[Call.lo] + Call.dist = 8 * me.ptr[Call.hi])
     \/ /\ Mine(next)
        /\ \/ Call.op = "ask"      /\ keys' = [keys EXCEPT !.asked = @ + 1] /\ UNCHANGED out
           \/ /\ UNCHANGED keys
              /\ \/ Call.op = "say"      /\ out' = [out EXCEPT !.said = Append(@, Call.line)]
                 \/ Call.op = "set_turn" /\ out' = [out EXCEPT !.turn = 2]
                 \/ Call.op = "report"   /\ out' = [out EXCEPT !.verdict = Passed]

Computes ==
  /\ At({"goto", "pass", "await_turn", "add_score", "expect", "expect_from", "expect_data",
         "expect_count", "expect_frag", "expect_apart", "expect_same", "ask", "say", "set_turn",
         "report"})
  /\ Local
  /\ UNCHANGED <<vars, inbox, cmdVars>> /\ NoMemory

-----------------------------------------------------------------------------
(* Keys.                                                                   *)

\* What the tester types: the commands c, c, c, d, c and d, one when it is asked
\* for; in the other tests a few stray keys.
Typist ==
  Each(6, LAMBDA i : <<"%", IF i \in {4, 6} THEN "d" ELSE "c", "G", "T", "A", "enter">>)

MaxTyped == IF test = 2 THEN 6 * keys.asked ELSE STRAY

Types ==
  /\ Going
  /\ keys.typed < MaxTyped
  /\ KeyArrives
  /\ keys' = [keys EXCEPT !.typed = @ + 1]
  /\ UNCHANGED <<prog, inbox, out, cmdVars>> /\ NoMemory

Interrupted ==
  /\ Going
  /\ (TakeInterrupt /\ ~ LeavesTheCode) \/ EndInterrupt
  /\ UNCHANGED <<prog, inbox>> /\ NoMemory /\ Quiet

\* c_IRQ_Handler sends the key as a message of TID_UART_IRQ.
SendsKey ==
  /\ Going
  /\ ReadKey
  /\ IF KcdAccepts
     THEN Put(TID_KCD, [from |-> TID_UART_IRQ, type |-> "KEY_IN",
                        data |-> <<Typist[keys.typed - rx + 1]>>])
     ELSE UNCHANGED inbox
  /\ UNCHANGED prog /\ NoMemory /\ Quiet

-----------------------------------------------------------------------------
TaskSteps ==
  \/ Boots \/ Yields \/ NullYields \/ Exits \/ Creates \/ SetsPrio
  \/ MemInit \/ MemAlloc \/ MemDealloc \/ MbxCreates \/ Sends \/ Receives \/ Resumes
  \/ Decode \/ AllocCommand \/ Computes

AppNext == TaskSteps \/ Types \/ Interrupted \/ SendsKey \/ LosesItself

\* Tests that report a result or print numbered lines.
Ends == test \in HeapTests \cup {2, 3, 37, 38, 39}

(***************************************************************************)
(* The processor goes on, an interrupt that can be taken is taken, and the *)
(* tester types what is asked for.  (Stated of the tests that end.)        *)
(***************************************************************************)
AppSpec ==
  /\ AppInit /\ [][AppNext]_appVars
  /\ WF_appVars(Ends /\ TaskSteps) /\ WF_appVars(Ends /\ Interrupted)
  /\ WF_appVars(Ends /\ SendsKey) /\ WF_appVars(Ends /\ Types)

-----------------------------------------------------------------------------
\* The messages in a mailbox are as many as it counts (num_msgs), and every task
\* is at a call of its function or past the last.
AppTypeOK ==
  /\ TypeOK
  /\ \A t \in Tid : Len(inbox[t]) = IF mailbox[t] = NULL THEN 0 ELSE mailbox[t]
  /\ \A t \in Tid \ {TID_NULL} :
       state[t] # DORMANT => prog[t].pc \in 1 .. Len(CodeOf(t)) + 1
  /\ free \in Seq(H!Node) /\ taken \subseteq H!Block
  /\ keys.typed \in 0 .. MaxTyped
  /\ undefined \in BOOLEAN

\* The heap and the task table agree: what MAGICNUMBER owns is the user stack and
\* the mailbox of every task that is there, each a block of its own, and nothing
\* else (k_alloc_p_stack, k_mbx_create and k_tsk_exit).  k_mem_init, which only
\* the heap tests call, starts over with the heap alone.
KernelBlocksAccounted ==
  LET here == {t \in Tid : state[t] # DORMANT}
      kernel == {b.at : b \in {x \in taken : x.owner = MAGICNUMBER}}
  IN test \notin HeapTests =>
       /\ kernel = {prog[t].stack : t \in {u \in here : ~ priv[u]}}
                   \cup {prog[t].box : t \in {u \in here : mailbox[u] # NULL}}
       /\ Cardinality(kernel) = kblocks

\* No key of test 2 is lost, doubled or overtaken on its way through the UART,
\* the handler and the mailbox of the KCD, whoever runs when it comes: what the
\* decoder has of the present line and what waits in its mailbox is what was
\* typed (HAL_CA.c:260, kcd_task.c:67).
KeysReachDecoder ==
  LET kcd     == prog[TID_KCD]
      isKey(m) == m.type = "KEY_IN"
      waiting == SelectSeq(inbox[TID_KCD], isKey)
      pending == IF kcd.entry = "kcd_task" /\ kcd.pc = 3 /\ isKey(kcd.got)
                 THEN <<kcd.got>> \o waiting ELSE waiting
      decoded == keys.typed - rx - Len(pending)
  IN test = 2 =>
       /\ \A k \in DOMAIN pending : pending[k].data = <<Typist[decoded + k]>>
       /\ line = SubSeq(Typist, (decoded - (decoded % 6)) + 1, decoded)

\* The result that each test is written to report: 1 for a heap test, and all
\* their items for tests 2 and 3 (ae_usr_tasks.c:276, 537; ae_mem.c:316, 442).
Verdict == (2 :> 11) @@ (3 :> 17) @@ [t \in HeapTests |-> 1]

\* A test reports the result that it is written for.
ReportsVerdict ==
  out.verdict # NULL => test \in DOMAIN Verdict /\ out.verdict = Verdict[test]

\* All but tests 101 and 103 do so in every interleaving of the tasks with keys.
\* These two expect of the heap what k_mem.c does not do: a fragment of less than
\* four bytes (ae_mem.c:317), and a second set of blocks at the place of the
\* first, of which none is freed (ae_mem.c:443).
VerdictsCorrect == test \notin {101, 103} => ReportsVerdict

\* How many lines the preemption tests number.
Lines == (37 :> 6) @@ (38 :> 18) @@ (39 :> 17)

\* A task that is created, or made more urgent, runs at once if it is more urgent
\* than the one that runs, and only then: the lines of a preemption test come in
\* the order of their numbers, whatever keys interrupt the tasks (k_tsk_create,
\* k_tsk_set_prio, k_tsk_yield).  The tasks of test 37 come to share a priority,
\* and there a key passes the processor on (HAL_CA.c:310): its lines come in
\* order if no key comes.
LinesAsNumbered ==
  test \in DOMAIN Lines /\ (test = 37 => keys.typed = 0)
    => \A i \in DOMAIN out.said : out.said[i] = i

\* The lines of tests 37 and 39 come so.  Test 38 numbers its lines against strict
\* priority: 10 comes last, 12 after 13 and 15 after 16 (ae_usr_tasks.c:994-1066).
PreemptionOrder == test # 38 => LinesAsNumbered

\* Only these tests leave what the code defines: they return from a privileged
\* task, call the kernel past SVC, take the slot of the null task or give the
\* memory under their feet back.  In the others no message is missing when a
\* blocked receiver wakes, though tests 2 and 3 move one to the ready queue.
StaysDefined ==
  undefined => test \in {10, 14, 20, 21, 22, 26, 27, 33} \cup HeapTests

\* A test with a result comes to report it, and one with numbered lines to print
\* them all.  In test 2 that takes a task that keeps the null task, which runs
\* with interrupts masked, from the processor.
TestCompletes ==
  <>(/\ test \in DOMAIN Verdict => out.verdict # NULL \/ undefined
     /\ test \in DOMAIN Lines => Len(out.said) = Lines[test])
=============================================================================
