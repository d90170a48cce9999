------------------------------ MODULE TestTasks ------------------------------
(***************************************************************************)
(* The test applications of app/ as data: what each test boots (ae.c), the *)
(* calls that its tasks make (ae_priv_tasks.c, ae_usr_tasks.c) and the     *)
(* scripts of the heap tests (ae_mem.c).                                   *)
(*                                                                         *)
(* A task function is the sequence of its calls; output is left out where  *)
(* no test numbers it, and so are delays and calls that only read.  What   *)
(* Applications does for a call is its action of the same name.            *)
(***************************************************************************)
EXTENDS PrioQueue
LOCAL INSTANCE TLC

\* ae.h has one TEST; TEST 1 has a TEST_N of its own, here test 100 + TEST_N.
HeapTests == {101, 102, 103, 110, 111, 169}

LOW    == 102
LOWEST == 103
HIGH   == 100

-----------------------------------------------------------------------------
(* Boot list entries and calls.                                            *)

\* Privileged and unprivileged entries of RTX_TASK_INFO.
ktask(e, p)    == [entry |-> e, priv |-> TRUE,  prio |-> p, stack |-> 0]
utask(e, p, s) == [entry |-> e, priv |-> FALSE, prio |-> p, stack |-> s]

\* miss: how many calls to go on when the result is not the expected one; 0 is
\* the end of the function.
yield               == [op |-> "yield"]
exit                == [op |-> "exit"]
create(e, p, s)     == [op |-> "create", entry |-> e, prio |-> p, stack |-> s]
own_prio(p)         == [op |-> "prio", who |-> "own", tid |-> 0, prio |-> p, miss |-> 1]
child_prio(p)       == [op |-> "prio", who |-> "child", tid |-> 0, prio |-> p, miss |-> 1]
other_prio(p)       == [op |-> "prio", who |-> "other", tid |-> 0, prio |-> p, miss |-> 1]
prio(t, p)          == [op |-> "prio", who |-> "tid", tid |-> t, prio |-> p, miss |-> 1]
\* A function where a task id is expected: the low byte of its address.
function_prio(p)    == [op |-> "prio", who |-> "function", tid |-> 0, prio |-> p, miss |-> 1]
mem_init            == [op |-> "mem_init"]
mem_alloc(n)        == [op |-> "mem_alloc", size |-> n]
\* k-th of the pointers that the task got
mem_dealloc(k)      == [op |-> "mem_dealloc", ptr |-> k]
mbx_create(n, c)    == [op |-> "mbx_create", size |-> n, cap |-> c]
send(to, ty, d, m)  == [op |-> "send", to |-> to, type |-> ty, data |-> d, miss |-> m]
\* the next number of a count, or the tests passed so far
send_count(to, m)   == [op |-> "send_count", to |-> to, miss |-> m]
send_score(to)      == [op |-> "send_score", to |-> to]
\* send_count until RTX_ERR
fill(to)            == [op |-> "fill", to |-> to]
\* into a buffer that holds the message, or one that does not
recv                == [op |-> "recv", fits |-> TRUE]
recv_short          == [op |-> "recv", fits |-> FALSE]
spin                == [op |-> "spin"]
goto(k)             == [op |-> "goto", to |-> k]
say(n)              == [op |-> "say", line |-> n]
decode              == [op |-> "decode"]
alloc_command       == [op |-> "alloc_command"]
send_command        == [op |-> "send_command"]

\* What a test prints or compares.
pass                == [op |-> "pass"]
ask                 == [op |-> "ask"]
report              == [op |-> "report"]
set_turn            == [op |-> "set_turn"]
await_turn          == [op |-> "await_turn"]
add_score           == [op |-> "add_score"]
expect(from, d, m)  == [op |-> "expect", from |-> from, data |-> d, miss |-> m]
expect_from(t)      == [op |-> "expect_from", from |-> t, miss |-> 0]
expect_data(d)      == [op |-> "expect_data", data |-> d, miss |-> 0]
expect_count(n)     == [op |-> "expect_count", more_than |-> n, miss |-> 0]
expect_frag(n, c)   == [op |-> "expect_frag", size |-> n, count |-> c, miss |-> 0]
\* ptr[i] + d < ptr[j], and ptr[i] + d = ptr[j]
expect_apart(i,j,d) == [op |-> "expect_apart", lo |-> i, hi |-> j, dist |-> d, miss |-> 0]
expect_same(i,j,d)  == [op |-> "expect_same", lo |-> i, hi |-> j, dist |-> d, miss |-> 0]

OrEnd(call) == [call EXCEPT !.miss = 0]

\* The turns 1, 2, ..., n of a loop; all of them make the same number of calls.
Each(n, turn(_)) ==
  LET len == Len(turn(1))
  IN [k \in 1 .. n * len |-> turn((k - 1) \div len + 1)[1 + ((k - 1) % len)]]
Times(n, s) == Each(n, LAMBDA i : s)

Names(s)     == {s[i] : i \in DOMAIN s}
YieldForEver == <<yield, goto(1)>>

-----------------------------------------------------------------------------
(* The numbered tests of the labs.                                         *)

Boot0 == <<ktask("ktask1", 100), ktask("ktask2", 100), utask("utask2", 100, 0)>>
K0 == ("ktask1" :> YieldForEver)
   @@ ("ktask2" :> <<create("utask1", LOW, 512), child_prio(LOWEST), yield, goto(3)>>)
U0 == ("utask1" :> <<create("utask2", 175, 512), child_prio(200), exit>>)
   @@ ("utask2" :> YieldForEver)

Boot1 == <<utask("utask1", HIGH, 512)>>
U1(script) == "utask1" :> <<mem_init>> \o script \o <<report, exit>>

\* The command that the tester types for an identifier, and what arrives of it.
Command(c) == <<c, "G", "T", "A">>

\* A command is expected from the KCD: if another message comes the test goes on.
ReceiveCommand(c) == <<ask, recv, expect(MAX_TASKS - 1, Command(c), 2), pass>>

Boot2 == <<utask("utask1", 150, 512), utask("utask2", 175, 512),
           utask("kcd_task", 100, 512), utask("utask3", 200, 512)>>
UT1of2 ==
  <<mbx_create(36, 2), mem_alloc(16),
    send(MAX_TASKS - 1, "KCD_REG", <<"c">>, 10), pass>>
  \o ReceiveCommand("c") \o ReceiveCommand("c")
  \o <<set_turn, recv, expect_from(2), pass, add_score, report, exit>>
UT2of2 ==
  <<await_turn, mbx_create(36, 2), mem_alloc(16),
    send(MAX_TASKS - 1, "KCD_REG", <<"c">>, 20), pass,
    send(MAX_TASKS - 1, "KCD_REG", <<"d">>, 18), pass>>
  \o Each(4, LAMBDA i : ReceiveCommand(IF i % 2 = 1 THEN "c" ELSE "d"))
  \o <<OrEnd(prio(1, 200)), pass, send_score(1), exit>>
\* Seeded fault: nobody keeps the processor when every other task waits.
NoThirdTask == <<exit>>

UT3of2 == YieldForEver

Boot3 == <<utask("utask1", 150, 512), utask("utask2", 175, 512)>>
\* Rounds alternate between a buffer that is too short, when every message is
\* lost with RTX_ERR, and one that is not, when the next number must arrive.
UT1of3 ==
  <<mbx_create(511, 32), mem_alloc(16)>>
  \o Each(4, LAMBDA i :
       Times(8, <<recv_short>>) \o <<pass, OrEnd(own_prio(200))>>
       \o Each(8, LAMBDA j : <<recv, expect_data(<<16 * i - 9 + j>>)>>)
       \o <<pass, OrEnd(own_prio(200))>>)
  \o <<report, exit>>
UT2of3 ==
  <<OrEnd(prio(1, 200)), mem_alloc(16), fill(1), expect_count(8), pass>>
  \o Times(8, <<OrEnd(prio(1, 150))>> \o Times(8, <<send_count(1, 0)>>) \o <<pass>>)
  \o <<exit>>

-----------------------------------------------------------------------------
(* The additional tests: short tests 10 .. 15.                             *)

\* The prio of the null task and three out-of-range values first.
Boot10 == <<ktask("ktask1", 100), utask("ktask1", 200, 1911)>>
K10 == "ktask1" :> <<prio(0, 100), own_prio(0), own_prio(255), own_prio(100),
                     own_prio(200), other_prio(1), yield>>
U10 == "utask1" :> <<own_prio(101), exit>>

Boot11 == <<ktask("ktask1", 100)>>
K11 == "ktask1" :> <<create("utask1", 90, 512), yield, yield, goto(3)>>
U11 == ("utask1" :> <<create("utask2", 80, 512), yield, exit>>)
    @@ ("utask2" :> <<yield, exit>>)

Boot12 == <<ktask("ktask1", 100)>>
K12 == "ktask1" :> <<exit>>

Boot13 == <<ktask("ktask1", 100)>>
K13 == "ktask1" :> YieldForEver

FiveKernelTasks == <<"ktask1", "ktask2", "ktask3", "ktask4", "ktask5">>
FiveUserTasks   == <<"utask1", "utask2", "utask3", "utask4", "utask5">>

\* The kernel tasks return, which no privileged task can.
Boot14 == [i \in 1 .. 5 |-> ktask(FiveKernelTasks[i], 100)]
          \o [i \in 1 .. 5 |-> utask(FiveUserTasks[i], 96 - i, 512)]
K14 == [e \in Names(FiveKernelTasks) |-> <<yield>>]
U14 == [e \in Names(FiveUserTasks) |-> <<yield, exit>>]

Boot15 == <<ktask("ktask1", 100), utask("utask1", 100, 512)>>
K15 == "ktask1" :> YieldForEver
U15 == "utask1" :> <<yield, exit>>

-----------------------------------------------------------------------------
(* Multi-task tests 20 .. 27.                                              *)

Boot20 == <<ktask("ktask1", 50), utask("utask1", 50, 513)>>
TenBlocks == Times(10, <<mem_alloc(100), yield>>) \o Each(10, LAMBDA k : <<mem_dealloc(k)>>)
K20 == "ktask1" :> TenBlocks \o <<prio(1, 120)>>
U20 == "utask1" :> TenBlocks \o <<exit>>

\* The i-th task goes from priority i down in steps of five while it can.
Boot21 == [i \in 1 .. 5 |-> ktask(FiveKernelTasks[i], i)]
Descend(i) == Each((254 - i) \div 5, LAMBDA k : <<prio(i, i + 5 * k), yield>>)
K21 == [e \in Names(FiveKernelTasks) |->
          Descend(CHOOSE i \in 1 .. 5 : FiveKernelTasks[i] = e)]

SevenUserTasks == FiveUserTasks \o <<"utask6", "utask7">>

Boot22 == <<ktask("ktask1", 10)>>
K22 == "ktask1" :> Each(7, LAMBDA i : <<create(SevenUserTasks[i], 50, 512)>>)
                   \o <<function_prio(100), yield>>
U22 == [e \in Names(SevenUserTasks) |-> <<exit>>]

Boot23 == <<ktask("ktask1", 10)>>
K23 == "ktask1" :> Each(5, LAMBDA i : <<create(FiveUserTasks[i], 50, 2^(i - 1))>>) \o <<spin>>
U23 == [e \in Names(FiveUserTasks) |-> <<exit>>]

Boot24 == <<ktask("ktask1", 50), ktask("ktask2", 50), utask("utask1", 100, 512)>>
K24 == ("ktask1" :> YieldForEver) @@ ("ktask2" :> YieldForEver)
U24 == "utask1" :> <<spin, exit>>

Boot25 == <<ktask("ktask1", 50)>>
K25 == "ktask1" :> <<mem_alloc(10), create("utask1", 40, 512), yield, mem_dealloc(1),
                     create("utask3", 30, 512), yield, spin>>
U25 == ("utask1" :> <<mem_alloc(100), create("utask2", 30, 512), yield,
                      mem_dealloc(1), function_prio(100), yield, goto(4)>>)
    @@ ("utask2" :> <<mem_alloc(1000), function_prio(100), yield, spin>>)
    @@ ("utask3" :> <<spin>>)

\* "Explodes": user tasks that call functions of the kernel.
Boot26 == Times(5, <<utask("utask1", 50, 549), utask("utask2", 60, 1639)>>)
K26 == ("utask1" :> <<exit>>)
    @@ ("utask2" :> <<create("utask1", 254, 4369), yield, goto(2)>>)

\* One in every slot, that of the KCD included.
Boot27 == [i \in 1 .. MAX_TASKS - 1 |-> utask("ktask1", 200, 1639 + 7 * (i - 1))]
K27 == ("ktask1" :> YieldForEver) @@ ("ktask2" :> << >>)

-----------------------------------------------------------------------------
(* Error tests 30 .. 36, and the order of preemption, 37 .. 39.            *)

Boot30 == <<ktask("ktask1", 100), utask("utask1", 50, 512)>>
K30 == "ktask1" :> YieldForEver
U30 == "utask1" :> <<function_prio(10), goto(1)>>

Boot31 == <<ktask("ktask1", 0)>>
K31 == [e \in {"ktask1", "ktask2", "ktask3"} |-> YieldForEver]

\* Bound: the code creates 1000 tasks.
Boot33 == <<ktask("ktask1", 50)>>
K33 == "ktask1" :> Times(MAX_TASKS + 5, <<create("utask1", 60, 65527)>>)
                   \o <<yield, goto(MAX_TASKS + 6)>>
U33 == "utask1" :> <<spin>>

Boot34 == <<ktask("ktask1", 50)>>
K34 == "ktask1" :> <<create("NULL", 30, 512), yield, goto(2)>>
U34 == "utask1" :> <<spin>>

Boot35 == <<ktask("ktask1", 100), utask("utask1", 50, 512)>>
K35 == "ktask1" :> <<create("NULL", 30, 512), yield, goto(2)>>
U35 == "utask1" :> <<function_prio(10), goto(1)>>

\* The first stack that utask1 asks for is too small.
Boot36 == <<ktask("ktask1", 100)>>
K36 == "ktask1" :> Times(3, <<create("utask1", 101, 512)>>)
                   \o <<prio(1, 101), prio(1, 102), yield, goto(6)>>
U36 == ("utask1" :> Each(3, LAMBDA i : <<create("utask2", 102, 290 * i)>>) \o <<exit>>)
    @@ ("utask2" :> <<exit>>)

Boot37 == <<utask("utask1", 100, 1346)>>
U37 == ("utask1" :> <<create("utask2", 101, 564), say(1), prio(2, 99), say(3), prio(2, 98),
                      say(4), prio(1, 99), say(6), exit>>)
    @@ ("utask2" :> <<say(2), prio(1, 98), say(5), exit>>)

\* Every task creates one that is more urgent.
Boot38 == <<ktask("ktask1", 100)>>
K38 == "ktask1" :> <<say(1), create("utask1", 99, 564), say(17), yield, say(18), exit>>
U38 == ("utask1" :> <<say(2), create("utask2", 98, 564), say(15), exit>>)
    @@ ("utask2" :> <<say(3), create("utask3", 97, 564), say(14), yield, say(16), exit>>)
    @@ ("utask3" :> <<say(4), create("utask4", 96, 564), say(12), exit>>)
    @@ ("utask4" :> <<say(5), create("utask5", 95, 564), say(11), yield, say(13), exit>>)
    @@ ("utask5" :> <<say(6), create("utask6", 94, 564), say(9), exit>>)
    @@ ("utask6" :> <<say(7), say(8), yield, own_prio(102), say(10), exit>>)

\* Every task creates one that is less urgent.
Boot39 == <<ktask("ktask1", 100)>>
K39 == "ktask1" :> <<create("utask1", 101, 564), say(1), yield, say(2), exit>>
U39 == ("utask1" :> <<create("utask2", 102, 564), say(3), say(4), exit>>)
    @@ ("utask2" :> <<create("utask3", 103, 564), say(5), say(6), yield, say(7), exit>>)
    @@ ("utask3" :> <<create("utask4", 104, 564), say(8), say(9), exit>>)
    @@ ("utask4" :> <<create("utask5", 105, 564), say(10), say(11), yield, say(12), exit>>)
    @@ ("utask5" :> <<create("utask6", 106, 564), say(13), say(14), exit>>)
    @@ ("utask6" :> <<say(15), say(16), yield, say(17), exit>>)

-----------------------------------------------------------------------------
(* The scripts of ae_mem.c.  A check that fails ends the script; the blocks *)
(* it would give back first are left allocated.                            *)

\* TEST_N 1: the middle block first, then those next to the gap in turn.
Centre(i) == 51 + (IF i % 2 = 1 THEN i \div 2 ELSE -(i \div 2))
large_coalesce ==
  Times(100, <<mem_alloc(512)>>)
  \o Each(100, LAMBDA i : <<mem_dealloc(Centre(i)), expect_frag(4, 1)>>)
  \o <<pass>>

\* TEST_N 2: sizes 4, 8, 16, ...; every second block is freed and five blocks of
\* 4, 16, 64, ... come into the gaps.
increasing_alloc_dealloc ==
  Each(10, LAMBDA i : <<mem_alloc(2^(i + 1))>>)
  \o Each(5, LAMBDA i : <<mem_dealloc(2 * i - 1)>>)
  \o Each(5, LAMBDA i : <<mem_alloc(4^i)>>)
  \o <<pass>>

\* TEST_N 3: 64 sets of 50 blocks, none of them freed; the last block of every
\* set is expected where that of the first set is.
block_size_rounding ==
  Each(64, LAMBDA i : Each(50, LAMBDA j : <<mem_alloc(64 + j)>>) \o <<expect_same(50, 50 * i, 0)>>)
  \o <<pass>>

\* TEST_N 10; a header is eight bytes.
coalescing_free_regions ==
  Times(9, <<mem_alloc(32)>>)
  \o <<expect_frag(41, 0), expect_frag(121, 0)>>
  \o Each(4, LAMBDA i : <<mem_dealloc(2 * i)>>)
  \o <<expect_frag(41, 4), expect_frag(121, 4), mem_dealloc(3), mem_dealloc(7),
       expect_frag(41, 0), expect_frag(121, 2),
       mem_dealloc(1), mem_dealloc(5), mem_dealloc(9), expect_frag(361, 0), pass>>

\* TEST_N 11: blocks of growing size, then of shrinking size in the same place.
heap_leakage ==
  <<mem_alloc(255)>>
  \o Each(9, LAMBDA i : <<mem_alloc(256 * (i + 1) - 1), expect_apart(i, i + 1, 256 * i)>>)
  \o Each(10, LAMBDA i : <<mem_dealloc(i)>>)
  \o <<mem_alloc(2559)>>
  \o Each(9, LAMBDA i : <<mem_alloc(256 * (10 - i) - 1),
                          expect_apart(10 + i, 11 + i, 256 * (11 - i))>>)
  \o <<expect_same(1, 11, 0), expect_same(10, 20, 2304)>>
  \o Each(10, LAMBDA i : <<mem_dealloc(10 + i)>>)
  \o <<pass>>

\* TEST_N 69.
testing_something ==
  Times(4, <<mem_alloc(1)>>) \o <<mem_dealloc(3), mem_dealloc(1), mem_dealloc(2), pass>>

-----------------------------------------------------------------------------
(* All tests.                                                              *)

\* kcd_task: what decode does with a message is in CommandLine.
KcdTask == "kcd_task" :> <<mbx_create(512, 39), recv, decode, alloc_command, send_command,
                           mem_dealloc(1), goto(2)>>

Boot ==
  (0 :> Boot0) @@ (2 :> Boot2) @@ (3 :> Boot3) @@ [n \in HeapTests |-> Boot1]
  @@ (10 :> Boot10) @@ (11 :> Boot11) @@ (12 :> Boot12) @@ (13 :> Boot13) @@ (14 :> Boot14)
  @@ (15 :> Boot15) @@ (20 :> Boot20) @@ (21 :> Boot21) @@ (22 :> Boot22) @@ (23 :> Boot23)
  @@ (24 :> Boot24) @@ (25 :> Boot25) @@ (26 :> Boot26) @@ (27 :> Boot27) @@ (30 :> Boot30)
  @@ (31 :> Boot31) @@ (33 :> Boot33) @@ (34 :> Boot34) @@ (35 :> Boot35) @@ (36 :> Boot36)
  @@ (37 :> Boot37) @@ (38 :> Boot38) @@ (39 :> Boot39)

\* The task functions of every test.
Code ==
  (0 :> (K0 @@ U0))
  @@ (101 :> U1(large_coalesce)) @@ (102 :> U1(increasing_alloc_dealloc))
  @@ (103 :> U1(block_size_rounding)) @@ (110 :> U1(coalescing_free_regions))
  @@ (111 :> U1(heap_leakage)) @@ (169 :> U1(testing_something))
  @@ (2 :> (("utask1" :> UT1of2) @@ ("utask2" :> UT2of2) @@ ("utask3" :> UT3of2) @@ KcdTask))
  @@ (3 :> (("utask1" :> UT1of3) @@ ("utask2" :> UT2of3)))
  @@ (10 :> (K10 @@ U10)) @@ (11 :> (K11 @@ U11)) @@ (12 :> K12) @@ (13 :> K13)
  @@ (14 :> (K14 @@ U14)) @@ (15 :> (K15 @@ U15)) @@ (20 :> (K20 @@ U20)) @@ (21 :> K21)
  @@ (22 :> (K22 @@ U22)) @@ (23 :> (K23 @@ U23)) @@ (24 :> (K24 @@ U24)) @@ (25 :> (K25 @@ U25))
  @@ (26 :> K26) @@ (27 :> K27) @@ (30 :> (K30 @@ U30)) @@ (31 :> K31) @@ (33 :> (K33 @@ U33))
  @@ (34 :> (K34 @@ U34)) @@ (35 :> (K35 @@ U35)) @@ (36 :> (K36 @@ U36)) @@ (37 :> U37)
  @@ (38 :> (K38 @@ U38)) @@ (39 :> (K39 @@ U39))
-----------------------------------------------------------------------------
(* What every test program keeps to.                                       *)

\* Calls that go on elsewhere when their result is not the expected one.
Branches ==
  {"prio", "send", "send_count", "expect", "expect_from", "expect_data", "expect_count",
   "expect_frag", "expect_apart", "expect_same"}

\* The k-th call of a function c of test n: a size is a size, what it creates is
\* a function of the test, and it goes on in c or at its end.
WellFormedCall(n, c, k) ==
  /\ c[k].op \in Branches => c[k].miss \in 0 .. Len(c) + 1 - k
  /\ c[k].op = "goto" => c[k].to \in 1 .. Len(c) + 1
  /\ c[k].op = "create" => c[k].stack \in Nat /\ c[k].entry \in DOMAIN Code[n] \cup {"NULL"}
  /\ c[k].op \in {"mem_alloc", "mbx_create"} => c[k].size \in Nat
  /\ c[k].op = "mem_init" => n \in HeapTests

WellFormedTest(n) ==
  /\ Len(Boot[n]) \in Nat
  /\ \A k \in 1 .. Len(Boot[n]) :
       /\ Boot[n][k].entry \in DOMAIN Code[n]
       /\ Boot[n][k].priv \in BOOLEAN /\ Boot[n][k].stack \in Nat
  /\ \A e \in DOMAIN Code[n] :
       LET c == Code[n][e]
       IN /\ Len(c) \in Nat /\ DOMAIN c = 1 .. Len(c)
          /\ \A k \in 1 .. Len(c) : WellFormedCall(n, c, k)

ASSUME ProgramsAssumption == \A n \in DOMAIN Boot : WellFormedTest(n)
=============================================================================
