\* Twelve TCBs: test 27 fills every slot, test 33 runs out of them, and no other
\* test needs more.  Priorities, stacks and mailboxes are those of the code.
SPECIFICATION AppSpec
CONSTANTS
  MAX_TASKS = 12
  PRIO_NULL = 255
  NULL = NULL
  MBX_CAP = 39
  NUM_WRAP = 40
  RX_FIFO = 2
  Lapses = {"prio_blocked", "slots_full"}
  Tests = {0, 2, 3, 101, 102, 103, 110, 111, 169, 10, 11, 12, 13, 14, 15, 20, 21,
           22, 23, 24, 25, 26, 27, 30, 31, 33, 34, 35, 36, 37, 38, 39}
  STRAY = 1
  TAIL = 1048576
  MAGICNUMBER = 999
\* A test ends where its tasks only spin, or where it leaves the code.
CHECK_DEADLOCK FALSE
INVARIANTS
  AppTypeOK
  KernelBlocksAccounted
  KeysReachDecoder
  VerdictsCorrect
  PreemptionOrder
  StaysDefined
PROPERTY
  TestCompletes
