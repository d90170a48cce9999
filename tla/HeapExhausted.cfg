\* Test 25 on a heap of one kilobyte: after the first user task and what the
\* tasks allocate there is no room for the stack of the second.  The heap of the
\* board has up to a gigabyte, which allocations of tasks fill in the same way.
SPECIFICATION AppSpec
CONSTANTS
  MAX_TASKS = 5
  PRIO_NULL = 255
  NULL = NULL
  MBX_CAP = 39
  NUM_WRAP = 40
  RX_FIFO = 1
  Lapses = {"heap_exhausted"}
  Tests = {25}
  STRAY = 0
  TAIL = 129
  MAGICNUMBER = 999
CHECK_DEADLOCK FALSE
INVARIANT
  UserTaskHasStack
