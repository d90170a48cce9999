\* Test 33 creates tasks until every TCB is taken.
SPECIFICATION AppSpec
CONSTANTS
  MAX_TASKS = 5
  PRIO_NULL = 255
  NULL = NULL
  MBX_CAP = 39
  NUM_WRAP = 40
  RX_FIFO = 1
  Lapses = {"slots_full"}
  Tests = {33}
  STRAY = 0
  TAIL = 1048576
  MAGICNUMBER = 999
CHECK_DEADLOCK FALSE
INVARIANT
  NullTaskIntact
