\* Task 2 of test 2 changes the priority of task 1, which waits for a message.
SPECIFICATION AppSpec
CONSTANTS
  MAX_TASKS = 5
  PRIO_NULL = 255
  NULL = NULL
  MBX_CAP = 39
  NUM_WRAP = 40
  RX_FIFO = 1
  Lapses = {"prio_blocked"}
  Tests = {2}
  STRAY = 0
  TAIL = 1048576
  MAGICNUMBER = 999
CHECK_DEADLOCK FALSE
INVARIANT
  ReadyIffQueued
