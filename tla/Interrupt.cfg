\* The KCD and two tasks at two priorities interrupt, preempt and park one
\* another in every order.  The UART holds one key at a time, but the next may
\* arrive in the middle of the handler's loop.
SPECIFICATION IrqSpec
CONSTANTS
  MAX_TASKS = 4
  PRIO_NULL = 3
  NULL = NULL
  MBX_CAP = 1
  NUM_WRAP = 2
  RX_FIFO = 1
  Lapses = {}
VIEW InterruptView
INVARIANTS
  IrqTypeOK
  QueueWellFormed
  ReadyIffQueued
  CurrentRuns
  ActiveCountExact
  NoLostWakeup
  ResumeFindsMessage
  HeapBlocksOwned
  HandlerCanGoOn
PROPERTIES
  SwitchToMostUrgent
  NoOvertaking
