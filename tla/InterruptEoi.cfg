\* The KCD and one task: two keys in the UART are enough for a switch in the
\* handler's loop.
SPECIFICATION IrqSpec
CONSTANTS
  MAX_TASKS = 3
  PRIO_NULL = 3
  NULL = NULL
  MBX_CAP = 2
  NUM_WRAP = 3
  RX_FIFO = 2
  Lapses = {}
PROPERTY
  EndInterruptBeforeSwitch
