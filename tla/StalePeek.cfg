SPECIFICATION Spec
CONSTANTS
  MAX_TASKS = 4
  PRIO_NULL = 3
  NULL = NULL
  MBX_CAP = 1
  NUM_WRAP = 2
  Lapses = {}
INVARIANT
  StrictPriority
