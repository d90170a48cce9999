SPECIFICATION CooperativeSpec
CONSTANTS
  MAX_TASKS = 4
  PRIO_NULL = 3
  NULL = NULL
  MBX_CAP = 1
  NUM_WRAP = 2
  Lapses = {}
VIEW KernelView
INVARIANT
  StrictPriority
PROPERTIES
  WaitShortens
  DueTaskRuns
