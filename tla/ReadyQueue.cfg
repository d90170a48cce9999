\* Three tasks make the smallest FIFO with a head, a middle and a tail; three
\* priorities leave room for a gap below the most urgent FIFO.
SPECIFICATION Spec
CONSTANTS
  MAX_TASKS = 3
  PRIO_NULL = 2
  NULL = NULL
INVARIANTS
  TypeOK
  QueueWellFormed
PROPERTY
  ImplementsReadyFifo
