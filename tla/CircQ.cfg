\* Buffers: no longer than a header, too short for some messages, and enough
\* for all.
SPECIFICATION Spec
CONSTANTS
  CSIZE = 12
  MSG_HDR = 4
  Messages <- MCMessages
  Buffers = {4, 5, 7}
INVARIANTS
  TypeOK
  RingSpellsMessages
PROPERTY
  ImplementsMsgFifo
