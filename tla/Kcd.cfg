\* Commands of three characters; lines of six overrun the buffer of four and
\* come back into it by backspaces.  Two tasks replace each other in the table.
SPECIFICATION Spec
CONSTANTS
  MAX_CMD_SIZE = 3
  MAX_LINE = 6
  MAX_TASKS = 4
  Ids = {a}
  Chars = {percent, bs}
  PERCENT = percent
  BACKSPACE_KEY = bs
  NUL = NUL
  LOST = LOST
  NOBODY = NOBODY
  Tasks = {1, 2}
INVARIANT
  TypeOK
PROPERTY
  ImplementsCommandLine
