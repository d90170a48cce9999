\* Ten units hold five blocks of the least size, or three of different sizes
\* with free memory of every length between them.
SPECIFICATION Spec
CONSTANTS
  TAIL = 11
  Owners = {t1, MAGICNUMBER}
  Requests = {1, 2, 4}
INVARIANTS
  TypeOK
  FreeListCoalesced
  BlocksTile
  NullOnlyIfNothingFits
  ExtFragExact
PROPERTY
  ImplementsHeapSpec
