------------------------------- MODULE HeapSpec -------------------------------
(***************************************************************************)
(* What the heap promises: blocks that do not overlap, each at the lowest  *)
(* address where it fits, refused only when it fits nowhere, and given     *)
(* back by its owner alone.  The free memory is what no block takes: no    *)
(* earlier split of it can be told.                                        *)
(***************************************************************************)
EXTENDS Integers, FiniteSets, FiniteSetsExt

CONSTANTS
  TAIL,      \* the first unit above the heap; the lowest of the heap is 1
  Owners,    \* who may own a block
  Requests   \* sizes asked for, in units, without the header

VARIABLE blocks    \* the allocated blocks: [at, size, owner]

UnitsOf(b) == b.at .. b.at + b.size - 1

Free == (1 .. TAIL - 1) \ UNION {UnitsOf(b) : b \in blocks}

\* The addresses at which a block of n units finds all of them free.
Fits(n) == {a \in Free : a .. a + n - 1 \subseteq Free}

Init == blocks = {}

\* A block has one unit more than was asked for, its header.
Alloc(r, o) ==
  /\ Fits(r + 1) # {}
  /\ blocks' = blocks \cup {[at |-> Min(Fits(r + 1)), size |-> r + 1, owner |-> o]}

Dealloc(b, o) ==
  /\ b.owner = o
  /\ blocks' = blocks \ {b}

Next ==
  \/ \E r \in Requests, o \in Owners : Alloc(r, o)
  \/ \E b \in blocks, o \in Owners : Dealloc(b, o)

Spec == Init /\ [][Next]_blocks

\* The stretches of free memory between blocks.
Gaps ==
  {g \in Free \X Free :
     /\ g[1] <= g[2]
     /\ g[1] .. g[2] \subseteq Free
     /\ g[1] - 1 \notin Free
     /\ g[2] + 1 \notin Free}
=============================================================================
