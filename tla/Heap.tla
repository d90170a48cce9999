--------------------------------- MODULE Heap ---------------------------------
(***************************************************************************)
(* The heap: kernel/k_mem.c.  Every size and address is a multiple of      *)
(* eight bytes; they are counted here in units of eight, and a header is   *)
(* one unit.  The heap proper is 1 .. TAIL - 1, between the two sentinels. *)
(*                                                                         *)
(* The free list is the sequence of its nodes in list order; the sentinels *)
(* are what stands before its first and after its last node.  The header   *)
(* of an allocated block carries the allocated bit, the size, and the task *)
(* id of its owner, MAGICNUMBER for the stacks and mailboxes of the kernel.*)
(***************************************************************************)
EXTENDS Integers, Sequences, FiniteSets, FiniteSetsExt

CONSTANTS
  TAIL,      \* TAIL_SENTINEL
  Owners,    \* task ids, and MAGICNUMBER
  Requests   \* the sizes asked for, rounded up to units

ASSUME TailAssumption == TAIL \in Nat /\ TAIL > 1
\* No request is so near to 2^32 that ALIGN(size) + 8 wraps around.
ASSUME RequestsAssumption == Requests \subseteq Nat \ {0}

VARIABLES
  free,      \* the free list: [at, size]
  taken      \* the headers with the allocated bit: [at, size, owner]

vars == <<free, taken>>

Node  == [at : 1 .. TAIL - 1, size : 1 .. TAIL - 1]
Block == [at : 1 .. TAIL - 1, size : 1 .. TAIL - 1, owner : Owners]

\* The first byte after a node or a block.
EndOf(b) == b.at + b.size

\* k_mem_init.
Init ==
  /\ free = << [at |-> 1, size |-> TAIL - 1] >>
  /\ taken = {}

-----------------------------------------------------------------------------
\* Seeded fault: the loop goes on to the last node that is large enough.
LastFit(n) == Max({k \in DOMAIN free : free[k].size >= n})

\* The loop of k_mem_alloc stops at the first node that is large enough.
FirstFit(n) == Min({k \in DOMAIN free : free[k].size >= n})

\* Seeded fault: what is left of a node keeps the size of the whole.
SplitKeepsSize(node, n) == [at |-> node.at + n, size |-> node.size]

\* What is left of a node when n units have been cut from its front.
Split(node, n) == [at |-> node.at + n, size |-> node.size - n]

\* Seeded fault: a node of just the size leaves an empty one behind.
MayLeaveNothing(k, n) == free[k].size >= n

\* A node that is larger is split; one of just the size leaves the list.
IsSplit(k, n) == free[k].size > n

\* Seeded fault: the header is counted twice.
WithTwoHeaders(r) == r + 2

WithHeader(r) == r + 1

\* k_mem_alloc finds a node for the request; it returns NULL when none is large
\* enough.
HasNode(r) == \E k \in DOMAIN free : free[k].size >= WithHeader(r)

\* The block that it cuts.
BlockFor(r, o) == [at |-> free[FirstFit(WithHeader(r))].at, size |-> WithHeader(r), owner |-> o]

\* k_mem_alloc for owner o.
Alloc(r, o) ==
  LET n == WithHeader(r)
      k == FirstFit(n)
  IN /\ HasNode(r)
     /\ free' = IF IsSplit(k, n)
                THEN [free EXCEPT ![k] = Split(free[k], n)]
                ELSE SubSeq(free, 1, k - 1) \o SubSeq(free, k + 1, Len(free))
     /\ taken' = taken \cup {BlockFor(r, o)}

\* The place in free list f of the first node above b: right_node, with
\* left_node before it.
RightOf(f, b) == Min({k \in DOMAIN f : f[k].at >= EndOf(b)} \cup {Len(f) + 1})

\* Seeded fault: a free block to the right is never joined.
NeverTouches(f, b, k) == FALSE

PREV_TOUCHING(f, b, k) == k > 1 /\ EndOf(f[k - 1]) = b.at

NEXT_TOUCHING(f, b, k) == k <= Len(f) /\ EndOf(b) = f[k].at

\* Free list f with b in it.  The four cases of k_mem_dealloc are one: the freed
\* block, joined with the free node on either side that it touches.
Joined(f, b) ==
  LET k     == RightOf(f, b)
      prev  == PREV_TOUCHING(f, b, k)
      next  == NEXT_TOUCHING(f, b, k)
      first == IF prev THEN f[k - 1].at ELSE b.at
      end   == IF next THEN EndOf(f[k]) ELSE EndOf(b)
  IN SubSeq(f, 1, IF prev THEN k - 2 ELSE k - 1)
     \o << [at |-> first, size |-> end - first] >>
     \o SubSeq(f, IF next THEN k + 1 ELSE k, Len(f))

OwnedBy(b, o) == b.owner = o

\* k_mem_dealloc of a block by o, the current task or, with MAGICNUMBER, the
\* kernel.
Dealloc(b, o) ==
  /\ OwnedBy(b, o)
  /\ free' = Joined(free, b)
  /\ taken' = taken \ {b}

Next ==
  \/ \E r \in Requests, o \in Owners : Alloc(r, o)
  \/ \E b \in taken, o \in Owners : Dealloc(b, o)

Spec == Init /\ [][Next]_vars

\* Seeded fault: nodes of just the size asked for are counted as too small.
CountsExactFits(n) == Cardinality({k \in DOMAIN free : free[k].size <= n})

\* The free blocks that are smaller than n, header included.
k_mem_count_extfrag(n) == Cardinality({k \in DOMAIN free : free[k].size < n})

-----------------------------------------------------------------------------
\* Nodes and blocks lie between the sentinels and none is empty: a split or an
\* exact fit of k_mem_alloc leaves no node without room.
TypeOK == free \in Seq(Node) /\ taken \subseteq Block

\* The free list is in address order and no two of its nodes touch: whatever
\* the order of the calls, k_mem_dealloc has joined all that could be joined.
FreeListCoalesced ==
  \A k \in 1 .. Len(free) - 1 : EndOf(free[k]) < free[k + 1].at

\* Nodes and blocks tile the heap: they do not overlap and nothing is lost.
BlocksTile ==
  LET all == {[at |-> b.at, size |-> b.size] : b \in taken} \cup {free[k] : k \in DOMAIN free}
  IN /\ \A a, b \in all : a # b => EndOf(a) <= b.at \/ EndOf(b) <= a.at
     /\ \A a \in all : EndOf(a) = TAIL \/ \E b \in all : b.at = EndOf(a)
     /\ \E a \in all : a.at = 1
     /\ Cardinality(all) = Cardinality(taken) + Len(free)

\* The free list implements the heap that knows only its allocated blocks:
\* where a block goes does not depend on how the free memory came about.
Abstract == INSTANCE HeapSpec WITH blocks <- taken

ImplementsHeapSpec == Abstract!Spec

\* k_mem_alloc returns NULL only if no stretch of free memory is long enough.
NullOnlyIfNothingFits ==
  \A r \in Requests :
     Abstract!Fits(r + 1) # {} => HasNode(r)

\* k_mem_count_extfrag counts the stretches of free memory below a size.
ExtFragExact ==
  \A n \in 1 .. TAIL :
     k_mem_count_extfrag(n) = Cardinality({g \in Abstract!Gaps : g[2] - g[1] + 1 < n})
=============================================================================
