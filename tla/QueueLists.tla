----------------------------- MODULE QueueLists -----------------------------
(***************************************************************************)
(* What a queue value means.  f gives the FIFO of every priority as a      *)
(* sequence of task ids; q represents f when its pointers spell f out.     *)
(***************************************************************************)
EXTENDS PrioQueue

\* The sequences of distinct tasks.
Fifo == UNION {{s \in [1 .. n -> Tid] : \A i, j \in 1 .. n : s[i] = s[j] => i = j}
               : n \in 0 .. MAX_TASKS}

\* The list of priority p is exactly the sequence s, linked both ways.
IsList(q, p, s) ==
  /\ q.arr[p] = IF s = << >> THEN NULL ELSE s[1]
  /\ \A i \in 1 .. Len(s) :
       /\ q.prio[s[i]] = p
       /\ q.next[s[i]] = IF i = Len(s) THEN NULL ELSE s[i + 1]
       /\ q.prev[s[i]] = IF i = 1 THEN NULL ELSE s[i - 1]

Elems(s) == {s[i] : i \in 1 .. Len(s)}

Members(f) == {t \in Tid : \E p \in Prio : t \in Elems(f[p])}

Represents(q, f) ==
  /\ \A p \in Prio : IsList(q, p, f[p])
  /\ q.size = Cardinality(Members(f))
  /\ Members(f) # {} => f[q.next_dq] # << >>
  /\ \A p \in Prio : f[p] # << >> => q.next_dq <= p

\* The FIFOs of a queue that represents some.
Fifos(q) == [p \in Prio |-> CHOOSE s \in Fifo : IsList(q, p, s)]

\* q represents some FIFOs: these.
WellFormed(q) ==
  /\ \A p \in Prio : \E s \in Fifo : IsList(q, p, s)
  /\ Represents(q, Fifos(q))
=============================================================================
