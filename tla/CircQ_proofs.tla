----------------------------- MODULE CircQ_proofs -----------------------------
(***************************************************************************)
(* Proofs about the ring of CircQ, for every size of ring and of header    *)
(* and every set of messages.  The inductive invariant is TypeOK with      *)
(* RingSpellsMessages: the offsets of the messages are kept as a witness,  *)
(* so nothing is said by recursion over the messages.                      *)
(***************************************************************************)
EXTENDS CircQ, SequenceTheorems, TLAPS

\* n bytes on from p, for a message that fits: at most one wrap.
LEMMA AheadIs ==
  ASSUME NEW p \in Off, NEW n \in 0 .. CSIZE
  PROVE  /\ Ahead(p, n) \in Off
         /\ Ahead(p, n) = IF p + n < CSIZE THEN p + n ELSE p + n - CSIZE
<1>1. CSIZE \in Nat /\ CSIZE > 0
  BY SizesAssumption
<1> QED
  BY <1>1 DEF Ahead, Off

\* The distance from p to x, read around the ring.
LEMMA DistanceIs ==
  ASSUME NEW p \in Off, NEW x \in Off
  PROVE  /\ Distance(p, x) \in Off
         /\ Distance(p, x) = IF x >= p THEN x - p ELSE x - p + CSIZE
<1>1. CSIZE \in Nat /\ CSIZE > 0
  BY SizesAssumption
<1> QED
  BY <1>1 DEF Distance, Off

\* A message that waits: its length is between a header's and the ring's, and
\* its first four bytes say it.
LEMMA MessageFacts ==
  ASSUME NEW f \in Seq(Messages), NEW i \in 1 .. Len(f)
  PROVE  /\ f[i] \in Messages
         /\ f[i] \in Seq(Byte)
         /\ Len(f[i]) \in Nat
         /\ Len(f[i]) > MSG_HDR
         /\ Len(f[i]) >= 5
         /\ Word(f[i]) = Len(f[i])
         /\ \A k \in 1 .. Len(f[i]) : f[i][k] \in Byte
<1>1. f[i] \in Messages
  OBVIOUS
<1>2. f[i] \in Seq(Byte) /\ Len(f[i]) > MSG_HDR /\ Word(f[i]) = Len(f[i])
  BY <1>1, MessagesAssumption
<1>3. Len(f[i]) \in Nat
  BY <1>2
<1>4. Len(f[i]) >= 5
  BY <1>2, <1>3, SizesAssumption
<1>5. \A k \in 1 .. Len(f[i]) : f[i][k] \in Byte
  BY <1>2
<1> QED
  BY <1>1, <1>2, <1>3, <1>4, <1>5

\* What waits takes the bytes between head and tail: cq_count_space counts the
\* others, a full ring told from an empty one by num_msgs.
LEMMA SpaceIs ==
  ASSUME NEW q \in CIRC_Q, NEW f \in Seq(Messages),
         NEW off \in [1 .. Len(f) + 1 -> 0 .. CSIZE],
         LaidOut(q, f, off), q.num_msgs = Len(f)
  PROVE  cq_count_space(q) = CSIZE - off[Len(f) + 1]
<1> DEFINE u == off[Len(f) + 1]
<1>1. Len(f) \in Nat /\ u \in 0 .. CSIZE /\ CSIZE \in Nat
  BY SizesAssumption
<1>2. q.head \in Off /\ q.tail = Ahead(q.head, u)
  BY DEF CIRC_Q, LaidOut
<1>3. q.tail = IF q.head + u < CSIZE THEN q.head + u ELSE q.head + u - CSIZE
  BY <1>1, <1>2, AheadIs
<1>4. Len(f) = 0 => u = 0
  BY <1>1 DEF LaidOut
<1>5. ASSUME Len(f) # 0
      PROVE  u > 0
  <2>1. 1 \in 1 .. Len(f) /\ 2 \in 1 .. Len(f) + 1 /\ Len(f) + 1 \in 1 .. Len(f) + 1
    BY <1>1, <1>5
  <2>2. off[1] = 0 /\ off[1 + 1] = off[1] + Len(f[1]) /\ Len(f[1]) \in Nat /\ Len(f[1]) >= 5
    BY <2>1, MessageFacts DEF LaidOut
  <2>3. off[2] <= u
    BY <2>1, <1>1 DEF LaidOut
  <2> QED
    BY <2>2, <2>3, <1>1
<1> HIDE DEF u
<1>6. q.head \in 0 .. CSIZE - 1
  BY <1>2 DEF Off
<1> SUFFICES cq_count_space(q) = CSIZE - u
  BY DEF u
<1> QED
  BY <1>1, <1>3, <1>4, <1>5, <1>6 DEF cq_count_space

-----------------------------------------------------------------------------
(* Offsets around the ring.                                                *)

\* Going on from where one is: u bytes and then n more.
LEMMA AheadAhead ==
  ASSUME NEW h \in Off, NEW u \in 0 .. CSIZE, NEW n \in 0 .. CSIZE, u + n <= CSIZE
  PROVE  Ahead(Ahead(h, u), n) = Ahead(h, u + n)
<1>1. CSIZE \in Nat /\ h \in 0 .. CSIZE - 1
  BY SizesAssumption DEF Off
<1>2. u + n \in 0 .. CSIZE
  BY <1>1
<1>3. /\ Ahead(h, u) \in Off
      /\ Ahead(h, u) = IF h + u < CSIZE THEN h + u ELSE h + u - CSIZE
  BY AheadIs
<1>4. Ahead(Ahead(h, u), n) = IF Ahead(h, u) + n < CSIZE THEN Ahead(h, u) + n
                              ELSE Ahead(h, u) + n - CSIZE
  BY <1>3, AheadIs
<1>5. Ahead(h, u + n) = IF h + (u + n) < CSIZE THEN h + (u + n) ELSE h + (u + n) - CSIZE
  BY <1>2, AheadIs
<1> QED
  BY <1>1, <1>3, <1>4, <1>5

\* From u bytes after h, the offset u + j bytes after h is j bytes away ...
LEMMA DistanceOn ==
  ASSUME NEW h \in Off, NEW u \in 0 .. CSIZE, NEW j \in 0 .. CSIZE - 1, u + j < CSIZE
  PROVE  Distance(Ahead(h, u), Ahead(h, u + j)) = j
<1>1. CSIZE \in Nat /\ h \in 0 .. CSIZE - 1 /\ u + j \in 0 .. CSIZE
  BY SizesAssumption DEF Off
<1>2. /\ Ahead(h, u) \in Off
      /\ Ahead(h, u) = IF h + u < CSIZE THEN h + u ELSE h + u - CSIZE
  BY AheadIs
<1>3. /\ Ahead(h, u + j) \in Off
      /\ Ahead(h, u + j) = IF h + (u + j) < CSIZE THEN h + (u + j) ELSE h + (u + j) - CSIZE
  BY <1>1, AheadIs
<1>4. Distance(Ahead(h, u), Ahead(h, u + j))
        = IF Ahead(h, u + j) >= Ahead(h, u) THEN Ahead(h, u + j) - Ahead(h, u)
          ELSE Ahead(h, u + j) - Ahead(h, u) + CSIZE
  BY <1>2, <1>3, DistanceIs
<1> QED
  BY <1>1, <1>2, <1>3, <1>4

\* ... and one d < u bytes after h is all the free bytes away.
LEMMA DistanceBack ==
  ASSUME NEW h \in Off, NEW u \in 0 .. CSIZE, NEW d \in 0 .. CSIZE, d < u
  PROVE  /\ Distance(Ahead(h, u), Ahead(h, d)) \in Nat
         /\ Distance(Ahead(h, u), Ahead(h, d)) >= CSIZE - u
<1>1. CSIZE \in Nat /\ h \in 0 .. CSIZE - 1
  BY SizesAssumption DEF Off
<1>2. /\ Ahead(h, u) \in Off
      /\ Ahead(h, u) = IF h + u < CSIZE THEN h + u ELSE h + u - CSIZE
  BY AheadIs
<1>3. /\ Ahead(h, d) \in Off
      /\ Ahead(h, d) = IF h + d < CSIZE THEN h + d ELSE h + d - CSIZE
  BY AheadIs
<1>4. Distance(Ahead(h, u), Ahead(h, d))
        = IF Ahead(h, d) >= Ahead(h, u) THEN Ahead(h, d) - Ahead(h, u)
          ELSE Ahead(h, d) - Ahead(h, u) + CSIZE
  BY <1>2, <1>3, DistanceIs
<1> QED
  BY <1>1, <1>2, <1>3, <1>4 DEF Off

-----------------------------------------------------------------------------
(* The two operations.                                                     *)

\* Every byte of every message that waits lies before the last offset.
LEMMA BytesBeforeEnd ==
  ASSUME NEW q, NEW f \in Seq(Messages),
         NEW off \in [1 .. Len(f) + 1 -> 0 .. CSIZE], LaidOut(q, f, off),
         NEW i \in 1 .. Len(f), NEW k \in 1 .. Len(f[i])
  PROVE  /\ off[i] + k - 1 \in 0 .. CSIZE
         /\ off[i] + k - 1 < off[Len(f) + 1]
<1>1. CSIZE \in Nat /\ Len(f) \in Nat /\ Len(f[i]) \in Nat
  BY SizesAssumption, MessageFacts
<1>2. i + 1 \in 1 .. Len(f) + 1 /\ Len(f) + 1 \in 1 .. Len(f) + 1 /\ i \in 1 .. Len(f) + 1
  BY <1>1
<1>3. off[i + 1] = off[i] + Len(f[i]) /\ off[i + 1] <= off[Len(f) + 1]
  BY <1>1, <1>2, SMTT(30) DEF LaidOut
<1>4. off[i] \in 0 .. CSIZE /\ off[i + 1] \in 0 .. CSIZE /\ off[Len(f) + 1] \in 0 .. CSIZE
  BY <1>2
<1> QED
  BY <1>1, <1>3, <1>4, SMTT(30)

\* Where the messages lie once m has been written after them.
WrittenOff(f, off, m) ==
  [i \in 1 .. Len(f) + 2 |->
     IF i <= Len(f) + 1 THEN off[i] ELSE off[Len(f) + 1] + Len(m)]

\* Where they lie once the first has been read.
ReadOff(f, off) == [i \in 1 .. Len(f) |-> off[i + 1] - Len(f[1])]

\* cq_write puts a message that fits behind the others and leaves them whole.
LEMMA WriteLaysOut ==
  ASSUME NEW q \in CIRC_Q, NEW f \in Seq(Messages), NEW m \in Messages,
         NEW off \in [1 .. Len(f) + 1 -> 0 .. CSIZE],
         LaidOut(q, f, off), off[Len(f) + 1] + Len(m) <= CSIZE
  PROVE  /\ cq_write(q, m) \in CIRC_Q
         /\ WrittenOff(f, off, m) \in [1 .. Len(Append(f, m)) + 1 -> 0 .. CSIZE]
         /\ LaidOut(cq_write(q, m), Append(f, m), WrittenOff(f, off, m))
<1> DEFINE n == Len(f)
           u == off[n + 1]
           g == Append(f, m)
           o == WrittenOff(f, off, m)
           r == cq_write(q, m)
<1>1. n \in Nat /\ CSIZE \in Nat /\ u \in 0 .. CSIZE /\ q.head \in Off /\ q.tail \in Off
  BY SizesAssumption DEF CIRC_Q
<1>2. m \in Seq(Byte) /\ Len(m) \in Nat /\ Len(m) >= 5
  <2>1. m \in Seq(Byte) /\ Len(m) > MSG_HDR
    BY MessagesAssumption
  <2> QED
    BY <2>1, SizesAssumption
<1>3. \A k \in 1 .. Len(m) : m[k] \in Byte
  BY <1>2
<1>4. Len(m) \in 0 .. CSIZE /\ u + Len(m) \in 0 .. CSIZE
  BY <1>1, <1>2
<1>5. /\ g \in Seq(Messages)
      /\ Len(g) = n + 1
      /\ \A i \in 1 .. n : g[i] = f[i]
      /\ g[n + 1] = m
  BY <1>1
<1>6. r.head = q.head /\ r.num_msgs = q.num_msgs + 1 /\ r.buf = Stored(q, m)
  BY DEF cq_write
<1>7. q.tail = Ahead(q.head, u)
  BY DEF LaidOut
<1>8. r.tail = Ahead(q.head, u + Len(m)) /\ r.tail \in Off
  BY <1>1, <1>4, <1>7, AheadAhead, AheadIs DEF cq_write
<1>9. r \in CIRC_Q
  <2>1. Stored(q, m) \in [Off -> Byte]
    <3>1. ASSUME NEW x \in Off, Distance(q.tail, x) < Len(m)
          PROVE  m[Distance(q.tail, x) + 1] \in Byte
      <4>1. Distance(q.tail, x) \in 0 .. CSIZE - 1
        BY <1>1, DistanceIs DEF Off
      <4> QED
        BY <4>1, <3>1, <1>1, <1>2, <1>3
    <3>2. \A x \in Off : q.buf[x] \in Byte
      BY DEF CIRC_Q
    <3> QED
      BY <3>1, <3>2 DEF Stored
  <2>2. q.num_msgs + 1 \in Nat
    BY DEF CIRC_Q
  <2> QED
    BY <2>1, <2>2, <1>1, <1>6, <1>8 DEF CIRC_Q, cq_write
<1>10. /\ o \in [1 .. n + 2 -> 0 .. CSIZE]
       /\ \A i \in 1 .. n + 1 : o[i] = off[i]
       /\ o[n + 2] = u + Len(m)
  BY <1>1, <1>4 DEF WrittenOff
<1>11. \A i \in 1 .. n + 1 : off[i] \in 0 .. CSIZE
  BY <1>1
<1>12. \A i \in 1 .. n + 1 : o[i + 1] = o[i] + Len(g[i])
  <2> SUFFICES ASSUME NEW i \in 1 .. n + 1
               PROVE  o[i + 1] = o[i] + Len(g[i])
    OBVIOUS
  <2>1. CASE i = n + 1
    BY <2>1, <1>1, <1>5, <1>10
  <2>2. CASE i \in 1 .. n
    <3>1. off[i + 1] = off[i] + Len(f[i])
      BY <2>2 DEF LaidOut
    <3>2. i + 1 \in 1 .. n + 1 /\ g[i] = f[i]
      BY <2>2, <1>1, <1>5
    <3> QED
      BY <3>1, <3>2, <1>10
  <2> QED
    BY <2>1, <2>2, <1>1
<1>13. \A i, j \in 1 .. n + 2 : i <= j => o[i] <= o[j]
  <2>1. \A i, j \in 1 .. n + 1 : i <= j => off[i] <= off[j]
    BY DEF LaidOut
  <2> SUFFICES ASSUME NEW i \in 1 .. n + 2, NEW j \in 1 .. n + 2, i <= j
               PROVE  o[i] <= o[j]
    OBVIOUS
  <2>2. CASE j \in 1 .. n + 1
    BY <2>1, <2>2, <1>1, <1>10
  <2>3. CASE j = n + 2 /\ i \in 1 .. n + 1
    <3>1. off[i] <= u
      BY <2>1, <2>3, <1>1
    <3> QED
      BY <3>1, <2>3, <1>1, <1>2, <1>10, <1>11
  <2>4. CASE i = n + 2 /\ j = n + 2
    BY <2>4, <1>1, <1>2, <1>10
  <2> QED
    BY <2>2, <2>3, <2>4, <1>1
<1>14. \A i \in 1 .. n + 1 : \A k \in 1 .. Len(g[i]) :
         r.buf[Ahead(r.head, o[i] + k - 1)] = g[i][k]
  <2> SUFFICES ASSUME NEW i \in 1 .. n + 1, NEW k \in 1 .. Len(g[i])
               PROVE  Stored(q, m)[Ahead(q.head, o[i] + k - 1)] = g[i][k]
    BY <1>6
  <2>1. CASE i = n + 1
    <3>1. k \in 1 .. Len(m) /\ g[i] = m /\ o[i] = u
      BY <2>1, <1>5, <1>1, <1>10
    <3>2. k - 1 \in 0 .. CSIZE - 1 /\ u + (k - 1) < CSIZE /\ o[i] + k - 1 = u + (k - 1)
      BY <3>1, <1>1, <1>2, <1>4
    <3>3. Distance(q.tail, Ahead(q.head, u + (k - 1))) = k - 1
      BY <3>2, <1>1, <1>7, DistanceOn
    <3>4. Ahead(q.head, u + (k - 1)) \in Off
      BY <3>1, <3>2, <1>1, AheadIs, SMTT(30)
    <3>5. k - 1 < Len(m) /\ (k - 1) + 1 = k
      BY <3>1, <1>2
    <3> QED
      BY <3>1, <3>2, <3>3, <3>4, <3>5 DEF Stored
  <2>2. CASE i \in 1 .. n
    <3> DEFINE d == off[i] + k - 1
    <3>1. g[i] = f[i] /\ o[i] = off[i] /\ k \in 1 .. Len(f[i])
      BY <2>2, <1>1, <1>5, <1>10
    <3>2. d \in 0 .. CSIZE /\ d < u
      BY <2>2, <3>1, BytesBeforeEnd
    <3>3. q.buf[Ahead(q.head, d)] = f[i][k]
      BY <2>2, <3>1 DEF LaidOut
    <3> HIDE DEF d
    <3>4. /\ Distance(q.tail, Ahead(q.head, d)) \in Nat
          /\ Distance(q.tail, Ahead(q.head, d)) >= CSIZE - u
      BY <3>2, <1>1, <1>7, DistanceBack
    <3>5. ~ (Distance(q.tail, Ahead(q.head, d)) < Len(m))
      BY <3>4, <1>1, <1>2, <1>4
    <3>6. Ahead(q.head, d) \in Off
      BY <3>2, <1>1, AheadIs
    <3>7. Stored(q, m)[Ahead(q.head, d)] = q.buf[Ahead(q.head, d)]
      BY <3>5, <3>6 DEF Stored
    <3> QED
      BY <3>1, <3>3, <3>7 DEF d
  <2> QED
    BY <2>1, <2>2, <1>1
<1>15. o[1] = 0
  BY <1>1, <1>10 DEF LaidOut
<1>16. Len(g) + 1 = n + 2 /\ o[Len(g) + 1] = u + Len(m)
  BY <1>1, <1>5, <1>10
<1>17. LaidOut(r, g, o)
  BY <1>5, <1>6, <1>8, <1>12, <1>13, <1>14, <1>15, <1>16 DEF LaidOut
<1> QED
  BY <1>9, <1>10, <1>16, <1>17

\* The first four bytes at head are the length of the first message, and the
\* bytes that cq_read copies are that message.
LEMMA FirstMessage ==
  ASSUME NEW q \in CIRC_Q, NEW f \in Seq(Messages), f # <<>>,
         NEW off \in [1 .. Len(f) + 1 -> 0 .. CSIZE], LaidOut(q, f, off)
  PROVE  /\ MsgLength(q) = Len(Head(f))
         /\ Message(q) = Head(f)
<1>1. Len(f) \in Nat /\ 1 \in 1 .. Len(f) /\ Head(f) = f[1]
  BY SMT
<1>2. f[1] \in Seq(Byte) /\ Len(f[1]) \in Nat /\ Len(f[1]) >= 5 /\ Word(f[1]) = Len(f[1])
  BY <1>1, MessageFacts
<1>3. \A k \in 1 .. Len(f[1]) : q.buf[Ahead(q.head, k - 1)] = f[1][k]
  <2> SUFFICES ASSUME NEW k \in 1 .. Len(f[1])
               PROVE  q.buf[Ahead(q.head, k - 1)] = f[1][k]
    OBVIOUS
  <2>1. off[1] = 0 /\ q.buf[Ahead(q.head, off[1] + k - 1)] = f[1][k]
    BY <1>1 DEF LaidOut
  <2>2. off[1] + k - 1 = k - 1
    BY <2>1, <1>2
  <2> QED
    BY <2>1, <2>2
<1>4. MsgLength(q) = Word(f[1])
  <2> DEFINE w == [i \in 1 .. 4 |-> q.buf[Ahead(q.head, i - 1)]]
  <2>1. 1 \in 1 .. Len(f[1]) /\ 2 \in 1 .. Len(f[1]) /\ 3 \in 1 .. Len(f[1]) /\ 4 \in 1 .. Len(f[1])
    BY <1>2
  <2>2. \A i \in 1 .. 4 : w[i] = q.buf[Ahead(q.head, i - 1)]
    OBVIOUS
  <2>3. w[1] = f[1][1] /\ w[2] = f[1][2] /\ w[3] = f[1][3] /\ w[4] = f[1][4]
    BY <2>1, <2>2, <1>3
  <2> HIDE DEF w
  <2>4. Word(w) = Word(f[1])
    BY <2>3 DEF Word
  <2> QED
    BY <2>4 DEF MsgLength, w
<1>5. MsgLength(q) = Len(f[1])
  BY <1>2, <1>4
<1>6. Message(q) = f[1]
  <2>1. Message(q) = [i \in 1 .. Len(f[1]) |-> q.buf[Ahead(q.head, i - 1)]]
    BY <1>5 DEF Message
  <2>2. f[1] = [i \in 1 .. Len(f[1]) |-> f[1][i]]
    BY <1>2
  <2> QED
    BY <2>1, <2>2, <1>3
<1> QED
  BY <1>1, <1>5, <1>6

\* cq_read removes the first message, copied or not, and leaves the others.
LEMMA ReadLaysOut ==
  ASSUME NEW q \in CIRC_Q, NEW f \in Seq(Messages), f # <<>>, NEW len \in Nat,
         NEW off \in [1 .. Len(f) + 1 -> 0 .. CSIZE],
         LaidOut(q, f, off), q.num_msgs = Len(f)
  PROVE  /\ cq_read(q, len) \in CIRC_Q
         /\ cq_read(q, len).num_msgs = Len(Tail(f))
         /\ ReadOff(f, off) \in [1 .. Len(Tail(f)) + 1 -> 0 .. CSIZE]
         /\ LaidOut(cq_read(q, len), Tail(f), ReadOff(f, off))
         /\ ReadOff(f, off)[Len(Tail(f)) + 1] = off[Len(f) + 1] - Len(Head(f))
<1> DEFINE n == Len(f)
           L == Len(f[1])
           g == Tail(f)
           o == ReadOff(f, off)
           r == cq_read(q, len)
<1>1. /\ n \in Nat /\ n >= 1 /\ CSIZE \in Nat /\ q.head \in Off /\ q.tail \in Off
      /\ Head(f) = f[1]
  BY SizesAssumption, SMT DEF CIRC_Q
<1>2. L \in Nat /\ L >= 5
  BY <1>1, MessageFacts
<1>3. /\ g \in Seq(Messages)
      /\ Len(g) = n - 1
      /\ \A i \in 1 .. n - 1 : g[i] = f[i + 1]
  BY <1>1, HeadTailProperties
<1>4. \A i \in 1 .. n + 1 : off[i] \in 0 .. CSIZE
  BY <1>1
<1>5. off[1] = 0 /\ off[2] = L
  <2>1. off[1] = 0 /\ off[1 + 1] = off[1] + L
    BY <1>1 DEF LaidOut
  <2> QED
    BY <2>1, <1>2
<1>6. \A i \in 1 .. n : off[i + 1] >= L
  <2> SUFFICES ASSUME NEW i \in 1 .. n
               PROVE  off[2] <= off[i + 1]
    BY <1>1, <1>2, <1>4, <1>5
  <2>1. 2 \in 1 .. n + 1 /\ i + 1 \in 1 .. n + 1 /\ 2 <= i + 1
    BY <1>1
  <2> QED
    BY <2>1 DEF LaidOut
<1>7. /\ o \in [1 .. n -> 0 .. CSIZE]
      /\ \A i \in 1 .. n : o[i] = off[i + 1] - L
  BY <1>1, <1>2, <1>4, <1>6 DEF ReadOff
<1>8. MsgLength(q) = L
  BY <1>1, FirstMessage
<1>9. L \in 0 .. CSIZE
  BY <1>1, <1>2, <1>4, <1>5
<1>10. r.head = Ahead(q.head, L) /\ r.head \in Off
  BY <1>1, <1>8, <1>9, AheadIs DEF cq_read, Skipped
<1>11. r.num_msgs = n - 1 /\ r.num_msgs \in Nat /\ r.tail = q.tail /\ r.buf = q.buf
  BY <1>1 DEF cq_read
<1>12. r \in CIRC_Q
  BY <1>1, <1>10, <1>11 DEF cq_read, CIRC_Q
<1>13. \A i \in 1 .. n - 1 : o[i + 1] = o[i] + Len(g[i])
  <2> SUFFICES ASSUME NEW i \in 1 .. n - 1
               PROVE  o[i + 1] = o[i] + Len(g[i])
    OBVIOUS
  <2>1. i + 1 \in 1 .. n /\ i \in 1 .. n
    BY <1>1
  <2>2. off[(i + 1) + 1] = off[i + 1] + Len(f[i + 1])
    BY <2>1 DEF LaidOut
  <2>3. Len(f[i + 1]) \in Nat /\ g[i] = f[i + 1]
    BY <2>1, <1>3, MessageFacts
  <2>4. off[i + 1] \in 0 .. CSIZE /\ off[(i + 1) + 1] \in 0 .. CSIZE
    BY <2>1, <1>1, <1>4
  <2> QED
    BY <2>1, <2>2, <2>3, <2>4, <1>2, <1>7, SMTT(30)
<1>14. \A i, j \in 1 .. n : i <= j => o[i] <= o[j]
  <2> SUFFICES ASSUME NEW i \in 1 .. n, NEW j \in 1 .. n, i <= j
               PROVE  o[i] <= o[j]
    OBVIOUS
  <2>1. i + 1 \in 1 .. n + 1 /\ j + 1 \in 1 .. n + 1 /\ i + 1 <= j + 1
    BY <1>1
  <2>2. off[i + 1] <= off[j + 1]
    BY <2>1 DEF LaidOut
  <2>3. off[i + 1] \in 0 .. CSIZE /\ off[j + 1] \in 0 .. CSIZE
    BY <2>1, <1>4
  <2> QED
    BY <2>2, <2>3, <1>2, <1>7
<1>15. \A i \in 1 .. n - 1 : \A k \in 1 .. Len(g[i]) :
         r.buf[Ahead(r.head, o[i] + k - 1)] = g[i][k]
  <2> SUFFICES ASSUME NEW i \in 1 .. n - 1, NEW k \in 1 .. Len(g[i])
               PROVE  q.buf[Ahead(Ahead(q.head, L), o[i] + k - 1)] = g[i][k]
    BY <1>10, <1>11
  <2> DEFINE d == off[i + 1] + k - 1
  <2>1. i + 1 \in 1 .. n /\ i \in 1 .. n /\ g[i] = f[i + 1]
    BY <1>1, <1>3
  <2>2. k \in 1 .. Len(f[i + 1]) /\ Len(f[i + 1]) \in Nat
    BY <2>1, MessageFacts
  <2>3. d \in 0 .. CSIZE
    BY <2>1, <2>2, BytesBeforeEnd
  <2>4. q.buf[Ahead(q.head, d)] = f[i + 1][k]
    BY <2>1, <2>2 DEF LaidOut
  <2>5. off[i + 1] \in 0 .. CSIZE /\ off[i + 1] >= L /\ o[i] = off[i + 1] - L
    BY <2>1, <1>1, <1>4, <1>6, <1>7
  <2>6. /\ o[i] + k - 1 \in 0 .. CSIZE
        /\ L + (o[i] + k - 1) = d
    <3>1. k \in Nat /\ k >= 1 /\ off[i + 1] \in 0 .. CSIZE /\ o[i] \in 0 .. CSIZE
      BY <2>1, <2>2, <2>5, <1>1, <1>7, SMTT(30)
    <3>2. off[i + 1] + k - 1 \in 0 .. CSIZE
      BY <2>3
    <3> HIDE DEF L, o, g
    <3>3. L \in Nat /\ o[i] = off[i + 1] - L
      BY <2>5, <1>2
    <3>4. o[i] + k - 1 \in 0 .. CSIZE /\ L + (o[i] + k - 1) = off[i + 1] + k - 1
      BY <3>1, <3>2, <3>3, <1>1, SMTT(30)
    <3> QED
      BY <3>4
  <2>7. L + (o[i] + k - 1) <= CSIZE
    BY <2>3, <2>6
  <2>8. Ahead(Ahead(q.head, L), o[i] + k - 1) = Ahead(q.head, d)
    BY <2>6, <2>7, <1>1, <1>9, AheadAhead
  <2> QED
    BY <2>1, <2>4, <2>8
<1>16. o[n] = off[n + 1] - L /\ o[1] = 0
  BY <1>1, <1>2, <1>5, <1>7
<1>17. r.tail = Ahead(r.head, o[n])
  <2>1. q.tail = Ahead(q.head, off[n + 1])
    BY DEF LaidOut
  <2>2. /\ off[n + 1] \in 0 .. CSIZE /\ off[n + 1] >= L
        /\ o[n] \in 0 .. CSIZE /\ L + o[n] = off[n + 1]
    BY <1>1, <1>2, <1>4, <1>6, <1>7, SMTT(30)
  <2>3. L + o[n] <= CSIZE
    BY <2>2
  <2>4. Ahead(Ahead(q.head, L), o[n]) = Ahead(q.head, L + o[n])
    BY <2>2, <2>3, <1>1, <1>9, AheadAhead
  <2> QED
    BY <2>1, <2>2, <2>4, <1>10, <1>11
<1>18. Len(g) + 1 = n
  BY <1>1, <1>3
<1>19. LaidOut(r, g, o)
  BY <1>3, <1>13, <1>14, <1>15, <1>16, <1>17, <1>18 DEF LaidOut
<1> QED
  BY <1>1, <1>3, <1>7, <1>11, <1>12, <1>16, <1>18, <1>19

-----------------------------------------------------------------------------
(* The specification.                                                      *)

\* The inductive invariant.
RingInv == TypeOK /\ RingSpellsMessages

LEMMA InitRing == Init => RingInv
<1> SUFFICES ASSUME Init
             PROVE  RingInv
  OBVIOUS
<1>1. CSIZE \in Nat /\ CSIZE > 0
  BY SizesAssumption
<1>2. 0 \in Off /\ 0 \in Byte
  BY <1>1 DEF Off, Byte
<1>3. cq \in CIRC_Q
  BY <1>2 DEF Init, cq_init, CIRC_Q
<1>4. TypeOK
  BY <1>3 DEF Init, TypeOK
<1>5. RingSpellsMessages
  <2> DEFINE off == [i \in 1 .. 1 |-> 0]
  <2>1. sent = <<>> /\ Len(sent) = 0 /\ cq.num_msgs = 0 /\ cq.head = 0 /\ cq.tail = 0
    BY DEF Init, cq_init
  <2>2. off \in [1 .. 1 -> 0 .. CSIZE] /\ \A i \in 1 .. 1 : off[i] = 0
    BY <1>1
  <2>3. Ahead(0, 0) = 0
    BY <1>1, <1>2, AheadIs
  <2> HIDE DEF off
  <2>4. LaidOut(cq, sent, off)
    BY <2>1, <2>2, <2>3 DEF LaidOut
  <2> QED
    BY <2>1, <2>2, <2>4 DEF RingSpellsMessages
<1> QED
  BY <1>4, <1>5 DEF RingInv

\* What the invariant gives every step: where the messages lie, and how many
\* bytes are free.
LEMMA RingFacts ==
  ASSUME RingInv
  PROVE  /\ cq \in CIRC_Q /\ sent \in Seq(Messages) /\ cq.num_msgs = Len(sent)
         /\ \E off \in [1 .. Len(sent) + 1 -> 0 .. CSIZE] :
              /\ LaidOut(cq, sent, off)
              /\ off[Len(sent) + 1] \in 0 .. CSIZE
              /\ cq_count_space(cq) = CSIZE - off[Len(sent) + 1]
<1>1. cq \in CIRC_Q /\ sent \in Seq(Messages) /\ cq.num_msgs = Len(sent)
  BY DEF RingInv, TypeOK, RingSpellsMessages
<1>2. PICK off \in [1 .. Len(sent) + 1 -> 0 .. CSIZE] : LaidOut(cq, sent, off)
  BY DEF RingInv, RingSpellsMessages
<1>3. cq_count_space(cq) = CSIZE - off[Len(sent) + 1]
  BY <1>1, <1>2, SpaceIs
<1>4. off[Len(sent) + 1] \in 0 .. CSIZE
  <2>1. Len(sent) \in Nat
    BY <1>1
  <2> QED
    BY <2>1
<1> QED
  BY <1>1, <1>2, <1>3, <1>4

\* A write keeps the invariant and takes the space of its message.
LEMMA WriteStep ==
  ASSUME RingInv, NEW m \in Messages, Write(m)
  PROVE  /\ RingInv'
         /\ CSIZE - cq_count_space(cq') = (CSIZE - cq_count_space(cq)) + Len(m)
         /\ (CSIZE - cq_count_space(cq)) + Len(m) <= CSIZE
<1>1. cq \in CIRC_Q /\ sent \in Seq(Messages) /\ cq.num_msgs = Len(sent)
  BY RingFacts
<1>2. PICK off \in [1 .. Len(sent) + 1 -> 0 .. CSIZE] :
        /\ LaidOut(cq, sent, off)
        /\ off[Len(sent) + 1] \in 0 .. CSIZE
        /\ cq_count_space(cq) = CSIZE - off[Len(sent) + 1]
  BY RingFacts
<1> DEFINE u == off[Len(sent) + 1]
           o == WrittenOff(sent, off, m)
<1>3. CSIZE \in Nat /\ Len(sent) \in Nat /\ Len(m) \in Nat
  BY <1>1, SizesAssumption, MessagesAssumption
<1>4. u + Len(m) <= CSIZE
  BY <1>2, <1>3 DEF Write
<1>5. /\ cq_write(cq, m) \in CIRC_Q
      /\ o \in [1 .. Len(Append(sent, m)) + 1 -> 0 .. CSIZE]
      /\ LaidOut(cq_write(cq, m), Append(sent, m), o)
  BY <1>1, <1>2, <1>4, WriteLaysOut
<1>6. cq' = cq_write(cq, m) /\ sent' = Append(sent, m) /\ out' = out
  BY DEF Write
<1>7. sent' \in Seq(Messages) /\ Len(sent') = Len(sent) + 1
  BY <1>1, <1>6
<1>8. cq'.num_msgs = Len(sent')
  BY <1>1, <1>6, <1>7 DEF cq_write
<1>9. TypeOK'
  BY <1>5, <1>6, <1>7 DEF RingInv, TypeOK
<1>10. RingSpellsMessages'
  BY <1>5, <1>6, <1>8 DEF RingSpellsMessages
<1>11. o[Len(sent') + 1] = u + Len(m)
  BY <1>3, <1>7 DEF WrittenOff
<1>12. cq_count_space(cq') = CSIZE - o[Len(sent') + 1]
  BY <1>5, <1>6, <1>7, <1>8, SpaceIs
<1>13. CSIZE - cq_count_space(cq') = (CSIZE - cq_count_space(cq)) + Len(m)
  BY <1>2, <1>3, <1>11, <1>12
<1>14. (CSIZE - cq_count_space(cq)) + Len(m) <= CSIZE
  BY <1>2, <1>3, <1>4
<1> QED
  BY <1>9, <1>10, <1>13, <1>14 DEF RingInv

\* A read keeps it, gives back the space of the oldest message, and hands that
\* message out or leaves the buffer alone.
LEMMA ReadStep ==
  ASSUME RingInv, NEW len \in Buffers, Read(len)
  PROVE  /\ RingInv'
         /\ sent # <<>>
         /\ CSIZE - cq_count_space(cq') = (CSIZE - cq_count_space(cq)) - Len(Head(sent))
         /\ out' = IF Len(Head(sent)) <= len THEN Head(sent) ELSE out
<1>1. /\ cq \in CIRC_Q /\ sent \in Seq(Messages) /\ cq.num_msgs = Len(sent)
      /\ out \in Messages \cup {<<>>} /\ len \in Nat
  BY RingFacts, BuffersAssumption DEF RingInv, TypeOK
<1>2. PICK off \in [1 .. Len(sent) + 1 -> 0 .. CSIZE] :
        /\ LaidOut(cq, sent, off)
        /\ off[Len(sent) + 1] \in 0 .. CSIZE
        /\ cq_count_space(cq) = CSIZE - off[Len(sent) + 1]
  BY RingFacts
<1> DEFINE o == ReadOff(sent, off)
<1>3. sent # <<>>
  BY <1>1 DEF Read
<1>4. CSIZE \in Nat /\ Head(sent) \in Messages /\ Len(Head(sent)) \in Nat
  BY <1>1, <1>3, SizesAssumption, MessagesAssumption, HeadTailProperties
<1>5. MsgLength(cq) = Len(Head(sent)) /\ Message(cq) = Head(sent)
  BY <1>1, <1>2, <1>3, FirstMessage
<1>6. /\ cq_read(cq, len) \in CIRC_Q
      /\ cq_read(cq, len).num_msgs = Len(Tail(sent))
      /\ o \in [1 .. Len(Tail(sent)) + 1 -> 0 .. CSIZE]
      /\ LaidOut(cq_read(cq, len), Tail(sent), o)
      /\ o[Len(Tail(sent)) + 1] = off[Len(sent) + 1] - Len(Head(sent))
  BY <1>1, <1>2, <1>3, ReadLaysOut
<1>7. cq' = cq_read(cq, len) /\ sent' = Tail(sent)
  BY DEF Read
<1>8. out' = IF Len(Head(sent)) <= len THEN Head(sent) ELSE out
  BY <1>5 DEF Read
<1>9. sent' \in Seq(Messages)
  BY <1>1, <1>3, <1>7, HeadTailProperties
<1>10. TypeOK'
  BY <1>1, <1>4, <1>6, <1>7, <1>8, <1>9 DEF TypeOK
<1>11. RingSpellsMessages'
  BY <1>6, <1>7 DEF RingSpellsMessages
<1>12. cq_count_space(cq') = CSIZE - o[Len(sent') + 1]
  BY <1>6, <1>7, <1>9, SpaceIs
<1>13. CSIZE - cq_count_space(cq') = (CSIZE - cq_count_space(cq)) - Len(Head(sent))
  BY <1>2, <1>4, <1>6, <1>7, <1>12
<1> QED
  BY <1>3, <1>8, <1>10, <1>11, <1>13 DEF RingInv

LEMMA NextRing == RingInv /\ [Next]_vars => RingInv'
<1> SUFFICES ASSUME RingInv, [Next]_vars
             PROVE  RingInv'
  OBVIOUS
<1>1. ASSUME NEW m \in Messages, Write(m)
      PROVE  RingInv'
  BY <1>1, WriteStep
<1>2. ASSUME NEW len \in Buffers, Read(len)
      PROVE  RingInv'
  BY <1>2, ReadStep
<1>3. CASE UNCHANGED vars
  BY <1>3 DEF vars, RingInv, TypeOK, RingSpellsMessages
<1> QED
  BY <1>1, <1>2, <1>3 DEF Next

LEMMA AlwaysRing == Spec => []RingInv
BY InitRing, NextRing, PTL DEF Spec

\* head and tail stay inside the buffer, and the owner is only ever given
\* messages that were sent, for any size of ring.
THEOREM TypeCorrect == Spec => []TypeOK
<1>1. RingInv => TypeOK
  BY DEF RingInv
<1> QED
  BY <1>1, AlwaysRing, PTL

\* No write overwrites an unread byte and no read stops inside a message: from
\* head to tail the ring holds the unread messages (cq_write, cq_read).
THEOREM RingCorrect == Spec => []RingSpellsMessages
<1>1. RingInv => RingSpellsMessages
  BY DEF RingInv
<1> QED
  BY <1>1, AlwaysRing, PTL

\* cqueue.c implements the FIFO of messages.
THEOREM Refinement == Spec => ImplementsMsgFifo
<1>1. Init => Mbx!Init
  <2> SUFFICES ASSUME Init
               PROVE  Mbx!Init
    OBVIOUS
  <2>1. CSIZE \in Nat
    BY SizesAssumption
  <2>2. cq_count_space(cq) = CSIZE - 0
    BY <2>1 DEF Init, cq_init, cq_count_space
  <2> QED
    BY <2>1, <2>2 DEF Init, Mbx!Init
<1>2. RingInv /\ [Next]_vars => [Mbx!Next]_(Mbx!vars)
  <2> SUFFICES ASSUME RingInv, [Next]_vars
               PROVE  [Mbx!Next]_(Mbx!vars)
    OBVIOUS
  <2>1. ASSUME NEW m \in Messages, Write(m)
        PROVE  Mbx!Accept(m)
    BY <2>1, WriteStep DEF Write, Mbx!Accept
  <2>2. ASSUME NEW len \in Buffers, Read(len)
        PROVE  Mbx!Receive(len)
    BY <2>2, ReadStep DEF Read, Mbx!Receive
  <2>3. CASE UNCHANGED vars
    BY <2>3 DEF vars, Mbx!vars, cq_count_space
  <2> QED
    BY <2>1, <2>2, <2>3 DEF Next, Mbx!Next
<1> QED
  BY <1>1, <1>2, AlwaysRing, PTL DEF Spec, ImplementsMsgFifo, Mbx!Spec
=============================================================================
