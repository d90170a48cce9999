-------------------------------- MODULE CircQ --------------------------------
(***************************************************************************)
(* The ring of bytes behind a mailbox: CIRC_Q and the functions of         *)
(* lib/cqueue.c, as k_send_msg and k_recv_msg call them.                   *)
(*                                                                         *)
(* The pointers head and tail are offsets from buf, so a ring is a record  *)
(*    num_msgs, head, tail, buf                                            *)
(* and the functions are operators on it.  Nothing in the ring says where  *)
(* a message ends but the length in its first four bytes, which may lie on *)
(* both sides of the end of the buffer.  Bytes that have been read stay in *)
(* the buffer.                                                             *)
(*                                                                         *)
(* sent is a history variable: the messages that cq_write took and cq_read *)
(* has not removed.  No guard reads it.                                    *)
(***************************************************************************)
EXTENDS Integers, Sequences

CONSTANTS
  CSIZE,     \* size of the ring
  MSG_HDR,   \* sizeof(RTX_MSG_HDR)
  Messages,  \* the messages tasks send, as sequences of bytes
  Buffers    \* the lengths of the buffers in which the owner receives

Off  == 0 .. CSIZE - 1
Byte == 0 .. 255

\* Four bytes as an unsigned int of the little-endian processor.
Word(b) == b[1] + 256 * b[2] + 65536 * b[3] + 16777216 * b[4]

\* k_send_msg passes the length it finds in the header.
ASSUME MessagesAssumption ==
  \A m \in Messages : m \in Seq(Byte) /\ Len(m) > MSG_HDR /\ Word(m) = Len(m)
\* cq_init accepts no smaller ring; RTX_MSG_HDR begins with a U32.
ASSUME SizesAssumption == CSIZE \in Nat /\ MSG_HDR \in Nat /\ 4 <= MSG_HDR /\ MSG_HDR < CSIZE
ASSUME BuffersAssumption == Buffers \subseteq Nat

VARIABLES
  cq,        \* the mailbox
  sent,      \* history: messages accepted and not yet removed
  out        \* the last message that the owner was given

vars == <<cq, sent, out>>

CIRC_Q == [num_msgs : Nat, head : Off, tail : Off, buf : [Off -> Byte]]

-----------------------------------------------------------------------------
\* Seeded fault: the pointer wraps one byte too late.
WrapsLate(p, n) == (p + n) % (CSIZE + 1)

\* The offset n bytes after p: n times "one byte on, and from the last to BUF".
Ahead(p, n) == (p + n) % CSIZE

\* How many bytes x lies after p.
Distance(p, x) == (x - p) % CSIZE

cq_init == [num_msgs |-> 0, head |-> 0, tail |-> 0, buf |-> [x \in Off |-> 0]]

\* Seeded fault: equal pointers always mean an empty ring.
SpaceIfNeverFull(q) ==
  IF q.head > q.tail THEN q.head - q.tail ELSE CSIZE - (q.tail - q.head)

cq_count_space(q) ==
  IF q.head > q.tail \/ (q.head = q.tail /\ q.num_msgs # 0)
  THEN q.head - q.tail
  ELSE CSIZE - (q.tail - q.head)

\* The bytes of m go to tail and the offsets after it.
Stored(q, m) ==
  [x \in Off |-> IF Distance(q.tail, x) < Len(m) THEN m[Distance(q.tail, x) + 1]
                 ELSE q.buf[x]]

cq_write(q, m) ==
  [ num_msgs |-> q.num_msgs + 1,
    head     |-> q.head,
    tail     |-> Ahead(q.tail, Len(m)),
    buf      |-> Stored(q, m) ]

\* msg_length: the four bytes at head.
MsgLength(q) == Word([i \in 1 .. 4 |-> q.buf[Ahead(q.head, i - 1)]])

\* Seeded fault: a message longer than the buffer is removed only in part.
SkippedOfBuffer(q, len) == IF MsgLength(q) > len THEN len ELSE MsgLength(q)

\* How far cq_read moves head: past the whole message, copied or not.
Skipped(q, len) == MsgLength(q)

\* The bytes that cq_read copies.
Message(q) == [i \in 1 .. MsgLength(q) |-> q.buf[Ahead(q.head, i - 1)]]

cq_read(q, len) ==
  [ num_msgs |-> q.num_msgs - 1,
    head     |-> Ahead(q.head, Skipped(q, len)),
    tail     |-> q.tail,
    buf      |-> q.buf ]

-----------------------------------------------------------------------------
Init == cq = cq_init /\ sent = <<>> /\ out = <<>>

\* k_send_msg: cq_write finds room, or changes nothing.
Write(m) ==
  /\ Len(m) <= cq_count_space(cq)
  /\ cq' = cq_write(cq, m)
  /\ sent' = Append(sent, m)
  /\ UNCHANGED out

\* k_recv_msg when a message waits.  With a buffer no longer than a header
\* cq_read returns at once.
Read(len) ==
  /\ cq.num_msgs # 0
  /\ len > MSG_HDR
  /\ cq' = cq_read(cq, len)
  /\ sent' = Tail(sent)
  /\ out' = IF MsgLength(cq) <= len THEN Message(cq) ELSE out

Next ==
  \/ \E m \in Messages : Write(m)
  \/ \E len \in Buffers : Read(len)

Spec == Init /\ [][Next]_vars

-----------------------------------------------------------------------------
\* Both pointers stay inside the buffer, however often they wrap (cq_write,
\* cq_read), and what the owner is given is a message that was sent.
TypeOK ==
  /\ cq \in CIRC_Q
  /\ sent \in Seq(Messages)
  /\ out \in Messages \cup {<<>>}

\* Message i of f lies between off[i] and off[i + 1] bytes after head.
LaidOut(q, f, off) ==
  /\ off[1] = 0
  /\ \A i \in 1 .. Len(f) : off[i + 1] = off[i] + Len(f[i])
  /\ \A i, j \in 1 .. Len(f) + 1 : i <= j => off[i] <= off[j]
  /\ \A i \in 1 .. Len(f) : \A k \in 1 .. Len(f[i]) :
        q.buf[Ahead(q.head, off[i] + k - 1)] = f[i][k]
  /\ q.tail = Ahead(q.head, off[Len(f) + 1])

\* From head to tail the ring holds the unread messages, whole, in the order
\* in which they were sent, and no two of them overlap (cq_write, cq_read).
RingSpellsMessages ==
  /\ cq.num_msgs = Len(sent)
  /\ \E off \in [1 .. Len(sent) + 1 -> 0 .. CSIZE] : LaidOut(cq, sent, off)

\* The ring implements the FIFO of messages: what k_recv_msg gives its caller
\* is the oldest message as it was sent, a message too long for the caller's
\* buffer is lost alone, and cq_count_space refuses a message exactly when it
\* does not fit.
Mbx == INSTANCE MsgFifo WITH fifo <- sent, used <- CSIZE - cq_count_space(cq)

ImplementsMsgFifo == Mbx!Spec
=============================================================================
