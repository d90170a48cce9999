------------------------------- MODULE MsgFifo -------------------------------
(***************************************************************************)
(* What a mailbox promises its sender and its owner: messages come out     *)
(* whole and in the order in which they went in, and a message is refused  *)
(* only when its bytes do not fit beside those of the messages that wait.  *)
(***************************************************************************)
EXTENDS Integers, Sequences

CONSTANTS
  CSIZE,     \* bytes of the mailbox
  MSG_HDR,   \* bytes of a message header
  Messages,  \* the messages tasks send
  Buffers    \* the lengths of the buffers in which the owner receives

VARIABLES
  fifo,      \* messages that wait, the oldest first
  used,      \* the bytes they take
  out        \* the last message that the owner was given

vars == <<fifo, used, out>>

Init == fifo = <<>> /\ used = 0 /\ out = <<>>

Accept(m) ==
  /\ used + Len(m) <= CSIZE
  /\ fifo' = Append(fifo, m)
  /\ used' = used + Len(m)
  /\ UNCHANGED out

\* The oldest message leaves; it is lost if the owner's buffer is too short.
Receive(len) ==
  /\ fifo # <<>>
  /\ len > MSG_HDR
  /\ fifo' = Tail(fifo)
  /\ used' = used - Len(Head(fifo))
  /\ out' = IF Len(Head(fifo)) <= len THEN Head(fifo) ELSE out

Next ==
  \/ \E m \in Messages : Accept(m)
  \/ \E len \in Buffers : Receive(len)

Spec == Init /\ [][Next]_vars
=============================================================================
