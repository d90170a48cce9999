----------------------------- MODULE Kcd_proofs -----------------------------
(***************************************************************************)
(* Proofs about the command decoder, for every size of its buffer, length  *)
(* of line, alphabet and set of tasks.  The inductive invariant adds to    *)
(* TypeOK what EnterCommand leaves to SendCommand: the line that was       *)
(* looked up is still there, and the table still says where it goes.       *)
(***************************************************************************)
EXTENDS Kcd, SequenceTheorems, TLAPS

Typed == Chars \cup Ids \cup {NUL}

\* Between the lookup and the send.
LookedUp ==
  recv_tid # NOBODY =>
    /\ send_size <= MAX_CMD_SIZE
    /\ send_buf[0] = PERCENT
    /\ send_buf[1] \in Ids
    /\ recv_tid = AsTaskId(key_tid_array[send_buf[1]])

KcdInv == TypeOK /\ LookedUp

\* The line that the buffer and the count stand for.
LineOf(buf, n) == [i \in 1 .. n |-> IF i - 1 \in Index THEN buf[i - 1] ELSE LOST]

\* The table without the mark.
Named(table) == [c \in Ids |-> IF table[c] = UNREGISTERED THEN NOBODY ELSE table[c]]

\* A task's own id survives the conversion; the mark becomes an id that no task
\* has.
LEMMA TaskIds ==
  /\ \A t \in Tasks : t \in Nat /\ t < MAX_TASKS /\ AsTaskId(t) = t /\ t # UNREGISTERED
  /\ AsTaskId(UNREGISTERED) = 231
  /\ \A t \in Tasks : t # 231 /\ t # NOBODY
  /\ NOBODY # 231
<1>1. MAX_TASKS \in 1 .. 231 /\ Tasks \subseteq 1 .. MAX_TASKS - 1
  BY TasksAssumption
<1>2. \A n \in 0 .. 255 : n % 256 = n
  OBVIOUS
<1>3. 999 % 256 = 231
  OBVIOUS
<1> QED
  BY <1>1, <1>2, <1>3, NobodyAssumption DEF AsTaskId, UNREGISTERED

LEMMA Sizes == MAX_CMD_SIZE \in Nat /\ MAX_CMD_SIZE >= 2 /\ MAX_LINE \in Nat
BY SizeAssumption

LEMMA LineIsSequence ==
  ASSUME NEW buf \in [Index -> Typed], NEW n \in Nat
  PROVE  /\ LineOf(buf, n) \in Seq(Typed \cup {LOST})
         /\ Len(LineOf(buf, n)) = n
         /\ DOMAIN LineOf(buf, n) = 1 .. n
<1>1. LineOf(buf, n) \in [1 .. n -> Typed \cup {LOST}]
  BY DEF LineOf
<1> QED
  BY <1>1

\* A key behind the line (Stored).
LEMMA LineGrows ==
  ASSUME NEW buf \in [Index -> Typed], NEW n \in Nat, NEW c \in Typed,
         NEW buf2,
         buf2 = IF n <= MAX_CMD_SIZE THEN [buf EXCEPT ![n] = c] ELSE buf
  PROVE  LineOf(buf2, n + 1)
           = Append(LineOf(buf, n), IF n > MAX_CMD_SIZE THEN LOST ELSE c)
<1> DEFINE x == IF n > MAX_CMD_SIZE THEN LOST ELSE c
           a == Append(LineOf(buf, n), x)
<1>1. buf2 \in [Index -> Typed]
  BY Sizes DEF Index
<1>2. LineOf(buf, n) \in Seq(Typed \cup {LOST}) /\ Len(LineOf(buf, n)) = n
  BY LineIsSequence
<1>3. LineOf(buf2, n + 1) \in Seq(Typed \cup {LOST}) /\ Len(LineOf(buf2, n + 1)) = n + 1
  <2>1. n + 1 \in Nat
    OBVIOUS
  <2> QED
    BY <1>1, <2>1, LineIsSequence
<1>4. x \in Typed \cup {LOST}
  OBVIOUS
<1>5. a \in Seq(Typed \cup {LOST}) /\ Len(a) = n + 1
  BY <1>2, <1>4
<1>6. ASSUME NEW i \in 1 .. n + 1
      PROVE  LineOf(buf2, n + 1)[i] = a[i]
  <2>1. LineOf(buf2, n + 1)[i] = IF i - 1 \in Index THEN buf2[i - 1] ELSE LOST
    BY DEF LineOf
  <2>2. CASE i = n + 1
    <3>1. a[i] = x
      BY <2>2, <1>2
    <3>2. i - 1 = n /\ (n \in Index <=> n <= MAX_CMD_SIZE)
      BY <2>2, Sizes DEF Index
    <3>3. n \in Index => buf2[n] = c
      BY <3>2
    <3>4. n \in Index <=> ~ (n > MAX_CMD_SIZE)
      BY <3>2, Sizes
    <3>5. LineOf(buf2, n + 1)[i] = IF n \in Index THEN c ELSE LOST
      BY <2>1, <3>2, <3>3
    <3>6. x = IF n \in Index THEN c ELSE LOST
      BY <3>4
    <3> HIDE DEF a, x
    <3> QED
      BY <3>1, <3>5, <3>6
  <2>3. CASE i # n + 1
    <3>1. i \in 1 .. n /\ i - 1 # n
      BY <2>3
    <3>2. a[i] = LineOf(buf, n)[i]
      BY <3>1, <1>2
    <3>3. LineOf(buf, n)[i] = IF i - 1 \in Index THEN buf[i - 1] ELSE LOST
      BY <3>1 DEF LineOf
    <3> QED
      BY <2>1, <3>1, <3>2, <3>3
  <2> QED
    BY <2>2, <2>3
<1> HIDE DEF x, a
<1>7. LineOf(buf2, n + 1) = a
  BY <1>3, <1>5, <1>6, SeqEqual
<1> QED
  BY <1>7 DEF a, x

\* A backspace.
LEMMA LineShrinks ==
  ASSUME NEW buf \in [Index -> Typed], NEW n \in Nat \ {0}
  PROVE  LineOf(buf, n - 1) = SubSeq(LineOf(buf, n), 1, n - 1)
<1>1. LineOf(buf, n) \in Seq(Typed \cup {LOST}) /\ Len(LineOf(buf, n)) = n
  BY LineIsSequence
<1>2. n - 1 \in Nat
  OBVIOUS
<1>3. LineOf(buf, n - 1) \in Seq(Typed \cup {LOST}) /\ Len(LineOf(buf, n - 1)) = n - 1
  BY <1>2, LineIsSequence
<1> DEFINE s == SubSeq(LineOf(buf, n), 1, n - 1)
<1>4. /\ s \in Seq(Typed \cup {LOST}) /\ Len(s) = n - 1
      /\ \A i \in 1 .. n - 1 : s[i] = LineOf(buf, n)[i]
  BY <1>1, <1>2
<1>5. \A i \in 1 .. n - 1 : LineOf(buf, n)[i] = LineOf(buf, n - 1)[i]
  BY <1>2 DEF LineOf
<1> HIDE DEF s
<1>6. LineOf(buf, n - 1) = s
  BY <1>3, <1>4, <1>5, SeqEqual
<1> QED
  BY <1>6 DEF s

\* The line without its percent sign is what SendCommand sends.
LEMMA LineTail ==
  ASSUME NEW buf \in [Index -> Typed], NEW n \in 2 .. MAX_CMD_SIZE
  PROVE  /\ Tail(LineOf(buf, n)) = [i \in 1 .. n - 1 |-> buf[i]]
         /\ LineOf(buf, n)[1] = buf[0]
         /\ LineOf(buf, n)[2] = buf[1]
<1>1. n \in Nat /\ 2 <= n /\ n <= MAX_CMD_SIZE /\ MAX_CMD_SIZE \in Nat
  BY Sizes
<1>2. LineOf(buf, n) \in Seq(Typed \cup {LOST}) /\ Len(LineOf(buf, n)) = n
  BY <1>1, LineIsSequence
<1>3. \A i \in 1 .. n : LineOf(buf, n)[i] = buf[i - 1]
  BY <1>1 DEF LineOf, Index
<1> DEFINE s == Tail(LineOf(buf, n))
           text == [i \in 1 .. n - 1 |-> buf[i]]
<1>4. s \in Seq(Typed \cup {LOST}) /\ Len(s) = n - 1
  BY <1>1, <1>2
<1>5. text \in [1 .. n - 1 -> Typed \cup {LOST}] /\ n - 1 \in Nat
  BY <1>1 DEF Index
<1>6. text \in Seq(Typed \cup {LOST}) /\ Len(text) = n - 1
  BY <1>5
<1>7. ASSUME NEW i \in 1 .. n - 1
      PROVE  s[i] = text[i]
  <2>1. s[i] = LineOf(buf, n)[i + 1]
    BY <1>1, <1>2
  <2>2. i + 1 \in 1 .. n /\ (i + 1) - 1 = i
    BY <1>1
  <2> QED
    BY <2>1, <2>2, <1>3
<1> HIDE DEF s, text
<1>8. s = text
  BY <1>4, <1>6, <1>7, SeqEqual
<1>9. 1 \in 1 .. n /\ 2 \in 1 .. n
  BY <1>1
<1> QED
  BY <1>3, <1>8, <1>9 DEF s, text

-----------------------------------------------------------------------------
LEMMA InitKcdInv == Init => KcdInv
<1> SUFFICES ASSUME Init
             PROVE  KcdInv
  OBVIOUS
<1>1. TypeOK
  BY Sizes DEF Init, TypeOK
<1> QED
  BY <1>1 DEF Init, KcdInv, LookedUp

LEMMA RegisterKeeps ==
  ASSUME KcdInv, NEW c \in Ids, NEW t \in Tasks, Register(c, t)
  PROVE  KcdInv'
<1>1. TypeOK'
  BY DEF KcdInv, TypeOK, Register
<1> QED
  BY <1>1 DEF KcdInv, LookedUp, Register, Receiving

LEMMA KeyKeeps ==
  ASSUME KcdInv, NEW c \in Chars \cup Ids, Key(c)
  PROVE  KcdInv'
<1>1. send_size' \in 0 .. MAX_LINE
  BY Sizes DEF KcdInv, TypeOK, Key, Deletes
<1>2. send_buf' \in [Index -> Chars \cup Ids \cup {NUL}]
  BY DEF KcdInv, TypeOK, Key, Stored
<1>3. TypeOK'
  BY <1>1, <1>2 DEF KcdInv, TypeOK, Key
<1> QED
  BY <1>3 DEF KcdInv, LookedUp, Key, Receiving

LEMMA ResetKeeps ==
  ASSUME KcdInv, Receiving, Reset
  PROVE  KcdInv'
<1>1. TypeOK'
  BY Sizes DEF KcdInv, TypeOK, Reset
<1> QED
  BY <1>1 DEF KcdInv, LookedUp, Reset, Receiving

LEMMA EnterCommandKeeps ==
  ASSUME KcdInv, EnterCommand
  PROVE  KcdInv'
<1> DEFINE t == AsTaskId(key_tid_array[send_buf[1]])
<1>1. CASE Reset
  BY <1>1, ResetKeeps DEF EnterCommand
<1>2. CASE /\ recv_tid' = t
           /\ delivered' = NOBODY
           /\ UNCHANGED <<send_buf, send_size, key_tid_array, alive>>
  <2>1. send_buf[1] \in Ids /\ ~ Invalid
    BY DEF EnterCommand
  <2>2. key_tid_array[send_buf[1]] \in Tasks \cup {UNREGISTERED}
    BY <2>1 DEF KcdInv, TypeOK
  <2>3. t \in Tasks \cup {AsTaskId(UNREGISTERED)}
    BY <2>2, TaskIds
  <2>4. TypeOK'
    BY <1>2, <2>3 DEF KcdInv, TypeOK
  <2>5. send_size <= MAX_CMD_SIZE /\ send_buf[0] = PERCENT
    BY <2>1, Sizes DEF Invalid, KcdInv, TypeOK
  <2> QED
    BY <1>2, <2>1, <2>4, <2>5 DEF KcdInv, LookedUp
<1> QED
  BY <1>1, <1>2 DEF EnterCommand

\* What SendCommand finds when it delivers: a line of at least two characters
\* that is a command, and the task that registered its identifier.
LEMMA DeliveredIs ==
  ASSUME KcdInv, recv_tid # NOBODY, KnownTask, LongEnough
  PROVE  /\ send_size \in 2 .. MAX_CMD_SIZE
         /\ send_buf[0] = PERCENT
         /\ send_buf[1] \in Ids
         /\ recv_tid \in Tasks
         /\ key_tid_array[send_buf[1]] = recv_tid
<1>1. /\ send_size <= MAX_CMD_SIZE
      /\ send_buf[0] = PERCENT
      /\ send_buf[1] \in Ids
      /\ recv_tid = AsTaskId(key_tid_array[send_buf[1]])
  BY DEF KcdInv, LookedUp
<1>2. key_tid_array[send_buf[1]] \in Tasks \cup {UNREGISTERED}
  BY <1>1 DEF KcdInv, TypeOK
<1>3. recv_tid \in Tasks
  BY DEF KnownTask, KcdInv, TypeOK
<1>4. key_tid_array[send_buf[1]] # UNREGISTERED
  BY <1>1, <1>3, TaskIds
<1> QED
  BY <1>1, <1>2, <1>3, <1>4, TaskIds, Sizes DEF LongEnough, KcdInv, TypeOK

LEMMA SendCommandKeeps ==
  ASSUME KcdInv, SendCommand
  PROVE  KcdInv'
<1>1. CASE delivered' = NOBODY
  BY <1>1, Sizes DEF KcdInv, TypeOK, LookedUp, SendCommand
<1>2. CASE KnownTask /\ LongEnough /\ delivered' = [to |-> recv_tid, text |-> Text]
  <2>1. recv_tid \in Tasks /\ send_size \in 2 .. MAX_CMD_SIZE
    BY <1>2, DeliveredIs DEF SendCommand
  <2>2. Text \in [1 .. send_size - 1 -> Chars \cup Ids \cup {NUL}] /\ send_size - 1 \in Nat
    BY <2>1, Sizes DEF Text, Index, KcdInv, TypeOK
  <2>3. Len(Text) = send_size - 1
    BY <2>2
  <2>4. delivered'.to \in Tasks /\ Len(delivered'.text) >= 1
    BY <1>2, <2>1, <2>3, Sizes
  <2>5. TypeOK'
    BY <2>4, Sizes DEF KcdInv, TypeOK, SendCommand
  <2> QED
    BY <2>5 DEF KcdInv, LookedUp, SendCommand
<1> QED
  BY <1>1, <1>2 DEF SendCommand

LEMMA ComeOrGoKeeps ==
  ASSUME KcdInv, ComeOrGo
  PROVE  KcdInv'
BY DEF KcdInv, TypeOK, LookedUp, ComeOrGo

LEMMA NextKcdInv == KcdInv /\ [Next]_vars => KcdInv'
<1> SUFFICES ASSUME KcdInv, [Next]_vars
             PROVE  KcdInv'
  OBVIOUS
<1>1. ASSUME NEW c \in Ids, NEW t \in Tasks, Register(c, t)
      PROVE  KcdInv'
  BY <1>1, RegisterKeeps
<1>2. ASSUME NEW c \in Chars \cup Ids, Key(c)
      PROVE  KcdInv'
  BY <1>2, KeyKeeps
<1>3. CASE EnterInvalid
  BY <1>3, ResetKeeps DEF EnterInvalid
<1>4. CASE UNCHANGED vars
  BY <1>4 DEF vars, KcdInv, TypeOK, LookedUp
<1> QED
  BY <1>1, <1>2, <1>3, <1>4, EnterCommandKeeps, SendCommandKeeps, ComeOrGoKeeps DEF Next

LEMMA AlwaysKcdInv == Spec => []KcdInv
BY InitKcdInv, NextKcdInv, PTL DEF Spec

\* For any size of buffer and length of line: nothing is stored outside the
\* buffer, and no command without a byte of text leaves the decoder, though
\* Enter is tested against what older lines left in the buffer.
THEOREM TypeCorrect == Spec => []TypeOK
<1>1. KcdInv => TypeOK
  BY DEF KcdInv
<1> QED
  BY <1>1, AlwaysKcdInv, PTL

-----------------------------------------------------------------------------

LEMMA InitSeen == Init => Abstract!Init
<1> SUFFICES ASSUME Init
             PROVE  Abstract!Init
  OBVIOUS
<1>1. LineOf(send_buf, 0) = <<>>
  BY DEF LineOf
<1>2. Named(key_tid_array) = [c \in Ids |-> NOBODY]
  BY DEF Init, Named
<1> QED
  BY <1>1, <1>2 DEF Init, Abstract!Init, LineOf, Named

LEMMA RegisterSeen ==
  ASSUME KcdInv, NEW c \in Ids, NEW t \in Tasks, Register(c, t)
  PROVE  Abstract!Register(c, t)
<1>1. Named(key_tid_array') = [Named(key_tid_array) EXCEPT ![c] = t]
  BY TaskIds DEF Named, Register, KcdInv, TypeOK
<1> QED
  BY <1>1 DEF Register, Abstract!Register, Named

LEMMA KeySeen ==
  ASSUME KcdInv, NEW c \in Chars \cup Ids, Key(c)
  PROVE  Abstract!Next
<1>1. /\ send_buf \in [Index -> Typed] /\ send_size \in Nat /\ c \in Typed
      /\ Len(LineOf(send_buf, send_size)) = send_size
  BY LineIsSequence, Sizes DEF KcdInv, TypeOK, Typed
<1>2. CASE Deletes(c)
  <2>1. send_size \in Nat \ {0} /\ send_size' = send_size - 1 /\ send_buf' = send_buf
    BY <1>1, <1>2 DEF Key, Deletes
  <2>2. LineOf(send_buf', send_size')
          = SubSeq(LineOf(send_buf, send_size), 1, Len(LineOf(send_buf, send_size)) - 1)
    BY <1>1, <2>1, LineShrinks
  <2>3. LineOf(send_buf, send_size) # <<>>
    BY <1>1, <2>1
  <2>4. Abstract!Backspace
    BY <2>2, <2>3 DEF Key, Abstract!Backspace, LineOf
  <2> QED
    BY <2>4 DEF Abstract!Next
<1>3. CASE ~ Deletes(c)
  <2>1. send_size < MAX_LINE /\ send_buf' = Stored(c) /\ send_size' = send_size + 1
    BY <1>3 DEF Key
  <2>2. LineOf(send_buf', send_size')
          = Append(LineOf(send_buf, send_size), IF send_size > MAX_CMD_SIZE THEN LOST ELSE c)
    BY <1>1, <2>1, LineGrows DEF Stored
  <2>3. Abstract!Type(c)
    BY <1>1, <2>1, <2>2 DEF Key, Abstract!Type, LineOf
  <2> QED
    BY <2>3 DEF Abstract!Next
<1> QED
  BY <1>2, <1>3

LEMMA ResetSeen ==
  ASSUME Reset
  PROVE  Abstract!Discard
<1>1. LineOf(send_buf', 0) = <<>>
  BY DEF LineOf
<1> QED
  BY <1>1 DEF Reset, Abstract!Discard, LineOf

LEMMA SendCommandSeen ==
  ASSUME KcdInv, SendCommand
  PROVE  Abstract!Next
<1>1. LineOf(send_buf', send_size') = <<>>
  BY DEF LineOf, SendCommand
<1>2. CASE delivered' = NOBODY
  <2>1. Abstract!Discard
    BY <1>1, <1>2 DEF SendCommand, Abstract!Discard, LineOf
  <2> QED
    BY <2>1 DEF Abstract!Next
<1>3. CASE KnownTask /\ LongEnough /\ delivered' = [to |-> recv_tid, text |-> Text]
  <2>1. /\ send_size \in 2 .. MAX_CMD_SIZE
        /\ send_buf[0] = PERCENT
        /\ send_buf[1] \in Ids
        /\ recv_tid \in Tasks
        /\ key_tid_array[send_buf[1]] = recv_tid
    BY <1>3, DeliveredIs DEF SendCommand
  <2>2. send_buf \in [Index -> Typed] /\ send_size \in Nat
    BY DEF KcdInv, TypeOK, Typed
  <2> DEFINE line == LineOf(send_buf, send_size)
  <2>3. /\ Len(line) \in 2 .. MAX_CMD_SIZE
        /\ line[1] = PERCENT
        /\ line[2] = send_buf[1]
        /\ Tail(line) = Text
    BY <2>1, <2>2, LineIsSequence, LineTail DEF Text
  <2>4. Named(key_tid_array)[line[2]] = recv_tid
    BY <2>1, <2>3, TaskIds DEF Named
  <2>5. recv_tid \in alive
    BY <1>3 DEF KnownTask
  <2> HIDE DEF line
  <2>6. /\ line = [i \in 1 .. send_size |-> IF i - 1 \in Index THEN send_buf[i - 1] ELSE LOST]
        /\ Named(key_tid_array) = [c \in Ids |-> IF key_tid_array[c] = UNREGISTERED THEN NOBODY
                                                 ELSE key_tid_array[c]]
    BY DEF line, LineOf, Named
  <2>7. Abstract!IsCommand
    BY <2>1, <2>3, <2>6 DEF Abstract!IsCommand
  <2>8. /\ UNCHANGED <<key_tid_array, alive>>
        /\ delivered' = [to |-> Named(key_tid_array)[line[2]], text |-> Tail(line)]
    BY <1>3, <2>3, <2>4 DEF SendCommand
  <2>9. Named(key_tid_array)[line[2]] \in alive
    BY <2>4, <2>5
  <2>10. Abstract!Hand
    BY <1>1, <2>6, <2>7, <2>8, <2>9 DEF Abstract!Hand, LineOf
  <2> QED
    BY <2>10 DEF Abstract!Next
<1> QED
  BY <1>2, <1>3 DEF SendCommand

LEMMA EnterCommandSeen ==
  ASSUME KcdInv, EnterCommand
  PROVE  Abstract!Next
<1>1. CASE Reset
  BY <1>1, ResetSeen DEF Abstract!Next
<1>2. CASE /\ delivered' = NOBODY
           /\ UNCHANGED <<send_buf, send_size, key_tid_array, alive>>
  <2>1. Abstract!Wait
    BY <1>2 DEF Abstract!Wait
  <2> QED
    BY <2>1 DEF Abstract!Next
<1> QED
  BY <1>1, <1>2 DEF EnterCommand

\* kcd_task.c and ascii_array.c implement the command line.  The buffer of
\* older lines, the end of a line that is too long, the mark that never tests
\* equal and the tasks that come and go between lookup and send show in nothing
\* a task is sent.
THEOREM Refinement == Spec => ImplementsCommandLine
<1>1. KcdInv /\ [Next]_vars => [Abstract!Next]_(Abstract!vars)
  <2> SUFFICES ASSUME KcdInv, [Next]_vars
               PROVE  [Abstract!Next]_(Abstract!vars)
    OBVIOUS
  <2>1. ASSUME NEW c \in Ids, NEW t \in Tasks, Register(c, t)
        PROVE  Abstract!Next
    BY <2>1, RegisterSeen DEF Abstract!Next
  <2>2. ASSUME NEW c \in Chars \cup Ids, Key(c)
        PROVE  Abstract!Next
    BY <2>2, KeySeen
  <2>3. CASE EnterInvalid
    BY <2>3, ResetSeen DEF EnterInvalid, Abstract!Next
  <2>4. CASE ComeOrGo
    <3>1. Abstract!ComeOrGo
      BY <2>4 DEF ComeOrGo, Abstract!ComeOrGo
    <3> QED
      BY <3>1 DEF Abstract!Next
  <2>5. CASE UNCHANGED vars
    BY <2>5 DEF vars, Abstract!vars
  <2> QED
    BY <2>1, <2>2, <2>3, <2>4, <2>5, EnterCommandSeen, SendCommandSeen DEF Next
<1> QED
  BY <1>1, InitSeen, AlwaysKcdInv, PTL DEF Spec, ImplementsCommandLine, Abstract!Spec
=============================================================================
