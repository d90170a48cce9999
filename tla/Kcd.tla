--------------------------------- MODULE Kcd ---------------------------------
(***************************************************************************)
(* The keyboard command decoder: app/kcd_task.c and the table of           *)
(* lib/ascii_array.c.  One action is one message that the task receives,   *)
(* but a command is looked up in one step and sent in another: other tasks *)
(* run in between and may come and go.                                     *)
(*                                                                         *)
(* A backspace typed on an empty line is stored like any other character.  *)
(***************************************************************************)
EXTENDS Integers, Sequences

CONSTANTS
  MAX_CMD_SIZE,  \* MAX_CMD_SIZE (64)
  MAX_LINE,      \* bound: send_size counts on, but nobody types a longer line
  MAX_TASKS,     \* task ids are below it
  Ids,           \* letters and digits: char_to_index is not -1
  Chars,         \* other characters, PERCENT and BACKSPACE_KEY among them
  PERCENT,
  BACKSPACE_KEY,
  NUL,           \* what send_buf holds at first
  LOST,          \* a character that was typed but not stored
  NOBODY,
  Tasks          \* the tasks there may be

ASSUME SizeAssumption == MAX_CMD_SIZE \in Nat /\ MAX_CMD_SIZE >= 2 /\ MAX_LINE \in Nat
ASSUME TasksAssumption == MAX_TASKS \in 1 .. 231 /\ Tasks \subseteq 1 .. MAX_TASKS - 1
ASSUME CharsAssumption ==
  {PERCENT, BACKSPACE_KEY} \subseteq Chars /\ Chars \cap Ids = {} /\ NUL \notin Chars \cup Ids
\* Nobody is no task, and no task id.
ASSUME NobodyAssumption == NOBODY \notin 0 .. 255

\* The mark of an identifier that nobody has registered ...
UNREGISTERED == 999

\* ... and what is left of an int that is read into a task_t.
AsTaskId(n) == n % 256

VARIABLES
  send_buf,       \* the characters of the line; not cleared between lines
  send_size,      \* how many were typed
  key_tid_array,  \* task id registered for every identifier
  recv_tid,       \* the task a command is about to be sent to, or NOBODY
  alive,          \* tasks that are not dormant
  delivered       \* the command k_send_msg has just accepted, or NOBODY

vars == <<send_buf, send_size, key_tid_array, recv_tid, alive, delivered>>

\* send_buf has one place more than the longest command.
Index == 0 .. MAX_CMD_SIZE

Init ==
  /\ send_buf = [i \in Index |-> NUL]
  /\ send_size = 0
  /\ key_tid_array = [c \in Ids |-> UNREGISTERED]
  /\ recv_tid = NOBODY
  /\ alive \in SUBSET Tasks
  /\ delivered = NOBODY

Receiving == recv_tid = NOBODY

\* A KCD_REG message from t, which may have exited since it sent it.
Register(c, t) ==
  /\ Receiving
  /\ key_tid_array' = [key_tid_array EXCEPT ![c] = t]
  /\ delivered' = NOBODY
  /\ UNCHANGED <<send_buf, send_size, recv_tid, alive>>

\* Seeded fault: the bound of the buffer is one too high for what is kept.
StoredBelowMax(c) ==
  IF send_size < MAX_CMD_SIZE THEN [send_buf EXCEPT ![send_size] = c] ELSE send_buf

\* Characters beyond the buffer are counted and not stored.
Stored(c) ==
  IF send_size <= MAX_CMD_SIZE THEN [send_buf EXCEPT ![send_size] = c] ELSE send_buf

Deletes(c) == c = BACKSPACE_KEY /\ send_size > 0

\* A key other than Enter.
Key(c) ==
  /\ Receiving
  /\ IF Deletes(c)
     THEN send_size' = send_size - 1 /\ UNCHANGED send_buf
     ELSE /\ send_size < MAX_LINE
          /\ send_buf' = Stored(c)
          /\ send_size' = send_size + 1
  /\ delivered' = NOBODY
  /\ UNCHANGED <<key_tid_array, recv_tid, alive>>

Invalid == send_size > MAX_CMD_SIZE \/ send_buf[0] # PERCENT

\* The line is given up with a message on the terminal.
Reset ==
  /\ send_size' = 0
  /\ delivered' = NOBODY
  /\ UNCHANGED <<send_buf, key_tid_array, recv_tid, alive>>

\* Enter on a line that is no command, or whose identifier no task can have.
EnterInvalid ==
  /\ Receiving
  /\ Invalid \/ send_buf[1] \notin Ids
  /\ Reset

\* Enter on a command: the task is looked up.  UNREGISTERED does not survive
\* the conversion, so the test for it never succeeds, and the state of a task
\* id beyond the table is read from whatever memory follows it.
EnterCommand ==
  /\ Receiving
  /\ ~ Invalid
  /\ send_buf[1] \in Ids
  /\ \E dormant \in BOOLEAN :
       LET t == AsTaskId(key_tid_array[send_buf[1]])
       IN /\ t < MAX_TASKS => dormant = (t \notin alive)
          /\ IF t = UNREGISTERED \/ dormant
             THEN Reset
             ELSE /\ recv_tid' = t
                  /\ delivered' = NOBODY
                  /\ UNCHANGED <<send_buf, send_size, key_tid_array, alive>>

\* Seeded fault: a line that ends before its identifier is sent.
AnyLength == TRUE

\* k_send_msg wants one byte behind the header.
LongEnough == send_size - 1 >= 1

KnownTask == recv_tid < MAX_TASKS /\ recv_tid \in alive

\* What is sent: the line without its percent sign.
Text == [i \in 1 .. send_size - 1 |-> send_buf[i]]

\* send_msg to the task that was looked up, which may have gone, or have no
\* mailbox or no room in it.
SendCommand ==
  /\ recv_tid # NOBODY
  /\ \E room \in BOOLEAN :
       delivered' = IF KnownTask /\ LongEnough /\ room
                    THEN [to |-> recv_tid, text |-> Text] ELSE NOBODY
  /\ recv_tid' = NOBODY
  /\ send_size' = 0
  /\ UNCHANGED <<send_buf, key_tid_array, alive>>

\* Tasks exit and are created.
ComeOrGo ==
  /\ alive' \in SUBSET Tasks
  /\ UNCHANGED <<send_buf, send_size, key_tid_array, recv_tid, delivered>>

Next ==
  \/ \E c \in Ids, t \in Tasks : Register(c, t)
  \/ \E c \in Chars \cup Ids : Key(c)
  \/ EnterInvalid \/ EnterCommand \/ SendCommand \/ ComeOrGo

Spec == Init /\ [][Next]_vars

-----------------------------------------------------------------------------
\* The line, the table and the command stay in their ranges; in particular a
\* command carries at least one byte, though Enter is tested against a buffer
\* that still holds an older line (kcd_task.c, k_send_msg).
TypeOK ==
  /\ send_buf \in [Index -> Chars \cup Ids \cup {NUL}]
  /\ send_size \in 0 .. MAX_LINE
  /\ key_tid_array \in [Ids -> Tasks \cup {UNREGISTERED}]
  /\ recv_tid \in Tasks \cup {NOBODY, AsTaskId(UNREGISTERED)}
  /\ alive \in SUBSET Tasks
  /\ delivered = NOBODY \/ (delivered.to \in Tasks /\ Len(delivered.text) >= 1)

\* The decoder implements the command line: what a task is sent is what was
\* typed since the last Enter, although the buffer still holds older lines, the
\* end of a long line is not stored, and an unregistered identifier is looked
\* up like a registered one.
Abstract == INSTANCE CommandLine WITH
  line       <- [i \in 1 .. send_size |-> IF i - 1 \in Index THEN send_buf[i - 1] ELSE LOST],
  registered <- [c \in Ids |-> IF key_tid_array[c] = UNREGISTERED THEN NOBODY
                               ELSE key_tid_array[c]]

ImplementsCommandLine == Abstract!Spec
=============================================================================
