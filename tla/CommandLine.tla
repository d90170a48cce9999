----------------------------- MODULE CommandLine -----------------------------
(***************************************************************************)
(* What the keyboard command decoder promises: a command is the line typed *)
(* since the last Enter, as the backspaces left it; it goes to the task    *)
(* registered for the identifier behind its percent sign, and a line that  *)
(* is no command, or one for which no task is there, goes to nobody.       *)
(***************************************************************************)
EXTENDS Integers, Sequences

CONSTANTS
  MAX_CMD_SIZE,  \* the longest command, with its percent sign
  MAX_LINE,      \* bound: the longest line anyone types
  Ids,           \* characters that may name a task
  Chars,         \* the other characters that may be typed, PERCENT among them
  PERCENT,
  LOST,          \* a character so far out that no command reaches it
  NOBODY,
  Tasks

VARIABLES
  line,        \* the characters typed since the last Enter
  registered,  \* the task registered for every identifier, or NOBODY
  alive,       \* the tasks that are not dormant
  delivered    \* [to, text] while a command is handed over, or NOBODY

vars == <<line, registered, alive, delivered>>

Init ==
  /\ line = <<>>
  /\ registered = [c \in Ids |-> NOBODY]
  /\ alive \in SUBSET Tasks
  /\ delivered = NOBODY

Type(c) ==
  /\ Len(line) < MAX_LINE
  /\ line' = Append(line, IF Len(line) > MAX_CMD_SIZE THEN LOST ELSE c)
  /\ delivered' = NOBODY
  /\ UNCHANGED <<registered, alive>>

Backspace ==
  /\ line # <<>>
  /\ line' = SubSeq(line, 1, Len(line) - 1)
  /\ delivered' = NOBODY
  /\ UNCHANGED <<registered, alive>>

IsCommand == Len(line) \in 2 .. MAX_CMD_SIZE /\ line[1] = PERCENT /\ line[2] \in Ids

\* The percent sign is not passed on.  The task may have no room for it.
Hand ==
  /\ IsCommand
  /\ registered[line[2]] \in alive
  /\ delivered' = [to |-> registered[line[2]], text |-> Tail(line)]
  /\ line' = <<>>
  /\ UNCHANGED <<registered, alive>>

Discard ==
  /\ line' = <<>>
  /\ delivered' = NOBODY
  /\ UNCHANGED <<registered, alive>>

Register(c, t) ==
  /\ registered' = [registered EXCEPT ![c] = t]
  /\ delivered' = NOBODY
  /\ UNCHANGED <<line, alive>>

ComeOrGo ==
  /\ alive' \in SUBSET Tasks
  /\ UNCHANGED <<line, registered, delivered>>

\* The decoder takes notice that the last command has been handed over.
Wait ==
  /\ delivered' = NOBODY
  /\ UNCHANGED <<line, registered, alive>>

Next ==
  \/ \E c \in Chars \cup Ids : Type(c)
  \/ Backspace \/ Hand \/ Discard \/ ComeOrGo \/ Wait
  \/ \E c \in Ids, t \in Tasks : Register(c, t)

Spec == Init /\ [][Next]_vars
=============================================================================
