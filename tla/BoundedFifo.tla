----------------------------- MODULE BoundedFifo ------------------------------
(***************************************************************************)
(* What the keyboard buffer promises its reader: the characters typed, in  *)
(* order, each once, at most Cap of them waiting.  Clearing the queue is   *)
(* one atomic step.  A character that is not put is lost.                  *)
(***************************************************************************)
EXTENDS Naturals, Sequences

CONSTANTS Char,    \* the characters
          NoChar,  \* no character
          Cap      \* the most that wait

VARIABLES queue,   \* characters waiting, oldest first
          out      \* the character taken last

fifoVars == <<queue, out>>

Init ==
  /\ queue = <<>>
  /\ out = NoChar

Put(c) ==
  /\ Len(queue) < Cap
  /\ queue' = Append(queue, c)
  /\ UNCHANGED out

Take ==
  /\ queue # <<>>
  /\ out' = Head(queue)
  /\ queue' = Tail(queue)

Clear ==
  /\ queue' = <<>>
  /\ UNCHANGED out

Next == Take \/ Clear \/ \E c \in Char : Put(c)

Spec == Init /\ [][Next]_fifoVars
===============================================================================
