------------------------------- MODULE Keyboard -------------------------------
(***************************************************************************)
(* The keyboard driver: keyboard_handler() fills a ring buffer from an     *)
(* interrupt, keyboard_read_char() and keyboard_flush() empty it with      *)
(* interrupts enabled and without a lock.  There is one reader at a time   *)
(* (Scheduler, OneKeyboardReader), so the reader is one process here; the  *)
(* interrupt may come between any two of its accesses to the indices.      *)
(***************************************************************************)
EXTENDS Naturals, Sequences

CONSTANTS
  KBD_BUFFER_SIZE, \* slots of the ring; one stays empty
  Key,             \* keys with a character
  ShiftKey         \* the shift keys

ASSUME SizeAssumption == KBD_BUFFER_SIZE \in Nat /\ KBD_BUFFER_SIZE >= 2

VARIABLES
  buffer,        \* kbd_buffer
  read_idx,      \* kbd_buffer_read_idx
  write_idx,     \* kbd_buffer_write_idx
  shift_pressed,
  held,          \* shift keys that are down
  reader,        \* where the reader is
  local,         \* the character keyboard_read_char() has loaded
  target,        \* the index keyboard_flush() has loaded
  result         \* the character returned last

vars == <<buffer, read_idx, write_idx, shift_pressed, held, reader, local, target,
          result>>
readerVars == <<read_idx, reader, local, target, result>>

Index == 0 .. KBD_BUFFER_SIZE - 1

\* A key gives one of two characters, depending on the shift flag.
Char == Key \X BOOLEAN
NoChar == <<"none", FALSE>>

Succ(i) == (i + 1) % KBD_BUFFER_SIZE
-------------------------------------------------------------------------------
(* keyboard_handler(): runs to its end with interrupts disabled *)

ShiftPress(s) ==
  /\ s \notin held
  /\ held' = held \cup {s}
  /\ shift_pressed' = TRUE
  /\ UNCHANGED <<buffer, write_idx, readerVars>>

\* Mutant: the release of only one of the shift keys is handled.
ShiftRelease_One(s) ==
  /\ s \in held
  /\ held' = held \ {s}
  /\ shift_pressed' = (shift_pressed /\ s # CHOOSE t \in ShiftKey : TRUE)
  /\ UNCHANGED <<buffer, write_idx, readerVars>>

ShiftRelease(s) ==
  /\ s \in held
  /\ held' = held \ {s}
  /\ shift_pressed' = FALSE
  /\ UNCHANGED <<buffer, write_idx, readerVars>>

\* Mutant: the ring is taken for full when no slot is empty.
KeyPress_NoGap(k) ==
  /\ buffer' = [buffer EXCEPT ![write_idx] = <<k, shift_pressed>>]
  /\ write_idx' = Succ(write_idx)
  /\ UNCHANGED <<shift_pressed, held, readerVars>>

\* A character is stored if that leaves a slot empty, and dropped otherwise.
KeyPress(k) ==
  /\ \/ /\ Succ(write_idx) # read_idx
        /\ buffer' = [buffer EXCEPT ![write_idx] = <<k, shift_pressed>>]
        /\ write_idx' = Succ(write_idx)
     \/ /\ Succ(write_idx) = read_idx
        /\ UNCHANGED <<buffer, write_idx>>
  /\ UNCHANGED <<shift_pressed, held, readerVars>>
-------------------------------------------------------------------------------
(* keyboard_read_char() *)

\* The loop's test; while it fails the reader halts and tests again.
FindChar ==
  /\ reader = "away"
  /\ read_idx # write_idx
  /\ reader' = "found"
  /\ UNCHANGED <<buffer, write_idx, shift_pressed, held, read_idx, local, target, result>>

LoadChar ==
  /\ reader = "found"
  /\ local' = buffer[read_idx]
  /\ reader' = "loaded"
  /\ UNCHANGED <<buffer, write_idx, shift_pressed, held, read_idx, target, result>>

\* The index is advanced and the character returned.
Advance ==
  /\ reader = "loaded"
  /\ read_idx' = Succ(read_idx)
  /\ result' = local
  /\ local' = NoChar
  /\ reader' = "away"
  /\ UNCHANGED <<buffer, write_idx, shift_pressed, held, target>>
-------------------------------------------------------------------------------
(* keyboard_flush(): a load of one index and a store to the other *)

FlushLoad ==
  /\ reader = "away"
  /\ target' = write_idx
  /\ reader' = "flushing"
  /\ UNCHANGED <<buffer, write_idx, shift_pressed, held, read_idx, local, result>>

FlushStore ==
  /\ reader = "flushing"
  /\ read_idx' = target
  /\ target' = 0
  /\ reader' = "away"
  /\ UNCHANGED <<buffer, write_idx, shift_pressed, held, local, result>>
-------------------------------------------------------------------------------
Init ==
  /\ buffer = [i \in Index |-> NoChar]
  /\ read_idx = 0 /\ write_idx = 0
  /\ shift_pressed = FALSE /\ held = {}
  /\ reader = "away"
  /\ local = NoChar /\ target = 0 /\ result = NoChar

Interrupt ==
  \/ \E k \in Key : KeyPress(k)
  \/ \E s \in ShiftKey : ShiftPress(s) \/ ShiftRelease(s)

Reader == FindChar \/ LoadChar \/ Advance \/ FlushLoad \/ FlushStore

Next == Interrupt \/ Reader

Spec == Init /\ [][Next]_vars
-------------------------------------------------------------------------------
\* Both indices stay on the ring as each side advances its own.
TypeOK ==
  /\ buffer \in [Index -> Char \cup {NoChar}]
  /\ read_idx \in Index /\ write_idx \in Index /\ target \in Index
  /\ shift_pressed \in BOOLEAN
  /\ held \subseteq ShiftKey
  /\ reader \in {"away", "found", "loaded", "flushing"}
  /\ local \in Char \cup {NoChar} /\ result \in Char \cup {NoChar}

\* The characters between two indices of the ring.
Distance(r, w) == (w + KBD_BUFFER_SIZE - r) % KBD_BUFFER_SIZE
Contents(r, w) ==
  [i \in 1 .. Distance(r, w) |-> buffer[(r + i - 1) % KBD_BUFFER_SIZE]]

\* A flush counts from the moment it has loaded the write index.
First == IF reader = "flushing" THEN target ELSE read_idx

Fifo == INSTANCE BoundedFifo
          WITH Cap <- KBD_BUFFER_SIZE - 1,
               queue <- Contents(First, write_idx), out <- result

\* The ring is a bounded queue: although the handler and the reader share it
\* without a lock, no character is read twice, skipped, overwritten while it is
\* being read or taken from an empty slot, and a flush drops exactly what was
\* typed before it began.
ImplementsFifo == Fifo!Spec

\* The shift flag cannot stick: with no shift key down, the next character is an
\* unshifted one.
ShiftNeverSticks == held = {} => ~shift_pressed

\* keyboard.c, keyboard_flush(): "This is an atomic operation on x86, so it's
\* safe."  If it were, the buffer would be empty when the flush returns, as its
\* own comment says: "Clears the keyboard buffer".
FlushEmpties == [][reader = "flushing" /\ reader' = "away" => read_idx' = write_idx']_vars
===============================================================================
