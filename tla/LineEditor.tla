----------------------------- MODULE LineEditor -----------------------------
(***************************************************************************)
(* The shell's line editor and its command history (kernel/shell.c).       *)
(*                                                                         *)
(* shell_run takes one character at a time from the keyboard and gives it  *)
(* to shell_handle_input, which edits current_line in place, moves the     *)
(* cursor, walks the history ring, or runs the command.  Each branch of    *)
(* shell_handle_input is one action, with the shell_redraw_line or the     *)
(* process_command call that ends it.                                      *)
(*                                                                         *)
(* A character is a letter or the blank.  The screen is cut down to the    *)
(* row of the prompt and the row below it, the only ones a line of at most *)
(* 2 * Columns - PromptLen characters is drawn on.  The newlines a command *)
(* prints put the next prompt on rows that were blank.                     *)
(*                                                                         *)
(* `log' is not a variable of the program: it lists the commands saved so  *)
(* far, for the properties to say what a recall ought to bring back.       *)
(***************************************************************************)
EXTENDS Naturals, Sequences

CONSTANTS
  Letter,         \* the printable characters other than the blank
  Blank,          \* ' '
  NUL,            \* '\0'
  MAX_CMD_LEN,    \* bytes of current_line
  HISTORY_SIZE,   \* slots of history_buffer
  PromptLen,      \* strlen(PROMPT)
  Columns,        \* columns of the text screen, 80
  MaxCommands     \* bound: commands saved in a run

ASSUME EditorAssumption ==
  /\ MAX_CMD_LEN \in Nat \ {0} /\ HISTORY_SIZE \in Nat \ {0}
  /\ PromptLen \in Nat /\ Columns \in Nat /\ MaxCommands \in Nat
  /\ PromptLen < Columns
  /\ PromptLen + MAX_CMD_LEN <= 2 * Columns + 1
  /\ Blank # NUL /\ {Blank, NUL} \cap Letter = {}

VARIABLES
  current_line,    \* the edited bytes, a C array
  cursor_pos, line_len,
  history_buffer, history_count, history_index,
  cells,           \* what the prompt's row and the next one show
  log              \* the commands saved so far

vars == << current_line, cursor_pos, line_len, history_buffer, history_count,
           history_index, cells, log >>
history == << history_buffer, history_count, log >>

Char == Letter \cup {Blank}
Bytes == 0 .. MAX_CMD_LEN - 1
Area == PromptLen .. 2 * Columns - 1   \* the cells after the prompt

\* strlen: the index of the first '\0'.
strlen(s) == CHOOSE n \in Bytes : s[n] = NUL /\ \A i \in 0 .. n - 1 : s[i] # NUL

\* The n bytes at the front of a buffer, as a sequence.
Front(s, n) == [k \in 1 .. n |-> s[k - 1]]

\* strncpy into a buffer of MAX_CMD_LEN bytes: the text, then padding.
Buffer(t) == [i \in Bytes |-> IF i < Len(t) THEN t[i + 1] ELSE NUL]

\* The text from its first character that is not a blank.
Trim(t) ==
  LET n == CHOOSE n \in 0 .. Len(t) :
             /\ \A i \in 1 .. n : t[i] = Blank
             /\ n < Len(t) => t[n + 1] # Blank
  IN  SubSeq(t, n + 1, Len(t))

\* The text up to its last character that is not a blank.
Chop(t) ==
  LET n == CHOOSE n \in 0 .. Len(t) :
             /\ \A i \in n + 1 .. Len(t) : t[i] = Blank
             /\ n > 0 => t[n] # Blank
  IN  SubSeq(t, 1, n)

\* What the user is editing, and what the screen shows of it.
Line == Front(current_line, line_len)
Shown == [k \in 1 .. 2 * Columns - PromptLen |-> cells[PromptLen + k - 1]]
-------------------------------------------------------------------------------
(* The screen *)

\* print_string(PROMPT) on a row of its own.
FreshPrompt == cells' = [c \in Area |-> Blank]

\* Mutant: the row is not erased before the line is written.
Redraw_NoErase ==
  cells' = [c \in Area |->
              IF c < PromptLen + line_len' THEN current_line'[c - PromptLen]
              ELSE cells[c]]

\* shell_redraw_line(): erases the prompt's row only, then writes the line,
\* which may run on into the next row.
Redraw ==
  cells' = [c \in Area |->
              IF c < PromptLen + line_len' THEN current_line'[c - PromptLen]
              ELSE IF c < Columns THEN Blank ELSE cells[c]]
-------------------------------------------------------------------------------
(* shell_handle_input(), one action for each kind of key *)

ArrowLeft ==
  /\ cursor_pos > 0
  /\ cursor_pos' = cursor_pos - 1
  /\ UNCHANGED << current_line, line_len, history, history_index >>
  /\ Redraw

ArrowRight ==
  /\ cursor_pos < line_len
  /\ cursor_pos' = cursor_pos + 1
  /\ UNCHANGED << current_line, line_len, history, history_index >>
  /\ Redraw

\* A recalled command replaces the line and leaves the cursor at its end.
Recall(s) ==
  /\ current_line' = s
  /\ line_len' = strlen(s)
  /\ cursor_pos' = strlen(s)
  /\ UNCHANGED history
  /\ Redraw

ArrowUp ==
  /\ history_index > 0
  /\ history_index' = history_index - 1
  /\ Recall(history_buffer[history_index' % HISTORY_SIZE])

ArrowDown ==
  /\ history_index < history_count
  /\ history_index' = history_index + 1
  /\ Recall(IF history_index' = history_count
              THEN [current_line EXCEPT ![0] = NUL]
              ELSE history_buffer[history_index' % HISTORY_SIZE])

Backspace ==
  /\ cursor_pos > 0
  /\ line_len' = line_len - 1
  /\ cursor_pos' = cursor_pos - 1
  /\ current_line' = [i \in Bytes |->
                        IF i = line_len - 1 THEN NUL
                        ELSE IF i \in cursor_pos - 1 .. line_len - 2
                               THEN current_line[i + 1]
                               ELSE current_line[i]]
  /\ UNCHANGED << history, history_index >>
  /\ Redraw

\* c goes in at the cursor of a line that ends before byte `limit'.
InsertBefore(limit, c) ==
  /\ line_len < limit
  /\ line_len' = line_len + 1
  /\ cursor_pos' = cursor_pos + 1
  /\ current_line' = [i \in Bytes |->
                        IF i = cursor_pos THEN c
                        ELSE IF i \in cursor_pos + 1 .. line_len
                               THEN current_line[i - 1]
                               ELSE current_line[i]]
  /\ UNCHANGED << history, history_index >>
  /\ Redraw

\* Mutant: no byte is kept for the terminator.
Insert_Full(c) == InsertBefore(MAX_CMD_LEN, c)

Insert(c) == InsertBefore(MAX_CMD_LEN - 1, c)

\* Enter: the terminator is stored, then process_command() runs on the line s.
\* Only blanks: a new prompt, and the line stays as it is.
EnterBlank ==
  LET s == [current_line EXCEPT ![line_len] = NUL]
  IN  /\ Trim(Front(s, strlen(s))) = << >>
      /\ current_line' = s
      /\ UNCHANGED << cursor_pos, line_len, history, history_index >>
      /\ FreshPrompt

\* The command in s is saved in the ring and run; the line is cleared.
Run(s) ==
  LET command == Trim(Front(s, strlen(s)))
  IN  /\ command # << >>
      /\ history_count < MaxCommands
      /\ history_buffer' = [history_buffer EXCEPT
                              ![history_count % HISTORY_SIZE] = Buffer(command)]
      /\ history_count' = history_count + 1
      /\ history_index' = history_count + 1
      /\ log' = Append(log, Trim(Line))
      /\ current_line' = Buffer(<< >>)
      /\ line_len' = 0
      /\ cursor_pos' = 0
      /\ FreshPrompt

\* Mutant: the terminator is not stored, so old bytes follow the line.
EnterCommand_Open ==
  Run([current_line EXCEPT ![MAX_CMD_LEN - 1] = NUL])

EnterCommand == Run([current_line EXCEPT ![line_len] = NUL])

\* shell_init()
Init ==
  /\ current_line = Buffer(<< >>)
  /\ cursor_pos = 0
  /\ line_len = 0
  /\ history_buffer = [i \in 0 .. HISTORY_SIZE - 1 |-> Buffer(<< >>)]
  /\ history_count = 0
  /\ history_index = 0
  /\ cells = [c \in Area |-> Blank]
  /\ log = << >>

Next ==
  \/ ArrowLeft \/ ArrowRight \/ ArrowUp \/ ArrowDown \/ Backspace
  \/ \E c \in Char : Insert(c)
  \/ EnterBlank \/ EnterCommand

Spec == Init /\ [][Next]_vars
-------------------------------------------------------------------------------
(* Properties *)

\* The cursor is within the line and the line leaves room for its terminator,
\* whatever keys are pressed in whatever order; the history index never passes
\* the count.
TypeOK ==
  /\ current_line \in [Bytes -> Char \cup {NUL}]
  /\ line_len \in Bytes
  /\ cursor_pos \in 0 .. line_len
  /\ history_buffer \in [0 .. HISTORY_SIZE - 1 -> [Bytes -> Char \cup {NUL}]]
  /\ history_count \in 0 .. MaxCommands
  /\ history_index \in 0 .. history_count
  /\ cells \in [Area -> Char \cup {NUL}]

\* Up to blanks at either end, what stands after the prompt is the line that
\* Enter would run: shell_redraw_line "correctly redraws the shell's current
\* line", and the blank line that EnterBlank keeps hidden changes no command.
ShownIsWhatRuns == Chop(Trim(Shown)) = Chop(Trim(Line))

\* An arrow key that lands on one of the last HISTORY_SIZE commands brings back
\* exactly what was typed, although the ring is overwritten, the buffer holds
\* bytes of earlier lines and the line was edited in between.
RecallsTheCommand ==
  [][ history_index' # history_index /\ history_index' < history_count'
        /\ history_index' + HISTORY_SIZE >= history_count'
      => Line' = log[history_index' + 1] ]_vars
=============================================================================
