---------------------------- MODULE CommandParser ----------------------------
(***************************************************************************)
(* process_command() up to the command dispatch: the line is cut into      *)
(* words in place, by overwriting the blank after each word with the       *)
(* terminator, and argv points at the first MAX_ARGS of them.  The scan is *)
(* a handful of nested loops over one buffer that it is also changing, so  *)
(* each loop test is an action here and the pointers are indices.          *)
(***************************************************************************)
EXTENDS Naturals, Sequences, FiniteSets

CONSTANTS
  Letter, Blank, NUL,
  MAX_CMD_LEN,   \* bytes of current_line
  MAX_ARGS       \* slots of argv

ASSUME ParserAssumption ==
  /\ MAX_CMD_LEN \in Nat \ {0}
  /\ MAX_ARGS \in Nat \ {0}
  /\ Blank # NUL /\ {Blank, NUL} \cap Letter = {}

VARIABLES
  typed,          \* the line as it was entered
  current_line,   \* the buffer being parsed
  start,          \* the first byte that is not a blank
  word_start, word_end,
  argv,           \* argv[0 .. argc-1], as a sequence of indices
  pc              \* which loop the parser is in

vars == << typed, current_line, start, word_start, word_end, argv, pc >>

Bytes == 0 .. MAX_CMD_LEN - 1

\* while (*start == ' ') start++;
TrimStart ==
  /\ pc = "trim"
  /\ IF current_line[start] = Blank
       THEN start' = start + 1 /\ UNCHANGED << word_start, pc >>
       ELSE start' = start /\ word_start' = start /\ pc' = "words"
  /\ UNCHANGED << typed, current_line, word_end, argv >>

\* Mutant: the test for a full argv is missing.
MoreWords_NoLimit ==
  /\ pc = "words"
  /\ IF current_line[word_start] # NUL
       THEN word_end' = word_start /\ pc' = "word"
       ELSE word_end' = word_end /\ pc' = "done"
  /\ UNCHANGED << typed, current_line, start, word_start, argv >>

\* while (*word_start && argc < MAX_ARGS)
MoreWords ==
  /\ pc = "words"
  /\ IF current_line[word_start] # NUL /\ Len(argv) < MAX_ARGS
       THEN word_end' = word_start /\ pc' = "word"
       ELSE word_end' = word_end /\ pc' = "done"
  /\ UNCHANGED << typed, current_line, start, word_start, argv >>

\* while (*word_end && *word_end != ' ') word_end++;
ScanWord ==
  /\ pc = "word"
  /\ current_line[word_end] \notin {NUL, Blank}
  /\ word_end' = word_end + 1
  /\ UNCHANGED << typed, current_line, start, word_start, argv, pc >>

\* Mutant: the word is not terminated.
EndWord_Open ==
  /\ pc = "word"
  /\ current_line[word_end] = Blank
  /\ argv' = Append(argv, word_start)
  /\ word_start' = word_end + 1
  /\ pc' = "skip"
  /\ UNCHANGED << typed, current_line, start, word_end >>

\* A blank ends the word: it becomes the terminator.
EndWord ==
  /\ pc = "word"
  /\ current_line[word_end] = Blank
  /\ argv' = Append(argv, word_start)
  /\ current_line' = [current_line EXCEPT ![word_end] = NUL]
  /\ word_start' = word_end + 1
  /\ pc' = "skip"
  /\ UNCHANGED << typed, start, word_end >>

\* The end of the line ends the word, and the scan.
LastWord ==
  /\ pc = "word"
  /\ current_line[word_end] = NUL
  /\ argv' = Append(argv, word_start)
  /\ pc' = "done"
  /\ UNCHANGED << typed, current_line, start, word_start, word_end >>

\* Mutant: the pointer is not moved.
SkipBlanks_Stuck ==
  /\ pc = "skip"
  /\ current_line[word_start] # Blank
  /\ pc' = "words"
  /\ UNCHANGED << typed, current_line, start, word_start, word_end, argv >>

\* while (*word_start == ' ') word_start++;
SkipBlanks ==
  /\ pc = "skip"
  /\ IF current_line[word_start] = Blank
       THEN word_start' = word_start + 1 /\ UNCHANGED pc
       ELSE pc' = "words" /\ UNCHANGED word_start
  /\ UNCHANGED << typed, current_line, start, word_end, argv >>

\* A line that Enter has terminated.  The bytes after the terminator may be left
\* over from a longer line: one kind of byte fills them here.
Init ==
  /\ typed \in UNION { [1 .. n -> Letter \cup {Blank}] : n \in 0 .. MAX_CMD_LEN - 1 }
  /\ \E old \in Letter \cup {Blank, NUL} :
       current_line = [i \in Bytes |-> IF i < Len(typed) THEN typed[i + 1]
                                       ELSE IF i = Len(typed) THEN NUL ELSE old]
  /\ start = 0
  /\ word_start = 0
  /\ word_end = 0
  /\ argv = << >>
  /\ pc = "trim"

Next ==
  \/ TrimStart \/ MoreWords \/ ScanWord \/ EndWord \/ LastWord \/ SkipBlanks

Spec == Init /\ [][Next]_vars /\ WF_vars(Next)
-------------------------------------------------------------------------------
(* Properties *)

\* Every pointer stays on the line or on its terminator, so no read and no
\* write of the scan leaves current_line; argv never has more than MAX_ARGS
\* entries.
TypeOK ==
  /\ current_line \in [Bytes -> Letter \cup {Blank, NUL}]
  /\ {start, word_start, word_end} \subseteq 0 .. Len(typed)
  /\ argv \in Seq(Bytes) /\ Len(argv) <= MAX_ARGS
  /\ pc \in {"trim", "words", "word", "skip", "done"}

\* The places where a word of the typed line begins, and the word at a place,
\* said without the scan.
WordStarts ==
  { i \in 1 .. Len(typed) : typed[i] # Blank /\ (i = 1 \/ typed[i - 1] = Blank) }
WordAt(i) ==
  SubSeq(typed, i, CHOOSE j \in i .. Len(typed) :
                     /\ \A k \in i .. j : typed[k] # Blank
                     /\ j < Len(typed) => typed[j + 1] = Blank)

\* The C string that starts at a byte of the buffer.
StringAt(b) ==
  LET n == CHOOSE n \in b .. MAX_CMD_LEN - 1 :
             current_line[n] = NUL /\ \A i \in b .. n - 1 : current_line[i] # NUL
  IN  [k \in 1 .. n - b |-> current_line[b + k - 1]]

\* When the commands are looked at, argv holds the words of the typed line in
\* their order, each one whole and terminated, and all of them when they fit:
\* word k of argv is the k-th word, up to MAX_ARGS of them.
ArgvIsTheWords ==
  pc = "done" =>
    /\ Len(argv) = IF Cardinality(WordStarts) <= MAX_ARGS
                     THEN Cardinality(WordStarts) ELSE MAX_ARGS
    /\ \A k \in 1 .. Len(argv) :
         \E i \in WordStarts :
           /\ Cardinality({ j \in WordStarts : j <= i }) = k
           /\ argv[k] = i - 1
           /\ StringAt(argv[k]) = WordAt(i)

\* The scan ends on every line.
ParserEnds == <>(pc = "done")
=============================================================================
