------------------------------ MODULE FileName ------------------------------
(***************************************************************************)
(* fs_find_file() (kernel/fs/fs.c): a name as the user typed it is turned  *)
(* into the padded, upper-case form of a directory entry, NameLen          *)
(* characters and ExtLen characters without a dot, and the root directory  *)
(* is searched for it.                                                     *)
(***************************************************************************)
EXTENDS Naturals, Sequences

CONSTANTS
  NameLen, ExtLen,   \* 8 and 3
  MaxTyped,          \* bound: length of a typed name
  MaxEntries         \* bound: entries of the root directory

ASSUME NameAssumption ==
  NameLen \in Nat \ {0} /\ ExtLen \in Nat \ {0} /\ MaxTyped \in Nat /\ MaxEntries \in Nat

VARIABLES
  filename,         \* what is looked for
  root_directory,   \* a sequence of entries
  offset,           \* the entry the search is at
  phase,            \* "convert", "search" or "done"
  found             \* the index of the entry returned, 0 for NULL

findVars == << filename, root_directory, offset, phase, found >>

\* Characters: a letter in both cases, the dot and the blank used for padding.
toupper(c) == IF c = "a" THEN "A" ELSE c
Typed == {"a", "A", "."}
Pad(s, n) == [k \in 1 .. n |-> IF k <= Len(s) THEN toupper(s[k]) ELSE " "]

\* The characters of s from the i-th on, at most n of them.
Span(s, i, n) == SubSeq(s, i, IF Len(s) < i + n - 1 THEN Len(s) ELSE i + n - 1)

\* The name part: up to a dot, the end or NameLen characters.
BaseLen(s) ==
  CHOOSE n \in 0 .. NameLen :
    /\ n <= Len(s)
    /\ \A k \in 1 .. n : s[k] # "."
    /\ n = Len(s) \/ n = NameLen \/ s[n + 1] = "."

\* Where the extension starts: after a dot, if there is one.
ExtFrom(s) == LET i == BaseLen(s) + 1
              IN  IF i <= Len(s) /\ s[i] = "." THEN i + 1 ELSE i

\* The whole string was used up.
Consumed(s) == ExtFrom(s) + ExtLen > Len(s)
fat_name(s) == << Pad(Span(s, 1, BaseLen(s)), NameLen),
                  Pad(Span(s, ExtFrom(s), ExtLen), ExtLen) >>

\* Directory entries: the end mark, a deleted entry, a part of a long name, the
\* volume label, a file.
Kinds == {"end", "deleted", "lfn", "label", "file"}

Return(i) ==
  /\ phase' = "done"
  /\ found' = i
  /\ UNCHANGED << filename, root_directory, offset >>

\* The name is converted; if some of it is left over there is no such file.
Reject == phase = "convert" /\ ~Consumed(filename) /\ Return(0)
Convert ==
  /\ phase = "convert"
  /\ Consumed(filename)
  /\ phase' = "search"
  /\ UNCHANGED << filename, root_directory, offset, found >>

\* The search is at an entry, and it is of one of these kinds.
At(kinds) ==
  /\ phase = "search"
  /\ offset <= Len(root_directory)
  /\ root_directory[offset].kind \in kinds
Same == root_directory[offset].name = fat_name(filename)

\* Mutant: a deleted entry ends the search.
StopAtEnd_Deleted == At({"end", "deleted"}) /\ Return(0)

StopAtEnd == At({"end"}) /\ Return(0)
Match == At({"file"}) /\ Same /\ Return(offset)
Skip ==
  /\ At({"deleted", "lfn", "label"}) \/ (At({"file"}) /\ ~Same)
  /\ offset' = offset + 1
  /\ UNCHANGED << filename, root_directory, phase, found >>
Exhausted == phase = "search" /\ offset > Len(root_directory) /\ Return(0)

\* A file's name on disk has a name of one to NameLen characters.
OnDisk == { << Pad(b, NameLen), Pad(e, ExtLen) >> :
              b \in UNION { [1 .. n -> {"A"}] : n \in 1 .. NameLen },
              e \in UNION { [1 .. n -> {"A"}] : n \in 0 .. ExtLen } }
DirEntries == [kind : Kinds, name : OnDisk]

FindStep == Reject \/ Convert \/ StopAtEnd \/ Match \/ Skip \/ Exhausted
-------------------------------------------------------------------------------
(* Properties *)

\* s is the name of a file in 8.3 form, in either case: a base, and after a dot
\* an extension.
Names(s, name) ==
  \E n \in 1 .. NameLen :
    LET b == SubSeq(s, 1, n)
        e == SubSeq(s, n + 2, Len(s))
    IN  /\ n <= Len(s) /\ Len(e) <= ExtLen
        /\ \A k \in DOMAIN b : b[k] # "."
        /\ \A k \in DOMAIN e : e[k] # "."
        /\ n < Len(s) => s[n + 1] = "."
        /\ name = << Pad(b, NameLen), Pad(e, ExtLen) >>

\* The files with that name that stand before the directory's end mark.
Files == { i \in DOMAIN root_directory :
             /\ root_directory[i].kind = "file"
             /\ \A j \in 1 .. i - 1 : root_directory[j].kind # "end"
             /\ Names(filename, root_directory[i].name) }

\* A file asked for by its 8.3 name in either case is found, whatever deleted
\* entries, long-name parts and labels stand before it.
FindsTheFile == phase = "done" /\ Files # {} => found \in Files

\* What is not the 8.3 name of a file finds nothing: "If we haven't consumed the
\* entire input string, it's not a valid 8.3 name", "Filename is too long".
FindsNothingElse == found # 0 => found \in Files
=============================================================================
