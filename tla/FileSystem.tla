------------------------------ MODULE FileSystem ------------------------------
(***************************************************************************)
(* The commands `ls` and `cat` (kernel/shell.c) on a volume that init_fs() *)
(* has loaded: the root directory is listed, a typed name is looked up     *)
(* (FileName), the entry's clusters are read (Fat12) and the bytes are     *)
(* printed.  Nothing is ever written, so one command of each kind is       *)
(* enough.                                                                 *)
(***************************************************************************)
EXTENDS Fat12, FileName

VARIABLES
  data,      \* size and first cluster of each entry of the root directory
  listed,    \* the entries `ls` has printed, by index
  shown,     \* the bytes `cat` has printed
  command    \* "ls", "find" and "read" (in cat), or "prompt"

vars == << readVars, findVars, data, listed, shown, command >>

\* A byte of the buffer that nothing was copied to: what malloc() left there.
Stale == << 0, 0 >>
-------------------------------------------------------------------------------
(* ls *)

\* Mutant: a label ends the listing.
LsAt_Label(kinds) ==
  /\ command = "ls" /\ offset <= Len(root_directory)
  /\ \A j \in 1 .. offset : root_directory[j].kind # "label"
  /\ root_directory[offset].kind \in kinds

\* `ls` is at an entry of one of these kinds.
LsAt(kinds) ==
  /\ command = "ls" /\ offset <= Len(root_directory)
  /\ root_directory[offset].kind \in kinds

LsNext ==
  /\ offset' = offset + 1
  /\ UNCHANGED << readVars, filename, root_directory, phase, found, data, shown, command >>

LsPrint == LsAt({"file"}) /\ listed' = Append(listed, offset) /\ LsNext
LsSkip == LsAt({"deleted", "lfn", "label"}) /\ UNCHANGED listed /\ LsNext

\* The end mark or the end of the table; the next command is `cat`.
LsDone ==
  /\ command = "ls" /\ ~ LsAt(Kinds \ {"end"})
  /\ offset' = 1 /\ command' = "find"
  /\ UNCHANGED << readVars, filename, root_directory, phase, found, data, listed, shown >>
-------------------------------------------------------------------------------
(* cat *)

Find ==
  /\ command = "find"
  /\ FindStep
  /\ UNCHANGED << readVars, data, listed, shown, command >>

\* "File not found"
NotFound ==
  /\ command = "find" /\ phase = "done" /\ found = 0
  /\ command' = "prompt"
  /\ UNCHANGED << readVars, findVars, data, listed, shown >>

\* fs_read_file() is called with the entry.
Open ==
  /\ command = "find" /\ phase = "done" /\ found # 0
  /\ entry' = data[found]
  /\ command' = "read"
  /\ UNCHANGED << table, current_cluster, file_buffer, pc, findVars, data, listed, shown >>

Read ==
  /\ command = "read"
  /\ ReadStep
  /\ UNCHANGED << findVars, data, listed, shown, command >>

\* file_size bytes are printed, however many were copied.
CatPrint ==
  /\ command = "read" /\ pc = "done"
  /\ shown' = [k \in 1 .. entry.file_size |->
                 IF k <= Len(file_buffer) THEN file_buffer[k] ELSE Stale]
  /\ command' = "prompt"
  /\ UNCHANGED << readVars, findVars, data, listed >>

\* Without a buffer nothing is printed.
NoBuffer ==
  /\ command = "read" /\ pc = "null"
  /\ command' = "prompt"
  /\ UNCHANGED << readVars, findVars, data, listed, shown >>
-------------------------------------------------------------------------------
(* Volumes: any table under a plain directory, whose files `ls` has listed,  *)
(* and any directory over a plain table.                                     *)

Sizes == 0 .. MaxSize
PlainTable == [c \in DataClusters |-> IF c < Clusters + 1 THEN c + 1 ELSE 4095]
PlainName == << "a" >>
PlainEntry == [kind |-> "file", name |-> << Pad(PlainName, NameLen), Pad(<< >>, ExtLen) >>]

AnyTable ==
  /\ table \in [DataClusters -> EntryValues]
  /\ \E e \in [file_size : Sizes, first_cluster_low : DataClusters] :
       data = [i \in 1 .. MaxEntries |-> e]
  /\ filename = PlainName
  /\ root_directory = [i \in 1 .. MaxEntries |-> PlainEntry]
  /\ listed = [i \in 1 .. MaxEntries |-> i]
  /\ command = "find"

AnyDirectory ==
  /\ table = PlainTable
  /\ data = [i \in 1 .. MaxEntries |->
               [file_size |-> i, first_cluster_low |-> IF i < Clusters THEN i + 1 ELSE 2]]
  /\ filename \in UNION { [1 .. n -> Typed] : n \in 1 .. MaxTyped }
  /\ root_directory \in [1 .. MaxEntries -> DirEntries]
  /\ listed = << >>
  /\ command = "ls"

\* What init_fs() has loaded.
Init ==
  /\ AnyTable \/ AnyDirectory
  /\ entry = [file_size |-> 0, first_cluster_low |-> 2]
  /\ current_cluster = 0 /\ file_buffer = << >> /\ pc = "start"
  /\ offset = 1 /\ phase = "convert" /\ found = 0
  /\ shown = << >>

Next ==
  \/ LsPrint \/ LsSkip \/ LsDone
  \/ Find \/ NotFound \/ Open \/ Read \/ CatPrint \/ NoBuffer

Spec == Init /\ [][Next]_vars /\ WF_vars(Next)
-------------------------------------------------------------------------------
(* Properties *)

\* On any volume: a file that `ls` lists is found by its 8.3 name, and what is
\* found is one of the files that were listed.
ListedIsFound ==
  LET Listed == { listed[k] : k \in DOMAIN listed }
  IN  phase = "done" =>
        /\ found # 0 => found \in Listed
        /\ (\E i \in Listed : Names(filename, root_directory[i].name)) => found # 0

\* `cat` of the 8.3 name of a file prints that file, all of it and in order, when
\* its chain is sound, however long the chain is and whatever follows in the
\* table or the directory.
CatShowsTheFile ==
  command = "prompt" /\ pc = "done" /\ Files # {} /\ Sound =>
    (\E i \in Files : entry = data[i]) /\ shown = FileBytes

\* `cat` comes back to the prompt if the file's chain ends.
CatEnds == command = "read" /\ Ends ~> command = "prompt"
===============================================================================
