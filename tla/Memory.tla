-------------------------------- MODULE Memory --------------------------------
(***************************************************************************)
(* Physical frames and who holds them: the frame bitmap (pmm.c), the       *)
(* kernel heap that grows page by page (memory.c), the address spaces      *)
(* (paging.c), and the operations that take and give back frames: `run`    *)
(* (exec_program, with every failure path), the exit of a program and      *)
(* `kill`.                                                                 *)
(*                                                                         *)
(* Only the shell takes or returns frames, and at most one program is      *)
(* alive while the shell waits for it (Scheduler, OneForeground), so the   *)
(* shell's operations are not interleaved with each other.  They are       *)
(* split where a frame is allocated, since each allocation may fail.       *)
(*                                                                         *)
(* `fate` leaves "ok" when the machine stops: "fault" is a page fault in   *)
(* the kernel, which fault_handler() answers by halting; "wild" is a write *)
(* of the kernel through an address that is not mapped to the frame it     *)
(* means.  Neither is followed any further.                                *)
(***************************************************************************)
EXTENDS Naturals, Sequences

CONSTANTS
  NFrames,     \* pmm_total_frames
  Reserved,    \* frames of the kernel image and the bitmap: 0 .. Reserved - 1
  LowFrames,   \* frames the first page table identity-maps (1024)
  HeapBoot,    \* pages of the heap when the shell starts
  HeapMax,     \* bound on the pages of the heap
  FsBase,      \* first virtual page of the FAT and the root directory (0x300)
  FsCount,     \* pages of the two
  Slots,       \* process table slots of user programs
  ImageSizes,  \* pages of the PT_LOAD segment of a program
  MaxPages,    \* bound on those
  StackPages   \* USER_STACK_PAGES

\* The boot frames fit, and the heap stays below the file system's buffers, which
\* are in the identity-mapped 4 MB.
ASSUME FrameAssumption ==
  /\ NFrames \in Nat /\ Reserved \in Nat \ {0} /\ LowFrames \in Nat
  /\ HeapBoot \in Nat \ {0} /\ HeapMax \in Nat /\ HeapBoot <= HeapMax
  /\ FsBase \in Nat /\ FsCount \in Nat
  /\ Reserved + 5 + FsCount + HeapBoot <= NFrames
  /\ Reserved + HeapMax <= FsBase /\ FsBase + FsCount <= LowFrames
ASSUME ImageAssumption ==
  /\ MaxPages \in Nat /\ StackPages \in 1 .. MaxPages
  /\ ImageSizes \subseteq 0 .. MaxPages
\* Slots 0 and 1 are those of the idle task and the shell.
ASSUME SlotAssumption == Slots \subseteq Nat \ {0, 1}

VARIABLES
  used,     \* frames whose bit is set in pmm_bitmap
  heap,     \* frames behind the heap's pages, in address order
  temp,     \* page table of the temporary mappings (directory entry 1022)
  space,    \* address space exec_program() is building
  size,     \* pages of the image being loaded
  done,     \* pages of the current loop that were handled
  old_dir,  \* exec_program()'s old_dir
  cr3,      \* page directory the CPU uses
  proc,     \* process_table: state, address space and kernel_stack of a slot
  pc,       \* where the shell is
  fate,
  lost      \* history: frames that were dropped without being freed

vars == <<used, heap, temp, space, size, done, old_dir, cr3, proc, pc, fate, lost>>
execVars == <<space, size, done, old_dir>>

NULL == 0
Frame == 0 .. NFrames - 1

\* The frames kmain allocates for good: its two test frames, the page directory
\* and first page table of the kernel and the TSS stack; then, after the first
\* page of the heap, the buffers of init_fs().
BootFrames == Reserved .. Reserved + 4
FsFrames == Reserved + 6 .. Reserved + 5 + FsCount
KernelDir == Reserved + 2

\* Places of a user address space: page <<part, i>> and its table <<part, 0>>.
Places == {"img", "stk"} \X (0 .. MaxPages)
TableOf(v) == <<v[1], 0>>

Spaces == [dir : Frame, map : [Places -> Frame]]
NoSpace == [dir |-> NULL, map |-> [v \in Places |-> NULL]]
FramesOf(s) == ({s.dir} \cup {s.map[v] : v \in Places}) \ {NULL}

NoProc == [st |-> "UNUSED", space |-> NoSpace, kstk |-> NULL]
-------------------------------------------------------------------------------
(* pmm.c *)

\* The frame pmm_alloc_frame() returns when u is the bitmap, and the bitmap after.
Alloc(u) ==
  IF Frame \subseteq u THEN NULL
  ELSE CHOOSE f \in Frame \ u : \A g \in Frame \ u : f <= g

Mark(u) == u \cup {Alloc(u)}

\* Virtual pages below 4 MB that are no longer identity-mapped: those of the heap
\* and of the file system's buffers.
Remapped == (Reserved .. Reserved + Len(heap) - 1) \cup (FsBase .. FsBase + FsCount - 1)

\* What becomes of the machine when the kernel writes to frame f through the
\* virtual address that equals its physical one.
IdentityWrite(f) ==
  IF f >= LowFrames THEN "fault" ELSE IF f \in Remapped THEN "wild" ELSE "ok"

\* What becomes of it when frame f is filled while it is a directory in use.
Reuse(f) == IF f \in {cr3, old_dir} \ {NULL} THEN "wild" ELSE "ok"

Worse(a, b) == IF a = "ok" THEN b ELSE a
-------------------------------------------------------------------------------
(* memory.c: the heap grows by one page *)

\* A new block does not fit below heap_end.
HeapGrow ==
  /\ fate = "ok" /\ pc = "shell" /\ Len(heap) < HeapMax
  /\ LET f == Alloc(used)
     IN  /\ used' = Mark(used)
         /\ heap' = IF f = NULL THEN heap ELSE Append(heap, f)
         /\ fate' = Reuse(f)
  /\ UNCHANGED <<temp, execVars, cr3, proc, pc, lost>>
-------------------------------------------------------------------------------
(* paging.c *)

\* paging_map_page() of page v of address space s, the current one, to frame f,
\* with u the bitmap.  Without a frame for the page table nothing is mapped.
MapPage(u, s, v, f) ==
  LET t     == TableOf(v)
      fresh == s.map[t] = NULL
      pt    == IF fresh THEN Alloc(u) ELSE s.map[t]
  IN  [used  |-> IF fresh THEN Mark(u) ELSE u,
       space |-> IF pt = NULL THEN s ELSE [s EXCEPT !.map[t] = pt, !.map[v] = f],
       lost  |-> IF pt = NULL THEN {f} ELSE {},
       fate  |-> IF fresh /\ pt # NULL THEN Worse(Reuse(pt), IdentityWrite(pt)) ELSE "ok"]

\* Mutant: the page tables are not freed.
FreeDirectory_NoTables(u, s) ==
  (u \ {s.map[v] : v \in {w \in Places : w[2] > 0}}) \ {s.dir}

\* The bitmap after paging_free_directory().
FreeDirectory(u, s) == u \ FramesOf(s)
-------------------------------------------------------------------------------
(* exec_program() *)

\* No frame for the directory.
ExecNoDir ==
  /\ fate = "ok" /\ pc = "shell"
  /\ Alloc(used) = NULL
  /\ used' = Mark(used)
  /\ UNCHANGED <<heap, temp, execVars, cr3, proc, pc, fate, lost>>

\* paging_clone_directory(), which makes the table of the temporary mappings the
\* first time, and faults without one; then CR3 is switched to the clone.
ExecClone(n) ==
  /\ fate = "ok" /\ pc = "shell"
  /\ Alloc(used) # NULL
  /\ LET d     == Alloc(used)
         fresh == temp = NULL
         t     == IF fresh THEN Alloc(Mark(used)) ELSE temp
     IN  /\ used' = IF fresh THEN Mark(Mark(used)) ELSE Mark(used)
         /\ temp' = t
         /\ space' = [NoSpace EXCEPT !.dir = d]
         /\ fate' = IF t = NULL THEN "fault"
                    ELSE IF fresh
                    THEN Worse(Worse(Reuse(d), Reuse(t)), IdentityWrite(t))
                    ELSE Reuse(d)
         /\ old_dir' = cr3
         /\ cr3' = d
  /\ size' = n
  /\ done' = 0
  /\ pc' = IF n = 0 THEN "stack" ELSE "load"
  /\ UNCHANGED <<heap, proc, lost>>

\* exec_program() is left with an error.
ExecLeave ==
  /\ space' = NoSpace /\ size' = 0 /\ done' = 0 /\ old_dir' = NULL
  /\ pc' = "shell"

\* No frame for a page of the image: the address space is freed while the CPU
\* uses it.
LoadNoFrame ==
  /\ fate = "ok" /\ pc = "load"
  /\ Alloc(used) = NULL
  /\ used' = FreeDirectory(Mark(used), space)
  /\ ExecLeave
  /\ UNCHANGED <<heap, temp, cr3, proc, fate, lost>>

\* A page of the image is mapped; after the last one the segment is copied, which
\* faults if a page is missing.
LoadPage ==
  /\ fate = "ok" /\ pc = "load"
  /\ Alloc(used) # NULL
  /\ LET f    == Alloc(used)
         m    == MapPage(Mark(used), space, <<"img", done + 1>>, f)
         last == done + 1 = size
     IN  /\ used' = m.used
         /\ space' = m.space
         /\ lost' = lost \cup m.lost
         /\ fate' = IF last /\ \E i \in 1 .. size : m.space.map[<<"img", i>>] = NULL
                    THEN "fault" ELSE Worse(Reuse(f), m.fate)
         /\ done' = IF last THEN 0 ELSE done + 1
         /\ pc' = IF last THEN "stack" ELSE "load"
  /\ UNCHANGED <<heap, temp, size, old_dir, cr3, proc>>

\* No frame for a page of the stack: CR3 is switched back first.
StackNoFrame ==
  /\ fate = "ok" /\ pc = "stack"
  /\ Alloc(used) = NULL
  /\ used' = FreeDirectory(Mark(used), space)
  /\ cr3' = old_dir
  /\ ExecLeave
  /\ UNCHANGED <<heap, temp, proc, fate, lost>>

\* Mutant: the loop ends one page early.
StackPage_OneLess ==
  /\ fate = "ok" /\ pc = "stack"
  /\ Alloc(used) # NULL
  /\ LET f    == Alloc(used)
         m    == MapPage(Mark(used), space, <<"stk", done + 1>>, f)
         last == done + 2 >= StackPages
     IN  /\ used' = m.used
         /\ space' = m.space
         /\ lost' = lost \cup m.lost
         /\ fate' = IF last /\ m.space.map[<<"stk", 1>>] = NULL
                    THEN "fault" ELSE Worse(Reuse(f), m.fate)
         /\ done' = IF last THEN 0 ELSE done + 1
         /\ pc' = IF last THEN "slot" ELSE "stack"
         /\ cr3' = IF last THEN old_dir ELSE cr3
  /\ UNCHANGED <<heap, temp, size, old_dir, proc>>

\* A page of the stack is mapped, from the top down; after the last one argv is
\* copied to the top page, which faults if it is missing, and CR3 is switched back.
StackPage ==
  /\ fate = "ok" /\ pc = "stack"
  /\ Alloc(used) # NULL
  /\ LET f    == Alloc(used)
         m    == MapPage(Mark(used), space, <<"stk", done + 1>>, f)
         last == done + 1 = StackPages
     IN  /\ used' = m.used
         /\ space' = m.space
         /\ lost' = lost \cup m.lost
         /\ fate' = IF last /\ m.space.map[<<"stk", 1>>] = NULL
                    THEN "fault" ELSE Worse(Reuse(f), m.fate)
         /\ done' = IF last THEN 0 ELSE done + 1
         /\ pc' = IF last THEN "slot" ELSE "stack"
         /\ cr3' = IF last THEN old_dir ELSE cr3
  /\ UNCHANGED <<heap, temp, size, old_dir, proc>>

\* No free slot: the address space is freed again.
ExecNoSlot ==
  /\ fate = "ok" /\ pc = "slot"
  /\ \A p \in Slots : proc[p].st # "UNUSED"
  /\ used' = FreeDirectory(used, space)
  /\ ExecLeave
  /\ UNCHANGED <<heap, temp, cr3, proc, fate, lost>>

\* The slot is filled, with a kernel stack that is not tested for NULL; the shell
\* waits and yields, and the scheduler loads CR3 for the idle task or the program.
ExecDone(p) ==
  /\ fate = "ok" /\ pc = "slot"
  /\ proc[p].st = "UNUSED"
  /\ \A q \in Slots : proc[q].st = "UNUSED" => p <= q
  /\ used' = Mark(used)
  /\ proc' = [proc EXCEPT ![p] = [st |-> "RUNNING", space |-> space, kstk |-> Alloc(used)]]
  /\ fate' = IdentityWrite(Alloc(used))
  /\ cr3' \in {KernelDir, space.dir}
  /\ space' = NoSpace /\ size' = 0 /\ done' = 0 /\ old_dir' = NULL
  /\ pc' = "wait"
  /\ UNCHANGED <<heap, temp, lost>>
-------------------------------------------------------------------------------
(* Task switches, the exit of a program and `kill` *)

\* schedule() loads the directory of the next task: the kernel's for the idle
\* task and the shell, its own for a program.
Switch ==
  /\ fate = "ok" /\ pc \in {"shell", "wait"}
  /\ cr3' \in {KernelDir} \cup {proc[p].space.dir : p \in {q \in Slots : proc[q].st = "RUNNING"}}
  /\ UNCHANGED <<used, heap, temp, execVars, proc, pc, fate, lost>>

\* sys_exit() frees nothing; the zombie keeps its address space.
SysExit(p) ==
  /\ fate = "ok" /\ pc = "wait"
  /\ proc[p].st = "RUNNING" /\ cr3 = proc[p].space.dir
  /\ proc' = [proc EXCEPT ![p].st = "ZOMBIE"]
  /\ cr3' = KernelDir
  /\ pc' = "shell"
  /\ UNCHANGED <<used, heap, temp, execVars, fate, lost>>

\* Mutant: the slot is not cleared, so the zombie can be killed again.
Kill_Again(p) ==
  /\ fate = "ok" /\ pc = "shell"
  /\ proc[p].st = "ZOMBIE"
  /\ used' = FreeDirectory(used, proc[p].space) \ {proc[p].kstk}
  /\ UNCHANGED <<heap, temp, execVars, cr3, proc, pc, fate, lost>>

\* `kill` frees the address space and the kernel stack and clears the slot.
Kill(p) ==
  /\ fate = "ok" /\ pc = "shell"
  /\ proc[p].st = "ZOMBIE"
  /\ used' = FreeDirectory(used, proc[p].space) \ {proc[p].kstk}
  /\ proc' = [proc EXCEPT ![p] = NoProc]
  /\ UNCHANGED <<heap, temp, execVars, cr3, pc, fate, lost>>
-------------------------------------------------------------------------------
\* The state kmain leaves: pmm_init, its test of the allocator, paging_init,
\* tss_install, init_memory, init_fs (whose temporary frame is free again) and
\* the stacks process_init takes from the heap.
Init ==
  /\ used = 0 .. Reserved + 4 + FsCount + HeapBoot
  /\ heap = [i \in 1 .. HeapBoot |-> IF i = 1 THEN Reserved + 5
                                     ELSE Reserved + 4 + FsCount + i]
  /\ temp = NULL
  /\ space = NoSpace /\ size = 0 /\ done = 0 /\ old_dir = NULL
  /\ cr3 = KernelDir
  /\ proc = [p \in Slots |-> NoProc]
  /\ pc = "shell"
  /\ fate = "ok"
  /\ lost = {}

Exec ==
  \/ ExecNoDir \/ \E n \in ImageSizes : ExecClone(n)
  \/ LoadNoFrame \/ LoadPage \/ StackNoFrame \/ StackPage
  \/ ExecNoSlot \/ \E p \in Slots : ExecDone(p)

Next ==
  \/ HeapGrow \/ Exec \/ Switch
  \/ \E p \in Slots : SysExit(p) \/ Kill(p)

Spec == Init /\ [][Next]_vars
-------------------------------------------------------------------------------
\* Frames are frames, and the heap never holds the null frame although malloc()
\* grows it until physical memory is gone.
TypeOK ==
  /\ used \subseteq Frame
  /\ heap \in Seq(Frame \ {NULL}) /\ Len(heap) \in 1 .. HeapMax
  /\ temp \in Frame
  /\ space \in Spaces
  /\ size \in 0 .. MaxPages /\ done \in 0 .. MaxPages
  /\ old_dir \in Frame /\ cr3 \in Frame
  /\ proc \in [Slots -> [st : {"UNUSED", "RUNNING", "ZOMBIE"},
                         space : Spaces, kstk : Frame]]
  /\ pc \in {"shell", "load", "stack", "slot", "wait"}
  /\ fate \in {"ok", "fault", "wild"}
  /\ lost \subseteq Frame

\* Every place that refers to a frame, with the frame it refers to.
SpaceRefs(owner, s) ==
  {<<owner, "dir", 0, s.dir>>} \cup {<<owner, v[1], v[2], s.map[v]>> : v \in Places}
KernelRefs ==
  {<<0, "boot", f, f>> : f \in BootFrames \cup FsFrames}
  \cup {<<0, "heap", i, heap[i]>> : i \in 1 .. Len(heap)} \cup {<<0, "temp", 0, temp>>}
ProgramRefs ==
  (UNION {SpaceRefs(p, proc[p].space) : p \in Slots})
  \cup {<<p, "kstk", 0, proc[p].kstk>> : p \in Slots}
Refs == {r \in KernelRefs \cup SpaceRefs(1, space) \cup ProgramRefs : r[4] # NULL}
Owned == {r[4] : r \in Refs}

\* No frame serves two purposes, and none in use can be handed out again:
\* exec_program(), its failure paths, exit and `kill` in any order neither free
\* a frame too early nor twice.
OneOwner ==
  /\ \A r1, r2 \in Refs : r1[4] = r2[4] => r1 = r2
  /\ Owned \subseteq used

\* Every allocated frame is still referred to, so `kill` and the failure paths
\* return all that exec_program() took; what they miss (a page whose table could
\* not be allocated) is in `lost`.
NothingForgotten ==
  used \ (0 .. Reserved - 1) = Owned \cup lost

\* A program that runs has all pages of its stack and of its image, although
\* paging_map_page() reports no error: the copying of the segment and of argv
\* would have faulted before.
ProgramIsComplete ==
  \A p \in Slots : proc[p].st = "RUNNING" =>
    \A part \in {"img", "stk"} :
      LET m == proc[p].space.map
          pages == {i \in 1 .. MaxPages : m[<<part, i>>] # NULL}
      IN  /\ \E n \in 0 .. MaxPages : pages = 1 .. n
          /\ pages # {} => m[<<part, 0>>] # NULL
          /\ part = "stk" => pages = 1 .. StackPages

-------------------------------------------------------------------------------
(* What comments in the code say, and the code does not do *)

\* paging.c, end of paging_free_directory(): the caller must switch "to a new,
\* valid page directory because the one we were just using is now gone."
CurrentDirIsLive == cr3 \in used

\* pmm.c, pmm_init(): "Mark all of these frames as "used" so we never allocate
\* them."
ReservedStaysUsed == 0 .. Reserved - 1 \subseteq used

\* paging.c, paging_get_page(): "We use the physical address here because it's in
\* low memory and identity-mapped."
TablesAreIdentityMapped ==
  \A part \in {"img", "stk"} :
    space.map[<<part, 0>>] # NULL => space.map[<<part, 0>>] \notin Remapped
===============================================================================
