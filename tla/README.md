# MyOS in TLA+

Specifications, model-checking configurations and machine-checked proofs for the
MyOS kernel in `src/`: a 32-bit x86 kernel with preemptive round-robin tasks, one
address space per user program, a FAT12 file system and a command shell.

Every definition is written from the C and assembly source; `PROJECT.json` maps
each one to the lines it stands for, and lists the runs, the theorems, the hazards
and the disagreements between code and comments.

## 1. The system

One CPU. `kmain` sets the machine up, opens the scheduler's gate and jumps to the
idle task. From then on the timer interrupt switches between the tasks of
`process_table`: the idle task (slot 0), the shell (slot 1) and the programs that
the shell's `run` command loads. The kernel has no locks: a critical section is
code that runs with the interrupt flag (IF) clear.

| Part | State | Operations | Meets |
|---|---|---|---|
| Scheduler (`cpu/process.c`, `cpu/switch.asm`, `kernel.c`) | `process_table`, `current_task`, `multitasking_enabled` | `schedule`, `task_switch`, `start_multitasking`, `process_init` | timer, syscalls, shell |
| Timer (`drivers/timer.c`) | `tick`, wake-up times | `timer_handler`, `sleep`, speaker | scheduler |
| System calls (`syscall.c`) | none of its own | print, getchar, exit, sound, sleep | scheduler, keyboard |
| Interrupt entry (`cpu/isr.asm`, `irq.c`, `exceptions.c`) | the interrupt frame | save, dispatch, restore; halt on a fault | everything |
| Program loader (`exec_program`) | address space being built | load, map, fill a slot, clean up | frames, paging, heap, file system |
| Frames (`mm/pmm.c`) | bitmap | allocate, free | paging, heap |
| Paging (`mm/paging.c`) | page directories and tables, CR3 | clone, map, free, switch | frames |
| Heap (`mm/memory.c`) | top, end, free list | `malloc`, `free` | frames |
| Keyboard (`drivers/keyboard.c`) | ring buffer, shift flag | interrupt handler, read, flush | shell, syscalls |
| Shell (`shell.c`) | line, cursor, history, screen row | keys, parsing, commands | all of the above |
| File system (`fs/fs.c`, `drivers/disk.c`) | FAT, root directory | find, read | heap, loader |
| Context switch (`cpu/switch.asm`, `cpu/isr.asm`, `cpu/tss.c`) | ESP, `TSS.esp0`, segment registers, the interrupt frame | stubs, `task_switch`, `IRET` | scheduler |
| Console (`drivers/vga.c`) | cursor, video memory | `print_char`, scrolling | ends every caller's critical section with `sti` |
| Sound (`drivers/virtio.c`), PCI | two rings, descriptors, `dma_buffer` | set-up, five commands and a buffer of samples | shell, a device that works on its own |
| `sb16.c`, `dma.c`, boot loader, descriptor tables | device registers | set-up | shell |

What is hard about it: interrupts between any two instructions when IF is set; a
`print_char` that sets IF whatever it was; `hlt` that any interrupt ends; a
keyboard ring and an allocator without locks; a loader with seven early
returns; counters that wrap; a task switch that never loads ESP; a device that
reads the driver's memory while it is being written; tables read from a disk that
may be damaged. The `hazards` of `PROJECT.json` list these at their lines.

## 2. Modules

| Module | Models | Kind |
|---|---|---|
| `Scheduler` | tasks, timer, keyboard interrupt, system calls, the commands that touch the process table | detailed |
| `Foreground` | what `run`, exit and `kill` promise: the console has one owner | abstract, implemented by `Scheduler` |
| `ContextSwitch` | stacks, `TSS.esp0` and data segments at every step of `Scheduler` | composed: EXTENDS `Scheduler` |
| `SchedulerProofs` | theorems about `Scheduler` and `ContextSwitch` | proofs |
| `Memory`, `MemoryProofs` | frames, address spaces, the loader with all its failure paths, exit, `kill`; theorems | detailed, proofs |
| `Heap`, `HeapProofs` | `malloc` and `free` on addresses; theorems | detailed, proofs |
| `Keyboard`, `KeyboardProofs` | the ring at the level of single loads and stores; theorems | detailed, proofs |
| `BoundedFifo` | a bounded queue that drops when full and can be flushed | abstract, implemented by `Keyboard` |
| `LineEditor`, `EditorProofs` | keys, line buffer, history ring, redraw; theorems | detailed, proofs |
| `CommandParser`, `ParserProofs` | the in-place tokeniser; theorems | detailed, against a reference definition; proofs |
| `Fat12` | FAT decoding and the cluster loop of `fs_read_file` | detailed, with the reference definition of a file's bytes |
| `FileName` | 8.3 conversion and directory search of `fs_find_file` | detailed, with the reference definition of a match |
| `FileSystem`, `FileSystemProofs` | `ls` and `cat`, which call the two; theorems about the three | composed: EXTENDS `Fat12` and `FileName`; proofs |
| `Virtio`, `VirtioProofs` | the virtio-sound driver against its device; theorems | detailed, proofs |

**Scheduler.** `cpu` is the live context (a program point and IF), `cpu_state[p]`
the one `schedule()` saved. A step of a task is the code between two points where
an interrupt can be taken; code that runs with IF clear is one step. `TimerIRQ` and
`KeyboardIRQ` can come before any step that starts with IF set. `TimerHandler` is
the whole of `timer_handler` -> `task_switch` -> `schedule`; it is entered from the
interrupt and from the two `int $0x20` (in `run` and in `sys_exit`), which count a
tick as the code does. `sleep()` is four steps when the shell calls it, since IF is
set there, and one step inside a system call. Registers are abstracted to the
program point.

**ContextSwitch.** Each action is an action of `Scheduler` with what the stubs,
`task_switch()` and `IRET` do to ESP, the TSS and the segments in that step. A
position is a stack and the number of activations on it (`Depth`). `task_switch()`
writes over the frame of the interrupted task, so a kernel task goes on at the
position of that frame and finds its own frames by EBP; `base` is the stack those
are on. `BootTick` says whether a tick may hit `kmain` between opening the gate and
`start_multitasking()`. The run leaves it out: that window is the finding
`StartedOnce`, and after it the shell's frames lie on `kmain`'s stack where
`start_multitasking()` sets ESP back above them, and `ResumesInPlace` is refuted.

**Memory.** The shell's operations split at each allocation, since each may fail;
they do not interleave with one another because only one program is alive and it
takes no frames (`OneForeground`). A program's image is one segment. `fate`
records a page fault in the kernel or a write through an address that is not the
frame meant; the machine is not followed beyond. `lost` is a history variable.

**Heap.** Offsets from the heap's start; a block is named by its header. `held`
and `freed` are history variables. Calls are atomic: only the shell and boot code
allocate.

**Keyboard.** The handler is atomic (it runs with IF clear), the reader is not.
There is one reader (`OneKeyboardReader`). The refinement mapping empties the queue
when `keyboard_flush` has loaded the write index.

**LineEditor, CommandParser.** `log` records the commands for the properties; the
screen is the prompt's row and the next one. The parser takes one action for each
loop test.

**Fat12, FileName, FileSystem.** Initial states are small volumes, damaged ones
included: any table under a plain directory, and any directory over a plain table.
The table is stored as the packed bytes are on disk (external: written by
`mkfs.fat`) and decoded by the code's arithmetic. `FileSystem` lists the directory,
looks a typed name up, reads the entry's chain and prints it; nothing is ever
written to the disk, so one `ls` and one `cat` are enough.

**Virtio.** The driver's steps are the stores the device can see: fill buffer and
descriptors, publish the index, notify, poll. The device (external) takes what is
available in order, copies the answer and returns the buffer, between any two steps.
`wiring` is how it decodes a notification: one register for all queues, one per
queue with the multiplier `pci.c` reads, or one per queue while the multiplier was
read as 0. A queue of size 0 makes the driver divide by zero (`fault`).

## 3. Runs

| Run | Checks | Bounds |
|---|---|---|
| `Scheduler` | `OneForeground`, `OnCpuIsAlive`, `HaltIsInterruptible`, `OneKeyboardReader`, `ReapsAZombie`, `SlotChanges`, `ImplementsForeground` | two program slots, so that a zombie and a live program coexist and slots run out; ticks modulo 3 with sleeps of 2, so that wake-up times wrap; one-key buffer |
| `SchedulerLive` | `RunnableRuns`, `SleeperWakes`, `PromptReturns`, `KeyIsRead`, `InterruptsComeBack` | one program slot; ticks modulo 2 with sleeps of 2: from an odd tick the sleeper is switched out for two ticks, from an even one the wrap wakes it at the next |
| `ContextSwitch` | `TssIsMine`, `StackIsAllocated`, `KernelSegments`, `ResumesInPlace` | two program slots, faults on; ticks modulo 2 |
| `Memory` | `OneOwner`, `NothingForgotten`, `ProgramIsComplete` | 26 frames: two programs fit, a third meets every failure, the full slot table included |
| `Heap` | `BlocksDisjoint`, `HeldIsOffTheList`, `NoBlockIsLost`, `LastFreedIsReused` | five blocks of three sizes, odd ones included; pages of 6 bytes so that blocks span pages; three more frames, which run out |
| `Keyboard` | `ImplementsFifo`, `ShiftNeverSticks` | four slots (three usable), two keys, two shift keys: full, empty and wrapped |
| `LineEditor` | `TypeOK`, `ShownIsWhatRuns`, `RecallsTheCommand` | lines of up to three characters that just fit the row; three commands in a history of two |
| `CommandParser` | `TypeOK`, `ArgvIsTheWords`, `ParserEnds` | every line of up to six characters, argv of two, stale bytes behind the line |
| `FileSystem` | `TypeOK`, `FindsTheFile`, `ListedIsFound`, `CatShowsTheFile`, `CatEnds` | every table of four clusters over seven entry values, sizes 0 to 5 with clusters of two bytes, the table ending right behind the last entry; names of 2 + 1 characters, typed names up to 4, two directory entries of every kind |
| `Virtio` | `CommandIsIntact`, `CommandsDoNotFault`, `AnswerIsMine`, `BeepReturns` | queues of 0, 1, 2 and 4 descriptors; indices modulo 8, so that they wrap in the second `vsbeep`; all three wirings |
| `SchedulerStartedOnce`, `MemoryCurrentDirIsLive` | refuted statements of comments (section 6) | ticks modulo 8, so that the wrap plays no part; the frames of an exhausted machine |

The type invariants that are run say something of the code: `TypeOK` of `FileSystem`
that nothing is copied past the file's buffer, that of `LineEditor` and
`CommandParser` that indices stay inside their arrays. All type invariants are
theorems (section 4); that of `ContextSwitch` (`StacksOK`) is part of a proved
invariant.

Deadlock is not checked in `Scheduler`, `ContextSwitch` and `Memory`, where a fault
stops the machine for good, in `Virtio`, where the division by zero does, and in
`CommandParser` and `FileSystem`, which model commands that return.

**Bounds.** The wrap of `tick` is kept (`TickMod`), as are the ring sizes. Bounds
that exist only for TLC are `HeapMax`, `MaxPages`, `MaxBlocks`, `MaxCommands`,
`MaxSize`, `MaxTyped` and `MaxEntries`. `IdxMod` stands for the 2^16 of a virtio
index and divides by every queue size, as 2^16 does. `Fresh` is what an index in a
frame that nobody cleared may hold; the run and the proofs assume 0, as in the memory
of a machine that was just started. `Memory` keeps the heap below the file system's
buffers at 3 MB by assumption, and `Heap` does not know of them; the code has no such test, and running into them is listed as a hazard.

**Fairness.** `SchedulerLive` assumes strong fairness of `TimerIRQ` (the PIT fires
at 100 Hz and the interrupt controller holds a request until IF is set) and of the
steps of kmain, the shell and the kernel's part of a system call (a task that gets
the CPU again and again executes instructions between ticks). What a user program
does is not fair: it may compute for ever. Faults are off in that run, because a
fault stops the machine by design. `CommandParser` and `FileSystem` are sequential
code: weak fairness of the only thread. `Virtio` assumes that the driver's code runs
on (nothing in it blocks except the poll, which is a step that waits) and that the
device serves a queue it was told about; `BeepReturns` excludes the wiring under
which it is never told of the control queue.

## 4. Proofs

TLAPS proves, for every value of the constants that the modules' `ASSUME`s allow:

- `SchedulerProofs` (any number of slots, tick modulus, sleeps, buffer size):
  `ForegroundIsUnique`, `SchedulesAlive`, `HaltsWithInterrupts`,
  `KeyboardReaderIsUnique`, `ReapIsSafe`, `TypeCorrect` (invariants),
  `SlotsChangeUnderShell` (action property) and `RefinesForeground`;
- the same module for `ContextSwitch` (without a tick at the gate): `TssFollowsTheTask`,
  `NoFreedStack`, `KernelHasItsSegments` and `ResumesWhereItWas` (action property);
- `MemoryProofs` (any amount of memory, slots, image, stack and heap sizes):
  `FramesHaveOneOwner`, `NoFrameIsForgotten`, `RunningProgramsAreComplete`,
  `FrameTypes`;
- `HeapProofs` (any header, alignment, page and request sizes):
  `BlocksNeverOverlap`, `NeverHandedOutTwice`, `FreedIsKept`, `HeapTypeCorrect` and
  `MemtestNoteHolds`;
- `KeyboardProofs` (any ring size and keys): `RingIsFifo`, which is the refinement of
  `BoundedFifo`, `ShiftReleased`, `KeyboardTypes`;
- `VirtioProofs` (any queue sizes and index width, rings that were clear):
  `CommandStaysIntact`, `AnswersMatch`, `CommandsNeverFault`, `VirtioTypes`;
- `EditorProofs` (any length of line, prompt, row and history, any characters):
  `HistoryRecallsTheCommand` (action property), `EditorTypeCorrect`, and
  `ScreenShowsWhatRuns` as long as the line ends on the prompt's row (`LineFits`;
  beyond it the code does not keep the property, see section 6);
- `ParserProofs` (any line, line length and MAX_ARGS): `ArgvHoldsTheWords`,
  `ParserStaysInTheLine`;
- `FileSystemProofs` (any number and size of clusters, any lengths of names, sizes of
  directory and files): `FileIsFound`, `ListedFilesAreFound`, `CopyStaysInTheBuffer`,
  and `CatIsRight` when the table reaches to the last cluster (`TableIsWhole`; the
  code takes a cluster beyond it for the end of the file). `RightOnAnyVolume` has all
  four from `AnyVolume`: any table, any directory and any typed name together, where
  the run varies the table or the directory.

With these, every invariant and every action property that a passing run checks is
also a theorem.

*Scheduler's inductive invariant* adds to the properties what makes them
inductive: the idle task is always RUNNING (so the search in `schedule()`
succeeds); no program ever WAITs; every live task's saved context is a point of
that kind of task, with IF set if it is a `hlt`; while the shell WAITs its saved
point is the one after `int $0x20`, so it cannot be reading the keyboard or reaping;
before the gate opens the current task is the idle slot. `TimerHandlerSafe` proves
once that the handler keeps this for any table and context it is entered with; each
action then has its own lemma. That the first RUNNING slot exists uses well-founded
choice on naturals (`LeastExists`).

*ContextSwitch's inductive invariant* (`StackInv`) stands on the scheduler's, which
gives that at most one task besides idle can use the CPU (`Alone`), so that every
switch by the timer is to or from the idle task. It says what the idle task keeps for
the other one: ESP is at the position that was saved for it (`IdleHoldsEsp`), and the
segments are a program's only if the task to go on is in ring 3 (`IdleSegments`).
Around it: `esp0` is that of the current task; before the shell's first step there is
no program (`ShellIsNew`); kmain hands over the idle task's first ESP (`BootIsFirst`).
The last one fails after a tick at the gate, so the theorems assume
`BootTick = FALSE`.

*Memory's inductive invariant* is a set of books (`Books`): what refers to a frame,
the bitmap and the dropped frames agree, with no frame referred to twice. Frame 0
stays outside of them, because `pmm_alloc_frame()` returns it as NULL and marks it,
and `kill` may free it. Six lemmas say how the books may change (`AddOne`,
`AddNone`, `Lose`, `Drop`, `Rename` and `AllocFacts`), and each action is a chain of
them; freeing is right because references carry their owner (`DropSpace`,
`KillKeeps`). For `ProgramIsComplete` it also records how far `exec_program()` has
come (`Building`): the pages beyond `done` are empty, a part that has a page has its
table, and if the first stack page is there so are the ones after it, since the
table can only be missing before the first.

*Heap's inductive invariant* is the conjunction of its four invariants with
"the block just freed is the head of the list". Carving needs that the aligned top
is not below the old one; reuse needs an index map for the list without one
element.

*Keyboard's inductive invariant*: between its test and its advance the reader knows
that the ring is not empty and that its local copy is still the slot at the read
index; the target of a flush lies between the two indices. The queue of the
refinement mapping is then the cells between the indices (`Cell`), and a store
appends one.

*Virtio's inductive invariant*: the control queue is idle, with all four indices
equal, or has exactly one command in one of three places (not seen, held, answered),
with its descriptors at the head the ring shows (`Idle0`, `Under0`, `Ready`).

*LineEditor's inductive invariant* (`EditorInv`): the bytes before the end of the
line are characters, every slot of the ring holds a terminated text, and the command
with number j, if it is one of the last HISTORY_SIZE, is in slot j % HISTORY_SIZE
(`RingHoldsTheLast`). That a recalled slot has not been overwritten is arithmetic on
two numbers that are less than HISTORY_SIZE apart. For the screen, `Drawn` says that
the cells of the row are the line and blanks behind it; it needs `LineFits`.

*CommandParser's inductive invariant* (`ParserInv`) has one part per point of the
loops (`Trimming`, `Between`, `InWord`, `Finished`). Behind the scanning pointer the
words that were cut are whole and in argv, as many as there are word ends so far, or
MAX_ARGS; ahead of it the line is untouched, so that the reference definition, which
looks at the line as it was typed, still applies to it. The number of words is the
cardinality of a set of positions that grows by one with each cut.

*FileSystem's inductive invariant* (`FSInv`, `ReadInv`): what `ls` has printed is what
it has passed, and in the end the files before the end mark (`ListInv`); the search
has passed no end mark and no entry with the name (`FindInv`); and in a sound chain,
for some k, the loop is at the k-th cluster and the buffer holds the first k clusters
of the file, cut off at its size (`Copied`). It rests on these lemmas. `HalvesJoin` and
`LookupIsRight`: the arithmetic of `fs_get_fat_entry()` returns the entry that was
written, although two entries share a byte. `NamesMatch`: an 8.3 name is used up by
the conversion and converts to the name on disk. `ChainsExist`: the recursive
definition of a chain has a solution, by a least counterexample. `WhereItEnds`: when
the loop meets an end mark it has passed all clusters that the size asks for. That
cluster numbers are below the end marks is FAT12's own limit and is in `FatAssumption`.

Only model-checked: liveness (`SchedulerLive`, `ParserEnds`, `CatEnds`, `BeepReturns`),
for which no prover is available, and the two refuted statements.

To repeat the proofs, run `tlapm` on each of the eight `*Proofs` modules. Zenon is the
default prover (`USE ZenonT(40)`), and SMT is named where a leaf needs arithmetic or
sequences: `tlapm` 1.4.5 encodes for SMT under a fixed limit of time and grows slower
with each such leaf. For the same reason the modules extend few library modules, and
the few facts about sequences and least elements are proved where they are used.

## 5. Mutants

Each property of a passing run has a mutant in its module (`X_Something` before
`X`): the definition with a plausible slip, under which TLC finds the property
violated.

## 6. Where the comments and the code disagree

Two are runs that TLC refutes, with a finding in `PROJECT.json`:

- `StartedOnce`: a tick between `multitasking_enabled = 1` and
  `start_multitasking` makes kmain's context the idle task's; when that slot runs
  again, `start_multitasking` is handed kmain's own context and returns into kmain,
  which calls it once more, for ever (`switch.asm:17`).
- `CurrentDirIsLive`: out of memory in the segment loop frees the directory CR3
  points to and goes on (`process.c:228`, `paging.c:181`).

The following are stated in the modules too and are refuted by TLC; add the name
as an INVARIANT (an action formula as a PROPERTY) to the cfg given:

- `SleepLasts` (`SchedulerStartedOnce.cfg`): a key press ends the single `hlt` of
  `sleep()` (`timer.c:105`).
- `InterruptsBackAfterRun` (same): the shell resumes after `run` with IF clear; only
  the next `print_char` sets it (`shell.c:377`). That it does is `InterruptsComeBack`.
- `ExecIsNotInterrupted` (same): error messages set IF inside `exec_program`
  before the clean-up (`process.c:166`).
- `NotWokenEarly` (same): a tick between the two stores of `sleep()` wakes the task
  at once (`timer.c:117`).
- `WritesInFrame` (`ContextSwitch.cfg`): `task_switch()` writes `useresp` and `ss`
  into a frame that has them only if ring 3 was interrupted (`switch.asm:128`).
- `UserSegments` (same): a new program is entered with the kernel's segments, which
  the IRET to ring 3 clears, and what the stubs restore later is that null selector
  (`isr.asm:182`).
- `ResumesInPlace` with BootTick = TRUE (same): see `ContextSwitch` in section 2.
- `ReservedStaysUsed` (`MemoryCurrentDirIsLive.cfg`): an unchecked kernel stack is
  frame 0, which `kill` frees (`pmm.c:55`, `process.c:344`).
- `TablesAreIdentityMapped` (same, with NFrames = LowFrames = 30, HeapMax = 14,
  FsBase = 28): a page table is cleared at a virtual address that the heap has
  remapped (`paging.c:198`).
- `FlushEmpties` (`Keyboard.cfg`): a key between the load and the store of
  `keyboard_flush` survives it (`keyboard.c:118`).
- `FindsNothingElse` (`FileSystem.cfg`): a base of more than eight characters spills
  into the extension (`fs.c:162`).
- `ShownIsWhatRuns` with Columns = 2 (`LineEditor.cfg`): a line longer than the
  row leaves characters behind (`shell.c:500`).
- `NotifiesItsQueue` (`Virtio.cfg`): a device with one register per queue is told of
  another queue when the multiplier was not read (`virtio.c:41`).
- `SamplesAreIntact` (same): the STOP command is written over the samples before
  the device has returned them (`virtio.c:282`).
- `PlaybackHasRoom` (same): samples are added without looking whether a descriptor
  is free (`virtio.c:365`).
- `CommandIsIntact` with Fresh = {0, 1} (same): the frames of the rings are not
  cleared, so an index may start at a value the driver does not know.

## 7. Not modelled

- The boot loader, descriptor tables and PIC set-up: straight-line code that runs
  once, before there is anything to interleave with. What the gates and segments do
  later is in `Scheduler` and `ContextSwitch`.
- The Sound Blaster and DMA drivers, the PC speaker, the PIT divisor, `delay_ms()`,
  debug output, `virtio_sound_probe()`: port reads and writes, with no state of the
  kernel behind them that another operation reads.
- The walk through PCI configuration space: only its outcomes matter to the driver,
  and `Virtio` starts from all of them.
- Scrolling, `clear_screen()` and the hardware cursor: `LineEditor` has the rows the
  line is on; moving them up changes no property of the line, and printed text has
  no reader in the kernel.
- The argv block on the user stack and the fields of ELF headers: copying of data
  whose layout no other part of the kernel reads. The frames behind them are in
  `Memory`.
- The disk controller's status polling: a sector read returns that sector. A disk
  that never answers hangs the poll, which is all there is to say.
- The BIOS parameter block is taken as well formed; a damaged one would be a
  divisor or a length nothing checks.
- General registers, page flags, the TLB and the temporary mapping windows are
  abstracted.
- The heap past 2 MB, where it would meet the file system's buffers at 3 MB.
- Sample programs: a program in `Scheduler` is any sequence of system calls,
  computation and faults, which covers them.
