----------------------------- MODULE ContextSwitch -----------------------------
(***************************************************************************)
(* Stacks, rings and data segments under the scheduler: what the interrupt *)
(* stubs, task_switch() and IRET do to ESP, TSS.esp0 and DS at each step   *)
(* of Scheduler.                                                           *)
(*                                                                         *)
(* task_switch() writes the next task's registers over the frame of the    *)
(* interrupted one and returns through it.  It never loads ESP: an IRET to *)
(* ring 3 pops ESP from the frame, an IRET to ring 0 does not, and the     *)
(* kernel task goes on where the frame was, on the interrupted task's      *)
(* stack.  EBP is loaded, so the epilogue of a C function (`leave`, gcc    *)
(* without -O) brings ESP back to the frames of the function's own task.   *)
(*                                                                         *)
(* A stack position is a stack and the number of activations on it.        *)
(***************************************************************************)
EXTENDS Scheduler

CONSTANT
  BootTick  \* whether a tick may hit kmain between the gate and start_multitasking()

ASSUME BootTickAssumption == BootTick \in BOOLEAN

VARIABLES
  esp,        \* the position ESP is at
  saved_esp,  \* process_table[p].cpu_state.esp
  esp0,       \* tss_entry.esp0: the stack an interrupt in ring 3 switches to
  ds,         \* what DS, ES, FS and GS select
  pushed_ds,  \* the segments the system-call stub pushed
  base        \* the stack the shell's activations are on (its saved EBP chain)

stackVars == <<esp, saved_esp, esp0, ds, pushed_ds, base>>
allVars == <<vars, stackVars>>

\* The stacks: stack_a and stack_b of process_init() for slots 0 and 1, the frame
\* kernel_stack of a user slot, kmain's own, and the user stack of a program.
Boot == MAX_PROCESSES
NullPage == MAX_PROCESSES + 1
User == MAX_PROCESSES + 2
Stacks == Pid \cup {Boot, NullPage, User}

Pos(stack, depth) == [stack |-> stack, depth |-> depth]
UserPos == Pos(User, 0)

Ring(point) == IF point = "user" THEN 3 ELSE 0

\* Activations of kernel code between a task's first frame and a point.
Depth(point) ==
  CASE point \in {"sl_mark", "sl_wake", "sl_halt", "sl_hlt", "sl_ret",
                  "sh_exec", "sh_exec_undo"} -> 3
    [] point \in {"sh_read", "sh_empty", "sh_read_hlt", "sh_cmd", "sh_ran",
                  "sh_cat", "sh_cat_free", "sh_reap", "k_getchar", "k_empty",
                  "k_getchar_hlt", "k_sleep_hlt"} -> 2
    [] OTHER -> 1

\* Mutant: schedule() leaves the TSS alone.
KernelStack_Shared(p) == Idle

\* process_table[p].kernel_stack: idle and shell have none, so their TSS value is
\* the top of the page at address 0.
KernelStack(p) == IF p \in UserSlots THEN p ELSE NullPage
-------------------------------------------------------------------------------
(* The interrupt stubs and IRET *)

\* Mutant: the system-call stub keeps the program's segments.
StubSegments_Kept == ds

\* The stubs load the kernel's data segment before C code runs.
StubSegments == "kernel"

\* An IRET from ring 0 to ring 3 clears the registers that select a ring 0 segment.
AfterIret(point, segments) ==
  IF Ring(point) = 3 /\ segments = "kernel" THEN "null" ELSE segments

\* The CPU pushes the frame of an interrupt on the stack of the TSS if it comes
\* from ring 3, and where ESP is otherwise.
FramePos == IF Ring(cpu.pc) = 3 THEN Pos(esp0, 0) ELSE esp

\* schedule() saves the ESP of the interrupted task: the frame's useresp for ring
\* 3, the position of the frame for ring 0, nothing for a zombie.
SaveEsp(saved, frame) ==
  IF state'[current] = "ZOMBIE" THEN saved
  ELSE [saved EXCEPT ![current] = IF Ring(cpu.pc) = 3 THEN UserPos ELSE frame]

\* task_switch() through the frame at a position, whose segments are as given:
\* the user stack is in the frame, a kernel task is left at the frame's position.
SwitchThrough(saved, frame, segments) ==
  /\ saved_esp' = SaveEsp(saved, frame)
  /\ esp0' = KernelStack(current')
  /\ esp' = IF Ring(cpu'.pc) = 3 THEN UserPos ELSE frame
  /\ ds' = AfterIret(cpu'.pc, segments)
  /\ UNCHANGED <<pushed_ds, base>>
-------------------------------------------------------------------------------
(* The scheduler's steps with what they do to the stacks *)

\* The timer: the handler switches once multitasking is on, and returns before.
\* After a tick at the gate the shell's frames are on kmain's stack, where
\* start_multitasking() sets ESP back above them.
SwitchOnTimer ==
  /\ TimerIRQ
  /\ cpu.pc = "kmain_gate" => BootTick
  /\ \/ multitasking /\ SwitchThrough(saved_esp, FramePos, ds)
     \/ ~multitasking /\ UNCHANGED stackVars

\* `int $0x20` of the shell in `run`, once exec_program() has set the ESP of the
\* new task to the user stack it built ...
SwitchOnRun(p) ==
  /\ ExecDone(p)
  /\ SwitchThrough([saved_esp EXCEPT ![p] = UserPos], esp, ds)

\* ... and of a program inside sys_exit().
SwitchOnExit ==
  /\ SysExit
  /\ SwitchThrough(saved_esp, Pos(esp0, 2), StubSegments)

\* start_multitasking() loads ESP, and its IRET leaves two words behind.
StartFirstTask ==
  /\ StartMultitasking
  /\ esp' = saved_esp[Idle]
  /\ esp0' = KernelStack(Idle)
  /\ UNCHANGED <<saved_esp, ds, pushed_ds, base>>

\* A step of the shell ends in an activation of its own: calls and returns go by
\* EBP, whatever ESP was.  The first activation is where ESP is at the time.
ShellMoves ==
  /\ ShellStep /\ current' = Shell /\ cpu.pc # "sh_ran"
  /\ base' = IF base = NullPage THEN esp.stack ELSE base
  /\ esp' = Pos(base', Depth(cpu'.pc))
  /\ UNCHANGED <<saved_esp, esp0, ds, pushed_ds>>

\* Right after `run`, process_command() has not returned yet.
ShellRanMoves == ShellRan /\ UNCHANGED stackVars

\* A system call: the CPU takes the stack of the TSS, the stub the kernel's
\* segments.
SyscallEnters ==
  /\ UserStep /\ current' = current /\ cpu.pc = "user" /\ cpu'.pc # "user"
  /\ esp' = Pos(esp0, Depth(cpu'.pc))
  /\ ds' = StubSegments
  /\ pushed_ds' = ds
  /\ UNCHANGED <<saved_esp, esp0, base>>

\* Inside a system call, and its return to ring 3 with the program's segments.
SyscallMoves ==
  /\ SyscallStep
  /\ esp' = IF Ring(cpu'.pc) = 3 THEN UserPos ELSE Pos(current, Depth(cpu'.pc))
  /\ ds' = IF Ring(cpu'.pc) = 3 THEN pushed_ds ELSE ds
  /\ UNCHANGED <<saved_esp, esp0, pushed_ds, base>>

\* The keyboard interrupt returns to where it came from, as kmain's steps do.
StacksStay == (KeyboardIRQ \/ OpenGate) /\ UNCHANGED stackVars
-------------------------------------------------------------------------------
StackInit ==
  /\ Init
  /\ esp = Pos(Boot, 0)
  /\ saved_esp = [p \in Pid |-> IF p \in {Idle, Shell} THEN Pos(p, 0) ELSE UserPos]
  /\ esp0 = NullPage
  /\ ds = "kernel"
  /\ pushed_ds = "kernel"
  /\ base = NullPage

StackNext ==
  \/ SwitchOnTimer \/ SwitchOnExit \/ \E p \in Pid : SwitchOnRun(p)
  \/ StartFirstTask \/ ShellMoves \/ ShellRanMoves
  \/ SyscallEnters \/ SyscallMoves \/ StacksStay

StackSpec == StackInit /\ [][StackNext]_allVars
-------------------------------------------------------------------------------
(* Safety *)

\* Positions, stacks and segments are in range.
StacksOK ==
  /\ esp \in [stack : Stacks, depth : 0 .. 3]
  /\ saved_esp \in [Pid -> [stack : Stacks, depth : 0 .. 3]]
  /\ esp0 \in UserSlots \cup {NullPage}
  /\ ds \in {"kernel", "null"} /\ pushed_ds \in {"kernel", "null"}
  /\ base \in {Idle, Boot, NullPage}

\* Whenever the CPU is in ring 3, the TSS holds the kernel stack of the program
\* that runs: an interrupt or a system call never lands on another task's stack,
\* nor on the page at address 0 that idle and shell put there (schedule(), both
\* exits).
TssIsMine == Ring(cpu.pc) = 3 => current \in UserSlots /\ esp0 = current

\* Although task_switch() does not restore ESP, a kernel context that was
\* interrupted goes on at the position it was interrupted at.  The two exceptions
\* are the shell's first entry and its return from `run`, where C code finds its
\* frames by EBP.  This rests on there being one foreground program: between an
\* interrupt in ring 0 and the way back, only the idle task has run.
ResumesInPlace ==
  [][current' # current /\ current' # Idle /\ Ring(cpu'.pc) = 0
       => \/ esp' = saved_esp'[current']
          \/ current' = Shell /\ (base = NullPage \/ cpu'.pc = "sh_ran")]_allVars

\* The stack ESP is on, and the stacks the shell's frames are on, are never those
\* of a slot that `kill` has freed, although the shell comes back from `run` on
\* the kernel stack of the zombie.
StackIsAllocated ==
  /\ esp.stack \in UserSlots => state[esp.stack] # "UNUSED"
  /\ base \notin UserSlots

\* Kernel code other than the idle loop runs with the kernel's data segment,
\* although no switch saves or loads segments: what a task gets is what the
\* interrupted one had.
KernelSegments == current # Idle /\ Ring(cpu.pc) = 0 => ds = "kernel"
-------------------------------------------------------------------------------
(* What comments in the code say, and the code does not do *)

\* Words of the registers_t that an interrupt leaves on the stack: the CPU pushes
\* useresp and ss only when it comes from ring 3.
FrameWords == IF Ring(cpu.pc) = 3 THEN 19 ELSE 17

\* Words of it that task_switch() may write: up to ss, at offset 72.
WrittenWords == 19

\* switch.asm: "We must also update the user stack pointer and segment for the
\* IRET. These are at offsets 68 and 72 in the registers_t struct."
WritesInFrame ==
  [][current' # current => WrittenWords <= FrameWords]_allVars

\* isr.asm: "Restore original segment registers": a program runs with the segment
\* of its own ring that gdt.c set up.
UserSegments == Ring(cpu.pc) = 3 => ds = "user"
===============================================================================
