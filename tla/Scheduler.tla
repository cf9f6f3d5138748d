------------------------------- MODULE Scheduler -------------------------------
(***************************************************************************)
(* The process table, the round-robin scheduler and the tasks it switches  *)
(* between: the idle task (slot 0), the shell (slot 1) and the user        *)
(* programs the shell starts with `run` (the other slots).                 *)
(*                                                                         *)
(* One CPU executes one task at a time.  `cpu` is its live context: a      *)
(* program point and the interrupt flag (EFLAGS.IF).  `cpu_state[p]` is    *)
(* the context schedule() saved for task p.  A step of a task is the code  *)
(* between two points at which an interrupt can be taken; TimerIRQ and     *)
(* KeyboardIRQ may happen before every step that starts with IF set.  A    *)
(* stretch of code that runs with IF clear is one step.                    *)
(*                                                                         *)
(* Program points ending in "_hlt" are a CPU halted by `hlt`: the task     *)
(* goes on only after an interrupt.                                        *)
(***************************************************************************)
EXTENDS Naturals

CONSTANTS
  MAX_PROCESSES,  \* slots of process_table
  TickMod,        \* tick is an unsigned integer modulo this (2^32 in the code)
  SleepTicks,     \* the durations, in ticks, that sleep() is asked for
  KbdMax,         \* characters the keyboard buffer holds
  Faults          \* whether a user program may raise a CPU exception

ASSUME ProcAssumption == MAX_PROCESSES \in Nat /\ MAX_PROCESSES >= 3
ASSUME TickAssumption == TickMod \in Nat \ {0}
ASSUME SleepAssumption == SleepTicks \subseteq Nat \ {0}
ASSUME KbdAssumption == KbdMax \in Nat \ {0}
ASSUME FaultAssumption == Faults \in BOOLEAN

VARIABLES
  state,        \* process_table[p].state
  wakeup_time,  \* process_table[p].wakeup_time
  cpu_state,    \* process_table[p].cpu_state: the saved context
  current,      \* the slot current_task points to
  cpu,          \* the live context
  tick,         \* the timer's tick counter
  multitasking, \* multitasking_enabled
  kbd,          \* characters in the keyboard buffer
  sleep_end,    \* shell local in sleep(): start_tick + ticks_to_wait, 0 outside
  victim        \* shell local in `kill`: the slot being reaped, 0 outside

vars == <<state, wakeup_time, cpu_state, current, cpu, tick, multitasking,
          kbd, sleep_end, victim>>
procVars == <<state, wakeup_time, cpu_state, current>>
shellVars == <<sleep_end, victim>>

Pid == 0 .. MAX_PROCESSES - 1
Idle == 0
Shell == 1
UserSlots == 2 .. MAX_PROCESSES - 1
Tick == 0 .. TickMod - 1

States == {"UNUSED", "RUNNING", "SLEEPING", "WAITING", "ZOMBIE"}

IdlePoints == {"kmain", "kmain_gate", "idle_hlt"}
ShellPoints == {"sh_prompt", "sh_read", "sh_empty", "sh_read_hlt", "sh_edit",
                "sh_cmd", "sh_exec", "sh_exec_undo", "sh_ran", "sh_cat", "sh_cat_free",
                "sh_reap", "sl_mark", "sl_wake", "sl_halt",
                "sl_hlt", "sl_ret"}
UserPoints == {"user", "k_getchar", "k_empty", "k_getchar_hlt", "k_sleep_hlt",
               "k_ret", "fault"}
HaltPoints == {"idle_hlt", "sh_read_hlt", "sl_hlt", "k_getchar_hlt",
               "k_sleep_hlt"}
Points == IdlePoints \cup ShellPoints \cup UserPoints \cup {"none"}
Contexts == [pc : Points, intr : BOOLEAN]

Ctx(point, flag) == [pc |-> point, intr |-> flag]

\* The context of a slot whose PCB was cleared.
NoCtx == Ctx("none", FALSE)

\* Mutant: the loop of keyboard_read_char() halts again without a new test.
Resume_NoRetest(point) ==
  CASE point = "sh_read_hlt"   -> "sh_empty"
    [] point = "sl_hlt"        -> "sl_ret"
    [] point = "k_getchar_hlt" -> "k_empty"
    [] point = "k_sleep_hlt"   -> "k_ret"
    [] OTHER                   -> point

\* The instruction after `hlt`: what an interrupt returns to.
Resume(point) ==
  CASE point = "sh_read_hlt"   -> "sh_read"
    [] point = "sl_hlt"        -> "sl_ret"
    [] point = "k_getchar_hlt" -> "k_getchar"
    [] point = "k_sleep_hlt"   -> "k_ret"
    [] OTHER                   -> point
-------------------------------------------------------------------------------
(* schedule() and timer_handler() *)

\* A slot i steps after c in the round robin.
After(c, i) == (c + i) % MAX_PROCESSES

RunnableSteps(c, st) == {i \in 1 .. MAX_PROCESSES : st[After(c, i)] = "RUNNING"}

\* Mutant: the search starts at slot 0 instead of after the current task.
NextTask_FromZero(c, st) ==
  CHOOSE p \in Pid : /\ st[p] = "RUNNING"
                     /\ \A q \in Pid : st[q] = "RUNNING" => p <= q

\* Mutant: any task but an unused one counts as runnable.
NextTask_AnyState(c, st) ==
  LET steps == {i \in 1 .. MAX_PROCESSES : st[After(c, i)] # "UNUSED"}
  IN  IF steps = {} THEN Idle
      ELSE After(c, CHOOSE i \in steps : \A j \in steps : i <= j)

\* The first RUNNING task after c in cyclic order, or the idle task.
NextTask(c, st) ==
  IF RunnableSteps(c, st) = {} THEN Idle
  ELSE After(c, CHOOSE i \in RunnableSteps(c, st) :
                  \A j \in RunnableSteps(c, st) : i <= j)

\* Mutant: sleeping tasks are not looked at.
Wake_Never(st, now) == st

\* Mutant: waiting tasks are woken as sleeping ones are.
Wake_Waiting(st, now) ==
  [p \in Pid |-> IF st[p] \in {"SLEEPING", "WAITING"} /\ now >= wakeup_time[p]
                 THEN "RUNNING" ELSE st[p]]

\* Every sleeping task whose wakeup_time has come is runnable again.
Wake(st, now) ==
  [p \in Pid |-> IF st[p] = "SLEEPING" /\ now >= wakeup_time[p]
                 THEN "RUNNING" ELSE st[p]]

\* The context the interrupt frame holds is saved, unless the task is a zombie.
Save(st, saved, ctx) ==
  IF st[current] = "ZOMBIE" THEN saved ELSE [saved EXCEPT ![current] = ctx]

\* timer_handler(), entered from the timer or from `int $0x20`, with the
\* process table as st, the saved contexts as saved and the interrupted context
\* as ctx.  The handler runs with interrupts disabled.
TimerHandler(st, saved, ctx) ==
  LET now   == (tick + 1) % TickMod
      woken == Wake(st, now)
      next  == NextTask(current, woken)
  IN  /\ tick' = now
      /\ state' = woken
      /\ \/ /\ multitasking
            /\ cpu_state' = Save(woken, saved, ctx)
            /\ current' = next
            /\ cpu' = cpu_state'[next]
         \/ /\ ~multitasking
            /\ cpu' = ctx
            /\ cpu_state' = saved
            /\ UNCHANGED current
-------------------------------------------------------------------------------
(* Interrupts: taken between two steps, when IF is set *)

TimerIRQ ==
  /\ cpu.intr
  /\ TimerHandler(state, cpu_state, Ctx(Resume(cpu.pc), TRUE))
  /\ UNCHANGED <<wakeup_time, multitasking, kbd, shellVars>>

\* keyboard_handler() buffers the character, or drops it when the buffer is
\* full; a release, a shift key or a key without a character buffers nothing.
\* A halted CPU goes on in every case.
KeyboardIRQ ==
  /\ cpu.intr
  /\ \/ kbd < KbdMax /\ kbd' = kbd + 1
     \/ kbd' = kbd
  /\ cpu' = Ctx(Resume(cpu.pc), TRUE)
  /\ UNCHANGED <<procVars, tick, multitasking, shellVars>>
-------------------------------------------------------------------------------
(* Steps of a task.  At(p, point): task p is on the CPU at that point. *)

At(p, point) == current = p /\ cpu.pc = point

\* The current task goes to a point, with the interrupt flag as given.
Goto(point, flag) == cpu' = Ctx(point, flag)

\* kmain opens the gate for the scheduler, then jumps to the idle task.
OpenGate ==
  /\ At(Idle, "kmain")
  /\ multitasking' = TRUE
  /\ Goto("kmain_gate", cpu.intr)
  /\ UNCHANGED <<procVars, tick, kbd, shellVars>>

StartMultitasking ==
  /\ At(Idle, "kmain_gate")
  /\ cpu' = cpu_state[Idle]
  /\ UNCHANGED <<procVars, tick, multitasking, kbd, shellVars>>

\* What a step of a task without a task switch leaves alone.
NoSwitch == UNCHANGED <<current, tick, multitasking>>

\* A step that only moves the program point of the current task.
StepTo(point, flag) ==
  /\ Goto(point, flag)
  /\ NoSwitch
  /\ UNCHANGED <<state, wakeup_time, cpu_state, kbd, shellVars>>
-------------------------------------------------------------------------------
(* The shell *)

\* After a command, a newline and the prompt are printed, and process_command()
\* returns to the loop that reads the keyboard; print_char() ends with `sti`,
\* whatever the interrupt flag was before.
ShellPrompt ==
  /\ At(Shell, "sh_prompt")
  /\ StepTo("sh_read", TRUE)

\* Back from `int $0x20` in `run`, interrupts stay disabled up to that newline.
ShellRan ==
  /\ At(Shell, "sh_ran")
  /\ StepTo("sh_prompt", TRUE)

\* keyboard_read_char(): while the buffer is found empty, `sti; hlt` ...
ShellFindsEmpty ==
  /\ At(Shell, "sh_read") /\ kbd = 0
  /\ StepTo("sh_empty", cpu.intr)

ShellHalts ==
  /\ At(Shell, "sh_empty")
  /\ StepTo("sh_read_hlt", TRUE)

\* ... and a character is taken otherwise: Enter starts the command (printing
\* the newline sets IF), anything else edits the line.
ShellRead ==
  /\ At(Shell, "sh_read") /\ kbd > 0
  /\ kbd' = kbd - 1
  /\ \/ Goto("sh_cmd", TRUE)
     \/ Goto("sh_edit", cpu.intr)
  /\ NoSwitch /\ UNCHANGED <<cpu_state, state, wakeup_time, shellVars>>

\* shell_handle_input() on any other key redraws the line in video memory.
ShellEdit ==
  /\ At(Shell, "sh_edit")
  /\ StepTo("sh_read", cpu.intr)

\* A command that only prints: help, uptime, ps, an unknown command, ...
ShellOther ==
  /\ At(Shell, "sh_cmd")
  /\ StepTo("sh_prompt", TRUE)

\* cat: the file is read with interrupts disabled; printing it enables them,
\* and the buffer is freed after that.
ShellCat ==
  /\ At(Shell, "sh_cmd")
  /\ StepTo("sh_cat", FALSE)

ShellCatPrint ==
  /\ At(Shell, "sh_cat")
  /\ StepTo("sh_cat_free", TRUE)

ShellCatDone ==
  /\ At(Shell, "sh_cat_free") \/ At(Shell, "sh_cat")
  /\ StepTo("sh_prompt", TRUE)

\* run: the keyboard buffer is flushed, then exec_program() is entered, whose
\* `cli` makes all of it one step.
ShellRun ==
  /\ At(Shell, "sh_cmd")
  /\ kbd' = 0
  /\ Goto("sh_exec", cpu.intr)
  /\ NoSwitch /\ UNCHANGED <<cpu_state, state, wakeup_time, shellVars>>

\* exec_program() gives up: no file, no memory, ...
ExecFail ==
  /\ At(Shell, "sh_exec")
  /\ StepTo("sh_prompt", TRUE)

\* exec_program() prints an error (not an ELF file, no address space, no free
\* slot) before it has released what it allocated ...
ExecFailPrint ==
  /\ At(Shell, "sh_exec")
  /\ StepTo("sh_exec_undo", TRUE)

\* ... and releases it then.
ExecUndo ==
  /\ At(Shell, "sh_exec_undo")
  /\ StepTo("sh_prompt", TRUE)

FreeSlots == {p \in Pid : state[p] = "UNUSED"}

\* Mutant: the slot of a zombie is taken too.
NewTask_Zombie(p) ==
  /\ state[p] \in {"UNUSED", "ZOMBIE"}
  /\ \A q \in Pid : state[q] \in {"UNUSED", "ZOMBIE"} => p <= q

\* The slot exec_program() takes: the first unused one.
NewTask(p) ==
  /\ p \in FreeSlots
  /\ \A q \in FreeSlots : p <= q

\* Mutant: the flags of a new task are left zero.
EntryContext_NoIF == Ctx("user", FALSE)

\* What a new task starts with: the program's entry point, interrupts enabled.
EntryContext == Ctx("user", TRUE)

\* Mutant: the shell yields without waiting for the program.
ExecDone_NoWait(p) ==
  /\ At(Shell, "sh_exec")
  /\ NewTask(p)
  /\ TimerHandler([state EXCEPT ![p] = "RUNNING"],
                  [cpu_state EXCEPT ![p] = EntryContext],
                  Ctx("sh_ran", FALSE))
  /\ UNCHANGED <<wakeup_time, multitasking, kbd, shellVars>>

\* exec_program() succeeds: the slot becomes a running user task, the shell
\* waits for it and yields with `int $0x20`, all with interrupts disabled.
ExecDone(p) ==
  /\ At(Shell, "sh_exec")
  /\ NewTask(p)
  /\ TimerHandler([state EXCEPT ![p] = "RUNNING", ![Shell] = "WAITING"],
                  [cpu_state EXCEPT ![p] = EntryContext],
                  Ctx("sh_ran", FALSE))
  /\ UNCHANGED <<wakeup_time, multitasking, kbd, shellVars>>

\* sleep(), called with interrupts enabled: the tick is read, ...
ShellSleep(n) ==
  /\ At(Shell, "sh_cmd")
  /\ sleep_end' = (tick + n) % TickMod
  /\ Goto("sl_mark", cpu.intr)
  /\ NoSwitch /\ UNCHANGED <<cpu_state, state, wakeup_time, kbd, victim>>

\* ... the task is marked sleeping, ...
SleepMark ==
  /\ At(Shell, "sl_mark")
  /\ state' = [state EXCEPT ![Shell] = "SLEEPING"]
  /\ Goto("sl_wake", cpu.intr)
  /\ NoSwitch /\ UNCHANGED <<cpu_state, wakeup_time, kbd, shellVars>>

\* ... its wake-up time is set, ...
SleepSetWakeup ==
  /\ At(Shell, "sl_wake")
  /\ wakeup_time' = [wakeup_time EXCEPT ![Shell] = sleep_end]
  /\ Goto("sl_halt", cpu.intr)
  /\ NoSwitch /\ UNCHANGED <<cpu_state, state, kbd, shellVars>>

\* ... and `sti; hlt` waits for one interrupt, whichever it is.
SleepHalt ==
  /\ At(Shell, "sl_halt")
  /\ StepTo("sl_hlt", TRUE)

SleepReturn ==
  /\ At(Shell, "sl_ret")
  /\ sleep_end' = 0
  /\ Goto("sh_prompt", cpu.intr)
  /\ NoSwitch /\ UNCHANGED <<cpu_state, state, wakeup_time, kbd, victim>>

\* Mutant: the slot to reap is not tested for a zombie.
ShellKill_Any(p) ==
  /\ At(Shell, "sh_cmd")
  /\ p > 0
  /\ state[p] # "UNUSED"
  /\ victim' = p
  /\ Goto("sh_reap", cpu.intr)
  /\ NoSwitch /\ UNCHANGED <<cpu_state, state, wakeup_time, kbd, sleep_end>>

\* kill: a zombie is found in the slot (any other outcome only prints) ...
ShellKill(p) ==
  /\ At(Shell, "sh_cmd")
  /\ p > 0
  /\ state[p] = "ZOMBIE"
  /\ victim' = p
  /\ Goto("sh_reap", cpu.intr)
  /\ NoSwitch /\ UNCHANGED <<cpu_state, state, wakeup_time, kbd, sleep_end>>

\* ... and its slot is cleared.
ShellReap ==
  /\ At(Shell, "sh_reap")
  /\ state' = [state EXCEPT ![victim] = "UNUSED"]
  /\ wakeup_time' = [wakeup_time EXCEPT ![victim] = 0]
  /\ cpu_state' = [cpu_state EXCEPT ![victim] = NoCtx]
  /\ victim' = 0
  /\ Goto("sh_prompt", TRUE)
  /\ NoSwitch /\ UNCHANGED <<kbd, sleep_end>>
-------------------------------------------------------------------------------
(* A user program and its system calls.  `int $0x80` goes through an interrupt  *)
(* gate: a system call starts with interrupts disabled, and its IRET restores   *)
(* the user's IF, which is set.                                                 *)

InUser == current \in UserSlots /\ cpu.pc = "user"
InKernel(point) == current \in UserSlots /\ cpu.pc = point

SysGetchar ==
  /\ InUser
  /\ StepTo("k_getchar", FALSE)

GetcharFindsEmpty ==
  /\ InKernel("k_getchar") /\ kbd = 0
  /\ StepTo("k_empty", cpu.intr)

GetcharHalts ==
  /\ InKernel("k_empty")
  /\ StepTo("k_getchar_hlt", TRUE)

GetcharTake ==
  /\ InKernel("k_getchar") /\ kbd > 0
  /\ kbd' = kbd - 1
  /\ Goto("user", TRUE)
  /\ NoSwitch /\ UNCHANGED <<cpu_state, state, wakeup_time, shellVars>>

\* sys_test_print(), and the message for a bad system call number: printing
\* enables interrupts inside the system call.
SysPrint ==
  /\ InUser
  /\ StepTo("k_ret", TRUE)

\* sys_play_sound() touches no scheduler state.
SysPlaySound ==
  /\ InUser
  /\ StepTo("k_ret", FALSE)

SysReturn ==
  /\ InKernel("k_ret")
  /\ StepTo("user", TRUE)

\* Mutant: the system call sleeps with interrupts disabled.
SysSleep_NoSti(n) ==
  /\ InUser
  /\ state' = [state EXCEPT ![current] = "SLEEPING"]
  /\ wakeup_time' = [wakeup_time EXCEPT ![current] = (tick + n) % TickMod]
  /\ Goto("k_sleep_hlt", FALSE)
  /\ NoSwitch /\ UNCHANGED <<cpu_state, kbd, shellVars>>

\* sys_sleep(): all of sleep() up to its `sti; hlt` runs with interrupts disabled.
SysSleep(n) ==
  /\ InUser
  /\ state' = [state EXCEPT ![current] = "SLEEPING"]
  /\ wakeup_time' = [wakeup_time EXCEPT ![current] = (tick + n) % TickMod]
  /\ Goto("k_sleep_hlt", TRUE)
  /\ NoSwitch /\ UNCHANGED <<cpu_state, kbd, shellVars>>

\* Mutant: nobody wakes the shell.
WakeShell_Never(st) == st

\* The shell is woken if it waits.
WakeShell(st) ==
  IF st[Shell] = "WAITING" THEN [st EXCEPT ![Shell] = "RUNNING"] ELSE st

\* Mutant: the slot is released at once, while its task is the current one.
SysExit_Unused ==
  /\ InUser
  /\ TimerHandler([WakeShell(state) EXCEPT ![current] = "UNUSED"], cpu_state,
                  Ctx("fault", FALSE))
  /\ UNCHANGED <<wakeup_time, multitasking, kbd, shellVars>>

\* sys_exit(): wakes the shell, becomes a zombie and yields with `int $0x20`.
\* Nothing may follow in a zombie; "fault" stands for the code after the yield.
SysExit ==
  /\ InUser
  /\ TimerHandler([WakeShell(state) EXCEPT ![current] = "ZOMBIE"], cpu_state,
                  Ctx("fault", FALSE))
  /\ UNCHANGED <<wakeup_time, multitasking, kbd, shellVars>>

\* A CPU exception: fault_handler() prints and halts for ever.
UserFault ==
  /\ Faults /\ InUser
  /\ StepTo("fault", FALSE)
-------------------------------------------------------------------------------
Init ==
  /\ state = [p \in Pid |-> IF p \in {Idle, Shell} THEN "RUNNING" ELSE "UNUSED"]
  /\ wakeup_time = [p \in Pid |-> 0]
  /\ cpu_state = [p \in Pid |-> IF p = Idle THEN Ctx("idle_hlt", TRUE)
                                ELSE IF p = Shell THEN Ctx("sh_prompt", TRUE)
                                ELSE NoCtx]
  /\ current = Idle
  /\ cpu = Ctx("kmain", TRUE)
  /\ tick = 0
  /\ multitasking = FALSE
  /\ kbd = 0
  /\ sleep_end = 0
  /\ victim = 0

BootStep == OpenGate \/ StartMultitasking

ShellStep ==
  \/ ShellPrompt \/ ShellRan \/ ShellFindsEmpty \/ ShellHalts \/ ShellRead
  \/ ShellEdit \/ ShellOther
  \/ ShellCat \/ ShellCatPrint \/ ShellCatDone
  \/ ShellRun \/ ExecFail \/ ExecFailPrint \/ ExecUndo
  \/ \E p \in Pid : ExecDone(p) \/ ShellKill(p)
  \/ \E n \in SleepTicks : ShellSleep(n)
  \/ SleepMark \/ SleepSetWakeup \/ SleepHalt \/ SleepReturn \/ ShellReap

\* What a program does next is its own choice ...
UserStep ==
  \/ SysGetchar \/ SysPrint \/ SysPlaySound \/ SysExit \/ UserFault
  \/ \E n \in SleepTicks : SysSleep(n)

\* ... the kernel's part of a system call goes on by itself.
SyscallStep == GetcharFindsEmpty \/ GetcharHalts \/ GetcharTake \/ SysReturn

Next ==
  TimerIRQ \/ KeyboardIRQ \/ BootStep \/ ShellStep \/ UserStep \/ SyscallStep

Spec == Init /\ [][Next]_vars

\* The timer keeps firing and the PIC holds a request until interrupts are
\* enabled; a task that is on the CPU executes its instructions.
Fairness ==
  /\ SF_vars(TimerIRQ)
  /\ SF_vars(BootStep)
  /\ SF_vars(ShellStep)
  /\ SF_vars(SyscallStep)

FairSpec == Spec /\ Fairness
-------------------------------------------------------------------------------
(* Safety *)

\* The point task p is at: live if it is on the CPU, saved otherwise.
PointOf(p) == IF p = current THEN cpu.pc ELSE cpu_state[p].pc

Alive(p) == state[p] \in {"RUNNING", "SLEEPING", "WAITING"}

\* The process table, the contexts and the counters are in range: tick and the
\* wake-up times wrap, and the keyboard never overfills its buffer.
TypeOK ==
  /\ state \in [Pid -> States]
  /\ wakeup_time \in [Pid -> Tick]
  /\ cpu_state \in [Pid -> Contexts]
  /\ current \in Pid
  /\ cpu \in Contexts
  /\ tick \in Tick
  /\ multitasking \in BOOLEAN
  /\ kbd \in 0 .. KbdMax
  /\ sleep_end \in Tick
  /\ victim \in Pid

\* The shell waits exactly while a program it started has not exited, and there
\* is never a second such program (shell.c `run` against sys_exit): no exit is
\* missed and no program is left behind.
OneForeground ==
  /\ \A p, q \in UserSlots : Alive(p) /\ Alive(q) => p = q
  /\ state[Shell] = "WAITING" <=> \E p \in UserSlots : Alive(p)

\* schedule() never leaves the CPU with a task that has exited, waits for its
\* child or has an empty slot, whatever interrupt or yield called it.
OnCpuIsAlive == state[current] \in {"RUNNING", "SLEEPING"}

\* The CPU never halts with interrupts disabled: every `hlt` that a task
\* executes can be ended by the timer.
HaltIsInterruptible == cpu.pc \in HaltPoints => cpu.intr

ReaderPoints == {"sh_read", "sh_empty", "sh_read_hlt",
                 "k_getchar", "k_empty", "k_getchar_hlt"}

\* Two tasks are never both inside keyboard_read_char() and able to run, so the
\* read index of the keyboard buffer has one writer although it has no lock.
OneKeyboardReader ==
  \A p, q \in Pid :
    /\ state[p] \in {"RUNNING", "SLEEPING"} /\ PointOf(p) \in ReaderPoints
    /\ state[q] \in {"RUNNING", "SLEEPING"} /\ PointOf(q) \in ReaderPoints
    => p = q

\* From the test for a zombie in `kill` to the clearing of its slot, the slot
\* still holds that zombie, although interrupts are enabled all along.
ReapsAZombie ==
  PointOf(Shell) = "sh_reap" => victim \in UserSlots /\ state[victim] = "ZOMBIE"

\* A slot changes hands only under the shell: a zombie leaves its slot only to
\* `kill`, a free slot is filled only by `run`, and only by a running task.
SlotChanges ==
  [][\A p \in Pid :
       /\ state[p] = "ZOMBIE" /\ state'[p] # "ZOMBIE"
            => current = Shell /\ state'[p] = "UNUSED"
       /\ state[p] = "UNUSED" /\ state'[p] # "UNUSED"
            => current = Shell /\ state[Shell] # "WAITING" /\ state'[p] = "RUNNING"
    ]_vars

\* The process table implements the one-foreground-program specification.
Owner == IF state[Shell] = "WAITING"
         THEN CHOOSE p \in UserSlots : Alive(p) ELSE Shell
Zombies == {p \in UserSlots : state[p] = "ZOMBIE"}

Fg == INSTANCE Foreground
        WITH Slots <- UserSlots, Shell <- Shell,
             owner <- Owner, zombies <- Zombies

\* `run`, sys_exit and `kill` are the launch, exit and reap of the foreground
\* specification, and no interrupt or other step moves the console.
ImplementsForeground == Fg!Spec
-------------------------------------------------------------------------------
(* Liveness *)

\* Round robin starves nobody: a runnable task gets the CPU, unless it stops
\* being runnable first.
RunnableRuns ==
  \A p \in Pid : state[p] = "RUNNING" ~> (current = p \/ state[p] # "RUNNING")

\* A task that sleeps is woken, even when start_tick + ticks_to_wait wraps
\* around the tick counter.
SleeperWakes ==
  \A p \in Pid : state[p] = "SLEEPING" ~> state[p] # "SLEEPING"

\* Once the program it waited for is gone, the shell gets back to reading the
\* keyboard: sys_exit() wakes it and nobody else has to.
PromptReturns ==
  (PointOf(Shell) = "sh_ran" /\ \A p \in UserSlots : ~Alive(p))
    ~> PointOf(Shell) = "sh_read"

\* A key that arrives between the shell's test for an empty buffer and its `hlt`
\* is not lost: the shell takes it after the next interrupt at the latest.
KeyIsRead ==
  (kbd > 0 /\ PointOf(Shell) \in {"sh_read", "sh_empty", "sh_read_hlt"})
    ~> PointOf(Shell) \in {"sh_edit", "sh_cmd"}

\* Interrupts never stay disabled: what follows the `int $0x20` of `run`, a file
\* read under `cli` and every system call ends in an `sti`, an IRET or a message,
\* whose print_char() enables them.
InterruptsComeBack == ~cpu.intr ~> cpu.intr
-------------------------------------------------------------------------------
(* What comments in the code say, and the code does not do *)

\* switch.asm: start_multitasking "starts the very first task. It's only called
\* once from kmain."  So what kmain hands it is the idle task's first context: with
\* kmain's own context in that slot, it would return to kmain and be called again.
StartedOnce == At(Idle, "kmain_gate") => cpu_state[Idle].pc = "idle_hlt"

\* shell.c, after `int $0x20` in `run`: "The IRET from the interrupt handler will
\* automatically re-enable interrupts for us."
InterruptsBackAfterRun == At(Shell, "sh_ran") => cpu.intr

\* process.c, exec_program(): "From here on, we are manipulating page tables and
\* process state. It is critical that we are not interrupted."
ExecIsNotInterrupted == At(Shell, "sh_exec_undo") => ~cpu.intr

\* timer.c: sleep() "Puts the current task to sleep for a specified number of
\* milliseconds": it does not return before.
SleepLasts == At(Shell, "sl_ret") => tick >= sleep_end

\* timer.c, same comment: a task that called sleep() is not made runnable before
\* its time, not even between the two stores to its PCB.
NotWokenEarly ==
  PointOf(Shell) = "sl_wake" /\ tick < sleep_end => state[Shell] = "SLEEPING"
===============================================================================
