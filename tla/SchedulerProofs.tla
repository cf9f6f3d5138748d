---------------------------- MODULE SchedulerProofs ----------------------------
(***************************************************************************)
(* Safety of the scheduler and the process table for every number of       *)
(* slots, every width of the tick counter, every set of sleep durations    *)
(* and every size of the keyboard buffer.                                  *)
(*                                                                         *)
(* Below them, stacks, rings and data segments: they are right on every    *)
(* context switch too, when no tick comes between the opening of the gate  *)
(* and start_multitasking().                                               *)
(***************************************************************************)
EXTENDS ContextSwitch, WellFoundedInduction, TLAPS

\* Leaves are for Zenon unless they name SMT, which those with arithmetic do.
USE ZenonT(40)

\* The next task to run is the first in index order: a non-empty set of naturals has a
\* least element.
LEMMA LeastExists ==
  ASSUME NEW S \in SUBSET Nat, S # {}
  PROVE  \E x \in S : \A y \in S : x <= y
<1> DEFINE Less == {ss \in Nat \X Nat : ss[1] < ss[2]}
<1>1. IsWellFoundedOn(Less, Nat)
  BY NatLessThanWellFounded DEF OpToRel
<1>2. ASSUME NEW x \in Nat, NEW y \in Nat PROVE <<y, x>> \in Less <=> y < x
  BY SMT
<1> HIDE DEF Less
<1>3. PICK x \in S : \A y \in S : ~(<<y, x>> \in Less)
  BY <1>1, WFMin
<1>4. \A y \in S : ~(y < x)
  BY <1>2, <1>3
<1> QED
  BY <1>4, SMT

Live == {"RUNNING", "SLEEPING", "WAITING"}

\* A context a task in slot p may have.
Fits(p, ctx) ==
  /\ ctx \in Contexts
  /\ p = Idle => ctx.pc \in IdlePoints
  /\ p = Shell => ctx.pc \in ShellPoints
  /\ p \in UserSlots => ctx.pc \in UserPoints
  /\ ctx.pc \in HaltPoints => ctx.intr

\* A process table with one foreground: the shell, or one program it waits for.
TableOK(st) ==
  /\ st \in [Pid -> States]
  /\ st[Idle] = "RUNNING"
  /\ st[Shell] \in Live
  /\ \A p \in UserSlots : st[p] # "WAITING"
  /\ \A p, q \in UserSlots : st[p] \in Live /\ st[q] \in Live => p = q
  /\ st[Shell] = "WAITING" <=> \E p \in UserSlots : st[p] \in Live

\* The contexts schedule() may load.
SavedOK(st, saved) ==
  /\ saved \in [Pid -> Contexts]
  /\ \A p \in Pid : st[p] \in Live => Fits(p, saved[p])

\* The inductive invariant.
IInv ==
  /\ TypeOK
  /\ TableOK(state)
  /\ SavedOK(state, cpu_state)
  /\ OnCpuIsAlive
  /\ Fits(current, cpu)
  /\ state[Shell] = "WAITING" => cpu_state[Shell].pc = "sh_ran"
  /\ ~multitasking => current = Idle
  /\ ReapsAZombie
-------------------------------------------------------------------------------
(* Arithmetic and the search for the next task *)

\* A remainder is a valid index: the round robin and the tick counter wrap.
LEMMA ModRange ==
  ASSUME NEW a \in Nat, NEW n \in Nat \ {0}
  PROVE  a % n \in 0 .. n - 1
BY SMTT(30)

\* schedule() picks a runnable task, as long as the idle task is runnable.
LEMMA NextTaskRuns ==
  ASSUME NEW c \in Pid, NEW st \in [Pid -> States], st[Idle] = "RUNNING"
  PROVE  NextTask(c, st) \in Pid /\ st[NextTask(c, st)] = "RUNNING"
<1> DEFINE R == RunnableSteps(c, st)
<1>1. CASE R = {}
  BY <1>1, ProcAssumption, SMTT(30) DEF NextTask, Idle, Pid
<1>2. CASE R # {}
  <2>1. R \in SUBSET Nat
    BY SMTT(30) DEF RunnableSteps
  <2>2. \E i \in R : \A j \in R : i <= j
    BY <1>2, <2>1, LeastExists
  <2>3. PICK i \in R : NextTask(c, st) = After(c, i)
    BY <1>2, <2>2 DEF NextTask
  <2>4. st[After(c, i)] = "RUNNING" /\ i \in Nat
    BY <2>3, SMTT(30) DEF RunnableSteps
  <2>5. After(c, i) \in Pid
    BY <2>4, ModRange, ProcAssumption, SMTT(30) DEF After, Pid
  <2> QED
    BY <2>3, <2>4, <2>5
<1> QED
  BY <1>1, <1>2

\* The slots of the two kernel tasks, and those of the programs.
LEMMA SlotRanges ==
  /\ Idle \in Pid /\ Shell \in Pid /\ Idle # Shell
  /\ UserSlots = Pid \ {Idle, Shell}
  /\ Idle \notin UserSlots /\ Shell \notin UserSlots
BY ProcAssumption, SMTT(30) DEF Idle, Shell, Pid, UserSlots

\* Advancing the tick counter keeps it in range.
LEMMA TickRange ==
  ASSUME NEW t \in Tick, NEW n \in Nat
  PROVE  (t + n) % TickMod \in Tick
BY ModRange, TickAssumption, SMTT(30) DEF Tick

\* Waking sleepers changes a SLEEPING entry to RUNNING and nothing else.
LEMMA WakeKeeps ==
  ASSUME NEW st \in [Pid -> States], NEW now
  PROVE  /\ Wake(st, now) \in [Pid -> States]
         /\ \A p \in Pid :
              /\ Wake(st, now)[p] \in Live <=> st[p] \in Live
              /\ \A s \in {"WAITING", "ZOMBIE", "UNUSED"} :
                   Wake(st, now)[p] = s <=> st[p] = s
              /\ st[p] = "RUNNING" => Wake(st, now)[p] = "RUNNING"
BY DEF Wake, States, Live

\* An interrupt resumes a task at a point of the same task that is no `hlt`,
\* or at a `hlt` with interrupts enabled.
LEMMA ResumeFits ==
  ASSUME NEW p \in Pid, NEW ctx, Fits(p, ctx), ctx.intr
  PROVE  /\ Fits(p, Ctx(Resume(ctx.pc), TRUE))
         /\ Resume(ctx.pc) = "sh_reap" <=> ctx.pc = "sh_reap"
BY DEF Fits, Ctx, Resume, Contexts, Points, IdlePoints, ShellPoints, UserPoints,
       HaltPoints
-------------------------------------------------------------------------------
(* What timer_handler() preserves, whoever entered it *)

\* timer_handler() hands the CPU to a live task, with its context restored.
LEMMA TimerHandlerSafe ==
  ASSUME TypeOK,
         NEW st, TableOK(st),
         NEW saved, SavedOK(st, saved),
         NEW ctx, ctx \in Contexts,
         st[current] # "ZOMBIE" => Fits(current, ctx) /\ st[current] \in Live,
         st[Shell] = "WAITING" =>
           (IF current = Shell THEN ctx.pc ELSE saved[Shell].pc) = "sh_ran",
         st[Shell] # "ZOMBIE",
         ~multitasking => current = Idle,
         TimerHandler(st, saved, ctx)
  PROVE  /\ tick' \in Tick
         /\ current' \in Pid
         /\ TableOK(state)'
         /\ SavedOK(state, cpu_state)'
         /\ OnCpuIsAlive'
         /\ Fits(current, cpu)'
         /\ (state[Shell] = "WAITING" => cpu_state[Shell].pc = "sh_ran")'
         /\ ~multitasking => current' = Idle
         /\ \A p \in Pid : /\ state'[p] = "ZOMBIE" <=> st[p] = "ZOMBIE"
                           /\ state'[p] = "UNUSED" <=> st[p] = "UNUSED"
                           /\ state'[p] = "WAITING" <=> st[p] = "WAITING"
                           /\ state'[p] \in Live <=> st[p] \in Live
         /\ PointOf(Shell)' = IF current = Shell THEN ctx.pc ELSE saved[Shell].pc
<1> USE SlotRanges
<1> DEFINE now == (tick + 1) % TickMod
           woken == Wake(st, now)
           next == NextTask(current, woken)
<1>1. tick' = now /\ now \in Tick
  BY TickRange DEF TimerHandler, TypeOK
<1>2. state' = woken
  BY DEF TimerHandler
<1>3. st \in [Pid -> States]
  BY DEF TableOK
<1>4. /\ woken \in [Pid -> States]
      /\ \A p \in Pid :
           /\ woken[p] \in Live <=> st[p] \in Live
           /\ \A s \in {"WAITING", "ZOMBIE", "UNUSED"} : woken[p] = s <=> st[p] = s
           /\ st[p] = "RUNNING" => woken[p] = "RUNNING"
  BY <1>3, WakeKeeps
<1> HIDE DEF now, woken
<1>5. TableOK(woken)
  BY <1>4 DEF TableOK, Live
<1>6. current \in Pid
  BY DEF TypeOK
<1>7. next \in Pid /\ woken[next] = "RUNNING"
  BY <1>5, <1>6, NextTaskRuns DEF TableOK
<1> HIDE DEF next
<1>8. \A p \in Pid : /\ state'[p] = "ZOMBIE" <=> st[p] = "ZOMBIE"
                     /\ state'[p] = "UNUSED" <=> st[p] = "UNUSED"
                     /\ state'[p] = "WAITING" <=> st[p] = "WAITING"
                     /\ state'[p] \in Live <=> st[p] \in Live
  BY <1>2, <1>4
<1>9. CASE multitasking
  <2>1. /\ cpu_state' = Save(woken, saved, ctx)
        /\ current' = next
        /\ cpu' = cpu_state'[next]
    BY <1>9 DEF TimerHandler, next, woken, now
  <2>2. SavedOK(state', cpu_state')
    BY <1>2, <1>4, <1>6, <2>1 DEF SavedOK, Save
  <2>3. Fits(next, cpu_state'[next])
    BY <1>2, <1>7, <2>2 DEF SavedOK, Live
  <2>4. woken[next] \in {"RUNNING", "SLEEPING"}
    BY <1>7
  <2>5. cpu_state'[Shell].pc = IF current = Shell THEN ctx.pc ELSE saved[Shell].pc
    BY <1>4, <1>6, <2>1 DEF SavedOK, Save
  <2>6. state'[Shell] = "WAITING" => cpu_state'[Shell].pc = "sh_ran"
    BY <1>8, <2>5
  <2>7. PointOf(Shell)' = cpu_state'[Shell].pc
    BY <2>1 DEF PointOf
  <2> QED
    BY <1>1, <1>2, <1>5, <1>7, <1>8, <1>9, <2>1, <2>2, <2>3, <2>4, <2>5, <2>6, <2>7
       DEF OnCpuIsAlive
<1>10. CASE ~multitasking
  <2>1. cpu' = ctx /\ cpu_state' = saved /\ current' = current /\ current = Idle
    BY <1>10 DEF TimerHandler
  <2>2. SavedOK(state', cpu_state')
    BY <1>2, <1>4, <2>1 DEF SavedOK
  <2>3. state'[current'] = "RUNNING" /\ Fits(current', cpu')
    BY <1>2, <1>5, <2>1 DEF TableOK
  <2>4. state'[Shell] = "WAITING" => cpu_state'[Shell].pc = "sh_ran"
    BY <1>8, <2>1
  <2>5. PointOf(Shell)' = saved[Shell].pc
    BY <2>1 DEF PointOf
  <2> QED
    BY <1>1, <1>2, <1>5, <1>6, <1>8, <1>10, <2>1, <2>2, <2>3, <2>4, <2>5
       DEF OnCpuIsAlive
<1> QED
  BY <1>9, <1>10
-------------------------------------------------------------------------------
(* The inductive invariant *)

\* The boot state: kmain runs in slot 0 and the gate is closed.
LEMMA InitIInv == Init => IInv
<1> SUFFICES ASSUME Init PROVE IInv
  OBVIOUS
<1> USE SlotRanges
<1>0. \A point \in Points, flag \in BOOLEAN : Ctx(point, flag) \in Contexts
  BY DEF Ctx, Contexts
<1>1. TypeOK
  <2>1. /\ state \in [Pid -> States]
        /\ wakeup_time \in [Pid -> Tick]
        /\ tick \in Tick /\ sleep_end \in Tick
        /\ kbd \in 0 .. KbdMax
        /\ current \in Pid /\ victim \in Pid
    BY ProcAssumption, TickAssumption, KbdAssumption, SMTT(30)
       DEF Init, States, Tick, Pid
  <2>2. /\ Ctx("kmain", TRUE) \in Contexts
        /\ Ctx("idle_hlt", TRUE) \in Contexts
        /\ Ctx("sh_prompt", TRUE) \in Contexts
        /\ NoCtx \in Contexts
    BY <1>0 DEF Points, IdlePoints, ShellPoints, NoCtx
  <2>3. cpu \in Contexts /\ cpu_state \in [Pid -> Contexts]
    BY <2>2 DEF Init
  <2> QED
    BY <2>1, <2>3 DEF Init, TypeOK
<1>2. TableOK(state)
  BY DEF Init, TableOK, States, Live
<1>3. SavedOK(state, cpu_state)
  BY <1>1 DEF TypeOK, Init, SavedOK, Live, Fits, Contexts, Points, IdlePoints,
              ShellPoints, HaltPoints, Ctx, NoCtx
<1>4. Fits(current, cpu) /\ OnCpuIsAlive
  BY <1>1 DEF TypeOK, Init, OnCpuIsAlive, Fits, IdlePoints, HaltPoints, Ctx
<1>5. ReapsAZombie
  BY DEF Init, ReapsAZombie, PointOf, Ctx
<1> QED
  BY <1>1, <1>2, <1>3, <1>4, <1>5 DEF Init, IInv

\* A step that only moves the current task to another of its points.
LEMMA MoveKeepsIInv ==
  ASSUME IInv, NEW point, NEW flag, Goto(point, flag),
         Fits(current, Ctx(point, flag)),
         UNCHANGED <<state, cpu_state, current, multitasking>>,
         TypeOK', current = Shell \/ victim' = victim,
         current = Shell /\ point = "sh_reap" =>
            victim' \in UserSlots /\ state[victim'] = "ZOMBIE"
  PROVE  IInv'
<1>1. TableOK(state)' /\ SavedOK(state, cpu_state)'
  BY DEF IInv, TableOK, SavedOK
<1>2. OnCpuIsAlive' /\ Fits(current, cpu)'
  BY DEF IInv, OnCpuIsAlive, Goto
<1>3. ReapsAZombie'
  BY SlotRanges DEF IInv, ReapsAZombie, PointOf, Goto, Ctx
<1> QED
  BY <1>1, <1>2, <1>3 DEF IInv

\* The same for the steps that leave all other variables alone.
LEMMA StepToKeepsIInv ==
  ASSUME IInv, NEW point, NEW flag, StepTo(point, flag), point # "sh_reap",
         Fits(current, Ctx(point, flag))
  PROVE  IInv'
<1>1. TypeOK'
  BY DEF IInv, TypeOK, StepTo, Goto, NoSwitch, shellVars, Fits
<1> QED
  BY <1>1, MoveKeepsIInv DEF StepTo, NoSwitch, shellVars

\* A timer interrupt keeps the invariant.
LEMMA TimerIRQKeepsIInv == ASSUME IInv, TimerIRQ PROVE IInv'
<1> USE SlotRanges
<1> DEFINE ctx == Ctx(Resume(cpu.pc), TRUE)
<1>1. Fits(current, ctx) /\ (Resume(cpu.pc) = "sh_reap" <=> cpu.pc = "sh_reap")
  BY ResumeFits DEF IInv, TypeOK, TimerIRQ
<1>2. ctx \in Contexts /\ ctx.pc = Resume(cpu.pc)
  BY <1>1 DEF Fits, Ctx
<1>3. state[current] \in Live /\ (current = Shell => state[Shell] # "WAITING")
  BY DEF IInv, OnCpuIsAlive, Live
<1>4. TypeOK /\ TableOK(state) /\ SavedOK(state, cpu_state)
  BY DEF IInv
<1>5. state[Shell] # "ZOMBIE"
  BY <1>4 DEF TableOK, Live
<1>6. state[Shell] = "WAITING" =>
        (IF current = Shell THEN ctx.pc ELSE cpu_state[Shell].pc) = "sh_ran"
  BY <1>3 DEF IInv
<1>7. TimerHandler(state, cpu_state, ctx) /\ (~multitasking => current = Idle)
  BY DEF TimerIRQ, IInv
<1> HIDE DEF ctx
<1>8. /\ tick' \in Tick
      /\ current' \in Pid
      /\ TableOK(state)'
      /\ SavedOK(state, cpu_state)'
      /\ OnCpuIsAlive'
      /\ Fits(current, cpu)'
      /\ (state[Shell] = "WAITING" => cpu_state[Shell].pc = "sh_ran")'
      /\ ~multitasking => current' = Idle
      /\ \A p \in Pid : state'[p] = "ZOMBIE" <=> state[p] = "ZOMBIE"
      /\ PointOf(Shell)' = IF current = Shell THEN ctx.pc ELSE cpu_state[Shell].pc
  BY <1>1, <1>2, <1>3, <1>4, <1>5, <1>6, <1>7, TimerHandlerSafe, SMTT(30)
<1>9. UNCHANGED <<wakeup_time, multitasking, kbd, sleep_end, victim>>
  BY DEF TimerIRQ, shellVars
<1>10. TypeOK'
  BY <1>4, <1>8, <1>9 DEF TypeOK, TableOK, SavedOK, Fits
<1>11. ReapsAZombie'
  BY <1>1, <1>2, <1>8, <1>9 DEF IInv, ReapsAZombie, PointOf
<1> QED
  BY <1>8, <1>9, <1>10, <1>11 DEF IInv

\* A keyboard interrupt keeps the invariant: it touches no task.
LEMMA KeyboardIRQKeepsIInv == ASSUME IInv, KeyboardIRQ PROVE IInv'
<1>1. /\ Fits(current, Ctx(Resume(cpu.pc), TRUE))
      /\ Resume(cpu.pc) = "sh_reap" <=> cpu.pc = "sh_reap"
  BY ResumeFits DEF IInv, TypeOK, KeyboardIRQ
<1>2. kbd' \in 0 .. KbdMax
  BY KbdAssumption, SMTT(30) DEF IInv, TypeOK, KeyboardIRQ
<1>3. TypeOK'
  BY <1>1, <1>2 DEF IInv, TypeOK, KeyboardIRQ, procVars, shellVars, Fits
<1>4. current = Shell /\ Resume(cpu.pc) = "sh_reap" =>
        victim' \in UserSlots /\ state[victim'] = "ZOMBIE"
  BY <1>1 DEF IInv, ReapsAZombie, PointOf, KeyboardIRQ, shellVars
<1> QED
  BY <1>1, <1>3, <1>4, MoveKeepsIInv DEF KeyboardIRQ, Goto, procVars, shellVars

\* The last two steps of kmain keep the invariant.
LEMMA BootKeepsIInv == ASSUME IInv, BootStep PROVE IInv'
<1> USE SlotRanges
<1>1. CASE OpenGate
  <2>1. Fits(Idle, Ctx("kmain_gate", cpu.intr)) /\ current = Idle /\ cpu.intr \in BOOLEAN
    BY <1>1 DEF OpenGate, At, IInv, TypeOK, Fits, Ctx, Contexts, Points, IdlePoints,
                HaltPoints
  <2>2. TypeOK'
    BY <1>1, <2>1 DEF OpenGate, IInv, TypeOK, procVars, shellVars, Goto, Fits
  <2>3. TableOK(state)' /\ SavedOK(state, cpu_state)' /\ OnCpuIsAlive' /\ ReapsAZombie'
    BY <1>1, <2>1 DEF OpenGate, IInv, procVars, shellVars, TableOK, SavedOK,
                      OnCpuIsAlive, ReapsAZombie, PointOf
  <2>4. Fits(current, cpu)'
    BY <1>1, <2>1 DEF OpenGate, Goto, procVars
  <2> QED
    BY <1>1, <2>1, <2>2, <2>3, <2>4 DEF IInv, OpenGate, procVars
<1>2. CASE StartMultitasking
  <2>1. Fits(Idle, cpu_state[Idle]) /\ current = Idle
    BY <1>2 DEF StartMultitasking, At, IInv, SavedOK, TableOK, Live
  <2>2. TypeOK'
    BY <1>2, <2>1 DEF StartMultitasking, IInv, TypeOK, procVars, shellVars, Fits
  <2>3. TableOK(state)' /\ SavedOK(state, cpu_state)' /\ OnCpuIsAlive' /\ ReapsAZombie'
    BY <1>2, <2>1 DEF StartMultitasking, IInv, procVars, shellVars, TableOK, SavedOK,
                      OnCpuIsAlive, ReapsAZombie, PointOf
  <2>4. Fits(current, cpu)'
    BY <1>2, <2>1 DEF StartMultitasking, procVars
  <2> QED
    BY <1>2, <2>1, <2>2, <2>3, <2>4 DEF IInv, StartMultitasking, procVars
<1> QED
  BY <1>1, <1>2 DEF BootStep

\* The shell's own points fit the shell; a `hlt` is entered after `sti`.
LEMMA ShellFits ==
  ASSUME NEW point \in ShellPoints, NEW flag \in BOOLEAN,
         point \in HaltPoints => flag
  PROVE  Fits(Shell, Ctx(point, flag))
BY SlotRanges DEF Fits, Ctx, Contexts, Points

\* The same for a program and the kernel code that serves it.
LEMMA UserFits ==
  ASSUME NEW p \in UserSlots, NEW point \in UserPoints, NEW flag \in BOOLEAN,
         point \in HaltPoints => flag
  PROVE  Fits(p, Ctx(point, flag))
BY SlotRanges DEF Fits, Ctx, Contexts, Points

\* Shell steps that only move the program point.
LEMMA ShellMoveKeepsIInv ==
  ASSUME IInv, current = Shell,
         NEW point \in ShellPoints \ {"sh_reap"}, NEW flag \in BOOLEAN,
         point \in HaltPoints => flag,
         StepTo(point, flag)
  PROVE  IInv'
BY ShellFits, StepToKeepsIInv

\* Program steps that only move the program point.
LEMMA UserMoveKeepsIInv ==
  ASSUME IInv, current \in UserSlots,
         NEW point \in UserPoints, NEW flag \in BOOLEAN,
         point \in HaltPoints => flag,
         StepTo(point, flag)
  PROVE  IInv'
<1>1. point # "sh_reap"
  BY DEF UserPoints
<1> QED
  BY <1>1, UserFits, StepToKeepsIInv

\* The current task changes its own entry from one runnable or sleeping state
\* to another: the mark of sleep().
LEMMA SleepKeepsIInv ==
  ASSUME IInv, NEW point, NEW flag, Goto(point, flag), point # "sh_reap",
         Fits(current, Ctx(point, flag)), current # Idle,
         state' = [state EXCEPT ![current] = "SLEEPING"],
         UNCHANGED <<cpu_state, current, multitasking, victim>>,
         TypeOK'
  PROVE  IInv'
<1> USE SlotRanges
<1>1. current \in Pid /\ state[current] \in {"RUNNING", "SLEEPING"}
  BY DEF IInv, TypeOK, OnCpuIsAlive
<1>2. TableOK(state)'
  BY <1>1, SMTT(30) DEF IInv, TableOK, Live, States
<1>3. SavedOK(state, cpu_state)'
  BY <1>1 DEF IInv, SavedOK, TypeOK, Live
<1>4. OnCpuIsAlive' /\ Fits(current, cpu)'
  BY <1>1 DEF IInv, TypeOK, OnCpuIsAlive, Goto
<1>5. (state[Shell] = "WAITING" => cpu_state[Shell].pc = "sh_ran")'
  BY <1>1 DEF IInv, TypeOK
<1>6. ReapsAZombie'
  BY <1>1 DEF IInv, TypeOK, ReapsAZombie, PointOf, Goto, Ctx
<1> QED
  BY <1>2, <1>3, <1>4, <1>5, <1>6 DEF IInv

\* `kill` clears the slot of a zombie.
LEMMA ReapKeepsIInv == ASSUME IInv, ShellReap PROVE IInv'
<1> USE SlotRanges
<1>1. current = Shell /\ victim \in UserSlots /\ state[victim] = "ZOMBIE"
  BY DEF IInv, ShellReap, At, ReapsAZombie, PointOf
<1>2. Fits(Shell, Ctx("sh_prompt", TRUE))
  BY ShellFits DEF ShellPoints
<1>3. NoCtx \in Contexts /\ 0 \in Tick /\ 0 \in Pid
  BY TickAssumption, ProcAssumption, SMTT(30)
     DEF NoCtx, Ctx, Contexts, Points, Tick, Pid
<1>4. TypeOK'
  BY <1>1, <1>2, <1>3 DEF IInv, TypeOK, ShellReap, Goto, NoSwitch, States, Fits
<1>5. TableOK(state)'
  BY <1>1, SMTT(30) DEF IInv, TableOK, ShellReap, States, Live
<1>6. SavedOK(state, cpu_state)'
  BY <1>1, <1>4 DEF IInv, SavedOK, TypeOK, ShellReap, Live
<1>7. /\ OnCpuIsAlive' /\ Fits(current, cpu)'
      /\ state'[Shell] = state[Shell] /\ cpu_state'[Shell] = cpu_state[Shell]
  BY <1>1, <1>2 DEF IInv, TypeOK, ShellReap, OnCpuIsAlive, NoSwitch, Goto
<1>8. ReapsAZombie'
  BY <1>1 DEF ReapsAZombie, PointOf, ShellReap, NoSwitch, Goto, Ctx
<1> QED
  BY <1>4, <1>5, <1>6, <1>7, <1>8 DEF IInv, ShellReap, NoSwitch

\* `run` fills a free slot, waits and yields.
LEMMA ExecDoneKeepsIInv ==
  ASSUME IInv, NEW p \in Pid, ExecDone(p) PROVE IInv'
<1> USE SlotRanges
<1> DEFINE st == [state EXCEPT ![p] = "RUNNING", ![Shell] = "WAITING"]
           saved == [cpu_state EXCEPT ![p] = Ctx("user", TRUE)]
           ctx == Ctx("sh_ran", FALSE)
<1>1. current = Shell /\ state[p] = "UNUSED"
  BY DEF ExecDone, At, NewTask, FreeSlots
<1>2. p \in UserSlots
  BY <1>1 DEF IInv, TableOK, Live
<1>3. state[Shell] \in {"RUNNING", "SLEEPING"}
  BY <1>1 DEF IInv, OnCpuIsAlive
<1>4. TypeOK /\ (~multitasking => current = Idle)
  BY DEF IInv
<1>5. TableOK(st)
  BY <1>2, <1>3, SMTT(30) DEF IInv, TableOK, Live, States
<1>6. Fits(p, Ctx("user", TRUE)) /\ Fits(Shell, ctx)
  BY <1>2, UserFits, ShellFits DEF UserPoints, ShellPoints, HaltPoints
<1>7. SavedOK(st, saved)
  BY <1>1, <1>2, <1>3, <1>6 DEF IInv, TypeOK, SavedOK, Live, Fits
<1>8. /\ ctx \in Contexts /\ ctx.pc = "sh_ran"
      /\ st[current] = "WAITING"
  BY <1>1, <1>2, <1>6 DEF Fits, Ctx, IInv, TypeOK
<1>9. TimerHandler(st, saved, ctx)
  BY DEF ExecDone, EntryContext
<1> HIDE DEF st, saved, ctx
<1>10. /\ tick' \in Tick
       /\ current' \in Pid
       /\ TableOK(state)'
       /\ SavedOK(state, cpu_state)'
       /\ OnCpuIsAlive'
       /\ Fits(current, cpu)'
       /\ (state[Shell] = "WAITING" => cpu_state[Shell].pc = "sh_ran")'
       /\ ~multitasking => current' = Idle
       /\ PointOf(Shell)' = "sh_ran"
  BY <1>1, <1>4, <1>5, <1>6, <1>7, <1>8, <1>9, TimerHandlerSafe, SMTT(30) DEF Live
<1>11. UNCHANGED <<wakeup_time, multitasking, kbd, sleep_end, victim>>
  BY DEF ExecDone, shellVars
<1>12. TypeOK'
  BY <1>4, <1>10, <1>11 DEF TypeOK, TableOK, SavedOK, Fits
<1>13. ReapsAZombie'
  BY <1>10 DEF ReapsAZombie
<1> QED
  BY <1>10, <1>11, <1>12, <1>13 DEF IInv

\* sys_exit() wakes the shell, leaves a zombie and yields.
LEMMA SysExitKeepsIInv == ASSUME IInv, SysExit PROVE IInv'
<1> USE SlotRanges
<1> DEFINE st == [WakeShell(state) EXCEPT ![current] = "ZOMBIE"]
           ctx == Ctx("fault", FALSE)
<1>1. current \in UserSlots /\ state[current] \in {"RUNNING", "SLEEPING"}
  BY DEF SysExit, InUser, IInv, OnCpuIsAlive
<1>2. state[Shell] = "WAITING" /\ state \in [Pid -> States]
  BY <1>1 DEF IInv, TableOK, Live
<1>3. st = [state EXCEPT ![Shell] = "RUNNING", ![current] = "ZOMBIE"]
  BY <1>2 DEF WakeShell
<1>4. TypeOK /\ (~multitasking => current = Idle)
  BY DEF IInv
<1>5. TableOK(st)
  <2>1. TableOK(state)
    BY DEF IInv
  <2>2. /\ st \in [Pid -> States] /\ st[Shell] = "RUNNING" /\ st[current] = "ZOMBIE"
        /\ \A p \in Pid : p # Shell /\ p # current => st[p] = state[p]
    BY <1>1, <1>2, <1>3 DEF States
  <2> HIDE DEF st
  <2>3. st[Idle] = "RUNNING" /\ st[Shell] \in Live
    BY <2>1, <2>2, <1>1 DEF TableOK, Live
  <2>4. \A p \in UserSlots : st[p] # "WAITING" /\ st[p] \notin Live
    BY <2>1, <2>2, <1>1 DEF TableOK, Live
  <2> QED
    BY <2>2, <2>3, <2>4 DEF TableOK
<1>6. SavedOK(st, cpu_state)
  BY <1>1, <1>2, <1>3 DEF IInv, SavedOK, Live
<1>7. ctx \in Contexts /\ st[current] = "ZOMBIE" /\ st[Shell] = "RUNNING"
  BY <1>1, <1>2, <1>3 DEF Ctx, Contexts, Points, UserPoints
<1>8. TimerHandler(st, cpu_state, ctx)
  BY DEF SysExit
<1> HIDE DEF st, ctx
<1>9. /\ tick' \in Tick
      /\ current' \in Pid
      /\ TableOK(state)'
      /\ SavedOK(state, cpu_state)'
      /\ OnCpuIsAlive'
      /\ Fits(current, cpu)'
      /\ (state[Shell] = "WAITING" => cpu_state[Shell].pc = "sh_ran")'
      /\ ~multitasking => current' = Idle
      /\ PointOf(Shell)' = cpu_state[Shell].pc
  BY <1>1, <1>4, <1>5, <1>6, <1>7, <1>8, TimerHandlerSafe, SMTT(30)
<1>10. UNCHANGED <<wakeup_time, multitasking, kbd, sleep_end, victim>>
  BY DEF SysExit, shellVars
<1>11. TypeOK'
  BY <1>4, <1>9, <1>10 DEF TypeOK, TableOK, SavedOK, Fits
<1>12. ReapsAZombie'
  BY <1>2, <1>9 DEF ReapsAZombie, IInv
<1> QED
  BY <1>9, <1>10, <1>11, <1>12 DEF IInv

\* Every step of the shell.
LEMMA ShellKeepsIInv == ASSUME IInv, ShellStep PROVE IInv'
<1> USE SlotRanges
<1>0. cpu.intr \in BOOLEAN
  BY DEF IInv, TypeOK, Contexts
<1>1. CASE ShellPrompt
  BY <1>1, ShellMoveKeepsIInv DEF ShellPrompt, At, ShellPoints
<1>2. CASE ShellFindsEmpty
  BY <1>0, <1>2, ShellMoveKeepsIInv DEF ShellFindsEmpty, At, ShellPoints, HaltPoints
<1>3. CASE ShellHalts
  BY <1>3, ShellMoveKeepsIInv DEF ShellHalts, At, ShellPoints
<1>4. CASE ShellRead
  <2>1. current = Shell /\ kbd' \in 0 .. KbdMax
    BY <1>4, KbdAssumption, SMTT(30) DEF ShellRead, At, IInv, TypeOK
  <2>2. PICK point \in {"sh_cmd", "sh_edit"}, flag \in BOOLEAN : Goto(point, flag)
    BY <1>0, <1>4 DEF ShellRead
  <2>3. Fits(Shell, Ctx(point, flag))
    BY ShellFits DEF ShellPoints, HaltPoints
  <2>4. TypeOK'
    BY <1>4, <2>1, <2>2, <2>3 DEF ShellRead, IInv, TypeOK, Goto, NoSwitch, shellVars, Fits
  <2> QED
    BY <1>4, <2>1, <2>2, <2>3, <2>4, MoveKeepsIInv DEF ShellRead, NoSwitch, shellVars
<1>5. CASE ShellEdit
  BY <1>0, <1>5, ShellMoveKeepsIInv DEF ShellEdit, At, ShellPoints, HaltPoints
<1>6. CASE ShellOther
  BY <1>6, ShellMoveKeepsIInv DEF ShellOther, At, ShellPoints
<1>7. CASE ShellCat
  BY <1>7, ShellMoveKeepsIInv DEF ShellCat, At, ShellPoints, HaltPoints
<1>8. CASE ShellCatPrint
  BY <1>8, ShellMoveKeepsIInv DEF ShellCatPrint, At, ShellPoints
<1>9. CASE ShellCatDone
  BY <1>9, ShellMoveKeepsIInv DEF ShellCatDone, At, ShellPoints
<1>10. CASE ShellRun
  <2>1. current = Shell /\ kbd' \in 0 .. KbdMax
    BY <1>10, KbdAssumption, SMTT(30) DEF ShellRun, At
  <2>2. Fits(Shell, Ctx("sh_exec", cpu.intr))
    BY <1>0, ShellFits DEF ShellPoints, HaltPoints
  <2>3. TypeOK'
    BY <1>10, <2>1, <2>2 DEF ShellRun, IInv, TypeOK, Goto, NoSwitch, shellVars, Fits
  <2> QED
    BY <1>10, <2>1, <2>2, <2>3, MoveKeepsIInv DEF ShellRun, NoSwitch, shellVars
<1>11. CASE ExecFail
  BY <1>11, ShellMoveKeepsIInv DEF ExecFail, At, ShellPoints
<1>12. CASE ExecFailPrint
  BY <1>12, ShellMoveKeepsIInv DEF ExecFailPrint, At, ShellPoints
<1>13. CASE ExecUndo
  BY <1>13, ShellMoveKeepsIInv DEF ExecUndo, At, ShellPoints
<1>14. ASSUME NEW p \in Pid, ExecDone(p) PROVE IInv'
  BY <1>14, ExecDoneKeepsIInv
<1>15. ASSUME NEW p \in Pid, ShellKill(p) PROVE IInv'
  <2>1. current = Shell /\ victim' = p /\ state[p] = "ZOMBIE"
    BY <1>15 DEF ShellKill, At
  <2>2. p \in UserSlots
    BY <2>1 DEF IInv, TableOK, Live
  <2>3. Fits(Shell, Ctx("sh_reap", cpu.intr))
    BY <1>0, ShellFits DEF ShellPoints, HaltPoints
  <2>4. TypeOK'
    BY <1>15, <2>3 DEF ShellKill, IInv, TypeOK, Goto, NoSwitch, Fits
  <2> QED
    BY <1>15, <2>1, <2>2, <2>3, <2>4, MoveKeepsIInv DEF ShellKill, NoSwitch
<1>16. ASSUME NEW n \in SleepTicks, ShellSleep(n) PROVE IInv'
  <2>1. current = Shell /\ sleep_end' \in Tick
    BY <1>16, SleepAssumption, TickRange DEF ShellSleep, At, IInv, TypeOK
  <2>2. Fits(Shell, Ctx("sl_mark", cpu.intr))
    BY <1>0, ShellFits DEF ShellPoints, HaltPoints
  <2>3. TypeOK'
    BY <1>16, <2>1, <2>2 DEF ShellSleep, IInv, TypeOK, Goto, NoSwitch, Fits
  <2> QED
    BY <1>16, <2>1, <2>2, <2>3, MoveKeepsIInv DEF ShellSleep, NoSwitch
<1>17. CASE SleepMark
  <2>1. current = Shell
    BY <1>17 DEF SleepMark, At
  <2>2. Fits(Shell, Ctx("sl_wake", cpu.intr))
    BY <1>0, ShellFits DEF ShellPoints, HaltPoints
  <2>3. TypeOK'
    BY <1>17, <2>1, <2>2 DEF SleepMark, IInv, TypeOK, Goto, NoSwitch, shellVars, Fits,
                             States
  <2> QED
    BY <1>17, <2>1, <2>2, <2>3, SleepKeepsIInv DEF SleepMark, NoSwitch, shellVars
<1>18. CASE SleepSetWakeup
  <2>1. current = Shell
    BY <1>18 DEF SleepSetWakeup, At
  <2>2. Fits(Shell, Ctx("sl_halt", cpu.intr))
    BY <1>0, ShellFits DEF ShellPoints, HaltPoints
  <2>3. TypeOK'
    BY <1>18, <2>1, <2>2 DEF SleepSetWakeup, IInv, TypeOK, Goto, NoSwitch, shellVars, Fits
  <2> QED
    BY <1>18, <2>1, <2>2, <2>3, MoveKeepsIInv DEF SleepSetWakeup, NoSwitch, shellVars
<1>19. CASE SleepHalt
  BY <1>19, ShellMoveKeepsIInv DEF SleepHalt, At, ShellPoints
<1>20. CASE SleepReturn
  <2>1. current = Shell /\ sleep_end' \in Tick
    BY <1>20, TickAssumption, SMTT(30) DEF SleepReturn, At, Tick
  <2>2. Fits(Shell, Ctx("sh_prompt", cpu.intr))
    BY <1>0, ShellFits DEF ShellPoints, HaltPoints
  <2>3. TypeOK'
    BY <1>20, <2>1, <2>2 DEF SleepReturn, IInv, TypeOK, Goto, NoSwitch, Fits
  <2> QED
    BY <1>20, <2>1, <2>2, <2>3, MoveKeepsIInv DEF SleepReturn, NoSwitch
<1>21. CASE ShellReap
  BY <1>21, ReapKeepsIInv
<1>22. CASE ShellRan
  BY <1>22, ShellMoveKeepsIInv DEF ShellRan, At, ShellPoints
<1> QED
  BY <1>1, <1>2, <1>3, <1>4, <1>5, <1>6, <1>7, <1>8, <1>9, <1>10, <1>11, <1>12, <1>13,
     <1>14, <1>15, <1>16, <1>17, <1>18, <1>19, <1>20, <1>21, <1>22
  DEF ShellStep

\* Every step of a program, its system calls included.
LEMMA UserKeepsIInv == ASSUME IInv, UserStep \/ SyscallStep PROVE IInv'
<1> USE SlotRanges
<1>0. cpu.intr \in BOOLEAN
  BY DEF IInv, TypeOK, Contexts
<1>1. CASE SysGetchar
  BY <1>1, UserMoveKeepsIInv DEF SysGetchar, InUser, UserPoints, HaltPoints
<1>2. CASE SysPrint
  BY <1>2, UserMoveKeepsIInv DEF SysPrint, InUser, UserPoints
<1>3. CASE SysPlaySound
  BY <1>3, UserMoveKeepsIInv DEF SysPlaySound, InUser, UserPoints, HaltPoints
<1>4. CASE SysExit
  BY <1>4, SysExitKeepsIInv
<1>5. CASE UserFault
  BY <1>5, UserMoveKeepsIInv DEF UserFault, InUser, UserPoints, HaltPoints
<1>6. ASSUME NEW n \in SleepTicks, SysSleep(n) PROVE IInv'
  <2>1. current \in UserSlots /\ (tick + n) % TickMod \in Tick
    BY <1>6, SleepAssumption, TickRange DEF SysSleep, InUser, IInv, TypeOK
  <2>2. Fits(current, Ctx("k_sleep_hlt", TRUE))
    BY <2>1, UserFits DEF UserPoints
  <2>3. TypeOK'
    BY <1>6, <2>1, <2>2 DEF SysSleep, IInv, TypeOK, Goto, NoSwitch, shellVars, Fits,
                            States
  <2> QED
    BY <1>6, <2>1, <2>2, <2>3, SleepKeepsIInv DEF SysSleep, NoSwitch, shellVars
<1>7. CASE GetcharFindsEmpty
  BY <1>0, <1>7, UserMoveKeepsIInv DEF GetcharFindsEmpty, InKernel, UserPoints, HaltPoints
<1>8. CASE GetcharHalts
  BY <1>8, UserMoveKeepsIInv DEF GetcharHalts, InKernel, UserPoints
<1>9. CASE GetcharTake
  <2>1. current \in UserSlots /\ kbd' \in 0 .. KbdMax
    BY <1>9, KbdAssumption, SMTT(30) DEF GetcharTake, InKernel, IInv, TypeOK
  <2>2. Fits(current, Ctx("user", TRUE))
    BY <2>1, UserFits DEF UserPoints
  <2>3. TypeOK'
    BY <1>9, <2>1, <2>2 DEF GetcharTake, IInv, TypeOK, Goto, NoSwitch, shellVars, Fits
  <2> QED
    BY <1>9, <2>1, <2>2, <2>3, MoveKeepsIInv DEF GetcharTake, NoSwitch, shellVars
<1>10. CASE SysReturn
  BY <1>10, UserMoveKeepsIInv DEF SysReturn, InKernel, UserPoints
<1> QED
  BY <1>1, <1>2, <1>3, <1>4, <1>5, <1>6, <1>7, <1>8, <1>9, <1>10
     DEF UserStep, SyscallStep

\* Every step of the system keeps the inductive invariant.
LEMMA NextIInv == IInv /\ [Next]_vars => IInv'
<1> SUFFICES ASSUME IInv, [Next]_vars PROVE IInv'
  OBVIOUS
<1>1. CASE TimerIRQ
  BY <1>1, TimerIRQKeepsIInv
<1>2. CASE KeyboardIRQ
  BY <1>2, KeyboardIRQKeepsIInv
<1>3. CASE BootStep
  BY <1>3, BootKeepsIInv
<1>4. CASE ShellStep
  BY <1>4, ShellKeepsIInv
<1>5. CASE UserStep \/ SyscallStep
  BY <1>5, UserKeepsIInv
<1>6. CASE UNCHANGED vars
  BY <1>6 DEF vars, IInv, TypeOK, TableOK, SavedOK, OnCpuIsAlive, ReapsAZombie, PointOf
<1> QED
  BY <1>1, <1>2, <1>3, <1>4, <1>5, <1>6 DEF Next

\* The invariant holds in every reachable state.
THEOREM Invariance == Spec => []IInv
BY InitIInv, NextIInv, PTL DEF Spec

\* The invariant implies what the model checker's runs check.
LEMMA IInvImplies ==
  IInv => TypeOK /\ OneForeground /\ OnCpuIsAlive /\ HaltIsInterruptible
          /\ ReapsAZombie /\ OneKeyboardReader
<1> SUFFICES ASSUME IInv
             PROVE  TypeOK /\ OneForeground /\ OnCpuIsAlive /\ HaltIsInterruptible
                    /\ ReapsAZombie /\ OneKeyboardReader
  OBVIOUS
<1> USE SlotRanges
<1>1. OneForeground
  BY DEF IInv, OneForeground, TableOK, Alive, Live
<1>2. HaltIsInterruptible
  BY DEF IInv, HaltIsInterruptible, Fits
<1>3. OneKeyboardReader
  <2> SUFFICES ASSUME NEW p \in Pid, NEW q \in Pid, p # q,
                      state[p] \in {"RUNNING", "SLEEPING"}, PointOf(p) \in ReaderPoints,
                      state[q] \in {"RUNNING", "SLEEPING"}, PointOf(q) \in ReaderPoints
               PROVE  FALSE
    BY DEF OneKeyboardReader
  <2>1. Fits(p, IF p = current THEN cpu ELSE cpu_state[p])
    BY DEF IInv, SavedOK, Live
  <2>2. Fits(q, IF q = current THEN cpu ELSE cpu_state[q])
    BY DEF IInv, SavedOK, Live
  <2>3. p # Idle /\ q # Idle
    BY <2>1, <2>2 DEF PointOf, Fits, ReaderPoints, IdlePoints
  <2>4. p \notin UserSlots \/ q \notin UserSlots
    BY DEF IInv, TableOK, Live
  <2>5. state[Shell] = "WAITING"
    BY <2>3, <2>4 DEF IInv, TableOK, Live
  <2> QED
    BY <2>3, <2>4, <2>5
<1> QED
  BY <1>1, <1>2, <1>3 DEF IInv

\* Type correctness of the process table, the CPU and the shell's locals.
THEOREM TypeCorrect == Spec => []TypeOK
BY Invariance, IInvImplies, PTL

\* The shell waits exactly while the one program it started is alive.
THEOREM ForegroundIsUnique == Spec => []OneForeground
BY Invariance, IInvImplies, PTL

\* schedule() never puts or leaves an exited, waiting or absent task on the CPU.
THEOREM SchedulesAlive == Spec => []OnCpuIsAlive
BY Invariance, IInvImplies, PTL

\* No task halts the CPU with interrupts disabled.
THEOREM HaltsWithInterrupts == Spec => []HaltIsInterruptible
BY Invariance, IInvImplies, PTL

\* `kill` reaps the zombie it tested for, although an interrupt may come between.
THEOREM ReapIsSafe == Spec => []ReapsAZombie
BY Invariance, IInvImplies, PTL

\* The keyboard buffer has one reader at a time.
THEOREM KeyboardReaderIsUnique == Spec => []OneKeyboardReader
BY Invariance, IInvImplies, PTL
-------------------------------------------------------------------------------
(* What a step does to the process table *)

\* Slot q keeps its class: waiting, zombie, unused, or else runnable or asleep.
KeepsClass(q) ==
  \A s \in {"WAITING", "ZOMBIE", "UNUSED"} : state'[q] = s <=> state[q] = s

LaunchStep(p) ==
  /\ current = Shell /\ state[Shell] # "WAITING" /\ state[p] = "UNUSED"
  /\ state'[p] = "RUNNING" /\ state'[Shell] = "WAITING"
  /\ \A q \in Pid \ {p, Shell} : KeepsClass(q)

ExitStep(p) ==
  /\ state[p] \in {"RUNNING", "SLEEPING"} /\ state[Shell] = "WAITING"
  /\ state'[p] = "ZOMBIE" /\ state'[Shell] = "RUNNING"
  /\ \A q \in Pid \ {p, Shell} : KeepsClass(q)

ReapStep(p) ==
  /\ current = Shell /\ state[Shell] # "WAITING" /\ state[p] = "ZOMBIE"
  /\ state'[p] = "UNUSED"
  /\ \A q \in Pid \ {p} : KeepsClass(q)

\* timer_handler() changes the table it is given only by waking sleepers.
LEMMA TimerKeepsClass ==
  ASSUME NEW st \in [Pid -> States], NEW saved, NEW ctx, TimerHandler(st, saved, ctx)
  PROVE  \A p \in Pid :
           /\ \A s \in {"WAITING", "ZOMBIE", "UNUSED"} : state'[p] = s <=> st[p] = s
           /\ st[p] = "RUNNING" => state'[p] = "RUNNING"
<1>1. state' = Wake(st, (tick + 1) % TickMod)
  BY DEF TimerHandler
<1> QED
  BY <1>1, WakeKeeps

\* A step launches a program from the shell, ends one, reaps one for the shell,
\* or keeps the class of every slot.
LEMMA StepKinds ==
  ASSUME IInv, [Next]_vars
  PROVE  \/ \A q \in Pid : KeepsClass(q)
         \/ \E p \in UserSlots : LaunchStep(p) \/ ExitStep(p) \/ ReapStep(p)
<1> USE SlotRanges
<1>0. /\ state \in [Pid -> States] /\ current \in Pid
      /\ state[current] \in {"RUNNING", "SLEEPING"}
  BY DEF IInv, TypeOK, OnCpuIsAlive
<1>1. CASE UNCHANGED state
  BY <1>1 DEF KeepsClass
<1>2. CASE TimerIRQ
  BY <1>0, <1>2, TimerKeepsClass DEF TimerIRQ, KeepsClass
<1>3. ASSUME NEW p \in Pid, ExecDone(p) PROVE p \in UserSlots /\ LaunchStep(p)
  <2> DEFINE st == [state EXCEPT ![p] = "RUNNING", ![Shell] = "WAITING"]
  <2>1. current = Shell /\ state[p] = "UNUSED" /\ p \in UserSlots
    BY <1>3 DEF ExecDone, At, NewTask, FreeSlots, IInv, TableOK, Live
  <2>2. st \in [Pid -> States] /\ st[p] = "RUNNING" /\ st[Shell] = "WAITING"
    BY <1>0, <2>1 DEF States
  <2>3. \A q \in Pid \ {p, Shell} : st[q] = state[q]
    BY <1>0
  <2>4. TimerHandler(st, [cpu_state EXCEPT ![p] = Ctx("user", TRUE)], Ctx("sh_ran", FALSE))
    BY <1>3 DEF ExecDone, EntryContext
  <2> HIDE DEF st
  <2>5. \A q \in Pid :
          /\ \A s \in {"WAITING", "ZOMBIE", "UNUSED"} : state'[q] = s <=> st[q] = s
          /\ st[q] = "RUNNING" => state'[q] = "RUNNING"
    BY <2>2, <2>4, TimerKeepsClass
  <2>6. \A q \in Pid \ {p, Shell} : KeepsClass(q)
    BY <2>3, <2>5 DEF KeepsClass
  <2> QED
    BY <1>0, <2>1, <2>2, <2>5, <2>6 DEF LaunchStep
<1>4. ASSUME SysExit PROVE current \in UserSlots /\ ExitStep(current)
  <2> DEFINE st == [WakeShell(state) EXCEPT ![current] = "ZOMBIE"]
  <2>1. current \in UserSlots
    BY <1>4 DEF SysExit, InUser
  <2>2. state[Shell] = "WAITING"
    BY <1>0, <2>1 DEF IInv, TableOK, Live
  <2>3. /\ st \in [Pid -> States] /\ st[current] = "ZOMBIE" /\ st[Shell] = "RUNNING"
        /\ \A q \in Pid \ {current, Shell} : st[q] = state[q]
    BY <1>0, <2>1, <2>2 DEF WakeShell, States
  <2>4. TimerHandler(st, cpu_state, Ctx("fault", FALSE))
    BY <1>4 DEF SysExit
  <2> HIDE DEF st
  <2>5. \A q \in Pid :
          /\ \A s \in {"WAITING", "ZOMBIE", "UNUSED"} : state'[q] = s <=> st[q] = s
          /\ st[q] = "RUNNING" => state'[q] = "RUNNING"
    BY <2>3, <2>4, TimerKeepsClass
  <2>6. \A q \in Pid \ {current, Shell} : KeepsClass(q)
    BY <2>3, <2>5 DEF KeepsClass
  <2> QED
    BY <1>0, <2>1, <2>2, <2>3, <2>5, <2>6 DEF ExitStep
<1>5. ASSUME ShellReap PROVE victim \in UserSlots /\ ReapStep(victim)
  <2>1. current = Shell /\ victim \in UserSlots /\ state[victim] = "ZOMBIE"
    BY <1>5 DEF IInv, ShellReap, At, ReapsAZombie, PointOf
  <2>2. state' = [state EXCEPT ![victim] = "UNUSED"]
    BY <1>5 DEF ShellReap
  <2> QED
    BY <1>0, <2>1, <2>2 DEF ReapStep, KeepsClass
<1>6. ASSUME state' = [state EXCEPT ![current] = "SLEEPING"]
      PROVE  \A q \in Pid : KeepsClass(q)
  BY <1>0, <1>6 DEF KeepsClass
<1>7. CASE SleepMark
  BY <1>6, <1>7 DEF SleepMark, At
<1>8. ASSUME NEW n \in SleepTicks, SysSleep(n) PROVE \A q \in Pid : KeepsClass(q)
  BY <1>6, <1>8 DEF SysSleep
<1>9. CASE BootStep \/ KeyboardIRQ \/ SyscallStep
  BY <1>1, <1>9 DEF BootStep, OpenGate, StartMultitasking, KeyboardIRQ, procVars,
       SyscallStep, GetcharFindsEmpty, GetcharHalts, GetcharTake, SysReturn, StepTo
<1>10. CASE ShellStep
  BY <1>1, <1>3, <1>5, <1>7, <1>10
     DEF ShellStep, StepTo, ShellPrompt, ShellRan, ShellFindsEmpty, ShellHalts, ShellRead,
         ShellEdit, ShellOther, ShellCat, ShellCatPrint, ShellCatDone, ShellRun,
         ExecFail, ExecFailPrint, ExecUndo, ShellKill, ShellSleep, SleepSetWakeup,
         SleepHalt, SleepReturn
<1>11. CASE UserStep
  BY <1>1, <1>4, <1>8, <1>11
     DEF UserStep, StepTo, SysGetchar, SysPrint, SysPlaySound, UserFault
<1> QED
  BY <1>1, <1>2, <1>9, <1>10, <1>11 DEF Next, vars

\* Only the shell fills a free slot or frees a zombie's, and it never does so
\* while it waits for a program.
THEOREM SlotsChangeUnderShell == Spec => SlotChanges
<1> DEFINE Step == \A p \in Pid :
              /\ state[p] = "ZOMBIE" /\ state'[p] # "ZOMBIE"
                   => current = Shell /\ state'[p] = "UNUSED"
              /\ state[p] = "UNUSED" /\ state'[p] # "UNUSED"
                   => current = Shell /\ state[Shell] # "WAITING" /\ state'[p] = "RUNNING"
<1>1. IInv /\ [Next]_vars => Step
  <2> SUFFICES ASSUME IInv, [Next]_vars, NEW p \in Pid
               PROVE  /\ state[p] = "ZOMBIE" /\ state'[p] # "ZOMBIE"
                           => current = Shell /\ state'[p] = "UNUSED"
                      /\ state[p] = "UNUSED" /\ state'[p] # "UNUSED"
                           => /\ current = Shell /\ state[Shell] # "WAITING"
                              /\ state'[p] = "RUNNING"
    OBVIOUS
  <2>1. state[Shell] \in Live
    BY DEF IInv, TableOK
  <2> QED
    BY <2>1, StepKinds, SlotRanges DEF KeepsClass, LaunchStep, ExitStep, ReapStep, Live
<1>2. IInv /\ [Next]_vars => [Step]_vars
  BY <1>1
<1> QED
  BY <1>2, Invariance, PTL DEF Spec, SlotChanges
-------------------------------------------------------------------------------
(* The process table implements Foreground *)

OwnerIn(st) ==
  IF st[Shell] = "WAITING" THEN CHOOSE p \in UserSlots : st[p] \in Live ELSE Shell

\* The owner of the console is the one live program, or the shell.
LEMMA OwnerIs ==
  ASSUME NEW st, TableOK(st)
  PROVE  /\ st[Shell] # "WAITING" => OwnerIn(st) = Shell
         /\ \A p \in UserSlots : st[p] \in Live => OwnerIn(st) = p
         /\ st[Shell] = "WAITING" => OwnerIn(st) \in UserSlots /\ st[OwnerIn(st)] \in Live
BY DEF TableOK, OwnerIn

\* Every step is a step of Foreground or leaves its two variables alone.
LEMMA ForegroundStep ==
  ASSUME IInv, [Next]_vars
  PROVE  [Fg!Next]_(Fg!fgVars)
<1> USE SlotRanges
<1>1. TableOK(state) /\ TableOK(state') /\ state[current] \in {"RUNNING", "SLEEPING"}
  BY NextIInv DEF IInv, OnCpuIsAlive
<1>2. Owner = OwnerIn(state) /\ Owner' = OwnerIn(state')
  BY DEF Owner, OwnerIn, Alive, Live
<1>3. /\ \A q \in Pid : state[q] \in States /\ state'[q] \in States
      /\ Zombies = {p \in UserSlots : state[p] = "ZOMBIE"}
      /\ Zombies' = {p \in UserSlots : state'[p] = "ZOMBIE"}
  BY <1>1 DEF TableOK, Zombies
<1>4. CASE \A q \in Pid : KeepsClass(q)
  <2>1. Zombies' = Zombies
    BY <1>3, <1>4 DEF KeepsClass
  <2>2. \A q \in Pid : state'[q] \in Live <=> state[q] \in Live
    BY <1>3, <1>4 DEF KeepsClass, Live, States
  <2>3. OwnerIn(state') = OwnerIn(state)
    BY <1>1, <1>4, <2>2, OwnerIs DEF KeepsClass
  <2> QED
    BY <1>2, <2>1, <2>3 DEF Fg!fgVars
<1>5. ASSUME NEW p \in UserSlots, LaunchStep(p) PROVE Fg!Launch(p)
  <2>1. Owner = Shell /\ Owner' = p
    BY <1>1, <1>2, <1>5, OwnerIs DEF LaunchStep, Live
  <2>2. p \notin Zombies /\ Zombies' = Zombies
    BY <1>3, <1>5 DEF LaunchStep, KeepsClass
  <2> QED
    BY <2>1, <2>2 DEF Fg!Launch
<1>6. ASSUME NEW p \in UserSlots, ExitStep(p) PROVE Fg!Exit
  <2>1. Owner = p /\ Owner' = Shell
    BY <1>1, <1>2, <1>6, OwnerIs DEF ExitStep, Live
  <2>2. Zombies' = Zombies \cup {p}
    BY <1>3, <1>6 DEF ExitStep, KeepsClass
  <2> QED
    BY <2>1, <2>2 DEF Fg!Exit
<1>7. ASSUME NEW p \in UserSlots, ReapStep(p) PROVE Fg!Reap(p)
  <2>1. state'[Shell] # "WAITING"
    BY <1>7 DEF ReapStep, KeepsClass
  <2>2. Owner = Shell /\ Owner' = Shell
    BY <1>1, <1>2, <1>7, <2>1, OwnerIs DEF ReapStep
  <2>3. p \in Zombies /\ Zombies' = Zombies \ {p}
    BY <1>3, <1>7 DEF ReapStep, KeepsClass
  <2> QED
    BY <2>2, <2>3 DEF Fg!Reap
<1> QED
  BY <1>4, <1>5, <1>6, <1>7, StepKinds DEF Fg!Next

\* `run`, sys_exit and `kill` are the launch, exit and reap of Foreground, and
\* nothing else moves the console.
THEOREM RefinesForeground == Spec => ImplementsForeground
<1>1. Init => Fg!Init
  BY SlotRanges DEF Init, Fg!Init, Owner, Zombies
<1>2. IInv /\ [Next]_vars => [Fg!Next]_(Fg!fgVars)
  BY ForegroundStep
<1> QED
  BY <1>1, <1>2, Invariance, PTL DEF Spec, ImplementsForeground, Fg!Spec
-------------------------------------------------------------------------------
(* Stacks, rings and data segments *)

Tasks == Pid \ {Idle}
Runs(p) == state[p] \in {"RUNNING", "SLEEPING"}
KmainPoints == {"kmain", "kmain_gate"}

\* Before the shell's first step there is no program, and ESP is on a boot stack.
ShellIsNew ==
  /\ PointOf(Shell) = "sh_prompt"
  /\ \A p \in UserSlots : state[p] = "UNUSED"
  /\ esp.stack \in {Idle, Boot}

\* In kmain nothing has been switched.
BootIsFirst ==
  /\ cpu.pc = "kmain" => ~multitasking
  /\ cpu.pc \in KmainPoints => saved_esp[Idle] = Pos(Idle, 0) /\ base = NullPage
  /\ cpu_state[Idle].pc = "idle_hlt"

\* The idle task may hold the segments of a program only if the task it gives the
\* CPU back to is that program, in ring 3.
IdleSegments ==
  current = Idle /\ ds # "kernel"
    => \A p \in Tasks : Runs(p) => cpu_state[p].pc = "user"

\* The idle task leaves ESP where the task it gives the CPU back to had it.
IdleHoldsEsp ==
  current = Idle =>
    \A p \in Tasks : Runs(p) /\ Ring(cpu_state[p].pc) = 0 =>
      \/ esp = saved_esp[p]
      \/ p = Shell /\ (base = NullPage \/ cpu_state[p].pc = "sh_ran")

\* The inductive invariant, on top of the scheduler's.
StackInv ==
  /\ StacksOK
  /\ esp0 = KernelStack(current)
  /\ KernelSegments
  /\ StackIsAllocated
  /\ base = NullPage => ShellIsNew
  /\ BootIsFirst
  /\ IdleSegments
  /\ IdleHoldsEsp
-------------------------------------------------------------------------------
(* Facts about single steps *)

\* Every step of this specification is a step of the scheduler.
LEMMA Projects == [StackNext]_allVars => [Next]_vars
BY
   DEF StackNext, allVars, SwitchOnTimer, SwitchOnExit, SwitchOnRun, StartFirstTask,
       ShellMoves, ShellRanMoves, SyscallEnters, SyscallMoves, StacksStay, Next,
       BootStep, ShellStep, UserStep

\* The stacks that are not a slot's are different from all that are.
LEMMA StackNames ==
  /\ Boot \notin Pid /\ NullPage \notin Pid /\ User \notin Pid
  /\ Boot # NullPage /\ Boot # User /\ NullPage # User
  /\ UserSlots \subseteq Pid /\ Idle \in Pid
  /\ Idle \in Stacks /\ Boot \in Stacks /\ NullPage \in Stacks /\ User \in Stacks
  /\ Pid \subseteq Stacks
BY ProcAssumption, SMTT(30) DEF Boot, NullPage, User, Pid, UserSlots, Idle, Stacks

\* At most one task besides the idle one can use the CPU.
LEMMA Alone ==
  ASSUME NEW st, TableOK(st), NEW p \in Tasks, NEW q \in Tasks,
         st[p] \in {"RUNNING", "SLEEPING"}, st[q] \in {"RUNNING", "SLEEPING"}
  PROVE  p = q
BY SlotRanges DEF TableOK, Tasks, Live

\* An interrupt returns to the ring it came from, and no resumed point is kmain's.
LEMMA ResumeRing ==
  ASSUME NEW point \in Points
  PROVE  /\ Ring(Resume(point)) = Ring(point)
         /\ point \in IdlePoints \/ point = "sh_prompt" => Resume(point) = point
         /\ Resume(point) \in KmainPoints => point \in KmainPoints
         /\ Resume(point) = "user" <=> point = "user"
BY DEF Ring, Resume, Points, IdlePoints, ShellPoints, UserPoints, KmainPoints

\* Depths are small.
LEMMA DepthRange == \A point : Depth(point) \in 0 .. 3
BY SMTT(30) DEF Depth

\* Ring 3 is a program's.
LEMMA RingThree ==
  ASSUME NEW p \in Pid, NEW ctx, Fits(p, ctx), Ring(ctx.pc) = 3
  PROVE  p \in UserSlots
BY SlotRanges, SMTT(30) DEF Fits, Ring, IdlePoints, ShellPoints

\* What the timer interrupt does once multitasking is on.
LEMMA TimerFacts ==
  ASSUME IInv, TimerIRQ, multitasking
  PROVE  /\ IInv'
         /\ \A p \in Pid : KeepsClass(p) /\ (Runs(p)' <=> Runs(p))
         /\ cpu_state' = [cpu_state EXCEPT ![current] = Ctx(Resume(cpu.pc), TRUE)]
         /\ current' \in Pid /\ Runs(current)' /\ Runs(current)
         /\ cpu' = cpu_state'[current']
         /\ multitasking'
<1>1. IInv'
  BY NextIInv DEF Next
<1>2. state \in [Pid -> States] /\ state' \in [Pid -> States]
  BY <1>1 DEF IInv, TypeOK
<1>3. \A p \in Pid : KeepsClass(p)
  BY <1>2, TimerKeepsClass DEF TimerIRQ, KeepsClass
<1>4. \A p \in Pid : Runs(p)' <=> Runs(p)
  BY <1>2, <1>3 DEF KeepsClass, Runs, States
<1>5. current \in Pid /\ Runs(current) /\ current' \in Pid /\ Runs(current)'
  BY <1>1 DEF IInv, TypeOK, OnCpuIsAlive, Runs
<1>6. state'[current] # "ZOMBIE"
  BY <1>4, <1>5 DEF Runs
<1>7. cpu_state' = Save(state', cpu_state, Ctx(Resume(cpu.pc), TRUE))
      /\ cpu' = cpu_state'[current']
  BY DEF TimerIRQ, TimerHandler
<1> QED
  BY <1>1, <1>3, <1>4, <1>5, <1>6, <1>7 DEF Save, TimerIRQ
-------------------------------------------------------------------------------
(* The inductive invariant *)

\* At boot ESP is on kmain's stack and the segments are the kernel's.
LEMMA InitStackInv == StackInit => StackInv
<1> SUFFICES ASSUME StackInit PROVE StackInv
  OBVIOUS
<1> USE SlotRanges, StackNames
<1>1. StacksOK
  BY SMTT(30) DEF StackInit, StacksOK, Pos, UserPos
<1>2. esp0 = KernelStack(current)
  BY DEF StackInit, Init, KernelStack
<1>3. KernelSegments /\ IdleSegments /\ StackIsAllocated
  BY DEF StackInit, KernelSegments, IdleSegments, StackIsAllocated, Pos
<1>4. ShellIsNew
  BY DEF StackInit, Init, ShellIsNew, PointOf, Ctx, Pos
<1>5. BootIsFirst
  BY DEF StackInit, Init, BootIsFirst, Ctx
<1>6. IdleHoldsEsp
  BY DEF StackInit, Init, IdleHoldsEsp, Tasks, Runs
<1> QED
  BY <1>1, <1>2, <1>3, <1>4, <1>5, <1>6 DEF StackInv

\* A timer interrupt: the handler switches, or comes back before the gate is open.
LEMMA TimerKeeps ==
  ASSUME BootTick = FALSE, IInv, StackInv, SwitchOnTimer PROVE StackInv'
<1> USE SlotRanges, StackNames
<1>0. TimerIRQ /\ cpu.pc # "kmain_gate" /\ cpu.pc \in Points /\ Fits(current, cpu)
  BY DEF SwitchOnTimer, IInv, TypeOK, Contexts
<1>1. CASE ~multitasking
  <2>1. current = Idle /\ cpu.pc \in IdlePoints
    BY <1>0, <1>1 DEF IInv, Fits
  <2>2. /\ current' = Idle /\ cpu'.pc = cpu.pc /\ cpu_state' = cpu_state
        /\ multitasking' = multitasking /\ UNCHANGED stackVars
    BY <1>0, <1>1, <2>1, ResumeRing, SMTT(30) DEF SwitchOnTimer, TimerIRQ, TimerHandler, Ctx
  <2>3. \A p \in Pid : KeepsClass(p) /\ (Runs(p)' <=> Runs(p))
    <3>1. state \in [Pid -> States] /\ state' \in [Pid -> States]
      BY <1>0, NextIInv DEF IInv, TypeOK, Next
    <3>2. \A p \in Pid : KeepsClass(p)
      BY <1>0, <3>1, TimerKeepsClass DEF TimerIRQ, KeepsClass
    <3> QED
      BY <3>1, <3>2 DEF KeepsClass, Runs, States
  <2> QED
    BY <2>1, <2>2, <2>3, SMTT(30)
       DEF StackInv, stackVars, StacksOK, KernelSegments, StackIsAllocated, ShellIsNew,
           BootIsFirst, IdleSegments, IdleHoldsEsp, Tasks, PointOf, KeepsClass, KernelStack
<1>2. CASE multitasking
  <2> DEFINE frame == FramePos
  <2>0. /\ saved_esp' = SaveEsp(saved_esp, frame)
        /\ esp0' = KernelStack(current')
        /\ esp' = IF Ring(cpu'.pc) = 3 THEN UserPos ELSE frame
        /\ ds' = AfterIret(cpu'.pc, ds)
        /\ UNCHANGED <<pushed_ds, base>>
    BY <1>2 DEF SwitchOnTimer, SwitchThrough
  <2>1. /\ IInv'
        /\ \A p \in Pid : KeepsClass(p) /\ (Runs(p)' <=> Runs(p))
        /\ cpu_state' = [cpu_state EXCEPT ![current] = Ctx(Resume(cpu.pc), TRUE)]
        /\ current' \in Pid /\ Runs(current)' /\ Runs(current)
        /\ cpu' = cpu_state'[current']
        /\ multitasking'
    BY <1>0, <1>2, TimerFacts
  <2>2. current \in Pid /\ cpu_state \in [Pid -> Contexts] /\ Fits(current', cpu')
    BY <2>1 DEF IInv, TypeOK
  <2>3. /\ Ring(cpu.pc) = 3 => frame = Pos(current, 0) /\ current \in UserSlots
        /\ Ring(cpu.pc) # 3 => frame = esp
    BY <1>0, <2>2, RingThree DEF FramePos, StackInv, KernelStack
  <2>4. frame \in [stack : Stacks, depth : 0 .. 3]
    BY <2>2, <2>3, SMTT(30) DEF Pos, StackInv, StacksOK
  <2>5. saved_esp' = [saved_esp EXCEPT ![current] = IF Ring(cpu.pc) = 3 THEN UserPos
                                                    ELSE frame]
    BY <2>0, <2>1, <2>2 DEF SaveEsp, Runs, KeepsClass
  <2> HIDE DEF frame
  <2>6. /\ cpu_state'[current].pc = Resume(cpu.pc)
        /\ \A p \in Pid : p # current => cpu_state'[p] = cpu_state[p]
    BY <2>1, <2>2 DEF Ctx
  <2>7. /\ Ring(Resume(cpu.pc)) = Ring(cpu.pc)
        /\ cpu.pc \in IdlePoints \/ cpu.pc = "sh_prompt" => Resume(cpu.pc) = cpu.pc
        /\ Resume(cpu.pc) = "user" <=> cpu.pc = "user"
    BY <1>0, ResumeRing
  <2>8. \A p \in Tasks : Runs(p) => p = current \/ current = Idle
    BY <2>1, <2>2, Alone DEF IInv, Tasks, Runs
  <2>9. current' \in Tasks => current' = current \/ current = Idle
    BY <2>1, <2>8 DEF Tasks
  <2>10. StacksOK'
    <3>1. UserPos \in [stack : Stacks, depth : 0 .. 3]
      BY SMTT(30) DEF UserPos, Pos
    <3>2. esp' \in [stack : Stacks, depth : 0 .. 3]
      BY <2>0, <2>4, <3>1
    <3>3. saved_esp' \in [Pid -> [stack : Stacks, depth : 0 .. 3]]
      BY <2>4, <2>5, <3>1 DEF StackInv, StacksOK
    <3>4. /\ ds' \in {"kernel", "null"} /\ pushed_ds' \in {"kernel", "null"}
          /\ esp0' \in UserSlots \cup {NullPage} /\ base' \in {Idle, Boot, NullPage}
      BY <2>0 DEF StackInv, StacksOK, AfterIret, KernelStack
    <3> QED
      BY <3>2, <3>3, <3>4 DEF StacksOK
  <2>11. KernelSegments'
    <3> SUFFICES ASSUME current' # Idle, Ring(cpu'.pc) = 0 PROVE ds' = "kernel"
      BY DEF KernelSegments
    <3>1. ds' = ds
      BY <2>0, SMTT(30) DEF AfterIret
    <3>2. CASE current' = current
      BY <2>1, <2>6, <2>7, <3>1, <3>2 DEF StackInv, KernelSegments
    <3>3. CASE current = Idle
      BY <2>1, <2>6, <3>1, <3>3, SMTT(30) DEF StackInv, IdleSegments, Ring, Tasks
    <3> QED
      BY <2>1, <2>9, <3>2, <3>3 DEF Tasks
  <2>12. IdleSegments'
    <3> SUFFICES ASSUME current' = Idle, ds' # "kernel", NEW p \in Tasks, Runs(p)'
                 PROVE  cpu_state'[p].pc = "user"
      BY DEF IdleSegments
    <3>1. ds' = ds /\ Runs(p) /\ p \in Pid /\ p # Idle
      BY <2>0, <2>1, <2>2, RingThree DEF AfterIret, Tasks
    <3>2. CASE current = Idle
      BY <2>6, <3>1, <3>2 DEF StackInv, IdleSegments
    <3>3. CASE current # Idle
      BY <2>6, <2>7, <2>8, <3>1, <3>3 DEF StackInv, KernelSegments, Ring
    <3> QED
      BY <3>2, <3>3
  <2>13. StackIsAllocated'
    <3>1. /\ esp.stack \in UserSlots => state[esp.stack] # "UNUSED"
          /\ base \notin UserSlots
      BY DEF StackInv, StackIsAllocated
    <3>2. frame.stack \in UserSlots => state[frame.stack] # "UNUSED"
      BY <2>1, <2>3, <3>1, SMTT(30) DEF Pos, Runs
    <3>3. frame.stack \in UserSlots => state'[frame.stack] # "UNUSED"
      BY <2>1, <3>2 DEF KeepsClass
    <3>4. esp'.stack \in UserSlots => esp' = frame
      BY <2>0 DEF Pos, UserPos
    <3> QED
      BY <2>0, <3>1, <3>3, <3>4 DEF StackIsAllocated
  <2>14. IdleHoldsEsp'
    <3> SUFFICES ASSUME current' = Idle, NEW p \in Tasks, Runs(p)',
                        Ring(cpu_state'[p].pc) = 0
                 PROVE  \/ esp' = saved_esp'[p]
                        \/ p = Shell /\ (base' = NullPage \/ cpu_state'[p].pc = "sh_ran")
      BY DEF IdleHoldsEsp
    <3>1. Runs(p) /\ p \in Pid /\ p # Idle /\ esp' = frame
      BY <2>0, <2>1, <2>2, RingThree DEF Tasks
    <3>2. CASE current = Idle
      <4>1. esp' = esp /\ saved_esp'[p] = saved_esp[p] /\ cpu_state'[p] = cpu_state[p]
        BY <2>2, <2>3, <2>5, <2>6, <3>1, <3>2 DEF StackInv, StacksOK
      <4> QED
        BY <2>0, <3>1, <3>2, <4>1 DEF StackInv, IdleHoldsEsp
    <3>3. CASE current # Idle
      <4>1. p = current
        BY <2>8, <3>1, <3>3
      <4>2. Ring(cpu.pc) = 0
        BY <2>6, <2>7, <4>1
      <4> QED
        BY <2>2, <2>5, <3>1, <4>1, <4>2, SMTT(30) DEF StackInv, StacksOK
    <3> QED
      BY <3>2, <3>3
  <2>15. BootIsFirst'
    <3>1. cpu_state'[Idle].pc = "idle_hlt"
      BY <1>0, <1>2, <2>6, <2>7 DEF StackInv, BootIsFirst, Fits, IdlePoints
    <3>2. cpu'.pc \notin KmainPoints
      BY <2>1, <2>2, <3>1 DEF Fits, KmainPoints, ShellPoints, UserPoints
    <3> QED
      BY <3>1, <3>2 DEF BootIsFirst, KmainPoints
  <2>16. base' = NullPage => ShellIsNew'
    <3> SUFFICES ASSUME base = NullPage PROVE ShellIsNew'
      BY <2>0
    <3>1. ShellIsNew
      BY DEF StackInv
    <3>2. current \notin UserSlots /\ \A p \in UserSlots : state'[p] = "UNUSED"
      BY <2>1, <3>1 DEF ShellIsNew, Runs, KeepsClass
    <3>3. PointOf(Shell)' = "sh_prompt"
      BY <2>1, <2>6, <2>7, <3>1 DEF ShellIsNew, PointOf
    <3>4. current' \notin UserSlots
      BY <2>1, <3>2 DEF Runs
    <3>5. esp' = frame /\ frame = esp
      BY <2>0, <2>1, <2>2, <2>3, <3>2, <3>4, RingThree
    <3> QED
      BY <3>1, <3>2, <3>3, <3>5 DEF ShellIsNew
  <2> QED
    BY <2>0, <2>10, <2>11, <2>12, <2>13, <2>14, <2>15, <2>16 DEF StackInv
<1> QED
  BY <1>1, <1>2 DEF IInv, TypeOK

\* What `run` does to the process table and the contexts.
LEMMA RunFacts ==
  ASSUME IInv, NEW p \in Pid, ExecDone(p)
  PROVE  /\ IInv' /\ p \in UserSlots /\ current = Shell /\ cpu.pc = "sh_exec"
         /\ \A q \in Pid : state[q] # "UNUSED" => state'[q] # "UNUSED"
         /\ state'[Shell] = "WAITING" /\ Runs(p)'
         /\ current' \in Pid /\ Runs(current)'
         /\ cpu' = cpu_state'[current']
         /\ cpu_state'[p].pc = "user" /\ cpu_state'[Idle] = cpu_state[Idle]
<1> USE SlotRanges
<1>1. IInv'
  BY NextIInv DEF Next, ShellStep
<1>2. current = Shell /\ cpu.pc = "sh_exec" /\ state[p] = "UNUSED"
  BY DEF ExecDone, At, NewTask, FreeSlots
<1>3. p \in UserSlots /\ state \in [Pid -> States] /\ cpu_state \in [Pid -> Contexts]
  BY <1>2 DEF IInv, TypeOK, TableOK, Live
<1> DEFINE st == [state EXCEPT ![p] = "RUNNING", ![Shell] = "WAITING"]
           saved == [cpu_state EXCEPT ![p] = EntryContext]
           ctx == Ctx("sh_ran", FALSE)
<1>4. /\ st \in [Pid -> States] /\ st[p] = "RUNNING" /\ st[Shell] = "WAITING"
      /\ \A q \in Pid : state[q] # "UNUSED" => st[q] # "UNUSED"
  BY <1>2, <1>3 DEF States
<1>5. TimerHandler(st, saved, ctx)
  BY DEF ExecDone
<1>6. multitasking
  BY <1>2 DEF IInv
<1> HIDE DEF st
<1>7. \A q \in Pid :
        /\ \A s \in {"WAITING", "ZOMBIE", "UNUSED"} : state'[q] = s <=> st[q] = s
        /\ st[q] = "RUNNING" => state'[q] = "RUNNING"
  BY <1>4, <1>5, TimerKeepsClass
<1>8. cpu_state' = Save(state', saved, ctx) /\ cpu' = cpu_state'[current']
  BY <1>5, <1>6 DEF TimerHandler
<1>9. cpu_state' = [saved EXCEPT ![Shell] = ctx]
  BY <1>2, <1>4, <1>7, <1>8 DEF Save
<1>10. cpu_state'[p].pc = "user" /\ cpu_state'[Idle] = cpu_state[Idle]
  BY <1>3, <1>9 DEF EntryContext, Ctx
<1> QED
  BY <1>1, <1>2, <1>3, <1>4, <1>7, <1>8, <1>10
     DEF Runs, IInv, TypeOK, OnCpuIsAlive

\* `run` goes on with the new program or the idle task, never with another one.
LEMMA RunKeeps ==
  ASSUME IInv, StackInv, NEW p \in Pid, SwitchOnRun(p) PROVE StackInv'
<1> USE SlotRanges, StackNames
<1>0. /\ saved_esp' = SaveEsp([saved_esp EXCEPT ![p] = UserPos], esp)
      /\ esp0' = KernelStack(current')
      /\ esp' = IF Ring(cpu'.pc) = 3 THEN UserPos ELSE esp
      /\ ds' = AfterIret(cpu'.pc, ds)
      /\ UNCHANGED <<pushed_ds, base>>
  BY DEF SwitchOnRun, SwitchThrough
<1>1. /\ IInv' /\ p \in UserSlots /\ current = Shell /\ cpu.pc = "sh_exec"
      /\ \A q \in Pid : state[q] # "UNUSED" => state'[q] # "UNUSED"
      /\ state'[Shell] = "WAITING" /\ Runs(p)'
      /\ current' \in Pid /\ Runs(current)'
      /\ cpu' = cpu_state'[current']
      /\ cpu_state'[p].pc = "user" /\ cpu_state'[Idle] = cpu_state[Idle]
  BY RunFacts DEF SwitchOnRun
<1>2. base # NullPage /\ ds = "kernel"
  BY <1>1 DEF StackInv, ShellIsNew, PointOf, KernelSegments, Ring
<1>3. \A q \in Tasks : Runs(q)' => q = p
  BY <1>1, Alone DEF IInv, Tasks, Runs
<1>4. UserPos \in [stack : Stacks, depth : 0 .. 3] /\ UserPos.stack \notin UserSlots
  BY SMTT(30) DEF UserPos, Pos
<1>5. StacksOK'
  <2>1. esp' \in [stack : Stacks, depth : 0 .. 3]
    BY <1>0, <1>4 DEF StackInv, StacksOK
  <2>2. saved_esp' \in [Pid -> [stack : Stacks, depth : 0 .. 3]]
    BY <1>0, <1>1, <1>4 DEF StackInv, StacksOK, SaveEsp
  <2>3. /\ ds' \in {"kernel", "null"} /\ pushed_ds' \in {"kernel", "null"}
        /\ esp0' \in UserSlots \cup {NullPage} /\ base' \in {Idle, Boot, NullPage}
    BY <1>0 DEF StackInv, StacksOK, AfterIret, KernelStack
  <2> QED
    BY <2>1, <2>2, <2>3 DEF StacksOK
<1>6. KernelSegments'
  BY <1>0, <1>2, SMTT(30) DEF KernelSegments, AfterIret
<1>7. IdleSegments' /\ IdleHoldsEsp'
  BY <1>1, <1>3, SMTT(30) DEF IdleSegments, IdleHoldsEsp, Ring
<1>8. StackIsAllocated'
  BY <1>0, <1>1, <1>4 DEF StackInv, StackIsAllocated
<1>9. BootIsFirst'
  <2>1. cpu_state'[Idle].pc = "idle_hlt" /\ Fits(current', cpu')
    BY <1>1 DEF StackInv, BootIsFirst, IInv
  <2>2. cpu'.pc \notin KmainPoints
    BY <1>1, <2>1 DEF Fits, KmainPoints, ShellPoints, UserPoints
  <2> QED
    BY <2>1, <2>2 DEF BootIsFirst, KmainPoints
<1> QED
  BY <1>0, <1>2, <1>5, <1>6, <1>7, <1>8, <1>9 DEF StackInv

\* What sys_exit() does to the process table and the contexts.
LEMMA ExitFacts ==
  ASSUME IInv, SysExit
  PROVE  /\ IInv' /\ current \in UserSlots /\ Runs(current)
         /\ \A q \in Pid : state[q] # "UNUSED" => state'[q] # "UNUSED"
         /\ Runs(Shell)' /\ state'[current] = "ZOMBIE"
         /\ current' \in Pid /\ Runs(current)'
         /\ cpu' = cpu_state'[current'] /\ cpu_state' = cpu_state
         /\ cpu_state[Shell].pc = "sh_ran"
<1> USE SlotRanges
<1>1. IInv'
  BY NextIInv DEF Next, UserStep
<1>2. /\ current \in UserSlots /\ Runs(current)
      /\ state \in [Pid -> States] /\ cpu_state \in [Pid -> Contexts]
  BY DEF SysExit, InUser, IInv, TypeOK, OnCpuIsAlive, Runs
<1>3. state[Shell] = "WAITING" /\ cpu_state[Shell].pc = "sh_ran"
  BY <1>2 DEF IInv, TableOK, Live, Runs
<1> DEFINE st == [WakeShell(state) EXCEPT ![current] = "ZOMBIE"]
           ctx == Ctx("fault", FALSE)
<1>4. /\ st \in [Pid -> States] /\ st[current] = "ZOMBIE" /\ st[Shell] = "RUNNING"
      /\ \A q \in Pid : state[q] # "UNUSED" => st[q] # "UNUSED"
  BY <1>2, <1>3 DEF WakeShell, States
<1>5. TimerHandler(st, cpu_state, ctx)
  BY DEF SysExit
<1>6. multitasking
  BY <1>2 DEF IInv
<1> HIDE DEF st
<1>7. \A q \in Pid :
        /\ \A s \in {"WAITING", "ZOMBIE", "UNUSED"} : state'[q] = s <=> st[q] = s
        /\ st[q] = "RUNNING" => state'[q] = "RUNNING"
  BY <1>4, <1>5, TimerKeepsClass
<1>8. cpu_state' = Save(state', cpu_state, ctx) /\ cpu' = cpu_state'[current']
  BY <1>5, <1>6 DEF TimerHandler
<1>9. cpu_state' = cpu_state
  BY <1>2, <1>4, <1>7, <1>8 DEF Save
<1> QED
  BY <1>1, <1>2, <1>3, <1>4, <1>7, <1>8, <1>9
     DEF Runs, IInv, TypeOK, OnCpuIsAlive

\* sys_exit() goes on with the shell, on the stack of the zombie, or with the idle
\* task.
LEMMA ExitKeeps == ASSUME IInv, StackInv, SwitchOnExit PROVE StackInv'
<1> USE SlotRanges, StackNames
<1>0. /\ saved_esp' = SaveEsp(saved_esp, Pos(esp0, 2))
      /\ esp0' = KernelStack(current')
      /\ esp' = IF Ring(cpu'.pc) = 3 THEN UserPos ELSE Pos(esp0, 2)
      /\ ds' = AfterIret(cpu'.pc, "kernel")
      /\ UNCHANGED <<pushed_ds, base>>
  BY DEF SwitchOnExit, SwitchThrough, StubSegments
<1>1. /\ IInv' /\ current \in UserSlots /\ Runs(current)
      /\ \A q \in Pid : state[q] # "UNUSED" => state'[q] # "UNUSED"
      /\ Runs(Shell)' /\ state'[current] = "ZOMBIE"
      /\ current' \in Pid /\ Runs(current)'
      /\ cpu' = cpu_state'[current'] /\ cpu_state' = cpu_state
      /\ cpu_state[Shell].pc = "sh_ran"
  BY ExitFacts DEF SwitchOnExit
<1>2. base # NullPage /\ esp0 = current
  BY <1>1 DEF StackInv, ShellIsNew, Runs, KernelStack
<1>3. \A q \in Tasks : Runs(q)' => q = Shell
  BY <1>1, Alone DEF IInv, Tasks, Runs
<1>4. UserPos \in [stack : Stacks, depth : 0 .. 3] /\ UserPos.stack \notin UserSlots
  BY SMTT(30) DEF UserPos, Pos
<1>5. Pos(esp0, 2) \in [stack : Stacks, depth : 0 .. 3] /\ Pos(esp0, 2).stack = current
  BY <1>1, <1>2, SMTT(30) DEF Pos
<1>6. StacksOK'
  <2>1. esp' \in [stack : Stacks, depth : 0 .. 3]
    BY <1>0, <1>4, <1>5
  <2>2. saved_esp' = saved_esp
    BY <1>0, <1>1 DEF SaveEsp
  <2>3. /\ ds' \in {"kernel", "null"} /\ pushed_ds' \in {"kernel", "null"}
        /\ esp0' \in UserSlots \cup {NullPage} /\ base' \in {Idle, Boot, NullPage}
    BY <1>0 DEF StackInv, StacksOK, AfterIret, KernelStack
  <2> QED
    BY <2>1, <2>2, <2>3 DEF StackInv, StacksOK
<1>7. KernelSegments'
  BY <1>0, SMTT(30) DEF KernelSegments, AfterIret
<1>8. IdleHoldsEsp'
  BY <1>1, <1>3 DEF IdleHoldsEsp
<1>9. IdleSegments'
  <2>1. current' = Idle => Ring(cpu'.pc) # 3
    BY <1>1, RingThree DEF IInv
  <2> QED
    BY <1>0, <2>1 DEF IdleSegments, AfterIret
<1>10. StackIsAllocated'
  BY <1>0, <1>1, <1>4, <1>5 DEF StackInv, StackIsAllocated
<1>11. BootIsFirst'
  <2>1. cpu_state'[Idle].pc = "idle_hlt" /\ Fits(current', cpu')
    BY <1>1 DEF StackInv, BootIsFirst, IInv
  <2>2. cpu'.pc \notin KmainPoints
    BY <1>1, <2>1 DEF Fits, KmainPoints, ShellPoints, UserPoints
  <2> QED
    BY <2>1, <2>2 DEF BootIsFirst, KmainPoints
<1> QED
  BY <1>0, <1>2, <1>6, <1>7, <1>8, <1>9, <1>10, <1>11 DEF StackInv

\* start_multitasking() loads the idle task's first ESP.
LEMMA StartKeeps == ASSUME IInv, StackInv, StartFirstTask PROVE StackInv'
<1> USE SlotRanges, StackNames
<1>1. /\ current = Idle /\ current' = Idle /\ cpu.pc = "kmain_gate"
      /\ cpu' = cpu_state[Idle]
      /\ UNCHANGED <<state, cpu_state, multitasking, saved_esp, ds, pushed_ds, base>>
      /\ esp' = saved_esp[Idle] /\ esp0' = KernelStack(Idle)
  BY DEF StartFirstTask, StartMultitasking, At, procVars
<1>2. saved_esp[Idle] = Pos(Idle, 0) /\ base = NullPage /\ cpu'.pc = "idle_hlt" /\ ShellIsNew
  BY <1>1 DEF StackInv, BootIsFirst, KmainPoints
<1>3. StacksOK' /\ esp0' = KernelStack(current')
  BY <1>1 DEF StackInv, StacksOK, KernelStack
<1>4. KernelSegments' /\ IdleSegments'
  BY <1>1 DEF StackInv, KernelSegments, IdleSegments, Runs
<1>5. StackIsAllocated' /\ ShellIsNew'
  BY <1>1, <1>2, SMTT(30) DEF StackInv, StackIsAllocated, ShellIsNew, PointOf, Pos
<1>6. BootIsFirst'
  BY <1>1, <1>2 DEF StackInv, BootIsFirst, KmainPoints
<1>7. IdleHoldsEsp'
  BY <1>1, <1>2 DEF IdleHoldsEsp, ShellIsNew, Tasks, Runs
<1> QED
  BY <1>3, <1>4, <1>5, <1>6, <1>7 DEF StackInv

\* Every step of the shell starts in the shell.  One that does not switch leaves the
\* idle task's context alone.
LEMMA ShellFacts ==
  ASSUME IInv, ShellStep, current' = Shell
  PROVE  IInv' /\ current = Shell /\ cpu_state'[Idle] = cpu_state[Idle]
<1> USE SlotRanges
<1>1. IInv'
  BY NextIInv DEF Next
<1>2. \A p \in Pid : ~ExecDone(p)
  <2> SUFFICES ASSUME NEW p \in Pid, ExecDone(p) PROVE FALSE
    OBVIOUS
  <2>1. state'[Shell] = "WAITING" /\ Runs(current)'
    BY RunFacts
  <2> QED
    BY <2>1 DEF Runs
<1>3. CASE ShellReap
  <2>1. current = Shell /\ victim \in UserSlots
    BY <1>3 DEF IInv, ShellReap, At, ReapsAZombie, PointOf
  <2> QED
    BY <1>1, <1>3, <2>1 DEF ShellReap, IInv, TypeOK
<1>4. CASE ~ShellReap
  BY <1>1, <1>2, <1>4
     DEF ShellStep, StepTo, At, ShellPrompt, ShellRan, ShellFindsEmpty, ShellHalts,
         ShellRead, ShellEdit, ShellOther, ShellCat, ShellCatPrint, ShellCatDone,
         ShellRun, ExecFail, ExecFailPrint, ExecUndo, ShellKill, ShellSleep, SleepMark,
         SleepSetWakeup, SleepHalt, SleepReturn
<1> QED
  BY <1>3, <1>4

\* A step of the shell leaves ESP in its own frames.
LEMMA ShellMovesKeep == ASSUME IInv, StackInv, ShellMoves PROVE StackInv'
<1> USE SlotRanges, StackNames
<1>1. /\ base' = IF base = NullPage THEN esp.stack ELSE base
      /\ esp' = Pos(base', Depth(cpu'.pc))
      /\ UNCHANGED <<saved_esp, esp0, ds, pushed_ds>>
  BY DEF ShellMoves
<1>2. IInv' /\ current = Shell /\ current' = Shell /\ cpu_state'[Idle] = cpu_state[Idle]
  BY ShellFacts DEF ShellMoves
<1>3. base' \in {Idle, Boot} /\ base' # NullPage /\ base' \notin UserSlots
  BY <1>1 DEF StackInv, StacksOK, ShellIsNew
<1>4. esp' \in [stack : Stacks, depth : 0 .. 3] /\ esp'.stack = base'
  BY <1>1, <1>3, DepthRange DEF Pos
<1>5. StacksOK'
  BY <1>1, <1>3, <1>4 DEF StackInv, StacksOK
<1>6. esp0' = KernelStack(current')
  BY <1>1, <1>2 DEF StackInv
<1>7. ds' = "kernel"
  <2>1. cpu.pc \in ShellPoints
    BY <1>2 DEF IInv, Fits
  <2> QED
    BY <1>1, <1>2, <2>1 DEF StackInv, KernelSegments, Ring, ShellPoints
<1>8. KernelSegments' /\ IdleSegments' /\ IdleHoldsEsp' /\ StackIsAllocated'
  BY <1>2, <1>3, <1>4, <1>7
     DEF KernelSegments, IdleSegments, IdleHoldsEsp, StackIsAllocated
<1>9. BootIsFirst'
  <2>1. cpu'.pc \in ShellPoints
    BY <1>2 DEF IInv, Fits
  <2> QED
    BY <1>2, <2>1 DEF StackInv, BootIsFirst, ShellPoints, KmainPoints
<1> QED
  BY <1>3, <1>5, <1>6, <1>8, <1>9 DEF StackInv

\* Back from `run` the shell stays on the stack it was resumed on.
LEMMA RanKeeps == ASSUME IInv, StackInv, ShellRanMoves PROVE StackInv'
<1> USE SlotRanges
<1>1. /\ current = Shell /\ current' = Shell /\ cpu.pc = "sh_ran" /\ cpu'.pc = "sh_prompt"
      /\ UNCHANGED <<state, cpu_state, multitasking, stackVars>>
  BY DEF ShellRanMoves, ShellRan, At, StepTo, Goto, Ctx, NoSwitch
<1>2. base # NullPage /\ ds = "kernel"
  BY <1>1 DEF StackInv, ShellIsNew, PointOf, KernelSegments, Ring
<1> QED
  BY <1>1, <1>2 DEF StackInv, stackVars, StacksOK, KernelSegments, StackIsAllocated,
       BootIsFirst, KmainPoints, IdleSegments, IdleHoldsEsp

\* What the steps of a program and of its system calls leave alone.
LEMMA UserFacts ==
  ASSUME IInv, UserStep \/ SyscallStep, current' = current
  PROVE  /\ IInv' /\ current \in UserSlots /\ cpu_state' = cpu_state
         /\ Runs(current) /\ Runs(current)'
         /\ SyscallStep => Ring(cpu.pc) = 0
<1>1. IInv'
  BY NextIInv DEF Next
<1>2. Runs(current) /\ Runs(current)'
  BY <1>1 DEF IInv, OnCpuIsAlive, Runs
<1>3. ~SysExit
  <2> SUFFICES ASSUME SysExit PROVE FALSE
    OBVIOUS
  <2>1. state'[current] = "ZOMBIE"
    BY ExitFacts
  <2> QED
    BY <1>2, <2>1 DEF Runs
<1> QED
  BY <1>1, <1>2, <1>3
     DEF UserStep, SyscallStep, StepTo, InUser, InKernel, Ring, SysGetchar, SysPrint,
         SysPlaySound, UserFault, SysSleep, GetcharFindsEmpty, GetcharHalts, GetcharTake,
         SysReturn

\* A step of a program's kernel side that stays on a stack of its own.
LEMMA UserSideKeeps ==
  ASSUME IInv, StackInv, IInv',
         current \in UserSlots, current' = current, cpu_state' = cpu_state,
         Runs(current), Runs(current)', UNCHANGED <<saved_esp, esp0, base>>,
         esp' \in [stack : Stacks, depth : 0 .. 3], esp'.stack \in {current, User},
         ds' \in {"kernel", "null"}, pushed_ds' \in {"kernel", "null"},
         Ring(cpu'.pc) = 0 => ds' = "kernel"
  PROVE  StackInv'
<1> USE SlotRanges, StackNames
<1>1. StacksOK' /\ esp0' = KernelStack(current')
  BY DEF StackInv, StacksOK
<1>2. KernelSegments' /\ IdleSegments' /\ IdleHoldsEsp'
  BY DEF KernelSegments, IdleSegments, IdleHoldsEsp
<1>3. StackIsAllocated'
  BY DEF StackInv, StackIsAllocated, Runs
<1>4. base # NullPage
  BY DEF StackInv, ShellIsNew, Runs
<1>5. BootIsFirst'
  <2>1. cpu'.pc \in UserPoints
    BY DEF IInv, Fits
  <2> QED
    BY <2>1 DEF StackInv, BootIsFirst, UserPoints, KmainPoints
<1> QED
  BY <1>1, <1>2, <1>3, <1>4, <1>5 DEF StackInv

\* A system call starts on the program's own kernel stack.
LEMMA EntersKeeps == ASSUME IInv, StackInv, SyscallEnters PROVE StackInv'
<1> USE SlotRanges, StackNames
<1>1. /\ IInv' /\ current \in UserSlots /\ current' = current /\ cpu_state' = cpu_state
      /\ Runs(current) /\ Runs(current)'
  BY UserFacts DEF SyscallEnters
<1>2. /\ esp' = Pos(current, Depth(cpu'.pc)) /\ ds' = "kernel" /\ pushed_ds' = ds
      /\ UNCHANGED <<saved_esp, esp0, base>>
  BY <1>1 DEF SyscallEnters, StubSegments, StackInv, KernelStack
<1>3. esp' \in [stack : Stacks, depth : 0 .. 3] /\ esp'.stack = current
  BY <1>1, <1>2, DepthRange DEF Pos
<1>4. pushed_ds' \in {"kernel", "null"}
  BY <1>2 DEF StackInv, StacksOK
<1> QED
  BY <1>1, <1>2, <1>3, <1>4, UserSideKeeps

\* A system call goes on there and returns to the user stack.
LEMMA SyscallKeeps == ASSUME IInv, StackInv, SyscallMoves PROVE StackInv'
<1> USE SlotRanges, StackNames
<1>0. current' = current
  BY
     DEF SyscallMoves, SyscallStep, StepTo, NoSwitch, GetcharFindsEmpty, GetcharHalts,
         GetcharTake, SysReturn
<1>1. /\ IInv' /\ current \in UserSlots /\ cpu_state' = cpu_state
      /\ Runs(current) /\ Runs(current)' /\ Ring(cpu.pc) = 0
  BY <1>0, UserFacts DEF SyscallMoves
<1>2. /\ esp' = IF Ring(cpu'.pc) = 3 THEN UserPos ELSE Pos(current, Depth(cpu'.pc))
      /\ ds' = IF Ring(cpu'.pc) = 3 THEN pushed_ds ELSE ds
      /\ UNCHANGED <<saved_esp, esp0, pushed_ds, base>>
  BY DEF SyscallMoves
<1>3. esp' \in [stack : Stacks, depth : 0 .. 3] /\ esp'.stack \in {current, User}
  BY <1>1, <1>2, DepthRange, SMTT(30) DEF Pos, UserPos
<1>4. /\ ds' \in {"kernel", "null"} /\ pushed_ds' \in {"kernel", "null"}
      /\ Ring(cpu'.pc) = 0 => ds' = "kernel"
  BY <1>1, <1>2, SMTT(30) DEF StackInv, StacksOK, KernelSegments
<1> QED
  BY <1>0, <1>1, <1>2, <1>3, <1>4, UserSideKeeps

\* The keyboard interrupt and kmain touch no stack.
LEMMA StayKeeps == ASSUME IInv, StackInv, StacksStay PROVE StackInv'
<1> USE SlotRanges
<1>1. UNCHANGED <<state, cpu_state, current, stackVars>>
  BY DEF StacksStay, KeyboardIRQ, OpenGate, procVars
<1>2. /\ Ring(cpu'.pc) = Ring(cpu.pc)
      /\ PointOf(Shell) = "sh_prompt" => PointOf(Shell)' = "sh_prompt"
      /\ cpu'.pc \in KmainPoints => cpu.pc \in KmainPoints
      /\ cpu'.pc = "kmain" => cpu.pc = "kmain" /\ multitasking' = multitasking
  <2>1. CASE KeyboardIRQ
    <3>1. cpu.pc \in Points /\ cpu'.pc = Resume(cpu.pc) /\ multitasking' = multitasking
      BY <2>1 DEF KeyboardIRQ, Ctx, IInv, TypeOK, Contexts
    <3>2. cpu'.pc \in KmainPoints => cpu'.pc = cpu.pc
      BY <3>1, ResumeRing DEF KmainPoints, IdlePoints
    <3> QED
      BY <1>1, <3>1, <3>2, ResumeRing DEF PointOf, KmainPoints
  <2>2. CASE OpenGate
    BY <1>1, <2>2 DEF OpenGate, At, Goto, Ctx, Ring, PointOf, KmainPoints
  <2> QED
    BY <2>1, <2>2 DEF StacksStay
<1>3. StacksOK' /\ esp0' = KernelStack(current')
  BY <1>1 DEF StackInv, stackVars, StacksOK
<1>4. KernelSegments' /\ StackIsAllocated'
  BY <1>1, <1>2 DEF StackInv, stackVars, KernelSegments, StackIsAllocated
<1>5. base' = NullPage => ShellIsNew'
  BY <1>1, <1>2 DEF StackInv, stackVars, ShellIsNew
<1>6. BootIsFirst'
  BY <1>1, <1>2, SMTT(30) DEF StackInv, stackVars, BootIsFirst
<1>7. IdleSegments' /\ IdleHoldsEsp'
  BY <1>1 DEF StackInv, stackVars, IdleSegments, IdleHoldsEsp, Runs
<1> QED
  BY <1>3, <1>4, <1>5, <1>6, <1>7 DEF StackInv

\* Every step keeps the invariant.
LEMMA NextStackInv ==
  ASSUME BootTick = FALSE, IInv, StackInv, [StackNext]_allVars PROVE StackInv'
<1>1. CASE UNCHANGED allVars
  BY <1>1, SMTT(30)
  DEF allVars, vars, stackVars, StackInv, StacksOK, KernelStack, KernelSegments,
       StackIsAllocated, ShellIsNew, PointOf, BootIsFirst, IdleSegments, IdleHoldsEsp, Runs
<1>2. CASE \E p \in Pid : SwitchOnRun(p)
  BY <1>2, RunKeeps
<1>3. CASE SwitchOnTimer \/ SwitchOnExit \/ StartFirstTask
  BY <1>3, TimerKeeps, ExitKeeps, StartKeeps
<1>4. CASE ShellMoves \/ ShellRanMoves
  BY <1>4, ShellMovesKeep, RanKeeps
<1>5. CASE SyscallEnters \/ SyscallMoves \/ StacksStay
  BY <1>5, EntersKeeps, SyscallKeeps, StayKeeps
<1> QED
  BY <1>1, <1>2, <1>3, <1>4, <1>5 DEF StackNext

\* The invariant holds in every reachable state.
LEMMA StackInvariance ==
  ASSUME BootTick = FALSE PROVE StackSpec => [](IInv /\ StackInv)
<1>1. StackInit => IInv /\ StackInv
  BY InitIInv, InitStackInv DEF StackInit
<1>2. IInv /\ StackInv /\ [StackNext]_allVars => IInv' /\ StackInv'
  BY Projects, NextIInv, NextStackInv
<1> QED
  BY <1>1, <1>2, PTL DEF StackSpec
-------------------------------------------------------------------------------
(* Theorems *)

\* An interrupt or a system call in ring 3 lands on the running program's own kernel
\* stack, for every number of programs and whatever order schedule() runs them in.
THEOREM TssFollowsTheTask == ASSUME BootTick = FALSE PROVE StackSpec => []TssIsMine
<1>1. IInv /\ StackInv => TssIsMine
  BY RingThree DEF IInv, TypeOK, StackInv, TssIsMine, KernelStack
<1> QED
  BY <1>1, StackInvariance, PTL

\* ESP and the shell's frames are never on a stack that `kill` has freed.
THEOREM NoFreedStack == ASSUME BootTick = FALSE PROVE StackSpec => []StackIsAllocated
<1>1. StackInv => StackIsAllocated
  BY DEF StackInv
<1> QED
  BY <1>1, StackInvariance, PTL

\* Kernel code other than the idle loop never runs with a program's segments.
THEOREM KernelHasItsSegments == ASSUME BootTick = FALSE PROVE StackSpec => []KernelSegments
<1>1. StackInv => KernelSegments
  BY DEF StackInv
<1> QED
  BY <1>1, StackInvariance, PTL

\* A kernel context goes on where it was interrupted, although task_switch() does not
\* load ESP; the shell's first entry and its return from `run` find their frames by EBP.
THEOREM ResumesWhereItWas == ASSUME BootTick = FALSE PROVE StackSpec => ResumesInPlace
<1> DEFINE Step ==
      current' # current /\ current' # Idle /\ Ring(cpu'.pc) = 0
        => \/ esp' = saved_esp'[current']
           \/ current' = Shell /\ (base = NullPage \/ cpu'.pc = "sh_ran")
<1>1. IInv /\ StackInv /\ [StackNext]_allVars => [Step]_allVars
  <2> SUFFICES ASSUME IInv, StackInv, [StackNext]_allVars,
                      current' # current, current' # Idle, Ring(cpu'.pc) = 0
               PROVE  \/ esp' = saved_esp'[current']
                      \/ current' = Shell /\ (base = NullPage \/ cpu'.pc = "sh_ran")
    OBVIOUS
  <2> USE SlotRanges
  <2>1. CASE SwitchOnTimer
    <3>1. multitasking /\ TimerIRQ
      BY <2>1 DEF SwitchOnTimer, TimerIRQ, TimerHandler, IInv, TypeOK
    <3>2. /\ IInv'
          /\ \A p \in Pid : KeepsClass(p) /\ (Runs(p)' <=> Runs(p))
          /\ cpu_state' = [cpu_state EXCEPT ![current] = Ctx(Resume(cpu.pc), TRUE)]
          /\ current' \in Pid /\ Runs(current)' /\ Runs(current)
          /\ cpu' = cpu_state'[current']
      BY <3>1, TimerFacts
    <3>3. current' \in Tasks /\ Runs(current)' /\ state[current'] \in {"RUNNING", "SLEEPING"}
      BY <3>2 DEF Tasks, Runs
    <3>4. current = Idle
      BY <3>2, <3>3, Alone DEF IInv, TypeOK, Tasks, Runs
    <3>5. cpu' = cpu_state[current'] /\ Ring(cpu.pc) # 3
      BY <3>2, <3>4, RingThree DEF IInv, TypeOK
    <3>6. esp' = esp /\ saved_esp'[current'] = saved_esp[current']
      BY <2>1, <3>1, <3>2, <3>4, <3>5, SMTT(30)
         DEF SwitchOnTimer, SwitchThrough, SaveEsp, FramePos, StackInv, StacksOK
    <3> QED
      BY <3>3, <3>4, <3>5, <3>6 DEF StackInv, IdleHoldsEsp, Runs
  <2>2. ASSUME NEW p \in Pid, SwitchOnRun(p) PROVE FALSE
    <3>1. /\ IInv' /\ p \in UserSlots /\ Runs(p)' /\ current' \in Pid /\ Runs(current)'
          /\ cpu' = cpu_state'[current'] /\ cpu_state'[p].pc = "user"
      BY <2>2, RunFacts DEF SwitchOnRun
    <3>2. current' = p
      BY <3>1, Alone DEF IInv, Tasks, Runs
    <3> QED
      BY <3>1, <3>2, SMTT(30) DEF Ring
  <2>3. CASE SwitchOnExit
    <3>1. /\ IInv' /\ Runs(Shell)' /\ current' \in Pid /\ Runs(current)'
          /\ cpu' = cpu_state'[current'] /\ cpu_state' = cpu_state
          /\ cpu_state[Shell].pc = "sh_ran"
      BY <2>3, ExitFacts DEF SwitchOnExit
    <3>2. current' = Shell
      BY <3>1, Alone DEF IInv, Tasks, Runs
    <3> QED
      BY <3>1, <3>2
  <2>4. CASE ShellMoves
    BY <2>4, ShellFacts DEF ShellMoves
  <2>5. CASE StartFirstTask \/ ShellRanMoves \/ SyscallEnters \/ SyscallMoves \/ StacksStay
    BY <2>5
       DEF StartFirstTask, StartMultitasking, procVars, ShellRanMoves, ShellRan,
         StepTo, NoSwitch, SyscallEnters, SyscallMoves, SyscallStep, GetcharFindsEmpty,
         GetcharHalts, GetcharTake, SysReturn, StacksStay, KeyboardIRQ, OpenGate
  <2>6. CASE UNCHANGED allVars
    BY <2>6 DEF allVars, vars
  <2> QED
    BY <2>1, <2>2, <2>3, <2>4, <2>5, <2>6 DEF StackNext
<1> QED
  BY <1>1, StackInvariance, PTL DEF StackSpec, ResumesInPlace
===============================================================================
