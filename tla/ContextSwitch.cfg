SPECIFICATION StackSpec
CONSTANTS
  MAX_PROCESSES = 4
  TickMod = 2
  SleepTicks = {2}
  KbdMax = 1
  Faults = TRUE
  BootTick = FALSE
INVARIANTS
  
  StackIsAllocated
  KernelSegments

  
CHECK_DEADLOCK FALSE
