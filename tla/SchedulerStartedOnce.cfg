SPECIFICATION Spec
CONSTANTS
  MAX_PROCESSES = 4
  TickMod = 8
  SleepTicks = {2}
  KbdMax = 1
  Faults = FALSE
INVARIANT
  StartedOnce
