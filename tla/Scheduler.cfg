SPECIFICATION Spec
CONSTANTS
  MAX_PROCESSES = 4
  TickMod = 3
  SleepTicks = {2}
  KbdMax = 1
  Faults = TRUE
INVARIANTS
  OneForeground
  OnCpuIsAlive
  HaltIsInterruptible
  OneKeyboardReader
  ReapsAZombie
PROPERTIES
  SlotChanges
  ImplementsForeground
CHECK_DEADLOCK FALSE
