SPECIFICATION FairSpec
CONSTANTS
  MAX_PROCESSES = 3
  TickMod = 2
  SleepTicks = {2}
  KbdMax = 1
  Faults = FALSE
PROPERTIES
  RunnableRuns
  SleeperWakes
  PromptReturns
  KeyIsRead
  InterruptsComeBack
