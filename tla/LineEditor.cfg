SPECIFICATION Spec
CONSTANTS
  Letter = {"x"}
  Blank = " "
  NUL = "nul"
  MAX_CMD_LEN = 4
  HISTORY_SIZE = 2
  PromptLen = 1
  Columns = 4
  MaxCommands = 3
INVARIANTS
  TypeOK
  
PROPERTY
  RecallsTheCommand
