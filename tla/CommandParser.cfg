SPECIFICATION Spec
CONSTANTS
  Letter = {"x", "y"}
  Blank = " "
  NUL = "nul"
  MAX_CMD_LEN = 7
  MAX_ARGS = 2
INVARIANTS
  TypeOK
  ArgvIsTheWords
PROPERTY
  ParserEnds
CHECK_DEADLOCK FALSE
