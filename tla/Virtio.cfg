SPECIFICATION FairSpec
CONSTANTS
  Sizes = {0, 1, 2, 4}
  MaxSize = 4
  IdxMod = 8
  Fresh = {0}
INVARIANTS
  CommandIsIntact
  CommandsDoNotFault
PROPERTIES
  AnswerIsMine
  BeepReturns
CHECK_DEADLOCK FALSE
