SPECIFICATION Spec
CONSTANTS
  NFrames = 26
  Reserved = 1
  LowFrames = 25
  HeapBoot = 2
  HeapMax = 5
  FsBase = 24
  FsCount = 1
  Slots = {2, 3}
  ImageSizes = {0, 2}
  MaxPages = 2
  StackPages = 2
INVARIANTS
  OneOwner
  NothingForgotten
  
CHECK_DEADLOCK FALSE
