SPECIFICATION Spec
CONSTANTS
  NFrames = 24
  Reserved = 1
  LowFrames = 22
  HeapBoot = 2
  HeapMax = 8
  FsBase = 20
  FsCount = 1
  Slots = {2, 3}
  ImageSizes = {0, 2}
  MaxPages = 2
  StackPages = 2
INVARIANT CurrentDirIsLive
CHECK_DEADLOCK FALSE
