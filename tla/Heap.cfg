SPECIFICATION Spec
CONSTANTS
  Header = 2
  Align = 2
  Page = 6
  Frames = 3
  Sizes = {1, 2, 5}
  MaxBlocks = 5
INVARIANTS
  
  HeldIsOffTheList
  NoBlockIsLost
PROPERTY
  LastFreedIsReused
