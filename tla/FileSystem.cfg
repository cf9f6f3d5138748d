SPECIFICATION Spec
CONSTANTS
  Clusters = 4
  EntryValues = {0, 2, 3, 4, 5, 4088, 4095}
  FatBytes = 9
  ClusterBytes = 2
  MaxSize = 5
  NameLen = 2
  ExtLen = 1
  MaxTyped = 4
  MaxEntries = 2
INVARIANTS
  TypeOK
  FindsTheFile
  ListedIsFound
  
PROPERTY
  CatEnds
CHECK_DEADLOCK FALSE
