SPECIFICATION Spec
CONSTANTS
  KBD_BUFFER_SIZE = 4
  Key = {"a", "b"}
  ShiftKey = {"left", "right"}

  
PROPERTY
  ImplementsFifo
