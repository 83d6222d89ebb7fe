CONSTANTS
  PIPE_BUFFER_CAPACITY = 3
  MAX_IO = 4
  Byte = {0, 1}
SPECIFICATION Spec
INVARIANTS
  RingTypeOK
PROPERTIES
  RefinesFifo
