CONSTANTS
  Connections = {c1, c2}
  Classes = {1, 2}
  RecvBuf = 1
  Lengths = {1, 2, 4}
  MaxMemory = 0
  MaxBlocks = 4
  MaxFree = 3
  NULL = NULL
SPECIFICATION Spec
CHECK_DEADLOCK FALSE
INVARIANTS
  ChainLongEnough
