SPECIFICATION Spec
CONSTANTS
  Connections = {c1, c2}
  Classes = {1, 2}
  RecvBuf = 1
  Lengths = {1, 2, 4}
  MaxMemory = 3
  MaxBlocks = 4
  MaxFree = 2
  NULL = NULL
INVARIANTS
  Exclusive
  MemoryBounded
  AnswerHasRoom
CHECK_DEADLOCK FALSE
