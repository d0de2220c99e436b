SPECIFICATION Spec
CONSTANTS
  Fds = {5, 6, 7}
  SetSize = 8
  MaxConns = 3
  MaxOpens = 2
  MaxBatch = 2
  Backends = {"epoll"}
  Interleaved = TRUE
  NULL = NULL
INVARIANTS EventStillValid
CHECK_DEADLOCK FALSE
