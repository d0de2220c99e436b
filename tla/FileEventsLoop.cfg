SPECIFICATION Spec
CONSTANTS
  Fds = {5, 6, 7}
  SetSize = 7
  MaxConns = 4
  MaxOpens = 2
  MaxBatch = 2
  Backends = {"epoll", "select", "kqueue", "evport"}
  Interleaved = FALSE
  NULL = NULL
INVARIANTS NothingRefused EventIsOwn Watched
CHECK_DEADLOCK FALSE
