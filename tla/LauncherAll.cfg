SPECIFICATION Spec
CONSTANTS
  Configs <- AllSettings
  Threads = {1, 2, 3}
  Concurrencies = {0, 1, 2, 3, 4, 5}
  Wrap = 16
  MaxLaunches = 4
  MaxEnds = 3
INVARIANTS
  NotTooMany
PROPERTIES
  StopsWhenFull
  LaunchingEnds
CHECK_DEADLOCK FALSE
