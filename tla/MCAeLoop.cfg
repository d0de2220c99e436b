CONSTANTS
  Sec = 3
  MaxSec = 2
  MaxTimers = 3
  MaxJumps = 1
  Delays <- MCDelays
SPECIFICATION Spec
INVARIANTS
  TypeOK
  PassComplete
  NewTimersWait
PROPERTIES
  OversleepBounded
  ImplementsTimerService
  EventuallyFires
