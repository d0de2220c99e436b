CONSTANTS
  Playlists <- AnyPlaylists
  Faulty = TRUE
  Slack = 6
  Lag = 6
  MaxTime = 4
  MaxRequests = 3
  MaxTimers = 3
  MaxQueue = 3
SPECIFICATION Spec
INVARIANTS
  TypeOK
  NoStall
  QueueIsServed
