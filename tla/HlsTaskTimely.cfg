CONSTANTS
  Playlists <- MediaPlaylists
  Faulty = FALSE
  Slack = 3
  Lag = 3
  MaxTime = 32
  MaxRequests = 4
  MaxTimers = 4
  MaxQueue = 6
SPECIFICATION Spec
INVARIANTS
  NoUseAfterDelete
  OnePlaybackClock
PROPERTIES
  NotAheadOfPlayback
  VodCompletes
