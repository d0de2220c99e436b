SPECIFICATION Spec
CONSTANTS
  MaxPort = 11
  Word = 16
  HTTP_MAX_HEADER_SIZE = 25
  ULLONG_MAX = 32
  MaxVersion = 9
  Types <- BothTypes
  Followed <- SomeMethods
  UrlSymbols <- SomeUrlSymbols
  MaxLead = 1
  MaxOpen = 1
  MaxRun = 4
  MaxCuts = 1
INVARIANTS NoAssertFails PiecesWhole LengthIsExact HeaderLimitKept FlagsAsListed
  ReuseIsAgreed
CHECK_DEADLOCK FALSE
