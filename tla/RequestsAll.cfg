SPECIFICATION RequestsSpec
CONSTANTS
  MaxPort = 11
  Word = 16
  MaxRequest = 13
  BeforeUri = 4
  AfterUri = 3
  Addresses = {1, 2}
  UrlSymbols <- SomeSymbols
  UrlStarts <- SomeStarts
  Bases <- SomeBases
  MaxTail = 5
INVARIANTS FieldsTile RequestIsRead EntryResolves
CHECK_DEADLOCK FALSE
