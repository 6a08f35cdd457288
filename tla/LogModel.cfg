SPECIFICATION Spec
CONSTANTS
  first = first
  second = second
  plain = plain
  odd = odd
  Streams <- MCStreams
  Filters <- MCFilters
  NoFilter = plain
  Selects <- MCSelects
  BufferSize = 1
  Lines = 1
  MaxLine = 1
  RetryCount = 2
  MaxCommands = 3
CONSTRAINT Bounds
INVARIANTS
  LogTypeOK
  SentIsKept
PROPERTIES
  EverythingIsShown
  OldStreamsEnd
  EndIsTold
CHECK_DEADLOCK FALSE
