SPECIFICATION Spec
CONSTANTS
  MaxReads = 2
  CloseReads = 1
  ConnReads = 2
  PingEvery = 1
  PingTimeout = 1
  ExtraHeaders <- SomeHeaders
  UnsetReadings <- AnyReading
  Chunk = 2
  Garbage <- OneDataKind
  MaxQueue = 3
  MaxCalls = 1
  MaxDepth = 3
  Setups <- Silent
  ServerFrames <- TextOnly
INVARIANT FirstFramesKept
CHECK_DEADLOCK FALSE
