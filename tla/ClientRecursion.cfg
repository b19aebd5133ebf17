SPECIFICATION Spec
CONSTANTS
  MaxReads = 2
  CloseReads = 1
  ConnReads = 2
  PingEvery = 1
  PingTimeout = 1
  ExtraHeaders <- SomeHeaders
  UnsetReadings <- AnyReading
  Chunk = 2
  Garbage <- OneDataKind
  MaxQueue = 2
  MaxCalls = 1
  MaxDepth = 6
  Setups <- Closer
  ServerFrames <- TextOnly
INVARIANT HandlerMayClose
CHECK_DEADLOCK FALSE
