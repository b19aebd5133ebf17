SPECIFICATION FairSpec
CONSTANTS
  MaxReads = 1
  CloseReads = 1
  ConnReads = 2
  PingEvery = 0
  PingTimeout = 0
  ExtraHeaders <- SomeHeaders
  UnsetReadings <- AnyReading
  Chunk = 2
  Garbage <- TextOnly
  MaxQueue = 2
  MaxCalls = 1
  MaxDepth = 6
  Setups <- Programs
  ServerFrames <- TextOnly
PROPERTIES CallsReturn MutePeerDetected ProgramEnds
CHECK_DEADLOCK FALSE
