SPECIFICATION Spec
CONSTANTS
  MaxReads = 2
  CloseReads = 1
  ConnReads = 2
  PingEvery = 1
  PingTimeout = 1
  ExtraHeaders <- SomeHeaders
  UnsetReadings <- AnyReading
  Chunk = 2
  Garbage <- OneDataKind
  MaxQueue = 2
  MaxCalls = 1
  MaxDepth = 4
  Setups <- Tested
  ServerFrames <- TextOnly
INVARIANTS TypeOK CloseAnnounced DestroyedIsClosed StackSuffices QuietAfterClose OnePingOutstanding
PROPERTIES ImplementsConnection PongNotOverlooked NoDataAfterClose StatusSettles
CHECK_DEADLOCK FALSE
