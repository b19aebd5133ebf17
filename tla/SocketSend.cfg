SPECIFICATION FairClientSpec
CONSTANTS
  Lengths <- FitInt
  SndBuf = 3
  IntHalf = 8
  RecLen = 2
  MaxCalls = 3
INVARIANTS TypeOK WireInOrder ReturnedWhole TLSTypeOK TLSWholeUntilThrow TLSPositionsKept
PROPERTIES SendEnds ServerReadsFrames TLSSendEnds
CHECK_DEADLOCK FALSE
