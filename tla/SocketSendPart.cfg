SPECIFICATION ClientSpec
CONSTANTS
  Lengths <- FitInt
  SndBuf = 3
  IntHalf = 8
  RecLen = 2
  MaxCalls = 3
INVARIANT SentFully
CHECK_DEADLOCK FALSE
