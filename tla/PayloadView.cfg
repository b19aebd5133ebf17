SPECIFICATION ViewSpec
CONSTANTS
  WireFrames <- MCTexts
  MaxFrames = 2
  MaxGarbage = 0
  InitCap = 12
  Chunk = 4
  UndefLens = {0}
  MaxNest = 2
INVARIANT PayloadValidInHandler
