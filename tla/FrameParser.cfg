SPECIFICATION FairSpec
CONSTANTS
  WireFrames <- MCFrames
  MaxFrames = 2
  MaxGarbage = 1
  InitCap = 3
  Chunk = 3
  UndefLens = {0, 2, 1000}
INVARIANTS TypeOK BufferInBounds BufferIsStream DeliveredInOrder NoFrameWithheld BufferStartsAtFrame
PROPERTIES ImplementsStream EveryFrameDelivered
