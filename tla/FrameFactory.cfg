SPECIFICATION Spec
CONSTANTS
  Payloads <- MCPayloads
  Lengths <- MCLengths
  InitCap = 16
  Entries = 3
  Seeds <- MCSeeds
  XorByte <- ByteXor
  MaxFrames = 4
INVARIANTS TypeOK EncodedInBounds DecodesToRequest LengthsDecode KeysAreFresh GeneratorAlive
CHECK_DEADLOCK FALSE
