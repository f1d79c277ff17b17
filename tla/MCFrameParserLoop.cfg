\* The shortest stream that overflows the buffer of 5 bytes and still holds
\* the rest of a frame.
SPECIFICATION Spec
CONSTANTS
  Byte = {0, 1, 2, 3}
  Magic = 3
  HeaderLen = 2
  MaxPayload = 2
  MaxChunk = 3
  StreamLen = 6
  Uninit = Uninit
  PayloadLen <- MCPayloadLen
  Checksum <- XorChecksum
INVARIANTS
  TypeOK
  FilledIsStream
PROPERTIES
  EveryCallReturns
  RefinesCalls
