\* Arbitrary bytes in chunks of 1 to 3 into a buffer of BufSize = 5.
SPECIFICATION Spec
CONSTANTS
  Byte = {0, 1, 2, 3}
  Magic = 3
  HeaderLen = 2
  MaxPayload = 2
  MaxChunk = 3
  StreamLen = 8
  PayloadLen <- MCPayloadLen
  Checksum <- XorChecksum
INVARIANTS
  TypeOK
  BufferIsStreamSuffix
  ReturnedFramesWereSent
  ReturnedInOrder
  NoFrameSkipped
