\* Chunks of 2 and frames of at most 6 bytes fit the buffer of 7. The encoder
\* refuses the payload of 4. The sender stops at its bounds.
SPECIFICATION LinkSpec
CONSTANTS
  Byte = {0, 1, 2, 3}
  Magic = 3
  HeaderLen = 3
  MaxPayload = 3
  MaxChunk = 2
  StreamLen = 15
  PayloadLen <- MCPayloadLen
  Checksum <- XorChecksum
  MakeHeader <- MCMakeHeader
  SendLen = {1, 2, 4}
  PayloadByte = {1, 2, 3}
  NoiseByte = {1}
  MaxFrames = 3
  MaxNoise = 1
  MaxDamage = 1
  DamageAt = {1, 2, 4, 5, 6}
INVARIANTS
  LinkTypeOK
  ReceivedIsPrefixOfSent
  DrainedMeansDelivered
  DamageIsContained
CHECK_DEADLOCK FALSE
