SPECIFICATION LinkSpec
CONSTANTS
  Byte = {0, 1, 2, 3}
  Magic = 3
  HeaderLen = 3
  MaxPayload = 3
  MaxChunk = 2
  StreamLen = 14
  PayloadLen <- MCPayloadLen
  Checksum <- XorChecksum
  MakeHeader <- MCMakeHeader
  SendLen = {3}
  PayloadByte = {1,2}
  NoiseByte = {1, 2}
  MaxFrames = 2
  MaxNoise = 0
  MaxDamage = 0
  DamageAt = {}
INVARIANTS
  ReceivedIsPrefixOfSent
CHECK_DEADLOCK FALSE
