\* The world and a killed process may have no step left.
SPECIFICATION PollingSpec
CONSTANTS
  Fd = {0, 1, 2}
  Conn = {1, 2}
  MaxBytes = 2
  MaxForeign = 2
  BacklogMax = 2
  Roles = {"server", "client"}
  MaxFaults = 1
INVARIANTS
  TypeOK
  HoldsItsSockets
  PoppedIsOneStream
  ReadyMeansPopReturns
PROPERTIES
  ForeignStaysOpen
  WaitingPeerIsAccepted
CHECK_DEADLOCK FALSE
