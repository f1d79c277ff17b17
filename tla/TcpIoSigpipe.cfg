\* The world and a killed process may have no step left.
SPECIFICATION Spec
CONSTANTS
  Fd = {0, 1, 2}
  Conn = {1}
  MaxBytes = 1
  MaxForeign = 1
  BacklogMax = 2
  Roles = {"server"}
  MaxFaults = 0
INVARIANT PushReturns
CHECK_DEADLOCK FALSE
