\* Three samples in storage for four: wraps at every fill level.
SPECIFICATION Spec
CONSTANTS
  Capacity = 4
  Value = {0, 1, 2}
  Zero = 0
INVARIANTS
  ChannelIsRingbuf
