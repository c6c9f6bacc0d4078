CONSTANTS
  Sinks = {k1, k2}
  Channels = {c1, c2, c3}
  None = None
  Size = 4
  MaxRequests = 3
  MaxConnections = 2
SPECIFICATION Spec
SYMMETRY ChannelSymmetry
INVARIANTS TypeOK AllOrNothing UsesLiveChannels OwnFifosBalanced NeverBothWays
CHECK_DEADLOCK FALSE
