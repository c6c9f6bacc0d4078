CONSTANTS
  Sinks = {k1, k2}
  Channels = {c1, c2, c3}
  None = None
  Size = 4
  MaxRequests = 1
  MaxConnections = 2
SPECIFICATION Spec
SYMMETRY ChannelSymmetry
INVARIANTS AnsweredOnce
CHECK_DEADLOCK FALSE
