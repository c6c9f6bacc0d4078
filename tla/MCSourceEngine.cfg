CONSTANTS
  Sources = {s1, s2}
  Channels = {c1}
  None = None
  MaxRate = 2
  MaxData = 1
  MaxMessages = 1
SPECIFICATION FairSpec
INVARIANTS TypeOK AllOrNothing UsesLiveObjects RateSettled
PROPERTIES OperationsEnd
CHECK_DEADLOCK FALSE
