CONSTANTS
  Size = 3
  MaxBlock = 4
  MaxSamples = 7
  Readers = {"engine", "threaded"}
SPECIFICATION FairSpec
INVARIANTS TypeOK DeliveredInOrder
PROPERTIES RegionStable EventuallyFed ImplementsSampleQueue
CHECK_DEADLOCK FALSE
