CONSTANTS
  Sizes = {1, 2}
  MaxBlock = 3
  MaxSamples = 4
SPECIFICATION FairSpec
INVARIANTS TypeOK Accounted WaitsForReason
PROPERTIES CallsEnd
