SPECIFICATION Spec
CONSTANTS
  SampleRates = {16, 32}
  Widths = {4, 8, 16, 32}
  Offsets <- SomeOffsets
  Devices = {d1, d2}
  DefaultDevice = d1
  AudioRates = {4, 8}
  DefaultRate = 48
  Requests <- SomeRequests
  Presets <- OnePreset
  MaxInputs = 3
  None = None
CONSTRAINT FirstCrossed
CHECK_DEADLOCK FALSE
INVARIANTS TypeOK ChainFits FollowsSettings
