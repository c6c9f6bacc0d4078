CONSTANTS
  N = 3
  FECs = {0, 1, 2}
  Wrap = 4
  Slots = 2
  m_cm256Valid = TRUE
  m_cm256_OK = TRUE
  None = None
  MaxFrames = 3
  MaxChanges = 1
SPECIFICATION Spec
INVARIANTS TypeOK WholeWhenTogether OneFramePerSlot EveryFrameSent
PROPERTIES ReceivedKept
CHECK_DEADLOCK FALSE
