CONSTANTS
  N = 2
  FECs = {2}
  Wrap = 4
  Slots = 2
  m_cm256Valid = TRUE
  m_cm256_OK = TRUE
  None = None
  MaxFrames = 2
  MaxChanges = 0
SPECIFICATION Spec
INVARIANTS EnoughBlocksRestore
CHECK_DEADLOCK FALSE
