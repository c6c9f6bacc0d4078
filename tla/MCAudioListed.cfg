SPECIFICATION Spec
CONSTANTS
  Demods = {k1, k2}
  Mods = {}
  Devices = {d0, d1}
  SystemDefault = d0
  None = None
  Rates = {1, 2, 3}
  DefaultRate = 1
  Supported <- Closest
  MaxMessages = 2
INVARIANTS ListedAreAttached
