SPECIFICATION Spec
CONSTANTS
  Demods = {k1, k2}
  Mods = {m1, m2}
  Devices = {d0, d1}
  SystemDefault = d0
  None = None
  Rates = {1, 2, 3}
  DefaultRate = 1
  Supported <- Closest
  MaxMessages = 2
SYMMETRY Alike
CONSTRAINT OneSide
INVARIANTS TypeOK FifosWhereRegistered OpenAtItsRate ListedWhereRegistered RateSettled
