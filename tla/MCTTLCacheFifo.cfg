SPECIFICATION Spec
CONSTANTS
  k1 = k1
  k2 = k2
  k3 = k3
  Keys <- MCKeys
  MaxSizes = {1, 2}
  DefaultTtl = 1
  Ttls = {0, 2}
  None = None
  MaxAge = 3
  MaxCount = 1
  MaxStops = 2
CHECK_DEADLOCK FALSE
PROPERTY FifoEvictsOldest
