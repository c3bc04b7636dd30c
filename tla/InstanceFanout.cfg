SPECIFICATION Spec
CONSTANTS
  i1 = i1
  i2 = i2
  c1 = c1
  c2 = c2
  x1 = x1
  x2 = x2
  Instances = {i1, i2}
  Clients = {c1}
  Items = {x1, x2}
  MaxEpoch = 1
  MaxLoads = 3
  MaxQueue = 2
  MaxFaults = 1
SYMMETRY Symmetry
INVARIANTS TypeOK DifferencesAreMissed EpochKnown
CHECK_DEADLOCK FALSE
