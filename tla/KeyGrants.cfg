SPECIFICATION Spec
CONSTANTS
  d1 = d1
  d2 = d2
  u1 = u1
  u2 = u2
  Device = {d1, d2}
  User = {u1, u2}
  Home <- Apart
  Admin = u1
  PublishOverlaps = FALSE
  MaxEpoch = 1
  MaxKeys = 2
  MaxPairs = 3
  MaxFailures = 1
  MaxLosses = 0
  MaxSignIns = 1
INVARIANTS TypeOK OneKeyPerEpoch
CHECK_DEADLOCK FALSE
