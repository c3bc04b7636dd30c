SPECIFICATION Spec
CONSTANTS
  d1 = d1
  d2 = d2
  u1 = u1
  u2 = u2
  Device = {d1, d2}
  User = {u1, u2}
  Home <- Apart
  Admin = u1
  PublishOverlaps = TRUE
  MaxEpoch = 1
  MaxKeys = 1
  MaxPairs = 3
  MaxFailures = 0
  MaxLosses = 0
  MaxSignIns = 0
INVARIANT IdentityPublished
CHECK_DEADLOCK FALSE
