SPECIFICATION FairSpec
CONSTANTS
  d1 = d1
  d2 = d2
  u1 = u1
  u2 = u2
  Device = {d1, d2}
  User = {u1, u2}
  Home <- Apart
  Admin = u1
  PublishOverlaps = FALSE
  MaxEpoch = 1
  MaxKeys = 1
  MaxPairs = 4
  MaxFailures = 1
  MaxLosses = 1
  MaxSignIns = 0
PROPERTY Served
CHECK_DEADLOCK FALSE
INVARIANTS EpochKeyHeld NotStranded
