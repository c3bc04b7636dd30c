CONSTANTS
  Client = {c1, c2}
  Stale = {}
  MaxSend = 2
  MaxMessages = 2
  MaxEpoch = 1
  MaxDrops = 0
  MaxCrashes = 1
SPECIFICATION Spec
SYMMETRY Devices
CHECK_DEADLOCK FALSE
INVARIANTS TypeOK  OnlyAuthorsWithdraw ServerHoldsForeign
PROPERTIES GateHolds SharesARoom
