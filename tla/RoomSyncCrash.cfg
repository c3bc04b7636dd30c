CONSTANTS
  Client = {c1, c2}
  Stale = {c2}
  MaxSend = 1
  MaxMessages = 1
  MaxEpoch = 1
  MaxDrops = 1
  MaxCrashes = 1
SPECIFICATION FairSpec
CHECK_DEADLOCK FALSE
PROPERTIES RefusedOnlyForOthers Settles
