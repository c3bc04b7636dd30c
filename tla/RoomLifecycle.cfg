CONSTANTS
  Socket = {s1, s2, s3}
  Msg = {m1, m2}
  MaxLoads = 3
  MaxEpoch = 1
  MaxFailures = 1
SPECIFICATION FairSpec
CHECK_DEADLOCK FALSE
INVARIANTS TypeOK EpochNotLost FirstTailSaved
PROPERTIES OwnTimerSparesUsers Unloads
