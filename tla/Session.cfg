SPECIFICATION FairSpec
CONSTANTS
  a = a
  b = b
  m1 = m1
  m2 = m2
  Accounts = {a}
  Msgs = {m1}
  Author <- ByA
  FrameLimit = 2
  RateLimit = 3
  MaxTokens = 2
  MaxJobs = 2
  MaxFaults = 2
  MaxWindows = 1
INVARIANTS TypeOK StoredIsSession
PROPERTY WorkArrives
CHECK_DEADLOCK FALSE
