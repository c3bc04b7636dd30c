SPECIFICATION FairSpec
CONSTANTS
  a = a
  b = b
  m1 = m1
  m2 = m2
  f = f
  Accounts = {a, b}
  Msgs = {m1, m2}
  Author <- EachOne
  Foreign = {f}
  MaxLogouts = 1
  MaxFaults = 1
  MaxJobs = 2
INVARIANTS TypeOK RestoredOnce NotAnothersUnsent
PROPERTIES  Recovers
CHECK_DEADLOCK FALSE
