SPECIFICATION FairSpec
CONSTANTS
  u = u
  w = w
  Devices = {u, w}
  Talkers = {u}
  Server = server
  MaxSockets <- Opens
  MaxClock = 3
  MaxQueue = 1
INVARIANTS TypeOK OwnerLeads ServerTracks TypingReaches
PROPERTY GhostsLeave
CHECK_DEADLOCK FALSE
