SPECIFICATION FairSpec
CONSTANTS
  MaxEpoch = 1
  MaxEntries = 2
  MaxFailures = 1
  MaxRestarts = 1
INVARIANTS TypeOK SavedIsFinal EntryIsConfirmed
PROPERTY Confirmed
CHECK_DEADLOCK FALSE
