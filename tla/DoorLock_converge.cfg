SPECIFICATION FairSpec
CONSTANTS
  Delays = {1, 2}
  InitialDelay = 1
  StorageFails = TRUE
  MaxTime = 1
  MaxCalls = 2
INVARIANTS ClientsConverge
PROPERTIES ArmedDoorLocks
CHECK_DEADLOCK FALSE
