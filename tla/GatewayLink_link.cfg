SPECIFICATION FairSpec
CONSTANTS
  MaxAttempts = 3
  MaxEndings = 2
INVARIANTS OnlineIsWatched NoStraySocket
PROPERTIES LossIsNoticed ConnectingEnds
CHECK_DEADLOCK FALSE
