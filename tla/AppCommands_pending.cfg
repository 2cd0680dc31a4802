SPECIFICATION FairCommandsSpec
CONSTANTS
  Device = {"light", "away"}
  MaxCommands = 3
INVARIANTS PendingIsUnderway
PROPERTIES PendingEnds
CHECK_DEADLOCK FALSE
