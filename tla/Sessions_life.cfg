SPECIFICATION FairSpec
CONSTANTS
  Source = {s1}
  Client = {a}
  Code = {x, y}
  Credential = {c1, c2}
  Listener = {c1}
  PairingLifetime = 2
  LockTime = 2
  MaxFailures = 2
  CredentialTtl = 2
  ClockStep = 1
  MaxTime = 2
  MaxRestarts = 1
INVARIANTS GuessesAreRationed CodesPairOnce RefusedForGood ConnectionsEndWithSession
PROPERTIES EveryConnectionCloses
CHECK_DEADLOCK FALSE
