SPECIFICATION FairSpec
CONSTANTS
  c1 = c1
  c2 = c2
  m1 = m1
  m2 = m2
  n1 = n1
  n2 = n2
  Credential = {c1}
  Message = {m1, m2}
  Nonce = {n1}
  TimestampWindow = 1
  IdempotencyWindow = 2
  CredentialTtl = 3
  ClockStep = 0
  ClientSkew = 0
  MaxTime = 3
  MaxQueue = 2
  MaxRestarts = 1
  MaxAuditFailures = 1
INVARIANTS RetrySeesFirstResult AuditTellsTheTruth
PROPERTIES EveryRequestAnswered
CHECK_DEADLOCK FALSE
