SPECIFICATION Spec
CONSTANTS
  c1 = c1
  c2 = c2
  m1 = m1
  m2 = m2
  n1 = n1
  n2 = n2
  Credential = {c1}
  Message = {m1}
  Nonce = {n1}
  TimestampWindow = 1
  IdempotencyWindow = 4
  CredentialTtl = 6
  ClockStep = 1
  ClientSkew = 0
  MaxTime = 6
  MaxQueue = 2
  MaxRestarts = 1
  MaxAuditFailures = 1
INVARIANTS AtMostOnce
PROPERTIES ImplementsContract
CHECK_DEADLOCK FALSE
