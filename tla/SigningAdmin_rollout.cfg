SPECIFICATION FairSpec
CONSTANTS
  Gateways = {g1, g2}
  MaxCrashes = 3
  MaxRepeats = 1
INVARIANTS TrustKept CertificatesFit
PROPERTIES RolloutEnds
CHECK_DEADLOCK FALSE
