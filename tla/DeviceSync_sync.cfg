SPECIFICATION Spec
CONSTANTS
  r1 = r1
  r2 = r2
  Refresh = {r1, r2}
  MaxMoments = 3
  MaxDrops = 2
  MaxAbandoned = 1
SYMMETRY MCSymmetry
INVARIANTS OnlyAbandonedIsUnseen CurrentUnlessOverwritten
CHECK_DEADLOCK FALSE
