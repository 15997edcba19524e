SPECIFICATION FairSpec
CONSTANTS
  d1 = d1
  r1 = r1
  r2 = r2
  p1 = p1
  p2 = p2
  p3 = p3
  Digest = {d1}
  Ref = {r1, r2}
  Proc = {p1, p2, p3}
  None = None
  MaxFaults = 2
  MaxCrashes = 2
  Disconnects = TRUE
INVARIANTS AudioIsKept
PROPERTIES RecoveryAgrees EveryOperationEnds
