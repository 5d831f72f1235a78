SPECIFICATION Spec
CONSTANTS
  a1 = a1
  a2 = a2
  a3 = a3
  gm = gm
  s1 = s1
  s2 = s2
  s3 = s3
  s4 = s4
  NULL = NULL
  Accounts = {a1, a2, a3, gm}
  Staff = {gm}
  Sessions = {s1, s2, s3, s4}
  Limits <- AnyLimit
  MaxPackets = 0
  MaxProgress = 0
SYMMETRY PlayerSymmetry
CHECK_DEADLOCK FALSE
INVARIANTS
  QueueMatchesFlags
PROPERTIES
  ActiveWithinLimit
  QueueNeverIdles
  ImplementsLoginQueue
