SPECIFICATION FairSpec
CONSTANTS
  a1 = a1
  a2 = a2
  a3 = a3
  gm = gm
  s1 = s1
  s2 = s2
  s3 = s3
  s4 = s4
  NULL = NULL
  Accounts = {a1, a2}
  Staff = {}
  Sessions = {s1, s2}
  Limits = {1}
  MaxPackets = 1
  MaxProgress = 0
CHECK_DEADLOCK FALSE
PROPERTIES
  LostSessionsAreRemoved
  LoadingEnds
