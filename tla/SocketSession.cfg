SPECIFICATION FairSpec
CONSTANTS
  k1 = k1
  k2 = k2
  s1 = s1
  s2 = s2
  NULL = NULL
  Sockets = {k1, k2}
  Sessions = {s1, s2}
CHECK_DEADLOCK TRUE
INVARIANTS
  TypeOK
  ReferencesAreCounted
  PacketsFindTheirSession
PROPERTIES
  ClosedSocketsAreLetGo
  SessionsOfClosedSocketsEnd
