SPECIFICATION Spec
CONSTANTS
  m1 = m1
  m2 = m2
  m3 = m3
  NULL = NULL
  Maps = {m1, m2}
  MapOrder <- InOrder
  NumThreads = 2
  Dynamic = FALSE
  DetectsFreezes = TRUE
  MaxQueue = 4
CHECK_DEADLOCK TRUE
INVARIANTS
  MapsRestInSessions
