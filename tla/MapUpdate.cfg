SPECIFICATION FairSpec
CONSTANTS
  m1 = m1
  m2 = m2
  m3 = m3
  NULL = NULL
  Maps = {m1, m2, m3}
  MapOrder <- InOrder
  NumThreads = 2
  Dynamic = TRUE
  DetectsFreezes = TRUE
  MaxQueue = 6
CHECK_DEADLOCK TRUE
INVARIANTS
  TypeOK
  BooksAreRight
PROPERTIES
  RoundsEndAtRest
  RoundsEnd
  ScheduledMapsAreUpdated
