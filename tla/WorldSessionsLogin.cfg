SPECIFICATION Spec
CONSTANTS
  a1 = a1
  a2 = a2
  a3 = a3
  gm = gm
  s1 = s1
  s2 = s2
  s3 = s3
  s4 = s4
  NULL = NULL
  Accounts = {a1, a2}
  Staff = {}
  Sessions = {s1, s2, s3}
  Limits = {1}
  MaxPackets = 2
  MaxProgress = 1
SYMMETRY Symmetry
CHECK_DEADLOCK FALSE
INVARIANTS
  TypeOK
  NoDanglingSession
PROPERTIES
  LoginSeesLastSave
  ReplacementNeverInterruptsLoading
