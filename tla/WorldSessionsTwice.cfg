SPECIFICATION Spec
CONSTANTS
  a1 = a1
  a2 = a2
  a3 = a3
  gm = gm
  s1 = s1
  s2 = s2
  s3 = s3
  s4 = s4
  NULL = NULL
  Accounts = {a1}
  Staff = {}
  Sessions = {s1, s2, s3}
  Limits = {2}
  MaxPackets = 1
  MaxProgress = 0
SYMMETRY Symmetry
CHECK_DEADLOCK FALSE
INVARIANTS
  OnePlayerPerCharacter
