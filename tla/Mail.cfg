SPECIFICATION QuietSpec
CONSTANTS
  p1 = p1
  p2 = p2
  i1 = i1
  m1 = m1
  m2 = m2
  NULL = NULL
  Players = {p1, p2}
  Items = {i1}
  Ids = {m1, m2}
  InitGold <- GoldOfEach
  InitItems <- ItemOfFirst
  EachGold = 1
  Amounts = {0, 1}
  Cost = 1
  Cap = 0
  MaxGold = 2
  ColumnSize = 4
  WordSize = 8
  CountSize = 4
  MaxDelay = 2
  MaxTotal = 2
CONSTRAINT GoldBound
ACTION_CONSTRAINTS
  DelayBound
SYMMETRY Symmetry
CHECK_DEADLOCK FALSE
INVARIANTS
  TypeOK
  NoItemTwice
  MemoryIsStored
PROPERTIES
  GoldAccounted
