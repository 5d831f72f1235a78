SPECIFICATION Spec
CONSTANTS
  p1 = p1
  p2 = p2
  p3 = p3
  i1 = i1
  i2 = i2
  i3 = i3
  id1 = id1
  id2 = id2
  Server = Server
  NULL = NULL
  Players = {p1, p2}
  Items = {i1, i2, i3}
  Ids = {id1, id2}
  Account <- OneAccountEach
  InitGold <- GoldEach
  InitCount <- TwoAndOne
  MaxStack = 2
  MaxGold = 4
  ColumnSize = 10
  InitItems <- TwoStacks
  Prices = {1, 2}
  StartBids = {1}
  Buyouts = {0, 1}
  Deposit = 0
  CutPercent = 0
  Deletable = {p1, p2}
  ServerTrades = TRUE
  Crashes = FALSE
  StartGold = 1
  MaxFees = 2
  MaxGain = 0
CONSTRAINT GoldBound
SYMMETRY Symmetry
CHECK_DEADLOCK FALSE
INVARIANTS
  ItemsApart
PROPERTIES
  UnitsKept
