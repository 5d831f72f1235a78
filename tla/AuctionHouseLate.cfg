SPECIFICATION Spec
CONSTANTS
  p1 = p1
  p2 = p2
  p3 = p3
  i1 = i1
  i2 = i2
  i3 = i3
  id1 = id1
  id2 = id2
  Server = Server
  NULL = NULL
  Players = {p1, p2, p3}
  Items = {i1, i2}
  Ids = {id1}
  Account <- OneAccountEach
  InitGold <- GoldEach
  InitCount <- OneEach
  MaxStack = 1
  MaxGold = 400
  ColumnSize = 1000
  InitItems <- FirstHasItem
  Prices = {100, 104, 105, 115}
  StartBids = {100}
  Buyouts = {0, 110}
  Deposit = 5
  CutPercent = 5
  Deletable = {}
  ServerTrades = FALSE
  Crashes = FALSE
  StartGold = 115
  MaxFees = 15
  MaxGain = 0
CONSTRAINT GoldBound
SYMMETRY Symmetry
CHECK_DEADLOCK FALSE
PROPERTIES
  SoldIsFinal
