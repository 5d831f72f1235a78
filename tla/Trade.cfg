SPECIFICATION Spec
CONSTANTS
  p1 = p1
  p2 = p2
  i1 = i1
  i2 = i2
  near = near
  far = far
  t1 = t1
  shown = shown
  NULL = NULL
  NonTraded = shown
  Players = {p1, p2}
  Items = {i1, i2}
  TradedSlots = {t1}
  BagSize = 1
  MaxGold = 2
  Places = {near, far}
  InitGold <- TwoAndOne
  InitItems <- ItemEach
  MaxSaves = 1
CONSTRAINTS SavesBound PlacesBound OthersBound
SYMMETRY Symmetry
CHECK_DEADLOCK FALSE
INVARIANTS
  TypeOK
  PartnersAgree
  NoItemTwice
  ItemsApart
  GoldNeverCreated
PROPERTIES
  AcceptedMeansAgreed
  TransfersAreAgreed
  GoldLostOnlyAtLimit
