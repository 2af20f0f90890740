SPECIFICATION FairSpec
CONSTANTS
  o1 = o1
  o2 = o2
  o3 = o3
  rice = rice
  noodle = noodle
  noon = noon
  NoSlot = NoSlot
  Orders = {o1, o2}
  Skus = {rice}
  DailyRows = {rice}
  Slots = {noon}
  MaxQty = 2
  Qty <- CartQty
  SlotOf <- AtNoon
  InitialTarget <- TargetTwo
  MaxTarget = 2
  MaxVersion = 4
  Workers = {w1, w2}
  Staff = {m1}
INVARIANTS
  TypeOK
  StockFollowsOrder
  VersionNamesState
  SlotNeverLeaks
PROPERTIES
  SoldStockReturnsByRefundOnly
  ExpiredStockReturned
