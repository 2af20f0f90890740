SPECIFICATION TradingSpec
CONSTANTS
  noon = noon
  NoSlot = NoSlot
  Orders = {o1}
  Skus = {rice}
  DailyRows = {rice}
  Slots = {noon}
  MaxQty = 1
  Qty <- OneEach
  SlotOf <- AtNoon
  InitialTarget <- Target
  MaxTarget = 1
  MaxVersion = 4
  Workers = {w1, w2}
  Staff = {m1}
  Calls = {c1}
  MaxDeliveries = 1
  ReportIds = {}
  NoId = NoId
  MaxAttempts = 0
INVARIANTS
  SentIsDone
PROPERTIES
  ImplementsOrderStore
CHECK_DEADLOCK FALSE
