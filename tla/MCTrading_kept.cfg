SPECIFICATION TradingSpec
CONSTANTS
  noon = noon
  NoSlot = NoSlot
  Orders = {o1}
  Skus = {rice}
  DailyRows = {rice}
  Slots = {noon}
  MaxQty = 1
  Qty <- OneEach
  SlotOf <- Immediate
  InitialTarget <- Target
  MaxTarget = 1
  MaxVersion = 2
  Workers = {w1}
  Staff = {}
  Calls = {c1}
  MaxDeliveries = 1
  ReportIds = {}
  NoId = NoId
  MaxAttempts = 1
INVARIANTS
  NoMoneyKept
CHECK_DEADLOCK FALSE
