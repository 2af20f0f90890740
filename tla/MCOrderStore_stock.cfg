SPECIFICATION Spec
CONSTANTS
  o1 = o1
  o2 = o2
  o3 = o3
  rice = rice
  noodle = noodle
  noon = noon
  NoSlot = NoSlot
  Orders = {o1, o2, o3}
  Skus = {rice, noodle}
  DailyRows = {rice, noodle}
  Slots = {noon}
  MaxQty = 2
  Qty <- CartQty
  SlotOf <- Immediate
  InitialTarget <- TargetTwo
  MaxTarget = 3
  MaxVersion = 3
  Workers = {w1}
  Staff = {}
INVARIANTS
  StockLedger
  NeverOversold
PROPERTIES
  ImplementsPromise
