SPECIFICATION Spec
CONSTANTS
  Parts = {"menu", "platform", "purchase", "tables", "sessions", "migrate"}
  Cats = {x1, x2}
  Dishes = {y1, y2}
  MenuStaff = {z1, z2}
  NoCat = NoCat
  WindowDays = 0
  DayTicks = 2
  MaxBatches = 3
  MaxClock = 2
  Accounts = {x1, x2}
  NoAccount = NoAccount
  MaxStores = 2
  Applications = {y1, y2}
  Reviewers = {z1, z2}
  PageLimit = 1
  Materials = {x1, x2}
  MaxExpected = 4
  NoTotal = NoTotal
  DiningTables = {x1, x2}
  TableStaff = {y1, y2}
  NoTable = NoTable
  MaxTokens = 4
  AdminSessions = {s1}
  Requests = {x1, x2}
  IdleTTL = 2
  AbsTTL = 5
  RenewSlack = 1
  MaxDelay = 1
  MaxTime = 4
  LastVersion = 3
  TablesPer = 2
  Migrators = {x1, x2}
SYMMETRY Symmetry
INVARIANTS
  LiveDishHasCategory
  OneOwner
  ApplicationOpensItsStore
  VersionDecidesOnce
  CodesLeadToTheirTable
  UsedSessionLasts
  ActsWithinRole
  RecordedIsWhole
  RecordedInOrder
PROPERTIES
  RestoredWithItsBatch
  BinClosesADayLate
  OwnedStaysOwned
  PagingComplete
  LogoutIsFinal
CHECK_DEADLOCK FALSE
