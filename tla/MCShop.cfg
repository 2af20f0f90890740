SPECIFICATION Spec
CONSTANTS
  Parts = {"points", "checkout", "pricing", "slots", "pool", "bearer"}
  rice = rice
  tea = tea
  big = big
  hot = hot
  size = size
  extra = extra
  Customers = {k1, k2}
  Phones = {p1}
  NoPhone = NoPhone
  Earners = {o1, o2}
  Buyer = k1
  PaidCents = 250
  PointsPerYuan = 1
  AdjustKeys = {key1}
  Deltas <- MCDeltas
  Handlers = {w1, w2}
  Shoppers = {k1}
  Templates = {t1}
  NoCoupon = NoCoupon
  Calls = {w1, w2}
  Keys = {key1}
  NoKey = NoKey
  MaxQuotes = 2
  QuoteTTL = 0
  TemplateEnds = 0
  MaxMinute = 1
  TokenColumn = 97
  KeyColumn = 103
  Items = {rice, tea}
  Options = {big, hot}
  Groups = {size, extra}
  ItemPrice <- MCPrice
  ItemPack <- MCPack
  ItemMode <- MCMode
  ItemLeft <- MCLeft
  OptionPrice <- MCOptionPrice
  OptionGroup <- MCOptionGroup
  GroupRule <- MCRule
  Carts <- MCCarts
  Promotions <- MCPromotions
  Vouchers <- MCVouchers
  NoVoucher = NoVoucher
  Hours <- MCHours
  SlotMinutes = {4, 5, 50}
  SlotCapacities = {0, 2}
  LeadMinutes = {0, 30, 1440}
  Days = {0, 1}
  Nows = {0, 29, 30, 1359, 1380}
  PoolSize = 4
  Exports = {e1, e2}
  Readers = {w1, w2}
  OpenIds = {a, b}
  Logins = {w1, w2}
  NoPerson = NoPerson
SYMMETRY Symmetry
INVARIANTS
  MemberNumbersGapless
  PointsOncePerOrder
  BalanceComesFromLedger
  OneOrderPerQuote
  AnswersOfAKeyAgree
  
  OffersNeverAdd
  OrderOfCartIrrelevant
  
  OnlyExportsJam
  OneCustomerPerPerson
CHECK_DEADLOCK FALSE
