SPECIFICATION CheckoutSpec
CONSTANTS
  Shoppers = {s1}
  Templates = {t1}
  NoCoupon = NoCoupon
  Calls = {c1, c2}
  Keys = {key1}
  NoKey = NoKey
  MaxQuotes = 2
  QuoteTTL = 1
  TemplateEnds = 1
  MaxMinute = 2
  TokenColumn = 64
  KeyColumn = 100
INVARIANTS
  ValidQuoteMakesOrder
CHECK_DEADLOCK FALSE
