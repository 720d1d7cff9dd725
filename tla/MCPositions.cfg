SPECIFICATION PositionsSpec
CONSTANTS
  Scale = 2
  Prices = {2, 3, 7}
  Quantities = {1, 3}
  Amounts = {3, 5, 6}
  OrderLimit = 2
  Funding = 12
  SellLimit = 1
INVARIANTS
  NeverMinted
  ExceptionsNeedLoss
  CoinsAndPositionAgree
PROPERTIES
  LossBounded
  ProfitIsCash
CHECK_DEADLOCK FALSE
