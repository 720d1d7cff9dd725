SPECIFICATION TradingSpec
CONSTANTS
  Users = {u1}
  Markets = {m1}
  Runs = {worker}
  OrderLimit = 2
  Prices <- MCPrices
  Quantities = {1, 2}
  Totals = {4}
  Books <- MCBooks
  MaxOrders = 2
  Won = 1
  Grants = {4}
  FundingLimit = 4
  Seed = 4
INVARIANTS
  FilledMarketBuyIsSpent
CHECK_DEADLOCK FALSE
