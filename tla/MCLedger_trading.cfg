SPECIFICATION TradingSpec
CONSTANTS
  Users = {u1, u2}
  Markets = {m1}
  Runs = {worker, manual}
  OrderLimit = 3
  Prices <- MCPrices
  Quantities = {2}
  Totals = {3}
  Books <- MCBooks
  MaxOrders = 3
  Won = 1
  Grants = {3}
  FundingLimit = 3
  Seed = 4
INVARIANTS
  LockedIsClaimed
  
  OpenOrdersCancellable
  SettlementNeverThrows
  FillsHonourOrder
  NoOvertaking

  
SYMMETRY Alike
CHECK_DEADLOCK FALSE
