SPECIFICATION Spec
CONSTANTS
  Users = {u1}
  Markets = {m1}
  Runs = {worker, manual}
  OrderLimit = 2
  Prices <- MCPrices
  Quantities = {2}
  Totals = {2}
  Books <- MCBooks
  MaxOrders = 2
  Won = 1
  Grants = {2}
  FundingLimit = 4
  Seed = 2
INVARIANTS
  KrwConserved
PROPERTIES
  TerminalOrdersFrozen
SYMMETRY Alike
CHECK_DEADLOCK FALSE
