SPECIFICATION DataSpec
CONSTANTS
  Orders = {1, 2}
  Elsewhere = {2}
  Slices = 2
  MaxCommits = 4
  MaxReads = 2
  Codes = {btc, eth}
  Count = 2
  MaxPages = 2
  MaxEmpty = 1
  MaxTime = 4
  Assets = {1, 2}
  Quotes = {1, 2}
  MaxFills = 2
  MaxVisits = 2
INVARIANTS
  ListsMatchOrders
  FillsCountedOnce
  PageFollowsServer
  ChartIsItsMarket
CHECK_DEADLOCK FALSE
SYMMETRY Alike
