SPECIFICATION FeedSpec
CONSTANTS
  Handlers = {h1, h2}
  LastCandle = 3
  MaxTrades = 3
  Lifetime = 2
  Jobs = 1
  Origin = 16
  Books <- SmallBooks
  Half = 2
  Stamps = {1, 2}
  MAX_TRADES = 2
  MaxMessages = 4
  MaxCuts = 1
INVARIANTS
  
  
  PageFollowsFeed
CHECK_DEADLOCK FALSE
