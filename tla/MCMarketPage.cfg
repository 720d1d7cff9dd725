SPECIFICATION PageSpec
CONSTANTS
  Tabs = {t1, t2}
  Calls = {k1, k2}
  MaxSec = 2
  t1 = t1
  t2 = t2
  k1 = k1
  k2 = k2
  s1 = s1
  s2 = s2
  s3 = s3
  Lines = {s1, s2, s3}
  DefaultLines = {s1, s2}
  FirstLine = s1
  Bands = {"bollinger"}
  Edited = {"bollinger", "ema", "volume"}
  MaxEdits = 1
  Prices = {1, 2}
  Qtys = {0, 2}
  MIN_ORDER_KRW = 2
  MaxSheets = 2
  Markets = {1, 2}
  Holding = {2}
  Tickers <- SmallTickers
  MaxRequests = 3
  Around = 3
INVARIANTS
  SentAwayOnlyIfDisturbed
  
  DrawnAsConfigured
  OneAtATime
  ListFollowsView
  StarIsFavorite
  StepsUndone
PROPERTIES
  SentAsReviewed
CHECK_DEADLOCK FALSE
