SPECIFICATION DepositsSpec
CONSTANTS
  Requests = {r1, r2}
  Amounts = {1, 2}
  Months = 2
  DEPOSIT_LIMIT_PER_MONTH = 3
INVARIANTS
  MoneyLostOnlyByRace
  OvershootBounded
CHECK_DEADLOCK FALSE
