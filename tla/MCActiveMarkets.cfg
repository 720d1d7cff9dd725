SPECIFICATION FairMarketsSpec
CONSTANTS
  Codes = {m1, m2}
  OpenLimit = 2
INVARIANTS
  ForgottenOnlyInRace
PROPERTIES
  OpenOrdersTried
