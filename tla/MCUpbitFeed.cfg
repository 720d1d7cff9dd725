SPECIFICATION Spec
CONSTANTS
  Markets = {b, c}
  Pool = {1, 2, 3}
  MaxLater = 1
  MaxDays = 1
  MaxFaults = 2
  b = b
  c = c
INVARIANTS
  NeverAbandoned
  ClientKnowsItsSocket
  NewestListUnlessDisturbed
CHECK_DEADLOCK FALSE
