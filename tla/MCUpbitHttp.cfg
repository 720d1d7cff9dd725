SPECIFICATION HttpSpec
CONSTANTS
  Callers = {c1, c2, c3, c4}
  Listers = {c3}
  MaxCalls = 2
  Window = 3
  MaxRetries = 2
  MaxAfter = 2
  c1 = c1
  c2 = c2
  c3 = c3
  c4 = c4
INVARIANTS
  SentInWindow
PROPERTIES
  EveryCallEnds
