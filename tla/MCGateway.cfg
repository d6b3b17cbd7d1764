SPECIFICATION Spec
CONSTANTS
  r1 = r1
  r2 = r2
  Requests = {r1, r2}
  a1 = a1
  Addresses = {a1}
  NoId = NoId
  MaxTokens = 6
  MaxRequests = 2
  Window = 3
  MaxClock = 4
  MaxServed = 4
  MaxRestarts = 1
SYMMETRY Symmetry
CHECK_DEADLOCK FALSE
INVARIANTS
  GaugeCounts
  ContextIsLive
PROPERTIES
  RevokedIsOver
  LimitIsExact
