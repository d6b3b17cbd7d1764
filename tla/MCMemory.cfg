SPECIFICATION Spec
CONSTANTS
  Clients = {c1, c2}
  Thinkers = {c1, c2}
  Sessions = {s1, s2}
  Words = {w1, w2}
  Entities = {e1, e2}
  Limit = 2
  MaxCalls = 4
  MaxRestarts = 1
SYMMETRY Symmetry
CHECK_DEADLOCK FALSE
PROPERTIES
  KeepsSessions
  RecallIsBest
  AskNamesEveryNeighbour
