SPECIFICATION Spec
CONSTANTS
  c1 = c1
  c2 = c2
  Clients = {c1, c2}
  MaxRows = 2
  MaxRequests = 3
  MaxRestarts = 1
  Carts <- MCCarts
  CostSheets <- MCCostSheets
  Rates <- MCRates
  Engine = "postgres"
  Cent = 100
  TiesDown = {}
SYMMETRY Symmetry
CHECK_DEADLOCK FALSE
INVARIANTS
  AcknowledgedStays
  NotFoundIsForever
  TableIsSound
  TotalsAddUp
  ReportIsCoherent
