SPECIFICATION Spec
CONSTANTS
  t1 = t1
  t2 = t2
  Tasks = {t1, t2}
  Nothing = Nothing
  MaxLaunches = 2
  MaxSteps = 2
  MaxLooks = 2
  MaxCalls = 4
SYMMETRY Symmetry
CHECK_DEADLOCK FALSE
PROPERTY ActsOnItsOwnSite
