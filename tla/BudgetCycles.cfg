SPECIFICATION Spec
CONSTANTS
  WindowCount = 2
  Width <- MCWidth
  MeterSpan = 3
  Retention = 3
  Budget <- MCBudget
  Costs = {1, 2}
  Clients = {c1, c2}
  MaxTime = 5
  MaxRequests = 3
  MaxFailures = 1
  MaxRestarts = 1
  MaxResets = 1
SYMMETRY MCSymmetry
CHECK_DEADLOCK FALSE
INVARIANTS
  SpendCounted
  AdmittedCycleDurable
  OvershootBounded
PROPERTIES
  BoundaryStable
