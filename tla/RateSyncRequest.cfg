SPECIFICATION Spec
CONSTANTS
  Models = {m1}
  Prices = {p1}
  HandPrice = hand
  None = None
  MaxChanges = 2
  MaxUpstream = 0
  MaxFailures = 0
  MaxTicks = 0
  MaxRestarts = 0
CHECK_DEADLOCK FALSE
INVARIANTS
  RequestNotForgotten
