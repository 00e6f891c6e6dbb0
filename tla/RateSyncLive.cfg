SPECIFICATION FairSpec
CONSTANTS
  Models = {m1}
  Prices = {p1}
  HandPrice = hand
  None = None
  MaxChanges = 2
  MaxUpstream = 0
  MaxFailures = 2
  MaxTicks = 2
  MaxRestarts = 0
CHECK_DEADLOCK FALSE
PROPERTIES
  DueIsServed
  LoopEnds
