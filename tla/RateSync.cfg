SPECIFICATION Spec
CONSTANTS
  Models = {m1}
  Prices = {p1}
  HandPrice = hand
  None = None
  MaxChanges = 4
  MaxUpstream = 1
  MaxFailures = 1
  MaxTicks = 0
  MaxRestarts = 1
SYMMETRY MCSymmetry
CHECK_DEADLOCK FALSE
INVARIANTS
  TypeOK
  CardInStep
PROPERTIES
  NotModifiedIsCurrent
  HandPricedStayPriced
