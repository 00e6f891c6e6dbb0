SPECIFICATION Spec
CONSTANTS
  Keys = {k1}
  Hashes = {h1, h2}
  Requests = {r1, r2, r3}
  Kinds <- MCOneKind
  None = None
  Callers = {w1}
  MaxPending = 2
  MaxRecent = 1
  MarkerTTL = 0
  DedupeTTL = 1
  MaxLag = 0
  MaxTime = 2
  MaxCalls = 2
  MaxFailures = 1
  MaxOpens = 1
  MaxAdmin = 1
SYMMETRY MCSymmetry
CHECK_DEADLOCK FALSE
INVARIANTS
  TypeOK
  ConsumedOnce
  NoStaleRows
  MarkersAccounted
  BindingStable
  CallbackSettlesOnce
PROPERTY
  ImplementsMarkerLife
