SPECIFICATION Spec
CONSTANTS
  Requests = {"r1", "r2"}
  RequestOf <- MCRequestOf
  Keys = {"k1", "k2"}
  Hashes = {"h1", "h2"}
  Edits <- MCEdits
  Whitelists <- MCWhitelists
  Catalog = {"m1", "m2"}
  Builtin = {"b"}
  Submissions <- MCSubmissions
  Savers = {s1, s2}
  Environments <- MCEnvironments
  Days = 3
  SlotsPerDay = 3
  CaptureTTL = 1
  MaxCaptured = 1
  MaxPending = 1
  Seeds <- MCSeeds
  None = None
  Start <- MCStart
  Clock <- MCClock
  MaxChanges = 2
INVARIANTS MapsAgree FilterStored
PROPERTY AnswersAreJust
SYMMETRY MCSymmetry
CHECK_DEADLOCK FALSE
