SPECIFICATION Spec
CONSTANTS
  p1 = p1
  p2 = p2
  s1 = s1
  s2 = s2
  Procs = {p1, p2}
  Engines = {e1, e2}
  Hosts = {s1, s2}
  ThreadsOf <- MCThreads
  Requests = {r1}
  None = None
  MaxFailures = 1
CHECK_DEADLOCK FALSE
INVARIANTS
  NothingForgotten
  OneEngineSettles
  NoOrphan
  ConfiguredLives
PROPERTY
  ShutdownReturns
