SPECIFICATION FairSpec
CONSTANTS
  Keys = {k1}
  Slots <- MCSlots
  ShardCount = 2
  ShardOf <- MCShards
  MaxBuckets = 1
  MaxLogs = 1
  MaxAge = 0
  None = None
  Amounts = {1}
  Callers = {w1}
  MaxTime = 2
  MaxCalls = 2
  MaxFailures = 1
  MaxRestarts = 1
  MaxResets = 1
CHECK_DEADLOCK FALSE
INVARIANTS
  TypeOK
  Conservation
  CountersExact
  LogsAccounted
  QueueAgeTruthful
  QueueBounded
PROPERTIES
  ResetErases
  ImplementsLedger
  EventuallyStored
  ResetReturns
  AlarmClears
