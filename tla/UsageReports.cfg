SPECIFICATION Spec
CONSTANTS
  Keys = {k1, k2}
  Models = {m1}
  Times <- MCTimes
  PerHour = 12
  Zones <- MCZones
  Days = {1, 2}
  MonthDays = 2
  YearDays = 4
  MaxDays = 2
  MaxHourly = 1
  MaxUsage = 2
  MaxFailures = 1
  MaxRemovals = 1
SYMMETRY MCSymmetry
INVARIANTS
  ReportTrue
  RankingComplete
