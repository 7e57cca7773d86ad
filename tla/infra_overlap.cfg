SPECIFICATION Spec
CONSTANTS
  w1 = w1
  w2 = w2
  FastPeriod = 2
  SlowPeriod = 3
  FastStale = 2
  SlowStale = 3
  RunTime = 1
  Reported = {"normal", "warning"}
  Workers = {w1, w2}
  MaxClock = 3
  MaxFaults = 1
CHECK_DEADLOCK FALSE
SYMMETRY Symmetry
INVARIANTS
  OverallMatchesSections
  NormalIsEarned
  SnapshotsKeepOwnSection
