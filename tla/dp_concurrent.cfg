SPECIFICATION Spec
CONSTANTS
  w1 = w1
  w2 = w2
  Messages <- TwoInfra
  WarnAge = 0
  CriticalAge = 1
  Timeout = 1
  Workers = {w1, w2}
  MaxClock = 2
  MaxDuplicates = 0
  MaxRetries = 0
  MaxFaults = 0
SYMMETRY Symmetry
INVARIANTS
  NoFalseNormal
