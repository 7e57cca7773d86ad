SPECIFICATION Spec
CONSTANTS
  f1 = f1
  f2 = f2
  w1 = w1
  w2 = w2
  Fingerprints = {f1}
  NeedsConfirm = {f1}
  Required = 2
  Window = 2
  Stamps <- DenseStamps
  Cooldown = 2
  Timeout = 1
  Workers = {w1, w2}
  MaxClock = 4
  MaxRetries = 1
  MaxDuplicates = 1
  MaxFaults = 1
CHECK_DEADLOCK FALSE
SYMMETRY Symmetry
INVARIANTS
  ConfirmedByTwoSnapshots
