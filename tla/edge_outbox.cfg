SPECIFICATION FairSpec
CONSTANTS
  i1 = i1
  States = {1}
  Foreign = {9}
  Images = {i1}
  Second <- SameSecond
  MaxVersion = 2
  MaxCycles = 2
  MaxFaults = 1
  Lossy = FALSE
INVARIANTS
  TypeOK
  StatesKept
  MarkerCurrent
  ReferencesResolve
PROPERTIES
  OutboxDrains
