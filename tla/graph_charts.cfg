SPECIFICATION Spec
CONSTANTS
  BucketTicks = 3
  Messages <- SomeMessages
  WindowTicks = 9
  Phases = {0, 2}
  Windows = {1, 2}
  MaxTime = 8
  MaxFaults = 1
  MaxRequests = 2
INVARIANTS
  CountedOnce
  PointsDisjoint
  AverageInRange
  SpikesShown
  NothingSkipped
