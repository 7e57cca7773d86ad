SPECIFICATION FairSpec
CONSTANTS
  w1 = w1
  w2 = w2
  Messages <- OneEach
  WarnAge = 0
  CriticalAge = 1
  Timeout = 1
  Workers = {w1}
  MaxClock = 2
  MaxDuplicates = 1
  MaxRetries = 1
  MaxFaults = 1
INVARIANTS
  DoneIsStored
PROPERTIES
  EventuallyProcessed
  SilenceDetected
  EventuallyCoherent
  EventuallyRecorded
