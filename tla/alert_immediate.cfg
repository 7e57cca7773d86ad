SPECIFICATION FairSpec
CONSTANTS
  f1 = f1
  f2 = f2
  w1 = w1
  w2 = w2
  Fingerprints = {f1}
  NeedsConfirm = {}
  Required = 2
  Window = 2
  Stamps <- DenseStamps
  Cooldown = 2
  Timeout = 1
  Workers = {w1, w2}
  MaxClock = 4
  MaxRetries = 1
  MaxDuplicates = 0
  MaxFaults = 1
CHECK_DEADLOCK FALSE
INVARIANTS
  TypeOK
  StatusHonest
  LossesAttributable
  ChannelSpaced
  ChannelInOrder
PROPERTIES
  ThrottleSpec
  EventuallyAlerted
