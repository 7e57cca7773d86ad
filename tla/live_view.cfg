SPECIFICATION FairSpec
CONSTANTS
  a = "a"
  b = "b"
  Factories <- TwoFactories
  MaxRetries = 1
  MaxChanges = 1
  MaxVisits = 2
  MaxFaults = 1
  MaxRequests = 2
  MaxSockets = 2
INVARIANTS
  OwnFactoryOnceAnswered
PROPERTIES
  EventuallyCurrent
