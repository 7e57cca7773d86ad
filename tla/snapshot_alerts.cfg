SPECIFICATION Spec
CONSTANTS
  MaxMessages = 3
  FactoryScales <- SomeFactoryScales
  InfraScales <- SomeInfraScales
  AgeScale <- SomeAgeScale
  FastScales <- SomeFastScales
  SlowScales <- SomeSlowScales
INVARIANTS
  LevelIsWorstOfGates
  DangerIsAlerted
  LatenessAlertedOnce
  AbnormalIsAlerted
  CriticalIsImmediate
PROPERTY WorseNeverScoresHigher
CHECK_DEADLOCK FALSE
