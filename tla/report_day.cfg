SPECIFICATION Spec
CONSTANTS
  Hours = 2
  HourTicks = 8
  MaxGaps = 3
  MaxEvents = 4
  MaxBonus = 4
  MaxHourlyEvents = 3
  MaxCloudEvents = 6
  Interval <- SomeIntervals
  Allowed <- SomeAllowed
  Days <- SomeDays
  MaxRuns = 2
  MaxFaults = 1
INVARIANTS
  DayAccountedFor
  SilenceReported
  WorstIsReported
  JudgementsAgree
  IncidentsUnited
CHECK_DEADLOCK FALSE
