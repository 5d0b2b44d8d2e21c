SPECIFICATION Spec
CONSTANTS
  Runners = {r1}
  Operators = {op}
  Fields = {"location"}
  Reports <- SomeReports
  MinSample = 2
  YieldDropLimit = 10
  FillDropLimit = 20
  FillFloorToCare = 30
  ConsecutiveToQuarantine = 2
  BaselineWindowDays = 1
  MaxDay = 2
  MaxPolls = 4
  MaxFaults = 1
CHECK_DEADLOCK FALSE
INVARIANTS TypeOK RotIsCaught
PROPERTIES DegradedNeedsABadPoll
