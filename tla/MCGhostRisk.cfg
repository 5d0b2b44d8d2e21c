SPECIFICATION Spec
CONSTANTS
  Posts = {p1, p2}
  RepostElevated = 2
  RepostHigh = 3
  StaleDays = 2
  VeryStaleDays = 4
  MedianElevated = 2
  MedianHigh = 4
  MaxDay = 4
  MaxPolls = 5
  MaxEvents = 2
CHECK_DEADLOCK FALSE
INVARIANTS TypeOK NeverRefreshedNeverCounted OrdinaryIsNormal
