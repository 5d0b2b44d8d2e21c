SPECIFICATION FairSpec
CONSTANTS
  Opps = {o1, o2}
  w1 = w1
  w2 = w2
  w4 = w4
  w5 = w5
  w6 = w6
  w7 = w7
  Workers = {w2}
  StageOf <- Deployment
  Entry = {"normalized"}
  MaxAttempts = 2
  BatchSize = 1
  Concurrency = 1
  MaxUpdates = 0
  MaxFaults = 1
PROPERTIES ImplementsLifecycle SweepReachesAll
CHECK_DEADLOCK FALSE
