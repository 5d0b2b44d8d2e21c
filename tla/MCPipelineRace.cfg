SPECIFICATION FairSpec
CONSTANTS
  Opps = {o1}
  w1 = w1
  w2 = w2
  w4 = w4
  w5 = w5
  w6 = w6
  w7 = w7
  Workers = {w1, w2, w4, w5, w7}
  StageOf <- Deployment
  Entry = {"deduped", "embedded"}
  MaxAttempts = 2
  BatchSize = 1
  Concurrency = 1
  MaxUpdates = 1
  MaxFaults = 1
INVARIANTS ItemCurrent ParkedSpent
PROPERTIES ImplementsLifecycle AdvanceEarned EveryRowMovesOn
CHECK_DEADLOCK FALSE
