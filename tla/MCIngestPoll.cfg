SPECIFICATION FairSpec
CONSTANTS
  s1 = s1
  j1 = j1
  j2 = j2
  Sources = {s1}
  Jobs = {j1, j2}
  Lists <- AllJobs
  Conditional = {s1}
  ETagsRecur = FALSE
  Runners = {r1, r2}
  Operators = {}
  Duplicates <- Repost
  Batch = 1
  MaxMisses = 2
  LeaseOutlivesPoll = TRUE
  MaxText = 2
  MaxChanges = 2
  Faults = {"fetch", "statement", "crash"}
  MaxFaults = 1
INVARIANTS NoDoubleFiring NotModifiedMeansStored
PROPERTIES ClosedAfterMisses EverySourcePolled
