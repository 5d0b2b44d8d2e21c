SPECIFICATION FairSpec
CONSTANTS
  s1 = s1
  j1 = j1
  j2 = j2
  Sources = {s1}
  Jobs = {j1, j2}
  Lists <- AllJobs
  Conditional = {}
  ETagsRecur = TRUE
  Runners = {r1}
  Operators = {op}
  Duplicates <- Repost
  Batch = 1
  MaxMisses = 2
  LeaseOutlivesPoll = TRUE
  MaxText = 1
  MaxChanges = 1
  Faults = {"upsert"}
  MaxFaults = 1
INVARIANTS LinksAreCanonical
PROPERTIES EveryListingStored UnlistedCloses
