SPECIFICATION PollingSpec
CONSTANTS
  N = 3
  MaxHamming = 9
  MinTitleTokensForFuzzy = 3
  MinAutoMergeConfidence = 75
  Texts = {"a"}
  Derived <- TheDerived
  Body <- TheBody
  Url <- NoUrl
  Wordings <- YoungerChange
  Closable = {1}
  Workers = {w1}
  Sweepers = {s1}
  MaxBlockCandidates = 2
  SweepBatch = 1
  MaxEvents = 2
CHECK_DEADLOCK FALSE
PROPERTY DedupeIsEventuallyConsistent
