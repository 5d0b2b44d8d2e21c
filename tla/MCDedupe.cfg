SPECIFICATION FairSpec
CONSTANTS
  N = 3
  MaxHamming = 9
  MinTitleTokensForFuzzy = 3
  MinAutoMergeConfidence = 75
  Texts = {"a", "far", "b"}
  Derived <- TheDerived
  Body <- TheBody
  Url <- NoUrl
  Wordings <- YoungerChange
  Closable = {3}
  Workers = {w1}
  Sweepers = {s1}
  MaxBlockCandidates = 2
  SweepBatch = 1
  MaxEvents = 1
CHECK_DEADLOCK FALSE
INVARIANTS MergesAreAForest ProvenanceIsCanonical
PROPERTIES DuplicatesMeet
