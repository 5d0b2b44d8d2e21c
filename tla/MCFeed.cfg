SPECIFICATION FairSpec
CONSTANTS
  Ids = {3, 4, 5}
  Times = {1, 2}
  Facets = {f1, f2}
  Readers = {c1}
  Sizes = {0, 3}
  DefaultPageSize = 1
  MaxPageSize = 2
  MaxEvents = 2
CHECK_DEADLOCK FALSE
INVARIANTS NoRowTwice NoRowSkipped
PROPERTIES WalksEnd
