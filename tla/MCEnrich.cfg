SPECIFICATION Spec
CONSTANTS
  Opps = {o1, o2}
  Contents = {c1, c2}
  Workers = {w1, w2}
  Models = {m1}
  ModelOf <- OneModel
  Stubs = {}
  Answers = {a1}
  Unreadable = {bad}
  Overlapping = {o2}
  MaxAttempts = 2
  MaxEvents = 2
SYMMETRY Symmetry
CHECK_DEADLOCK FALSE
INVARIANTS NoWorkerPaysTwice AttachedIsCurrent SkillsFollowContent
