SPECIFICATION FairSpec
CONSTANTS
  Emails = {e1}
  Requests = {r1, r2}
  LockoutThreshold = 2
  MaxEvents = 6
CHECK_DEADLOCK FALSE
INVARIANTS SessionsTypeOK AuditVerifies LiveSessionIsCurrent LockoutCounts
PROPERTIES RequestsEnd
