SPECIFICATION ErasureSpec
CONSTANTS
  Uploads = {u1}
  Erasures = {e1, e2}
  Written = {"profile"}
  MaxFaults = 2
CHECK_DEADLOCK FALSE
INVARIANTS ErasureTypeOK GoneStaysGone NothingStranded CompleteMeansErased VerifiedMeansErased
