SPECIFICATION Spec
CONSTANTS
  s1 = s1
  s2 = s2
  s3 = s3
  Sessions <- Two
  Streams <- Two
  MaxAttempts = 3
  MaxConcurrency = 2
  MidstreamRecovery = TRUE
  ClosesMayFail = FALSE
  None = None
CHECK_DEADLOCK FALSE
INVARIANT NoSlotDuringBackoff
