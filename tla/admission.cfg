SPECIFICATION FairSpec
CONSTANTS
  s1 = s1
  s2 = s2
  s3 = s3
  Sessions <- Three
  Streams = {s1}
  MaxAttempts = 2
  MaxConcurrency = 2
  MidstreamRecovery = TRUE
  ClosesMayFail = FALSE
  None = None
CHECK_DEADLOCK FALSE
INVARIANTS TypeOK NoLostWakeup
PROPERTIES ImplementsCircuit EveryExecutionEnds
