SPECIFICATION FairSpec
CONSTANTS
  c1 = c1
  c2 = c2
  c3 = c3
  k1 = k1
  k2 = k2
  None = None
  Calls <- Three
  Keys <- Two
  KeyOf <- SharedKey
  Forgets <- OneForgets
  MaxRetries = 1
CHECK_DEADLOCK FALSE
INVARIANTS TypeOK QueueMatchesMap NoFutureForgotten ShutdownSound FloodRespected
PROPERTY EveryCallEnds
