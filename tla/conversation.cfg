SPECIFICATION FairSpec
CONSTANTS
  c1 = c1
  c2 = c2
  None = None
  MaxTurns = 3
  Openers = {1, 3}
  Redelivered = {3}
  Commands <- One
  SlowStops = FALSE
CHECK_DEADLOCK FALSE
INVARIANTS TypeOK OneExecution NoTurnStranded TreesConsistent NothingSurvivesStop
PROPERTIES NoRevival NoRunAfterRemoval EverybodyEnds
