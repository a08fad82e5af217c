SPECIFICATION Spec
CONSTANTS
  c1 = c1
  c2 = c2
  None = None
  MaxTurns = 3
  Openers = {1, 3}
  Redelivered = {3}
  Commands <- Two
  SlowStops = TRUE
CHECK_DEADLOCK FALSE
INVARIANT NothingSurvivesStop
