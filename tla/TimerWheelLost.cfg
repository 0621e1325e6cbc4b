SPECIFICATION Spec
CONSTANTS
  TIME_NEAR_SHIFT = 2
  TIME_LEVEL_SHIFT = 1
  Nodes = {n1}
  Delays = {1, 5, 9}
  Deletes = FALSE
PROPERTY EveryTimerExpires
