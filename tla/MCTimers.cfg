SPECIFICATION PartsSpec
CONSTANTS
  TIME_NEAR_SHIFT = 1
  TIME_LEVEL_SHIFT = 2
  Nodes = {n1}
  Delays = {1, 7, 8, 32, 130}
  Deletes = FALSE
  Range32 = 16
  HeapDelays = {0, 1}
  HeapTimers = 6
  ZSKIPLIST_MAXLEVEL = 2
  ListDelays = {0, 1, 2}
  ListTimers = 4
  MaxClock = 1
INVARIANTS Placed OnTime HeapOrdered LevelsNested
PROPERTIES PlacedTimersExpire TimersInOrder
