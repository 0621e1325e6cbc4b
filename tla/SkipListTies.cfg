SPECIFICATION Spec
CONSTANTS
  Range32 = 16
  ZSKIPLIST_MAXLEVEL = 2
  Delays = {0, 1, 2, 3}
  MaxTimers = 4
  MaxClock = 2
  Ties = TRUE
INVARIANT CancelledIsUnlinked
CHECK_DEADLOCK FALSE
