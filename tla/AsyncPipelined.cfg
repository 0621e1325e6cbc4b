SPECIFICATION Spec
CONSTANTS
  Names = {a}
  MaxCommands = 3
  MaxNames = 1
  MaxPublished = 1
  Unruly = TRUE
INVARIANT AssertionsHold
CHECK_DEADLOCK FALSE
