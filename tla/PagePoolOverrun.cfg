SPECIFICATION Spec
CONSTANTS
  MP_ALIGNMENT = 4
  MP_MAX_ALLOC_FROM_POOL = 16
  MaxFailed = 0
  SizeRange = 256
  PoolSizes = {8}
  Requests = {2, 4, 7, 9}
  MaxPages = 3
  Larges = {p1, p2}
INVARIANT BlocksInPages
CHECK_DEADLOCK FALSE
