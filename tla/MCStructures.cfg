SPECIFICATION PartsSpec
CONSTANTS
  TIME_NEAR_SHIFT = 1
  TIME_LEVEL_SHIFT = 1
  Nodes = {n1, n2}
  Delays = {1, 9}
  Deletes = TRUE
  Bits = 3
  Sizes = {1, 2, 4}
  Bytes = {x, y}
  MaxRequest = 4
  Garbage = Garbage
  m_iNumObjects = 4
  m_sTrunkCount = 3
  MaxChunks = 2
  MP_ALIGNMENT = 4
  MP_MAX_ALLOC_FROM_POOL = 16
  MaxFailed = 0
  SizeRange = 256
  PoolSizes = {1, 8}
  Requests = {2, 4, 7, 9}
  MaxPages = 4
  Larges = {p1, p2}
SYMMETRY Symmetry
INVARIANTS LinkedOnce FreeListsWhole PagesWhole
PROPERTIES ImplementsQueue FreeListsArePools
