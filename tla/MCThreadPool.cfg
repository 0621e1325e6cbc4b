SPECIFICATION Spec
CONSTANTS
  Producers = {p1, p2}
  Workers = {w1, w2}
  Closers = {c1, c2}
  queue_max_num = 2
  JobsEach = 2
  NULL = NULL
INVARIANTS TypeOK Bookkeeping NoMissedWakeup ExactlyOnce OrderlyShutdown
PROPERTIES ImplementsExecutor CallsReturn
