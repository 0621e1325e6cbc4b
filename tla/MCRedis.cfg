SPECIFICATION PartsSpec
CONSTANTS
  Clients = {c1, c2, c3}
  Conns = {1, 2}
  MIN_CACHE_CONN_CNT = 1
  m_max_conn_cnt = 2
  Calls = 2
  m_password = TRUE
  NULL = NULL
  MaxLost = 1
INVARIANTS ConnectionsInOnePlace NoMissedWakeup ResourcesReturned UnansweredNotTold
PROPERTIES ImplementsLease CallsReturn ConnRecovers
