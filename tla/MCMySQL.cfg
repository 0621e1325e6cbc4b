SPECIFICATION PartsSpec
CONSTANTS
  Clients = {c1, c2, c3}
  MIN_DB_CONN_CNT = 1
  m_db_max_conn_cnt = 2
  Calls = 2
  NULL = NULL
  NullReleasers = {c1, c2}
  Rows = {r1, r2}
  MaxLosses = 2
INVARIANTS ConnectionsInOnePlace NoMissedWakeup TransactionsKept
PROPERTIES ImplementsLease CallsReturn
