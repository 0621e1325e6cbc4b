SPECIFICATION SafetySpec
CONSTANTS
  Clients = {c1, c2, c3}
  MIN_DB_CONN_CNT = 1
  m_db_max_conn_cnt = 2
  Calls = 2
  NULL = NULL
  NullReleasers = {c1, c2}
INVARIANT NullIsExplained
