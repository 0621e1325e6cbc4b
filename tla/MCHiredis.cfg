SPECIFICATION PartsSpec
CONSTANTS
  Names = {a, b}
  MaxCommands = 3
  MaxNames = 1
  MaxPublished = 1
  Unruly = FALSE
  Addrs = 2
  Retries = 2
  MaxAppended = 3
  MaxConnections = 2
  Replies <- MCReplies
  MaxReplies = 2
  Depth = 3
  LongLong <- MCLongLong
  DiscardAt = 4
  Keys = {1, 2, 3}
  Vals = {"u", "v"}
  Hash <- MCHash
  InitialSize = 1
  Chars = {"a", "b", "0"}
  SDS_MAX_PREALLOC = 4
  TypeRange <- MCTypeRange
  MaxLen = 4
INVARIANTS PartsTypeOK CallbacksMatch AssertionsHold LeavesSubscribedMode RepliesMatch RepliesInOrder
PROPERTIES CommandsEnd RepliesArrive DictIsMap
CHECK_DEADLOCK FALSE
