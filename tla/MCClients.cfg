SPECIFICATION Spec
CONSTANTS
  MaxTime = 7
  Pays = {p1, p2}
  Timeout = 3
  Latency = 1
  WatchEvery = 2
  maxAttempts = 3
  baseDelay = 1
  maxDelay = 2
  Tasks = {t1, t2}
  Names <- MCNames
  Offered <- MCOffered
  ListPrice <- MCListPrice
  MaxPrice = 1
  Asked = {1, 2}
  MaxCalls = 3
CHECK_DEADLOCK FALSE
INVARIANTS
  ClientSafe
  LinksSafe
  ReconnectsBounded
PROPERTIES
  CallsEnd
