SPECIFICATION FeedSpec
CONSTANTS
  Agents = {a1, a2}
  NoAgent = NoAgent
  Topics = {a1, a2}
  Subscription = a1
  MaxSockets = 2
  MaxAttempt = 1
  MaxEvents = 2
  MaxConnects = 2
  MaxDrops = 1
CHECK_DEADLOCK FALSE
INVARIANTS
  FeedSafe
  OneChainPerConnect
  InOrderOnce
PROPERTIES
  Reconnects
