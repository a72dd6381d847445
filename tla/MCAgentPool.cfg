SPECIFICATION Spec
CONSTANTS
  Callers = {c1, c2}
  Size = 2
  Price = 1
  ChannelFund = 1
  RefundThreshold = 1
  RefundAmount = 1
  MaxCalls = 3
  MaxChecks = 1
  MaxDrains = 1
SYMMETRY Symmetry
CHECK_DEADLOCK FALSE
INVARIANTS
  PoolSafe
  NeverPartlyFilled
  BooksBalance
