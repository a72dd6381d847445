SPECIFICATION Spec
CONSTANTS
  MaxTime = 10
  Prices = {0, 1, 100, 333, 777777, 1000000}
  Calls = {0, 1, 2, 3, 4, 20}
  baseTxFee = 5000
  protocolFeeBps = 50
  channelOpenLamports = 5000
  channelCloseLamports = 5000
  pageTxFee = 5000
  pageFeeBps = 50
  pageOpenClose = 10000
  pageBreakEven = 2
  Supply = 10007
  Schedules <- MCSchedules
  Base = 10000
  Start = 1
  Payments = {p1, p2, uuid}
  LongIds = {uuid}
  Agents = {"a", "b"}
  Amounts = {1, 2}
  MinAmount <- MCMinAmount
  MaxAge = 2
  Skews <- MCSkews
CHECK_DEADLOCK FALSE
INVARIANTS
  FeesRight
  VestingRight
  ReceiptsRight
  LookupsRight
