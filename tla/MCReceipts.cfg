SPECIFICATION Spec
CONSTANTS
  alice = alice
  bob = bob
  Payers <- MCPayers
  Payees <- MCPayees
  Nonces = {n1, n2}
  Amounts = {0, 1, 2}
  ChannelExpiries = {0, 1}
  ProofExpiries = {1, 3}
  InitialFunds <- MCInitialFunds
  MaxU64 = 3
  MaxI64 = 3
  Retention = 1
  OverflowChecks = FALSE
  MaxTime = 2
INVARIANT ReceiptForCompletedPayment
CHECK_DEADLOCK FALSE
