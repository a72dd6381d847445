SPECIFICATION Spec
CONSTANTS
  call1 = call1
  call2 = call2
  payer = payer
  seller = seller
  cheap = cheap
  dear = dear
  trial = trial
  Calls <- MCCalls
  walletOf <- MCWalletOf
  maxAmount <- MCMaxAmount
  Resources <- MCResources
  payeeOf <- MCPayeeOf
  price <- MCPrice
  gate <- AcceptGate
  Nonces = {n1, n2}
  InitialFunds <- MCInitialFunds
  Ttl = 1
  ProofMaxAge = 1
  MaxI64 = 9
  Retention = 1
  OverflowChecks = FALSE
  MaxTime = 3
  MaxDeliveries = 2
SYMMETRY NonceSymmetry
CHECK_DEADLOCK FALSE
INVARIANT AcceptTakesPaidProof
