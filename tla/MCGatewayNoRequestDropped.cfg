SPECIFICATION Spec
CONSTANTS
  gateway = gateway
  agent = agent
  idA = idA
  idB = idB
  idC = idC
  idL = idL
  nonce1 = nonce1
  nonce2 = nonce2
  ataG = ataG
  ataA = ataA
  Wallets <- MCWallets
  TokenOwner <- MCTokenOwner
  IntentIds <- MCIntentIds
  Derivable <- MCDerivable
  InitialSol <- MCInitialSol
  InitialTokens <- MCInitialTokens
  Gateway = gateway
  Requests = {r1, r2}
  PayIntents <- MCPayIntents
  Batches <- MCBatches
  TicksPerSecond = 2
  MaxTime = 3
SYMMETRY RequestSymmetry
CHECK_DEADLOCK FALSE
INVARIANT NoRequestDropped
