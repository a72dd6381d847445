SPECIFICATION Spec
CONSTANTS
  MaxTime = 5
  Requests = {r1, r2, r3}
  Max = 1
  Window = 3
  MinBalance = 1
  Balances = {0, 1}
  Latency = 1
  Budget = 1
  Declared = {0, 1}
  Prices = {0, 2}
  TTL = 1
  MaxCalls = 2
  Ids = {i1, i2}
  Nonces = {n1, n2}
  Pieces <- MCPieces
  Blank = Blank
  Version = Version
  pieceA = pieceA
  hash1 = hash1
  hash2 = hash2
  Hashes = {hash1, hash2}
  Amounts = {1, 2}
  Sol = Sol
  Spl = Spl
  Channel = Channel
  Ceiling = 1
  Drafts <- MCDrafts
  Tokens = {tokenA, tokenB}
  NoToken = NoToken
  Unset = Unset
  DefaultTTL = 3
  Sendable <- MCSendable
SYMMETRY Symmetry
CHECK_DEADLOCK FALSE
INVARIANTS
  AdmissionSafe
  StoresSafe
  IntentsSafe
PROPERTIES
  VerdictIsRecent
  EndedIsFinal
  NothingAfterDeadline
