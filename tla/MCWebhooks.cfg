SPECIFICATION WebhooksSpec
CONSTANTS
  Jobs = {j1}
  Hooks = {h1, h2}
  Kinds = {accepted, rejected}
  MaxPosts = 1
  MaxFlips = 1
CHECK_DEADLOCK FALSE
INVARIANTS
  WebhooksSafe
  DuplicatesExplained
PROPERTIES
  DispatchEnds
