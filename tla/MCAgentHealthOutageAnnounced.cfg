SPECIFICATION Spec
CONSTANTS
  Agents = {a1}
  Cycles = {y1}
  DatabaseFails = FALSE
INVARIANT OutageAnnounced
