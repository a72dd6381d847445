SPECIFICATION Spec
CONSTANTS
  Agents = {a1, a2}
  Cycles = {y1}
  DatabaseFails = TRUE
SYMMETRY Symmetry
INVARIANTS
  AlarmsSafe
PROPERTIES
  TableFollowsProbe
