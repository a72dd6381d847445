SPECIFICATION LiveSpec
CONSTANTS
  Agents = {a1}
  Cycles = {y1, y2}
  DatabaseFails = FALSE
PROPERTIES
  OfflineMeansTwoInARow
  DeadIsMarked
