SPECIFICATION Spec
CONSTANTS
  NUM_PHILS = 3
  ITERATION_LIMIT = 1
INVARIANTS
  NeighboursEatApart
CHECK_DEADLOCK FALSE
