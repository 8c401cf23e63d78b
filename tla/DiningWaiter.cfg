SPECIFICATION Spec
CONSTANTS
  NUM_PHILS = 3
  ITERATION_LIMIT = 2
INVARIANTS
  WaiterTypeOK
  WaiterServesOne
PROPERTIES
  Terminates
CHECK_DEADLOCK FALSE
