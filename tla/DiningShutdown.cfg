SPECIFICATION Spec
CONSTANTS
  NUM_PHILS = 3
  ITERATION_LIMIT = 2
PROPERTIES
  PhilosophersExit
CHECK_DEADLOCK FALSE
