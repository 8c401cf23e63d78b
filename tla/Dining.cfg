SPECIFICATION Spec
CONSTANTS
  NUM_PHILS = 3
  ITERATION_LIMIT = 2
INVARIANTS
  TypeOK
  ChopsticksExclusive
  LockedIsHeld
  SomebodyCanGoOn
PROPERTIES
  DeadlockDetected
  DeadlockReleased
  Terminates
CHECK_DEADLOCK FALSE
