SPECIFICATION Spec
CONSTANTS
  Capacity = 1
  Crews <- Lines
CHECK_DEADLOCK FALSE
INVARIANTS TypeOK LocksInv OnlyKnownDeadlocks OutputFlows
