CONSTANTS
  Callers = {c1, c2}
  MaxRevision = 2
  Priorities = {10, 100}
SPECIFICATION Spec
INVARIANTS PriorityIsBoosted
CHECK_DEADLOCK FALSE
