CONSTANTS
  Callers = {c1, c2, c3}
  MaxRevision = 2
  Priorities = {10, 100}
SPECIFICATION Spec
INVARIANTS TypeOK ReturnedCallIsQueued OnlyOlderSuperseded
CHECK_DEADLOCK FALSE
