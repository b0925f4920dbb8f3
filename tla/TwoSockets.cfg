CONSTANTS
  Id = {a}
  MaxSessions = 2
  MaxInput = 1
  MaxNet = 3
  MaxLink = 1
SPECIFICATION Spec
CHECK_DEADLOCK FALSE
INVARIANTS NewHandleStays
