SPECIFICATION Spec
CONSTANTS
  Buffer = 2
  Base = 2
  MaxData = 5
INVARIANTS
  AllIsSent
CHECK_DEADLOCK FALSE
