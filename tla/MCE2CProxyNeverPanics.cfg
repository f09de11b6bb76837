CONSTANTS
  Cap = 1
  MaxMsgs = 2
  MaxLines = 2
  MaxConns = 2
SPECIFICATION Spec
INVARIANT NeverPanics
CHECK_DEADLOCK FALSE
