CONSTANTS
  Cap = 2
  MaxMsgs = 3
  MaxLines = 1
  MaxConns = 2
SPECIFICATION Spec
INVARIANTS TypeOK DeliveredInOrder OneLiveConnection NoLineTwice
PROPERTIES EOFExits WorksAsListProxy
CHECK_DEADLOCK FALSE
