\* Level changes, disconnects and drops in the middle of a connection.
SPECIFICATION Spec
CONSTANTS
  Parts = 1
  Known = FALSE
  ReconnectArrives = FALSE
  Patient = FALSE
  MaxLevels = 2
  MaxSequence = 4
  MaxWire = 3
  MaxRequests = 2
  MaxDisconnects = 1
  MaxDrops = 1
INVARIANTS NobodyForgotten
CHECK_DEADLOCK FALSE
