SPECIFICATION Spec
CONSTANTS
  MaxRequests = 2
  Room = 1
INVARIANT ConnectedClientListens
CHECK_DEADLOCK FALSE
