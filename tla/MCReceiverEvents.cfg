CONSTANTS
  MaxRequests = 3
  Bodies <- MCBodies
  Limit = 5
SPECIFICATION EventSpec
INVARIANT EventInv
PROPERTY ModestRequestsAnswered
CHECK_DEADLOCK FALSE
