CONSTANTS
  MaxRequests = 2
  Bodies <- FewBodies
  Limit = 5
SPECIFICATION EventSpec
PROPERTY EveryRequestAnswered
CHECK_DEADLOCK FALSE
