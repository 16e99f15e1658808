CONSTANTS
  Producers = {p1, p2}
  Detached = {p2}
  ApiInCallback = FALSE
  MaxEvents = 3
  MaxOpens = 1
SPECIFICATION FairSpec
PROPERTIES
  CloseReturns
  Delivered
CHECK_DEADLOCK FALSE
